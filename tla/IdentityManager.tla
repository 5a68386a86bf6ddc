---------------------------- MODULE IdentityManager ----------------------------
(***************************************************************************)
(* Accounts and sessions of the server: the identity manager over its one  *)
(* file (server/internal/identity/manager.go, seed.go), the table of       *)
(* bearer tokens (server/internal/auth/tokens.go), and the handlers that   *)
(* use both (server/internal/auth/http.go).                                *)
(*                                                                         *)
(* Handlers run concurrently.  RegisterUser holds m.mu from the search for *)
(* a clash to the end of the write; the readers' steps wait for it.  The   *)
(* session token is issued under another lock, after m.mu is released.     *)
(* The process may die at any step: the file stays, tokens and requests    *)
(* are gone.                                                               *)
(***************************************************************************)
EXTENDS Integers, FiniteSetsExt, Functions

CONSTANTS Handlers,       \* goroutines serving HTTP and gRPC requests
          Folds,          \* nicknames, grouped by what strings.EqualFold takes for equal
          Passwords,      \* long enough for RegisterUser
          LooksHashed,    \* those of them isHashedPassword takes for a salt and a hash
          Certs,          \* device certificates
          NoCert,         \* the empty certificate
          Tokens,         \* bound: tokens randomToken gives out
          MaxUserID,      \* bound: numbers nextUserIDLocked reaches
          Found,          \* the sets of accounts a file may come with
          FaultyDisk      \* whether writing the file may fail

ASSUME PasswordsAssumption == LooksHashed \subseteq Passwords
ASSUME CertsAssumption == NoCert \notin Certs
ASSUME BoundsAssumption == MaxUserID \in Nat \ {0}
ASSUME FaultyDiskAssumption == FaultyDisk \in BOOLEAN

VARIABLES phase,      \* of the process: see Phases
          users,      \* m.users
          disk,       \* the file at m.path
          request,    \* what each handler is doing
          tokens,     \* TokenManager.tokens: token -> the account of its identity
          expired,    \* issued tokens whose lifetime is over
          found,      \* history: the accounts of the file found at first
          spent,      \* history: tokens issued so far
          told        \* history: accounts a caller was told of

sessions == <<tokens, expired, spent>>
vars == <<phase, users, disk, request, sessions, told, found>>

Phases == {"down", "seeding", "seedWrite", "loading", "migrating", "up"}

Nicknames == UNION Folds

EqualFold(m, n) == \E F \in Folds : {m, n} \subseteq F

(* A password as the file holds it: as typed, or salted and hashed.        *)
Stored == [form : {"plain", "hash"}, word : Passwords]

(* UserID is the number in user-0001; 0 is the one name without a number   *)
(* (bound).                                                                *)
User == [userID : Nat, nickname : Nicknames, password : Stored, cert : Certs \cup {NoCert}]

(* A file comes from a map keyed by the identifier (persistLocked), so no  *)
(* two of its accounts have one identifier; being finite, it has a largest.*)
(* Nothing keeps nicknames, certificates or passwords of it from clashing. *)
ASSUME FoundAssumption ==
    \A S \in Found :
        /\ S \subseteq User
        /\ \A u, v \in S : u # v => u.userID # v.userID
        /\ \A u \in S : u.userID <= MaxUserID
        /\ \E m \in {0} \cup {u.userID : u \in S} : \A u \in S : u.userID <= m

Files == [file : {"absent", "empty", "accounts"}, users : SUBSET User]

Idle == [op |-> "idle"]

Requests == {Idle}
            \cup [op : {"persist", "issue"}, user : User]
            \cup [op : {"check"}, token : Tokens]
            \cup [op : {"list"}]

NoTokens == [k \in {} |-> {}]

(* No file yet, or one of an earlier run or release: load takes whatever   *)
(* accounts it has, clashing ones too, with hashed passwords or not.       *)
Init == /\ phase = "down"
        /\ users = {}
        /\ \/ disk = [file |-> "absent", users |-> {}]
           \/ \E S \in Found : disk = [file |-> "accounts", users |-> S]
        /\ found = disk.users
        /\ request = [t \in Handlers |-> Idle]
        /\ tokens = NoTokens
        /\ expired = {}
        /\ spent = {}
        /\ told = {}

-------------------------------------------------------------------------------
(* Start-up: EnsureSeedData, then NewManager.                              *)

Boot == /\ phase = "down"
        /\ phase' = "seeding"
        /\ UNCHANGED <<users, disk, request, sessions, told>>

SeedCreate == /\ phase = "seeding"
              /\ disk.file = "absent"
              /\ phase' = "seedWrite"
              /\ disk' = [file |-> "empty", users |-> {}]
              /\ UNCHANGED <<users, request, sessions, told>>

SeedWrite == /\ phase = "seedWrite"
             /\ phase' = "loading"
             /\ disk' = [file |-> "accounts", users |-> {}]
             /\ UNCHANGED <<users, request, sessions, told>>

SeedSkip == /\ phase = "seeding"
            /\ disk.file # "absent"
            /\ phase' = "loading"
            /\ UNCHANGED <<users, disk, request, sessions, told>>

isHashedPassword(password) == password.form = "hash" \/ password.word \in LooksHashed

hashPassword(word) == [form |-> "hash", word |-> word]

BugMigrateNothing(u) == u
BugMigrateBare(u) == [u EXCEPT !.password = u.password.word]
Migrate(u) == IF isHashedPassword(u.password)
              THEN u
              ELSE [userID |-> u.userID, nickname |-> u.nickname, cert |-> u.cert,
                    password |-> hashPassword(u.password.word)]

Load == /\ phase = "loading"
        /\ users' = {Migrate(u) : u \in disk.users}
        /\ phase' = IF users' # disk.users THEN "migrating" ELSE "up"
        /\ UNCHANGED <<disk, request, sessions, told>>

BugPersisted == disk
BugPersistedEmpty == [file |-> "accounts", users |-> {}]
Persisted == [file |-> "accounts", users |-> users]

MigratePersist == /\ phase = "migrating"
                  /\ disk' = Persisted
                  /\ phase' = "up"
                  /\ UNCHANGED <<users, request, sessions, told>>

(* The process is killed, or ends itself: log.Fatalf when a write fails.   *)
Crash == /\ phase # "down"
         /\ phase' = "down"
         /\ users' = {}
         /\ request' = [t \in Handlers |-> Idle]
         /\ tokens' = NoTokens
         /\ expired' = {}
         /\ UNCHANGED <<disk, spent, told>>

-------------------------------------------------------------------------------
(* Handlers.                                                               *)

Finish(t) == request' = [request EXCEPT ![t] = Idle]

Begin(t, r) == /\ phase = "up"
               /\ request[t] = Idle
               /\ request' = [request EXCEPT ![t] = r]

(* m.mu is held for writing.                                               *)
Locked == \E t \in Handlers : request[t].op = "persist"

Clash(u, v) == \/ u.userID = v.userID
               \/ EqualFold(u.nickname, v.nickname)
               \/ u.cert # NoCert /\ u.cert = v.cert

BugTaken(nickname, cert) == \E u \in users : EqualFold(u.nickname, nickname)
(* ErrNicknameTaken, ErrCertificateAlreadyAssigned.                        *)
Taken(nickname, cert) == \E u \in users : EqualFold(u.nickname, nickname) \/ u.cert = cert

nextUserIDLocked == 1 + Max({0} \cup {u.userID : u \in users})

(* handleRegister, and RegisterUser up to the write: once the lock is had, *)
(* the account enters memory.  A refused registration changes nothing.     *)
RegisterEnrol(t, nickname, password, cert) ==
    /\ ~Locked
    /\ ~Taken(nickname, cert)
    /\ nextUserIDLocked <= MaxUserID
    /\ LET user == [userID |-> nextUserIDLocked, nickname |-> nickname,
                    password |-> hashPassword(password), cert |-> cert]
       IN  /\ users' = users \cup {user}
           /\ Begin(t, [op |-> "persist", user |-> user])
    /\ UNCHANGED <<phase, disk, sessions, told>>

RegisterPersist(t) == /\ request[t].op = "persist"
                      /\ disk' = Persisted
                      /\ request' = [request EXCEPT ![t].op = "issue"]
                      /\ UNCHANGED <<phase, users, sessions, told>>

BugTakeBack(t) == UNCHANGED users
TakeBack(t) == users' = users \ {request[t].user}

RegisterFail(t) == /\ FaultyDisk
                   /\ request[t].op = "persist"
                   /\ TakeBack(t)
                   /\ Finish(t)
                   /\ UNCHANGED <<phase, disk, sessions, told>>

comparePassword(stored, word) == stored = hashPassword(word)

(* Authenticate: the first account of the map with this nickname decides.  *)
(* The certificate is compared when the request has one.                   *)
Login(t, nickname, word, cert) ==
    /\ ~Locked
    /\ \E u \in users :
          /\ EqualFold(u.nickname, nickname)
          /\ comparePassword(u.password, word)
          /\ cert \in {NoCert, u.cert}
          /\ Begin(t, [op |-> "issue", user |-> u])
    /\ UNCHANGED <<phase, users, disk, sessions, told>>

(* respondWithSession.  The reply may not reach the caller, but the        *)
(* account stays.                                                          *)
Respond(t) == /\ request[t].op = "issue"
              /\ \E k \in Tokens \ spent :
                    /\ tokens' = [x \in DOMAIN tokens \cup {k} |->
                                     IF x = k THEN request[t].user ELSE tokens[x]]
                    /\ spent' = spent \cup {k}
              /\ told' \in {told, told \cup {request[t].user}}
              /\ Finish(t)
              /\ UNCHANGED <<phase, users, disk, expired>>

(* IssueToken has no randomness: an error for an account that stays.       *)
RespondFails(t) == /\ request[t].op = "issue"
                   /\ Finish(t)
                   /\ UNCHANGED <<phase, users, disk, sessions, told>>

Expire(k) == /\ k \in DOMAIN tokens \ expired
             /\ expired' = expired \cup {k}
             /\ UNCHANGED <<phase, users, disk, request, tokens, spent, told>>

(* ValidateToken looks the token up under the read lock,                   *)
ReadToken(t, k) == /\ k \in DOMAIN tokens
                   /\ Begin(t, [op |-> "check", token |-> k])
                   /\ UNCHANGED <<phase, users, disk, sessions, told>>

(* releases it, looks at the clock, and takes the write lock to drop the   *)
(* token, which another handler may have dropped already.                  *)
CheckExpired(t) == /\ request[t].op = "check"
                   /\ request[t].token \in expired
                   /\ tokens' = Restrict(tokens, DOMAIN tokens \ {request[t].token})
                   /\ Finish(t)
                   /\ UNCHANGED <<phase, users, disk, expired, spent, told>>

CheckValid(t) == /\ request[t].op = "check"
                 /\ request[t].token \notin expired
                 /\ request' = [request EXCEPT ![t] = [op |-> "list"]]
                 /\ UNCHANGED <<phase, users, disk, sessions, told>>

(* handleListUsers answers with every profile.                             *)
ListUsers(t) == /\ request[t].op = "list"
                /\ ~Locked
                /\ told' = told \cup users
                /\ Finish(t)
                /\ UNCHANGED <<phase, users, disk, sessions>>

(* WhoAmI over mutual TLS: ValidateCertificate answers with the first      *)
(* account of the map that has the certificate.                            *)
WhoAmI(cert) == /\ phase = "up"
                /\ ~Locked
                /\ \E u \in users : u.cert = cert /\ told' = told \cup {u}
                /\ UNCHANGED <<phase, users, disk, request, sessions>>

-------------------------------------------------------------------------------
Startup == \/ Boot
           \/ SeedCreate
           \/ SeedWrite
           \/ SeedSkip
           \/ Load
           \/ MigratePersist

Registering(t) == \/ \E n \in Nicknames, p \in Passwords, c \in Certs :
                        RegisterEnrol(t, n, p, c)
                  \/ RegisterPersist(t)
                  \/ RegisterFail(t)

LoggingIn(t) == \/ \E n \in Nicknames, p \in Passwords, c \in Certs \cup {NoCert} :
                      Login(t, n, p, c)
                \/ Respond(t)
                \/ RespondFails(t)

UsingToken(t) == \/ \E k \in Tokens : ReadToken(t, k)
                 \/ CheckExpired(t)
                 \/ CheckValid(t)
                 \/ ListUsers(t)

Next == /\ \/ Startup
           \/ \E t \in Handlers : Registering(t)
           \/ \E t \in Handlers : LoggingIn(t)
           \/ \E t \in Handlers : UsingToken(t)
           \/ \E k \in Tokens : Expire(k)
           \/ \E c \in Certs : WhoAmI(c)
           \/ Crash
        /\ UNCHANGED found

Spec == Init /\ [][Next]_vars

-------------------------------------------------------------------------------
(* Every variable has its type (the fields of Manager and TokenManager).   *)
TypeOK == /\ phase \in Phases
          /\ users \subseteq User
          /\ disk \in Files
          /\ request \in [Handlers -> Requests]
          /\ DOMAIN tokens \subseteq Tokens
          /\ \A k \in DOMAIN tokens : tokens[k] \in User
          /\ expired \subseteq Tokens
          /\ spent \subseteq Tokens
          /\ told \subseteq User
          /\ found \subseteq User

Identity(u) == [userID |-> u.userID, nickname |-> u.nickname, cert |-> u.cert]
Identities(set) == {Identity(u) : u \in set}

(* Two accounts clash only if both came with the file.                     *)
MayClash(u, v) == {Identity(u), Identity(v)} \subseteq Identities(found)

Distinct(set) == \A u, v \in set :
                    u # v => u.userID # v.userID /\ (Clash(u, v) => MayClash(u, v))

(* No two accounts share an identifier, and the manager adds none with a   *)
(* nickname (up to case) or certificate that another has, in memory and in *)
(* the file, however registrations interleave, fail and are retried.  Two  *)
(* accounts that clash were both in the file found at first: load checks   *)
(* none of it.                                                             *)
AccountsDistinct == Distinct(users) /\ Distinct(disk.users)

(* When no registration holds the lock, memory is the file: a failed write *)
(* leaves no account that refuses its nickname to others until a restart.  *)
MemoryMatchesFile == phase = "up" /\ ~Locked => users = disk.users

(* A session is one of an account of the file.                             *)
SessionsNameAccounts == \A k \in DOMAIN tokens : tokens[k] \in disk.users

(* Once the server is up, the file holds no password as it was typed but   *)
(* one that looks like a salt and a hash: isHashedPassword takes such a    *)
(* word of an old file (b64:b64) for hashed, and load leaves it plain.     *)
NoPlainPasswords ==
    phase = "up" => \A u \in disk.users :
                        u.password.form = "plain" => u.password.word \in LooksHashed

(* The file implements the account book: it only gains accounts that clash *)
(* with none before them, and what somebody was told of, in a session, a   *)
(* listing or over mutual TLS, is in it.                                   *)
Book == INSTANCE AccountBook
            WITH Accounts <- [userID : 0..MaxUserID, nickname : Nicknames, cert : Certs \cup {NoCert}],
                 book <- Identities(disk.users),
                 told <- Identities(told)
ImplementsBook == Book!Spec
===============================================================================
