------------------------- MODULE IdentityManagerProofs -------------------------
(***************************************************************************)
(* Theorems about IdentityManager for every number of handlers, all        *)
(* nicknames, passwords, certificates and tokens, every file found, and a  *)
(* disk that fails or not: no registration brings accounts that clash into *)
(* memory or the file, memory is the file, sessions are of accounts in the *)
(* file, and the whole implements AccountBook.                             *)
(***************************************************************************)
EXTENDS IdentityManager, TLAPS

(* Memory and the file, in the phases of the process and with the one      *)
(* registration that holds the lock.                                       *)
MemoryOK ==
    /\ phase \notin {"migrating", "up"} => users = {}
    /\ phase = "migrating" => users = {Migrate(u) : u \in disk.users}
    /\ phase = "up" /\ ~Locked => users = disk.users
    /\ phase # "up" => DOMAIN tokens = {} /\ \A t \in Handlers : request[t] = Idle

LockOK ==
    /\ \A t, s \in Handlers : request[t].op = "persist" /\ request[s].op = "persist" => t = s
    /\ \A t \in Handlers : request[t].op = "persist" =>
          /\ users = disk.users \cup {request[t].user}
          /\ request[t].user \notin disk.users
          /\ \A u \in disk.users : ~Clash(u, request[t].user)

(* Identifiers have a largest one, for nextUserIDLocked to go on from.     *)
HasLargest(set) == \E m \in {0} \cup {u.userID : u \in set} : \A u \in set : u.userID <= m

NumbersOK == /\ HasLargest(disk.users)
             /\ \A u \in users \cup disk.users : u.userID <= MaxUserID

FileOK == disk.file # "accounts" \/ phase = "seedWrite" => disk.users = {}

(* Whoever is to get a session is in the file.                             *)
IssuesOK == \A t \in Handlers : request[t].op = "issue" => request[t].user \in disk.users

HashedOK == phase = "up" => \A u \in users : isHashedPassword(u.password)

ToldOK == \A u \in told : \E v \in disk.users : Identity(v) = Identity(u)

IInv == /\ TypeOK
        /\ MemoryOK
        /\ LockOK
        /\ NumbersOK
        /\ FileOK
        /\ IssuesOK
        /\ HashedOK
        /\ ToldOK
        /\ AccountsDistinct
        /\ SessionsNameAccounts

-------------------------------------------------------------------------------
(* The operators the model is built from.                                  *)

LEMMA Largest ==
    ASSUME NEW set \in SUBSET User, HasLargest(set)
    PROVE  LET m == Max({0} \cup {u.userID : u \in set})
           IN  m \in Nat /\ \A u \in set : u.userID <= m
<1> DEFINE S == {0} \cup {u.userID : u \in set}
<1>1. S \subseteq Nat
  BY DEF User
<1>2. PICK m \in S : \A u \in set : u.userID <= m
  BY DEF HasLargest
<1>3. \A y \in S : m >= y
  BY <1>1, <1>2 DEF User
<1> HIDE DEF S
<1>4. Max(S) \in S /\ \A y \in S : Max(S) >= y
  BY <1>3 DEF Max
<1>5. \A u \in set : u.userID \in S
  BY DEF S
<1>6. \A u \in set : u.userID <= Max(S)
  BY <1>1, <1>4, <1>5
<1> QED
  BY <1>1, <1>4, <1>6 DEF S

LEMMA ClashSymmetric ==
    ASSUME NEW u, NEW v, Clash(u, v)
    PROVE  Clash(v, u)
BY DEF Clash, EqualFold

LEMMA DistinctGrows ==
    ASSUME NEW set, Distinct(set), NEW user, \A u \in set : ~Clash(u, user)
    PROVE  Distinct(set \cup {user})
BY ClashSymmetric DEF Distinct, Clash

(* Nobody changes what was found.                                          *)
LEMMA DistinctKept ==
    ASSUME found' = found
    PROVE  Distinct(users') /\ Distinct(disk'.users) => AccountsDistinct'
BY DEF AccountsDistinct, Distinct, MayClash

LEMMA MigrateKeeps ==
    ASSUME NEW u \in User
    PROVE  /\ Migrate(u) \in User
           /\ Migrate(u).userID = u.userID
           /\ Migrate(u).nickname = u.nickname
           /\ Migrate(u).cert = u.cert
           /\ isHashedPassword(Migrate(u).password)
<1>1. u.password \in Stored /\ u.password.word \in Passwords
  BY DEF User, Stored
<1>2. hashPassword(u.password.word) \in Stored /\ isHashedPassword(hashPassword(u.password.word))
  BY <1>1 DEF hashPassword, Stored, isHashedPassword
<1> QED
  BY <1>1, <1>2 DEF Migrate, User

LEMMA MigrateAll ==
    ASSUME NEW set \in SUBSET User
    PROVE  LET moved == {Migrate(u) : u \in set}
           IN  /\ moved \subseteq User
               /\ Distinct(set) => Distinct(moved)
               /\ HasLargest(set) => HasLargest(moved)
               /\ \A u \in moved : isHashedPassword(u.password)
               /\ Identities(moved) = Identities(set)
<1> DEFINE moved == {Migrate(u) : u \in set}
<1>1. moved \subseteq User /\ \A u \in moved : isHashedPassword(u.password)
  BY MigrateKeeps
<1>2. ASSUME Distinct(set) PROVE Distinct(moved)
  <2> SUFFICES ASSUME NEW a \in set, NEW b \in set, Migrate(a) # Migrate(b)
               PROVE  /\ Migrate(a).userID # Migrate(b).userID
                      /\ Clash(Migrate(a), Migrate(b)) => MayClash(Migrate(a), Migrate(b))
    BY DEF Distinct
  <2>1. a.userID # b.userID /\ (Clash(a, b) => MayClash(a, b))
    BY <1>2 DEF Distinct
  <2>2. Clash(Migrate(a), Migrate(b)) => Clash(a, b)
    BY MigrateKeeps DEF Clash
  <2>3. MayClash(Migrate(a), Migrate(b)) <=> MayClash(a, b)
    BY MigrateKeeps DEF MayClash, Identity
  <2> QED
    BY <2>1, <2>2, <2>3, MigrateKeeps
<1>3. ASSUME HasLargest(set) PROVE HasLargest(moved)
  <2>1. {u.userID : u \in moved} = {u.userID : u \in set}
    BY MigrateKeeps
  <2>2. PICK m \in {0} \cup {u.userID : u \in set} : \A u \in set : u.userID <= m
    BY <1>3 DEF HasLargest
  <2>3. \A u \in moved : u.userID <= m
    BY <2>2, MigrateKeeps
  <2> QED
    BY <2>1, <2>2, <2>3 DEF HasLargest
<1>4. Identities(moved) = Identities(set)
  <2>1. \A u \in set : Identity(Migrate(u)) = Identity(u)
    BY MigrateKeeps DEF Identity
  <2> QED
    BY <2>1 DEF Identities
<1> QED
  BY <1>1, <1>2, <1>3, <1>4

(* What a handler is doing, from the kind of it.                           *)
LEMMA RequestKinds ==
    ASSUME NEW r \in Requests
    PROVE  /\ r.op \in {"idle", "persist", "issue", "check", "list"}
           /\ r.op = "idle" => r = Idle
           /\ r.op \in {"persist", "issue"} => r \in [op : {"persist", "issue"}, user : User] /\ r.user \in User
           /\ r.op = "check" => r.token \in Tokens
BY DEF Requests, Idle

LEMMA NowIssue ==
    ASSUME NEW r \in Requests, r.op = "persist"
    PROVE  /\ [r EXCEPT !.op = "issue"] \in Requests
           /\ [r EXCEPT !.op = "issue"].op = "issue"
           /\ [r EXCEPT !.op = "issue"].user = r.user
<1>1. r \in [op : {"persist", "issue"}, user : User]
  BY RequestKinds
<1> QED
  BY <1>1 DEF Requests
-------------------------------------------------------------------------------
LEMMA InvInit == Init => IInv
<1> SUFFICES ASSUME Init PROVE IInv
  OBVIOUS
<1>1. \/ disk = [file |-> "absent", users |-> {}]
      \/ \E S \in Found : disk = [file |-> "accounts", users |-> S]
  BY DEF Init
<1>2. disk \in Files /\ (disk.file # "accounts" => disk.users = {})
  BY <1>1, FoundAssumption DEF Files
<1>3. disk.users = {} \/ disk.users \in Found
  BY <1>1
<1>4. HasLargest(disk.users) /\ \A u \in disk.users : u.userID <= MaxUserID
  BY <1>3, FoundAssumption DEF HasLargest
<1>5. Distinct(disk.users)
  <2>1. \A u, v \in disk.users : u # v => u.userID # v.userID
    BY <1>3, FoundAssumption
  <2>2. \A u, v \in disk.users : MayClash(u, v)
    BY DEF Init, MayClash, Identities
  <2> QED
    BY <2>1, <2>2 DEF Distinct
<1>6. request \in [Handlers -> Requests] /\ \A t \in Handlers : request[t] = Idle
  BY DEF Init, Requests
<1>7. \A t \in Handlers : request[t].op = "idle"
  BY <1>6 DEF Idle
<1>8. DOMAIN tokens = {} /\ users = {} /\ phase = "down" /\ expired = {} /\ spent = {} /\ told = {}
  BY DEF Init, NoTokens
<1>9. TypeOK
  <2>1. found \subseteq User
    BY <1>2 DEF Init, Files
  <2> QED
    BY <1>2, <1>6, <1>8, <2>1 DEF TypeOK, Phases
<1>10. MemoryOK /\ LockOK /\ IssuesOK
  BY <1>6, <1>7, <1>8 DEF MemoryOK, LockOK, IssuesOK
<1>11. NumbersOK /\ FileOK /\ HashedOK /\ ToldOK
  BY <1>2, <1>4, <1>8 DEF NumbersOK, FileOK, HashedOK, ToldOK
<1>12. AccountsDistinct /\ SessionsNameAccounts
  BY <1>5, <1>8 DEF AccountsDistinct, SessionsNameAccounts, Distinct
<1> QED
  BY <1>9, <1>10, <1>11, <1>12 DEF IInv

(* While the process is not up, nothing but the file and memory changes.   *)
LEMMA StartupKept ==
    ASSUME IInv, UNCHANGED <<request, sessions, told, found>>, phase # "up",
           phase' \in Phases, users' \subseteq User, disk' \in Files,
           Distinct(users'), Distinct(disk'.users), HasLargest(disk'.users),
           \A u \in users' \cup disk'.users : u.userID <= MaxUserID,
           Identities(disk.users) \subseteq Identities(disk'.users),
           disk'.file # "accounts" \/ phase' = "seedWrite" => disk'.users = {},
           phase' \notin {"migrating", "up"} => users' = {},
           phase' = "migrating" => users' = {Migrate(u) : u \in disk'.users},
           phase' = "up" => users' = disk'.users /\ \A u \in users' : isHashedPassword(u.password)
    PROVE  IInv'
<1>1. TypeOK'
  BY DEF IInv, TypeOK, sessions
<1>2. DOMAIN tokens = {} /\ \A t \in Handlers : request[t] = Idle
  BY DEF IInv, MemoryOK
<1>3. \A t \in Handlers : request[t].op = "idle"
  BY <1>2 DEF Idle
<1>4. DOMAIN tokens' = {} /\ request' = request
  BY <1>2 DEF sessions
<1>5. MemoryOK'
  BY <1>2, <1>4 DEF MemoryOK
<1>6. LockOK' /\ IssuesOK' /\ SessionsNameAccounts'
  BY <1>3, <1>4 DEF LockOK, IssuesOK, SessionsNameAccounts
<1>7. NumbersOK' /\ FileOK' /\ HashedOK' /\ AccountsDistinct'
  BY DistinctKept DEF NumbersOK, FileOK, HashedOK
<1>8. ToldOK'
  <2> SUFFICES ASSUME NEW u \in told PROVE \E v \in disk'.users : Identity(v) = Identity(u)
    BY DEF ToldOK
  <2>1. PICK v \in disk.users : Identity(v) = Identity(u)
    BY DEF IInv, ToldOK
  <2>2. Identity(v) \in Identities(disk'.users)
    BY <2>1 DEF Identities
  <2> QED
    BY <2>1, <2>2 DEF Identities
<1> QED
  BY <1>1, <1>5, <1>6, <1>7, <1>8 DEF IInv

LEMMA StartupInv == IInv /\ Startup /\ UNCHANGED found => IInv'
<1> SUFFICES ASSUME IInv, Startup, found' = found PROVE IInv'
  OBVIOUS
<1>1. /\ disk \in Files /\ disk.users \subseteq User /\ users \subseteq User
      /\ Distinct(users) /\ Distinct(disk.users) /\ HasLargest(disk.users)
      /\ \A u \in users \cup disk.users : u.userID <= MaxUserID
      /\ disk.file # "accounts" \/ phase = "seedWrite" => disk.users = {}
      /\ phase \notin {"migrating", "up"} => users = {}
      /\ phase = "migrating" => users = {Migrate(u) : u \in disk.users}
  BY DEF IInv, TypeOK, Files, AccountsDistinct, NumbersOK, FileOK, MemoryOK
<1>2. Distinct({}) /\ HasLargest({})
  BY DEF Distinct, HasLargest
<1>3. CASE Boot
  BY <1>1, <1>3, StartupKept DEF Boot, Phases
<1>4. CASE SeedCreate
  <2>1. disk'.users = {} /\ disk.users = {} /\ disk' \in Files
    BY <1>1, <1>4 DEF SeedCreate, Files
  <2> QED
    BY <1>1, <1>2, <1>4, <2>1, StartupKept DEF SeedCreate, Phases
<1>5. CASE SeedWrite
  <2>1. disk'.users = {} /\ disk'.file = "accounts" /\ disk.users = {} /\ disk' \in Files
    BY <1>1, <1>5 DEF SeedWrite, Files
  <2> QED
    BY <1>1, <1>2, <1>5, <2>1, StartupKept DEF SeedWrite, Phases
<1>6. CASE SeedSkip
  BY <1>1, <1>6, StartupKept DEF SeedSkip, Phases
<1>7. CASE Load
  <2>1. users' = {Migrate(u) : u \in disk.users} /\ disk' = disk /\ phase = "loading"
        /\ phase' = (IF users' # disk.users THEN "migrating" ELSE "up")
        /\ UNCHANGED <<request, sessions, told>>
    BY <1>7 DEF Load
  <2>2. /\ users' \subseteq User /\ Distinct(users') /\ \A u \in users' : isHashedPassword(u.password)
    BY <1>1, <2>1, MigrateAll
  <2>3. \A u \in users' : u.userID <= MaxUserID
    BY <1>1, <2>1, MigrateKeeps
  <2>4. phase' \in Phases /\ phase # "up" /\ phase' # "seedWrite" /\ phase' \in {"migrating", "up"}
    BY <2>1 DEF Phases
  <2>5. phase' = "up" => users' = disk'.users
    BY <2>1
  <2> QED
    BY <1>1, <2>1, <2>2, <2>3, <2>4, <2>5, StartupKept
<1>8. CASE MigratePersist
  <2>1. disk'.users = users /\ disk'.file = "accounts" /\ users' = users
        /\ phase = "migrating" /\ phase' = "up" /\ UNCHANGED <<request, sessions, told>>
    BY <1>8 DEF MigratePersist, Persisted
  <2>2. users = {Migrate(u) : u \in disk.users}
    BY <1>1, <2>1
  <2>3. /\ HasLargest(users) /\ Identities(users) = Identities(disk.users)
        /\ \A u \in users : isHashedPassword(u.password)
    BY <1>1, <2>2, MigrateAll
  <2>4. disk' \in Files
    BY <1>1, <1>8 DEF MigratePersist, Persisted, Files
  <2>5. phase' \in Phases
    BY <2>1 DEF Phases
  <2> QED
    BY <1>1, <2>1, <2>2, <2>3, <2>4, <2>5, StartupKept
<1> QED
  BY <1>3, <1>4, <1>5, <1>6, <1>7, <1>8 DEF Startup

LEMMA CrashInv == IInv /\ Crash /\ UNCHANGED found => IInv'
<1> SUFFICES ASSUME IInv, Crash, found' = found PROVE IInv'
  OBVIOUS
<1>1. /\ phase' = "down" /\ users' = {} /\ disk' = disk /\ spent' = spent /\ told' = told
      /\ expired' = {} /\ DOMAIN tokens' = {}
      /\ request' \in [Handlers -> Requests] /\ \A t \in Handlers : request'[t] = Idle
  BY DEF Crash, NoTokens, Requests
<1>2. \A t \in Handlers : request'[t].op = "idle"
  BY <1>1 DEF Idle
<1>3. TypeOK'
  BY <1>1 DEF IInv, TypeOK, Phases
<1>4. MemoryOK' /\ LockOK' /\ IssuesOK' /\ SessionsNameAccounts'
  BY <1>1, <1>2 DEF MemoryOK, LockOK, IssuesOK, SessionsNameAccounts
<1>5. NumbersOK' /\ HashedOK' /\ ToldOK' /\ AccountsDistinct'
  BY <1>1, DistinctKept DEF IInv, NumbersOK, HashedOK, ToldOK, AccountsDistinct, Distinct
<1>6. FileOK'
  BY <1>1 DEF IInv, FileOK
<1> QED
  BY <1>3, <1>4, <1>5, <1>6 DEF IInv
(* Handlers run while the process is up.                                   *)
LEMMA Busy ==
    ASSUME IInv, NEW t \in Handlers, request[t] # Idle
    PROVE  phase = "up"
BY DEF IInv, MemoryOK

(* Neither memory nor the file changes, and the lock does not change hands.*)
LEMMA HandlerKept ==
    ASSUME IInv, phase = "up", UNCHANGED <<phase, users, disk, found>>,
           request' \in [Handlers -> Requests],
           \A s \in Handlers : request'[s].op = "persist" \/ request[s].op = "persist"
                                  => request'[s] = request[s],
           \A s \in Handlers : request'[s].op = "issue" => request'[s].user \in disk.users,
           DOMAIN tokens' \subseteq Tokens,
           \A k \in DOMAIN tokens' : tokens'[k] \in disk.users,
           expired' \subseteq Tokens, spent' \subseteq Tokens,
           told' \subseteq told \cup disk.users
    PROVE  IInv'
<1>1. disk.users \subseteq User
  BY DEF IInv, TypeOK, Files
<1>2. TypeOK'
  BY <1>1 DEF IInv, TypeOK
<1>3. \A s \in Handlers : request'[s].op = "persist" <=> request[s].op = "persist"
  OBVIOUS
<1>4. Locked' <=> Locked
  BY <1>3 DEF Locked
<1>5. MemoryOK'
  BY <1>4 DEF IInv, MemoryOK
<1>6. LockOK'
  BY DEF IInv, LockOK
<1>7. IssuesOK' /\ SessionsNameAccounts'
  BY DEF IssuesOK, SessionsNameAccounts
<1>8. NumbersOK' /\ FileOK' /\ HashedOK' /\ AccountsDistinct'
  BY DistinctKept DEF IInv, NumbersOK, FileOK, HashedOK, AccountsDistinct
<1>9. ToldOK'
  BY DEF IInv, ToldOK
<1> QED
  BY <1>2, <1>5, <1>6, <1>7, <1>8, <1>9 DEF IInv

LEMMA EnrolInv ==
    ASSUME IInv, found' = found, NEW t \in Handlers, NEW n \in Nicknames, NEW p \in Passwords, NEW c \in Certs,
           RegisterEnrol(t, n, p, c)
    PROVE  IInv'
<1> DEFINE id == nextUserIDLocked
           user == [userID |-> id, nickname |-> n, password |-> hashPassword(p), cert |-> c]
<1>1. /\ phase = "up" /\ request[t] = Idle /\ ~Locked /\ ~Taken(n, c) /\ id <= MaxUserID
      /\ users' = users \cup {user} /\ request' = [request EXCEPT ![t] = [op |-> "persist", user |-> user]]
      /\ UNCHANGED <<phase, disk, tokens, expired, spent, told>>
  BY DEF RegisterEnrol, Begin, sessions
<1>2. users = disk.users /\ users \subseteq User /\ HasLargest(users) /\ Distinct(users)
  BY <1>1 DEF IInv, MemoryOK, NumbersOK, AccountsDistinct, TypeOK
<1>3. id \in Nat /\ \A u \in users : u.userID < id
  <2> DEFINE m == Max({0} \cup {u.userID : u \in users})
  <2>1. m \in Nat /\ \A u \in users : u.userID <= m
    BY <1>2, Largest
  <2>2. id = 1 + m
    BY DEF nextUserIDLocked
  <2> HIDE DEF m, id
  <2>3. id \in Nat
    BY <2>1, <2>2
  <2>4. ASSUME NEW u \in users PROVE u.userID < id
    <3>1. u.userID \in Nat /\ u.userID <= m
      BY <1>2, <2>1 DEF User
    <3> QED
      BY <2>1, <2>2, <3>1
  <2> QED
    BY <2>3, <2>4
<1> HIDE DEF id
<1>4. user \in User
  BY <1>3 DEF User, Stored, hashPassword
<1>5. user.userID = id /\ user.nickname = n /\ user.cert = c /\ user.password = hashPassword(p)
  OBVIOUS
<1> HIDE DEF user
<1>6. user \notin users
  BY <1>2, <1>3, <1>5 DEF User
<1>7. \A u \in users : ~Clash(u, user)
  <2> SUFFICES ASSUME NEW u \in users PROVE ~Clash(u, user)
    OBVIOUS
  <2>1. u.userID # id
    BY <1>2, <1>3 DEF User
  <2>2. ~EqualFold(u.nickname, n) /\ u.cert # c
    BY <1>1 DEF Taken
  <2> QED
    BY <1>5, <2>1, <2>2 DEF Clash
<1>8. \A s \in Handlers : request[s].op # "persist"
  BY <1>1 DEF Locked
<1>9. /\ request' \in [Handlers -> Requests]
      /\ request'[t].op = "persist" /\ request'[t].user = user
      /\ \A s \in Handlers : s # t => request'[s] = request[s]
  <2>1. [op |-> "persist", user |-> user] \in Requests
    BY <1>4 DEF Requests
  <2>2. request \in [Handlers -> Requests]
    BY DEF IInv, TypeOK
  <2> QED
    BY <1>1, <2>1, <2>2
<1>10. TypeOK'
  BY <1>1, <1>2, <1>4, <1>9 DEF IInv, TypeOK
<1>11. MemoryOK'
  <2>1. Locked'
    BY <1>9 DEF Locked
  <2> QED
    BY <1>1, <2>1 DEF MemoryOK
<1>12. LockOK'
  BY <1>1, <1>2, <1>6, <1>7, <1>8, <1>9 DEF LockOK
<1>13. NumbersOK'
  <2>1. HasLargest(disk'.users)
    BY <1>1 DEF IInv, NumbersOK
  <2>2. \A u \in users' \cup disk'.users : u.userID <= MaxUserID
    BY <1>1, <1>5 DEF IInv, NumbersOK
  <2> QED
    BY <2>1, <2>2 DEF NumbersOK
<1>14. FileOK' /\ ToldOK' /\ SessionsNameAccounts'
  BY <1>1 DEF IInv, FileOK, ToldOK, SessionsNameAccounts
<1>15. IssuesOK'
  BY <1>1, <1>9 DEF IInv, IssuesOK
<1>16. HashedOK'
  <2>1. isHashedPassword(user.password)
    BY <1>5 DEF isHashedPassword, hashPassword
  <2> QED
    BY <1>1, <2>1 DEF IInv, HashedOK
<1>17. AccountsDistinct'
  BY <1>1, <1>2, <1>7, DistinctGrows, DistinctKept
<1> QED
  BY <1>10, <1>11, <1>12, <1>13, <1>14, <1>15, <1>16, <1>17 DEF IInv

(* What the holder of the lock is about to write.                          *)
LEMMA Holder ==
    ASSUME IInv, NEW t \in Handlers, request[t].op = "persist"
    PROVE  /\ phase = "up"
           /\ users = disk.users \cup {request[t].user}
           /\ request[t].user \notin disk.users
           /\ request[t].user \in User
           /\ \A s \in Handlers : s # t => request[s].op # "persist"
<1>1. request[t] \in Requests
  BY DEF IInv, TypeOK
<1>2. request[t] # Idle
  BY DEF Idle
<1>3. phase = "up"
  BY <1>2, Busy
<1>4. request[t].user \in User
  BY <1>1, RequestKinds
<1> QED
  BY <1>3, <1>4 DEF IInv, LockOK

LEMMA PersistInv ==
    ASSUME IInv, found' = found, NEW t \in Handlers, RegisterPersist(t)
    PROVE  IInv'
<1> DEFINE user == request[t].user
<1>1. /\ request[t].op = "persist" /\ disk'.users = users /\ disk'.file = "accounts"
      /\ disk' = [file |-> "accounts", users |-> users]
      /\ request' = [request EXCEPT ![t] = [request[t] EXCEPT !.op = "issue"]]
      /\ UNCHANGED <<phase, users, tokens, expired, spent, told>>
  BY DEF RegisterPersist, Persisted, sessions, IInv, TypeOK
<1>2. /\ phase = "up" /\ users = disk.users \cup {user} /\ user \notin disk.users /\ user \in User
      /\ \A s \in Handlers : s # t => request[s].op # "persist"
  BY <1>1, Holder
<1>3. /\ request' \in [Handlers -> Requests] /\ request'[t].op = "issue" /\ request'[t].user = user
      /\ \A s \in Handlers : s # t => request'[s] = request[s]
  <2>1. request \in [Handlers -> Requests]
    BY DEF IInv, TypeOK
  <2>2. /\ [request[t] EXCEPT !.op = "issue"] \in Requests
        /\ [request[t] EXCEPT !.op = "issue"].op = "issue"
        /\ [request[t] EXCEPT !.op = "issue"].user = user
    BY <1>1, <2>1, NowIssue
  <2> QED
    BY <1>1, <2>1, <2>2
<1> HIDE DEF user
<1>4. users \subseteq User /\ Distinct(users)
  BY DEF IInv, TypeOK, AccountsDistinct
<1>5. \A s \in Handlers : request'[s].op # "persist"
  BY <1>2, <1>3
<1>6. TypeOK'
  <2>1. disk' \in Files
    BY <1>1, <1>4 DEF Files
  <2> QED
    BY <1>1, <1>3, <2>1 DEF IInv, TypeOK
<1>7. MemoryOK' /\ LockOK' /\ HashedOK' /\ AccountsDistinct'
  BY <1>1, <1>2, <1>4, <1>5, DistinctKept DEF IInv, MemoryOK, LockOK, HashedOK
<1>8. NumbersOK'
  <2>1. HasLargest(users)
    <3>1. PICK m \in {0} \cup {u.userID : u \in disk.users} : \A u \in disk.users : u.userID <= m
      BY DEF IInv, NumbersOK, HasLargest
    <3>2. m \in Nat /\ user.userID \in Nat /\ disk.users \subseteq User
      BY <1>2, <1>4, <3>1 DEF User
    <3>3. CASE user.userID <= m
      <4>1. m \in {0} \cup {u.userID : u \in users} /\ \A u \in users : u.userID <= m
        BY <1>2, <3>1, <3>3
      <4> QED
        BY <4>1 DEF HasLargest
    <3>4. CASE m < user.userID
      <4>1. \A u \in users : u.userID <= user.userID
        BY <1>2, <3>1, <3>2, <3>4 DEF User
      <4>2. user.userID \in {0} \cup {u.userID : u \in users}
        BY <1>2
      <4> QED
        BY <4>1, <4>2 DEF HasLargest
    <3> QED
      BY <3>2, <3>3, <3>4
  <2> QED
    BY <1>1, <2>1 DEF IInv, NumbersOK
<1>9. FileOK' /\ SessionsNameAccounts' /\ ToldOK'
  BY <1>1, <1>2 DEF IInv, FileOK, SessionsNameAccounts, ToldOK
<1>10. IssuesOK'
  BY <1>1, <1>2, <1>3 DEF IInv, IssuesOK
<1> QED
  BY <1>6, <1>7, <1>8, <1>9, <1>10 DEF IInv

LEMMA FailInv ==
    ASSUME IInv, found' = found, NEW t \in Handlers, RegisterFail(t)
    PROVE  IInv'
<1>1. /\ request[t].op = "persist" /\ users' = users \ {request[t].user}
      /\ request' = [request EXCEPT ![t] = Idle]
      /\ UNCHANGED <<phase, disk, tokens, expired, spent, told>>
  BY DEF RegisterFail, TakeBack, Finish, sessions
<1>2. /\ phase = "up" /\ users' = disk.users /\ disk.users \subseteq users
      /\ \A s \in Handlers : s # t => request[s].op # "persist"
  BY <1>1, Holder
<1>3. /\ request' \in [Handlers -> Requests] /\ request'[t].op = "idle"
      /\ \A s \in Handlers : s # t => request'[s] = request[s]
  BY <1>1 DEF IInv, TypeOK, Requests, Idle
<1>4. \A s \in Handlers : request'[s].op # "persist"
  BY <1>2, <1>3
<1>5. TypeOK'
  BY <1>1, <1>2, <1>3 DEF IInv, TypeOK
<1>6. MemoryOK' /\ LockOK' /\ HashedOK' /\ AccountsDistinct' /\ NumbersOK'
  BY <1>1, <1>2, <1>4, DistinctKept DEF IInv, MemoryOK, LockOK, HashedOK, AccountsDistinct, NumbersOK
<1>7. FileOK' /\ SessionsNameAccounts' /\ ToldOK'
  BY <1>1 DEF IInv, FileOK, SessionsNameAccounts, ToldOK
<1>8. IssuesOK'
  BY <1>1, <1>3 DEF IInv, IssuesOK
<1> QED
  BY <1>5, <1>6, <1>7, <1>8 DEF IInv
LEMMA RequestsOf ==
    ASSUME IInv, NEW t \in Handlers, NEW r \in Requests, r.op # "persist",
           request[t].op # "persist", request' = [request EXCEPT ![t] = r],
           r.op = "issue" => r.user \in disk.users
    PROVE  /\ request' \in [Handlers -> Requests]
           /\ \A s \in Handlers : request'[s].op = "persist" \/ request[s].op = "persist"
                                  => request'[s] = request[s]
           /\ \A s \in Handlers : request'[s].op = "issue" => request'[s].user \in disk.users
<1>1. request \in [Handlers -> Requests]
  BY DEF IInv, TypeOK
<1>2. request' \in [Handlers -> Requests] /\ request'[t] = r
      /\ \A s \in Handlers : s # t => request'[s] = request[s]
  BY <1>1
<1>3. \A s \in Handlers : request[s].op = "issue" => request[s].user \in disk.users
  BY DEF IInv, IssuesOK
<1> QED
  BY <1>2, <1>3

LEMMA SameFacts ==
    ASSUME IInv
    PROVE  /\ request \in [Handlers -> Requests]
           /\ \A s \in Handlers : request[s].op = "issue" => request[s].user \in disk.users
           /\ DOMAIN tokens \subseteq Tokens /\ \A k \in DOMAIN tokens : tokens[k] \in disk.users
           /\ expired \subseteq Tokens /\ spent \subseteq Tokens
           /\ disk.users \subseteq User
           /\ phase = "up" /\ ~Locked => users = disk.users
BY DEF IInv, TypeOK, IssuesOK, SessionsNameAccounts, MemoryOK, Files

LEMMA LoginInv ==
    ASSUME IInv, found' = found, NEW t \in Handlers, NEW n \in Nicknames, NEW p \in Passwords, NEW c \in Certs \cup {NoCert},
           Login(t, n, p, c)
    PROVE  IInv'
<1>1. /\ phase = "up" /\ ~Locked /\ request[t] = Idle
      /\ UNCHANGED <<phase, users, disk, tokens, expired, spent, told>>
  BY DEF Login, Begin, sessions
<1>2. PICK u \in users : request' = [request EXCEPT ![t] = [op |-> "issue", user |-> u]]
  BY DEF Login, Begin
<1>3. u \in disk.users /\ u \in User
  BY <1>1, SameFacts
<1> DEFINE r == [op |-> "issue", user |-> u]
<1>4. r \in Requests /\ r.op = "issue" /\ r.user = u
  BY <1>3 DEF Requests
<1> HIDE DEF r
<1>5. request' = [request EXCEPT ![t] = r] /\ request[t].op # "persist"
  BY <1>1, <1>2 DEF r, Idle
<1>6. /\ request' \in [Handlers -> Requests]
      /\ \A s \in Handlers : request'[s].op = "persist" \/ request[s].op = "persist"
                                  => request'[s] = request[s]
      /\ \A s \in Handlers : request'[s].op = "issue" => request'[s].user \in disk.users
  BY <1>3, <1>4, <1>5, RequestsOf
<1> QED
  BY <1>1, <1>6, SameFacts, HandlerKept

LEMMA Finishes ==
    ASSUME IInv, NEW t \in Handlers, request[t].op # "persist", Finish(t)
    PROVE  /\ request' \in [Handlers -> Requests]
           /\ \A s \in Handlers : request'[s].op = "persist" \/ request[s].op = "persist"
                                  => request'[s] = request[s]
           /\ \A s \in Handlers : request'[s].op = "issue" => request'[s].user \in disk.users
<1>1. Idle \in Requests /\ Idle.op = "idle"
  BY DEF Requests, Idle
<1> QED
  BY <1>1, RequestsOf DEF Finish

LEMMA RespondInv ==
    ASSUME IInv, found' = found, NEW t \in Handlers, Respond(t)
    PROVE  IInv'
<1> DEFINE user == request[t].user
<1>1. /\ request[t].op = "issue" /\ Finish(t) /\ UNCHANGED <<phase, users, disk, expired>>
      /\ told' \subseteq told \cup {user}
  BY DEF Respond
<1>2. PICK k \in Tokens \ spent :
        /\ tokens' = [x \in DOMAIN tokens \cup {k} |-> IF x = k THEN user ELSE tokens[x]]
        /\ spent' = spent \cup {k}
  BY DEF Respond
<1>3. phase = "up" /\ user \in disk.users
  BY <1>1, SameFacts, Busy DEF Idle
<1> HIDE DEF user
<1>4. /\ DOMAIN tokens' \subseteq Tokens /\ \A x \in DOMAIN tokens' : tokens'[x] \in disk.users
      /\ spent' \subseteq Tokens
  BY <1>2, <1>3, SameFacts
<1>5. /\ request' \in [Handlers -> Requests]
      /\ \A s \in Handlers : request'[s].op = "persist" \/ request[s].op = "persist"
                                  => request'[s] = request[s]
      /\ \A s \in Handlers : request'[s].op = "issue" => request'[s].user \in disk.users
  BY <1>1, Finishes
<1>6. told' \subseteq told \cup disk.users
  BY <1>1, <1>3
<1> QED
  BY <1>1, <1>3, <1>4, <1>5, <1>6, SameFacts, HandlerKept

LEMMA RespondFailsInv ==
    ASSUME IInv, found' = found, NEW t \in Handlers, RespondFails(t)
    PROVE  IInv'
<1>1. /\ request[t].op = "issue" /\ Finish(t)
      /\ UNCHANGED <<phase, users, disk, tokens, expired, spent, told>>
  BY DEF RespondFails, sessions
<1>2. phase = "up"
  BY <1>1, Busy DEF Idle
<1> QED
  BY <1>1, <1>2, SameFacts, Finishes, HandlerKept

LEMMA TokenInv ==
    ASSUME IInv, found' = found, NEW t \in Handlers, UsingToken(t)
    PROVE  IInv'
<1>1. ASSUME NEW k \in Tokens, ReadToken(t, k) PROVE IInv'
  <2> DEFINE r == [op |-> "check", token |-> k]
  <2>1. r \in Requests /\ r.op = "check"
    BY DEF Requests
  <2>2. /\ phase = "up" /\ request[t].op # "persist" /\ request' = [request EXCEPT ![t] = r]
        /\ UNCHANGED <<phase, users, disk, tokens, expired, spent, told>>
    BY <1>1 DEF ReadToken, Begin, Idle, sessions
  <2> HIDE DEF r
  <2>3. /\ request' \in [Handlers -> Requests]
        /\ \A s \in Handlers : request'[s].op = "persist" \/ request[s].op = "persist"
                                  => request'[s] = request[s]
        /\ \A s \in Handlers : request'[s].op = "issue" => request'[s].user \in disk.users
    BY <2>1, <2>2, RequestsOf
  <2> QED
    BY <2>2, <2>3, SameFacts, HandlerKept
<1>2. CASE CheckExpired(t)
  <2>1. /\ request[t].op = "check" /\ Finish(t) /\ UNCHANGED <<phase, users, disk, expired, spent, told>>
        /\ tokens' = [x \in DOMAIN tokens \ {request[t].token} |-> tokens[x]]
    BY <1>2 DEF CheckExpired, Restrict
  <2>2. phase = "up" /\ request[t].op # "persist"
    BY <2>1, Busy DEF Idle
  <2>3. DOMAIN tokens' \subseteq Tokens /\ \A x \in DOMAIN tokens' : tokens'[x] \in disk.users
    BY <2>1, SameFacts
  <2> QED
    BY <2>1, <2>2, <2>3, SameFacts, Finishes, HandlerKept
<1>3. CASE CheckValid(t)
  <2> DEFINE r == [op |-> "list"]
  <2>1. r \in Requests /\ r.op = "list"
    BY DEF Requests
  <2>2. /\ request[t].op = "check" /\ request' = [request EXCEPT ![t] = r]
        /\ UNCHANGED <<phase, users, disk, tokens, expired, spent, told>>
    BY <1>3 DEF CheckValid, sessions
  <2> HIDE DEF r
  <2>3. phase = "up" /\ request[t].op # "persist"
    BY <2>2, Busy DEF Idle
  <2>4. /\ request' \in [Handlers -> Requests]
        /\ \A s \in Handlers : request'[s].op = "persist" \/ request[s].op = "persist"
                                  => request'[s] = request[s]
        /\ \A s \in Handlers : request'[s].op = "issue" => request'[s].user \in disk.users
    BY <2>1, <2>2, <2>3, RequestsOf
  <2> QED
    BY <2>2, <2>3, <2>4, SameFacts, HandlerKept
<1>4. CASE ListUsers(t)
  <2>1. /\ request[t].op = "list" /\ ~Locked /\ told' = told \cup users /\ Finish(t)
        /\ UNCHANGED <<phase, users, disk, tokens, expired, spent>>
    BY <1>4 DEF ListUsers, sessions
  <2>2. phase = "up" /\ request[t].op # "persist"
    BY <2>1, Busy DEF Idle
  <2>3. told' \subseteq told \cup disk.users
    BY <2>1, <2>2, SameFacts
  <2> QED
    BY <2>1, <2>2, <2>3, SameFacts, Finishes, HandlerKept
<1> QED
  BY <1>1, <1>2, <1>3, <1>4 DEF UsingToken

LEMMA InvNext == IInv /\ [Next]_vars => IInv'
<1> SUFFICES ASSUME IInv, [Next]_vars PROVE IInv'
  OBVIOUS
<1>0. found' = found
  BY DEF Next, vars
<1>1. CASE Startup
  BY <1>0, <1>1, StartupInv
<1>2. ASSUME NEW t \in Handlers, Registering(t) PROVE IInv'
  BY <1>0, <1>2, EnrolInv, PersistInv, FailInv DEF Registering
<1>3. ASSUME NEW t \in Handlers, LoggingIn(t) PROVE IInv'
  BY <1>0, <1>3, LoginInv, RespondInv, RespondFailsInv DEF LoggingIn
<1>4. ASSUME NEW t \in Handlers, UsingToken(t) PROVE IInv'
  BY <1>0, <1>4, TokenInv
<1>5. ASSUME NEW k \in Tokens, Expire(k) PROVE IInv'
  <2>1. /\ k \in DOMAIN tokens /\ expired' = expired \cup {k}
        /\ UNCHANGED <<phase, users, disk, request, tokens, spent, told>>
    BY <1>5 DEF Expire
  <2>2. phase = "up"
    BY <2>1 DEF IInv, MemoryOK
  <2>3. expired' \subseteq Tokens
    BY <2>1, SameFacts
  <2> QED
    BY <1>0, <2>1, <2>2, <2>3, SameFacts, HandlerKept
<1>6. ASSUME NEW c \in Certs, WhoAmI(c) PROVE IInv'
  <2>1. /\ phase = "up" /\ ~Locked /\ told' \subseteq told \cup users
        /\ UNCHANGED <<phase, users, disk, request, tokens, expired, spent>>
    BY <1>6 DEF WhoAmI, sessions
  <2>2. told' \subseteq told \cup disk.users
    BY <2>1, SameFacts
  <2> QED
    BY <1>0, <2>1, <2>2, SameFacts, HandlerKept
<1>7. CASE Crash
  BY <1>0, <1>7, CrashInv
<1>8. CASE UNCHANGED vars
  <2>1. UNCHANGED <<phase, users, disk, request, tokens, expired, spent, told>>
    BY <1>8 DEF vars, sessions
  <2>2. AccountsDistinct'
    BY <1>0, <2>1, DistinctKept DEF IInv, AccountsDistinct
  <2> QED
    BY <1>0, <2>1, <2>2 DEF IInv, TypeOK, MemoryOK, LockOK, NumbersOK, FileOK, IssuesOK, HashedOK, ToldOK,
                            SessionsNameAccounts, Locked
<1> QED
  BY <1>1, <1>2, <1>3, <1>4, <1>5, <1>6, <1>7, <1>8 DEF Next

-------------------------------------------------------------------------------
(* The state of accounts, file, sessions and registrations under way fits  *)
(* together in every reachable state.                                      *)
THEOREM Invariance == Spec => []IInv
BY InvInit, InvNext, PTL DEF Spec

(* Every variable has its type in every reachable state.                   *)
THEOREM TypeCorrect == Spec => []TypeOK
<1>1. IInv => TypeOK
  BY DEF IInv
<1> QED
  BY <1>1, Invariance, PTL

(* No two accounts have one identifier, and RegisterUser lets in none that *)
(* clashes with another in nickname or certificate, in memory and in the   *)
(* file, whatever file NewManager loads, whatever registrations run, fail  *)
(* and are retried, and whenever the process dies; two that clash were     *)
(* both in the file found (identity/manager.go).                           *)
THEOREM AccountsStayDistinct == Spec => []AccountsDistinct
<1>1. IInv => AccountsDistinct
  BY DEF IInv
<1> QED
  BY <1>1, Invariance, PTL

(* Between registrations the map in memory and the file hold the same      *)
(* accounts, failed writes and migrated passwords included.                *)
THEOREM MemoryAgreesWithFile == Spec => []MemoryMatchesFile
<1>1. IInv => MemoryMatchesFile
  BY DEF IInv, MemoryOK, MemoryMatchesFile
<1> QED
  BY <1>1, Invariance, PTL

(* A token names an account that is in the file: what respondWithSession   *)
(* answered survives every crash of the manager.                           *)
THEOREM SessionsAreOfAccounts == Spec => []SessionsNameAccounts
<1>1. IInv => SessionsNameAccounts
  BY DEF IInv
<1> QED
  BY <1>1, Invariance, PTL

(* Once NewManager has returned, no password is in the file as it was      *)
(* typed, but for one that looks like a hash.                              *)
THEOREM PasswordsHashed == Spec => []NoPlainPasswords
<1>1. IInv => NoPlainPasswords
  <2> SUFFICES ASSUME IInv, phase = "up", NEW u \in disk.users, u.password.form = "plain"
               PROVE  u.password.word \in LooksHashed
    BY DEF NoPlainPasswords
  <2>1. u \in users
    BY DEF IInv, MemoryOK, LockOK, Locked
  <2>2. isHashedPassword(u.password)
    BY <2>1 DEF IInv, HashedOK
  <2> QED
    BY <2>2 DEF isHashedPassword
<1> QED
  BY <1>1, Invariance, PTL

-------------------------------------------------------------------------------
(* What a step does to the file and to what callers were told.             *)
BookKept == /\ Identities(disk'.users) = Identities(disk.users)
            /\ told \subseteq told'
            /\ told' \subseteq told \cup disk.users

BookGains == /\ \E user \in User : /\ disk'.users = disk.users \cup {user}
                                   /\ \A u \in disk.users : ~Clash(u, user)
             /\ told' = told

LEMMA BookSteps ==
    ASSUME IInv, [Next]_vars
    PROVE  BookKept \/ BookGains
<1>1. CASE Startup
  <2>1. CASE Boot \/ SeedSkip \/ Load
    BY <2>1 DEF Boot, SeedSkip, Load, BookKept
  <2>2. CASE SeedCreate \/ SeedWrite
    <3>1. disk.users = {} /\ disk'.users = {} /\ told' = told
      BY <2>2 DEF SeedCreate, SeedWrite, IInv, FileOK
    <3> QED
      BY <3>1 DEF BookKept
  <2>3. CASE MigratePersist
    <3>1. disk.users \subseteq User
      BY DEF IInv, TypeOK, Files
    <3>2. disk'.users = {Migrate(u) : u \in disk.users} /\ told' = told
      BY <2>3 DEF MigratePersist, Persisted, IInv, MemoryOK
    <3> QED
      BY <3>1, <3>2, MigrateAll DEF BookKept
  <2> QED
    BY <1>1, <2>1, <2>2, <2>3 DEF Startup
<1>2. ASSUME NEW t \in Handlers, Registering(t) PROVE BookKept \/ BookGains
  <2>1. CASE RegisterPersist(t)
    <3>1. users = disk.users \cup {request[t].user} /\ \A u \in disk.users : ~Clash(u, request[t].user)
      BY <2>1 DEF RegisterPersist, IInv, LockOK
    <3>2. request[t].user \in User
      BY <2>1, RequestKinds DEF RegisterPersist, IInv, TypeOK
    <3>3. disk'.users = users /\ told' = told
      BY <2>1 DEF RegisterPersist, Persisted
    <3> QED
      BY <3>1, <3>2, <3>3 DEF BookGains
  <2>2. CASE ~RegisterPersist(t)
    BY <1>2, <2>2 DEF Registering, RegisterEnrol, RegisterFail, BookKept
  <2> QED
    BY <2>1, <2>2
<1>3. ASSUME NEW t \in Handlers, LoggingIn(t) PROVE BookKept
  <2>1. CASE Respond(t)
    <3>1. request[t].user \in disk.users
      BY <2>1 DEF Respond, IInv, IssuesOK
    <3> QED
      BY <2>1, <3>1 DEF Respond, BookKept
  <2>2. CASE ~Respond(t)
    BY <1>3, <2>2 DEF LoggingIn, Login, RespondFails, BookKept
  <2> QED
    BY <2>1, <2>2
<1>4. ASSUME NEW t \in Handlers, UsingToken(t) PROVE BookKept
  <2>1. CASE ListUsers(t)
    <3>1. request[t].op # "idle" /\ ~Locked
      BY <2>1 DEF ListUsers
    <3>2. phase = "up"
      BY <3>1 DEF IInv, MemoryOK, Idle
    <3>3. users = disk.users
      BY <3>1, <3>2 DEF IInv, MemoryOK
    <3> QED
      BY <2>1, <3>3 DEF ListUsers, BookKept
  <2>2. CASE ~ListUsers(t)
    BY <1>4, <2>2 DEF UsingToken, ReadToken, CheckExpired, CheckValid, BookKept
  <2> QED
    BY <2>1, <2>2
<1>5. ASSUME NEW c \in Certs, WhoAmI(c) PROVE BookKept
  <2>1. users = disk.users
    BY <1>5 DEF WhoAmI, IInv, MemoryOK
  <2> QED
    BY <1>5, <2>1 DEF WhoAmI, BookKept
<1>6. CASE Crash \/ (\E k \in Tokens : Expire(k)) \/ UNCHANGED vars
  BY <1>6 DEF Crash, Expire, vars, BookKept
<1> QED
  BY <1>1, <1>2, <1>3, <1>4, <1>5, <1>6 DEF Next

LEMMA IdentityOfAccount ==
    ASSUME NEW u \in User, u.userID <= MaxUserID
    PROVE  Identity(u) \in [userID : 0..MaxUserID, nickname : Nicknames, cert : Certs \cup {NoCert}]
<1>1. u.userID \in 0..MaxUserID
  BY BoundsAssumption DEF User
<1> QED
  BY <1>1 DEF User, Identity

LEMMA ClashOfIdentities ==
    ASSUME NEW u, NEW v
    PROVE  Clash(Identity(u), Identity(v)) <=> Clash(u, v)
BY DEF Clash, Identity

(* The manager, with its memory, lock, migration, failed writes and        *)
(* restarts, is the account book AccountBook describes.                    *)
THEOREM BookImplemented == Spec => ImplementsBook
<1>1. ASSUME Init PROVE Book!Init
  <2>1. IInv
    BY <1>1, InvInit
  <2>2. disk.users \subseteq User /\ \A u \in disk.users : u.userID <= MaxUserID
    BY <2>1 DEF IInv, TypeOK, Files, NumbersOK
  <2>3. Identities(disk.users) \in
            SUBSET [userID : 0..MaxUserID, nickname : Nicknames, cert : Certs \cup {NoCert}]
    BY <2>2, IdentityOfAccount DEF Identities
  <2>4. \A a, b \in Identities(disk.users) : a # b => a.userID # b.userID
    BY <2>1 DEF IInv, AccountsDistinct, Distinct, Identities, Identity
  <2>5. Identities(told) = {}
    BY <1>1 DEF Init, Identities
  <2> QED
    BY <2>3, <2>4, <2>5 DEF Book!Init
<1>2. ASSUME IInv, IInv', [Next]_vars PROVE [Book!Next]_(Book!vars)
  <2>1. CASE BookKept
    <3>1. Identities(told) \subseteq Identities(told')
      BY <2>1 DEF BookKept, Identities
    <3>2. Identities(told') \subseteq Identities(told) \cup Identities(disk.users)
      BY <2>1 DEF BookKept, Identities
    <3> QED
      BY <2>1, <3>1, <3>2 DEF BookKept, Book!Next, Book!Tell
  <2>2. CASE BookGains
    <3>1. PICK user \in User : /\ disk'.users = disk.users \cup {user}
                               /\ \A u \in disk.users : ~Clash(u, user)
      BY <2>2 DEF BookGains
    <3>2. user.userID <= MaxUserID
      BY <1>2, <3>1 DEF IInv, NumbersOK
    <3>3. Identities(disk'.users) = Identities(disk.users) \cup {Identity(user)}
      BY <3>1 DEF Identities
    <3>4. \A b \in Identities(disk.users) : ~Clash(Identity(user), b)
      BY <3>1, ClashSymmetric, ClashOfIdentities DEF Identities
    <3>5. Identities(told') = Identities(told)
      BY <2>2 DEF BookGains
    <3>6. Book!Open(Identity(user))
      BY <3>3, <3>4, <3>5 DEF Book!Open
    <3> QED
      BY <3>2, <3>6, IdentityOfAccount DEF Book!Next
  <2> QED
    BY <1>2, <2>1, <2>2, BookSteps
<1> QED
  BY Invariance, <1>1, <1>2, PTL DEF Spec, ImplementsBook, Book!Spec
===============================================================================
