----------------------------- MODULE ClientSession -----------------------------
(***************************************************************************)
(* The session of the Qt client: who is registered, with which token, and  *)
(* what the process remembers of it (client-qt/src/AppController.cpp, with *)
(* the form and the buttons of client-qt/qml/Main.qml).                    *)
(*                                                                         *)
(* sendAuthRequest waits for its reply in an event loop of its own, in     *)
(* which timers, buttons and other replies are served: their handlers may  *)
(* wait in loops nested in it.  The functions that wait form a stack; only *)
(* its top can go on, whichever reply comes first.                         *)
(*                                                                         *)
(* Passwords typed in the form are right, and a stored credential is       *)
(* complete.                                                               *)
(***************************************************************************)
EXTENDS Integers, Sequences, SequencesExt

CONSTANTS Users,       \* users that may have an account on the server
          NoUser,
          MaxDepth     \* bound: nested event loops

ASSUME NoUserAssumption == NoUser \notin Users
ASSUME MaxDepthAssumption == MaxDepth \in Nat

VARIABLES accounts,     \* on the server
          running,
          registered,   \* m_isRegistered
          userId,       \* m_registeredUserId
          shown,        \* m_authenticatedUser, the user on the screen
          token,        \* owner of m_accessToken while hasValidSessionToken
          initialized,  \* m_initialized
          polling,      \* m_pollTimer->isActive()
          busy,         \* m_authBusy
          inFlight,     \* m_registrationInFlight
          credentials,  \* users of m_credentials
          stack,        \* the functions waiting in sendAuthRequest
          listing,      \* the directory request in flight, or its reply
          settings,     \* registration/userId in QSettings
          identityFile  \* the local identity.db

profile == <<registered, userId, shown, token>>
flags == <<busy, inFlight>>
vars == <<accounts, running, profile, initialized, polling, flags, credentials, stack, listing,
          settings, identityFile>>

Frames == [op : {"authenticate", "completeRegistration", "ensureHistory", "ensureUsers"},
           user : Users, reply : {"waiting", "session", "error"}]

(* The functions behind the form; the others renew the token.              *)
FormOps == {"authenticate", "completeRegistration"}

(* The users identity.db lists, and those of them it has a password of.    *)
NoFile == [state |-> "absent", listed |-> {}, kept |-> {}]
Spoiled == [state |-> "spoiled", listed |-> {}, kept |-> {}]
Files == {NoFile, Spoiled}
         \cup {f \in [state : {"json"}, listed : SUBSET Users, kept : SUBSET Users] : f.kept \subseteq f.listed}

NoListing == [state |-> "none", users |-> {}]
Asked == [state |-> "asked", users |-> {}]

Init == /\ accounts \in SUBSET Users
        /\ running = FALSE
        /\ registered = FALSE
        /\ userId = NoUser
        /\ shown = NoUser
        /\ token = NoUser
        /\ initialized = FALSE
        /\ polling = FALSE
        /\ busy = FALSE
        /\ inFlight = FALSE
        /\ credentials = {}
        /\ stack = << >>
        /\ listing = NoListing
        /\ settings = NoUser
        /\ identityFile \in {NoFile} \cup {[state |-> "json", listed |-> some, kept |-> {}] : some \in SUBSET Users}

-------------------------------------------------------------------------------
(* The process.                                                            *)

(* The request of fetchUsersFromServer.  Bound: one at a time.             *)
AskUsers == listing' = IF listing = NoListing THEN Asked ELSE listing

(* The constructor: loadCredentials, loadRegistration, and with a profile  *)
(* ensureSessionToken, which may fail, and initializeAfterRegistration.    *)
(* The window does not exist yet, and no timer runs.                       *)
Start ==
    /\ ~running
    /\ running' = TRUE
    /\ credentials' = identityFile.kept
    /\ registered' = (settings \in identityFile.kept)
    /\ initialized' = registered'
    /\ polling' = registered'
    /\ userId' = IF registered' THEN settings ELSE NoUser
    /\ shown' = userId'
    /\ token' \in {NoUser} \cup ({userId'} \cap accounts)
    /\ IF token' # NoUser THEN AskUsers ELSE UNCHANGED listing
    /\ UNCHANGED <<accounts, flags, stack, settings, identityFile>>

Kill == /\ running
        /\ running' = FALSE
        /\ registered' = FALSE
        /\ userId' = NoUser
        /\ shown' = NoUser
        /\ token' = NoUser
        /\ initialized' = FALSE
        /\ polling' = FALSE
        /\ busy' = FALSE
        /\ inFlight' = FALSE
        /\ credentials' = {}
        /\ stack' = << >>
        /\ listing' = NoListing
        /\ UNCHANGED <<accounts, settings, identityFile>>

(* Thirty seconds before m_tokenExpiry.                                    *)
Expire == /\ token # NoUser
          /\ token' = NoUser
          /\ UNCHANGED <<accounts, running, registered, userId, shown, initialized, polling, flags,
                         credentials, stack, listing, settings, identityFile>>

-------------------------------------------------------------------------------
(* sendAuthRequest up to loop.exec().                                      *)
Wait(op, user) ==
    /\ Len(stack) < MaxDepth
    /\ stack' = Append(stack, [op |-> op, user |-> user, reply |-> "waiting"])

BugFormShown == running /\ ~registered
FormShown == running /\ ~registered /\ ~busy

SubmitLogin(user) ==
    /\ FormShown
    /\ Wait("authenticate", user)
    /\ busy' = TRUE
    /\ UNCHANGED <<accounts, running, profile, initialized, polling, inFlight, credentials, listing,
                   settings, identityFile>>

SubmitRegistration(user) ==
    /\ FormShown
    /\ ~inFlight
    /\ Wait("completeRegistration", user)
    /\ busy' = TRUE
    /\ inFlight' = TRUE
    /\ UNCHANGED <<accounts, running, profile, initialized, polling, credentials, listing, settings,
                   identityFile>>

(* ensureSessionToken looks the credential up by the registered user.      *)
NeedsToken(user) == token = NoUser /\ user \in credentials

(* The poll timer, a message, a read marker: fetchHistoryFromServer and    *)
(* its like.  With a valid token they send their request at once.          *)
RenewForHistory ==
    /\ running
    /\ registered
    /\ NeedsToken(userId)
    /\ Wait("ensureHistory", userId)
    /\ UNCHANGED <<accounts, running, profile, initialized, polling, flags, credentials, listing,
                   settings, identityFile>>

(* fetchUsersFromServer for a registered user: its request, or a renewal   *)
(* of the token first, or nothing.                                         *)
FetchUsers(user) ==
    /\ \/ token # NoUser /\ AskUsers
       \/ token = NoUser /\ UNCHANGED listing
    /\ \/ NeedsToken(user) /\ Wait("ensureUsers", user)
       \/ ~NeedsToken(user) /\ UNCHANGED stack

BugReloaded(user, before) == IF identityFile = NoFile THEN {NoUser}
                             ELSE IF identityFile.listed = {} THEN {before}
                             ELSE identityFile.listed

(* loadUserDirectory: m_authenticatedUser as it may be after it.  A file   *)
(* that cannot be parsed or lists nobody changes nothing; one that does    *)
(* not list the registered user makes it another.                          *)
Reloaded(user, before) == IF identityFile = NoFile THEN {NoUser}
                          ELSE IF identityFile.listed = {} THEN {before}
                          ELSE IF user \in identityFile.listed THEN {user}
                          ELSE identityFile.listed

(* refreshUsers, when a dialog opens: identity.db is read again, profile   *)
(* or not.                                                                 *)
RefreshUsers ==
    /\ running
    /\ shown' \in Reloaded(userId, shown)
    /\ \/ registered /\ FetchUsers(userId)
       \/ ~registered /\ UNCHANGED <<listing, stack>>
    /\ UNCHANGED <<accounts, running, registered, userId, token, initialized, polling, flags,
                   credentials, settings, identityFile>>

-------------------------------------------------------------------------------
(* The server, and the network.                                            *)

Waiting(i) == i \in DOMAIN stack /\ stack[i].reply = "waiting"

Reply(i, reply) == stack' = [stack EXCEPT ![i].reply = reply]

AnswerLogin(i) ==
    /\ Waiting(i)
    /\ stack[i].op # "completeRegistration"
    /\ Reply(i, IF stack[i].user \in accounts THEN "session" ELSE "error")
    /\ UNCHANGED <<accounts, running, profile, initialized, polling, flags, credentials, listing,
                   settings, identityFile>>

AnswerRegistration(i) ==
    /\ Waiting(i)
    /\ stack[i].op = "completeRegistration"
    /\ accounts' = accounts \cup {stack[i].user}
    /\ Reply(i, IF stack[i].user \in accounts THEN "error" ELSE "session")
    /\ UNCHANGED <<running, profile, initialized, polling, flags, credentials, listing, settings,
                   identityFile>>

(* The request or its reply is lost, and the loop ends with an error.      *)
LoseAnswer(i) ==
    /\ Waiting(i)
    /\ Reply(i, "error")
    /\ \/ UNCHANGED accounts
       \/ stack[i].op = "completeRegistration" /\ accounts' = accounts \cup {stack[i].user}
    /\ UNCHANGED <<running, profile, initialized, polling, flags, credentials, listing, settings,
                   identityFile>>

BugProfiles == accounts \cup {NoUser}
Profiles == accounts

AnswerUsers ==
    /\ listing.state = "asked"
    /\ listing' \in {[state |-> "answered", users |-> Profiles], NoListing}
    /\ UNCHANGED <<accounts, running, profile, initialized, polling, flags, credentials, stack,
                   settings, identityFile>>

-------------------------------------------------------------------------------
(* The top of the stack goes on once its reply is there.                   *)

Top == stack[Len(stack)]

Answered(ops, reply) == stack # << >> /\ Top.op \in ops /\ Top.reply = reply

Return == stack' = Front(stack)

BugRelease == inFlight' = FALSE /\ UNCHANGED busy
(* busyGuard, and the rollback of m_registrationInFlight.                  *)
Release == inFlight' = FALSE /\ busy' = FALSE

persistRegistration(user) == settings' = user

(* applySessionState, but for m_authenticatedUser, which becomes the user. *)
ApplySession(user) == /\ token' = user
                      /\ userId' = user
                      /\ registered' = TRUE
                      /\ persistRegistration(user)

FormFails ==
    /\ Answered(FormOps, "error")
    /\ Return
    /\ Release
    /\ UNCHANGED <<accounts, running, profile, initialized, polling, credentials, listing, settings,
                   identityFile>>

BugRollBack == credentials' = credentials \cup {Top.user}
RollBack == UNCHANGED credentials

(* storeCredential could not write identity.db: no new file came into its  *)
(* place, and writing over the old one did not begin or broke off.         *)
FormNotStored ==
    /\ Answered(FormOps, "session")
    /\ Return
    /\ Release
    /\ RollBack
    /\ identityFile' \in {identityFile, Spoiled}
    /\ UNCHANGED <<accounts, running, profile, initialized, polling, listing, settings>>

(* persistCredentials: users the file lists stay, unless it is spoiled.    *)
Persisted == [state |-> "json", listed |-> identityFile.listed \cup credentials',
              kept |-> identityFile.kept \cup credentials']

(* storeCredential, applySessionState, initializeAfterRegistration, which  *)
(* ends with applyRegisteredIdentity.                                      *)
FormSucceeds ==
    /\ Answered(FormOps, "session")
    /\ Return
    /\ Release
    /\ credentials' = credentials \cup {Top.user}
    /\ identityFile' = Persisted
    /\ ApplySession(Top.user)
    /\ shown' = Top.user
    /\ initialized' = TRUE
    /\ polling' = TRUE
    /\ AskUsers
    /\ UNCHANGED <<accounts, running>>

RenewalFails ==
    /\ Answered({"ensureHistory", "ensureUsers"}, "error")
    /\ Return
    /\ UNCHANGED <<accounts, running, profile, initialized, polling, flags, credentials, listing,
                   settings, identityFile>>

(* The rest of ensureSessionToken, and of its caller.  Where another user  *)
(* was registered, or none, registrationChanged makes the window refresh   *)
(* the users.  If the form added a credential meanwhile, the pointer into  *)
(* m_credentials dangles: the code may get away with it, end the process   *)
(* (Kill), or spoil the password in memory, so that renewals fail from     *)
(* then on (LoseAnswer).                                                   *)
RenewalSucceeds ==
    /\ Answered({"ensureHistory", "ensureUsers"}, "session")
    /\ Return
    /\ ApplySession(Top.user)
    /\ LET changed == userId # Top.user
       IN  /\ shown' \in IF changed THEN Reloaded(Top.user, Top.user) ELSE {Top.user}
           /\ IF changed \/ Top.op = "ensureUsers" THEN AskUsers ELSE UNCHANGED listing
    /\ UNCHANGED <<accounts, running, initialized, polling, flags, credentials, identityFile>>

(* The reply of the directory, in whichever loop runs.  The registered     *)
(* user is looked for in it; if he is not there, the first one listed      *)
(* becomes the registered user, and a window that shows a profile          *)
(* refreshes the users.                                                    *)
BecomesListed(user) ==
    /\ userId' = user
    /\ persistRegistration(user)
    /\ \/ /\ registered /\ user # userId
          /\ shown' \in Reloaded(user, user)
          /\ listing' = IF token # NoUser THEN Asked ELSE NoListing
          /\ \/ NeedsToken(user) /\ Wait("ensureUsers", user)
             \/ ~NeedsToken(user) /\ UNCHANGED stack
       \/ /\ ~registered \/ user = userId
          /\ shown' = user
          /\ listing' = NoListing
          /\ UNCHANGED stack

ReceiveUsers ==
    /\ running
    /\ listing.state = "answered"
    /\ \/ /\ listing.users = {}
          /\ listing' = NoListing
          /\ UNCHANGED <<userId, shown, settings, stack>>
       \/ \E user \in listing.users :
            /\ userId \in listing.users => user = userId
            /\ BecomesListed(user)
    /\ UNCHANGED <<accounts, running, registered, token, initialized, polling, flags, credentials,
                   identityFile>>

-------------------------------------------------------------------------------
BugDropSession == UNCHANGED token
DropSession == token' = NoUser

(* resetRegistration, behind a button of the registered user.              *)
Reset == /\ running
         /\ registered
         /\ ~inFlight
         /\ registered' = FALSE
         /\ userId' = NoUser
         /\ shown' = NoUser
         /\ DropSession
         /\ initialized' = FALSE
         /\ polling' = FALSE
         /\ busy' = FALSE
         /\ settings' = NoUser
         /\ UNCHANGED <<accounts, running, inFlight, credentials, stack, listing, identityFile>>

-------------------------------------------------------------------------------
Window == \/ \E u \in Users : SubmitLogin(u)
          \/ \E u \in Users : SubmitRegistration(u)
          \/ RefreshUsers
          \/ Reset

Network == \/ \E i \in 1..MaxDepth : AnswerLogin(i)
           \/ \E i \in 1..MaxDepth : AnswerRegistration(i)
           \/ \E i \in 1..MaxDepth : LoseAnswer(i)
           \/ AnswerUsers

Resuming == \/ FormFails
            \/ FormNotStored
            \/ FormSucceeds
            \/ RenewalFails
            \/ RenewalSucceeds
            \/ ReceiveUsers

Process == Start \/ Kill \/ Expire

Next == \/ Window
        \/ RenewForHistory
        \/ Network
        \/ Resuming
        \/ Process

Spec == Init /\ [][Next]_vars

(* The event loop of a form that has been told to quit returns: nothing    *)
(* waits in a loop nested in it.                                           *)
Fairness == WF_vars(FormFails \/ FormNotStored \/ FormSucceeds)

LiveSpec == Spec /\ Fairness

-------------------------------------------------------------------------------
(* Every variable has its type.                                            *)
TypeOK == /\ accounts \subseteq Users
          /\ {running, registered, initialized, polling, busy, inFlight} \subseteq BOOLEAN
          /\ {userId, shown, token, settings} \subseteq Users \cup {NoUser}
          /\ credentials \subseteq Users
          /\ stack \in Seq(Frames)
          /\ Len(stack) <= MaxDepth
          /\ listing \in [state : {"none", "asked", "answered"}, users : SUBSET Users]
          /\ identityFile \in Files

(* One submission of the form at a time, and it is the innermost waiting   *)
(* function: no renewal of a token nests in it, no reset cuts in.  The two *)
(* flags that lock the form say so.                                        *)
OneAuthAtATime ==
    LET forms == {i \in DOMAIN stack : stack[i].op \in FormOps}
    IN  /\ forms \subseteq {Len(stack)}
        /\ busy <=> forms # {}
        /\ inFlight <=> \E i \in forms : stack[i].op = "completeRegistration"

(* Without a profile the client holds no token and does not poll, however  *)
(* late the replies to what it asked for come.                             *)
QuietWithoutProfile == ~registered => token = NoUser /\ ~initialized /\ ~polling

(* The registered user is the saved one, and the one on the screen, so     *)
(* that the next start shows the same one: neither a reload of identity.db,*)
(* spoiled or with others in it, nor a reply that comes late puts another  *)
(* on the screen.  Excused is a registered user without a credential here, *)
(* whom only a late reply of the directory can have registered.            *)
SavedProfileIsShown ==
    registered => /\ settings = userId
                  /\ userId \in credentials => shown = userId

(* Memory and identity.db know the same credentials, writes that could not *)
(* begin included.  One that broke off spoils the file: memory goes on     *)
(* without the new credential, and the next write restores the others.     *)
CredentialsMatchFile == running /\ identityFile # Spoiled => credentials = identityFile.kept

(* If no request waits for ever for its reply, the form is not locked for  *)
(* ever, whatever waits below it.  The client sets no time limit of its    *)
(* own: the premise is the network's and the server's.                     *)
FormComesBack == (\A i \in 1..MaxDepth : []<>~Waiting(i)) => (busy ~> ~busy)

(* After a reset the client has no profile until the user logs in or       *)
(* registers.                                                              *)
ResetHolds == [][running /\ ~registered /\ registered' => Top.op \in FormOps]_vars
===============================================================================
