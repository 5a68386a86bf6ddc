-------------------------- MODULE ClientSessionProofs --------------------------
(***************************************************************************)
(* Theorems about ClientSession for any users and any depth of nested      *)
(* event loops: however logins, registrations, renewals, resets, lost and  *)
(* late answers and restarts interleave, the form waits alone and on top,  *)
(* and the profile on the screen agrees with the token, the timers, the    *)
(* settings and the credentials kept.                                      *)
(***************************************************************************)
EXTENDS ClientSession, SequenceTheorems, TLAPS

(* Nothing of a process outlives it but its files.                         *)
StoppedOK == ~running => /\ stack = << >>
                         /\ ~registered
                         /\ ~busy
                         /\ ~inFlight
                         /\ ~polling
                         /\ ~initialized
                         /\ token = NoUser
                         /\ userId = NoUser
                         /\ shown = NoUser

(* What OneAuthAtATime says, frame by frame, and what makes it last: the   *)
(* form is shown to nobody who has a profile, and whoever has none starts  *)
(* no renewal, so that nothing comes to lie above a form that waits.       *)
IsForm(frame) == frame.op \in FormOps

FormsOK == /\ \A i \in DOMAIN stack : IsForm(stack[i]) => i = Len(stack)
           /\ busy <=> stack # << >> /\ IsForm(Top)
           /\ inFlight <=> stack # << >> /\ Top.op = "completeRegistration"
           /\ busy => ~registered

IInv == /\ TypeOK
        /\ StoppedOK
        /\ FormsOK
        /\ QuietWithoutProfile
        /\ SavedProfileIsShown
        /\ CredentialsMatchFile

-------------------------------------------------------------------------------
(* The stack of waiting functions.                                         *)

Replies == {"waiting", "session", "error"}

LEMMA Pushed ==
    ASSUME NEW s \in Seq(Frames), NEW f \in Frames
    PROVE  LET t == Append(s, f)
           IN  /\ t \in Seq(Frames)
               /\ Len(t) = Len(s) + 1
               /\ t # << >>
               /\ t[Len(t)] = f
               /\ \A i \in 1..Len(s) : t[i] = s[i]
BY AppendProperties

LEMMA Popped ==
    ASSUME NEW s \in Seq(Frames), s # << >>
    PROVE  LET t == Front(s)
           IN  /\ t \in Seq(Frames)
               /\ Len(t) = Len(s) - 1
               /\ \A i \in 1..Len(t) : t[i] = s[i]
<1>1. Len(s) \in Nat \ {0} /\ 1 \in 1..(Len(s) + 1) /\ Len(s) - 1 \in 0..Len(s)
  BY EmptySeq, LenProperties
<1> DEFINE n == Len(s) - 1
<1>2. Front(s) = SubSeq(s, 1, n)
  BY DEF Front
<1>3. n \in Nat /\ \A i \in 1..n : s[i] \in Frames
  BY <1>1
<1> HIDE DEF n
<1>4. /\ SubSeq(s, 1, n) \in Seq(Frames)
      /\ Len(SubSeq(s, 1, n)) = IF 1 <= n THEN n - 1 + 1 ELSE 0
      /\ \A i \in 1..(n - 1 + 1) : SubSeq(s, 1, n)[i] = s[1 + i - 1]
  BY <1>3, SubSeqProperties
<1>5. Len(Front(s)) = n
  BY <1>2, <1>3, <1>4
<1>6. \A i \in 1..n : Front(s)[i] = s[i]
  BY <1>2, <1>3, <1>4
<1> QED
  BY <1>2, <1>4, <1>5, <1>6 DEF n

LEMMA Replied ==
    ASSUME NEW s \in Seq(Frames), NEW i \in 1..Len(s), NEW r \in Replies
    PROVE  LET t == [s EXCEPT ![i].reply = r]
           IN  /\ t \in Seq(Frames)
               /\ Len(t) = Len(s)
               /\ \A j \in 1..Len(s) : t[j].op = s[j].op
<1>1. s[i] \in Frames
  OBVIOUS
<1>2. [s[i] EXCEPT !.reply = r] \in Frames /\ [s[i] EXCEPT !.reply = r].op = s[i].op
  BY <1>1 DEF Frames, Replies
<1> QED
  BY <1>2

LEMMA WaitStack ==
    ASSUME IInv, ~busy, NEW op \in FormOps \cup {"ensureHistory", "ensureUsers"},
           NEW user \in Users, Wait(op, user)
    PROVE  /\ stack' \in Seq(Frames)
           /\ Len(stack') <= MaxDepth
           /\ stack' # << >>
           /\ Top'.op = op
           /\ \A i \in DOMAIN stack' : IsForm(stack'[i]) => i = Len(stack')
<1> DEFINE f == [op |-> op, user |-> user, reply |-> "waiting"]
<1>1. f \in Frames /\ stack \in Seq(Frames)
  BY DEF Frames, FormOps, IInv, TypeOK
<1>2. stack' = Append(stack, f) /\ Len(stack) < MaxDepth
  BY DEF Wait
<1>3. \A i \in 1..Len(stack) : ~IsForm(stack[i])
  BY <1>1 DEF IInv, FormsOK, Top
<1>4. f.op = op
  OBVIOUS
<1> HIDE DEF f
<1>5. /\ stack' \in Seq(Frames)
      /\ Len(stack') = Len(stack) + 1
      /\ stack' # << >>
      /\ stack'[Len(stack')] = f
      /\ \A i \in 1..Len(stack) : stack'[i] = stack[i]
  BY <1>1, <1>2, Pushed
<1>6. ASSUME NEW i \in DOMAIN stack', i # Len(stack') PROVE ~IsForm(stack'[i])
  <2>1. i \in 1..Len(stack)
    BY <1>1, <1>5, <1>6
  <2> QED
    BY <2>1, <1>3, <1>5
<1>7. Len(stack') <= MaxDepth
  BY <1>1, <1>2, <1>5, MaxDepthAssumption
<1> QED
  BY <1>4, <1>5, <1>6, <1>7 DEF Top

LEMMA ReturnStack ==
    ASSUME IInv, stack # << >>, Return
    PROVE  /\ stack' \in Seq(Frames)
           /\ Len(stack') <= MaxDepth
           /\ \A i \in DOMAIN stack' : ~IsForm(stack'[i])
           /\ stack' # << >> => ~IsForm(Top')
           /\ Top \in Frames
<1>1. stack \in Seq(Frames) /\ Len(stack) <= MaxDepth
  BY DEF IInv, TypeOK
<1>2. /\ stack' \in Seq(Frames)
      /\ Len(stack') = Len(stack) - 1
      /\ \A i \in 1..Len(stack') : stack'[i] = stack[i]
  BY <1>1, Popped DEF Return
<1>3. ASSUME NEW i \in DOMAIN stack' PROVE ~IsForm(stack'[i])
  <2>1. i \in DOMAIN stack /\ i # Len(stack) /\ stack'[i] = stack[i]
    BY <1>1, <1>2
  <2> QED
    BY <2>1 DEF IInv, FormsOK
<1>4. stack' # << >> => Len(stack') \in DOMAIN stack'
  BY <1>2
<1>5. Len(stack') <= MaxDepth
  BY <1>1, <1>2, MaxDepthAssumption
<1> QED
  BY <1>1, <1>2, <1>3, <1>4, <1>5 DEF Top

LEMMA ReplyStack ==
    ASSUME IInv, NEW i, Waiting(i), NEW r \in Replies, Reply(i, r)
    PROVE  /\ stack' \in Seq(Frames)
           /\ Len(stack') = Len(stack)
           /\ DOMAIN stack' = DOMAIN stack
           /\ \A j \in DOMAIN stack : stack'[j].op = stack[j].op
           /\ stack # << >>
           /\ stack' # << >>
           /\ Top'.op = Top.op
           /\ stack[i].user \in Users
<1>1. stack \in Seq(Frames) /\ i \in 1..Len(stack)
  BY DEF IInv, TypeOK, Waiting
<1>2. stack' = [stack EXCEPT ![i].reply = r]
  BY DEF Reply
<1>3. stack[i] \in Frames
  BY <1>1
<1>4. /\ stack' \in Seq(Frames)
      /\ Len(stack') = Len(stack)
      /\ \A j \in 1..Len(stack) : stack'[j].op = stack[j].op
  BY <1>1, <1>2, Replied
<1>5. DOMAIN stack = 1..Len(stack) /\ DOMAIN stack' = 1..Len(stack)
  BY <1>1, <1>4
<1>6. stack # << >> /\ stack' # << >> /\ Len(stack) \in 1..Len(stack)
  BY <1>1, <1>4
<1> QED
  BY <1>3, <1>4, <1>5, <1>6 DEF Top, Frames

-------------------------------------------------------------------------------
LEMMA InvInit == Init => IInv
<1> SUFFICES ASSUME Init PROVE IInv
  OBVIOUS
<1>1. TypeOK
  <2>1. stack \in Seq(Frames) /\ Len(stack) <= MaxDepth
    BY EmptySeq, MaxDepthAssumption DEF Init
  <2>2. listing \in [state : {"none", "asked", "answered"}, users : SUBSET Users]
    BY DEF Init, NoListing
  <2>3. identityFile \in Files
    BY DEF Init, Files, NoFile
  <2> QED
    BY <2>1, <2>2, <2>3 DEF Init, TypeOK
<1>2. FormsOK
  BY DEF Init, FormsOK
<1>3. StoppedOK /\ QuietWithoutProfile /\ SavedProfileIsShown /\ CredentialsMatchFile
  BY DEF Init, StoppedOK, QuietWithoutProfile, SavedProfileIsShown, CredentialsMatchFile
<1> QED
  BY <1>1, <1>2, <1>3 DEF IInv

(* A step that only adds a function to the stack: a form, or a renewal.    *)
LEMMA SubmitInv ==
    ASSUME IInv, NEW user \in Users, SubmitLogin(user) \/ SubmitRegistration(user)
    PROVE  IInv'
<1>1. running /\ ~registered /\ ~busy /\ ~inFlight
  BY DEF SubmitLogin, SubmitRegistration, FormShown, IInv, FormsOK, IsForm, FormOps
<1>2. UNCHANGED <<accounts, running, registered, userId, shown, token, initialized, polling,
                  credentials, listing, settings, identityFile>>
  BY DEF SubmitLogin, SubmitRegistration, profile
<1>3. busy' = TRUE
  BY DEF SubmitLogin, SubmitRegistration
<1>4. PICK op \in FormOps : Wait(op, user) /\ inFlight' = (op = "completeRegistration")
  <2>1. CASE SubmitLogin(user)
    <3>1. "authenticate" \in FormOps /\ "authenticate" # "completeRegistration"
      BY DEF FormOps
    <3>2. Wait("authenticate", user) /\ inFlight' = inFlight
      BY <2>1 DEF SubmitLogin
    <3>3. inFlight \in BOOLEAN
      BY DEF IInv, TypeOK
    <3> QED
      BY <1>1, <3>1, <3>2, <3>3
  <2>2. CASE SubmitRegistration(user)
    BY <2>2 DEF SubmitRegistration, FormOps
  <2> QED
    BY <2>1, <2>2
<1>5. /\ stack' \in Seq(Frames)
      /\ Len(stack') <= MaxDepth
      /\ stack' # << >>
      /\ Top'.op = op
      /\ \A i \in DOMAIN stack' : IsForm(stack'[i]) => i = Len(stack')
  BY <1>1, <1>4, WaitStack
<1>6. TypeOK'
  BY <1>2, <1>3, <1>4, <1>5 DEF IInv, TypeOK
<1>7. FormsOK'
  BY <1>1, <1>2, <1>3, <1>4, <1>5 DEF FormsOK, IsForm
<1> QED
  BY <1>1, <1>2, <1>6, <1>7 DEF IInv, StoppedOK, QuietWithoutProfile, SavedProfileIsShown,
                                CredentialsMatchFile

(* A renewal for a user with a profile: no form waits below it.            *)
LEMMA RenewalPushed ==
    ASSUME IInv, registered, NEW op \in {"ensureHistory", "ensureUsers"}, NEW user \in Users,
           Wait(op, user), UNCHANGED <<registered, busy, inFlight>>
    PROVE  /\ stack' \in Seq(Frames)
           /\ Len(stack') <= MaxDepth
           /\ stack' # << >>
           /\ FormsOK'
<1>1. ~busy /\ ~inFlight
  BY DEF IInv, FormsOK, IsForm, FormOps
<1>2. op \notin FormOps /\ op # "completeRegistration"
  BY DEF FormOps
<1>3. /\ stack' \in Seq(Frames)
      /\ Len(stack') <= MaxDepth
      /\ stack' # << >>
      /\ Top'.op = op
      /\ \A i \in DOMAIN stack' : IsForm(stack'[i]) => i = Len(stack')
  BY <1>1, WaitStack
<1> QED
  BY <1>1, <1>2, <1>3 DEF FormsOK, IsForm

LEMMA RenewInv ==
    ASSUME IInv, RenewForHistory
    PROVE  IInv'
<1>1. running /\ registered /\ userId \in Users /\ Wait("ensureHistory", userId)
  BY DEF RenewForHistory, NeedsToken, IInv, TypeOK
<1>2. UNCHANGED <<accounts, running, registered, userId, shown, token, initialized, polling, busy,
                  inFlight, credentials, listing, settings, identityFile>>
  BY DEF RenewForHistory, profile, flags
<1>3. stack' \in Seq(Frames) /\ Len(stack') <= MaxDepth /\ FormsOK'
  BY <1>1, <1>2, RenewalPushed
<1>4. TypeOK'
  BY <1>2, <1>3 DEF IInv, TypeOK
<1> QED
  BY <1>1, <1>2, <1>3, <1>4 DEF IInv, StoppedOK, QuietWithoutProfile, SavedProfileIsShown,
                                CredentialsMatchFile

LEMMA NetworkInv ==
    ASSUME IInv, Network
    PROVE  IInv'
<1>1. ASSUME NEW i, NEW r \in Replies, Waiting(i), Reply(i, r),
             accounts' = accounts \/ accounts' = accounts \cup {stack[i].user},
             UNCHANGED <<running, profile, initialized, polling, flags, credentials, listing,
                         settings, identityFile>>
      PROVE  IInv'
  <2>1. UNCHANGED <<running, registered, userId, shown, token, initialized, polling, busy,
                    inFlight, credentials, listing, settings, identityFile>>
    BY <1>1 DEF profile, flags
  <2>2. /\ stack' \in Seq(Frames)
        /\ Len(stack') = Len(stack)
        /\ DOMAIN stack' = DOMAIN stack
        /\ \A j \in DOMAIN stack : stack'[j].op = stack[j].op
        /\ stack # << >>
        /\ stack' # << >>
        /\ Top'.op = Top.op
        /\ stack[i].user \in Users
    BY <1>1, ReplyStack
  <2>3. TypeOK'
    BY <1>1, <2>1, <2>2 DEF IInv, TypeOK
  <2>4. FormsOK'
    BY <2>1, <2>2 DEF IInv, FormsOK, IsForm
  <2> QED
    BY <2>1, <2>2, <2>3, <2>4 DEF IInv, StoppedOK, QuietWithoutProfile, SavedProfileIsShown,
                                  CredentialsMatchFile
<1>2. ASSUME NEW i \in 1..MaxDepth, AnswerLogin(i) PROVE IInv'
  <2>1. PICK r \in Replies : Reply(i, r)
    BY <1>2 DEF AnswerLogin, Replies
  <2> QED
    BY <1>1, <1>2, <2>1 DEF AnswerLogin
<1>3. ASSUME NEW i \in 1..MaxDepth, AnswerRegistration(i) PROVE IInv'
  <2>1. PICK r \in Replies : Reply(i, r)
    BY <1>3 DEF AnswerRegistration, Replies
  <2> QED
    BY <1>1, <1>3, <2>1 DEF AnswerRegistration
<1>4. ASSUME NEW i \in 1..MaxDepth, LoseAnswer(i) PROVE IInv'
  BY <1>1, <1>4 DEF LoseAnswer, Replies
<1>5. CASE AnswerUsers
  <2>1. UNCHANGED <<accounts, running, registered, userId, shown, token, initialized, polling, busy,
                    inFlight, credentials, stack, settings, identityFile>>
    BY <1>5 DEF AnswerUsers, profile, flags
  <2>2. listing' \in [state : {"none", "asked", "answered"}, users : SUBSET Users]
    BY <1>5 DEF AnswerUsers, Profiles, NoListing, IInv, TypeOK
  <2>3. TypeOK'
    BY <2>1, <2>2 DEF IInv, TypeOK
  <2> QED
    BY <2>1, <2>3 DEF IInv, StoppedOK, FormsOK, Top, QuietWithoutProfile, SavedProfileIsShown,
                      CredentialsMatchFile
<1> QED
  BY <1>2, <1>3, <1>4, <1>5 DEF Network

-------------------------------------------------------------------------------
(* The top of the stack goes on.                                           *)

(* A form that returns leaves none behind, and unlocks the next.           *)
LEMMA Released ==
    ASSUME IInv, stack # << >>, Return, Release
    PROVE  FormsOK'
<1>1. \A i \in DOMAIN stack' : ~IsForm(stack'[i])
  BY ReturnStack
<1>2. stack' # << >> => ~IsForm(Top')
  BY ReturnStack
<1>3. stack' # << >> => Top'.op # "completeRegistration"
  BY <1>2 DEF IsForm, FormOps
<1>4. ~busy' /\ ~inFlight'
  BY DEF Release
<1> QED
  BY <1>1, <1>2, <1>3, <1>4 DEF FormsOK

LEMMA FormInv ==
    ASSUME IInv, FormFails \/ FormNotStored \/ FormSucceeds
    PROVE  IInv'
<1>1. /\ stack # << >> /\ Return /\ Release /\ Top.op \in FormOps
      /\ accounts' = accounts /\ running' = running
  BY DEF FormFails, FormNotStored, FormSucceeds, Answered
<1>2. stack' \in Seq(Frames) /\ Len(stack') <= MaxDepth /\ Top.user \in Users
  BY <1>1, ReturnStack DEF Frames
<1>3. FormsOK'
  BY <1>1, Released
<1>4. running
  BY <1>1 DEF IInv, StoppedOK
<1>5. busy' = FALSE /\ inFlight' = FALSE
  BY <1>1 DEF Release
<1>6. CASE FormSucceeds
  <2>1. /\ credentials' = credentials \cup {Top.user}
        /\ identityFile' = Persisted
        /\ token' = Top.user /\ userId' = Top.user /\ settings' = Top.user /\ shown' = Top.user
        /\ registered' = TRUE /\ initialized' = TRUE /\ polling' = TRUE
        /\ listing' \in {Asked, listing}
    BY <1>6 DEF FormSucceeds, ApplySession, persistRegistration, AskUsers
  <2>2. listing' \in [state : {"none", "asked", "answered"}, users : SUBSET Users]
    BY <2>1 DEF Asked, IInv, TypeOK
  <2>3. credentials' \subseteq Users /\ identityFile \in Files
    BY <1>2, <2>1 DEF IInv, TypeOK
  <2>4. identityFile' \in Files /\ identityFile'.kept = credentials'
    <3>1. identityFile.kept \subseteq identityFile.listed /\ identityFile.listed \subseteq Users
      BY <2>3 DEF Files, NoFile, Spoiled
    <3>2. identityFile.kept \subseteq credentials
      <4>1. CASE identityFile = Spoiled
        BY <4>1 DEF Spoiled
      <4>2. CASE identityFile # Spoiled
        BY <1>4, <4>2 DEF IInv, CredentialsMatchFile
      <4> QED
        BY <4>1, <4>2
    <3> QED
      BY <2>1, <2>3, <3>1, <3>2 DEF Persisted, Files
  <2>5. TypeOK'
    BY <1>1, <1>2, <1>5, <2>1, <2>2, <2>3, <2>4 DEF IInv, TypeOK
  <2>6. StoppedOK' /\ QuietWithoutProfile' /\ SavedProfileIsShown'
    BY <1>1, <1>4, <2>1 DEF StoppedOK, QuietWithoutProfile, SavedProfileIsShown
  <2>7. CredentialsMatchFile'
    BY <2>4 DEF CredentialsMatchFile
  <2> QED
    BY <1>3, <2>5, <2>6, <2>7 DEF IInv
<1>7. CASE FormFails \/ FormNotStored
  <2>1. UNCHANGED <<accounts, running, registered, userId, shown, token, initialized, polling,
                    credentials, listing, settings>>
    BY <1>7 DEF FormFails, FormNotStored, RollBack, profile
  <2>2. identityFile' \in {identityFile, Spoiled}
    BY <1>7 DEF FormFails, FormNotStored
  <2>3. identityFile' \in Files
    BY <2>2 DEF IInv, TypeOK, Files
  <2>4. TypeOK'
    BY <1>2, <1>5, <2>1, <2>3 DEF IInv, TypeOK
  <2>5. CredentialsMatchFile'
    BY <2>1, <2>2 DEF IInv, CredentialsMatchFile, Spoiled
  <2> QED
    BY <1>3, <1>4, <2>1, <2>4, <2>5 DEF IInv, StoppedOK, QuietWithoutProfile, SavedProfileIsShown
<1> QED
  BY <1>6, <1>7

(* loadUserDirectory leaves on the screen a user the client has a          *)
(* credential of: identity.db lists him, or cannot be read.                *)
LEMMA ReloadedFits ==
    ASSUME IInv, running, NEW user \in Users \cup {NoUser},
           NEW before \in Users \cup {NoUser}, user \in credentials => before = user,
           NEW s \in Reloaded(user, before)
    PROVE  /\ s \in Users \cup {NoUser}
           /\ user \in credentials => s = user
<1>1. /\ identityFile \in Files /\ credentials \subseteq Users
      /\ identityFile # Spoiled => credentials = identityFile.kept
  BY DEF IInv, TypeOK, CredentialsMatchFile
<1>2. identityFile.kept \subseteq identityFile.listed /\ identityFile.listed \subseteq Users
  BY <1>1 DEF Files, NoFile, Spoiled
<1>3. CASE identityFile = NoFile
  BY <1>1, <1>3 DEF Reloaded, NoFile, Spoiled
<1>4. CASE identityFile = Spoiled
  BY <1>1, <1>4 DEF Reloaded, NoFile, Spoiled
<1>5. CASE identityFile # NoFile /\ identityFile # Spoiled
  BY <1>1, <1>2, <1>5 DEF Reloaded
<1> QED
  BY <1>3, <1>4, <1>5

LEMMA RenewalInv ==
    ASSUME IInv, RenewalFails \/ RenewalSucceeds
    PROVE  IInv'
<1>1. /\ stack # << >> /\ Return /\ Top.op \in {"ensureHistory", "ensureUsers"}
      /\ UNCHANGED <<accounts, running, initialized, polling, busy, inFlight, credentials, identityFile>>
  BY DEF RenewalFails, RenewalSucceeds, Answered, flags
<1>2. ~IsForm(Top) /\ Top.op # "completeRegistration"
  BY <1>1 DEF IsForm, FormOps
<1>3. running /\ ~busy /\ ~inFlight
  BY <1>1, <1>2 DEF IInv, StoppedOK, FormsOK
<1>4. /\ stack' \in Seq(Frames) /\ Len(stack') <= MaxDepth /\ Top.user \in Users
      /\ \A i \in DOMAIN stack' : ~IsForm(stack'[i])
      /\ stack' # << >> => ~IsForm(Top')
  BY <1>1, ReturnStack DEF Frames
<1>5. stack' # << >> => Top'.op # "completeRegistration"
  BY <1>4 DEF IsForm, FormOps
<1>6. FormsOK'
  BY <1>1, <1>3, <1>4, <1>5 DEF FormsOK
<1>7. CASE RenewalSucceeds
  <2>1. /\ token' = Top.user /\ userId' = Top.user /\ settings' = Top.user
        /\ registered' = TRUE
        /\ shown' \in Reloaded(Top.user, Top.user) \cup {Top.user}
        /\ listing' \in {Asked, listing}
    BY <1>7 DEF RenewalSucceeds, ApplySession, persistRegistration, AskUsers
  <2>2. listing' \in [state : {"none", "asked", "answered"}, users : SUBSET Users]
    BY <2>1 DEF Asked, IInv, TypeOK
  <2>3. shown' \in Users \cup {NoUser} /\ (Top.user \in credentials => shown' = Top.user)
    BY <1>3, <1>4, <2>1, ReloadedFits
  <2>4. TypeOK'
    BY <1>1, <1>4, <2>1, <2>2, <2>3 DEF IInv, TypeOK
  <2>5. StoppedOK' /\ QuietWithoutProfile' /\ SavedProfileIsShown' /\ CredentialsMatchFile'
    BY <1>1, <1>3, <2>1, <2>3 DEF IInv, StoppedOK, QuietWithoutProfile, SavedProfileIsShown,
                                  CredentialsMatchFile
  <2> QED
    BY <1>6, <2>4, <2>5 DEF IInv
<1>8. CASE RenewalFails
  <2>1. UNCHANGED <<registered, userId, shown, token, listing, settings>>
    BY <1>8 DEF RenewalFails, profile
  <2>2. TypeOK'
    BY <1>1, <1>4, <2>1 DEF IInv, TypeOK
  <2> QED
    BY <1>1, <1>3, <1>6, <2>1, <2>2 DEF IInv, StoppedOK, QuietWithoutProfile,
                                        SavedProfileIsShown, CredentialsMatchFile
<1> QED
  BY <1>7, <1>8

(* A reload of identity.db, or the reply of the directory: another user    *)
(* may be registered and shown, and another renewal wait.                  *)
LEMMA ListingInv ==
    ASSUME IInv, ReceiveUsers \/ RefreshUsers
    PROVE  IInv'
<1>1. /\ running
      /\ UNCHANGED <<accounts, running, registered, token, initialized, polling, busy, inFlight,
                     credentials, identityFile>>
  BY DEF ReceiveUsers, RefreshUsers, flags
<1>2. userId \in Users \cup {NoUser} /\ listing.users \subseteq Users /\ credentials \subseteq Users
  BY DEF IInv, TypeOK
<1> DEFINE Asking == registered /\ \E user \in Users : Wait("ensureUsers", user)
           Renamed == userId' \in Users /\ settings' = userId'
<1>3. /\ listing' = NoListing \/ listing' = Asked \/ listing' = listing
      /\ stack' = stack \/ Asking
      /\ (userId' = userId /\ settings' = settings) \/ Renamed
  <2>1. CASE RefreshUsers
    <3>1. userId' = userId /\ settings' = settings
      BY <2>1 DEF RefreshUsers
    <3>2. listing' = Asked \/ listing' = listing
      BY <2>1 DEF RefreshUsers, FetchUsers, AskUsers
    <3>3. stack' = stack \/ (registered /\ userId \in Users /\ Wait("ensureUsers", userId))
      BY <1>2, <2>1 DEF RefreshUsers, FetchUsers, NeedsToken
    <3> QED
      BY <3>1, <3>2, <3>3
  <2>2. CASE ReceiveUsers /\ listing.users = {}
    BY <2>2 DEF ReceiveUsers
  <2>3. CASE ReceiveUsers /\ listing.users # {}
    <3>1. PICK user \in listing.users : BecomesListed(user)
      BY <2>3 DEF ReceiveUsers
    <3>2. user \in Users /\ userId' = user /\ settings' = user
      BY <1>2, <3>1 DEF BecomesListed, persistRegistration
    <3>3. listing' = NoListing \/ listing' = Asked
      BY <3>1 DEF BecomesListed
    <3>4. stack' = stack \/ (registered /\ Wait("ensureUsers", user))
      BY <3>1 DEF BecomesListed
    <3> QED
      BY <3>2, <3>3, <3>4
  <2> QED
    BY <2>1, <2>2, <2>3
<1>4. shown' \in Users \cup {NoUser} /\ (registered /\ userId' \in credentials => shown' = userId')
  <2>1. shown \in Users \cup {NoUser} /\ (registered /\ userId \in credentials => shown = userId)
    BY DEF IInv, TypeOK, SavedProfileIsShown
  <2>2. CASE RefreshUsers
    <3>1. shown' \in Reloaded(userId, shown) /\ userId' = userId
      BY <2>2 DEF RefreshUsers
    <3>2. CASE registered
      BY <1>1, <1>2, <2>1, <3>1, <3>2, ReloadedFits
    <3>3. CASE ~registered
      <4>1. identityFile.listed \subseteq Users
        BY DEF IInv, TypeOK, Files, NoFile, Spoiled
      <4> QED
        BY <1>2, <2>1, <3>1, <3>3, <4>1 DEF Reloaded
    <3> QED
      BY <3>2, <3>3
  <2>3. CASE ReceiveUsers /\ listing.users = {}
    BY <2>1, <2>3 DEF ReceiveUsers
  <2>4. CASE ReceiveUsers /\ listing.users # {}
    <3>1. PICK user \in listing.users : BecomesListed(user)
      BY <2>4 DEF ReceiveUsers
    <3>2. userId' = user /\ user \in Users /\ shown' \in Reloaded(user, user) \cup {user}
      BY <1>2, <3>1 DEF BecomesListed
    <3> QED
      BY <1>1, <3>2, ReloadedFits
  <2> QED
    BY <2>2, <2>3, <2>4
<1>5. listing' \in [state : {"none", "asked", "answered"}, users : SUBSET Users]
  BY <1>3 DEF NoListing, Asked, IInv, TypeOK
<1>6. {userId', shown', token', settings'} \subseteq Users \cup {NoUser}
  BY <1>1, <1>3, <1>4 DEF IInv, TypeOK
<1>7. stack' \in Seq(Frames) /\ Len(stack') <= MaxDepth /\ FormsOK'
  <2>1. CASE UNCHANGED stack
    BY <1>1, <2>1 DEF IInv, TypeOK, FormsOK, Top
  <2>2. ASSUME registered, NEW user \in Users, Wait("ensureUsers", user)
        PROVE  stack' \in Seq(Frames) /\ Len(stack') <= MaxDepth /\ FormsOK'
    BY <1>1, <2>2, RenewalPushed
  <2> QED
    BY <1>3, <2>1, <2>2 DEF Asking
<1>8. TypeOK'
  BY <1>1, <1>5, <1>6, <1>7 DEF IInv, TypeOK
<1>9. SavedProfileIsShown'
  BY <1>1, <1>3, <1>4 DEF IInv, SavedProfileIsShown
<1> QED
  BY <1>1, <1>7, <1>8, <1>9 DEF IInv, StoppedOK, QuietWithoutProfile, CredentialsMatchFile

LEMMA ResetInv ==
    ASSUME IInv, Reset
    PROVE  IInv'
<1>1. /\ running /\ registered /\ ~inFlight
      /\ userId' = NoUser /\ shown' = NoUser /\ token' = NoUser /\ settings' = NoUser
      /\ registered' = FALSE /\ initialized' = FALSE /\ polling' = FALSE /\ busy' = FALSE
      /\ UNCHANGED <<accounts, running, inFlight, credentials, stack, listing, identityFile>>
  BY DEF Reset, DropSession
<1>2. ~busy
  BY <1>1 DEF IInv, FormsOK
<1>3. TypeOK'
  BY <1>1 DEF IInv, TypeOK
<1>4. FormsOK'
  BY <1>1, <1>2 DEF IInv, FormsOK, Top
<1> QED
  BY <1>1, <1>3, <1>4 DEF IInv, StoppedOK, QuietWithoutProfile, SavedProfileIsShown,
                          CredentialsMatchFile

-------------------------------------------------------------------------------
LEMMA ProcessInv ==
    ASSUME IInv, Process
    PROVE  IInv'
<1>1. CASE Start
  <2>1. /\ ~running /\ running' = TRUE
        /\ credentials' = identityFile.kept
        /\ registered' = (settings \in identityFile.kept)
        /\ initialized' = registered' /\ polling' = registered'
        /\ userId' = IF registered' THEN settings ELSE NoUser
        /\ shown' = userId'
        /\ token' \in {NoUser} \cup ({userId'} \cap accounts)
        /\ listing' \in {Asked, listing}
        /\ UNCHANGED <<accounts, busy, inFlight, stack, settings, identityFile>>
    BY <1>1 DEF Start, AskUsers, flags
  <2>2. stack = << >> /\ ~busy /\ ~inFlight
    BY <2>1 DEF IInv, StoppedOK
  <2>3. {registered', initialized', polling'} \subseteq BOOLEAN
    BY <2>1
  <2>4. settings \in Users \cup {NoUser} /\ accounts \subseteq Users /\ identityFile.kept \subseteq Users
    BY DEF IInv, TypeOK, Files, NoFile, Spoiled
  <2>5. userId' \in Users \cup {NoUser} /\ shown' = userId' /\ token' \in Users \cup {NoUser}
    BY <2>1, <2>4
  <2>6. listing' \in [state : {"none", "asked", "answered"}, users : SUBSET Users]
    BY <2>1 DEF Asked, IInv, TypeOK
  <2>7. TypeOK'
    BY <2>1, <2>3, <2>4, <2>5, <2>6 DEF IInv, TypeOK
  <2>8. ~registered' => token' = NoUser
    BY <2>1, <2>4, NoUserAssumption
  <2>9. FormsOK'
    BY <2>1, <2>2 DEF FormsOK
  <2>10. QuietWithoutProfile'
    BY <2>1, <2>8 DEF QuietWithoutProfile
  <2> QED
    BY <2>1, <2>7, <2>9, <2>10 DEF IInv, StoppedOK, SavedProfileIsShown, CredentialsMatchFile
<1>2. CASE Kill
  <2>1. /\ registered' = FALSE /\ initialized' = FALSE /\ polling' = FALSE /\ busy' = FALSE
        /\ inFlight' = FALSE /\ running' = FALSE
        /\ userId' = NoUser /\ shown' = NoUser /\ token' = NoUser /\ credentials' = {} /\ stack' = << >>
        /\ listing' = NoListing
        /\ UNCHANGED <<accounts, settings, identityFile>>
    BY <1>2 DEF Kill
  <2>2. stack' \in Seq(Frames) /\ Len(stack') <= MaxDepth
    BY <2>1, EmptySeq, MaxDepthAssumption
  <2>3. listing' \in [state : {"none", "asked", "answered"}, users : SUBSET Users]
    BY <2>1 DEF NoListing
  <2>4. TypeOK'
    BY <2>1, <2>2, <2>3 DEF IInv, TypeOK
  <2>5. FormsOK'
    BY <2>1 DEF FormsOK
  <2> QED
    BY <2>1, <2>4, <2>5 DEF IInv, StoppedOK, QuietWithoutProfile, SavedProfileIsShown,
                            CredentialsMatchFile
<1>3. CASE Expire
  <2>1. /\ token' = NoUser
        /\ UNCHANGED <<accounts, running, registered, userId, shown, initialized, polling, busy,
                       inFlight, credentials, stack, listing, settings, identityFile>>
    BY <1>3 DEF Expire, flags
  <2>2. TypeOK'
    BY <2>1 DEF IInv, TypeOK
  <2>3. FormsOK'
    BY <2>1 DEF IInv, FormsOK, Top
  <2> QED
    BY <2>1, <2>2, <2>3 DEF IInv, StoppedOK, QuietWithoutProfile, SavedProfileIsShown,
                            CredentialsMatchFile
<1> QED
  BY <1>1, <1>2, <1>3 DEF Process

LEMMA InvNext == IInv /\ [Next]_vars => IInv'
<1> SUFFICES ASSUME IInv, [Next]_vars PROVE IInv'
  OBVIOUS
<1>1. CASE Window
  BY <1>1, SubmitInv, ListingInv, ResetInv DEF Window
<1>2. CASE RenewForHistory
  BY <1>2, RenewInv
<1>3. CASE Network
  BY <1>3, NetworkInv
<1>4. CASE Resuming
  BY <1>4, FormInv, RenewalInv, ListingInv DEF Resuming
<1>5. CASE Process
  BY <1>5, ProcessInv
<1>6. CASE UNCHANGED vars
  BY <1>6 DEF vars, profile, flags, IInv, TypeOK, StoppedOK, FormsOK, Top, QuietWithoutProfile,
              SavedProfileIsShown, CredentialsMatchFile
<1> QED
  BY <1>1, <1>2, <1>3, <1>4, <1>5, <1>6 DEF Next

-------------------------------------------------------------------------------
(* The stack of nested event loops, the flags of the form, the profile and *)
(* what is kept of it fit together in every reachable state.               *)
THEOREM Invariance == Spec => []IInv
BY InvInit, InvNext, PTL DEF Spec

(* Every variable has its type in every reachable state.                   *)
THEOREM TypeCorrect == Spec => []TypeOK
<1>1. IInv => TypeOK
  BY DEF IInv
<1> QED
  BY <1>1, Invariance, PTL

(* However deep the event loops of sendAuthRequest nest, only one login or *)
(* registration is under way, no renewal nests in it, and m_authBusy and   *)
(* m_registrationInFlight say so: what FormShown and Reset rely on.        *)
THEOREM FormsWaitAlone == Spec => []OneAuthAtATime
<1>1. ASSUME IInv PROVE OneAuthAtATime
  <2> DEFINE forms == {i \in DOMAIN stack : stack[i].op \in FormOps}
  <2>1. stack \in Seq(Frames)
    BY <1>1 DEF IInv, TypeOK
  <2>2. DOMAIN stack = 1..Len(stack) /\ (stack # << >> => Len(stack) \in DOMAIN stack)
    BY <2>1, EmptySeq, LenProperties
  <2>3. \A i \in DOMAIN stack : stack # << >>
    BY <2>2
  <2>4. \A i \in forms : i = Len(stack)
    BY <1>1 DEF IInv, FormsOK, IsForm
  <2>5. busy <=> forms # {}
    BY <1>1, <2>2, <2>3, <2>4 DEF IInv, FormsOK, IsForm, Top
  <2>6. inFlight <=> \E i \in forms : stack[i].op = "completeRegistration"
    BY <1>1, <2>2, <2>3, <2>4 DEF IInv, FormsOK, IsForm, Top, FormOps
  <2> HIDE DEF forms
  <2>7. forms \subseteq {Len(stack)}
    BY <2>4
  <2> QED
    BY <2>5, <2>6, <2>7 DEF OneAuthAtATime, forms
<1> QED
  BY <1>1, Invariance, PTL

(* A client without a profile holds no session token and does not poll,    *)
(* whichever replies of an earlier profile still come (resetRegistration). *)
THEOREM NoProfileNoTraffic == Spec => []QuietWithoutProfile
<1>1. IInv => QuietWithoutProfile
  BY DEF IInv
<1> QED
  BY <1>1, Invariance, PTL

(* The registration in QSettings is that of the registered user, and the   *)
(* user on the screen is he as long as the client has a credential of his, *)
(* whichever of login, registration, renewal, directory and reload of      *)
(* identity.db (applyDirectoryFromJson) assigned one of them last.         *)
THEOREM SavedIsShown == Spec => []SavedProfileIsShown
<1>1. IInv => SavedProfileIsShown
  BY DEF IInv
<1> QED
  BY <1>1, Invariance, PTL

(* m_credentials and identity.db agree, writes that failed included        *)
(* (storeCredential), unless one broke off and left a file that cannot be  *)
(* read (persistCredentials); the next write heals it.                     *)
THEOREM CredentialsKept == Spec => []CredentialsMatchFile
<1>1. IInv => CredentialsMatchFile
  BY DEF IInv
<1> QED
  BY <1>1, Invariance, PTL
-------------------------------------------------------------------------------
(* After a reset.  What ResetHolds (ClientSession) lacks is a renewal that *)
(* waits when the user resets; what its answer to a restart lacks is also  *)
(* a directory request under way, whose reply saves the first user listed. *)

NoRenewal == \A i \in DOMAIN stack : IsForm(stack[i])

Settled == ~registered /\ NoRenewal

Gone == Settled /\ settings = NoUser /\ listing = NoListing

ByForm == registered' /\ Top.op \in FormOps

StaysSettled == /\ Reset /\ stack = << >> => Settled'
                /\ running /\ running' /\ Settled => Settled' \/ ByForm

StaysGone == /\ Reset /\ stack = << >> /\ listing = NoListing => Gone'
             /\ Gone => Gone' \/ ByForm

(* Without a renewal the only function that can wait is a form.            *)
LEMMA TopIsForm ==
    ASSUME IInv, NoRenewal, stack # << >>
    PROVE  Top.op \in FormOps
<1>1. stack \in Seq(Frames)
  BY DEF IInv, TypeOK
<1>2. Len(stack) \in DOMAIN stack
  BY <1>1, EmptySeq, LenProperties
<1> QED
  BY <1>2 DEF NoRenewal, IsForm, Top

LEMMA SubmitSettled ==
    ASSUME IInv, NoRenewal, ~busy, NEW op \in FormOps, NEW user \in Users, Wait(op, user)
    PROVE  NoRenewal'
<1> DEFINE f == [op |-> op, user |-> user, reply |-> "waiting"]
<1>1. f \in Frames /\ stack \in Seq(Frames)
  BY DEF Frames, FormOps, IInv, TypeOK
<1>2. stack' = Append(stack, f) /\ f.op = op
  BY DEF Wait
<1> HIDE DEF f
<1>3. /\ stack' \in Seq(Frames)
      /\ Len(stack') = Len(stack) + 1
      /\ stack'[Len(stack')] = f
      /\ \A i \in 1..Len(stack) : stack'[i] = stack[i]
  BY <1>1, <1>2, Pushed
<1>4. ASSUME NEW i \in DOMAIN stack' PROVE IsForm(stack'[i])
  <2>1. i \in DOMAIN stack \/ i = Len(stack')
    BY <1>1, <1>3
  <2>2. i \in DOMAIN stack => stack'[i] = stack[i]
    BY <1>1, <1>3
  <2> QED
    BY <1>2, <1>3, <2>1, <2>2 DEF NoRenewal, IsForm
<1> QED
  BY <1>4 DEF NoRenewal

LEMMA ReturnSettled ==
    ASSUME IInv, NoRenewal, stack # << >>, Return
    PROVE  NoRenewal'
<1>1. stack \in Seq(Frames)
  BY DEF IInv, TypeOK
<1>2. /\ stack' \in Seq(Frames)
      /\ Len(stack') = Len(stack) - 1
      /\ \A i \in 1..Len(stack') : stack'[i] = stack[i]
  BY <1>1, Popped DEF Return
<1>3. \A i \in DOMAIN stack' : i \in DOMAIN stack /\ stack'[i] = stack[i]
  BY <1>1, <1>2
<1> QED
  BY <1>3 DEF NoRenewal

LEMMA ReplySettled ==
    ASSUME IInv, NoRenewal, NEW i, Waiting(i), NEW r \in Replies, Reply(i, r)
    PROVE  NoRenewal'
<1>1. /\ DOMAIN stack' = DOMAIN stack
      /\ \A j \in DOMAIN stack : stack'[j].op = stack[j].op
  BY ReplyStack
<1> QED
  BY <1>1 DEF NoRenewal, IsForm

(* Every step but the success of a form and a start of the client.  What   *)
(* is saved changes only with the reply of the directory.                  *)
LEMMA SettledNext ==
    ASSUME IInv, Settled, [Next]_vars, ~FormSucceeds, ~Start
    PROVE  /\ Settled'
           /\ listing = NoListing => listing' = NoListing /\ settings' = settings
<1> DEFINE Goal == Settled' /\ (listing = NoListing => listing' = NoListing /\ settings' = settings)
<1>1. ~registered /\ NoRenewal
  BY DEF Settled
<1>2. ASSUME NoRenewal', UNCHANGED <<registered, listing, settings>> PROVE Goal
  BY <1>1, <1>2 DEF Settled
<1>3. CASE Window
  <2>1. ASSUME NEW u \in Users, SubmitLogin(u) \/ SubmitRegistration(u) PROVE Goal
    <3>1. ~busy /\ UNCHANGED <<registered, listing, settings>>
      BY <2>1 DEF SubmitLogin, SubmitRegistration, FormShown, profile
    <3>2. \E op \in FormOps : Wait(op, u)
      BY <2>1 DEF SubmitLogin, SubmitRegistration, FormOps
    <3> QED
      BY <1>1, <1>2, <3>1, <3>2, SubmitSettled
  <2>2. CASE RefreshUsers
    <3>1. UNCHANGED <<registered, listing, stack, settings>>
      BY <1>1, <2>2 DEF RefreshUsers
    <3> QED
      BY <1>1, <1>2, <3>1 DEF NoRenewal
  <2>3. ~Reset
    BY <1>1 DEF Reset
  <2> QED
    BY <1>3, <2>1, <2>2, <2>3 DEF Window
<1>4. CASE RenewForHistory
  BY <1>1, <1>4 DEF RenewForHistory
<1>5. CASE Network
  <2>1. ASSUME NEW i, AnswerLogin(i) \/ AnswerRegistration(i) \/ LoseAnswer(i) PROVE Goal
    <3>1. Waiting(i) /\ UNCHANGED <<registered, listing, settings>>
      BY <2>1 DEF AnswerLogin, AnswerRegistration, LoseAnswer, profile
    <3>2. \E r \in Replies : Reply(i, r)
      BY <2>1 DEF AnswerLogin, AnswerRegistration, LoseAnswer, Replies
    <3> QED
      BY <1>1, <1>2, <3>1, <3>2, ReplySettled
  <2>2. CASE AnswerUsers
    <3>1. UNCHANGED <<registered, stack, settings>> /\ listing # NoListing
      BY <2>2 DEF AnswerUsers, profile, NoListing
    <3> QED
      BY <1>1, <3>1 DEF Settled, NoRenewal
  <2> QED
    BY <1>5, <2>1, <2>2 DEF Network
<1>6. CASE Resuming
  <2>1. CASE FormFails \/ FormNotStored
    <3>1. stack # << >> /\ Return /\ UNCHANGED <<registered, listing, settings>>
      BY <2>1 DEF FormFails, FormNotStored, Answered, profile
    <3> QED
      BY <1>1, <1>2, <3>1, ReturnSettled
  <2>2. ~RenewalFails /\ ~RenewalSucceeds
    BY <1>1, TopIsForm DEF RenewalFails, RenewalSucceeds, Answered, FormOps
  <2>3. CASE ReceiveUsers
    <3>1. UNCHANGED <<registered, stack>> /\ listing # NoListing
      BY <1>1, <2>3 DEF ReceiveUsers, BecomesListed, NoListing
    <3> QED
      BY <1>1, <3>1 DEF Settled, NoRenewal
  <2> QED
    BY <1>6, <2>1, <2>2, <2>3 DEF Resuming
<1>7. CASE Process
  <2>1. CASE Kill
    <3>1. registered' = FALSE /\ stack' = << >> /\ listing' = NoListing /\ settings' = settings
      BY <2>1 DEF Kill
    <3>2. DOMAIN << >> = {}
      OBVIOUS
    <3> QED
      BY <3>1, <3>2 DEF Settled, NoRenewal
  <2>2. CASE Expire
    BY <1>1, <1>2, <2>2 DEF Expire, NoRenewal
  <2> QED
    BY <1>7, <2>1, <2>2 DEF Process
<1>8. CASE UNCHANGED vars
  BY <1>1, <1>2, <1>8 DEF vars, profile, NoRenewal
<1> QED
  BY <1>3, <1>4, <1>5, <1>6, <1>7, <1>8 DEF Next

(* Only a form makes a profile where there is none and no renewal waits.   *)
LEMMA FormRegisters == FormSucceeds => ByForm
BY DEF FormSucceeds, Answered, ApplySession, ByForm

LEMMA ResetSettles == Reset /\ stack = << >> => Settled' /\ settings' = NoUser /\ listing' = listing
<1>1. DOMAIN << >> = {}
  OBVIOUS
<1> QED
  BY <1>1 DEF Reset, Settled, NoRenewal

(* A reset (resetRegistration) that finds no renewal of the token waiting  *)
(* in ensureSessionToken holds as long as the client runs: late replies,   *)
(* those of the directory included, bring no profile back, only a form the *)
(* user submits does.  The limit of the run ClientSessionLateReply.        *)
THEOREM ResetHoldsUnlessRenewing == Spec => [][StaysSettled]_vars
<1>1. ASSUME IInv, [Next]_vars PROVE StaysSettled
  <2>1. running => ~Start
    BY DEF Start
  <2>2. running /\ Settled => Settled' \/ ByForm
    BY <1>1, <2>1, SettledNext, FormRegisters
  <2> QED
    BY <2>2, ResetSettles DEF StaysSettled
<1> QED
  BY <1>1, Invariance, PTL DEF Spec

(* If no request to the directory is under way either, the reset holds     *)
(* through every end and start of the client as well: nothing is saved     *)
(* that the constructor could take for a registration.                     *)
THEOREM ResetOutlivesRestarts == Spec => [][StaysGone]_vars
<1>1. ASSUME IInv, [Next]_vars PROVE StaysGone
  <2>1. ASSUME Gone, ~FormSucceeds, ~Start PROVE Gone'
    BY <1>1, <2>1, SettledNext DEF Gone
  <2>2. ASSUME Gone, Start PROVE Gone'
    <3>1. identityFile.kept \subseteq Users /\ stack = << >>
      BY <1>1, <2>2 DEF IInv, TypeOK, StoppedOK, Start, Files, NoFile, Spoiled
    <3>2. settings \notin identityFile.kept
      BY <2>2, <3>1, NoUserAssumption DEF Gone
    <3>3. ~registered' /\ userId' = NoUser
      <4>1. registered' = (settings \in identityFile.kept)
        BY <2>2 DEF Start
      <4>2. userId' = IF registered' THEN settings ELSE NoUser
        BY <2>2 DEF Start
      <4> QED
        BY <3>2, <4>1, <4>2
    <3>4. token' = NoUser
      <4>1. NoUser \notin accounts
        BY <1>1, NoUserAssumption DEF IInv, TypeOK
      <4> QED
        BY <2>2, <3>3, <4>1 DEF Start
    <3>5. UNCHANGED <<stack, settings, listing>>
      BY <2>2, <3>4 DEF Start
    <3> QED
      BY <2>2, <3>3, <3>5 DEF Gone, Settled, NoRenewal
  <2> QED
    BY <2>1, <2>2, FormRegisters, ResetSettles DEF StaysGone, Gone
<1> QED
  BY <1>1, Invariance, PTL DEF Spec
===============================================================================
