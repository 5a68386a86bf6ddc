----------------------------- MODULE ReadReceipts -----------------------------
(***************************************************************************)
(* Read markers: what a user has read, from the client that shows it       *)
(* (client-qt/src/AppController.cpp) to the server's markers               *)
(* (server/internal/messaging/store.go, http.go) and back, to the unread   *)
(* counts of the user's devices and the ticks of the senders.              *)
(*                                                                         *)
(* One installation of the client, on which users log in one after the     *)
(* other; everybody's other devices are the environment.  The program is   *)
(* killed and started again; requests and replies are lost and overtake    *)
(* each other, and a reply may find another profile than asked for it.     *)
(* A handler runs to its end (ClientSync has the steps within one).        *)
(* While a profile is registered m_authenticatedUser is taken to be its    *)
(* user (ClientSession has the moments when it is not); while none is, a   *)
(* late answer of the directory may have made it anybody.                  *)
(***************************************************************************)
EXTENDS Integers, Sequences, SequencesExt

CONSTANTS Users,
          NoUser,        \* no profile is registered
          Conversations,
          NoConversation,
          Members,       \* conversation -> users isConversationVisible accepts
          Connections,   \* on which requests can be in flight
          MaxMessages    \* bound: messages the server stores

ASSUME NamesAssumption == NoUser \notin Users /\ NoConversation \notin Conversations
ASSUME MembersAssumption == Members \in [Conversations -> SUBSET Users]
ASSUME MaxMessagesAssumption == MaxMessages \in Nat

VARIABLES log,       \* the server's messages, by identifier: conversation, sender
          marks,     \* the server's readMarkers
          wire,      \* connection -> request or reply in flight
          out,       \* POSTs of read markers that did not arrive (yet)
          profile,   \* the registered user, in memory and in QSettings
          current,   \* m_currentConversation
          app,       \* the client's other state, see App
          stored,    \* messaging/readMarkers in QSettings
          cache,     \* the conversations in the local messages.db
          unsent,    \* history: the largest markers here this client did not send
          read,      \* history: messages this profile has read, here or elsewhere
          seen,      \* history: the messages each user was shown
          skipped    \* history: messages m_lastServerMsgId has passed without adding them

server == <<log, marks>>
disk == <<stored, cache>>
history == <<unsent, read, seen, skipped>>
vars == <<server, wire, out, profile, current, app, disk, history>>

Free == [kind |-> "free"]
NoMessages == [c \in Conversations |-> << >>]
NoMarks == [c \in Conversations |-> 0]

(* m_conversations as identifiers in display order, m_lastServerMsgId,     *)
(* m_conversationReadMarkers, m_peerReadMarkers, and the messages whose    *)
(* readByPeer is set.  m_knownServerMsgIds is what is shown (ClientSync).  *)
App == [view : [Conversations -> Seq(Nat)], cursor : Nat,
        own : [Conversations -> Nat], peer : [Conversations -> Nat], ticks : SUBSET Nat]

Blank == [view |-> NoMessages, cursor |-> 0, own |-> NoMarks, peer |-> NoMarks, ticks |-> {}]

Larger(i, j) == IF i > j THEN i ELSE j
BugLatest(ids) == Max({-1} \cup ids)
Latest(ids) == Max({0} \cup ids)

Shown(view) == UNION {ToSet(view[c]) : c \in Conversations}

(* The shared room is visible even when no profile is registered.          *)
Visible(user, c) == user \in Members[c] \/ (user = NoUser /\ Members[c] = Users)

Init == /\ log = << >>
        /\ marks = [c \in Conversations |-> [u \in Users |-> 0]]
        /\ wire = [n \in Connections |-> Free]
        /\ out = {}
        /\ profile = NoUser
        /\ current = NoConversation
        /\ app = Blank
        /\ stored = NoMarks
        /\ cache = NoMessages
        /\ unsent = NoMarks
        /\ read = {}
        /\ seen = [u \in Users |-> {}]
        /\ skipped = {}

-------------------------------------------------------------------------------
LoggedIn == profile \in Users

(* The client's handlers, on their state s: m_authenticatedUser, app, the  *)
(* markers in QSettings and the marker POSTs the handler makes.            *)

State(who) == [user |-> who, a |-> app, stored |-> stored, posts |-> {}]

(* Whom a reply may find as m_authenticatedUser.                           *)
Whom == IF LoggedIn THEN {profile} ELSE Users \cup {NoUser}

BugMarkRead(s, c) ==
    LET last == Latest(ToSet(s.a.view[c]))
        own == [s.a.own EXCEPT ![c] = last]
        post == [conv |-> c, user |-> s.user, id |-> last]
    IN  [s EXCEPT !.a.own = own, !.stored = own,
                  !.posts = IF last > own[c] THEN @ \cup {post} ELSE @]

(* markConversationRead: the newest message here is the marker, whatever   *)
(* it was; the server is told when it is larger.                           *)
MarkRead(s, c) ==
    LET last == Latest(ToSet(s.a.view[c]))
        own == [s.a.own EXCEPT ![c] = last]
        post == [conv |-> c, user |-> s.user, id |-> last]
    IN  [s EXCEPT !.a.own = own, !.stored = own,
                  !.posts = IF last > s.a.own[c] THEN @ \cup {post} ELSE @]

BugUpdatePeer(user, a, convs) ==
    LET ids == UNION {ToSet(a.view[c]) : c \in {d \in convs : a.peer[d] > 0}}
    IN  [a EXCEPT !.ticks = (@ \ ids)
             \cup {id \in ids : log[id].from = user /\ id < a.peer[log[id].conv]}]

(* updatePeerReadState of some conversations.                              *)
UpdatePeer(user, a, convs) ==
    LET ids == UNION {ToSet(a.view[c]) : c \in {d \in convs : a.peer[d] > 0}}
    IN  [a EXCEPT !.ticks = (@ \ ids)
             \cup {id \in ids : log[id].from = user /\ id <= a.peer[log[id].conv]}]

BugAddUnmarked(s, id) ==
    LET c == log[id].conv
        a == [s.a EXCEPT !.view[c] = Append(@, id), !.cursor = Larger(@, id)]
    IN  [s EXCEPT !.a = UpdatePeer(s.user, a, {c})]

(* The new message is marked read when its conversation is open.           *)
AddServerMessage(s, id) ==
    LET c == log[id].conv
        a == [s.a EXCEPT !.view[c] = Append(@, id), !.cursor = Larger(@, id)]
        t == [s EXCEPT !.a = UpdatePeer(s.user, a, {c})]
    IN  IF c = current THEN MarkRead(t, c) ELSE t

BugApplyReadMarkers(s, given) ==
    LET mine(c) == IF s.user \in Users THEN given[c][s.user] ELSE 0
        theirs(c) == Latest({given[c][u] : u \in Users \ {s.user}})
        own == [c \in Conversations |-> IF mine(c) > 0 THEN mine(c) ELSE s.a.own[c]]
        peer == [c \in Conversations |-> Larger(s.a.peer[c], theirs(c))]
        told == [s.a EXCEPT !.own = own, !.peer = peer]
    IN  [s EXCEPT !.a = UpdatePeer(s.user, told, {c \in Conversations : \E u \in Users : given[c][u] > 0}),
                  !.stored = IF own # s.a.own THEN own ELSE @]

(* applyReadMarkersFromServer: the larger marker wins, for this user and,  *)
(* of all the others, for the peer.                                        *)
ApplyReadMarkers(s, given) ==
    LET mine(c) == IF s.user \in Users THEN given[c][s.user] ELSE 0
        theirs(c) == Latest({given[c][u] : u \in Users \ {s.user}})
        own == [c \in Conversations |-> Larger(s.a.own[c], mine(c))]
        peer == [c \in Conversations |-> Larger(s.a.peer[c], theirs(c))]
        told == [s.a EXCEPT !.own = own, !.peer = peer]
    IN  [s EXCEPT !.a = UpdatePeer(s.user, told, {c \in Conversations : \E u \in Users : given[c][u] > 0}),
                  !.stored = IF own # s.a.own THEN own ELSE @]

New(s, id) == id \notin Shown(s.a.view) /\ Visible(s.user, log[id].conv)

AddNew(s, id) == IF New(s, id) THEN AddServerMessage(s, id) ELSE s

(* The loop of handleMessagesResponse: its state after each message.       *)
AddAll(s, ids) ==
    LET after[i \in 0..Len(ids)] == IF i = 0 THEN s ELSE AddNew(after[i - 1], ids[i])
    IN  after[Len(ids)]

HandleMessages(s, reply) ==
    LET t == AddAll(s, reply.ids)
    IN  ApplyReadMarkers([t EXCEPT !.a.cursor = Larger(@, Latest(ToSet(reply.ids)))], reply.marks)

ReadHere(a) == {id \in Shown(a.view) : log[id].from # profile /\ id <= a.own[log[id].conv]}

Passed(user, a) == {id \in 1..a.cursor : Visible(user, log[id].conv)} \ Shown(a.view)

MarksOf(posts, c) == {m.id : m \in {p \in posts : p.conv = c}}

(* The state after a handler: what an open conversation shows its user has *)
(* seen.  syncReadMarkerWithServer sends nothing when no token is to be    *)
(* had, and never comes back to it; without a profile it sends nothing.    *)
Becomes(s, open) == /\ app' = s.a
                    /\ stored' = s.stored
                    /\ \E sent \in SUBSET s.posts :
                          /\ out' = out \cup sent
                          /\ unsent' = IF LoggedIn
                                       THEN [c \in Conversations |->
                                               Latest({unsent[c]} \cup MarksOf(s.posts \ sent, c))]
                                       ELSE s.stored
                    /\ current' = open
                    /\ skipped' = skipped \cup Passed(s.user, s.a)
                    /\ seen' = IF profile \in Users /\ open \in Conversations
                               THEN [seen EXCEPT ![profile] = @ \cup ToSet(s.a.view[open])]
                               ELSE seen

-------------------------------------------------------------------------------
(* The server, and the other devices of its users.                         *)

(* Somebody sends from another device, or a request of a client that is    *)
(* gone arrives.                                                           *)
OtherSends(u, c) == /\ Len(log) < MaxMessages
                    /\ log' = Append(log, [conv |-> c, from |-> u])
                    /\ seen' = [seen EXCEPT ![u] = @ \cup {Len(log) + 1}]
                    /\ UNCHANGED <<marks, wire, out, profile, current, app, disk,
                                   unsent, read, skipped>>

BugMark(c, u, id) == marks' = [marks EXCEPT ![c] = [v \in Users |-> Larger(@[v], id)]]

(* fileStore.UpdateReadMarker.                                             *)
Mark(c, u, id) == marks' = [marks EXCEPT ![c][u] = Larger(@, id)]

(* Another device of a user shows a conversation up to a message.          *)
OtherReads(u, id) ==
    LET c == log[id].conv
    IN  /\ u \in Members[c]
        /\ id > marks[c][u]
        /\ Mark(c, u, id)
        /\ seen' = [seen EXCEPT ![u] = @ \cup {i \in 1..id : log[i].conv = c}]
        /\ UNCHANGED <<log, wire, out, profile, current, app, disk,
                       unsent, read, skipped>>

(* handleReadMarkers; a repeated or late marker changes nothing.           *)
StoreMark(m) == /\ Mark(m.conv, m.user, m.id)
                /\ out' = out \ {m}
                /\ UNCHANGED <<log, wire, profile, current, app, disk, history>>

(* handleList copies the messages,                                         *)
Collect(n) == /\ wire[n].kind = "get"
              /\ LET since == wire[n].since
                     ids == [i \in 1..(Len(log) - since) |-> since + i]
                 IN  wire' = [wire EXCEPT ![n] =
                                [kind |-> "collected", ids |-> ids]]
              /\ UNCHANGED <<server, out, profile, current, app, disk, history>>

(* then, under a lock of its own, the markers, and answers with those of   *)
(* the conversations that have a message in the answer.                    *)
Given(ids) == [c \in Conversations |->
                 IF \E id \in ToSet(ids) : log[id].conv = c
                 THEN marks[c] ELSE [u \in Users |-> 0]]

AnswerGet(n) == /\ wire[n].kind = "collected"
                /\ wire' = [wire EXCEPT ![n] = [kind |-> "history", ids |-> @.ids,
                                                marks |-> Given(@.ids)]]
                /\ UNCHANGED <<server, out, profile, current, app, disk, history>>

(* handleSend.                                                             *)
AnswerPost(n) == /\ wire[n].kind = "post"
                 /\ Len(log) < MaxMessages
                 /\ log' = Append(log, [conv |-> wire[n].conv, from |-> wire[n].from])
                 /\ seen' = [seen EXCEPT ![wire[n].from] = @ \cup {Len(log) + 1}]
                 /\ wire' = [wire EXCEPT ![n] = [kind |-> "posted", id |-> Len(log) + 1]]
                 /\ UNCHANGED <<marks, out, profile, current, app, disk,
                                unsent, read, skipped>>

Lose(n) == /\ wire[n] # Free
           /\ wire' = [wire EXCEPT ![n] = Free]
           /\ UNCHANGED <<server, out, profile, current, app, disk, history>>

-------------------------------------------------------------------------------
Request(n, request) == /\ wire[n] = Free
                       /\ wire' = [wire EXCEPT ![n] = request]

Poll(n) == /\ LoggedIn
           /\ Request(n, [kind |-> "get", since |-> app.cursor])
           /\ UNCHANGED <<server, out, profile, current, app, disk, history>>

(* send and postMessageToServer.                                           *)
Post(n) == /\ LoggedIn
           /\ current \in Conversations
           /\ Request(n, [kind |-> "post", conv |-> current, from |-> profile])
           /\ UNCHANGED <<server, out, profile, current, app, disk, history>>

(* The reply to a POST, for whoever is logged in by now.                   *)
ReceivePosted(n) ==
    /\ wire[n].kind = "posted"
    /\ wire' = [wire EXCEPT ![n] = Free]
    /\ \E who \in Whom :
          LET s == State(who)
              id == wire[n].id
          IN  /\ Becomes(AddNew(s, id), current)
              /\ cache' = IF New(s, id) THEN app'.view ELSE cache
    /\ read' = IF LoggedIn THEN read \cup ReadHere(app') ELSE read
    /\ UNCHANGED <<server, profile>>

(* The messages of a reply whose markers say that the user has read them.  *)
Elsewhere(reply) == {id \in ToSet(reply.ids) : id <= reply.marks[log[id].conv][profile]}

ReceiveHistory(n) ==
    /\ wire[n].kind = "history"
    /\ wire' = [wire EXCEPT ![n] = Free]
    /\ \E who \in Whom : Becomes(HandleMessages(State(who), wire[n]), current)
    /\ cache' = IF app'.view # app.view THEN app'.view ELSE cache
    /\ read' = IF LoggedIn THEN read \cup ReadHere(app') \cup Elsewhere(wire[n]) ELSE read
    /\ UNCHANGED <<server, profile>>

(* setCurrentConversation.                                                 *)
SetCurrent(c) == /\ LoggedIn
                 /\ Visible(profile, c)
                 /\ Becomes(MarkRead(State(profile), c), c)
                 /\ read' = read \cup ReadHere(app')
                 /\ UNCHANGED <<server, wire, profile, cache>>

-------------------------------------------------------------------------------
BugLoaded(u) == LET view == [c \in Conversations |-> IF Visible(u, c) THEN cache[c] ELSE << >>]
                IN  [view |-> view, cursor |-> Latest(Shown(view)), peer |-> app.peer, ticks |-> {},
                     own |-> [c \in Conversations |-> IF view[c] = << >> THEN 0 ELSE stored[c]]]

(* loadServerData: the local history as far as this user may see it, the   *)
(* markers of conversations that are in it, no ticks.                      *)
Loaded(u) == LET view == [c \in Conversations |-> IF Visible(u, c) THEN cache[c] ELSE << >>]
             IN  [view |-> view, cursor |-> Latest(Shown(view)), peer |-> NoMarks, ticks |-> {},
                  own |-> [c \in Conversations |-> IF view[c] = << >> THEN 0 ELSE stored[c]]]

(* initializeAfterRegistration, with its fetch of the whole history.       *)
Initialize(n, u) == /\ app' = Loaded(u)
                    /\ read' = read \cap Shown(app'.view)
                    /\ skipped' = skipped \cup Passed(u, app')
                    /\ Request(n, [kind |-> "get", since |-> 0])
                    /\ UNCHANGED <<server, out, current, disk, unsent, seen>>

(* authenticate succeeds.                                                  *)
Login(n, u) == /\ profile = NoUser
               /\ profile' = u
               /\ Initialize(n, u)

(* resetRegistration; m_peerReadMarkers and messages.db stay.              *)
Reset == /\ LoggedIn
         /\ profile' = NoUser
         /\ current' = NoConversation
         /\ app' = [Blank EXCEPT !.peer = app.peer]
         /\ stored' = NoMarks
         /\ unsent' = NoMarks
         /\ read' = {}
         /\ UNCHANGED <<server, wire, out, cache, seen, skipped>>

(* The process ends and is started again; what it was waiting for is lost. *)
Restart(n) == /\ LoggedIn
              /\ current' = NoConversation
              /\ app' = Loaded(profile)
              /\ read' = read \cap Shown(app'.view)
              /\ skipped' = skipped \cup Passed(profile, app')
              /\ wire' = [m \in Connections |-> IF m = n THEN [kind |-> "get", since |-> 0] ELSE Free]
              /\ UNCHANGED <<server, out, profile, disk, unsent, seen>>

RestartLoggedOut == /\ ~LoggedIn
                    /\ app' = Blank
                    /\ wire' = [n \in Connections |-> Free]
                    /\ UNCHANGED <<server, out, profile, current, disk, history>>

Next == \/ \E c \in Conversations : \E u \in Members[c] : OtherSends(u, c)
        \/ \E u \in Users, id \in DOMAIN log : OtherReads(u, id)
        \/ \E m \in out : StoreMark(m)
        \/ \E n \in Connections : Collect(n)
        \/ \E n \in Connections : AnswerGet(n)
        \/ \E n \in Connections : AnswerPost(n)
        \/ \E n \in Connections : Lose(n)
        \/ \E n \in Connections : Poll(n)
        \/ \E n \in Connections : Post(n)
        \/ \E n \in Connections : ReceivePosted(n)
        \/ \E n \in Connections : ReceiveHistory(n)
        \/ \E c \in Conversations : SetCurrent(c)
        \/ \E n \in Connections, u \in Users : Login(n, u)
        \/ Reset
        \/ \E n \in Connections : Restart(n)
        \/ RestartLoggedOut

Spec == Init /\ [][Next]_vars

-------------------------------------------------------------------------------
Traffic == {Free}
           \cup [kind : {"get"}, since : Nat]
           \cup [kind : {"collected"}, ids : Seq(Nat)]
           \cup [kind : {"history"}, ids : Seq(Nat), marks : [Conversations -> [Users -> Nat]]]
           \cup [kind : {"post"}, conv : Conversations, from : Users]
           \cup [kind : {"posted"}, id : Nat]

MarkPosts == [conv : Conversations, user : Users, id : Nat]

(* Every variable has its type; a marker POST has a user and a message.    *)
TypeOK == /\ log \in Seq([conv : Conversations, from : Users])
          /\ marks \in [Conversations -> [Users -> Nat]]
          /\ wire \in [Connections -> Traffic]
          /\ out \subseteq MarkPosts
          /\ profile \in Users \cup {NoUser}
          /\ current \in Conversations \cup {NoConversation}
          /\ app \in App
          /\ stored \in [Conversations -> Nat]
          /\ cache \in [Conversations -> Seq(Nat)]
          /\ unsent \in [Conversations -> Nat]

(* The open conversation never counts a message of others as unread,       *)
(* whichever reply brought it.                                             *)
OpenIsRead ==
    current \in Conversations =>
        \A id \in ToSet(app.view[current]) :
            log[id].from # profile => id <= app.own[current]

(* What a user has read, on this device or, as the answer that brought it  *)
(* knew, on another, is not unread again: not when the marker moves back to*)
(* the newest message here, nor after a restart from the local files.      *)
ReadStaysRead ==
    \A id \in read \cap Shown(app.view) :
        log[id].from # profile => id <= app.own[log[id].conv]

(* A message carries the tick if and only if the user wrote it and the     *)
(* furthest marker of the others heard of here has reached it, whichever   *)
(* came first, the message or the marker.                                  *)
TicksMatchMarkers ==
    LoggedIn =>
        app.ticks = {id \in Shown(app.view) : log[id].from = profile
                                                 /\ id <= app.peer[log[id].conv]}

(* A tick means that somebody else has been shown the message, or that the *)
(* cursor of this installation has once passed a message without showing   *)
(* it: the marker of who then reads on covers that message too.  Nobody's  *)
(* own marker is taken for another's, whoever was logged in before.        *)
TicksAreTrue ==
    LoggedIn =>
        \A id \in app.ticks : (\E u \in Users \ {profile} : id \in seen[u]) \/ id \in skipped

(* What is marked read here the server knows, or a marker that covers it   *)
(* is on its way or was lost: but for markers this client had no token to  *)
(* send, or took over for another user while no profile was registered.    *)
MarkSentOrKnown ==
    LoggedIn =>
        \A c \in Conversations :
            app.own[c] > Larger(marks[c][profile], unsent[c]) =>
                \E m \in out : m.conv = c /\ m.user = profile /\ m.id >= app.own[c]

(* The server's marker of a user covers only messages he was shown, but    *)
(* for those an own message overtook and what a login after a reset missed *)
(* (of whichever user of this installation: skipped is kept for all).      *)
MarksCoverOnlySeen ==
    \A id \in DOMAIN log : \A u \in Users :
        id <= marks[log[id].conv][u] =>
            id \in seen[u] \/ id \in skipped
===============================================================================
