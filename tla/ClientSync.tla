------------------------------ MODULE ClientSync ------------------------------
(***************************************************************************)
(* How the Qt client keeps its copy of the message history                 *)
(* (client-qt/src/AppController.cpp): the poll timer and the user fetch    *)
(* what the server stored after m_lastServerMsgId, a sent message comes    *)
(* back in the reply to its POST, and the copy is saved to the local       *)
(* messages.db after every message, to be read back at the next start.     *)
(* The user stays logged in, with a valid token.                           *)
(*                                                                         *)
(* The network loses requests and replies and reorders them: requests run  *)
(* on connections of their own.  The handler of a history reply adds its   *)
(* messages one by one; nothing else of the client runs meanwhile, but the *)
(* process may be killed between two of them.                              *)
(***************************************************************************)
EXTENDS Integers, Sequences, SequencesExt

CONSTANTS Conversations,
          Visible,       \* those isConversationVisible accepts for this user
          Connections,   \* on which requests can be in flight
          MaxMessages    \* bound: messages the server stores

ASSUME VisibleAssumption == Visible \subseteq Conversations
ASSUME MaxMessagesAssumption == MaxMessages \in Nat

VARIABLES log,       \* the server's messages: conversation of each, by identifier
          wire,      \* connection -> request or reply in flight
          running,
          view,      \* m_conversations: identifiers in display order
          known,     \* m_knownServerMsgIds
          cursor,    \* m_lastServerMsgId, as a number
          handling,  \* whether handleMessagesResponse is in its loop
          pending,   \* messages of the reply it has still to look at
          lastId,    \* the reply's last_server_msg_id
          cache,     \* the conversations in the local messages.db
          own        \* history: identifiers added by the reply to their own POST

client == <<running, view, known, cursor, handling, pending, lastId, own>>
vars == <<log, wire, client, cache>>

Free == [kind |-> "free"]

Traffic == {Free}
           \cup [kind : {"get"}, since : Nat]
           \cup [kind : {"history"}, ids : Seq(Nat), last : Nat]
           \cup [kind : {"post"}, conv : Conversations]
           \cup [kind : {"posted"}, id : Nat]

NoMessages == [c \in Conversations |-> << >>]

Shown(conversations) == UNION {ToSet(conversations[c]) : c \in Conversations}

BugLatest(ids) == Max({-1} \cup ids)
Latest(ids) == Max({0} \cup ids)

Init == /\ log = << >>
        /\ wire = [n \in Connections |-> Free]
        /\ running = FALSE
        /\ view = NoMessages
        /\ known = {}
        /\ cursor = 0
        /\ handling = FALSE
        /\ pending = << >>
        /\ lastId = 0
        /\ cache = NoMessages
        /\ own = {}

-------------------------------------------------------------------------------
(* The server, as the client sees it.                                      *)

(* Somebody else sends, or a request of a client that is gone arrives.     *)
OtherSends(conv) == /\ Len(log) < MaxMessages
                    /\ log' = Append(log, conv)
                    /\ UNCHANGED <<wire, client, cache>>

BugAfter(since) == [i \in 1..(Len(log) - since - 1) |-> since + 1 + i]
After(since) == [i \in 1..(Len(log) - since) |-> since + i]

BugAnswerGet(n) == /\ wire[n].kind = "get"
                   /\ LET since == wire[n].since
                          ids == SelectSeq(After(since), LAMBDA id : id = since + 1)
                      IN  wire' = [wire EXCEPT ![n] =
                                     [kind |-> "history", ids |-> ids, last |-> Len(log)]]
                   /\ UNCHANGED <<log, client, cache>>

(* handleList: the messages above since_id of every conversation, and the  *)
(* last of them; no last_server_msg_id when there is none.                 *)
AnswerGet(n) == /\ wire[n].kind = "get"
                /\ LET ids == After(wire[n].since)
                   IN  wire' = [wire EXCEPT ![n] =
                                  [kind |-> "history", ids |-> ids, last |-> Latest(ToSet(ids))]]
                /\ UNCHANGED <<log, client, cache>>

(* handleSend: the reply carries the new message's identifier only.        *)
AnswerPost(n) == /\ wire[n].kind = "post"
                 /\ Len(log) < MaxMessages
                 /\ log' = Append(log, wire[n].conv)
                 /\ wire' = [wire EXCEPT ![n] = [kind |-> "posted", id |-> Len(log) + 1]]
                 /\ UNCHANGED <<client, cache>>

Lose(n) == /\ wire[n] # Free
           /\ wire' = [wire EXCEPT ![n] = Free]
           /\ UNCHANGED <<log, client, cache>>

-------------------------------------------------------------------------------
Ready == running /\ ~handling

Request(n, request) == /\ wire[n] = Free
                       /\ wire' = [wire EXCEPT ![n] = request]

(* The poll timer fires, or the user asks for synchronisation.             *)
Poll(n) == /\ Ready
           /\ Request(n, [kind |-> "get", since |-> cursor])
           /\ UNCHANGED <<log, client, cache>>

Post(n, conv) == /\ Ready
                 /\ Request(n, [kind |-> "post", conv |-> conv])
                 /\ UNCHANGED <<log, client, cache>>

Advance(id) == cursor' = IF id > cursor THEN id ELSE cursor

BugRemember(id) == UNCHANGED known
Remember(id) == known' = known \cup {id}

BugAdd(id) == /\ view' = [view EXCEPT ![log[id]] = <<id>> \o @]
              /\ Remember(id)
              /\ Advance(id)
              /\ cache' \in {view', cache}

(* addServerMessage.  Writing messages.db replaces the file or, silently,  *)
(* does nothing.                                                           *)
Add(id) == /\ view' = [view EXCEPT ![log[id]] = Append(@, id)]
           /\ Remember(id)
           /\ Advance(id)
           /\ cache' \in {view', cache}

New(id) == id \notin known /\ log[id] \in Visible

(* The reply to a POST.                                                    *)
ReceivePosted(n) == /\ Ready
                    /\ wire[n].kind = "posted"
                    /\ wire' = [wire EXCEPT ![n] = Free]
                    /\ IF New(wire[n].id)
                       THEN Add(wire[n].id) /\ own' = own \cup {wire[n].id}
                       ELSE UNCHANGED <<view, known, cursor, cache, own>>
                    /\ UNCHANGED <<log, running, handling, pending, lastId>>

(* handleMessagesResponse begins,                                          *)
ReceiveHistory(n) == /\ Ready
                     /\ wire[n].kind = "history"
                     /\ wire' = [wire EXCEPT ![n] = Free]
                     /\ handling' = TRUE
                     /\ pending' = wire[n].ids
                     /\ lastId' = wire[n].last
                     /\ UNCHANGED <<log, running, view, known, cursor, cache, own>>

(* takes a message,                                                        *)
AddNext == /\ handling
           /\ pending # << >>
           /\ pending' = Tail(pending)
           /\ IF New(Head(pending))
              THEN Add(Head(pending))
              ELSE UNCHANGED <<view, known, cursor, cache>>
           /\ UNCHANGED <<log, wire, running, handling, lastId, own>>

(* and moves m_lastServerMsgId past the invisible ones too.                *)
FinishHistory == /\ handling
                 /\ pending = << >>
                 /\ handling' = FALSE
                 /\ lastId' = 0
                 /\ Advance(lastId)
                 /\ UNCHANGED <<log, wire, running, view, known, pending, cache, own>>

-------------------------------------------------------------------------------
(* The process ends; what is on the wire for it is lost, or still reaches  *)
(* the server as OtherSends.                                               *)
Kill == /\ running
        /\ running' = FALSE
        /\ view' = NoMessages
        /\ known' = {}
        /\ cursor' = 0
        /\ handling' = FALSE
        /\ pending' = << >>
        /\ lastId' = 0
        /\ wire' = [n \in Connections |-> Free]
        /\ UNCHANGED <<log, cache, own>>

BugLoad == /\ ~running
           /\ running' = TRUE
           /\ view' = cache
           /\ known' = {}
           /\ cursor' = Latest(Shown(cache))
           /\ own' = own \cap Shown(cache)
           /\ UNCHANGED <<log, handling, pending, lastId, cache>>

(* initializeAfterRegistration: loadServerData, then a fetch of the whole  *)
(* history, unless no token can be had at the time.                        *)
Load == /\ ~running
        /\ running' = TRUE
        /\ view' = cache
        /\ known' = Shown(cache)
        /\ cursor' = Latest(Shown(cache))
        /\ own' = own \cap Shown(cache)
        /\ UNCHANGED <<log, handling, pending, lastId, cache>>

StartOnline(n) == Load /\ Request(n, [kind |-> "get", since |-> 0])

StartOffline == Load /\ UNCHANGED wire

-------------------------------------------------------------------------------
Server == \/ \E c \in Conversations : OtherSends(c)
          \/ \E n \in Connections : AnswerGet(n)
          \/ \E n \in Connections : AnswerPost(n)

Client == \/ \E n \in Connections : Poll(n)
          \/ \E n \in Connections, c \in Visible : Post(n, c)
          \/ \E n \in Connections : ReceivePosted(n)
          \/ \E n \in Connections : ReceiveHistory(n)
          \/ AddNext
          \/ FinishHistory
          \/ \E n \in Connections : StartOnline(n)
          \/ StartOffline

Next == \/ Server
        \/ Client
        \/ \E n \in Connections : Lose(n)
        \/ Kill

Spec == Init /\ [][Next]_vars

(* The timer keeps firing, however much the user writes, and a handler     *)
(* runs to its end; nothing stays in flight for ever; a fetch that is      *)
(* repeated for ever is answered, and its reply arrives, some time.        *)
Settle(n) == /\ wire[n].kind \in {"post", "posted"}
             /\ AnswerPost(n) \/ ReceivePosted(n) \/ Lose(n)

Fairness == /\ SF_vars(\E n \in Connections : Poll(n))
            /\ \A n \in Connections : /\ SF_vars(AnswerGet(n))
                                       /\ SF_vars(ReceiveHistory(n))
                                       /\ WF_vars(Settle(n))
            /\ WF_vars(AddNext)
            /\ WF_vars(FinishHistory)

LiveSpec == Spec /\ Fairness

-------------------------------------------------------------------------------
(* Every variable has its type.                                            *)
TypeOK == /\ log \in Seq(Conversations)
          /\ wire \in [Connections -> Traffic]
          /\ running \in BOOLEAN
          /\ view \in [Conversations -> Seq(Nat)]
          /\ known \subseteq Nat
          /\ cursor \in Nat
          /\ handling \in BOOLEAN
          /\ pending \in Seq(Nat)
          /\ lastId \in Nat
          /\ cache \in [Conversations -> Seq(Nat)]
          /\ own \subseteq Nat

(* No message is shown twice, whether it comes in the reply to its POST,   *)
(* in one history reply or in several, or from the local file.             *)
NoDuplicates ==
    \A c \in Conversations : \A i, j \in DOMAIN view[c] :
        i # j => view[c][i] # view[c][j]

(* m_knownServerMsgIds is what is shown, so that nothing is shown twice    *)
(* and nothing is taken for shown that is not.                             *)
KnownIsShown == known = Shown(view)

Quiet == running /\ ~handling /\ \A n \in Connections : wire[n] = Free

(* When nothing is under way, every message of this user's conversations   *)
(* up to m_lastServerMsgId is shown.  Polling never asks for them again.   *)
NothingMissed ==
    Quiet => \A id \in 1..cursor : log[id] \in Visible => id \in known

(* An own message, known from the reply to its POST, came between.         *)
Overtaken(id, top) == \E d \in own : id < d /\ d <= top

(* What is missing below m_lastServerMsgId is what an own message overtook:*)
(* the reply to its POST moved m_lastServerMsgId past it.                  *)
OnlyOvertakenMissed ==
    Quiet => \A id \in 1..cursor :
                log[id] \in Visible => id \in known \/ Overtaken(id, cursor)

(* A conversation shows its messages in the order the server stored them,  *)
(* but for those an own message overtook, which may be added late.         *)
ShownInServerOrder ==
    \A c \in Conversations : \A i, j \in DOMAIN view[c] :
        i < j => view[c][i] < view[c][j] \/ Overtaken(view[c][j], view[c][i])

(* Once the client is left running, every message the server has stored    *)
(* for this user is shown some time, unless an own message overtakes it.   *)
EventuallyShown ==
    <>[]running =>
        \A id \in 1..MaxMessages :
            (id <= Len(log) /\ log[id] \in Visible)
                ~> (id \in known \/ Overtaken(id, MaxMessages))
===============================================================================
