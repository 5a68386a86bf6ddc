------------------------------ MODULE PullService ------------------------------
(***************************************************************************)
(* The live delivery path of the messaging service                         *)
(* (server/internal/messaging/service.go): Send stores an envelope and     *)
(* broadcasts it to the open Pull streams; Pull subscribes, replays the    *)
(* stored envelopes and then forwards what arrives on its channel.         *)
(*                                                                         *)
(* Each Send and each Pull runs on a goroutine of its own; a broadcast     *)
(* that finds a channel full starts one more.  Go's channels are modelled  *)
(* as the runtime implements them: a receive from a full channel takes the *)
(* first parked sender's value into the buffer; closing a channel makes    *)
(* its parked and its later senders panic; a select with several ready     *)
(* cases takes any of them.  A closed channel counts as a ready case.      *)
(***************************************************************************)
EXTENDS Integers, Sequences, SequencesExt

CONSTANTS Senders,        \* goroutines that call Send
          HttpSenders,    \* those of them whose panic net/http recovers
          Pulls,          \* goroutines that call Pull, one stream each
          Conversations,
          Markers,        \* values of since_id clients ask for
          Filters,        \* sets of conversations they ask for
          Capacity,       \* of a subscription's channel (64 in the code)
          MaxMessages     \* bound: envelopes stored

ASSUME SendersAssumption == HttpSenders \subseteq Senders
ASSUME RequestsAssumption == Markers \subseteq Nat /\ Filters \subseteq SUBSET Conversations
ASSUME BoundsAssumption == Capacity \in Nat \ {0} /\ MaxMessages \in Nat

VARIABLES log,        \* conversation of each stored envelope; its position is its identifier
          crashed,    \* a goroutine nobody recovers panicked: the process is gone
          pc,         \* of each sender
          rec,        \* identifier each sender is broadcasting
          todo,       \* copy of svc.subs a sender has still to serve
          stage,      \* of each Pull
          since,      \* its sinceID
          filter,     \* its sub.filter
          ctxDone,    \* whether its stream's context is done
          subs,       \* svc.subs
          ch,         \* buffer of each sub.ch
          closed,     \* whether sub.ch is closed
          fresh,      \* [sub, id] of overflow goroutines that have not reached their select
          parked,     \* identifiers of the overflow goroutines waiting in select, in order
          snapshot,   \* records ForEachSince has still to deliver
          lastSent,
          backlog,    \* history: what was stored when each Pull subscribed
          sent,       \* history: identifiers sent on each stream
          order       \* history: identifiers that entered each channel, in order

senderVars == <<pc, rec, todo>>
streamVars == <<stage, since, filter, backlog>>
chanVars == <<ch, closed, fresh, parked, order>>
pullVars == <<snapshot, lastSent, sent>>
vars == <<log, crashed, senderVars, streamVars, ctxDone, subs, chanVars, pullVars>>

Ids == 1..Len(log)

Init == /\ log = << >>
        /\ crashed = FALSE
        /\ pc = [t \in Senders |-> "idle"]
        /\ rec = [t \in Senders |-> 0]
        /\ todo = [t \in Senders |-> {}]
        /\ stage = [p \in Pulls |-> "off"]
        /\ since = [p \in Pulls |-> 0]
        /\ filter = [p \in Pulls |-> {}]
        /\ backlog = [p \in Pulls |-> 0]
        /\ ctxDone = [p \in Pulls |-> FALSE]
        /\ subs = {}
        /\ ch = [p \in Pulls |-> << >>]
        /\ closed = [p \in Pulls |-> FALSE]
        /\ fresh = {}
        /\ parked = [p \in Pulls |-> << >>]
        /\ snapshot = [p \in Pulls |-> << >>]
        /\ lastSent = [p \in Pulls |-> 0]
        /\ sent = [p \in Pulls |-> << >>]
        /\ order = [p \in Pulls |-> << >>]

matches(p, id) == log[id] \in filter[p]

-------------------------------------------------------------------------------
(* Send.  Save gives the envelope the next identifier under the store's    *)
(* lock; between Save and broadcast, and between the copy of the           *)
(* subscribers and each channel operation, anything else may happen.       *)

Save(t, conv) == /\ pc[t] = "idle"
                 /\ Len(log) < MaxMessages
                 /\ log' = Append(log, conv)
                 /\ rec' = [rec EXCEPT ![t] = Len(log) + 1]
                 /\ pc' = [pc EXCEPT ![t] = "saved"]
                 /\ UNCHANGED <<crashed, todo, streamVars, ctxDone, subs, chanVars, pullVars>>

CopySubs(t) == /\ pc[t] = "saved"
               /\ todo' = [todo EXCEPT ![t] = subs]
               /\ pc' = [pc EXCEPT ![t] = "broadcast"]
               /\ UNCHANGED <<log, crashed, rec, streamVars, ctxDone, subs, chanVars, pullVars>>

BugHasRoom(p) == Len(ch[p]) <= Capacity
HasRoom(p) == Len(ch[p]) < Capacity

Served(t, p) == todo' = [todo EXCEPT ![t] = @ \ {p}]

(* The subscriber does not want the conversation, or its context is done.  *)
Skip(t, p) == /\ pc[t] = "broadcast"
              /\ p \in todo[t]
              /\ ~matches(p, rec[t]) \/ ctxDone[p]
              /\ Served(t, p)
              /\ UNCHANGED <<log, crashed, pc, rec, streamVars, ctxDone, subs, chanVars, pullVars>>

Offered(t, p) == pc[t] = "broadcast" /\ p \in todo[t] /\ matches(p, rec[t])

(* A send on the channel.                                                  *)
Put(p, id) == /\ ch' = [ch EXCEPT ![p] = Append(@, id)]
              /\ order' = [order EXCEPT ![p] = Append(@, id)]

Enqueue(t, p) == /\ Offered(t, p)
                 /\ ~closed[p]
                 /\ HasRoom(p)
                 /\ Put(p, rec[t])
                 /\ Served(t, p)
                 /\ UNCHANGED <<log, crashed, pc, rec, streamVars, ctxDone, subs, closed, fresh,
                                parked, pullVars>>

BugSpawnOverflow(t, p) == FALSE
BugDropWhenFull(t, p) == /\ Offered(t, p)
                         /\ ~closed[p] /\ ~ctxDone[p] /\ ~HasRoom(p)
                         /\ Served(t, p)
                         /\ UNCHANGED <<log, crashed, pc, rec, streamVars, ctxDone, subs, chanVars,
                                        pullVars>>

(* default: a goroutine of its own takes the envelope, the loop goes on.   *)
SpawnOverflow(t, p) == /\ Offered(t, p)
                       /\ ~closed[p]
                       /\ ~ctxDone[p]
                       /\ ~HasRoom(p)
                       /\ fresh' = fresh \cup {[sub |-> p, id |-> rec[t]]}
                       /\ Served(t, p)
                       /\ UNCHANGED <<log, crashed, pc, rec, streamVars, ctxDone, subs, ch, closed,
                                      parked, order, pullVars>>

(* The Pull has returned since the copy was made: send on closed channel.  *)
SendPanics(t, p) == /\ Offered(t, p)
                    /\ closed[p]
                    /\ IF t \in HttpSenders
                       THEN pc' = [pc EXCEPT ![t] = "aborted"] /\ UNCHANGED crashed
                       ELSE crashed' = TRUE /\ UNCHANGED pc
                    /\ UNCHANGED <<log, rec, todo, streamVars, ctxDone, subs, chanVars, pullVars>>

SendReturn(t) == /\ pc[t] = "broadcast"
                 /\ todo[t] = {}
                 /\ pc' = [pc EXCEPT ![t] = "idle"]
                 /\ UNCHANGED <<log, crashed, rec, todo, streamVars, ctxDone, subs, chanVars, pullVars>>

-------------------------------------------------------------------------------
(* The overflow goroutine: one select on the channel and the context.      *)

OverflowSend(g) == /\ ~closed[g.sub]
                   /\ HasRoom(g.sub)
                   /\ Put(g.sub, g.id)
                   /\ fresh' = fresh \ {g}
                   /\ UNCHANGED <<log, crashed, senderVars, streamVars, ctxDone, subs, closed,
                                  parked, pullVars>>

OverflowPark(g) == /\ ~closed[g.sub]
                   /\ ~ctxDone[g.sub]
                   /\ ~HasRoom(g.sub)
                   /\ parked' = [parked EXCEPT ![g.sub] = Append(@, g.id)]
                   /\ fresh' = fresh \ {g}
                   /\ UNCHANGED <<log, crashed, senderVars, streamVars, ctxDone, subs, ch, closed,
                                  order, pullVars>>

OverflowGiveUp(g) == /\ ctxDone[g.sub]
                     /\ fresh' = fresh \ {g}
                     /\ UNCHANGED <<log, crashed, senderVars, streamVars, ctxDone, subs, ch, closed,
                                    parked, order, pullVars>>

OverflowPanics(g) == /\ closed[g.sub]
                     /\ crashed' = TRUE
                     /\ UNCHANGED <<log, senderVars, streamVars, ctxDone, subs, chanVars, pullVars>>

-------------------------------------------------------------------------------
(* Pull.                                                                   *)

Subscribe(p, id, convs) ==
    /\ stage[p] = "off"
    /\ stage' = [stage EXCEPT ![p] = "subscribed"]
    /\ since' = [since EXCEPT ![p] = id]
    /\ lastSent' = [lastSent EXCEPT ![p] = id]
    /\ filter' = [filter EXCEPT ![p] = convs]
    /\ backlog' = [backlog EXCEPT ![p] = Len(log)]
    /\ subs' = subs \cup {p}
    /\ UNCHANGED <<log, crashed, senderVars, ctxDone, chanVars, snapshot, sent>>

StoredSince(id) == [i \in 1..(Len(log) - id) |-> id + i]

(* ForEachSince copies the matching records under the read lock.           *)
TakeSnapshot(p) == /\ stage[p] = "subscribed"
                   /\ ~ctxDone[p]
                   /\ snapshot' = [snapshot EXCEPT ![p] = StoredSince(since[p])]
                   /\ stage' = [stage EXCEPT ![p] = "history"]
                   /\ UNCHANGED <<log, crashed, senderVars, since, filter, backlog, ctxDone, subs, chanVars,
                                  lastSent, sent>>

(* stream.Send succeeded.                                                  *)
Deliver(p, id) == /\ sent' = [sent EXCEPT ![p] = Append(@, id)]
                  /\ lastSent' = [lastSent EXCEPT ![p] = IF id > @ THEN id ELSE @]

PassOver == UNCHANGED <<sent, lastSent>>

Return(p) == stage' = [stage EXCEPT ![p] = "returning"]

(* The deliver callback, on the next record of the copy.                   *)
DeliverStored(p) ==
    /\ stage[p] = "history"
    /\ snapshot[p] # << >>
    /\ ~ctxDone[p]
    /\ snapshot' = [snapshot EXCEPT ![p] = Tail(@)]
    /\ IF matches(p, Head(snapshot[p])) THEN Deliver(p, Head(snapshot[p])) ELSE PassOver
    /\ UNCHANGED <<log, crashed, senderVars, streamVars, ctxDone, subs, chanVars>>

GoLive(p) == /\ stage[p] = "history"
             /\ snapshot[p] = << >>
             /\ stage' = [stage EXCEPT ![p] = "live"]
             /\ UNCHANGED <<log, crashed, senderVars, since, filter, backlog, ctxDone, subs, chanVars, pullVars>>

BugFresher(p, id) == id >= lastSent[p]
BugFresherByTwo(p, id) == id > lastSent[p] + 1
Fresher(p, id) == id > lastSent[p]

(* Receive from the channel, admitting the first parked sender.            *)
Take(p) == IF parked[p] = << >>
           THEN /\ ch' = [ch EXCEPT ![p] = Tail(@)]
                /\ UNCHANGED <<parked, order>>
           ELSE /\ ch' = [ch EXCEPT ![p] = Append(Tail(@), Head(parked[p]))]
                /\ order' = [order EXCEPT ![p] = Append(@, Head(parked[p]))]
                /\ parked' = [parked EXCEPT ![p] = Tail(@)]

Receive(p) ==
    /\ stage[p] = "live"
    /\ ch[p] # << >>
    /\ Take(p)
    /\ LET id == Head(ch[p])
       IN  IF Fresher(p, id) /\ matches(p, id) THEN Deliver(p, id) ELSE PassOver
    /\ UNCHANGED <<log, crashed, senderVars, streamVars, ctxDone, subs, closed, fresh, snapshot>>

(* stream.Send fails, in either phase.  The context need not be done: an   *)
(* envelope the transport refuses fails the call alone.                    *)
SendFailsStored(p) ==
    /\ stage[p] = "history"
    /\ snapshot[p] # << >>
    /\ ~ctxDone[p]
    /\ matches(p, Head(snapshot[p]))
    /\ Return(p)
    /\ UNCHANGED <<log, crashed, senderVars, since, filter, backlog, ctxDone, subs, chanVars, pullVars>>

SendFailsLive(p) ==
    /\ stage[p] = "live"
    /\ ch[p] # << >>
    /\ Fresher(p, Head(ch[p])) /\ matches(p, Head(ch[p]))
    /\ Take(p)
    /\ Return(p)
    /\ UNCHANGED <<log, crashed, senderVars, since, filter, backlog, ctxDone, subs, closed, fresh, pullVars>>

(* The context is done where the code looks at it.                         *)
NoticeDone(p) == /\ ctxDone[p]
                 /\ \/ stage[p] \in {"subscribed", "live"}
                    \/ stage[p] = "history" /\ snapshot[p] # << >>
                 /\ Return(p)
                 /\ UNCHANGED <<log, crashed, senderVars, since, filter, backlog, ctxDone, subs, chanVars,
                                pullVars>>

(* The deferred removeSubscription: parked senders wake up to a panic.     *)
RemoveSubscription(p) == /\ stage[p] = "returning"
                         /\ stage' = [stage EXCEPT ![p] = "ended"]
                         /\ subs' = subs \ {p}
                         /\ closed' = [closed EXCEPT ![p] = TRUE]
                         /\ crashed' = (parked[p] # << >>)
                         /\ UNCHANGED <<log, senderVars, since, filter, backlog, ctxDone, ch, fresh, parked,
                                        order, pullVars>>

(* The client goes away, or the handler has returned: parked senders take  *)
(* their other case and are gone.                                          *)
Cancel(p) == /\ stage[p] # "off"
             /\ ~ctxDone[p]
             /\ ctxDone' = [ctxDone EXCEPT ![p] = TRUE]
             /\ parked' = [parked EXCEPT ![p] = << >>]
             /\ UNCHANGED <<log, crashed, senderVars, streamVars, subs, ch, closed, fresh, order,
                             pullVars>>

-------------------------------------------------------------------------------
Broadcasting(t) == \/ CopySubs(t)
                   \/ \E p \in Pulls : Skip(t, p)
                   \/ \E p \in Pulls : Enqueue(t, p)
                   \/ \E p \in Pulls : SpawnOverflow(t, p)
                   \/ \E p \in Pulls : SendPanics(t, p)
                   \/ SendReturn(t)

Overflowing(g) == \/ OverflowSend(g)
                  \/ OverflowPark(g)
                  \/ OverflowGiveUp(g)
                  \/ OverflowPanics(g)

Streaming(p) == \/ TakeSnapshot(p)
                \/ DeliverStored(p)
                \/ GoLive(p)
                \/ Receive(p)

Ending(p) == \/ SendFailsStored(p)
             \/ SendFailsLive(p)
             \/ NoticeDone(p)
             \/ RemoveSubscription(p)
             \/ Cancel(p)

Next == /\ ~crashed
        /\ \/ \E t \in Senders, c \in Conversations : Save(t, c)
           \/ \E t \in Senders : Broadcasting(t)
           \/ \E g \in fresh : Overflowing(g)
           \/ \E p \in Pulls, id \in Markers, F \in Filters : Subscribe(p, id, F)
           \/ \E p \in Pulls : Streaming(p)
           \/ \E p \in Pulls : Ending(p)

Spec == Init /\ [][Next]_vars

(* The Go scheduler runs every runnable goroutine.  A sender never waits   *)
(* for a stream.                                                           *)
SendersRun == \A t \in Senders : WF_vars(~crashed /\ Broadcasting(t))

(* A stream whose peer reads: stream.Send comes back.                      *)
StreamsRun == \A p \in Pulls : WF_vars(~crashed /\ Streaming(p))

OverflowsRun == \A p \in Pulls, id \in 1..MaxMessages :
                    WF_vars(\E g \in fresh : ~crashed /\ g = [sub |-> p, id |-> id] /\ Overflowing(g))

LiveSpec == Spec /\ SendersRun /\ StreamsRun /\ OverflowsRun

-------------------------------------------------------------------------------

SentIds(p) == {sent[p][i] : i \in DOMAIN sent[p]}

Within(se, id) == \E i \in DOMAIN se : se[i] = id

Wanted(p, id) == id > since[p] /\ log[id] \in filter[p]

(* What a client sees of a stream.                                         *)
Phase(p) == CASE stage[p] = "off" -> "off"
              [] stage[p] \in {"subscribed", "history"} -> "replay"
              [] stage[p] = "live" -> "live"
              [] stage[p] \in {"returning", "ended"} -> "over"

Feed == INSTANCE MessageFeed WITH Streams <- Pulls, phase <- [p \in Pulls |-> Phase(p)]

Goroutine == [sub : Pulls, id : Nat]

(* Every variable has its type; no buffer exceeds the channel's capacity.  *)
TypeOK == /\ log \in Seq(Conversations)
          /\ crashed \in BOOLEAN
          /\ pc \in [Senders -> {"idle", "saved", "broadcast", "aborted"}]
          /\ rec \in [Senders -> Nat]
          /\ todo \in [Senders -> SUBSET Pulls]
          /\ stage \in [Pulls -> {"off", "subscribed", "history", "live", "returning", "ended"}]
          /\ since \in [Pulls -> Nat]
          /\ filter \in [Pulls -> SUBSET Conversations]
          /\ backlog \in [Pulls -> Nat]
          /\ ctxDone \in [Pulls -> BOOLEAN]
          /\ subs \subseteq Pulls
          /\ ch \in [Pulls -> Seq(Nat)]
          /\ \A p \in Pulls : Len(ch[p]) <= Capacity
          /\ closed \in [Pulls -> BOOLEAN]
          /\ fresh \subseteq Goroutine
          /\ parked \in [Pulls -> Seq(Nat)]
          /\ snapshot \in [Pulls -> Seq(Nat)]
          /\ lastSent \in [Pulls -> Nat]
          /\ sent \in [Pulls -> Seq(Nat)]
          /\ order \in [Pulls -> Seq(Nat)]

(* A stream carries identifiers in strictly increasing order, so none      *)
(* twice, although an envelope stored while the Pull starts is both in     *)
(* the copy of the history and on the channel, and broadcasts overtake     *)
(* each other.  Part of ImplementsFeed.                                    *)
InOrderWithoutDuplicates ==
    \A p \in Pulls : \A i, j \in DOMAIN sent[p] : i < j => sent[p][i] < sent[p][j]

(* While its client is there, no envelope between the client's marker and  *)
(* the last one sent is missing from the stream.                           *)
NothingSkipped ==
    \A p \in Pulls : stage[p] = "live" /\ ~ctxDone[p] =>
        \A id \in Ids : id <= lastSent[p] /\ Wanted(p, id) => id \in SentIds(p)

(* An envelope stored later entered the channel before it.                 *)
Overtaken(p, id) == \E i \in DOMAIN order[p] :
                        /\ order[p][i] > id
                        /\ \A j \in 1..i : order[p][j] # id

(* A sender that has still to come to p.                                   *)
Pending(t, p) == pc[t] = "saved" \/ (pc[t] = "broadcast" /\ p \in todo[t])

(* In the channel, in an overflow goroutine or in a sender's hand.         *)
OnItsWay(p, id) == \/ Within(ch[p], id)
                   \/ Within(parked[p], id)
                   \/ [sub |-> p, id |-> id] \in fresh
                   \/ \E t \in Senders : rec[t] = id /\ Pending(t, p)

(* Its Send panicked after storing it.                                     *)
Abandoned(id) == \E t \in Senders : rec[t] = id /\ pc[t] = "aborted"

(* What a live stream wants and was not sent is above the last envelope    *)
(* sent unless another one overtook it; and it is on its way, came out of  *)
(* the channel too late, or its Send was aborted.  Nothing is lost between *)
(* the history and the channel, nor on a channel that is full.             *)
NothingLost ==
    \A p \in Pulls : stage[p] = "live" /\ ~ctxDone[p] =>
        \A id \in Ids : Wanted(p, id) /\ id \notin SentIds(p) =>
            /\ id > lastSent[p] \/ Overtaken(p, id)
            /\ \/ OnItsWay(p, id)
               \/ Within(order[p], id) /\ Overtaken(p, id)
               \/ Abandoned(id)

(* The streams are the ones the service promises (MessageFeed): a replay   *)
(* of the history without a gap, at least up to what was stored when the   *)
(* Pull subscribed, though envelopes are stored meanwhile; then what       *)
(* arrives, always in the order of the identifiers, each stored, asked for *)
(* and above the client's marker; and nothing once a stream has ended.     *)
ImplementsFeed == Feed!Spec

(* A Send that stored its envelope comes back with the identifier: it does *)
(* not end in a panic.                                                     *)
StoredSendReturns == \A t \in Senders : pc[t] # "aborted"

(* However slowly the streams are read, a Send that has stored its         *)
(* envelope has a step to take: it never waits for a stream, and it has    *)
(* one step per subscriber.                                                *)
SendNeverWaits ==
    \A t \in Senders : ~crashed /\ pc[t] \in {"saved", "broadcast"} => ENABLED Broadcasting(t)

(* An envelope a live stream wants reaches it, unless another one          *)
(* overtakes it, the stream fails or its client goes away.                 *)
WantedIsDelivered ==
    \A p \in Pulls, id \in 1..MaxMessages :
        (stage[p] = "live" /\ id \in Ids /\ Wanted(p, id))
            ~> \/ id \in SentIds(p)
               \/ Overtaken(p, id)
               \/ ctxDone[p] \/ stage[p] \in {"returning", "ended"}
               \/ crashed
===============================================================================
