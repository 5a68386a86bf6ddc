--------------------------- MODULE PullServiceProofs ---------------------------
(***************************************************************************)
(* Theorems about PullService for every number of senders and streams,     *)
(* every capacity of a channel and every bound: the streams are those of   *)
(* MessageFeed; a stream skips only what another envelope overtook on its  *)
(* way to the channel, nothing if there is one sender and room, and loses  *)
(* nothing between the history and the channel; and nothing panics before  *)
(* a stream ends.                                                          *)
(***************************************************************************)
EXTENDS PullService, TLAPS

LEMMA TypeInit == Init => TypeOK
<1> SUFFICES ASSUME Init PROVE TypeOK
  OBVIOUS
<1>1. \A p \in Pulls : Len(ch[p]) <= Capacity
  BY BoundsAssumption DEF Init
<1>2. << >> \in Seq(Nat) /\ << >> \in Seq(Conversations)
  OBVIOUS
<1>3. \A f \in [Pulls -> {<< >>}] : f \in [Pulls -> Seq(Nat)]
  BY <1>2
<1>4. /\ ch \in [Pulls -> {<< >>}] /\ parked \in [Pulls -> {<< >>}] /\ snapshot \in [Pulls -> {<< >>}]
      /\ sent \in [Pulls -> {<< >>}] /\ order \in [Pulls -> {<< >>}]
  BY DEF Init
<1>5. /\ ch \in [Pulls -> Seq(Nat)] /\ parked \in [Pulls -> Seq(Nat)] /\ snapshot \in [Pulls -> Seq(Nat)]
      /\ sent \in [Pulls -> Seq(Nat)] /\ order \in [Pulls -> Seq(Nat)]
  BY <1>3, <1>4
<1>6. log \in Seq(Conversations) /\ fresh \subseteq Goroutine /\ crashed \in BOOLEAN /\ subs \subseteq Pulls
  BY <1>2 DEF Init
<1>7. /\ pc \in [Senders -> {"idle", "saved", "broadcast", "aborted"}]
      /\ rec \in [Senders -> Nat]
      /\ todo \in [Senders -> SUBSET Pulls]
  BY DEF Init
<1>8. /\ stage \in [Pulls -> {"off", "subscribed", "history", "live", "returning", "ended"}]
      /\ since \in [Pulls -> Nat] /\ lastSent \in [Pulls -> Nat] /\ backlog \in [Pulls -> Nat]
      /\ filter \in [Pulls -> SUBSET Conversations]
      /\ ctxDone \in [Pulls -> BOOLEAN] /\ closed \in [Pulls -> BOOLEAN]
  BY DEF Init
<1> QED
  BY <1>1, <1>5, <1>6, <1>7, <1>8 DEF TypeOK

LEMMA TypeSave == ASSUME TypeOK, NEW t \in Senders, NEW c \in Conversations, Save(t, c) PROVE TypeOK'
BY DEF TypeOK, Save, chanVars, pullVars, streamVars

(* A send on a channel with room.                                          *)
LEMMA TypePut ==
    ASSUME TypeOK, NEW p \in Pulls, NEW id \in Nat, HasRoom(p), Put(p, id)
    PROVE  /\ ch' \in [Pulls -> Seq(Nat)] /\ \A q \in Pulls : Len(ch'[q]) <= Capacity
           /\ order' \in [Pulls -> Seq(Nat)]
<1>1. ch[p] \in Seq(Nat) /\ order[p] \in Seq(Nat) /\ Len(ch[p]) < Capacity
  BY DEF TypeOK, HasRoom
<1>2. Append(ch[p], id) \in Seq(Nat) /\ Append(order[p], id) \in Seq(Nat)
  BY <1>1
<1>3. Len(Append(ch[p], id)) <= Capacity
  BY <1>1, BoundsAssumption
<1>4. ch' = [ch EXCEPT ![p] = Append(ch[p], id)] /\ order' = [order EXCEPT ![p] = Append(order[p], id)]
  BY DEF Put
<1> QED
  BY <1>2, <1>3, <1>4 DEF TypeOK

LEMMA TypeBroadcasting == ASSUME TypeOK, NEW t \in Senders, Broadcasting(t) PROVE TypeOK'
<1> USE DEF TypeOK, chanVars, pullVars, streamVars
<1>1. CASE CopySubs(t)
  BY <1>1 DEF CopySubs
<1>2. ASSUME NEW p \in Pulls, Skip(t, p) PROVE TypeOK'
  BY <1>2 DEF Skip, Served
<1>3. ASSUME NEW p \in Pulls, Enqueue(t, p) PROVE TypeOK'
  BY <1>3, TypePut DEF Enqueue, Served
<1>4. ASSUME NEW p \in Pulls, SpawnOverflow(t, p) PROVE TypeOK'
  <2>1. [sub |-> p, id |-> rec[t]] \in Goroutine
    BY DEF Goroutine
  <2>2. fresh' \subseteq Goroutine
    BY <1>4, <2>1 DEF SpawnOverflow
  <2> QED
    BY <1>4, <2>2 DEF SpawnOverflow, Served
<1>5. ASSUME NEW p \in Pulls, SendPanics(t, p) PROVE TypeOK'
  BY <1>5 DEF SendPanics
<1>6. CASE SendReturn(t)
  BY <1>6 DEF SendReturn
<1> QED
  BY <1>1, <1>2, <1>3, <1>4, <1>5, <1>6 DEF Broadcasting

LEMMA TypeOverflowing == ASSUME TypeOK, NEW g \in fresh, Overflowing(g) PROVE TypeOK'
<1> USE DEF TypeOK, chanVars, pullVars, streamVars, senderVars, Goroutine
<1>1. CASE OverflowSend(g)
  BY <1>1, TypePut DEF OverflowSend
<1>2. CASE OverflowPark(g)
  <2>1. parked' \in [Pulls -> Seq(Nat)]
    BY <1>2 DEF OverflowPark
  <2> QED
    BY <1>2, <2>1 DEF OverflowPark
<1>3. CASE OverflowGiveUp(g)
  BY <1>3 DEF OverflowGiveUp
<1>4. CASE OverflowPanics(g)
  BY <1>4 DEF OverflowPanics
<1> QED
  BY <1>1, <1>2, <1>3, <1>4 DEF Overflowing

LEMMA TypeTake ==
    ASSUME TypeOK, NEW p \in Pulls, ch[p] # << >>, Take(p)
    PROVE  /\ ch' \in [Pulls -> Seq(Nat)] /\ \A q \in Pulls : Len(ch'[q]) <= Capacity
           /\ parked' \in [Pulls -> Seq(Nat)]
           /\ order' \in [Pulls -> Seq(Nat)]
<1>1. ch[p] \in Seq(Nat) /\ order[p] \in Seq(Nat) /\ parked[p] \in Seq(Nat) /\ Len(ch[p]) <= Capacity
  BY DEF TypeOK
<1>2. Tail(ch[p]) \in Seq(Nat) /\ Len(Tail(ch[p])) = Len(ch[p]) - 1
  BY <1>1
<1>3. Len(Tail(ch[p])) <= Capacity
  BY <1>1, <1>2, BoundsAssumption
<1>4. CASE parked[p] = << >>
  <2>1. ch' = [ch EXCEPT ![p] = Tail(ch[p])] /\ UNCHANGED <<parked, order>>
    BY <1>4 DEF Take
  <2> QED
    BY <1>2, <1>3, <2>1 DEF TypeOK
<1>5. CASE parked[p] # << >>
  <2> DEFINE id == Head(parked[p])
  <2>1. id \in Nat /\ Tail(parked[p]) \in Seq(Nat)
    BY <1>1, <1>5
  <2>2. /\ ch' = [ch EXCEPT ![p] = Append(Tail(ch[p]), id)]
        /\ order' = [order EXCEPT ![p] = Append(order[p], id)]
        /\ parked' = [parked EXCEPT ![p] = Tail(parked[p])]
    BY <1>5 DEF Take
  <2> HIDE DEF id
  <2>3. Append(Tail(ch[p]), id) \in Seq(Nat) /\ Append(order[p], id) \in Seq(Nat)
    BY <1>1, <1>2, <2>1
  <2>4. Len(Append(Tail(ch[p]), id)) <= Capacity
    BY <1>1, <1>2, <2>1
  <2> QED
    BY <2>1, <2>2, <2>3, <2>4 DEF TypeOK
<1> QED
  BY <1>4, <1>5

(* stream.Send succeeded, or was not called.                               *)
LEMMA TypeDeliver ==
    ASSUME TypeOK, NEW p \in Pulls, NEW id \in Nat, Deliver(p, id) \/ PassOver
    PROVE  sent' \in [Pulls -> Seq(Nat)] /\ lastSent' \in [Pulls -> Nat]
<1>1. CASE Deliver(p, id)
  <2>1. Append(sent[p], id) \in Seq(Nat) /\ (IF id > lastSent[p] THEN id ELSE lastSent[p]) \in Nat
    BY DEF TypeOK
  <2> QED
    BY <1>1, <2>1 DEF TypeOK, Deliver
<1> QED
  BY <1>1 DEF PassOver, TypeOK

(* m, m + 1, ... up to n.                                                  *)
LEMMA IsSeqOfNats ==
    ASSUME NEW n \in Nat, NEW m \in Nat
    PROVE  [i \in 1..(n - m) |-> m + i] \in Seq(Nat)
<1>1. CASE m <= n
  <2>1. n - m \in Nat
    BY <1>1
  <2> QED
    BY <2>1
<1>2. CASE n < m
  <2>1. 1..(n - m) = 1..0
    BY <1>2
  <2> QED
    BY <2>1
<1> QED
  BY <1>1, <1>2

LEMMA TypeStreaming == ASSUME TypeOK, NEW p \in Pulls, Streaming(p) PROVE TypeOK'
<1> USE DEF TypeOK, chanVars, pullVars, streamVars, senderVars
<1>1. CASE TakeSnapshot(p)
  <2>1. Len(log) \in Nat /\ since[p] \in Nat
    OBVIOUS
  <2>2. StoredSince(since[p]) \in Seq(Nat)
    BY <2>1, IsSeqOfNats DEF StoredSince
  <2> QED
    BY <1>1, <2>2 DEF TakeSnapshot
<1>2. CASE DeliverStored(p)
  <2>1. Head(snapshot[p]) \in Nat /\ Tail(snapshot[p]) \in Seq(Nat)
    BY <1>2 DEF DeliverStored
  <2>2. snapshot' \in [Pulls -> Seq(Nat)]
    BY <1>2, <2>1 DEF DeliverStored
  <2>3. sent' \in [Pulls -> Seq(Nat)] /\ lastSent' \in [Pulls -> Nat]
    BY <1>2, <2>1, TypeDeliver DEF DeliverStored
  <2> QED
    BY <1>2, <2>2, <2>3 DEF DeliverStored
<1>3. CASE GoLive(p)
  BY <1>3 DEF GoLive
<1>4. CASE Receive(p)
  <2>1. Head(ch[p]) \in Nat
    BY <1>4 DEF Receive
  <2>2. sent' \in [Pulls -> Seq(Nat)] /\ lastSent' \in [Pulls -> Nat]
    BY <1>4, <2>1, TypeDeliver DEF Receive
  <2> QED
    BY <1>4, <2>2, TypeTake DEF Receive
<1> QED
  BY <1>1, <1>2, <1>3, <1>4 DEF Streaming

LEMMA TypeEnding == ASSUME TypeOK, NEW p \in Pulls, Ending(p) PROVE TypeOK'
<1> USE DEF TypeOK, chanVars, pullVars, streamVars, senderVars, Return
<1>1. CASE SendFailsStored(p)
  BY <1>1 DEF SendFailsStored
<1>2. CASE SendFailsLive(p)
  BY <1>2, TypeTake DEF SendFailsLive
<1>3. CASE NoticeDone(p)
  BY <1>3 DEF NoticeDone
<1>4. CASE RemoveSubscription(p)
  BY <1>4 DEF RemoveSubscription
<1>5. CASE Cancel(p)
  BY <1>5 DEF Cancel
<1> QED
  BY <1>1, <1>2, <1>3, <1>4, <1>5 DEF Ending

LEMMA TypeSubscribe ==
    ASSUME TypeOK, NEW p \in Pulls, NEW id \in Markers, NEW F \in Filters, Subscribe(p, id, F)
    PROVE  TypeOK'
BY RequestsAssumption DEF TypeOK, Subscribe, chanVars, senderVars

LEMMA TypeNext == TypeOK /\ [Next]_vars => TypeOK'
<1>1. ASSUME TypeOK, UNCHANGED vars PROVE TypeOK'
  BY <1>1 DEF TypeOK, vars, senderVars, streamVars, chanVars, pullVars
<1>2. ASSUME TypeOK, Next PROVE TypeOK'
  BY <1>2, TypeSave, TypeBroadcasting, TypeOverflowing, TypeSubscribe, TypeStreaming, TypeEnding
     DEF Next
<1> QED
  BY <1>1, <1>2

(* Every variable has its type in every reachable state, and no buffer     *)
(* holds more than its channel's capacity, parked senders admitted by a    *)
(* receive included.                                                       *)
THEOREM TypeCorrect == Spec => []TypeOK
BY TypeInit, TypeNext, PTL DEF Spec

-------------------------------------------------------------------------------
(* One stream, as a predicate of its values: l is the log, n its length,   *)
(* st, si and fi the stream's stage, since and filter, c and o its channel *)
(* and its order, sn, la and se its snapshot, lastSent and sent.           *)

Ascending(se) == \A i, j \in DOMAIN se : i < j => se[i] < se[j]

Asked(l, si, fi, id) == id > si /\ l[id] \in fi

Passed(o, id) == \E i \in DOMAIN o : o[i] > id /\ \A j \in 1..i : o[j] # id

(* What was sent is below lastSent, which is the client's marker or an     *)
(* identifier of the log.                                                  *)
SentOK(n, st, si, la, se) ==
    /\ Ascending(se)
    /\ \A i \in DOMAIN se : se[i] <= la
    /\ st \in {"off", "subscribed"} => se = << >>
    /\ st = "subscribed" => la = si
    /\ la = si \/ la \in 1..n

Received(c, o) == Len(o) - Len(c)

(* The channel holds the last of what entered it; nothing is received      *)
(* before the stream is live.                                              *)
ChannelOK(n, st, c, o) ==
    /\ Len(c) <= Len(o)
    /\ \A i \in DOMAIN o : o[i] \in 1..n
    /\ \A i \in DOMAIN c : c[i] = o[Received(c, o) + i]
    /\ st \in {"off", "subscribed", "history"} => Received(c, o) = 0

(* The copy of the history has no gap, is above lastSent, and everything   *)
(* wanted below it has been sent.                                          *)
HistoryOK(l, st, si, fi, sn, la, se) ==
    st = "history" =>
        /\ \A i \in DOMAIN sn : sn[i] \in 1..Len(l) /\ sn[i] > la /\ sn[i] = sn[1] + (i - 1)
        /\ \A id \in 1..Len(l) :
              /\ id <= la \/ (sn # << >> /\ id < sn[1])
              /\ Asked(l, si, fi, id)
              => Within(se, id)

(* What is wanted and not above lastSent, and what was received and is     *)
(* wanted, has been sent or was overtaken.                                 *)
LiveOK(l, st, si, fi, c, o, la, se) ==
    st = "live" =>
        /\ \A id \in 1..Len(l) : id <= la /\ Asked(l, si, fi, id) => Within(se, id) \/ Passed(o, id)
        /\ \A i \in 1..Received(c, o) :
              Asked(l, si, fi, o[i]) => Within(se, o[i]) \/ Passed(o, o[i])

StreamOK(p) == /\ SentOK(Len(log), stage[p], since[p], lastSent[p], sent[p])
               /\ ChannelOK(Len(log), stage[p], ch[p], order[p])
               /\ HistoryOK(log, stage[p], since[p], filter[p], snapshot[p], lastSent[p], sent[p])
               /\ LiveOK(log, stage[p], since[p], filter[p], ch[p], order[p], lastSent[p], sent[p])

StreamsOK == \A p \in Pulls : StreamOK(p)

(* What is on its way to a channel is stored.                              *)
InFlightOK == /\ \A t \in Senders : pc[t] # "idle" => rec[t] \in Ids
              /\ \A g \in fresh : g.id \in Ids
              /\ \A p \in Pulls : \A i \in DOMAIN parked[p] : parked[p][i] \in Ids

IInv == TypeOK /\ InFlightOK /\ StreamsOK

-------------------------------------------------------------------------------
(* Facts about one stream.                                                 *)

LEMMA SentGrows ==
    ASSUME NEW se \in Seq(Nat), NEW la \in Nat, NEW id \in Nat, id > la,
           Ascending(se), \A i \in DOMAIN se : se[i] <= la
    PROVE  /\ Ascending(Append(se, id))
           /\ \A i \in DOMAIN Append(se, id) : Append(se, id)[i] <= id
           /\ Within(Append(se, id), id)
           /\ \A x : Within(se, x) => Within(Append(se, id), x)
<1> DEFINE s == Append(se, id)
<1>1. /\ Len(se) \in Nat /\ DOMAIN se = 1..Len(se) /\ DOMAIN s = 1..(Len(se) + 1)
      /\ \A i \in 1..Len(se) : s[i] = se[i] /\ se[i] \in Nat
      /\ s[Len(se) + 1] = id
  OBVIOUS
<1> HIDE DEF s
<1>2. \A i \in DOMAIN s : s[i] <= id
  <2> SUFFICES ASSUME NEW i \in DOMAIN s PROVE s[i] <= id
    OBVIOUS
  <2>1. i \in 1..Len(se) \/ i = Len(se) + 1
    BY <1>1
  <2>2. CASE i \in 1..Len(se)
    BY <1>1, <2>2
  <2> QED
    BY <1>1, <2>1, <2>2
<1>3. Ascending(s)
  <2> SUFFICES ASSUME NEW i \in DOMAIN s, NEW j \in DOMAIN s, i < j PROVE s[i] < s[j]
    BY DEF Ascending
  <2>1. i \in 1..Len(se) /\ (j \in 1..Len(se) \/ j = Len(se) + 1)
    BY <1>1
  <2>2. CASE j \in 1..Len(se)
    BY <1>1, <2>1, <2>2 DEF Ascending
  <2>3. CASE j = Len(se) + 1
    BY <1>1, <2>1, <2>3
  <2> QED
    BY <2>1, <2>2, <2>3
<1>4. Within(s, id)
  BY <1>1 DEF Within
<1>5. \A x : Within(se, x) => Within(s, x)
  <2> SUFFICES ASSUME NEW x, NEW i \in DOMAIN se, se[i] = x PROVE Within(s, x)
    BY DEF Within
  <2>1. i \in DOMAIN s /\ s[i] = x
    BY <1>1
  <2> QED
    BY <2>1 DEF Within
<1> QED
  BY <1>2, <1>3, <1>4, <1>5 DEF s

LEMMA ReceivedIds ==
    ASSUME NEW n \in Nat, NEW st, NEW c \in Seq(Nat), NEW o \in Seq(Nat), ChannelOK(n, st, c, o)
    PROVE  /\ Received(c, o) \in Nat /\ Received(c, o) <= Len(o)
           /\ \A i \in 1..Received(c, o) : i \in DOMAIN o /\ o[i] \in 1..n
<1>1. Len(c) \in Nat /\ Len(o) \in Nat /\ DOMAIN o = 1..Len(o) /\ Len(c) <= Len(o)
  BY DEF ChannelOK
<1>2. Received(c, o) \in Nat /\ Received(c, o) <= Len(o)
  BY <1>1 DEF Received
<1>3. \A i \in 1..Received(c, o) : i \in DOMAIN o
  BY <1>1, <1>2
<1> QED
  BY <1>2, <1>3 DEF ChannelOK

(* The log grows by an envelope.                                           *)
LEMMA LogGrows ==
    ASSUME NEW l \in Seq(Conversations), NEW conv \in Conversations, NEW st, NEW si \in Nat, NEW fi,
           NEW c \in Seq(Nat), NEW o \in Seq(Nat), NEW sn \in Seq(Nat), NEW la \in Nat, NEW se,
           SentOK(Len(l), st, si, la, se), ChannelOK(Len(l), st, c, o),
           HistoryOK(l, st, si, fi, sn, la, se), LiveOK(l, st, si, fi, c, o, la, se)
    PROVE  /\ SentOK(Len(Append(l, conv)), st, si, la, se)
           /\ ChannelOK(Len(Append(l, conv)), st, c, o)
           /\ HistoryOK(Append(l, conv), st, si, fi, sn, la, se)
           /\ LiveOK(Append(l, conv), st, si, fi, c, o, la, se)
<1> DEFINE m == Append(l, conv)
<1>1. /\ Len(l) \in Nat /\ Len(m) = Len(l) + 1
      /\ \A id \in 1..Len(l) : m[id] = l[id]
  OBVIOUS
<1> HIDE DEF m
<1>2. \A id \in 1..Len(l) : id \in 1..Len(m) /\ (Asked(m, si, fi, id) <=> Asked(l, si, fi, id))
  BY <1>1 DEF Asked
<1>3. \A id \in 1..Len(m) : Asked(m, si, fi, id) /\ id <= la => id \in 1..Len(l)
  <2> SUFFICES ASSUME NEW id \in 1..Len(m), id > si, id <= la PROVE id \in 1..Len(l)
    BY DEF Asked
  <2>1. la \in 1..Len(l)
    BY DEF SentOK
  <2> QED
    BY <1>1, <2>1
<1>4. SentOK(Len(m), st, si, la, se)
  BY <1>1 DEF SentOK
<1>5. ChannelOK(Len(m), st, c, o)
  BY <1>1 DEF ChannelOK
<1>6. HistoryOK(m, st, si, fi, sn, la, se)
  <2> SUFFICES ASSUME st = "history" PROVE HistoryOK(m, st, si, fi, sn, la, se)
    BY DEF HistoryOK
  <2>1. \A i \in DOMAIN sn : sn[i] \in 1..Len(m) /\ sn[i] > la /\ sn[i] = sn[1] + (i - 1)
    BY <1>2 DEF HistoryOK
  <2>2. ASSUME NEW id \in 1..Len(m), id <= la \/ (sn # << >> /\ id < sn[1]), Asked(m, si, fi, id)
        PROVE  Within(se, id)
    <3>1. id \in 1..Len(l)
      <4>1. CASE id <= la
        BY <1>3, <2>2, <4>1
      <4>2. CASE sn # << >> /\ id < sn[1]
        <5>1. 1 \in DOMAIN sn
          BY <4>2
        <5>2. sn[1] \in 1..Len(l)
          BY <5>1 DEF HistoryOK
        <5> QED
          BY <1>1, <4>2, <5>2
      <4> QED
        BY <2>2, <4>1, <4>2
    <3>2. Asked(l, si, fi, id)
      BY <1>2, <2>2, <3>1
    <3> QED
      BY <2>2, <3>1, <3>2 DEF HistoryOK
  <2> QED
    BY <2>1, <2>2 DEF HistoryOK
<1>7. LiveOK(m, st, si, fi, c, o, la, se)
  <2> SUFFICES ASSUME st = "live" PROVE LiveOK(m, st, si, fi, c, o, la, se)
    BY DEF LiveOK
  <2>1. \A id \in 1..Len(m) : id <= la /\ Asked(m, si, fi, id) => Within(se, id) \/ Passed(o, id)
    BY <1>2, <1>3 DEF LiveOK
  <2>2. \A i \in 1..Received(c, o) : o[i] \in 1..Len(l)
    BY <1>1, ReceivedIds
  <2>3. \A i \in 1..Received(c, o) :
           Asked(m, si, fi, o[i]) => Within(se, o[i]) \/ Passed(o, o[i])
    BY <1>2, <2>2 DEF LiveOK
  <2> QED
    BY <2>1, <2>3 DEF LiveOK
<1> QED
  BY <1>4, <1>5, <1>6, <1>7 DEF m

LEMMA LastOrBefore ==
    ASSUME NEW n \in Nat, NEW i \in 1..(n + 1)
    PROVE  i \in 1..n \/ i = n + 1
OBVIOUS

(* An envelope enters the channel.                                         *)
LEMMA ChannelPut ==
    ASSUME NEW n \in Nat, NEW id \in 1..n, NEW st, NEW c \in Seq(Nat), NEW o \in Seq(Nat),
           ChannelOK(n, st, c, o)
    PROVE  /\ ChannelOK(n, st, Append(c, id), Append(o, id))
           /\ Received(Append(c, id), Append(o, id)) = Received(c, o)
<1> DEFINE d == Append(c, id)
           q == Append(o, id)
<1>1. /\ Len(c) \in Nat /\ Len(o) \in Nat /\ Len(d) = Len(c) + 1 /\ Len(q) = Len(o) + 1
      /\ DOMAIN c = 1..Len(c) /\ DOMAIN d = 1..(Len(c) + 1)
      /\ DOMAIN o = 1..Len(o) /\ DOMAIN q = 1..(Len(o) + 1)
      /\ \A i \in 1..Len(c) : d[i] = c[i]
      /\ \A i \in 1..Len(o) : q[i] = o[i]
      /\ d[Len(c) + 1] = id /\ q[Len(o) + 1] = id
  OBVIOUS
<1> HIDE DEF d, q
<1>2. Len(c) <= Len(o)
  BY DEF ChannelOK
<1>3. Received(d, q) = Received(c, o) /\ Received(c, o) = Len(o) - Len(c)
  BY <1>1 DEF Received
<1>4. \A i \in DOMAIN q : q[i] \in 1..n
  <2> SUFFICES ASSUME NEW i \in DOMAIN q PROVE q[i] \in 1..n
    OBVIOUS
  <2>1. i \in DOMAIN o \/ i = Len(o) + 1
    BY <1>1
  <2> QED
    BY <1>1, <2>1 DEF ChannelOK
<1>5. \A i \in DOMAIN d : d[i] = q[Received(d, q) + i]
  <2> SUFFICES ASSUME NEW i \in DOMAIN d PROVE d[i] = q[Received(d, q) + i]
    OBVIOUS
  <2>0. Len(c) \in Nat /\ i \in 1..(Len(c) + 1)
    BY <1>1
  <2>1. i \in 1..Len(c) \/ i = Len(c) + 1
    BY <2>0, LastOrBefore
  <2>2. CASE i \in 1..Len(c)
    <3>1. d[i] = c[i] /\ c[i] = o[Received(c, o) + i]
      BY <1>1, <2>2 DEF ChannelOK
    <3>2. Received(c, o) + i \in 1..Len(o)
      BY <1>1, <1>2, <1>3, <2>2
    <3> QED
      BY <1>1, <1>3, <3>1, <3>2
  <2>3. CASE i = Len(c) + 1
    <3>1. Received(d, q) + i = Len(o) + 1
      BY <1>1, <1>3, <2>3
    <3> QED
      BY <1>1, <2>3, <3>1
  <2> QED
    BY <2>1, <2>2, <2>3
<1>6. Len(d) <= Len(q)
  BY <1>1, <1>2
<1>7. st \in {"off", "subscribed", "history"} => Received(d, q) = 0
  BY <1>3 DEF ChannelOK
<1> QED
  BY <1>3, <1>4, <1>5, <1>6, <1>7 DEF ChannelOK, d, q

LEMMA LivePut ==
    ASSUME NEW l \in Seq(Conversations), NEW id \in 1..Len(l), NEW st, NEW si \in Nat, NEW fi,
           NEW c \in Seq(Nat), NEW o \in Seq(Nat), NEW la \in Nat, NEW se,
           ChannelOK(Len(l), st, c, o), LiveOK(l, st, si, fi, c, o, la, se)
    PROVE  LiveOK(l, st, si, fi, Append(c, id), Append(o, id), la, se)
<1> DEFINE d == Append(c, id)
           q == Append(o, id)
<1>1. /\ Len(o) \in Nat /\ DOMAIN o = 1..Len(o) /\ DOMAIN q = 1..(Len(o) + 1) /\ Len(l) \in Nat
      /\ \A i \in 1..Len(o) : q[i] = o[i]
  OBVIOUS
<1>2. Received(d, q) = Received(c, o)
  BY <1>1, ChannelPut
<1> HIDE DEF d, q
<1>3. \A x : Passed(o, x) => Passed(q, x)
  <2> SUFFICES ASSUME NEW x, NEW i \in DOMAIN o, o[i] > x, \A j \in 1..i : o[j] # x PROVE Passed(q, x)
    BY DEF Passed
  <2>0. i \in 1..Len(o) /\ Len(o) \in Nat
    BY <1>1
  <2>1. i \in DOMAIN q
    BY <1>1, <2>0
  <2>2. q[i] > x /\ \A j \in 1..i : q[j] # x
    <3>1. \A j \in 1..i : j \in 1..Len(o)
      BY <2>0
    <3> QED
      BY <1>1, <2>0, <3>1
  <2> QED
    BY <2>1, <2>2 DEF Passed
<1>4. \A i \in 1..Received(c, o) : q[i] = o[i]
  BY <1>1, ReceivedIds
<1> QED
  BY <1>2, <1>3, <1>4 DEF LiveOK, d, q

(* The first envelope in the channel is received.                          *)
LEMMA ReceivedTail ==
    ASSUME NEW c \in Seq(Nat), NEW o \in Seq(Nat), c # << >>, Len(c) <= Len(o),
           \A i \in DOMAIN c : c[i] = o[Received(c, o) + i]
    PROVE  /\ Received(Tail(c), o) = Received(c, o) + 1
           /\ Received(Tail(c), o) \in DOMAIN o
           /\ o[Received(Tail(c), o)] = Head(c)
           /\ \A i \in DOMAIN Tail(c) : Tail(c)[i] = o[Received(Tail(c), o) + i]
           /\ Len(Tail(c)) <= Len(o)
<1> DEFINE d == Tail(c)
<1>1. /\ Len(c) \in Nat \ {0} /\ Len(o) \in Nat /\ Len(d) = Len(c) - 1
      /\ DOMAIN c = 1..Len(c) /\ DOMAIN d = 1..(Len(c) - 1) /\ DOMAIN o = 1..Len(o)
      /\ \A i \in 1..(Len(c) - 1) : d[i] = c[i + 1]
      /\ Head(c) = c[1]
  OBVIOUS
<1> HIDE DEF d
<1>3. Received(d, o) = Received(c, o) + 1 /\ Received(c, o) = Len(o) - Len(c)
  BY <1>1 DEF Received
<1>4. Received(d, o) \in DOMAIN o
  BY <1>1, <1>3
<1>5. o[Received(d, o)] = Head(c)
  <2>1. 1 \in DOMAIN c
    BY <1>1
  <2>2. c[1] = o[Received(c, o) + 1]
    BY <2>1
  <2> QED
    BY <1>1, <1>3, <2>2
<1>6. \A i \in DOMAIN d : d[i] = o[Received(d, o) + i]
  <2> SUFFICES ASSUME NEW i \in DOMAIN d PROVE d[i] = o[Received(d, o) + i]
    OBVIOUS
  <2>0. i \in 1..(Len(c) - 1) /\ Len(c) \in Nat /\ Len(o) \in Nat
    BY <1>1
  <2>1. i + 1 \in DOMAIN c /\ d[i] = c[i + 1]
    <3>1. i + 1 \in 1..Len(c)
      BY <2>0
    <3>2. d[i] = c[i + 1]
      BY <1>1, <2>0, Zenon
    <3> QED
      BY <1>1, <3>1, <3>2, Zenon
  <2>2. c[i + 1] = o[Received(c, o) + (i + 1)]
    BY <2>1
  <2>3. Received(c, o) + (i + 1) = Received(d, o) + i
    BY <1>3, <2>0
  <2> QED
    BY <2>1, <2>2, <2>3, Zenon
<1>7. Len(d) <= Len(o)
  BY <1>1
<1> QED
  BY <1>3, <1>4, <1>5, <1>6, <1>7 DEF d

LEMMA ChannelTail ==
    ASSUME NEW n \in Nat, NEW st, NEW c \in Seq(Nat), NEW o \in Seq(Nat), c # << >>,
           ChannelOK(n, st, c, o), st \notin {"off", "subscribed", "history"}
    PROVE  ChannelOK(n, st, Tail(c), o) /\ Head(c) \in 1..n
<1>1. Len(c) <= Len(o) /\ \A i \in DOMAIN c : c[i] = o[Received(c, o) + i]
  BY DEF ChannelOK
<1>2. /\ Received(Tail(c), o) \in DOMAIN o
      /\ o[Received(Tail(c), o)] = Head(c)
      /\ \A i \in DOMAIN Tail(c) : Tail(c)[i] = o[Received(Tail(c), o) + i]
      /\ Len(Tail(c)) <= Len(o)
  BY <1>1, ReceivedTail
<1>3. \A i \in DOMAIN o : o[i] \in 1..n
  BY DEF ChannelOK
<1>4. Head(c) \in 1..n
  BY <1>2, <1>3
<1>5. ChannelOK(n, st, Tail(c), o)
  BY <1>2, <1>3, Zenon DEF ChannelOK
<1> QED
  BY <1>4, <1>5

(* What has been received before and is not below it was passed.           *)
LEMMA LiveReceive ==
    ASSUME NEW l \in Seq(Conversations), NEW si \in Nat, NEW fi,
           NEW c \in Seq(Nat), NEW o \in Seq(Nat), NEW la \in Nat, NEW se \in Seq(Nat), c # << >>,
           ChannelOK(Len(l), "live", c, o), LiveOK(l, "live", si, fi, c, o, la, se),
           NEW mu \in Nat, NEW re,
           \A x : Within(se, x) => Within(re, x),
           IF Head(c) > la /\ l[Head(c)] \in fi
             THEN mu = Head(c) /\ Within(re, Head(c))
             ELSE mu = la
    PROVE  LiveOK(l, "live", si, fi, Tail(c), o, mu, re)
<1> DEFINE d == Tail(c)
           x == Head(c)
           k == Received(d, o)
           Fine(id) == Within(re, id) \/ Passed(o, id)
<1>1. Len(l) \in Nat
  OBVIOUS
<1>2. /\ k = Received(c, o) + 1 /\ k \in DOMAIN o /\ o[k] = x /\ x \in 1..Len(l)
      /\ DOMAIN o = 1..Len(o) /\ Len(o) \in Nat
  <2>1. /\ Len(c) <= Len(o) /\ \A i \in DOMAIN c : c[i] = o[Received(c, o) + i]
        /\ \A i \in DOMAIN o : o[i] \in 1..Len(l)
    BY DEF ChannelOK
  <2>2. /\ Received(Tail(c), o) = Received(c, o) + 1
        /\ Received(Tail(c), o) \in DOMAIN o
        /\ o[Received(Tail(c), o)] = Head(c)
    BY <2>1, ReceivedTail
  <2>3. DOMAIN o = 1..Len(o) /\ Len(o) \in Nat
    OBVIOUS
  <2> QED
    BY <2>1, <2>2, <2>3
<1>3. /\ \A id \in 1..Len(l) : id <= la /\ Asked(l, si, fi, id) => Fine(id)
      /\ \A i \in 1..Received(c, o) : Asked(l, si, fi, o[i]) => Fine(o[i])
  BY DEF LiveOK
<1>4. Received(c, o) \in Nat
  BY <1>1, ReceivedIds
<1> HIDE DEF d, x, k, Fine
<1>5. Asked(l, si, fi, x) => Fine(x)
  <2> SUFFICES ASSUME Asked(l, si, fi, x) PROVE Fine(x)
    OBVIOUS
  <2>1. CASE x > la
    BY <2>1 DEF Asked, Fine, x
  <2>2. CASE x <= la
    BY <1>2, <1>3, <2>2
  <2> QED
    BY <1>2, <2>1, <2>2
<1>6. \A i \in 1..k : Asked(l, si, fi, o[i]) => Fine(o[i])
  <2> SUFFICES ASSUME NEW i \in 1..k PROVE Asked(l, si, fi, o[i]) => Fine(o[i])
    OBVIOUS
  <2>1. i \in 1..Received(c, o) \/ i = k
    BY <1>2, <1>4
  <2> QED
    BY <1>2, <1>3, <1>5, <2>1
<1>7. ASSUME NEW id \in 1..Len(l), id < x, Asked(l, si, fi, id), ~Fine(id) PROVE FALSE
  <2>1. \A j \in 1..k : o[j] # id
    BY <1>6, <1>7
  <2>2. o[k] > id
    BY <1>2, <1>7
  <2> QED
    BY <1>2, <1>7, <2>1, <2>2 DEF Passed, Fine
<1>8. \A id \in 1..Len(l) : id <= mu /\ Asked(l, si, fi, id) => Fine(id)
  <2> SUFFICES ASSUME NEW id \in 1..Len(l), id <= mu, Asked(l, si, fi, id) PROVE Fine(id)
    OBVIOUS
  <2>1. CASE id <= la
    BY <1>3, <2>1
  <2>2. CASE ~(id <= la)
    <3>1. mu = x
      BY <2>2 DEF x
    <3>2. id = x \/ id < x
      BY <1>2, <3>1
    <3> QED
      BY <1>5, <1>7, <3>2
  <2> QED
    BY <2>1, <2>2
<1> QED
  BY <1>6, <1>8 DEF LiveOK, Fine, d, k

(* The copy of the history.                                                *)
LEMMA HistoryTaken ==
    ASSUME NEW l \in Seq(Conversations), NEW si \in Nat, NEW fi
    PROVE  HistoryOK(l, "history", si, fi, [i \in 1..(Len(l) - si) |-> si + i], si, << >>)
<1> DEFINE sn == [i \in 1..(Len(l) - si) |-> si + i]
<1>1. Len(l) \in Nat
  OBVIOUS
<1>2. DOMAIN sn = 1..(Len(l) - si) /\ \A i \in DOMAIN sn : sn[i] = si + i
  OBVIOUS
<1>3. sn # << >> => 1 \in DOMAIN sn
  <2>1. CASE si < Len(l)
    BY <1>1, <1>2, <2>1
  <2>2. CASE Len(l) <= si
    <3>1. 1..(Len(l) - si) = {}
      BY <1>1, <2>2
    <3> QED
      BY <3>1
  <2> QED
    BY <1>1, <2>1, <2>2
<1> HIDE DEF sn
<1>4. \A i \in DOMAIN sn : sn[i] \in 1..Len(l) /\ sn[i] > si
  BY <1>1, <1>2
<1>5. \A i \in DOMAIN sn : 1 \in DOMAIN sn /\ sn[i] = sn[1] + (i - 1)
  <2> SUFFICES ASSUME NEW i \in DOMAIN sn PROVE 1 \in DOMAIN sn /\ sn[i] = sn[1] + (i - 1)
    OBVIOUS
  <2>1. i \in 1..(Len(l) - si) /\ 1 \in 1..(Len(l) - si)
    BY <1>1, <1>2
  <2>2. sn[i] = si + i /\ sn[1] = si + 1
    BY <1>2, <2>1
  <2> QED
    BY <1>2, <2>1, <2>2
<1>6. ASSUME NEW id \in 1..Len(l), id <= si \/ (sn # << >> /\ id < sn[1]), id > si PROVE FALSE
  <2>1. sn # << >> /\ id < sn[1]
    BY <1>6
  <2>2. sn[1] = si + 1
    BY <1>2, <1>3, <2>1
  <2> QED
    BY <1>6, <2>1, <2>2
<1> QED
  BY <1>4, <1>5, <1>6 DEF HistoryOK, Asked, sn

(* Its next record is sent, or passed over.                                *)
LEMMA HistoryGoesOn ==
    ASSUME NEW l \in Seq(Conversations), NEW si \in Nat, NEW fi,
           NEW sn \in Seq(Nat), NEW la \in Nat, NEW se, sn # << >>,
           HistoryOK(l, "history", si, fi, sn, la, se),
           NEW mu \in Nat, NEW re,
           \A x : Within(se, x) => Within(re, x),
           IF l[Head(sn)] \in fi THEN mu = Head(sn) /\ Within(re, Head(sn)) ELSE mu = la
    PROVE  HistoryOK(l, "history", si, fi, Tail(sn), mu, re)
<1> DEFINE tl == Tail(sn)
           h == Head(sn)
<1>1. /\ Len(sn) \in Nat \ {0} /\ DOMAIN sn = 1..Len(sn) /\ DOMAIN tl = 1..(Len(sn) - 1)
      /\ \A i \in 1..(Len(sn) - 1) : tl[i] = sn[i + 1]
      /\ h = sn[1] /\ Len(l) \in Nat
  OBVIOUS
<1>2. tl # << >> => 1 \in DOMAIN tl
  OBVIOUS
<1>3. /\ \A i \in DOMAIN sn : sn[i] \in 1..Len(l) /\ sn[i] > la /\ sn[i] = h + (i - 1)
      /\ \A id \in 1..Len(l) : (id <= la \/ id < h) /\ Asked(l, si, fi, id) => Within(se, id)
  BY <1>1 DEF HistoryOK
<1>4. h \in 1..Len(l) /\ h > la
  BY <1>1, <1>3
<1>5. mu = h \/ mu = la
  OBVIOUS
<1>6. Asked(l, si, fi, h) => Within(re, h)
  BY DEF Asked
<1> HIDE DEF tl, h
<1>7. \A i \in DOMAIN tl : tl[i] \in 1..Len(l) /\ tl[i] = h + i /\ tl[i] > mu
  <2> SUFFICES ASSUME NEW i \in DOMAIN tl
               PROVE  tl[i] \in 1..Len(l) /\ tl[i] = h + i /\ tl[i] > mu
    OBVIOUS
  <2>0. i \in 1..(Len(sn) - 1) /\ Len(sn) \in Nat
    BY <1>1
  <2>1. i + 1 \in DOMAIN sn /\ tl[i] = sn[i + 1]
    BY <1>1, <2>0
  <2>2. tl[i] \in 1..Len(l) /\ tl[i] = h + ((i + 1) - 1)
    BY <1>3, <2>1
  <2>3. i \in Nat \ {0} /\ h \in Nat /\ la < h
    BY <1>1, <1>4, <2>0
  <2>4. (h + ((i + 1) - 1)) = h + i /\ h + i > h /\ h + i > la
    BY <2>3
  <2> QED
    BY <1>5, <2>2, <2>4
<1>8. \A i \in DOMAIN tl : tl[i] = tl[1] + (i - 1)
  <2> SUFFICES ASSUME NEW i \in DOMAIN tl PROVE tl[i] = tl[1] + (i - 1)
    OBVIOUS
  <2>1. 1 \in DOMAIN tl /\ i \in Nat
    BY <1>1
  <2> QED
    BY <1>4, <1>7, <2>1
<1>9. ASSUME NEW id \in 1..Len(l), id <= mu \/ (tl # << >> /\ id < tl[1]), Asked(l, si, fi, id)
      PROVE  Within(re, id)
  <2>1. id <= h
    <3>1. CASE id <= mu
      BY <1>4, <1>5, <3>1
    <3>2. CASE tl # << >> /\ id < tl[1]
      <4>1. tl[1] = h + 1
        BY <1>2, <1>7, <3>2
      <4> QED
        BY <1>4, <3>2, <4>1
    <3> QED
      BY <1>9, <3>1, <3>2
  <2>2. id = h \/ id < h
    BY <1>4, <2>1
  <2> QED
    BY <1>3, <1>6, <1>9, <2>2
<1> QED
  BY <1>7, <1>8, <1>9 DEF HistoryOK, tl

(* The end of the history is the beginning of what is live.                *)
LEMMA HistoryEnds ==
    ASSUME NEW l \in Seq(Conversations), NEW si \in Nat, NEW fi,
           NEW c \in Seq(Nat), NEW o \in Seq(Nat), NEW la \in Nat, NEW se,
           HistoryOK(l, "history", si, fi, << >>, la, se), ChannelOK(Len(l), "history", c, o)
    PROVE  ChannelOK(Len(l), "live", c, o) /\ LiveOK(l, "live", si, fi, c, o, la, se)
<1>1. Received(c, o) = 0
  BY DEF ChannelOK
<1>2. 1..Received(c, o) = {}
  BY <1>1
<1>3. \A id \in 1..Len(l) : id <= la /\ Asked(l, si, fi, id) => Within(se, id)
  BY DEF HistoryOK
<1>4. LiveOK(l, "live", si, fi, c, o, la, se)
  BY <1>2, <1>3 DEF LiveOK
<1>5. ChannelOK(Len(l), "live", c, o)
  BY DEF ChannelOK
<1> QED
  BY <1>4, <1>5
-------------------------------------------------------------------------------
(* What is in flight is stored, after every step.                          *)

LEMMA IdsType == TypeOK => Len(log) \in Nat
BY DEF TypeOK

LEMMA InFlightSave ==
    ASSUME TypeOK, InFlightOK, NEW t \in Senders, NEW conv \in Conversations, Save(t, conv)
    PROVE  InFlightOK'
<1>1. Len(log) \in Nat /\ Len(log') = Len(log) + 1
  BY DEF TypeOK, Save
<1>2. \A id \in Ids : id \in Ids'
  BY <1>1 DEF Ids
<1>3. Len(log) + 1 \in Ids'
  BY <1>1 DEF Ids
<1>4. UNCHANGED <<fresh, parked>>
  BY DEF Save, chanVars
<1>5. \A u \in Senders : pc'[u] # "idle" => rec'[u] \in Ids'
  <2> SUFFICES ASSUME NEW u \in Senders, pc'[u] # "idle" PROVE rec'[u] \in Ids'
    OBVIOUS
  <2>1. CASE u = t
    BY <1>3, <2>1 DEF Save, TypeOK
  <2>2. CASE u # t
    <3>1. pc'[u] = pc[u] /\ rec'[u] = rec[u]
      BY <2>2 DEF Save, TypeOK
    <3> QED
      BY <1>2, <3>1 DEF InFlightOK
  <2> QED
    BY <2>1, <2>2
<1> QED
  BY <1>2, <1>4, <1>5 DEF InFlightOK

LEMMA InFlightBroadcasting ==
    ASSUME TypeOK, InFlightOK, NEW t \in Senders, Broadcasting(t)
    PROVE  InFlightOK'
<1>1. UNCHANGED <<log, rec, parked>> /\ Ids' = Ids
  BY DEF Broadcasting, CopySubs, Skip, Enqueue, SpawnOverflow, SendPanics, SendReturn, chanVars, Ids
<1>2. \A u \in Senders : pc'[u] # "idle" => pc[u] # "idle"
  BY DEF Broadcasting, CopySubs, Skip, Enqueue, SpawnOverflow, SendPanics, SendReturn, Offered, TypeOK
<1>3. \A g \in fresh' : g \in fresh \/ (pc[t] = "broadcast" /\ g.id = rec[t])
  BY DEF Broadcasting, CopySubs, Skip, Enqueue, SpawnOverflow, SendPanics, SendReturn, Offered, chanVars
<1>4. \A g \in fresh' : g.id \in Ids
  BY <1>3 DEF InFlightOK
<1> QED
  BY <1>1, <1>2, <1>4 DEF InFlightOK

LEMMA InFlightOverflowing ==
    ASSUME TypeOK, InFlightOK, NEW g \in fresh, Overflowing(g)
    PROVE  InFlightOK'
<1>1. UNCHANGED <<log, pc, rec>> /\ Ids' = Ids
  BY DEF Overflowing, OverflowSend, OverflowPark, OverflowGiveUp, OverflowPanics, senderVars, Ids
<1>2. fresh' \subseteq fresh
  BY DEF Overflowing, OverflowSend, OverflowPark, OverflowGiveUp, OverflowPanics, chanVars
<1>3. g.id \in Ids /\ g.sub \in Pulls /\ g.id \in Nat
  BY DEF InFlightOK, TypeOK, Goroutine
<1>4. \A p \in Pulls : \A i \in DOMAIN parked'[p] : parked'[p][i] \in Ids
  <2>1. CASE parked' = parked
    BY <2>1 DEF InFlightOK
  <2>2. CASE OverflowPark(g)
    <3> SUFFICES ASSUME NEW p \in Pulls, NEW i \in DOMAIN parked'[p] PROVE parked'[p][i] \in Ids
      OBVIOUS
    <3>1. parked[p] \in Seq(Nat)
      BY DEF TypeOK
    <3>2. CASE p = g.sub
      <4>1. parked'[p] = Append(parked[p], g.id)
        BY <2>2, <3>2 DEF OverflowPark, TypeOK
      <4>2. i \in 1..(Len(parked[p]) + 1) /\ Len(parked[p]) \in Nat
        BY <1>3, <3>1, <4>1
      <4>3. i \in 1..Len(parked[p]) \/ i = Len(parked[p]) + 1
        BY <4>2, LastOrBefore
      <4>4. CASE i \in 1..Len(parked[p])
        <5>1. i \in DOMAIN parked[p] /\ parked'[p][i] = parked[p][i]
          BY <1>3, <3>1, <4>1, <4>4
        <5> QED
          BY <5>1 DEF InFlightOK
      <4>5. CASE i = Len(parked[p]) + 1
        <5>1. parked'[p][i] = g.id
          BY <1>3, <3>1, <4>1, <4>5
        <5> QED
          BY <1>3, <5>1
      <4> QED
        BY <4>3, <4>4, <4>5
    <3>3. CASE p # g.sub
      <4>1. parked'[p] = parked[p]
        BY <2>2, <3>3 DEF OverflowPark, TypeOK
      <4> QED
        BY <4>1 DEF InFlightOK
    <3> QED
      BY <3>2, <3>3
  <2> QED
    BY <2>1, <2>2 DEF Overflowing, OverflowSend, OverflowGiveUp, OverflowPanics, chanVars
<1> QED
  BY <1>1, <1>2, <1>4 DEF InFlightOK

(* Streams admit parked senders, or let them go.                           *)
LEMMA InFlightStream ==
    ASSUME TypeOK, InFlightOK, UNCHANGED <<log, senderVars, fresh>>, NEW p \in Pulls,
           \A q \in Pulls \ {p} : parked'[q] = parked[q],
           \/ parked'[p] = parked[p]
           \/ parked'[p] = << >>
           \/ parked[p] # << >> /\ parked'[p] = Tail(parked[p])
    PROVE  InFlightOK'
<1>1. Ids' = Ids /\ UNCHANGED <<pc, rec, fresh>>
  BY DEF Ids, senderVars
<1>2. \A q \in Pulls : \A i \in DOMAIN parked'[q] : parked'[q][i] \in Ids
  <2> SUFFICES ASSUME NEW q \in Pulls, NEW i \in DOMAIN parked'[q] PROVE parked'[q][i] \in Ids
    OBVIOUS
  <2>1. CASE parked'[q] = parked[q]
    BY <2>1 DEF InFlightOK
  <2>2. CASE parked'[q] = << >>
    BY <2>2
  <2>3. CASE parked[q] # << >> /\ parked'[q] = Tail(parked[q])
    <3>1. parked[q] \in Seq(Nat)
      BY DEF TypeOK
    <3>2. i + 1 \in DOMAIN parked[q] /\ parked'[q][i] = parked[q][i + 1]
      <4>1. Len(parked[q]) \in Nat /\ i \in 1..(Len(parked[q]) - 1)
        BY <2>3, <3>1
      <4>2. i + 1 \in 1..Len(parked[q])
        BY <4>1
      <4> QED
        BY <2>3, <3>1, <4>1, <4>2
    <3> QED
      BY <3>2 DEF InFlightOK
  <2> QED
    BY <2>1, <2>2, <2>3
<1> QED
  BY <1>1, <1>2 DEF InFlightOK

LEMMA InFlightTake ==
    ASSUME TypeOK, InFlightOK, UNCHANGED <<log, senderVars, fresh>>, NEW p \in Pulls, Take(p)
    PROVE  InFlightOK'
<1>1. \A q \in Pulls \ {p} : parked'[q] = parked[q]
  BY DEF Take, TypeOK
<1>2. \/ parked'[p] = parked[p]
      \/ parked[p] # << >> /\ parked'[p] = Tail(parked[p])
  BY DEF Take, TypeOK
<1> QED
  BY <1>1, <1>2, InFlightStream

LEMMA InFlightKept ==
    ASSUME InFlightOK, UNCHANGED <<log, senderVars, fresh, parked>>
    PROVE  InFlightOK'
BY DEF InFlightOK, Ids, senderVars

LEMMA InFlightStreaming ==
    ASSUME TypeOK, InFlightOK, NEW p \in Pulls, Streaming(p)
    PROVE  InFlightOK'
<1>1. CASE TakeSnapshot(p) \/ DeliverStored(p) \/ GoLive(p)
  BY <1>1, InFlightKept DEF TakeSnapshot, DeliverStored, GoLive, chanVars
<1>2. CASE Receive(p)
  BY <1>2, InFlightTake DEF Receive
<1> QED
  BY <1>1, <1>2 DEF Streaming

LEMMA InFlightEnding ==
    ASSUME TypeOK, InFlightOK, NEW p \in Pulls, Ending(p)
    PROVE  InFlightOK'
<1>1. CASE SendFailsStored(p) \/ NoticeDone(p) \/ RemoveSubscription(p)
  BY <1>1, InFlightKept DEF SendFailsStored, NoticeDone, RemoveSubscription, chanVars
<1>2. CASE SendFailsLive(p)
  BY <1>2, InFlightTake DEF SendFailsLive
<1>3. CASE Cancel(p)
  <2>1. (\A q \in Pulls \ {p} : parked'[q] = parked[q]) /\ parked'[p] = << >>
    BY <1>3 DEF Cancel, TypeOK
  <2> QED
    BY <1>3, <2>1, InFlightStream DEF Cancel
<1> QED
  BY <1>1, <1>2, <1>3 DEF Ending

LEMMA InFlightNext == TypeOK /\ InFlightOK /\ [Next]_vars => InFlightOK'
<1> SUFFICES ASSUME TypeOK, InFlightOK, [Next]_vars PROVE InFlightOK'
  OBVIOUS
<1>1. ASSUME NEW t \in Senders, NEW c \in Conversations, Save(t, c) PROVE InFlightOK'
  BY <1>1, InFlightSave
<1>2. ASSUME NEW t \in Senders, Broadcasting(t) PROVE InFlightOK'
  BY <1>2, InFlightBroadcasting
<1>3. ASSUME NEW g \in fresh, Overflowing(g) PROVE InFlightOK'
  BY <1>3, InFlightOverflowing
<1>4. ASSUME NEW p \in Pulls, NEW id \in Markers, NEW F \in Filters, Subscribe(p, id, F)
      PROVE  InFlightOK'
  BY <1>4, InFlightKept DEF Subscribe, chanVars
<1>5. ASSUME NEW p \in Pulls, Streaming(p) PROVE InFlightOK'
  BY <1>5, InFlightStreaming
<1>6. ASSUME NEW p \in Pulls, Ending(p) PROVE InFlightOK'
  BY <1>6, InFlightEnding
<1>7. CASE UNCHANGED vars
  BY <1>7, InFlightKept DEF vars, chanVars
<1> QED
  BY <1>1, <1>2, <1>3, <1>4, <1>5, <1>6, <1>7 DEF Next
-------------------------------------------------------------------------------
(* Every stream is sound, after every step.                                *)

SameStream(q) == /\ stage'[q] = stage[q] /\ since'[q] = since[q] /\ filter'[q] = filter[q]
                 /\ ch'[q] = ch[q] /\ order'[q] = order[q]
                 /\ snapshot'[q] = snapshot[q] /\ lastSent'[q] = lastSent[q] /\ sent'[q] = sent[q]

LEMMA StreamTypes ==
    ASSUME TypeOK, NEW p \in Pulls
    PROVE  /\ log \in Seq(Conversations) /\ Len(log) \in Nat
           /\ since[p] \in Nat /\ lastSent[p] \in Nat
           /\ ch[p] \in Seq(Nat) /\ order[p] \in Seq(Nat) /\ parked[p] \in Seq(Nat)
           /\ snapshot[p] \in Seq(Nat) /\ sent[p] \in Seq(Nat)
BY DEF TypeOK

LEMMA StreamsKept ==
    ASSUME StreamsOK, UNCHANGED <<log, streamVars, ch, order, pullVars>>
    PROVE  StreamsOK'
BY DEF StreamsOK, StreamOK, streamVars, pullVars

LEMMA OneStream ==
    ASSUME StreamsOK, log' = log, NEW p \in Pulls,
           \A q \in Pulls \ {p} : SameStream(q), StreamOK(p)'
    PROVE  StreamsOK'
<1> SUFFICES ASSUME NEW q \in Pulls PROVE StreamOK(q)'
  BY DEF StreamsOK
<1>1. CASE q = p
  BY <1>1
<1>2. CASE q # p
  <2>1. SameStream(q) /\ StreamOK(q)
    BY <1>2 DEF StreamsOK
  <2> QED
    BY <2>1 DEF SameStream, StreamOK
<1> QED
  BY <1>1, <1>2

LEMMA StreamsSave ==
    ASSUME TypeOK, StreamsOK, NEW t \in Senders, NEW conv \in Conversations, Save(t, conv)
    PROVE  StreamsOK'
<1> SUFFICES ASSUME NEW p \in Pulls PROVE StreamOK(p)'
  BY DEF StreamsOK
<1>1. StreamOK(p)
  BY DEF StreamsOK
<1>2. /\ log' = Append(log, conv)
      /\ UNCHANGED <<stage, since, filter, ch, order, snapshot, lastSent, sent>>
  BY DEF Save, streamVars, chanVars, pullVars
<1>3. /\ SentOK(Len(Append(log, conv)), stage[p], since[p], lastSent[p], sent[p])
      /\ ChannelOK(Len(Append(log, conv)), stage[p], ch[p], order[p])
      /\ HistoryOK(Append(log, conv), stage[p], since[p], filter[p], snapshot[p], lastSent[p], sent[p])
      /\ LiveOK(Append(log, conv), stage[p], since[p], filter[p], ch[p], order[p], lastSent[p], sent[p])
  BY <1>1, StreamTypes, LogGrows DEF StreamOK
<1> QED
  BY <1>2, <1>3 DEF StreamOK

LEMMA StreamsPut ==
    ASSUME TypeOK, StreamsOK, NEW p \in Pulls, NEW id \in Ids, Put(p, id),
           UNCHANGED <<log, streamVars, pullVars>>
    PROVE  StreamsOK'
<1>1. StreamOK(p) /\ id \in 1..Len(log)
  BY DEF StreamsOK, Ids
<1>2. /\ ch'[p] = Append(ch[p], id) /\ order'[p] = Append(order[p], id)
      /\ UNCHANGED <<log, stage, since, filter, snapshot, lastSent, sent>>
  BY DEF Put, TypeOK, streamVars, pullVars
<1>3. \A q \in Pulls \ {p} : SameStream(q)
  BY <1>2 DEF Put, TypeOK, SameStream
<1>4. ChannelOK(Len(log), stage[p], Append(ch[p], id), Append(order[p], id))
  BY <1>1, StreamTypes, ChannelPut DEF StreamOK
<1>5. LiveOK(log, stage[p], since[p], filter[p], Append(ch[p], id), Append(order[p], id),
             lastSent[p], sent[p])
  BY <1>1, StreamTypes, LivePut DEF StreamOK
<1>6. StreamOK(p)'
  BY <1>1, <1>2, <1>4, <1>5 DEF StreamOK
<1> QED
  BY <1>2, <1>3, <1>6, OneStream

LEMMA StreamsBroadcasting ==
    ASSUME TypeOK, InFlightOK, StreamsOK, NEW t \in Senders, Broadcasting(t)
    PROVE  StreamsOK'
<1>1. ASSUME NEW p \in Pulls, Enqueue(t, p) PROVE StreamsOK'
  <2>1. rec[t] \in Ids
    BY <1>1 DEF Enqueue, Offered, InFlightOK
  <2> QED
    BY <1>1, <2>1, StreamsPut DEF Enqueue
<1>2. ASSUME NEW p \in Pulls, SpawnOverflow(t, p) PROVE StreamsOK'
  BY <1>2, StreamsKept DEF SpawnOverflow
<1>3. CASE CopySubs(t) \/ SendReturn(t) \/ \E p \in Pulls : Skip(t, p) \/ SendPanics(t, p)
  BY <1>3, StreamsKept DEF CopySubs, SendReturn, Skip, SendPanics, chanVars
<1> QED
  BY <1>1, <1>2, <1>3 DEF Broadcasting

LEMMA StreamsOverflowing ==
    ASSUME TypeOK, InFlightOK, StreamsOK, NEW g \in fresh, Overflowing(g)
    PROVE  StreamsOK'
<1>1. CASE OverflowSend(g)
  <2>1. g.sub \in Pulls /\ g.id \in Ids
    BY DEF InFlightOK, TypeOK, Goroutine
  <2> QED
    BY <1>1, <2>1, StreamsPut DEF OverflowSend
<1>2. CASE OverflowPark(g) \/ OverflowGiveUp(g) \/ OverflowPanics(g)
  BY <1>2, StreamsKept DEF OverflowPark, OverflowGiveUp, OverflowPanics, chanVars
<1> QED
  BY <1>1, <1>2 DEF Overflowing

LEMMA StreamsSubscribe ==
    ASSUME TypeOK, StreamsOK, NEW p \in Pulls, NEW id \in Markers, NEW F \in Filters,
           Subscribe(p, id, F)
    PROVE  StreamsOK'
<1>1. StreamOK(p) /\ stage[p] = "off"
  BY DEF StreamsOK, Subscribe
<1>2. /\ stage'[p] = "subscribed" /\ since'[p] = id /\ lastSent'[p] = id /\ filter'[p] = F
      /\ UNCHANGED <<log, ch, order, snapshot, sent>>
  BY DEF Subscribe, TypeOK, chanVars
<1>3. \A q \in Pulls \ {p} : SameStream(q)
  BY <1>2 DEF Subscribe, TypeOK, SameStream
<1>4. SentOK(Len(log), "subscribed", id, id, sent[p])
  <2>1. sent[p] = << >>
    BY <1>1 DEF StreamOK, SentOK
  <2> QED
    BY <2>1 DEF SentOK, Ascending
<1>5. ChannelOK(Len(log), "subscribed", ch[p], order[p])
  BY <1>1 DEF StreamOK, ChannelOK
<1>6. /\ HistoryOK(log, "subscribed", id, F, snapshot[p], id, sent[p])
      /\ LiveOK(log, "subscribed", id, F, ch[p], order[p], id, sent[p])
  BY DEF HistoryOK, LiveOK
<1>7. StreamOK(p)'
  BY <1>2, <1>4, <1>5, <1>6 DEF StreamOK
<1> QED
  BY <1>2, <1>3, <1>7, OneStream

LEMMA StreamsTakeSnapshot ==
    ASSUME TypeOK, StreamsOK, NEW p \in Pulls, TakeSnapshot(p)
    PROVE  StreamsOK'
<1>1. StreamOK(p) /\ stage[p] = "subscribed"
  BY DEF StreamsOK, TakeSnapshot
<1>2. /\ stage'[p] = "history" /\ snapshot'[p] = StoredSince(since[p])
      /\ UNCHANGED <<log, since, filter, ch, order, lastSent, sent>>
  BY DEF TakeSnapshot, TypeOK, chanVars
<1>3. \A q \in Pulls \ {p} : SameStream(q)
  BY <1>2 DEF TakeSnapshot, TypeOK, SameStream
<1>4. sent[p] = << >> /\ lastSent[p] = since[p]
  BY <1>1 DEF StreamOK, SentOK
<1>5. SentOK(Len(log), "history", since[p], lastSent[p], sent[p])
  BY <1>1 DEF StreamOK, SentOK
<1>6. ChannelOK(Len(log), "history", ch[p], order[p])
  BY <1>1 DEF StreamOK, ChannelOK
<1>7. HistoryOK(log, "history", since[p], filter[p], StoredSince(since[p]), lastSent[p], sent[p])
  <2>1. HistoryOK(log, "history", since[p], filter[p], StoredSince(since[p]), since[p], << >>)
    BY StreamTypes, HistoryTaken DEF StoredSince
  <2> QED
    BY <1>4, <2>1
<1>8. LiveOK(log, "history", since[p], filter[p], ch[p], order[p], lastSent[p], sent[p])
  BY DEF LiveOK
<1>9. StreamOK(p)'
  BY <1>2, <1>5, <1>6, <1>7, <1>8 DEF StreamOK
<1> QED
  BY <1>2, <1>3, <1>9, OneStream

(* A record above lastSent is sent.                                        *)
LEMMA SentDelivered ==
    ASSUME TypeOK, NEW p \in Pulls, NEW id \in Nat, id > lastSent[p], id \in 1..Len(log),
           stage[p] \notin {"off", "subscribed"},
           SentOK(Len(log), stage[p], since[p], lastSent[p], sent[p])
    PROVE  /\ SentOK(Len(log), stage[p], since[p], id, Append(sent[p], id))
           /\ Within(Append(sent[p], id), id)
           /\ \A x : Within(sent[p], x) => Within(Append(sent[p], id), x)
<1>1. Ascending(sent[p]) /\ \A i \in DOMAIN sent[p] : sent[p][i] <= lastSent[p]
  BY DEF SentOK
<1>2. sent[p] \in Seq(Nat) /\ lastSent[p] \in Nat
  BY DEF TypeOK
<1>3. /\ Ascending(Append(sent[p], id))
      /\ \A i \in DOMAIN Append(sent[p], id) : Append(sent[p], id)[i] <= id
      /\ Within(Append(sent[p], id), id)
      /\ \A x : Within(sent[p], x) => Within(Append(sent[p], id), x)
  BY <1>1, <1>2, SentGrows
<1>4. SentOK(Len(log), stage[p], since[p], id, Append(sent[p], id))
  BY <1>3, Zenon DEF SentOK
<1> QED
  BY <1>3, <1>4
LEMMA StreamsDeliverStored ==
    ASSUME TypeOK, StreamsOK, NEW p \in Pulls, DeliverStored(p)
    PROVE  StreamsOK'
<1> DEFINE h == Head(snapshot[p])
<1>1. StreamOK(p) /\ stage[p] = "history" /\ snapshot[p] # << >>
  BY DEF StreamsOK, DeliverStored
<1>2. /\ snapshot'[p] = Tail(snapshot[p])
      /\ UNCHANGED <<log, stage, since, filter, ch, order>>
      /\ IF log[h] \in filter[p] THEN Deliver(p, h) ELSE PassOver
  BY DEF DeliverStored, TypeOK, chanVars, streamVars, matches
<1>3. \A q \in Pulls \ {p} : SameStream(q)
  BY <1>2 DEF DeliverStored, Deliver, PassOver, TypeOK, SameStream
<1>4. h \in 1..Len(log) /\ h > lastSent[p] /\ h \in Nat
  <2>1. HistoryOK(log, "history", since[p], filter[p], snapshot[p], lastSent[p], sent[p])
    BY <1>1 DEF StreamOK
  <2>2. 1 \in DOMAIN snapshot[p] /\ h = snapshot[p][1]
    BY <1>1, StreamTypes
  <2> QED
    BY <2>1, <2>2 DEF HistoryOK
<1>5. SentOK(Len(log), stage[p], since[p], lastSent[p], sent[p])
  BY <1>1 DEF StreamOK
<1> HIDE DEF h
<1>6. /\ SentOK(Len(log), stage[p], since[p], lastSent'[p], sent'[p])
      /\ \A x : Within(sent[p], x) => Within(sent'[p], x)
      /\ lastSent'[p] \in Nat
      /\ IF log[h] \in filter[p] THEN lastSent'[p] = h /\ Within(sent'[p], h)
                                 ELSE lastSent'[p] = lastSent[p]
  <2>1. CASE log[h] \in filter[p]
    <3>1. sent'[p] = Append(sent[p], h) /\ lastSent'[p] = h
      BY <1>2, <1>4, <2>1 DEF Deliver, TypeOK
    <3>2. stage[p] \notin {"off", "subscribed"}
      BY <1>1
    <3>3. /\ SentOK(Len(log), stage[p], since[p], h, Append(sent[p], h))
          /\ Within(Append(sent[p], h), h)
          /\ \A x : Within(sent[p], x) => Within(Append(sent[p], h), x)
      BY <1>4, <1>5, <3>2, SentDelivered
    <3> QED
      BY <1>4, <2>1, <3>1, <3>3
  <2>2. CASE log[h] \notin filter[p]
    <3>1. UNCHANGED <<sent, lastSent>>
      BY <1>2, <2>2 DEF PassOver
    <3> QED
      BY <1>5, <2>2, <3>1, StreamTypes
  <2> QED
    BY <2>1, <2>2
<1>7. HistoryOK(log, "history", since[p], filter[p], Tail(snapshot[p]), lastSent'[p], sent'[p])
  <2>1. HistoryOK(log, "history", since[p], filter[p], snapshot[p], lastSent[p], sent[p])
    BY <1>1 DEF StreamOK
  <2> QED
    BY <1>1, <1>6, <2>1, StreamTypes, HistoryGoesOn DEF h
<1>8. ChannelOK(Len(log), stage[p], ch[p], order[p])
  BY <1>1 DEF StreamOK
<1>9. LiveOK(log, stage[p], since[p], filter[p], ch[p], order[p], lastSent'[p], sent'[p])
  BY <1>1 DEF LiveOK
<1>10. StreamOK(p)'
  BY <1>1, <1>2, <1>6, <1>7, <1>8, <1>9 DEF StreamOK
<1> QED
  BY <1>2, <1>3, <1>10, OneStream

LEMMA StreamsGoLive ==
    ASSUME TypeOK, StreamsOK, NEW p \in Pulls, GoLive(p)
    PROVE  StreamsOK'
<1>1. StreamOK(p) /\ stage[p] = "history" /\ snapshot[p] = << >>
  BY DEF StreamsOK, GoLive
<1>2. stage'[p] = "live" /\ UNCHANGED <<log, since, filter, ch, order, snapshot, lastSent, sent>>
  BY DEF GoLive, TypeOK, chanVars, pullVars
<1>3. \A q \in Pulls \ {p} : SameStream(q)
  BY <1>2 DEF GoLive, TypeOK, SameStream
<1>4. /\ ChannelOK(Len(log), "live", ch[p], order[p])
      /\ LiveOK(log, "live", since[p], filter[p], ch[p], order[p], lastSent[p], sent[p])
  <2>1. /\ HistoryOK(log, "history", since[p], filter[p], << >>, lastSent[p], sent[p])
        /\ ChannelOK(Len(log), "history", ch[p], order[p])
    BY <1>1 DEF StreamOK
  <2> QED
    BY <2>1, StreamTypes, HistoryEnds
<1>5. SentOK(Len(log), "live", since[p], lastSent[p], sent[p])
  BY <1>1 DEF StreamOK, SentOK
<1>6. HistoryOK(log, "live", since[p], filter[p], snapshot[p], lastSent[p], sent[p])
  BY DEF HistoryOK
<1>7. StreamOK(p)'
  BY <1>2, <1>4, <1>5, <1>6 DEF StreamOK
<1> QED
  BY <1>2, <1>3, <1>7, OneStream

(* A receive may let a parked sender's envelope enter the channel.         *)
LEMMA TakeChannel ==
    ASSUME TypeOK, InFlightOK, NEW p \in Pulls, ch[p] # << >>, Take(p),
           NEW st, ChannelOK(Len(log), st, Tail(ch[p]), order[p])
    PROVE  ChannelOK(Len(log), st, ch'[p], order'[p])
<1>1. Tail(ch[p]) \in Seq(Nat) /\ order[p] \in Seq(Nat) /\ parked[p] \in Seq(Nat) /\ Len(log) \in Nat
  BY DEF TypeOK
<1>2. CASE parked[p] = << >>
  BY <1>2 DEF Take, TypeOK
<1>3. CASE parked[p] # << >>
  <2> DEFINE id == Head(parked[p])
  <2>1. 1 \in DOMAIN parked[p] /\ id = parked[p][1]
    BY <1>1, <1>3
  <2>2. id \in 1..Len(log)
    BY <2>1 DEF InFlightOK, Ids
  <2>3. ch'[p] = Append(Tail(ch[p]), id) /\ order'[p] = Append(order[p], id)
    BY <1>3 DEF Take, TypeOK
  <2> HIDE DEF id
  <2> QED
    BY <1>1, <2>2, <2>3, ChannelPut
<1> QED
  BY <1>2, <1>3

LEMMA TakeLive ==
    ASSUME TypeOK, InFlightOK, NEW p \in Pulls, ch[p] # << >>, Take(p),
           NEW st, NEW la \in Nat, NEW se,
           ChannelOK(Len(log), st, Tail(ch[p]), order[p]),
           LiveOK(log, st, since[p], filter[p], Tail(ch[p]), order[p], la, se)
    PROVE  LiveOK(log, st, since[p], filter[p], ch'[p], order'[p], la, se)
<1>1. /\ Tail(ch[p]) \in Seq(Nat) /\ order[p] \in Seq(Nat) /\ parked[p] \in Seq(Nat)
      /\ log \in Seq(Conversations) /\ since[p] \in Nat
  BY DEF TypeOK
<1>2. CASE parked[p] = << >>
  BY <1>2 DEF Take, TypeOK
<1>3. CASE parked[p] # << >>
  <2> DEFINE id == Head(parked[p])
  <2>1. 1 \in DOMAIN parked[p] /\ id = parked[p][1]
    BY <1>1, <1>3
  <2>2. id \in 1..Len(log)
    BY <2>1 DEF InFlightOK, Ids
  <2>3. ch'[p] = Append(Tail(ch[p]), id) /\ order'[p] = Append(order[p], id)
    BY <1>3 DEF Take, TypeOK
  <2> HIDE DEF id
  <2> QED
    BY <1>1, <2>2, <2>3, LivePut
<1> QED
  BY <1>2, <1>3

LEMMA StreamsReceive ==
    ASSUME TypeOK, InFlightOK, StreamsOK, NEW p \in Pulls, Receive(p)
    PROVE  StreamsOK'
<1> DEFINE h == Head(ch[p])
<1>1. StreamOK(p) /\ stage[p] = "live" /\ ch[p] # << >> /\ Take(p)
  BY DEF StreamsOK, Receive
<1>2. /\ UNCHANGED <<log, stage, since, filter, snapshot>>
      /\ IF h > lastSent[p] /\ log[h] \in filter[p] THEN Deliver(p, h) ELSE PassOver
  BY DEF Receive, streamVars, Fresher, matches
<1>3. \A q \in Pulls \ {p} : SameStream(q)
  <2>1. \A q \in Pulls \ {p} : sent'[q] = sent[q] /\ lastSent'[q] = lastSent[q]
    BY <1>2 DEF Deliver, PassOver, TypeOK
  <2>2. \A q \in Pulls \ {p} : ch'[q] = ch[q] /\ order'[q] = order[q]
    BY <1>1 DEF Take, TypeOK
  <2> QED
    BY <1>2, <2>1, <2>2 DEF SameStream
<1>4. /\ SentOK(Len(log), "live", since[p], lastSent[p], sent[p])
      /\ ChannelOK(Len(log), "live", ch[p], order[p])
      /\ LiveOK(log, "live", since[p], filter[p], ch[p], order[p], lastSent[p], sent[p])
  BY <1>1 DEF StreamOK
<1>5. ChannelOK(Len(log), "live", Tail(ch[p]), order[p]) /\ h \in 1..Len(log) /\ h \in Nat
  <2>1. "live" \notin {"off", "subscribed", "history"}
    OBVIOUS
  <2>2. /\ ch[p] \in Seq(Nat) /\ order[p] \in Seq(Nat) /\ Len(log) \in Nat
        /\ ch[p] # << >> /\ ChannelOK(Len(log), "live", ch[p], order[p])
    BY <1>1, <1>4, StreamTypes
  <2>3. ChannelOK(Len(log), "live", Tail(ch[p]), order[p]) /\ Head(ch[p]) \in 1..Len(log)
    BY <2>1, <2>2, ChannelTail
  <2> QED
    BY <2>2, <2>3
<1> HIDE DEF h
<1>6. /\ SentOK(Len(log), "live", since[p], lastSent'[p], sent'[p])
      /\ \A x : Within(sent[p], x) => Within(sent'[p], x)
      /\ lastSent'[p] \in Nat
      /\ IF h > lastSent[p] /\ log[h] \in filter[p] THEN lastSent'[p] = h /\ Within(sent'[p], h)
                                                    ELSE lastSent'[p] = lastSent[p]
  <2>1. CASE h > lastSent[p] /\ log[h] \in filter[p]
    <3>1. sent'[p] = Append(sent[p], h) /\ lastSent'[p] = h
      BY <1>2, <2>1 DEF Deliver, TypeOK
    <3>2. stage[p] \notin {"off", "subscribed"}
      BY <1>1
    <3>3. /\ SentOK(Len(log), stage[p], since[p], h, Append(sent[p], h))
          /\ Within(Append(sent[p], h), h)
          /\ \A x : Within(sent[p], x) => Within(Append(sent[p], h), x)
      BY <1>1, <1>4, <1>5, <2>1, <3>2, SentDelivered
    <3> QED
      BY <1>1, <1>5, <2>1, <3>1, <3>3
  <2>2. CASE ~(h > lastSent[p] /\ log[h] \in filter[p])
    <3>1. UNCHANGED <<sent, lastSent>>
      BY <1>2, <2>2 DEF PassOver
    <3> QED
      BY <1>4, <2>2, <3>1, StreamTypes
  <2> QED
    BY <2>1, <2>2
<1>7. LiveOK(log, "live", since[p], filter[p], Tail(ch[p]), order[p], lastSent'[p], sent'[p])
  BY <1>1, <1>4, <1>6, StreamTypes, LiveReceive DEF h
<1>8. /\ ChannelOK(Len(log), "live", ch'[p], order'[p])
      /\ LiveOK(log, "live", since[p], filter[p], ch'[p], order'[p], lastSent'[p], sent'[p])
  BY <1>1, <1>5, <1>6, <1>7, TakeChannel, TakeLive
<1>9. HistoryOK(log, "live", since[p], filter[p], snapshot[p], lastSent'[p], sent'[p])
  BY DEF HistoryOK
<1>10. StreamOK(p)'
  BY <1>1, <1>2, <1>6, <1>8, <1>9 DEF StreamOK
<1> QED
  BY <1>2, <1>3, <1>10, OneStream

LEMMA StreamsStreaming ==
    ASSUME TypeOK, InFlightOK, StreamsOK, NEW p \in Pulls, Streaming(p)
    PROVE  StreamsOK'
BY StreamsTakeSnapshot, StreamsDeliverStored, StreamsGoLive, StreamsReceive DEF Streaming

(* A stream that ends keeps what it sent and what entered its channel.     *)
LEMMA StreamStops ==
    ASSUME TypeOK, StreamsOK, NEW p \in Pulls, log' = log, \A q \in Pulls \ {p} : SameStream(q),
           stage[p] # "off", stage'[p] \in {"returning", "ended"},
           since'[p] = since[p], lastSent'[p] = lastSent[p], sent'[p] = sent[p],
           ChannelOK(Len(log), "live", ch'[p], order'[p])
                \/ ChannelOK(Len(log), stage[p], ch'[p], order'[p])
    PROVE  StreamsOK'
<1>1. StreamOK(p)
  BY DEF StreamsOK
<1>2. stage'[p] \notin {"off", "subscribed", "history", "live"}
  OBVIOUS
<1>3. SentOK(Len(log), stage'[p], since[p], lastSent[p], sent[p])
  BY <1>1, <1>2 DEF StreamOK, SentOK
<1>4. ChannelOK(Len(log), stage'[p], ch'[p], order'[p])
  BY <1>2 DEF ChannelOK
<1>5. /\ HistoryOK(log, stage'[p], since[p], filter'[p], snapshot'[p], lastSent[p], sent[p])
      /\ LiveOK(log, stage'[p], since[p], filter'[p], ch'[p], order'[p], lastSent[p], sent[p])
  BY <1>2 DEF HistoryOK, LiveOK
<1>6. StreamOK(p)'
  BY <1>3, <1>4, <1>5 DEF StreamOK
<1> QED
  BY <1>6, OneStream

LEMMA StreamsEnding ==
    ASSUME TypeOK, InFlightOK, StreamsOK, NEW p \in Pulls, Ending(p)
    PROVE  StreamsOK'
<1>1. ChannelOK(Len(log), stage[p], ch[p], order[p])
  BY DEF StreamsOK, StreamOK
<1>2. CASE SendFailsStored(p) \/ NoticeDone(p) \/ RemoveSubscription(p)
  <2>1. /\ UNCHANGED <<log, since, filter, ch, order, snapshot, lastSent, sent>>
        /\ stage[p] # "off" /\ stage'[p] \in {"returning", "ended"}
        /\ \A q \in Pulls \ {p} : stage'[q] = stage[q]
    BY <1>2 DEF SendFailsStored, NoticeDone, RemoveSubscription, Return, TypeOK, chanVars, pullVars
  <2>2. \A q \in Pulls \ {p} : SameStream(q)
    BY <2>1 DEF SameStream
  <2> QED
    BY <1>1, <2>1, <2>2, StreamStops
<1>3. CASE SendFailsLive(p)
  <2>1. /\ UNCHANGED <<log, since, filter, snapshot, lastSent, sent>>
        /\ stage[p] = "live" /\ stage'[p] = "returning" /\ ch[p] # << >> /\ Take(p)
        /\ \A q \in Pulls \ {p} : stage'[q] = stage[q]
    BY <1>3 DEF SendFailsLive, Return, TypeOK, pullVars
  <2>2. \A q \in Pulls \ {p} : ch'[q] = ch[q] /\ order'[q] = order[q]
    BY <2>1 DEF Take, TypeOK
  <2>3. \A q \in Pulls \ {p} : SameStream(q)
    BY <2>1, <2>2 DEF SameStream
  <2>4. ChannelOK(Len(log), "live", Tail(ch[p]), order[p])
    BY <1>1, <2>1, StreamTypes, ChannelTail
  <2>5. ChannelOK(Len(log), "live", ch'[p], order'[p])
    BY <2>1, <2>4, TakeChannel
  <2> QED
    BY <2>1, <2>3, <2>5, StreamStops
<1>4. CASE Cancel(p)
  BY <1>4, StreamsKept DEF Cancel
<1> QED
  BY <1>2, <1>3, <1>4 DEF Ending

LEMMA StreamsNext == IInv /\ [Next]_vars => StreamsOK'
<1> SUFFICES ASSUME TypeOK, InFlightOK, StreamsOK, [Next]_vars PROVE StreamsOK'
  BY DEF IInv
<1>1. ASSUME NEW t \in Senders, NEW c \in Conversations, Save(t, c) PROVE StreamsOK'
  BY <1>1, StreamsSave
<1>2. ASSUME NEW t \in Senders, Broadcasting(t) PROVE StreamsOK'
  BY <1>2, StreamsBroadcasting
<1>3. ASSUME NEW g \in fresh, Overflowing(g) PROVE StreamsOK'
  BY <1>3, StreamsOverflowing
<1>4. ASSUME NEW p \in Pulls, NEW id \in Markers, NEW F \in Filters, Subscribe(p, id, F)
      PROVE  StreamsOK'
  BY <1>4, StreamsSubscribe
<1>5. ASSUME NEW p \in Pulls, Streaming(p) PROVE StreamsOK'
  BY <1>5, StreamsStreaming
<1>6. ASSUME NEW p \in Pulls, Ending(p) PROVE StreamsOK'
  BY <1>6, StreamsEnding
<1>7. CASE UNCHANGED vars
  BY <1>7, StreamsKept DEF vars, chanVars
<1> QED
  BY <1>1, <1>2, <1>3, <1>4, <1>5, <1>6, <1>7 DEF Next

-------------------------------------------------------------------------------
LEMMA InvInit == Init => IInv
<1> SUFFICES ASSUME Init PROVE IInv
  OBVIOUS
<1>1. TypeOK
  BY TypeInit
<1>2. InFlightOK
  BY DEF Init, InFlightOK
<1>3. StreamsOK
  <2> SUFFICES ASSUME NEW p \in Pulls PROVE StreamOK(p)
    BY DEF StreamsOK
  <2>1. /\ log = << >> /\ stage[p] = "off" /\ since[p] = 0 /\ lastSent[p] = 0
        /\ ch[p] = << >> /\ order[p] = << >> /\ sent[p] = << >>
    BY DEF Init
  <2>2. SentOK(Len(log), stage[p], since[p], lastSent[p], sent[p])
    BY <2>1 DEF SentOK, Ascending
  <2>3. ChannelOK(Len(log), stage[p], ch[p], order[p])
    BY <2>1 DEF ChannelOK, Received
  <2>4. /\ HistoryOK(log, stage[p], since[p], filter[p], snapshot[p], lastSent[p], sent[p])
        /\ LiveOK(log, stage[p], since[p], filter[p], ch[p], order[p], lastSent[p], sent[p])
    BY <2>1 DEF HistoryOK, LiveOK
  <2> QED
    BY <2>2, <2>3, <2>4 DEF StreamOK
<1> QED
  BY <1>1, <1>2, <1>3 DEF IInv

(* Everything stored is sent, passed over, overtaken or still on its way,  *)
(* in every reachable state.                                               *)
THEOREM Invariance == Spec => []IInv
<1>1. Init => IInv
  BY InvInit
<1>2. IInv /\ [Next]_vars => IInv'
  BY TypeNext, InFlightNext, StreamsNext DEF IInv
<1> QED
  BY <1>1, <1>2, PTL DEF Spec

(* The promise of Pull's lastSent (service.go): a stream carries           *)
(* identifiers in increasing order, none twice, whatever overlaps between  *)
(* the history and the channel and however broadcasts overtake each other. *)
THEOREM InOrder == Spec => []InOrderWithoutDuplicates
<1>1. IInv => InOrderWithoutDuplicates
  BY DEF IInv, StreamsOK, StreamOK, SentOK, Ascending, InOrderWithoutDuplicates
<1> QED
  BY <1>1, Invariance, PTL

-------------------------------------------------------------------------------
(* Delivery: where an envelope is that a stream has not been sent.         *)

SubscribedOK(p) == stage[p] \in {"subscribed", "history", "live"} => p \in subs

Coming(p, id) == \E t \in Senders : rec[t] = id /\ (pc[t] = "aborted" \/ Pending(t, p))

Overflowed(p, id) == Within(parked[p], id) \/ [sub |-> p, id |-> id] \in fresh

Reached(p, id) == \/ Within(sent[p], id)
                  \/ Within(order[p], id)
                  \/ stage[p] = "history" /\ Within(snapshot[p], id)
                  \/ Overflowed(p, id)
                  \/ Coming(p, id)

Reading(p) == stage[p] \in {"history", "live"} /\ ~ctxDone[p]

(* What the stream asked for is sent, in the copy of the history, through  *)
(* the channel, in an overflow goroutine or in a sender's hand.            *)
ReachedOK(p) == Reading(p) => \A id \in Ids : Asked(log, since[p], filter[p], id) => Reached(p, id)

DeliveryOK == \A p \in Pulls : SubscribedOK(p) /\ ReachedOK(p)

LEMMA WithinAppend ==
    ASSUME NEW se \in Seq(Nat), NEW e \in Nat
    PROVE  \A x : Within(Append(se, e), x) <=> Within(se, x) \/ x = e
<1> DEFINE s == Append(se, e)
<1>1. /\ DOMAIN se = 1..Len(se) /\ DOMAIN s = 1..(Len(se) + 1) /\ Len(se) \in Nat
      /\ \A i \in 1..Len(se) : s[i] = se[i]
      /\ s[Len(se) + 1] = e
  OBVIOUS
<1> HIDE DEF s
<1>2. \A i \in 1..(Len(se) + 1) : i \in 1..Len(se) \/ i = Len(se) + 1
  BY <1>1
<1>3. \A i \in 1..Len(se) : i \in 1..(Len(se) + 1)
  BY <1>1
<1>4. Len(se) + 1 \in 1..(Len(se) + 1)
  BY <1>1
<1>5. \A x : Within(s, x) <=> Within(se, x) \/ x = e
  BY <1>1, <1>2, <1>3, <1>4 DEF Within
<1> QED
  BY <1>5 DEF s

LEMMA WithinTail ==
    ASSUME NEW se \in Seq(Nat), se # << >>
    PROVE  \A x : Within(se, x) => x = Head(se) \/ Within(Tail(se), x)
<1> SUFFICES ASSUME NEW i \in DOMAIN se, se[i] # Head(se) PROVE Within(Tail(se), se[i])
  BY DEF Within
<1>1. i \in 1..Len(se) /\ i # 1 /\ Len(se) \in Nat
  OBVIOUS
<1>2. i - 1 \in DOMAIN Tail(se) /\ Tail(se)[i - 1] = se[i]
  BY <1>1
<1> QED
  BY <1>2 DEF Within

(* A send on a channel.                                                    *)
LEMMA EntersOrder ==
    ASSUME TypeOK, NEW p \in Pulls, NEW id \in Nat, order' = [order EXCEPT ![p] = Append(@, id)]
    PROVE  /\ Within(order'[p], id)
           /\ \A q \in Pulls : \A x : Within(order[q], x) => Within(order'[q], x)
<1>1. order'[p] = Append(order[p], id) /\ \A q \in Pulls \ {p} : order'[q] = order[q]
  BY DEF TypeOK
<1>2. \A x : Within(Append(order[p], id), x) <=> Within(order[p], x) \/ x = id
  BY StreamTypes, WithinAppend
<1> QED
  BY <1>1, <1>2

LEMMA DeliverySave ==
    ASSUME TypeOK, DeliveryOK, NEW t \in Senders, NEW conv \in Conversations, Save(t, conv)
    PROVE  DeliveryOK'
<1>1. /\ log' = Append(log, conv) /\ pc[t] = "idle"
      /\ UNCHANGED <<todo, stage, since, filter, ctxDone, subs, order, fresh, parked, snapshot, sent>>
  BY DEF Save, streamVars, chanVars, pullVars
<1>2. /\ rec'[t] = Len(log) + 1 /\ pc'[t] = "saved"
      /\ \A s \in Senders \ {t} : rec'[s] = rec[s] /\ pc'[s] = pc[s]
  BY DEF Save, TypeOK
<1>3. Len(log) \in Nat /\ Len(log') = Len(log) + 1 /\ \A id \in 1..Len(log) : log'[id] = log[id]
  BY <1>1, StreamTypes DEF TypeOK
<1> SUFFICES ASSUME NEW p \in Pulls PROVE SubscribedOK(p)' /\ ReachedOK(p)'
  BY DEF DeliveryOK
<1>4. SubscribedOK(p)'
  BY <1>1 DEF DeliveryOK, SubscribedOK
<1>5. ASSUME Reading(p)', NEW id \in Ids', Asked(log', since'[p], filter'[p], id) PROVE Reached(p, id)'
  <2>1. CASE id = Len(log) + 1
    BY <1>2, <2>1 DEF Reached, Coming, Pending
  <2>2. CASE id # Len(log) + 1
    <3>1. id \in Ids
      BY <1>3, <2>2 DEF Ids
    <3>2. Reached(p, id)
      BY <1>1, <1>3, <1>5, <3>1 DEF DeliveryOK, ReachedOK, Reading, Asked, Ids
    <3>3. Coming(p, id) => Coming(p, id)'
      BY <1>1, <1>2 DEF Coming, Pending
    <3> QED
      BY <1>1, <3>2, <3>3 DEF Reached, Overflowed
  <2> QED
    BY <2>1, <2>2
<1> QED
  BY <1>4, <1>5 DEF ReachedOK

(* A sender goes on: what it had for a stream, it still has, or it has     *)
(* handed it over, or the stream does not want it.                         *)
LEMMA DeliverySends ==
    ASSUME DeliveryOK, NEW t \in Senders, pc[t] # "idle",
           UNCHANGED <<log, rec, stage, since, filter, ctxDone, subs, parked, snapshot, sent>>,
           \A s \in Senders \ {t} : pc'[s] = pc[s] /\ todo'[s] = todo[s],
           \A p \in Pulls : \A x : Within(order[p], x) => Within(order'[p], x),
           fresh \subseteq fresh',
           pc[t] = "aborted" => pc'[t] = "aborted",
           \A p \in Pulls : Pending(t, p) /\ p \in subs /\ ~ctxDone[p] /\ log[rec[t]] \in filter[p]
                               => \/ Pending(t, p)' \/ pc'[t] = "aborted"
                                  \/ Within(order'[p], rec[t])
                                  \/ [sub |-> p, id |-> rec[t]] \in fresh'
    PROVE  DeliveryOK'
<1> SUFFICES ASSUME NEW p \in Pulls PROVE SubscribedOK(p)' /\ ReachedOK(p)'
  BY DEF DeliveryOK
<1>1. SubscribedOK(p)'
  BY DEF DeliveryOK, SubscribedOK
<1>2. ASSUME Reading(p), NEW id \in Ids, Asked(log, since[p], filter[p], id) PROVE Reached(p, id)'
  <2>1. Reached(p, id)
    BY <1>2 DEF DeliveryOK, ReachedOK
  <2>2. p \in subs /\ ~ctxDone[p]
    BY <1>2 DEF DeliveryOK, SubscribedOK, Reading
  <2>3. ASSUME Coming(p, id) PROVE Reached(p, id)'
    <3>1. PICK s \in Senders : rec[s] = id /\ (pc[s] = "aborted" \/ Pending(s, p))
      BY <2>3 DEF Coming
    <3>2. CASE s # t
      <4>1. rec'[s] = id /\ (pc'[s] = "aborted" \/ Pending(s, p)')
        BY <3>1, <3>2 DEF Pending
      <4> QED
        BY <4>1 DEF Reached, Coming
    <3>3. CASE s = t
      <4>1. log[rec[t]] \in filter[p]
        BY <1>2, <3>1, <3>3 DEF Asked
      <4>2. \/ Pending(t, p)' \/ pc'[t] = "aborted"
            \/ Within(order'[p], id) \/ [sub |-> p, id |-> id] \in fresh'
        BY <2>2, <3>1, <3>3, <4>1
      <4> QED
        BY <3>1, <3>3, <4>2 DEF Reached, Coming, Overflowed
    <3> QED
      BY <3>2, <3>3
  <2>4. Overflowed(p, id) => Overflowed(p, id)'
    BY DEF Overflowed
  <2> QED
    BY <2>1, <2>3, <2>4 DEF Reached
<1>3. ReachedOK(p)'
  BY <1>2 DEF ReachedOK, Reading, Ids
<1> QED
  BY <1>1, <1>3

LEMMA DeliveryBroadcasting ==
    ASSUME TypeOK, DeliveryOK, NEW t \in Senders, Broadcasting(t)
    PROVE  DeliveryOK'
<1> USE DEF streamVars, chanVars, pullVars
<1>1. CASE CopySubs(t)
  <2>1. /\ pc[t] = "saved" /\ pc'[t] = "broadcast" /\ todo'[t] = subs
        /\ \A s \in Senders \ {t} : pc'[s] = pc[s] /\ todo'[s] = todo[s]
    BY <1>1 DEF CopySubs, TypeOK
  <2>2. \A p \in Pulls : p \in subs => Pending(t, p)'
    BY <2>1 DEF Pending
  <2> QED
    BY <1>1, <2>1, <2>2, DeliverySends DEF CopySubs
<1>2. ASSUME NEW q \in Pulls, Served(t, q), pc[t] = "broadcast", UNCHANGED pc
      PROVE  /\ \A s \in Senders \ {t} : pc'[s] = pc[s] /\ todo'[s] = todo[s]
             /\ \A p \in Pulls \ {q} : Pending(t, p) => Pending(t, p)'
  <2>1. todo'[t] = todo[t] \ {q} /\ \A s \in Senders \ {t} : todo'[s] = todo[s]
    BY <1>2 DEF Served, TypeOK
  <2> QED
    BY <1>2, <2>1 DEF Pending
<1>3. ASSUME NEW q \in Pulls, Skip(t, q) PROVE DeliveryOK'
  <2>1. pc[t] = "broadcast" /\ (log[rec[t]] \notin filter[q] \/ ctxDone[q])
    BY <1>3 DEF Skip, matches
  <2> QED
    BY <1>2, <1>3, <2>1, DeliverySends DEF Skip
<1>4. ASSUME NEW q \in Pulls, Enqueue(t, q) PROVE DeliveryOK'
  <2>1. pc[t] = "broadcast" /\ rec[t] \in Nat
    BY <1>4 DEF Enqueue, Offered, TypeOK
  <2>2. /\ Within(order'[q], rec[t])
        /\ \A p \in Pulls : \A x : Within(order[p], x) => Within(order'[p], x)
    BY <1>4, <2>1, EntersOrder DEF Enqueue, Put
  <2> QED
    BY <1>2, <1>4, <2>1, <2>2, DeliverySends DEF Enqueue
<1>5. ASSUME NEW q \in Pulls, SpawnOverflow(t, q) PROVE DeliveryOK'
  <2>1. pc[t] = "broadcast" /\ fresh \subseteq fresh' /\ [sub |-> q, id |-> rec[t]] \in fresh'
    BY <1>5 DEF SpawnOverflow, Offered
  <2> QED
    BY <1>2, <1>5, <2>1, DeliverySends DEF SpawnOverflow
<1>6. ASSUME NEW q \in Pulls, SendPanics(t, q) PROVE DeliveryOK'
  <2>1. /\ pc[t] = "broadcast" /\ todo' = todo /\ (pc'[t] = "aborted" \/ pc' = pc)
        /\ \A s \in Senders \ {t} : pc'[s] = pc[s]
    BY <1>6 DEF SendPanics, Offered, TypeOK
  <2>2. \A p \in Pulls : Pending(t, p) => Pending(t, p)' \/ pc'[t] = "aborted"
    BY <2>1 DEF Pending
  <2> QED
    BY <1>6, <2>1, <2>2, DeliverySends DEF SendPanics
<1>7. CASE SendReturn(t)
  <2>1. /\ pc[t] = "broadcast" /\ todo[t] = {} /\ todo' = todo
        /\ \A s \in Senders \ {t} : pc'[s] = pc[s]
    BY <1>7 DEF SendReturn, TypeOK
  <2>2. \A p \in Pulls : ~Pending(t, p)
    BY <2>1 DEF Pending
  <2> QED
    BY <1>7, <2>1, <2>2, DeliverySends DEF SendReturn
<1> QED
  BY <1>1, <1>3, <1>4, <1>5, <1>6, <1>7 DEF Broadcasting

(* One stream, or what is on its way to it, goes on.                       *)
LEMMA DeliveryStream ==
    ASSUME DeliveryOK, UNCHANGED <<log, senderVars>>,
           NEW p \in Pulls, SubscribedOK(p)', ReachedOK(p)',
           \A g \in fresh : g.sub # p => g \in fresh',
           \A q \in Pulls \ {p} : /\ stage'[q] = stage[q] /\ since'[q] = since[q]
                                  /\ filter'[q] = filter[q] /\ ctxDone'[q] = ctxDone[q]
                                  /\ snapshot'[q] = snapshot[q] /\ sent'[q] = sent[q]
                                  /\ order'[q] = order[q] /\ parked'[q] = parked[q]
                                  /\ q \in subs => q \in subs'
    PROVE  DeliveryOK'
<1> SUFFICES ASSUME NEW q \in Pulls, q # p PROVE SubscribedOK(q)' /\ ReachedOK(q)'
  BY DEF DeliveryOK
<1>1. SubscribedOK(q) /\ ReachedOK(q)
  BY DEF DeliveryOK
<1>2. \A id : [sub |-> q, id |-> id] \in fresh => [sub |-> q, id |-> id] \in fresh'
  OBVIOUS
<1>3. \A id : Reached(q, id) => Reached(q, id)'
  BY <1>2 DEF Reached, Overflowed, Coming, Pending, senderVars
<1> QED
  BY <1>1, <1>3 DEF SubscribedOK, ReachedOK, Reading, Ids

(* It has everything it had.                                               *)
LEMMA ReachedKept ==
    ASSUME NEW p \in Pulls, ReachedOK(p), Reading(p)' => Reading(p),
           log' = log, since'[p] = since[p], filter'[p] = filter[p],
           ASSUME Reading(p), NEW id \in Ids, Asked(log, since[p], filter[p], id), Reached(p, id)
           PROVE  Reached(p, id)'
    PROVE  ReachedOK(p)'
BY DEF ReachedOK, Ids

LEMMA DeliveryOverflowing ==
    ASSUME TypeOK, DeliveryOK, NEW g \in fresh, Overflowing(g)
    PROVE  DeliveryOK'
<1> USE DEF streamVars, chanVars, pullVars
<1>1. g.sub \in Pulls /\ g.id \in Nat /\ g = [sub |-> g.sub, id |-> g.id]
  BY DEF TypeOK, Goroutine
<1> DEFINE p == g.sub
<1>2. CASE OverflowPanics(g)
  <2>1. /\ \A q \in Pulls : ReachedOK(q)' = ReachedOK(q)
        /\ \A q \in Pulls : SubscribedOK(q)' = SubscribedOK(q)
    BY <1>2 DEF OverflowPanics, ReachedOK, Reading, Ids, Reached, Overflowed, Coming, Pending,
                SubscribedOK, senderVars
  <2> QED
    BY <2>1 DEF DeliveryOK
<1>3. CASE OverflowSend(g) \/ OverflowPark(g) \/ OverflowGiveUp(g)
  <2>1. UNCHANGED <<log, senderVars, stage, since, filter, ctxDone, subs, snapshot, sent>>
    BY <1>3 DEF OverflowSend, OverflowPark, OverflowGiveUp
  <2>2. fresh' = fresh \ {g}
    BY <1>3 DEF OverflowSend, OverflowPark, OverflowGiveUp
  <2>3. \A q \in Pulls \ {p} : order'[q] = order[q] /\ parked'[q] = parked[q]
    BY <1>1, <1>3 DEF OverflowSend, OverflowPark, OverflowGiveUp, Put, TypeOK
  <2>4. /\ \A x : Within(order[p], x) => Within(order'[p], x)
        /\ \A x : Within(parked[p], x) => Within(parked'[p], x)
        /\ ctxDone[p] \/ Within(order'[p], g.id) \/ Within(parked'[p], g.id)
    <3>1. CASE OverflowSend(g)
      <4>1. parked' = parked /\ order' = [order EXCEPT ![g.sub] = Append(@, g.id)]
        BY <3>1 DEF OverflowSend, Put
      <4> QED
        BY <1>1, <4>1, EntersOrder
    <3>2. CASE OverflowPark(g)
      <4>1. order' = order /\ parked'[p] = Append(parked[p], g.id)
        BY <1>1, <3>2 DEF OverflowPark, TypeOK
      <4>2. parked[p] \in Seq(Nat)
        BY <1>1 DEF TypeOK
      <4>3. \A x : Within(Append(parked[p], g.id), x) <=> Within(parked[p], x) \/ x = g.id
        BY <1>1, <4>2, WithinAppend
      <4> QED
        BY <4>1, <4>3
    <3>3. CASE OverflowGiveUp(g)
      BY <3>3 DEF OverflowGiveUp
    <3> QED
      BY <1>3, <3>1, <3>2, <3>3
  <2>5. SubscribedOK(p)'
    BY <1>1, <2>1 DEF DeliveryOK, SubscribedOK
  <2>6. ASSUME Reading(p), NEW id \in Ids, Reached(p, id) PROVE Reached(p, id)'
    <3>1. Coming(p, id) => Coming(p, id)'
      BY <2>1 DEF Coming, Pending, senderVars
    <3>2. [sub |-> p, id |-> id] = g => id = g.id
      BY <1>1
    <3>3. Overflowed(p, id) => Overflowed(p, id)' \/ Within(order'[p], id)
      BY <2>2, <2>4, <2>6, <3>2 DEF Overflowed, Reading
    <3> QED
      BY <2>1, <2>4, <2>6, <3>1, <3>3 DEF Reached
  <2>7. ReachedOK(p)'
    BY <1>1, <2>1, <2>6, ReachedKept DEF DeliveryOK, Reading
  <2>8. \A h \in fresh : h.sub # p => h \in fresh'
    BY <2>2
  <2> HIDE DEF p
  <2> QED
    BY <1>1, <2>1, <2>3, <2>5, <2>7, <2>8, DeliveryStream DEF p
<1> QED
  BY <1>2, <1>3 DEF Overflowing

LEMMA DeliverySubscribe ==
    ASSUME TypeOK, DeliveryOK, NEW p \in Pulls, NEW id \in Markers, NEW F \in Filters,
           Subscribe(p, id, F)
    PROVE  DeliveryOK'
<1>1. stage'[p] = "subscribed" /\ p \in subs'
  BY DEF Subscribe, TypeOK
<1>2. SubscribedOK(p)' /\ ReachedOK(p)'
  BY <1>1 DEF SubscribedOK, ReachedOK, Reading
<1>3. \A q \in Pulls \ {p} : stage'[q] = stage[q] /\ since'[q] = since[q] /\ filter'[q] = filter[q]
  BY DEF Subscribe, TypeOK
<1> QED
  BY <1>2, <1>3, DeliveryStream DEF Subscribe, chanVars

LEMMA DeliveryTakeSnapshot ==
    ASSUME TypeOK, DeliveryOK, NEW p \in Pulls, TakeSnapshot(p)
    PROVE  DeliveryOK'
<1>1. /\ stage[p] = "subscribed" /\ stage'[p] = "history"
      /\ snapshot'[p] = StoredSince(since[p])
      /\ UNCHANGED <<log, senderVars, since, filter, ctxDone, subs, chanVars, sent>>
  BY DEF TakeSnapshot, TypeOK
<1>2. SubscribedOK(p)'
  BY <1>1 DEF DeliveryOK, SubscribedOK
<1>3. ASSUME NEW id \in Ids, id > since[p] PROVE Within(snapshot'[p], id)
  <2>1. since[p] \in Nat /\ Len(log) \in Nat
    BY StreamTypes
  <2>2. id - since[p] \in 1..(Len(log) - since[p]) /\ since[p] + (id - since[p]) = id
    BY <1>3, <2>1 DEF Ids
  <2>3. StoredSince(since[p])[id - since[p]] = id /\ id - since[p] \in DOMAIN StoredSince(since[p])
    BY <2>2 DEF StoredSince
  <2> QED
    BY <1>1, <2>3 DEF Within
<1>4. ReachedOK(p)'
  BY <1>1, <1>3 DEF ReachedOK, Reached, Asked, Ids
<1>5. \A q \in Pulls \ {p} : stage'[q] = stage[q] /\ snapshot'[q] = snapshot[q]
  BY DEF TakeSnapshot, TypeOK
<1> QED
  BY <1>1, <1>2, <1>4, <1>5, DeliveryStream DEF chanVars

(* What is sent stays sent.                                                *)
LEMMA SentStays ==
    ASSUME TypeOK, NEW p \in Pulls, NEW id \in Nat, Deliver(p, id) \/ PassOver
    PROVE  /\ \A x : Within(sent[p], x) => Within(sent'[p], x)
           /\ Deliver(p, id) => Within(sent'[p], id)
           /\ \A q \in Pulls \ {p} : sent'[q] = sent[q]
<1>1. CASE PassOver /\ ~Deliver(p, id)
  BY <1>1 DEF PassOver
<1>2. CASE Deliver(p, id)
  <2>1. sent'[p] = Append(sent[p], id) /\ \A q \in Pulls \ {p} : sent'[q] = sent[q]
    BY <1>2 DEF Deliver, TypeOK
  <2>2. \A x : Within(Append(sent[p], id), x) <=> Within(sent[p], x) \/ x = id
    BY StreamTypes, WithinAppend
  <2> QED
    BY <2>1, <2>2
<1> QED
  BY <1>1, <1>2

LEMMA DeliveryDeliverStored ==
    ASSUME TypeOK, DeliveryOK, NEW p \in Pulls, DeliverStored(p)
    PROVE  DeliveryOK'
<1> DEFINE h == Head(snapshot[p])
<1>1. /\ stage[p] = "history" /\ snapshot[p] # << >>
      /\ snapshot'[p] = Tail(snapshot[p])
      /\ \A q \in Pulls \ {p} : snapshot'[q] = snapshot[q]
      /\ IF log[h] \in filter[p] THEN Deliver(p, h) ELSE PassOver
      /\ UNCHANGED <<log, senderVars, streamVars, ctxDone, subs, chanVars>>
  BY DEF DeliverStored, TypeOK, matches
<1>2. snapshot[p] \in Seq(Nat) /\ h \in Nat
  BY <1>1, StreamTypes
<1>3. \A x : Within(snapshot[p], x) => x = h \/ Within(Tail(snapshot[p]), x)
  BY <1>1, <1>2, WithinTail
<1> HIDE DEF h
<1>4. /\ \A x : Within(sent[p], x) => Within(sent'[p], x)
      /\ log[h] \in filter[p] => Within(sent'[p], h)
      /\ \A q \in Pulls \ {p} : sent'[q] = sent[q]
  BY <1>1, <1>2, SentStays
<1>5. SubscribedOK(p)'
  BY <1>1 DEF DeliveryOK, SubscribedOK, streamVars
<1>6. ASSUME Reading(p), NEW id \in Ids, Asked(log, since[p], filter[p], id), Reached(p, id)
      PROVE  Reached(p, id)'
  <2>1. Within(snapshot[p], id) => Within(sent'[p], id) \/ Within(snapshot'[p], id)
    BY <1>1, <1>3, <1>4, <1>6 DEF Asked
  <2>2. (Coming(p, id) => Coming(p, id)') /\ (Overflowed(p, id) => Overflowed(p, id)')
    BY <1>1 DEF Coming, Pending, Overflowed, senderVars, chanVars
  <2> QED
    BY <1>1, <1>4, <1>6, <2>1, <2>2 DEF Reached, streamVars, chanVars
<1>7. ReachedOK(p)'
  BY <1>1, <1>6, ReachedKept DEF DeliveryOK, Reading, streamVars
<1> QED
  BY <1>1, <1>4, <1>5, <1>7, DeliveryStream DEF streamVars, chanVars

LEMMA DeliveryGoLive ==
    ASSUME TypeOK, DeliveryOK, NEW p \in Pulls, GoLive(p)
    PROVE  DeliveryOK'
<1>1. /\ stage[p] = "history" /\ snapshot[p] = << >> /\ stage'[p] = "live"
      /\ \A q \in Pulls \ {p} : stage'[q] = stage[q]
      /\ UNCHANGED <<log, senderVars, since, filter, ctxDone, subs, chanVars, pullVars>>
  BY DEF GoLive, TypeOK
<1>2. SubscribedOK(p)'
  BY <1>1 DEF DeliveryOK, SubscribedOK
<1>3. ASSUME NEW id \in Ids, Reached(p, id) PROVE Reached(p, id)'
  <2>1. ~Within(snapshot[p], id)
    BY <1>1 DEF Within
  <2> QED
    BY <1>1, <1>3, <2>1 DEF Reached, Overflowed, Coming, Pending, senderVars, chanVars, pullVars
<1>4. ReachedOK(p)'
  BY <1>1, <1>3, ReachedKept DEF DeliveryOK, Reading
<1> QED
  BY <1>1, <1>2, <1>4, DeliveryStream DEF chanVars, pullVars

(* A receive loses nothing: the sender it admits enters the channel.       *)
LEMMA TakeKeeps ==
    ASSUME TypeOK, NEW p \in Pulls, Take(p)
    PROVE  /\ \A x : Within(order[p], x) => Within(order'[p], x)
           /\ \A x : Within(parked[p], x) => Within(parked'[p], x) \/ Within(order'[p], x)
           /\ \A q \in Pulls \ {p} : order'[q] = order[q] /\ parked'[q] = parked[q]
<1>1. CASE parked[p] = << >>
  BY <1>1 DEF Take
<1>2. CASE parked[p] # << >>
  <2>1. /\ order' = [order EXCEPT ![p] = Append(@, Head(parked[p]))]
        /\ parked' = [parked EXCEPT ![p] = Tail(@)]
    BY <1>2 DEF Take
  <2>2. /\ parked'[p] = Tail(parked[p]) /\ parked[p] \in Seq(Nat)
        /\ \A q \in Pulls \ {p} : order'[q] = order[q] /\ parked'[q] = parked[q]
    BY <2>1 DEF TypeOK
  <2>3. Head(parked[p]) \in Nat
    BY <1>2, <2>2
  <2>4. \A x : Within(parked[p], x) => x = Head(parked[p]) \/ Within(Tail(parked[p]), x)
    BY <1>2, <2>2, WithinTail
  <2>5. Within(order'[p], Head(parked[p])) /\ \A x : Within(order[p], x) => Within(order'[p], x)
    BY <2>1, <2>3, EntersOrder
  <2> QED
    BY <2>2, <2>4, <2>5
<1> QED
  BY <1>1, <1>2

LEMMA DeliveryReceive ==
    ASSUME TypeOK, DeliveryOK, NEW p \in Pulls, Receive(p)
    PROVE  DeliveryOK'
<1> DEFINE h == Head(ch[p])
<1>1. /\ h \in Nat
      /\ Deliver(p, h) \/ PassOver
      /\ Take(p)
      /\ UNCHANGED <<log, senderVars, streamVars, ctxDone, subs, fresh, snapshot>>
  BY DEF Receive, TypeOK
<1> HIDE DEF h
<1>2. /\ \A x : Within(sent[p], x) => Within(sent'[p], x)
      /\ \A q \in Pulls \ {p} : sent'[q] = sent[q]
  BY <1>1, SentStays
<1>3. SubscribedOK(p)'
  BY <1>1 DEF DeliveryOK, SubscribedOK, streamVars
<1>4. ASSUME NEW id \in Ids, Reached(p, id) PROVE Reached(p, id)'
  <2>1. Coming(p, id) => Coming(p, id)'
    BY <1>1 DEF Coming, Pending, senderVars
  <2>2. Overflowed(p, id) => Overflowed(p, id)' \/ Within(order'[p], id)
    BY <1>1, TakeKeeps DEF Overflowed
  <2> QED
    BY <1>1, <1>2, <1>4, <2>1, <2>2, TakeKeeps DEF Reached, streamVars
<1>5. ReachedOK(p)'
  BY <1>1, <1>4, ReachedKept DEF DeliveryOK, Reading, streamVars
<1> QED
  BY <1>1, <1>2, <1>3, <1>5, TakeKeeps, DeliveryStream DEF streamVars

(* A stream that stops reading.                                            *)
LEMMA DeliveryEnding ==
    ASSUME TypeOK, DeliveryOK, NEW p \in Pulls, Ending(p)
    PROVE  DeliveryOK'
<1> USE DEF streamVars, chanVars, pullVars, Return
<1>1. CASE Cancel(p)
  <2>1. /\ ctxDone'[p] /\ stage' = stage /\ subs' = subs
        /\ \A q \in Pulls \ {p} : ctxDone'[q] = ctxDone[q] /\ parked'[q] = parked[q]
    BY <1>1 DEF Cancel, TypeOK
  <2>2. SubscribedOK(p)' /\ ReachedOK(p)'
    BY <2>1 DEF DeliveryOK, SubscribedOK, ReachedOK, Reading
  <2> QED
    BY <1>1, <2>1, <2>2, DeliveryStream DEF Cancel
<1>2. CASE ~Cancel(p)
  <2>1. /\ stage'[p] \in {"returning", "ended"}
        /\ \A q \in Pulls \ {p} : stage'[q] = stage[q]
        /\ \A q \in Pulls \ {p} : q \in subs => q \in subs'
        /\ UNCHANGED <<log, senderVars, since, filter, ctxDone, fresh, snapshot, sent>>
    BY <1>2 DEF Ending, SendFailsStored, SendFailsLive, NoticeDone, RemoveSubscription, TypeOK
  <2>2. \A q \in Pulls \ {p} : order'[q] = order[q] /\ parked'[q] = parked[q]
    BY <1>2, TakeKeeps DEF Ending, SendFailsStored, SendFailsLive, NoticeDone, RemoveSubscription
  <2>3. SubscribedOK(p)' /\ ReachedOK(p)'
    BY <2>1 DEF SubscribedOK, ReachedOK, Reading
  <2> QED
    BY <2>1, <2>2, <2>3, DeliveryStream
<1> QED
  BY <1>1, <1>2

LEMMA DeliveryNext == TypeOK /\ DeliveryOK /\ [Next]_vars => DeliveryOK'
<1>1. ASSUME DeliveryOK, UNCHANGED vars PROVE DeliveryOK'
  BY <1>1 DEF vars, senderVars, streamVars, chanVars, pullVars, DeliveryOK, SubscribedOK, ReachedOK,
              Reading, Reached, Overflowed, Coming, Pending, Ids
<1>2. ASSUME TypeOK, DeliveryOK, NEW p \in Pulls, Streaming(p) PROVE DeliveryOK'
  BY <1>2, DeliveryTakeSnapshot, DeliveryDeliverStored, DeliveryGoLive, DeliveryReceive DEF Streaming
<1> QED
  BY <1>1, <1>2, DeliverySave, DeliveryBroadcasting, DeliveryOverflowing, DeliverySubscribe,
     DeliveryEnding DEF Next

LEMMA DeliveryInit == Init => DeliveryOK
BY DEF Init, DeliveryOK, SubscribedOK, ReachedOK, Reading

(* What entered the channel is still in it, or was received.               *)
LEMMA EnteredOrReceived ==
    ASSUME TypeOK, NEW p \in Pulls, ChannelOK(Len(log), stage[p], ch[p], order[p]),
           NEW id, Within(order[p], id), ~Within(ch[p], id)
    PROVE  \E i \in 1..Received(ch[p], order[p]) : i \in DOMAIN order[p] /\ order[p][i] = id
<1> DEFINE c == Len(ch[p])
           o == Len(order[p])
           r == Received(ch[p], order[p])
<1>1. PICK i \in DOMAIN order[p] : order[p][i] = id
  BY DEF Within
<1>2. /\ i \in 1..o /\ o \in Nat /\ c \in Nat /\ c <= o
      /\ DOMAIN ch[p] = 1..c
      /\ r = o - c
      /\ \A k \in DOMAIN ch[p] : ch[p][k] = order[p][r + k]
  BY StreamTypes DEF ChannelOK, Received
<1> HIDE DEF c, o, r
<1>3. ASSUME i > r PROVE FALSE
  <2>1. i - r \in 1..c /\ r + (i - r) = i
    BY <1>2, <1>3
  <2>2. ch[p][i - r] = order[p][i]
    BY <1>2, <2>1
  <2> QED
    BY <1>1, <1>2, <2>1, <2>2 DEF Within
<1>4. i \in 1..r
  BY <1>2, <1>3
<1> QED
  BY <1>1, <1>4 DEF r

(* Whatever a live stream wants has been sent, or it is on its way, or its *)
(* Send was aborted by a panic, or another envelope overtook it before it  *)
(* came out of the channel: subscribing before the history is read leaves  *)
(* no gap between the two, and a full channel loses nothing (Pull and      *)
(* broadcast).                                                             *)
THEOREM NothingIsLost == Spec => []NothingLost
<1>1. IInv /\ DeliveryOK => NothingLost
  <2> SUFFICES ASSUME IInv, DeliveryOK, NEW p \in Pulls, stage[p] = "live", ~ctxDone[p],
                      NEW id \in Ids, Wanted(p, id), id \notin SentIds(p)
               PROVE  /\ id > lastSent[p] \/ Overtaken(p, id)
                      /\ \/ OnItsWay(p, id)
                         \/ Within(order[p], id) /\ Overtaken(p, id)
                         \/ Abandoned(id)
    BY DEF NothingLost
  <2>1. /\ LiveOK(log, "live", since[p], filter[p], ch[p], order[p], lastSent[p], sent[p])
        /\ ChannelOK(Len(log), stage[p], ch[p], order[p])
    BY DEF IInv, StreamsOK, StreamOK
  <2>2. Asked(log, since[p], filter[p], id) /\ id \in 1..Len(log) /\ ~Within(sent[p], id)
    BY DEF Wanted, Asked, Ids, SentIds, Within
  <2>3. Passed(order[p], id) => Overtaken(p, id)
    BY DEF Passed, Overtaken
  <2>4. id > lastSent[p] \/ Overtaken(p, id)
    <3>1. lastSent[p] \in Nat /\ id \in Nat
      BY <2>2, StreamTypes DEF IInv
    <3> QED
      BY <2>1, <2>2, <2>3, <3>1 DEF LiveOK
  <2>5. Reached(p, id)
    BY <2>2 DEF DeliveryOK, ReachedOK, Reading
  <2>6. CASE Within(order[p], id) /\ ~Within(ch[p], id)
    <3>1. PICK i \in 1..Received(ch[p], order[p]) : i \in DOMAIN order[p] /\ order[p][i] = id
      BY <2>1, <2>6, EnteredOrReceived DEF IInv
    <3> QED
      BY <2>1, <2>2, <2>3, <2>4, <2>6, <3>1 DEF LiveOK
  <2>7. CASE Within(ch[p], id) \/ Overflowed(p, id)
    BY <2>4, <2>7 DEF OnItsWay, Overflowed
  <2>8. CASE Coming(p, id)
    BY <2>4, <2>8 DEF Coming, OnItsWay, Abandoned
  <2> QED
    BY <2>2, <2>5, <2>6, <2>7, <2>8 DEF Reached
<1>2. (IInv /\ DeliveryOK) /\ [Next]_vars => (IInv /\ DeliveryOK)'
  BY TypeNext, InFlightNext, StreamsNext, DeliveryNext DEF IInv
<1> QED
  BY <1>1, <1>2, InvInit, DeliveryInit, PTL DEF Spec

-------------------------------------------------------------------------------
(* Refinement: the streams are those of MessageFeed.                       *)

MarkersOK == \A p \in Pulls : lastSent[p] >= since[p]

LEMMA MarkersInit == Init => MarkersOK
BY DEF Init, MarkersOK

LEMMA MarkersDeliver ==
    ASSUME TypeOK, MarkersOK, NEW p \in Pulls, NEW id \in Nat, Deliver(p, id) \/ PassOver, since' = since
    PROVE  MarkersOK'
<1>1. lastSent \in [Pulls -> Nat] /\ since \in [Pulls -> Nat]
  BY DEF TypeOK
<1>2. CASE Deliver(p, id)
  <2>1. lastSent' = [lastSent EXCEPT ![p] = IF id > lastSent[p] THEN id ELSE lastSent[p]]
    BY <1>2 DEF Deliver
  <2> QED
    BY <1>1, <2>1 DEF MarkersOK
<1>3. CASE PassOver
  BY <1>3 DEF PassOver, MarkersOK
<1> QED
  BY <1>2, <1>3

LEMMA MarkersNext == TypeOK /\ MarkersOK /\ [Next]_vars => MarkersOK'
<1> SUFFICES ASSUME TypeOK, MarkersOK, [Next]_vars PROVE MarkersOK'
  OBVIOUS
<1> USE DEF TypeOK, streamVars, pullVars
<1>1. ASSUME UNCHANGED <<since, lastSent>> PROVE MarkersOK'
  BY <1>1 DEF MarkersOK
<1>2. ASSUME NEW p \in Pulls, Streaming(p) PROVE MarkersOK'
  <2>1. CASE DeliverStored(p)
    <3>1. Head(snapshot[p]) \in Nat
      BY <2>1 DEF DeliverStored
    <3> QED
      BY MarkersDeliver, <2>1, <3>1 DEF DeliverStored
  <2>2. CASE Receive(p)
    <3>1. Head(ch[p]) \in Nat
      BY <2>2 DEF Receive
    <3> QED
      BY MarkersDeliver, <2>2, <3>1 DEF Receive
  <2> QED
    BY <1>1, <1>2, <2>1, <2>2 DEF Streaming, TakeSnapshot, GoLive
<1>3. ASSUME NEW p \in Pulls, NEW id \in Markers, NEW F \in Filters, Subscribe(p, id, F)
      PROVE  MarkersOK'
  <2>1. id \in Nat
    BY RequestsAssumption
  <2> QED
    BY <1>3, <2>1 DEF Subscribe, MarkersOK
<1>4. ASSUME NEW t \in Senders, (\E c \in Conversations : Save(t, c)) \/ Broadcasting(t) PROVE MarkersOK'
  BY <1>1, <1>4 DEF Save, Broadcasting, CopySubs, Skip, Enqueue, SpawnOverflow, SendPanics, SendReturn
<1>5. ASSUME NEW g \in fresh, Overflowing(g) PROVE MarkersOK'
  BY <1>1, <1>5 DEF Overflowing, OverflowSend, OverflowPark, OverflowGiveUp, OverflowPanics
<1>6. ASSUME NEW p \in Pulls, Ending(p) PROVE MarkersOK'
  BY <1>1, <1>6 DEF Ending, SendFailsStored, SendFailsLive, NoticeDone, RemoveSubscription, Cancel
<1>7. CASE UNCHANGED vars
  BY <1>1, <1>7 DEF vars
<1> QED
  BY <1>2, <1>3, <1>4, <1>5, <1>6, <1>7 DEF Next

(* What was stored when the Pull subscribed, and is asked for, is sent or  *)
(* in the copy of the history.                                             *)
BacklogOK(p) == /\ backlog[p] <= Len(log)
                /\ stage[p] = "history" =>
                     \A id \in 1..backlog[p] : Asked(log, since[p], filter[p], id)
                                                => Within(sent[p], id) \/ Within(snapshot[p], id)

BacklogsOK == \A p \in Pulls : BacklogOK(p)

LEMMA BacklogsInit == Init => BacklogsOK
BY DEF Init, BacklogsOK, BacklogOK

LEMMA BacklogsKept ==
    ASSUME BacklogsOK, UNCHANGED <<log, since, filter, backlog, snapshot>>,
           \A p \in Pulls : stage'[p] = "history" => stage[p] = "history",
           \A p \in Pulls : \A x : Within(sent[p], x) => Within(sent'[p], x)
    PROVE  BacklogsOK'
BY DEF BacklogsOK, BacklogOK

LEMMA BacklogsSave ==
    ASSUME TypeOK, BacklogsOK, NEW t \in Senders, NEW conv \in Conversations, Save(t, conv)
    PROVE  BacklogsOK'
<1>1. /\ log' = Append(log, conv) /\ log \in Seq(Conversations)
      /\ UNCHANGED <<stage, since, filter, backlog, snapshot, sent>>
  BY DEF Save, TypeOK, streamVars, pullVars
<1>2. Len(log) \in Nat /\ Len(log') = Len(log) + 1 /\ \A id \in 1..Len(log) : log'[id] = log[id]
  BY <1>1
<1> SUFFICES ASSUME NEW p \in Pulls PROVE BacklogOK(p)'
  BY DEF BacklogsOK
<1>3. BacklogOK(p) /\ backlog[p] \in Nat
  BY DEF BacklogsOK, TypeOK
<1>4. \A id \in 1..backlog[p] : log'[id] = log[id]
  BY <1>2, <1>3 DEF BacklogOK
<1>5. backlog[p] <= Len(log')
  BY <1>2, <1>3 DEF BacklogOK
<1> QED
  BY <1>1, <1>3, <1>4, <1>5 DEF BacklogOK, Asked

LEMMA BacklogsTakeSnapshot ==
    ASSUME TypeOK, BacklogsOK, NEW p \in Pulls, TakeSnapshot(p)
    PROVE  BacklogsOK'
<1>1. /\ snapshot'[p] = StoredSince(since[p])
      /\ \A q \in Pulls \ {p} : stage'[q] = stage[q] /\ snapshot'[q] = snapshot[q]
      /\ UNCHANGED <<log, since, filter, backlog, sent>>
  BY DEF TakeSnapshot, TypeOK
<1>2. BacklogOK(p) /\ backlog[p] \in Nat /\ since[p] \in Nat /\ Len(log) \in Nat
  BY DEF BacklogsOK, TypeOK
<1>3. ASSUME NEW id \in 1..backlog[p], id > since[p] PROVE Within(snapshot'[p], id)
  <2>1. id - since[p] \in 1..(Len(log) - since[p]) /\ since[p] + (id - since[p]) = id
    BY <1>2, <1>3 DEF BacklogOK
  <2>2. StoredSince(since[p])[id - since[p]] = id /\ id - since[p] \in DOMAIN StoredSince(since[p])
    BY <2>1 DEF StoredSince
  <2> QED
    BY <1>1, <2>2 DEF Within
<1>4. BacklogOK(p)'
  BY <1>1, <1>2, <1>3 DEF BacklogOK, Asked
<1> QED
  BY <1>1, <1>4 DEF BacklogsOK, BacklogOK

LEMMA BacklogsDeliverStored ==
    ASSUME TypeOK, BacklogsOK, NEW p \in Pulls, DeliverStored(p)
    PROVE  BacklogsOK'
<1> DEFINE h == Head(snapshot[p])
<1>1. /\ stage[p] = "history" /\ snapshot[p] # << >>
      /\ snapshot'[p] = Tail(snapshot[p])
      /\ \A q \in Pulls \ {p} : snapshot'[q] = snapshot[q]
      /\ IF log[h] \in filter[p] THEN Deliver(p, h) ELSE PassOver
      /\ UNCHANGED <<log, stage, since, filter, backlog>>
  BY DEF DeliverStored, TypeOK, matches, streamVars
<1>2. snapshot[p] \in Seq(Nat) /\ h \in Nat
  BY <1>1, StreamTypes
<1>3. \A x : Within(snapshot[p], x) => x = h \/ Within(Tail(snapshot[p]), x)
  BY <1>1, <1>2, WithinTail
<1> HIDE DEF h
<1>4. /\ \A x : Within(sent[p], x) => Within(sent'[p], x)
      /\ log[h] \in filter[p] => Within(sent'[p], h)
      /\ \A q \in Pulls \ {p} : sent'[q] = sent[q]
  BY <1>1, <1>2, SentStays
<1>5. BacklogOK(p)'
  BY <1>1, <1>3, <1>4 DEF BacklogsOK, BacklogOK, Asked
<1> QED
  BY <1>1, <1>4, <1>5 DEF BacklogsOK, BacklogOK

LEMMA BacklogsStreaming ==
    ASSUME TypeOK, BacklogsOK, NEW p \in Pulls, Streaming(p)
    PROVE  BacklogsOK'
<1>1. CASE GoLive(p)
  BY <1>1, BacklogsKept DEF GoLive, TypeOK, pullVars
<1>2. CASE Receive(p)
  <2>1. Head(ch[p]) \in Nat
    BY <1>2 DEF Receive, TypeOK
  <2>2. \A q \in Pulls : \A x : Within(sent[q], x) => Within(sent'[q], x)
    BY <1>2, <2>1, SentStays DEF Receive
  <2> QED
    BY <1>2, <2>2, BacklogsKept DEF Receive, streamVars
<1> QED
  BY <1>1, <1>2, BacklogsTakeSnapshot, BacklogsDeliverStored DEF Streaming

LEMMA BacklogsSubscribe ==
    ASSUME TypeOK, BacklogsOK, NEW p \in Pulls, NEW id \in Markers, NEW F \in Filters,
           Subscribe(p, id, F)
    PROVE  BacklogsOK'
<1>1. /\ stage'[p] = "subscribed" /\ backlog'[p] = Len(log) /\ Len(log) \in Nat
      /\ \A q \in Pulls \ {p} : /\ stage'[q] = stage[q] /\ since'[q] = since[q]
                                 /\ filter'[q] = filter[q] /\ backlog'[q] = backlog[q]
      /\ UNCHANGED <<log, snapshot, sent>>
  BY DEF Subscribe, TypeOK
<1>2. BacklogOK(p)'
  BY <1>1 DEF BacklogOK
<1> QED
  BY <1>1, <1>2 DEF BacklogsOK, BacklogOK

LEMMA BacklogsEnding ==
    ASSUME TypeOK, BacklogsOK, NEW p \in Pulls, Ending(p)
    PROVE  BacklogsOK'
<1>1. /\ UNCHANGED <<log, since, filter, backlog, snapshot, sent>>
      /\ \A q \in Pulls : stage'[q] = "history" => stage[q] = "history"
  BY DEF Ending, SendFailsStored, SendFailsLive, NoticeDone, RemoveSubscription, Cancel, Return,
         TypeOK, streamVars, pullVars
<1> QED
  BY <1>1, BacklogsKept

LEMMA BacklogsNext == TypeOK /\ BacklogsOK /\ [Next]_vars => BacklogsOK'
<1> SUFFICES ASSUME TypeOK, BacklogsOK, [Next]_vars PROVE BacklogsOK'
  OBVIOUS
<1>1. ASSUME NEW t \in Senders, Broadcasting(t) PROVE BacklogsOK'
  BY <1>1, BacklogsKept
     DEF Broadcasting, CopySubs, Skip, Enqueue, SpawnOverflow, SendPanics, SendReturn, streamVars, pullVars
<1>2. ASSUME NEW g \in fresh, Overflowing(g) PROVE BacklogsOK'
  BY <1>2, BacklogsKept
     DEF Overflowing, OverflowSend, OverflowPark, OverflowGiveUp, OverflowPanics, streamVars, pullVars
<1>3. CASE UNCHANGED vars
  BY <1>3, BacklogsKept DEF vars, streamVars, pullVars
<1> QED
  BY <1>1, <1>2, <1>3, BacklogsSave, BacklogsSubscribe, BacklogsStreaming, BacklogsEnding DEF Next

phases == [p \in Pulls |-> Phase(p)]

LEMMA PhaseMoves ==
    ASSUME TypeOK, NEW p \in Pulls, NEW s, stage' = [stage EXCEPT ![p] = s],
           NEW ph, Phase(p)' = ph
    PROVE  phases' = [phases EXCEPT ![p] = ph]
<1>1. \A q \in Pulls \ {p} : Phase(q)' = Phase(q)
  BY DEF TypeOK, Phase
<1> QED
  BY <1>1 DEF phases

(* Nothing a client sees.                                                  *)
LEMMA FeedStutters ==
    ASSUME UNCHANGED <<log, stage, since, filter, backlog, sent>>
    PROVE  UNCHANGED Feed!vars
<1>1. \A p \in Pulls : Phase(p)' = Phase(p)
  BY DEF Phase
<1> QED
  BY <1>1 DEF Feed!vars

(* stream.Send succeeded, or was not called.                               *)
LEMMA FeedCarries ==
    ASSUME IInv, MarkersOK, NEW p \in Pulls, NEW id \in Nat, Deliver(p, id),
           id > lastSent[p], log[id] \in filter[p], UNCHANGED <<log, stage, since, filter, backlog>>
    PROVE  Feed!Carry(p, id)
<1>1. lastSent[p] \in Nat /\ since[p] \in Nat /\ sent[p] \in Seq(Nat)
  BY StreamTypes DEF IInv
<1>2. Feed!Asked(p, id)
  BY <1>1 DEF Feed!Asked, MarkersOK
<1>3. \A i \in DOMAIN sent[p] : sent[p][i] < id
  <2>1. \A i \in DOMAIN sent[p] : sent[p][i] <= lastSent[p] /\ sent[p][i] \in Nat
    BY <1>1 DEF IInv, StreamsOK, StreamOK, SentOK
  <2> QED
    BY <1>1, <2>1
<1>4. sent' = [sent EXCEPT ![p] = Append(@, id)]
  BY DEF Deliver
<1>5. \A q \in Pulls : Phase(q)' = Phase(q)
  BY DEF Phase
<1> QED
  BY <1>2, <1>3, <1>4, <1>5 DEF Feed!Carry

(* The copy of the history is replayed without a gap.                      *)
LEMMA FeedReplays ==
    ASSUME IInv, MarkersOK, NEW p \in Pulls, DeliverStored(p), log[Head(snapshot[p])] \in filter[p]
    PROVE  Head(snapshot[p]) \in DOMAIN log /\ Feed!Replay(p, Head(snapshot[p]))
<1> DEFINE h == Head(snapshot[p])
<1>1. /\ stage[p] = "history" /\ snapshot[p] # << >>
      /\ Deliver(p, h)
      /\ UNCHANGED <<log, stage, since, filter, backlog>>
  BY DEF DeliverStored, matches, streamVars
<1>2. snapshot[p] \in Seq(Nat) /\ log \in Seq(Conversations) /\ lastSent[p] \in Nat
  BY StreamTypes DEF IInv
<1>3. HistoryOK(log, "history", since[p], filter[p], snapshot[p], lastSent[p], sent[p])
  BY <1>1 DEF IInv, StreamsOK, StreamOK
<1>4. 1 \in DOMAIN snapshot[p] /\ h = snapshot[p][1]
  BY <1>1, <1>2
<1>5. h \in 1..Len(log) /\ h > lastSent[p]
  BY <1>3, <1>4 DEF HistoryOK
<1>6. \A k \in 1..(h - 1) : Feed!Asked(p, k) => Feed!Carried(p, k)
  <2> SUFFICES ASSUME NEW k \in 1..(h - 1), Feed!Asked(p, k) PROVE Feed!Carried(p, k)
    OBVIOUS
  <2>1. k \in 1..Len(log) /\ k < h
    BY <1>2, <1>5
  <2>2. Asked(log, since[p], filter[p], k)
    BY DEF Asked, Feed!Asked
  <2>3. Within(sent[p], k)
    BY <1>1, <1>3, <1>4, <2>1, <2>2 DEF HistoryOK
  <2> QED
    BY <2>3 DEF Within, Feed!Carried
<1>7. Feed!Carry(p, h)
  BY <1>1, <1>5, FeedCarries
<1>8. Phase(p) = "replay"
  BY <1>1 DEF Phase
<1> HIDE DEF h
<1>9. Feed!Replay(p, h)
  BY <1>6, <1>7, <1>8 DEF Feed!Replay, Feed!CaughtUp
<1> QED
  BY <1>2, <1>5, <1>9 DEF h

LEMMA FeedForwards ==
    ASSUME IInv, MarkersOK, NEW p \in Pulls, Receive(p), ~PassOver
    PROVE  \E id \in DOMAIN log : Feed!Forward(p, id)
<1> DEFINE h == Head(ch[p])
<1>1. /\ stage[p] = "live" /\ ch[p] # << >>
      /\ Deliver(p, h) /\ h > lastSent[p] /\ log[h] \in filter[p]
      /\ UNCHANGED <<log, stage, since, filter, backlog>>
  BY DEF Receive, Fresher, matches, streamVars
<1>2. ch[p] \in Seq(Nat) /\ order[p] \in Seq(Nat) /\ log \in Seq(Conversations)
  BY StreamTypes DEF IInv
<1>3. ChannelOK(Len(log), "live", ch[p], order[p])
  BY <1>1 DEF IInv, StreamsOK, StreamOK
<1> DEFINE c == Len(ch[p])
           o == Len(order[p])
           r == Received(ch[p], order[p])
<1>4. /\ c \in Nat /\ c # 0 /\ o \in Nat /\ h = ch[p][1]
      /\ DOMAIN ch[p] = 1..c /\ DOMAIN order[p] = 1..o
      /\ c <= o /\ r = o - c
      /\ \A k \in DOMAIN ch[p] : ch[p][k] = order[p][r + k]
  BY <1>1, <1>2, <1>3 DEF ChannelOK, Received
<1> HIDE DEF c, o, r, h
<1>5. r + 1 \in 1..o /\ 1 \in 1..c
  BY <1>4
<1>6. r + 1 \in DOMAIN order[p] /\ h = order[p][r + 1]
  BY <1>4, <1>5
<1>7. h \in 1..Len(log) /\ h \in Nat
  BY <1>2, <1>3, <1>6 DEF ChannelOK
<1>8. Feed!Carry(p, h)
  BY <1>1, <1>7, FeedCarries DEF h
<1>9. Phase(p) = "live"
  BY <1>1 DEF Phase
<1>10. Feed!Forward(p, h)
  BY <1>8, <1>9 DEF Feed!Forward
<1> QED
  BY <1>2, <1>7, <1>10

LEMMA FeedEnds ==
    ASSUME TypeOK, NEW p \in Pulls, Return(p), stage[p] \in {"subscribed", "history", "live"},
           UNCHANGED <<log, since, filter, backlog, sent>>
    PROVE  Feed!End(p)
<1>1. stage' = [stage EXCEPT ![p] = "returning"] /\ Phase(p)' = "over"
  BY DEF Return, TypeOK, Phase
<1>2. phases' = [phases EXCEPT ![p] = "over"]
  BY <1>1, PhaseMoves
<1>3. Phase(p) \in {"replay", "live"}
  BY DEF Phase
<1> QED
  BY <1>2, <1>3 DEF Feed!End, phases

LEMMA FeedStreaming ==
    ASSUME IInv, MarkersOK, BacklogsOK, NEW p \in Pulls, Streaming(p)
    PROVE  [Feed!Next]_(Feed!vars)
<1> USE DEF streamVars, pullVars
<1>1. CASE TakeSnapshot(p)
  <2>1. \A q \in Pulls : Phase(q)' = Phase(q)
    BY <1>1 DEF TakeSnapshot, Phase, IInv, TypeOK
  <2> QED
    BY <1>1, <2>1 DEF TakeSnapshot, Feed!vars
<1>2. CASE DeliverStored(p)
  <2>1. CASE log[Head(snapshot[p])] \in filter[p]
    BY <1>2, <2>1, FeedReplays DEF Feed!Next
  <2>2. CASE log[Head(snapshot[p])] \notin filter[p]
    BY <1>2, <2>2, FeedStutters DEF DeliverStored, matches, PassOver
  <2> QED
    BY <2>1, <2>2
<1>3. CASE GoLive(p)
  <2>1. stage' = [stage EXCEPT ![p] = "live"] /\ Phase(p)' = "live" /\ Phase(p) = "replay"
    BY <1>3 DEF GoLive, IInv, TypeOK, Phase
  <2>2. phases' = [phases EXCEPT ![p] = "live"]
    BY <2>1, PhaseMoves DEF IInv
  <2>3. \A id : ~Within(snapshot[p], id)
    BY <1>3 DEF GoLive, Within
  <2>4. Feed!CaughtUp(p, backlog[p])
    BY <1>3, <2>3 DEF GoLive, BacklogsOK, BacklogOK, Asked, Within,
                      Feed!CaughtUp, Feed!Asked, Feed!Carried
  <2>5. Feed!GoLive(p)
    BY <1>3, <2>1, <2>2, <2>4 DEF GoLive, Feed!GoLive, phases
  <2> QED
    BY <2>5 DEF Feed!Next
<1>4. CASE Receive(p)
  <2>1. CASE PassOver
    BY <1>4, <2>1, FeedStutters DEF Receive, PassOver
  <2>2. CASE ~PassOver
    BY <1>4, <2>2, FeedForwards DEF Feed!Next
  <2> QED
    BY <2>1, <2>2
<1> QED
  BY <1>1, <1>2, <1>3, <1>4 DEF Streaming

LEMMA FeedEnding ==
    ASSUME TypeOK, NEW p \in Pulls, Ending(p)
    PROVE  [Feed!Next]_(Feed!vars)
<1> USE DEF streamVars, pullVars
<1>1. CASE RemoveSubscription(p)
  <2>1. \A q \in Pulls : Phase(q)' = Phase(q)
    BY <1>1 DEF RemoveSubscription, Phase, TypeOK
  <2> QED
    BY <1>1, <2>1 DEF RemoveSubscription, Feed!vars
<1>2. CASE Cancel(p)
  BY <1>2, FeedStutters DEF Cancel
<1>3. CASE SendFailsStored(p) \/ SendFailsLive(p) \/ NoticeDone(p)
  <2>1. Feed!End(p)
    BY <1>3, FeedEnds DEF SendFailsStored, SendFailsLive, NoticeDone
  <2> QED
    BY <2>1 DEF Feed!Next
<1> QED
  BY <1>1, <1>2, <1>3 DEF Ending

LEMMA FeedOpens ==
    ASSUME TypeOK, NEW p \in Pulls, NEW id \in Markers, NEW F \in Filters, Subscribe(p, id, F)
    PROVE  Feed!Open(p, id, F)
<1>1. stage' = [stage EXCEPT ![p] = "subscribed"] /\ Phase(p)' = "replay" /\ Phase(p) = "off"
  BY DEF Subscribe, TypeOK, Phase
<1>2. phases' = [phases EXCEPT ![p] = "replay"]
  BY <1>1, PhaseMoves
<1> QED
  BY <1>1, <1>2 DEF Subscribe, Feed!Open, phases

LEMMA FeedNext ==
    ASSUME IInv, MarkersOK, BacklogsOK, [Next]_vars
    PROVE  [Feed!Next]_(Feed!vars)
<1> USE DEF streamVars, pullVars
<1>1. ASSUME NEW t \in Senders, NEW c \in Conversations, Save(t, c) PROVE [Feed!Next]_(Feed!vars)
  <2>1. \A p \in Pulls : Phase(p)' = Phase(p)
    BY <1>1 DEF Save, Phase
  <2>2. Feed!Store(c)
    BY <1>1, <2>1 DEF Save, Feed!Store
  <2> QED
    BY <2>2 DEF Feed!Next
<1>2. ASSUME NEW t \in Senders, Broadcasting(t) PROVE [Feed!Next]_(Feed!vars)
  BY <1>2, FeedStutters
     DEF Broadcasting, CopySubs, Skip, Enqueue, SpawnOverflow, SendPanics, SendReturn
<1>3. ASSUME NEW g \in fresh, Overflowing(g) PROVE [Feed!Next]_(Feed!vars)
  BY <1>3, FeedStutters DEF Overflowing, OverflowSend, OverflowPark, OverflowGiveUp, OverflowPanics
<1>4. ASSUME NEW p \in Pulls, NEW id \in Markers, NEW F \in Filters, Subscribe(p, id, F)
      PROVE  [Feed!Next]_(Feed!vars)
  BY <1>4, FeedOpens DEF Feed!Next, IInv
<1>5. CASE UNCHANGED vars
  BY <1>5, FeedStutters DEF vars
<1> QED
  BY <1>1, <1>2, <1>3, <1>4, <1>5, FeedStreaming, FeedEnding DEF Next, IInv

(* Pull keeps the promise of MessageFeed: a stream replays the history     *)
(* without a gap, at least up to what was stored when it subscribed, while *)
(* envelopes are being stored; then it forwards, in the order of the       *)
(* identifiers, only what is stored, asked for and above its marker; and   *)
(* nothing after it has ended.                                             *)
THEOREM PullImplementsFeed == Spec => ImplementsFeed
<1>1. Init => Feed!Init
  <2>1. Init => \A p \in Pulls : Phase(p) = "off"
    BY DEF Init, Phase
  <2> QED
    BY <2>1 DEF Init, Feed!Init
<1>2. Init => MarkersOK /\ BacklogsOK
  BY MarkersInit, BacklogsInit
<1>3. (IInv /\ MarkersOK /\ BacklogsOK) /\ [Next]_vars => (MarkersOK /\ BacklogsOK)'
  BY MarkersNext, BacklogsNext DEF IInv
<1>4. (IInv /\ MarkersOK /\ BacklogsOK) /\ [Next]_vars => [Feed!Next]_(Feed!vars)
  BY FeedNext
<1> QED
  BY <1>1, <1>2, <1>3, <1>4, Invariance, PTL DEF Spec, ImplementsFeed, Feed!Spec

-------------------------------------------------------------------------------
(* One sender, whose envelopes always find room: what is missing in        *)
(* NothingSkipped (PullService) needs two senders or a full channel.       *)

OneSender == \A s, t \in Senders : s = t

(* No overflow goroutine is started, and what is being sent is the newest. *)
NewestOK == /\ Len(log) <= MaxMessages
            /\ fresh = {}
            /\ \A p \in Pulls : parked[p] = << >>
            /\ \A t \in Senders : pc[t] # "idle" => rec[t] = Len(log)

(* Envelopes entered the channel in the order of their identifiers.        *)
OrderOK(p) == /\ Ascending(order[p])
              /\ \A i \in DOMAIN order[p] :
                    /\ order[p][i] >= i
                    /\ \A t \in Senders : Pending(t, p) => order[p][i] < rec[t]

LoneOK == NewestOK /\ \A p \in Pulls : OrderOK(p)

(* What entered a channel is stored.                                       *)
LEMMA OrderIds ==
    ASSUME TypeOK, StreamsOK, NEW p \in Pulls
    PROVE  /\ Len(ch[p]) <= Len(order[p])
           /\ \A i \in DOMAIN order[p] : order[p][i] \in 1..Len(log)
BY DEF StreamsOK, StreamOK, ChannelOK

(* A pending envelope finds room.                                          *)
LEMMA RoomForPending ==
    ASSUME IInv, LoneOK, Capacity >= MaxMessages,
           NEW t \in Senders, NEW p \in Pulls, Pending(t, p)
    PROVE  HasRoom(p)
<1>1. Len(ch[p]) <= Len(order[p]) /\ Len(ch[p]) \in Nat /\ Len(order[p]) \in Nat /\ Len(log) \in Nat
  BY OrderIds, StreamTypes DEF IInv
<1>2. Capacity \in Nat \ {0} /\ MaxMessages \in Nat
  BY BoundsAssumption
<1>3. CASE Len(order[p]) = 0
  BY <1>1, <1>2, <1>3 DEF HasRoom
<1>4. CASE Len(order[p]) # 0
  <2>1. Len(order[p]) \in DOMAIN order[p]
    BY <1>1, <1>4, StreamTypes DEF IInv
  <2>2. order[p][Len(order[p])] >= Len(order[p]) /\ order[p][Len(order[p])] < rec[t]
    BY <2>1 DEF LoneOK, OrderOK
  <2>3. order[p][Len(order[p])] \in Nat
    BY <2>1, StreamTypes DEF IInv
  <2>4. rec[t] = Len(log) /\ Len(log) <= MaxMessages
    BY DEF LoneOK, NewestOK, Pending
  <2>5. Len(order[p]) < MaxMessages
    BY <1>1, <1>2, <2>2, <2>3, <2>4
  <2> QED
    BY <1>1, <1>2, <2>5 DEF HasRoom
<1> QED
  BY <1>3, <1>4

LEMMA LoneSave ==
    ASSUME IInv, LoneOK, OneSender, NEW t \in Senders, NEW conv \in Conversations, Save(t, conv)
    PROVE  LoneOK'
<1>1. /\ log' = Append(log, conv) /\ pc[t] = "idle" /\ Len(log) < MaxMessages
      /\ UNCHANGED <<todo, order, fresh, parked>>
  BY DEF Save, streamVars, chanVars, pullVars
<1>2. Senders = {t}
  BY DEF OneSender
<1>3. rec'[t] = Len(log) + 1 /\ pc'[t] = "saved"
  BY DEF Save, IInv, TypeOK
<1>4. Len(log) \in Nat /\ Len(log') = Len(log) + 1
  BY <1>1, StreamTypes DEF IInv, TypeOK
<1>5. NewestOK'
  BY <1>1, <1>2, <1>3, <1>4, BoundsAssumption DEF NewestOK, LoneOK
<1>6. ASSUME NEW p \in Pulls PROVE OrderOK(p)'
  <2>1. OrderOK(p)
    BY DEF LoneOK
  <2>2. \A i \in DOMAIN order[p] : order[p][i] < rec'[t]
    BY <1>3, <1>4, OrderIds DEF IInv
  <2> QED
    BY <1>1, <1>2, <2>1, <2>2 DEF OrderOK
<1> QED
  BY <1>5, <1>6 DEF LoneOK

(* The sender goes on, and nothing enters a channel.                       *)
LEMMA LoneSends ==
    ASSUME LoneOK, OneSender, NEW t \in Senders,
           UNCHANGED <<log, rec, order, fresh, parked>>, pc[t] # "idle",
           \A p \in Pulls : Pending(t, p)' => Pending(t, p)
    PROVE  LoneOK'
<1>1. Senders = {t}
  BY DEF OneSender
<1>2. NewestOK'
  BY <1>1 DEF LoneOK, NewestOK
<1>3. ASSUME NEW p \in Pulls PROVE OrderOK(p)'
  BY <1>1 DEF LoneOK, OrderOK
<1> QED
  BY <1>2, <1>3 DEF LoneOK

LEMMA LoneEnqueue ==
    ASSUME IInv, LoneOK, OneSender, NEW t \in Senders, NEW q \in Pulls, Enqueue(t, q)
    PROVE  LoneOK'
<1>1. /\ UNCHANGED <<log, pc, rec, fresh, parked>>
      /\ pc[t] = "broadcast" /\ q \in todo[t]
      /\ order' = [order EXCEPT ![q] = Append(@, rec[t])]
      /\ todo' = [todo EXCEPT ![t] = @ \ {q}]
  BY DEF Enqueue, Offered, Put, Served
<1>2. Senders = {t}
  BY DEF OneSender
<1>3. NewestOK'
  BY <1>1 DEF LoneOK, NewestOK
<1>4. /\ todo'[t] = todo[t] \ {q}
      /\ order'[q] = Append(order[q], rec[t])
      /\ \A p \in Pulls \ {q} : order'[p] = order[p]
  BY <1>1 DEF IInv, TypeOK
<1>5. rec[t] \in Nat /\ order[q] \in Seq(Nat)
  BY DEF IInv, TypeOK
<1>6. ASSUME NEW p \in Pulls PROVE OrderOK(p)'
  <2>1. OrderOK(p)
    BY DEF LoneOK
  <2>2. CASE p # q
    <3>1. Pending(t, p)' => Pending(t, p)
      BY <1>1, <1>4 DEF Pending
    <3> QED
      BY <1>1, <1>2, <1>4, <2>1, <2>2, <3>1 DEF OrderOK
  <2>3. CASE p = q
    <3> DEFINE s == Append(order[q], rec[t])
    <3>1. ~Pending(t, q)'
      BY <1>1, <1>4 DEF Pending
    <3>2. \A i \in DOMAIN order[q] : order[q][i] >= i /\ order[q][i] < rec[t]
      BY <1>1, <2>1, <2>3 DEF OrderOK, Pending
    <3>3. /\ DOMAIN order[q] = 1..Len(order[q]) /\ Len(order[q]) \in Nat
          /\ DOMAIN s = 1..(Len(order[q]) + 1)
          /\ \A i \in 1..Len(order[q]) : s[i] = order[q][i] /\ order[q][i] \in Nat
          /\ s[Len(order[q]) + 1] = rec[t]
      BY <1>5
    <3>4. rec[t] >= Len(order[q]) + 1
      <4>1. CASE Len(order[q]) = 0
        <5>1. rec[t] \in 1..Len(log)
          BY <1>1 DEF IInv, InFlightOK, Ids
        <5> QED
          BY <4>1, <5>1
      <4>2. CASE Len(order[q]) # 0
        <5>1. Len(order[q]) \in DOMAIN order[q]
          BY <3>3, <4>2
        <5> QED
          BY <1>5, <3>2, <3>3, <5>1
      <4> QED
        BY <4>1, <4>2
    <3> HIDE DEF s
    <3>5. ASSUME NEW i \in DOMAIN s PROVE s[i] >= i
      <4>1. i \in 1..Len(order[q]) \/ i = Len(order[q]) + 1
        BY <3>3
      <4> QED
        BY <3>2, <3>3, <3>4, <4>1
    <3>6. Ascending(s)
      <4>1. \A i \in DOMAIN order[q] : order[q][i] <= rec[t] - 1
        BY <1>5, <3>2, <3>3
      <4>2. rec[t] - 1 \in Nat /\ rec[t] > rec[t] - 1
        BY <1>5, <3>3, <3>4
      <4>3. Ascending(order[q])
        BY <2>1, <2>3 DEF OrderOK
      <4> QED
        BY <1>5, <4>1, <4>2, <4>3, SentGrows DEF s
    <3> QED
      BY <1>2, <1>4, <2>3, <3>1, <3>5, <3>6 DEF OrderOK, s
  <2> QED
    BY <2>2, <2>3
<1> QED
  BY <1>3, <1>6 DEF LoneOK

LEMMA LoneBroadcasting ==
    ASSUME IInv, LoneOK, OneSender, Capacity >= MaxMessages, NEW t \in Senders, Broadcasting(t)
    PROVE  LoneOK'
<1> USE DEF chanVars
<1>1. CASE CopySubs(t)
  <2>1. pc[t] = "saved"
    BY <1>1 DEF CopySubs
  <2> QED
    BY <1>1, <2>1, LoneSends DEF CopySubs, Pending
<1>2. ASSUME NEW q \in Pulls, Skip(t, q) PROVE LoneOK'
  <2>1. pc[t] = "broadcast" /\ pc' = pc /\ todo'[t] = todo[t] \ {q}
    BY <1>2 DEF Skip, Served, IInv, TypeOK
  <2> QED
    BY <1>2, <2>1, LoneSends DEF Skip, Pending
<1>3. ASSUME NEW q \in Pulls, Enqueue(t, q) PROVE LoneOK'
  BY <1>3, LoneEnqueue
<1>4. ASSUME NEW q \in Pulls, SpawnOverflow(t, q) PROVE LoneOK'
  <2>1. Pending(t, q) /\ ~HasRoom(q)
    BY <1>4 DEF SpawnOverflow, Offered, Pending
  <2> QED
    BY <2>1, RoomForPending
<1>5. ASSUME NEW q \in Pulls, SendPanics(t, q) PROVE LoneOK'
  <2>1. pc[t] = "broadcast" /\ todo' = todo /\ (pc'[t] = "aborted" \/ pc' = pc)
    BY <1>5 DEF SendPanics, Offered, IInv, TypeOK
  <2> QED
    BY <1>5, <2>1, LoneSends DEF SendPanics, Pending
<1>6. CASE SendReturn(t)
  <2>1. pc[t] = "broadcast" /\ pc'[t] = "idle"
    BY <1>6 DEF SendReturn, IInv, TypeOK
  <2> QED
    BY <1>6, <2>1, LoneSends DEF SendReturn, Pending
<1> QED
  BY <1>1, <1>2, <1>3, <1>4, <1>5, <1>6 DEF Broadcasting

(* A stream goes on: nobody waits for room, so nothing enters its channel. *)
LEMMA LoneStreams ==
    ASSUME LoneOK, UNCHANGED <<log, senderVars, fresh, order>>,
           \A q \in Pulls : parked'[q] = << >>
    PROVE  LoneOK'
BY DEF LoneOK, NewestOK, OrderOK, Pending, senderVars

LEMMA LoneInit == Init => LoneOK
BY BoundsAssumption DEF Init, LoneOK, NewestOK, OrderOK, Ascending

LEMMA LoneNext ==
    ASSUME OneSender, Capacity >= MaxMessages, IInv, LoneOK, [Next]_vars
    PROVE  LoneOK'
<1>1. fresh = {} /\ \A p \in Pulls : parked[p] = << >>
  BY DEF LoneOK, NewestOK
<1>2. ASSUME NEW p \in Pulls, Streaming(p) PROVE LoneOK'
  BY <1>1, <1>2, LoneStreams
     DEF Streaming, TakeSnapshot, DeliverStored, GoLive, Receive, Take, chanVars
<1>3. ASSUME NEW p \in Pulls, Ending(p) PROVE LoneOK'
  <2>1. UNCHANGED <<log, senderVars, fresh, order>>
    BY <1>1, <1>3 DEF Ending, SendFailsStored, SendFailsLive, NoticeDone, RemoveSubscription, Cancel,
                      Take, chanVars
  <2>2. \A q \in Pulls : parked'[q] = << >>
    BY <1>1, <1>3 DEF Ending, SendFailsStored, SendFailsLive, NoticeDone, RemoveSubscription, Cancel,
                      Take, chanVars, IInv, TypeOK
  <2> QED
    BY <2>1, <2>2, LoneStreams
<1>4. ASSUME NEW p \in Pulls, NEW id \in Markers, NEW F \in Filters, Subscribe(p, id, F)
      PROVE  LoneOK'
  BY <1>1, <1>4, LoneStreams DEF Subscribe, chanVars
<1>5. CASE UNCHANGED vars
  BY <1>1, <1>5, LoneStreams DEF vars, chanVars
<1> QED
  BY <1>1, <1>2, <1>3, <1>4, <1>5, LoneSave, LoneBroadcasting DEF Next

(* With a single sender and room for all it sends nothing is skipped: the  *)
(* skip of Pull's rec.ID <= lastSent needs two Sends that broadcast in     *)
(* another order than they stored, or goroutines that wait for room.       *)
THEOREM OneSenderSkipsNothing ==
    ASSUME OneSender, Capacity >= MaxMessages PROVE Spec => []NothingSkipped
<1>1. Init => IInv /\ DeliveryOK /\ LoneOK
  BY InvInit, DeliveryInit, LoneInit
<1>2. (IInv /\ DeliveryOK /\ LoneOK) /\ [Next]_vars => (IInv /\ DeliveryOK /\ LoneOK)'
  BY LoneNext, TypeNext, InFlightNext, StreamsNext, DeliveryNext DEF IInv
<1>3. IInv /\ DeliveryOK /\ LoneOK => NothingSkipped
  <2> SUFFICES ASSUME IInv, DeliveryOK, LoneOK, NEW p \in Pulls, stage[p] = "live", ~ctxDone[p],
                      NEW id \in Ids, id <= lastSent[p], Wanted(p, id)
               PROVE  id \in SentIds(p)
    BY DEF NothingSkipped
  <2>1. LiveOK(log, "live", since[p], filter[p], ch[p], order[p], lastSent[p], sent[p])
    BY DEF IInv, StreamsOK, StreamOK
  <2>2. Asked(log, since[p], filter[p], id) /\ id \in 1..Len(log)
    BY DEF Wanted, Asked, Ids
  <2>3. Within(sent[p], id) \/ Passed(order[p], id)
    BY <2>1, <2>2 DEF LiveOK
  <2>4. Reached(p, id)
    BY <2>2 DEF DeliveryOK, ReachedOK, Reading
  <2>5. ASSUME Passed(order[p], id) PROVE Within(sent[p], id)
    <3>1. PICK i \in DOMAIN order[p] : order[p][i] > id /\ \A j \in 1..i : order[p][j] # id
      BY <2>5 DEF Passed
    <3>2. DOMAIN order[p] = 1..Len(order[p]) /\ \A k \in DOMAIN order[p] : order[p][k] \in 1..Len(log)
      BY StreamTypes, OrderIds DEF IInv
    <3>3. ~Within(order[p], id)
      <4> SUFFICES ASSUME NEW j \in DOMAIN order[p], order[p][j] = id PROVE FALSE
        BY DEF Within
      <4>1. i < j
        BY <3>1, <3>2
      <4>2. order[p][i] < order[p][j]
        BY <4>1 DEF LoneOK, OrderOK, Ascending
      <4> QED
        BY <2>2, <3>1, <3>2, <4>2
    <3>4. ~Coming(p, id)
      <4> SUFFICES ASSUME NEW t \in Senders, rec[t] = id, pc[t] # "idle" PROVE FALSE
        BY DEF Coming, Pending
      <4>1. id = Len(log)
        BY DEF LoneOK, NewestOK
      <4> QED
        BY <2>2, <3>1, <3>2, <4>1
    <3>5. ~Overflowed(p, id)
      BY DEF LoneOK, NewestOK, Overflowed, Within
    <3> QED
      BY <2>4, <3>3, <3>4, <3>5 DEF Reached
  <2> QED
    BY <2>3, <2>5 DEF Within, SentIds
<1> QED
  BY <1>1, <1>2, <1>3, PTL DEF Spec

-------------------------------------------------------------------------------
(* Panics.                                                                 *)

(* A channel is closed, and anybody panics, only where a Pull has returned.*)
PanicsOK == /\ \A p \in Pulls : closed[p] => stage[p] = "ended"
            /\ crashed \/ (\E t \in Senders : pc[t] = "aborted") => \E p \in Pulls : stage[p] = "ended"

LEMMA EndsForGood ==
    ASSUME TypeOK, Next, NEW p \in Pulls, stage[p] = "ended"
    PROVE  stage'[p] = "ended"
BY DEF TypeOK, Next, Save, Broadcasting, CopySubs, Skip, Enqueue, SpawnOverflow, SendPanics, SendReturn,
       Overflowing, OverflowSend, OverflowPark, OverflowGiveUp, OverflowPanics, Subscribe,
       Streaming, TakeSnapshot, DeliverStored, GoLive, Receive,
       Ending, SendFailsStored, SendFailsLive, NoticeDone, RemoveSubscription, Cancel, Return, streamVars

LEMMA PanicsNext == ASSUME TypeOK, PanicsOK, Next PROVE PanicsOK'
<1>1. \A p \in Pulls : stage[p] = "ended" => stage'[p] = "ended"
  BY EndsForGood
<1>2. ASSUME UNCHANGED closed,
             \/ crashed' = crashed /\ \A t \in Senders : pc'[t] = "aborted" => pc[t] = "aborted"
             \/ \E p \in Pulls : closed[p]
      PROVE  PanicsOK'
  BY <1>1, <1>2 DEF PanicsOK
<1> USE DEF TypeOK, streamVars, chanVars, pullVars, senderVars
<1>3. ASSUME NEW t \in Senders, NEW c \in Conversations, Save(t, c) PROVE PanicsOK'
  BY <1>2, <1>3 DEF Save
<1>4. ASSUME NEW t \in Senders, Broadcasting(t) PROVE PanicsOK'
  <2>1. CASE \E p \in Pulls : SendPanics(t, p)
    BY <1>2, <2>1 DEF SendPanics
  <2>2. CASE ~\E p \in Pulls : SendPanics(t, p)
    BY <1>2, <1>4, <2>2 DEF Broadcasting, CopySubs, Skip, Enqueue, SpawnOverflow, SendReturn
  <2> QED
    BY <2>1, <2>2
<1>5. ASSUME NEW g \in fresh, Overflowing(g) PROVE PanicsOK'
  <2>1. g.sub \in Pulls
    BY DEF Goroutine
  <2> QED
    BY <1>2, <1>5, <2>1 DEF Overflowing, OverflowSend, OverflowPark, OverflowGiveUp, OverflowPanics
<1>6. ASSUME NEW p \in Pulls, NEW id \in Markers, NEW F \in Filters, Subscribe(p, id, F)
      PROVE  PanicsOK'
  BY <1>2, <1>6 DEF Subscribe
<1>7. ASSUME NEW p \in Pulls, Streaming(p) PROVE PanicsOK'
  BY <1>2, <1>7 DEF Streaming, TakeSnapshot, DeliverStored, GoLive, Receive
<1>8. ASSUME NEW p \in Pulls, Ending(p) PROVE PanicsOK'
  <2>1. CASE RemoveSubscription(p)
    <3>1. stage'[p] = "ended" /\ \A q \in Pulls \ {p} : closed'[q] = closed[q]
      BY <2>1 DEF RemoveSubscription
    <3> QED
      BY <1>1, <3>1 DEF PanicsOK
  <2>2. CASE ~RemoveSubscription(p)
    BY <1>2, <1>8, <2>2 DEF Ending, SendFailsStored, SendFailsLive, NoticeDone, Cancel
  <2> QED
    BY <2>1, <2>2
<1> QED
  BY <1>3, <1>4, <1>5, <1>6, <1>7, <1>8 DEF Next

(* Nothing panics as long as no Pull has returned: a Send that has stored  *)
(* its envelope comes back, and the server goes on (removeSubscription).   *)
THEOREM NoPanicWithoutReturn ==
    Spec => []((\A p \in Pulls : stage[p] # "ended") => StoredSendReturns /\ ~crashed)
<1>1. Init => PanicsOK
  BY DEF Init, PanicsOK
<1>2. TypeOK /\ PanicsOK /\ [Next]_vars => (TypeOK /\ PanicsOK)'
  <2>1. ASSUME PanicsOK, UNCHANGED vars PROVE PanicsOK'
    BY <2>1 DEF PanicsOK, vars, senderVars, streamVars, chanVars
  <2> QED
    BY <2>1, TypeNext, PanicsNext
<1>3. PanicsOK => ((\A p \in Pulls : stage[p] # "ended") => StoredSendReturns /\ ~crashed)
  BY DEF PanicsOK, StoredSendReturns
<1> QED
  BY <1>1, <1>2, <1>3, TypeInit, PTL DEF Spec
===============================================================================
