--------------------------- MODULE ClientSyncProofs ---------------------------
(***************************************************************************)
(* Theorems about ClientSync for every set of conversations and            *)
(* connections and every bound: nothing is shown twice; and what a client  *)
(* misses, or shows out of the server's order, an own message overtook.    *)
(***************************************************************************)
EXTENDS ClientSync, SequenceTheorems, TLAPS

NoRepeats(conversations) ==
    \A c \in Conversations : \A i, j \in DOMAIN conversations[c] :
        i # j => conversations[c][i] # conversations[c][j]

(* A copy of part of what the server stored; latestServerMessageId finds   *)
(* its last message.                                                       *)
CopyOK(conversations) ==
    /\ Shown(conversations) \subseteq 1..Len(log)
    /\ \E m \in {0} \cup Shown(conversations) : \A id \in Shown(conversations) : id <= m
    /\ NoRepeats(conversations)

ViewOK == known = Shown(view) /\ CopyOK(view)

(* Replies name messages the server has; a client that is not running has  *)
(* nothing under way.                                                      *)
WireOK == /\ \A n \in Connections :
              /\ wire[n].kind = "history" => wire[n].ids \in Seq(1..Len(log))
              /\ wire[n].kind = "posted" => wire[n].id \in 1..Len(log)
          /\ pending \in Seq(1..Len(log))
          /\ ~handling => pending = << >>
          /\ ~running => /\ \A n \in Connections : wire[n] = Free
                         /\ ~handling

IInv == TypeOK /\ ViewOK /\ CopyOK(cache) /\ WireOK

-------------------------------------------------------------------------------
(* Messages cover what the server has up to an identifier when all the     *)
(* visible ones are among them, but for those an own one overtook.         *)
Covers(server, fast, messages, last) ==
    \A id \in 1..last : server[id] \in Visible =>
        id \in messages \/ \E d \in fast \cap messages : id < d /\ d <= last

Run(a, b) == [i \in 1..(b - a) |-> a + i]

(* A reply continues where the client's messages leave no other gap.       *)
Continues(server, fast, messages, ids, last) ==
    \E a, b \in 0..Len(server) : /\ a <= b
                                 /\ ids = Run(a, b)
                                 /\ last \in {0, b}
                                 /\ Covers(server, fast, messages, a)

RequestsOK == \A n \in Connections :
                  /\ wire[n].kind = "get" => /\ wire[n].since \in 0..Len(log)
                                             /\ Covers(log, own, known, wire[n].since)
                  /\ wire[n].kind = "history" =>
                        Continues(log, own, known, wire[n].ids, wire[n].last)

HandlingOK == handling => Continues(log, own, known, pending, lastId)

CursorOK == cursor \in 0..Len(log) /\ Covers(log, own, known, cursor)

(* Every message shown covers what is before it.                           *)
Gapless(server, fast, conversations) ==
    \A id \in Shown(conversations) : Covers(server, fast, Shown(conversations), id)

(* What is shown out of order an own message that is shown overtook.       *)
InOrder(fast, conversations) ==
    \A c \in Conversations : \A i, j \in DOMAIN conversations[c] :
        i < j => \/ conversations[c][i] < conversations[c][j]
                 \/ \E d \in fast \cap Shown(conversations) :
                        conversations[c][j] < d /\ d <= conversations[c][i]

FineCopy(server, fast, conversations) ==
    Gapless(server, fast, conversations) /\ InOrder(fast, conversations)

OInv == /\ RequestsOK
        /\ HandlingOK
        /\ CursorOK
        /\ FineCopy(log, own, view)
        /\ FineCopy(log, own, cache)

-------------------------------------------------------------------------------
(* The last of a set of messages is its greatest element.                  *)
LEMMA LatestIsGreatest ==
    ASSUME NEW S \in SUBSET Nat, NEW m \in {0} \cup S, \A id \in S : id <= m
    PROVE  Latest(S) = m
<1> DEFINE T == {0} \cup S
<1>1. m \in T /\ \A y \in T : m >= y
  OBVIOUS
<1>2. \A x \in T : (\A y \in T : x >= y) => x = m
  <2> SUFFICES ASSUME NEW x \in T, \A y \in T : x >= y PROVE x = m
    OBVIOUS
  <2>1. x >= m /\ m >= x /\ x \in Nat /\ m \in Nat
    BY <1>1
  <2> QED
    BY <2>1
<1>3. Max(T) = m
  <2> HIDE DEF T
  <2> QED
    BY <1>1, <1>2 DEF Max
<1> QED
  BY <1>3 DEF Latest

(* Appending a message to one conversation shows that message besides.     *)
LEMMA ShownAppend ==
    ASSUME NEW v \in [Conversations -> Seq(Nat)], NEW c \in Conversations, NEW id \in Nat,
           NEW w, w = [v EXCEPT ![c] = Append(@, id)]
    PROVE  /\ w \in [Conversations -> Seq(Nat)]
           /\ Shown(w) = Shown(v) \cup {id}
<1>1. w \in [Conversations -> Seq(Nat)]
  OBVIOUS
<1>2. v[c] \in Seq(Nat) /\ w[c] = Append(v[c], id)
  OBVIOUS
<1>3. ToSet(w[c]) = ToSet(v[c]) \cup {id}
  <2>1. DOMAIN v[c] = 1..Len(v[c]) /\ Len(v[c]) \in Nat
    BY <1>2
  <2>2. DOMAIN w[c] = 1..(Len(v[c]) + 1)
    BY <1>2
  <2>3. (\A i \in DOMAIN v[c] : w[c][i] = v[c][i]) /\ w[c][Len(v[c]) + 1] = id
    BY <1>2
  <2> QED
    BY <2>1, <2>2, <2>3 DEF ToSet
<1>4. \A d \in Conversations : d # c => ToSet(w[d]) = ToSet(v[d])
  OBVIOUS
<1>5. \A x : x \in Shown(w) <=> x \in Shown(v) \/ x = id
  <2>1. \A x : x \in Shown(w) <=> \E d \in Conversations : x \in ToSet(w[d])
    BY DEF Shown
  <2>2. \A x : x \in Shown(v) <=> \E d \in Conversations : x \in ToSet(v[d])
    BY DEF Shown
  <2> QED
    BY <1>3, <1>4, <2>1, <2>2, Zenon
<1> QED
  BY <1>1, <1>5

(* Adding a message that is not shown keeps a copy a copy.                 *)
LEMMA CopyAppend ==
    ASSUME NEW v \in [Conversations -> Seq(Nat)], CopyOK(v), Len(log) \in Nat,
           NEW c \in Conversations, NEW id \in 1..Len(log), id \notin Shown(v),
           NEW w, w = [v EXCEPT ![c] = Append(@, id)]
    PROVE  CopyOK(w)
<1>1. /\ w \in [Conversations -> Seq(Nat)]
      /\ Shown(w) = Shown(v) \cup {id}
  <2>1. id \in Nat
    OBVIOUS
  <2> QED
    BY <2>1, ShownAppend
<1>2. \E m \in {0} \cup Shown(w) : \A x \in Shown(w) : x <= m
  <2>1. PICK m \in {0} \cup Shown(v) : \A x \in Shown(v) : x <= m
    BY DEF CopyOK
  <2>2. Shown(v) \subseteq Nat /\ m \in Nat /\ id \in Nat
    <3>1. Shown(v) \subseteq 1..Len(log)
      BY DEF CopyOK
    <3> QED
      BY <3>1
  <2>3. CASE id <= m
    <3>1. m \in {0} \cup Shown(w) /\ \A x \in Shown(w) : x <= m
      BY <2>1, <2>3, <1>1
    <3> QED
      BY <3>1
  <2>4. CASE ~(id <= m)
    <3>1. ASSUME NEW x \in Shown(v) PROVE x <= id
      BY <2>1, <2>2, <2>4
    <3>2. id \in Shown(w) /\ \A x \in Shown(w) : x \in Shown(v) \/ x = id
      BY <1>1
    <3>3. id <= id
      BY <2>2
    <3>4. \A x \in Shown(w) : x <= id
      BY <3>1, <3>2, <3>3
    <3> QED
      BY <3>2, <3>4
  <2> QED
    BY <2>3, <2>4
<1>3. NoRepeats(w)
  <2> SUFFICES ASSUME NEW d \in Conversations, NEW i \in DOMAIN w[d], NEW j \in DOMAIN w[d], i # j
               PROVE  w[d][i] # w[d][j]
    BY DEF NoRepeats
  <2>1. CASE d # c
    BY <2>1 DEF CopyOK, NoRepeats
  <2>2. CASE d = c
    <3>1. v[c] \in Seq(Nat) /\ w[c] = Append(v[c], id)
      OBVIOUS
    <3>2. \A k \in DOMAIN v[c] : v[c][k] # id
      BY DEF Shown, ToSet
    <3>3. \A k, l \in DOMAIN v[c] : k # l => v[c][k] # v[c][l]
      BY DEF CopyOK, NoRepeats
    <3>4. DOMAIN v[c] = 1..Len(v[c]) /\ Len(v[c]) \in Nat
      BY <3>1
    <3>5. DOMAIN w[c] = 1..(Len(v[c]) + 1)
      BY <3>1
    <3>6. (\A k \in DOMAIN v[c] : w[c][k] = v[c][k]) /\ w[c][Len(v[c]) + 1] = id
      BY <3>1
    <3> QED
      BY <2>2, <3>2, <3>3, <3>4, <3>5, <3>6
  <2> QED
    BY <2>1, <2>2
<1> QED
  BY <1>1, <1>2, <1>3 DEF CopyOK

(* What addServerMessage does to the copies of a client.                   *)
LEMMA AddKeepsCopies ==
    ASSUME TypeOK, ViewOK, CopyOK(cache), NEW id \in 1..Len(log), New(id), Add(id), log' = log
    PROVE  /\ view' \in [Conversations -> Seq(Nat)]
           /\ known' \subseteq Nat
           /\ cursor' \in Nat
           /\ cache' \in [Conversations -> Seq(Nat)]
           /\ ViewOK'
           /\ CopyOK(cache)'
<1>1. log[id] \in Conversations /\ Len(log) \in Nat /\ id \in Nat
  BY DEF TypeOK
<1>2. /\ view \in [Conversations -> Seq(Nat)]
      /\ view' = [view EXCEPT ![log[id]] = Append(@, id)]
  BY DEF TypeOK, Add
<1>3. view' \in [Conversations -> Seq(Nat)] /\ Shown(view') = Shown(view) \cup {id}
  BY <1>1, <1>2, ShownAppend
<1>4. CopyOK(view') /\ CopyOK(cache)
  BY <1>1, <1>2, CopyAppend DEF ViewOK, New
<1>5. cache' \in {view', cache} /\ known' = known \cup {id}
  BY DEF Add, Remember
<1>6. cursor' \in Nat
  BY <1>1 DEF Add, Advance, TypeOK
<1>7. CopyOK(view)' /\ CopyOK(cache)'
  BY <1>4, <1>5 DEF CopyOK
<1>8. ViewOK'
  BY <1>3, <1>5, <1>7 DEF ViewOK, Shown
<1> QED
  BY <1>1, <1>3, <1>5, <1>6, <1>7, <1>8 DEF TypeOK

(* The server's log only grows, so what was true of its messages stays so. *)
LEMMA LogGrows ==
    ASSUME log \in Seq(Conversations), NEW c \in Conversations, log' = Append(log, c)
    PROVE  /\ log' \in Seq(Conversations)
           /\ Len(log) \in Nat
           /\ Len(log') = Len(log) + 1
           /\ 1..Len(log) \subseteq 1..Len(log')
           /\ Seq(1..Len(log)) \subseteq Seq(1..Len(log'))
           /\ \A id \in 1..Len(log) : log'[id] = log[id]
<1>1. 1..Len(log) \subseteq 1..Len(log') /\ Len(log) \in Nat
  OBVIOUS
<1>2. Seq(1..Len(log)) \subseteq Seq(1..Len(log'))
  <2> SUFFICES ASSUME NEW s \in Seq(1..Len(log)) PROVE s \in Seq(1..Len(log'))
    OBVIOUS
  <2> QED
    BY <1>1
<1> QED
  BY <1>1, <1>2

LEMMA CopyStays ==
    ASSUME NEW v, CopyOK(v), log \in Seq(Conversations), NEW c \in Conversations,
           log' = Append(log, c), v' = v
    PROVE  CopyOK(v)'
BY LogGrows DEF CopyOK, NoRepeats, Shown

(* What ForEachSince returns: the messages above since, the newest of      *)
(* which is the newest of the log.                                         *)
LEMMA AfterFacts ==
    ASSUME log \in Seq(Conversations), NEW since \in Nat
    PROVE  /\ After(since) \in Seq(1..Len(log))
           /\ Latest(ToSet(After(since))) = IF since < Len(log) THEN Len(log) ELSE 0
<1>1. Len(log) \in Nat
  OBVIOUS
<1>2. CASE since < Len(log)
  <2>1. Len(log) - since \in Nat
    BY <1>1, <1>2
  <2>2. After(since) \in Seq(1..Len(log))
    BY <2>1, <1>1 DEF After
  <2>3. ToSet(After(since)) = (since + 1)..Len(log)
    BY <2>1, <1>1 DEF After, ToSet
  <2>4. Latest((since + 1)..Len(log)) = Len(log)
    <3>1. (since + 1)..Len(log) \in SUBSET Nat /\ Len(log) \in {0} \cup (since + 1)..Len(log)
      BY <1>1, <1>2
    <3>2. \A id \in (since + 1)..Len(log) : id <= Len(log)
      BY <1>1
    <3> QED
      BY <3>1, <3>2, LatestIsGreatest
  <2> QED
    BY <1>2, <2>2, <2>3, <2>4
<1>3. CASE ~(since < Len(log))
  <2>1. 1..(Len(log) - since) = {}
    BY <1>1, <1>3
  <2>2. After(since) = << >>
    BY <2>1 DEF After
  <2>3. ToSet(After(since)) = {} /\ After(since) \in Seq(1..Len(log))
    BY <2>2 DEF ToSet
  <2>4. Latest({}) = 0
    BY LatestIsGreatest
  <2> QED
    BY <1>3, <2>3, <2>4
<1> QED
  BY <1>2, <1>3

-------------------------------------------------------------------------------
LEMMA InitInv == Init => IInv
<1> SUFFICES ASSUME Init PROVE IInv
  OBVIOUS
<1>1. Shown(NoMessages) = {}
  BY DEF Shown, NoMessages, ToSet
<1>2. TypeOK
  <2>1. Free \in Traffic /\ NoMessages \in [Conversations -> Seq(Nat)]
    BY DEF Traffic, NoMessages
  <2>2. wire \in [Connections -> Traffic]
    BY <2>1 DEF Init
  <2>3. log \in Seq(Conversations) /\ pending \in Seq(Nat)
    BY DEF Init
  <2>4. view \in [Conversations -> Seq(Nat)] /\ cache \in [Conversations -> Seq(Nat)]
    BY <2>1 DEF Init
  <2>5. /\ running \in BOOLEAN /\ handling \in BOOLEAN /\ known \subseteq Nat
        /\ cursor \in Nat /\ lastId \in Nat /\ own \subseteq Nat
    BY DEF Init
  <2> QED
    BY <2>2, <2>3, <2>4, <2>5 DEF TypeOK
<1>3. CopyOK(view) /\ CopyOK(cache)
  BY <1>1 DEF Init, CopyOK, NoRepeats, NoMessages
<1>4. WireOK
  BY DEF Init, WireOK, Free
<1> QED
  BY <1>1, <1>2, <1>3, <1>4 DEF Init, IInv, ViewOK

LEMMA ServerInv == ASSUME IInv, Server PROVE IInv'
<1> USE DEF IInv
<1>1. ASSUME NEW c \in Conversations, OtherSends(c) PROVE IInv'
  <2>1. log' = Append(log, c) /\ log \in Seq(Conversations) /\ UNCHANGED <<wire, client, cache>>
    BY <1>1 DEF OtherSends, TypeOK
  <2>2. TypeOK'
    BY <2>1, LogGrows DEF TypeOK, client
  <2>3. ViewOK' /\ CopyOK(cache)'
    BY <2>1, CopyStays DEF ViewOK, client, Shown
  <2>4. WireOK'
    BY <2>1, LogGrows DEF WireOK, client
  <2> QED
    BY <2>2, <2>3, <2>4
<1>2. ASSUME NEW n \in Connections, AnswerGet(n) PROVE IInv'
  <2> DEFINE ids == After(wire[n].since)
             reply == [kind |-> "history", ids |-> ids, last |-> Latest(ToSet(ids))]
  <2>1. wire' = [wire EXCEPT ![n] = reply] /\ UNCHANGED <<log, client, cache>>
    BY <1>2 DEF AnswerGet
  <2>2. wire[n].since \in Nat /\ wire[n] # Free
    BY <1>2 DEF AnswerGet, TypeOK, Traffic, Free
  <2>3. ids \in Seq(1..Len(log)) /\ Latest(ToSet(ids)) \in Nat
    <3>1. log \in Seq(Conversations) /\ Len(log) \in Nat
      BY DEF TypeOK
    <3>2. Latest(ToSet(ids)) = IF wire[n].since < Len(log) THEN Len(log) ELSE 0
      BY <2>2, <3>1, AfterFacts
    <3> QED
      BY <2>2, <3>1, <3>2, AfterFacts
  <2>4. reply \in Traffic
    BY <2>3 DEF Traffic
  <2>5. TypeOK'
    BY <2>1, <2>4 DEF TypeOK, client
  <2>6. ViewOK' /\ CopyOK(cache)'
    BY <2>1 DEF ViewOK, CopyOK, NoRepeats, Shown, client
  <2>7. WireOK'
    BY <2>1, <2>2, <2>3 DEF WireOK, TypeOK, client
  <2> QED
    BY <2>5, <2>6, <2>7
<1>3. ASSUME NEW n \in Connections, AnswerPost(n) PROVE IInv'
  <2> DEFINE c == wire[n].conv
             reply == [kind |-> "posted", id |-> Len(log) + 1]
  <2>1. /\ log' = Append(log, c) /\ log \in Seq(Conversations)
        /\ wire' = [wire EXCEPT ![n] = reply]
        /\ UNCHANGED <<client, cache>>
    BY <1>3 DEF AnswerPost, TypeOK
  <2>2. c \in Conversations /\ wire[n] # Free
    BY <1>3 DEF AnswerPost, TypeOK, Traffic, Free
  <2>3. reply \in Traffic
    BY <2>1, <2>2, LogGrows DEF Traffic
  <2>4. TypeOK'
    BY <2>1, <2>2, <2>3, LogGrows DEF TypeOK, client
  <2>5. ViewOK' /\ CopyOK(cache)'
    BY <2>1, <2>2, CopyStays DEF ViewOK, client, Shown
  <2>6. WireOK'
    BY <2>1, <2>2, LogGrows DEF WireOK, TypeOK, client
  <2> QED
    BY <2>4, <2>5, <2>6
<1> QED
  BY <1>1, <1>2, <1>3 DEF Server

(* A step that changes neither the log nor the copies.                     *)
LEMMA CopiesStay ==
    ASSUME ViewOK, CopyOK(cache), UNCHANGED <<log, view, known, cache>>
    PROVE  ViewOK' /\ CopyOK(cache)'
BY DEF ViewOK, CopyOK, NoRepeats, Shown

LEMMA ReceiveInv ==
    ASSUME IInv, NEW n \in Connections, ReceivePosted(n) \/ ReceiveHistory(n)
    PROVE  IInv'
<1> USE DEF IInv
<1>1. Free \in Traffic /\ wire' = [wire EXCEPT ![n] = Free] /\ log' = log /\ running
  BY DEF ReceivePosted, ReceiveHistory, Ready, Traffic
<1>2. wire' \in [Connections -> Traffic]
  BY <1>1 DEF TypeOK
<1>3. \A k \in Connections : wire'[k] = wire[k] \/ wire'[k].kind = "free"
  BY <1>1 DEF TypeOK, Free
<1>4. CASE ReceivePosted(n) /\ New(wire[n].id)
  <2>1. /\ wire[n].id \in 1..Len(log) /\ Add(wire[n].id)
        /\ own' = own \cup {wire[n].id}
        /\ UNCHANGED <<running, handling, pending, lastId>>
    BY <1>4 DEF ReceivePosted, WireOK
  <2>2. own' \subseteq Nat
    <3>1. own \subseteq Nat /\ 1..Len(log) \subseteq Nat
      BY DEF TypeOK
    <3> QED
      BY <2>1, <3>1, Zenon
  <2>3. TypeOK' /\ ViewOK' /\ CopyOK(cache)'
    BY <1>1, <1>2, <1>4, <2>1, <2>2, AddKeepsCopies DEF TypeOK
  <2>4. WireOK'
    BY <1>1, <1>3, <2>1 DEF WireOK
  <2> QED
    BY <2>3, <2>4
<1>5. CASE ReceivePosted(n) /\ ~New(wire[n].id)
  <2>1. UNCHANGED <<log, running, view, known, cursor, cache, handling, pending, lastId, own>>
    BY <1>5 DEF ReceivePosted
  <2>2. TypeOK'
    BY <1>2, <2>1 DEF TypeOK
  <2>3. WireOK'
    BY <1>1, <1>3, <2>1 DEF WireOK
  <2> QED
    BY <2>1, <2>2, <2>3, CopiesStay
<1>6. CASE ReceiveHistory(n)
  <2>1. /\ UNCHANGED <<log, running, view, known, cursor, cache, own>>
        /\ handling' = TRUE /\ pending' = wire[n].ids /\ lastId' = wire[n].last
    BY <1>6 DEF ReceiveHistory
  <2>2. wire[n].ids \in Seq(Nat) /\ wire[n].last \in Nat
    <3>1. wire[n] \in Traffic /\ wire[n].kind = "history"
      BY <1>6 DEF ReceiveHistory, TypeOK
    <3>2. wire[n] \in [kind : {"history"}, ids : Seq(Nat), last : Nat]
      BY <3>1 DEF Traffic, Free
    <3> QED
      BY <3>2
  <2>3. wire[n].ids \in Seq(1..Len(log))
    BY <1>6 DEF ReceiveHistory, WireOK
  <2>4. TypeOK'
    BY <1>2, <2>1, <2>2 DEF TypeOK
  <2>5. WireOK'
    BY <1>1, <1>3, <2>1, <2>3 DEF WireOK
  <2> QED
    BY <2>1, <2>4, <2>5, CopiesStay
<1> QED
  BY <1>4, <1>5, <1>6

LEMMA HandlingInv == ASSUME IInv, AddNext \/ FinishHistory PROVE IInv'
<1> USE DEF IInv
<1>1. CASE AddNext
  <2> DEFINE id == Head(pending)
  <2>1. /\ UNCHANGED <<log, wire, running, handling, lastId, own>>
        /\ handling /\ pending # << >> /\ pending' = Tail(pending)
    BY <1>1 DEF AddNext
  <2>2. /\ pending \in Seq(1..Len(log)) /\ pending \in Seq(Nat)
        /\ id \in 1..Len(log)
        /\ pending' \in Seq(1..Len(log)) /\ pending' \in Seq(Nat)
    BY <2>1 DEF WireOK, TypeOK
  <2>3. WireOK'
    BY <2>1, <2>2 DEF WireOK
  <2>4. CASE New(id)
    <3>1. Add(id)
      BY <1>1, <2>4 DEF AddNext
    <3> HIDE DEF id
    <3>2. TypeOK' /\ ViewOK' /\ CopyOK(cache)'
      BY <2>1, <2>2, <2>4, <3>1, AddKeepsCopies DEF TypeOK
    <3> QED
      BY <2>3, <3>2
  <2>5. CASE ~New(id)
    <3>1. UNCHANGED <<view, known, cursor, cache>>
      BY <1>1, <2>5 DEF AddNext
    <3>2. TypeOK'
      BY <2>1, <2>2, <3>1 DEF TypeOK
    <3> QED
      BY <2>1, <2>3, <3>1, <3>2, CopiesStay
  <2> QED
    BY <2>4, <2>5
<1>2. CASE FinishHistory
  <2>1. TypeOK'
    BY <1>2 DEF FinishHistory, Advance, TypeOK
  <2>2. WireOK'
    BY <1>2 DEF FinishHistory, WireOK
  <2> QED
    BY <1>2, <2>1, <2>2, CopiesStay DEF FinishHistory
<1> QED
  BY <1>1, <1>2

(* A start takes the local file for what is shown.                         *)
LEMMA LoadKeepsCopies ==
    ASSUME TypeOK, CopyOK(cache), Load
    PROVE  /\ view' \in [Conversations -> Seq(Nat)]
           /\ known' \subseteq Nat
           /\ cursor' \in Nat
           /\ own' \subseteq Nat
           /\ ViewOK'
           /\ CopyOK(cache)'
<1>1. /\ UNCHANGED <<log, handling, pending, lastId, cache>>
      /\ view' = cache /\ known' = Shown(cache) /\ cursor' = Latest(Shown(cache))
      /\ own' = own \cap Shown(cache)
  BY DEF Load
<1>2. Shown(cache) \subseteq Nat
  BY DEF CopyOK
<1>3. cursor' \in Nat
  <2>1. PICK m \in {0} \cup Shown(cache) : \A id \in Shown(cache) : id <= m
    BY DEF CopyOK
  <2>2. Latest(Shown(cache)) = m
    BY <1>2, <2>1, LatestIsGreatest
  <2> QED
    BY <1>1, <1>2, <2>2
<1>4. CopyOK(cache)' /\ CopyOK(view)' /\ Shown(view)' = Shown(cache)
  BY <1>1 DEF CopyOK, NoRepeats, Shown
<1> QED
  BY <1>1, <1>2, <1>3, <1>4 DEF TypeOK, ViewOK

LEMMA ClientInv == ASSUME IInv, Client PROVE IInv'
<1> USE DEF IInv
<1>1. ASSUME NEW n \in Connections, Poll(n) PROVE IInv'
  <2> DEFINE request == [kind |-> "get", since |-> cursor]
  <2>1. Ready /\ wire' = [wire EXCEPT ![n] = request] /\ UNCHANGED <<log, client, cache>>
    BY <1>1 DEF Poll, Request
  <2>2. request \in Traffic
    BY DEF Traffic, TypeOK
  <2>3. TypeOK'
    BY <2>1, <2>2 DEF TypeOK, client
  <2>4. WireOK'
    BY <2>1 DEF WireOK, TypeOK, Ready, client
  <2> QED
    BY <2>1, <2>3, <2>4, CopiesStay DEF client
<1>2. ASSUME NEW n \in Connections, NEW c \in Visible, Post(n, c) PROVE IInv'
  <2> DEFINE request == [kind |-> "post", conv |-> c]
  <2>1. Ready /\ wire' = [wire EXCEPT ![n] = request] /\ UNCHANGED <<log, client, cache>>
    BY <1>2 DEF Post, Request
  <2>2. request \in Traffic
    BY VisibleAssumption DEF Traffic
  <2>3. TypeOK'
    BY <2>1, <2>2 DEF TypeOK, client
  <2>4. WireOK'
    BY <2>1 DEF WireOK, TypeOK, Ready, client
  <2> QED
    BY <2>1, <2>3, <2>4, CopiesStay DEF client
<1>3. ASSUME NEW n \in Connections, StartOnline(n) PROVE IInv'
  <2> DEFINE request == [kind |-> "get", since |-> 0]
  <2>1. Load /\ wire' = [wire EXCEPT ![n] = request]
    BY <1>3 DEF StartOnline, Request
  <2>2. request \in Traffic
    BY DEF Traffic
  <2>3. TypeOK' /\ ViewOK' /\ CopyOK(cache)'
    BY <2>1, <2>2, LoadKeepsCopies DEF TypeOK, Load
  <2>4. WireOK'
    BY <2>1 DEF WireOK, TypeOK, Load
  <2> QED
    BY <2>3, <2>4
<1>4. ASSUME StartOffline PROVE IInv'
  <2>1. Load /\ wire' = wire
    BY <1>4 DEF StartOffline
  <2>2. TypeOK' /\ ViewOK' /\ CopyOK(cache)'
    BY <2>1, LoadKeepsCopies DEF TypeOK, Load
  <2>3. WireOK'
    BY <2>1 DEF WireOK, Load
  <2> QED
    BY <2>2, <2>3
<1> QED
  BY <1>1, <1>2, <1>3, <1>4, ReceiveInv, HandlingInv DEF Client

(* A lost request or reply, and the end of the process.                    *)
LEMMA FaultInv == ASSUME IInv, (\E n \in Connections : Lose(n)) \/ Kill PROVE IInv'
<1> USE DEF IInv
<1>1. Free \in Traffic
  BY DEF Traffic
<1>2. ASSUME NEW n \in Connections, Lose(n) PROVE IInv'
  <2>1. wire' = [wire EXCEPT ![n] = Free] /\ UNCHANGED <<log, client, cache>>
    BY <1>2 DEF Lose
  <2>2. TypeOK'
    BY <1>1, <2>1 DEF TypeOK, client
  <2>3. WireOK'
    <3>1. \A k \in Connections : wire'[k] = wire[k] \/ wire'[k] = Free
      BY <2>1 DEF TypeOK
    <3>2. Free.kind = "free"
      BY DEF Free
    <3> QED
      BY <2>1, <3>1, <3>2 DEF WireOK, client
  <2> QED
    BY <2>1, <2>2, <2>3, CopiesStay DEF client
<1>3. ASSUME Kill PROVE IInv'
  <2>1. NoMessages \in [Conversations -> Seq(Nat)] /\ Shown(NoMessages) = {}
    BY DEF NoMessages, Shown, ToSet
  <2>2. wire' \in [Connections -> Traffic]
    BY <1>1, <1>3 DEF Kill
  <2>3. TypeOK'
    <3>1. pending' \in Seq(Nat) /\ view' \in [Conversations -> Seq(Nat)]
      BY <1>3, <2>1 DEF Kill
    <3>2. /\ running' \in BOOLEAN /\ handling' \in BOOLEAN /\ known' \subseteq Nat
          /\ cursor' \in Nat /\ lastId' \in Nat
          /\ UNCHANGED <<log, cache, own>>
      BY <1>3 DEF Kill
    <3> QED
      BY <2>2, <3>1, <3>2 DEF TypeOK
  <2>4. CopyOK(cache)'
    BY <1>3 DEF Kill, CopyOK, NoRepeats, Shown
  <2>5. ViewOK'
    <3>1. view' = NoMessages /\ known' = {}
      BY <1>3 DEF Kill
    <3>2. CopyOK(view)'
      BY <2>1, <3>1 DEF CopyOK, NoRepeats, NoMessages, Shown
    <3> QED
      BY <2>1, <3>1, <3>2 DEF ViewOK, Shown
  <2>6. WireOK'
    <3>1. Free.kind = "free"
      BY DEF Free
    <3> QED
      BY <1>3, <3>1 DEF Kill, WireOK
  <2> QED
    BY <2>3, <2>4, <2>5, <2>6
<1> QED
  BY <1>2, <1>3

LEMMA StutterInv == ASSUME IInv, UNCHANGED vars PROVE IInv'
BY CopiesStay DEF IInv, vars, client, TypeOK, WireOK

(* The invariant behind the theorems below, for writers and readers.       *)
THEOREM Invariance == Spec => []IInv
<1>1. IInv /\ [Next]_vars => IInv'
  BY ServerInv, ClientInv, FaultInv, StutterInv DEF Next
<1> QED
  BY InitInv, <1>1, PTL DEF Spec

(* Every variable of the client, the server and the wire has its type.     *)
THEOREM TypeCorrect == Spec => []TypeOK
<1>1. IInv => TypeOK
  BY DEF IInv
<1> QED
  BY <1>1, Invariance, PTL

(* No message is shown twice, however it reached the client.               *)
THEOREM NothingShownTwice == Spec => []NoDuplicates
<1>1. IInv => NoDuplicates
  BY DEF IInv, ViewOK, CopyOK, NoRepeats, NoDuplicates
<1> QED
  BY <1>1, Invariance, PTL

(* m_knownServerMsgIds is what is shown.                                   *)
THEOREM KnownStaysShown == Spec => []KnownIsShown
<1>1. IInv => KnownIsShown
  BY DEF IInv, ViewOK, KnownIsShown
<1> QED
  BY <1>1, Invariance, PTL

-------------------------------------------------------------------------------
(* A gap does not open when the server stores more, or the client has more.*)
LEMMA CoversStays ==
    ASSUME NEW l1 \in Seq(Conversations), NEW l2,
           l2 = l1 \/ \E c \in Conversations : l2 = Append(l1, c),
           NEW m1, NEW m2, m1 \subseteq m2,
           NEW f1, NEW f2, f1 \cap m1 \subseteq f2
    PROVE  /\ \A k \in 0..Len(l1) :
                 Covers(l1, f1, m1, k) => k \in 0..Len(l2) /\ Covers(l2, f2, m2, k)
           /\ \A ids, last : Continues(l1, f1, m1, ids, last) => Continues(l2, f2, m2, ids, last)
<1>1. /\ Len(l1) \in Nat /\ Len(l2) \in Nat /\ Len(l1) <= Len(l2)
      /\ \A i \in 1..Len(l1) : l2[i] = l1[i]
  OBVIOUS
<1>2. ASSUME NEW k \in 0..Len(l1), Covers(l1, f1, m1, k)
      PROVE  k \in 0..Len(l2) /\ Covers(l2, f2, m2, k)
  <2>1. k \in 0..Len(l2)
    BY <1>1
  <2>2. ASSUME NEW id \in 1..k, l2[id] \in Visible
        PROVE  id \in m2 \/ \E d \in f2 \cap m2 : id < d /\ d <= k
    <3>1. l1[id] \in Visible
      BY <1>1, <2>2
    <3>2. id \in m1 \/ \E d \in f1 \cap m1 : id < d /\ d <= k
      BY <1>2, <3>1 DEF Covers
    <3> QED
      BY <3>2
  <2> QED
    BY <2>1, <2>2 DEF Covers
<1>3. 0..Len(l1) \subseteq 0..Len(l2)
  BY <1>1
<1>4. \A ids, last : Continues(l1, f1, m1, ids, last) => Continues(l2, f2, m2, ids, last)
  BY <1>2, <1>3 DEF Continues
<1> QED
  BY <1>2, <1>4

(* Nor in a copy that stays as it is.                                      *)
LEMMA FineStays ==
    ASSUME NEW l1 \in Seq(Conversations), NEW l2,
           l2 = l1 \/ \E c \in Conversations : l2 = Append(l1, c),
           NEW f1, NEW f2, NEW v, Shown(v) \subseteq 1..Len(l1), FineCopy(l1, f1, v),
           f1 \cap Shown(v) \subseteq f2
    PROVE  FineCopy(l2, f2, v)
<1>1. Gapless(l2, f2, v)
  <2> SUFFICES ASSUME NEW id \in Shown(v) PROVE Covers(l2, f2, Shown(v), id)
    BY DEF Gapless
  <2>1. id \in 0..Len(l1)
    OBVIOUS
  <2>2. Covers(l1, f1, Shown(v), id)
    BY DEF FineCopy, Gapless
  <2> QED
    BY <2>1, <2>2, CoversStays
<1>2. InOrder(f2, v)
  BY DEF FineCopy, InOrder
<1> QED
  BY <1>1, <1>2 DEF FineCopy

LEMMA RunTail ==
    ASSUME NEW a \in Nat, NEW b \in Nat, a <= b
    PROVE  /\ a = b <=> Run(a, b) = << >>
           /\ a < b => Head(Run(a, b)) = a + 1 /\ Tail(Run(a, b)) = Run(a + 1, b)
<1>1. b - a \in Nat
  OBVIOUS
<1>2. Run(a, b) \in Seq(Nat) /\ Len(Run(a, b)) = b - a
  BY <1>1 DEF Run
<1>3. a = b <=> Run(a, b) = << >>
  BY <1>1, <1>2
<1>4. ASSUME a < b PROVE Head(Run(a, b)) = a + 1 /\ Tail(Run(a, b)) = Run(a + 1, b)
  <2>1. b - (a + 1) \in Nat /\ Run(a + 1, b) \in Seq(Nat) /\ Len(Run(a + 1, b)) = b - (a + 1)
    BY <1>4 DEF Run
  <2>2. Head(Run(a, b)) = a + 1
    BY <1>1, <1>2, <1>4 DEF Run
  <2>3. Tail(Run(a, b)) \in Seq(Nat) /\ Len(Tail(Run(a, b))) = b - (a + 1)
    BY <1>2, <1>4
  <2>4. \A i \in 1..(b - (a + 1)) : Tail(Run(a, b))[i] = Run(a + 1, b)[i]
    <3> SUFFICES ASSUME NEW i \in 1..(b - (a + 1)) PROVE Tail(Run(a, b))[i] = Run(a + 1, b)[i]
      OBVIOUS
    <3>1. Tail(Run(a, b))[i] = Run(a, b)[i + 1]
      BY <1>2, <1>4
    <3>2. i + 1 \in 1..(b - a) /\ i \in Nat
      OBVIOUS
    <3>3. Run(a, b)[i + 1] = a + (i + 1) /\ Run(a + 1, b)[i] = a + 1 + i
      BY <3>2 DEF Run
    <3>4. a + (i + 1) = a + 1 + i
      BY <3>2
    <3> QED
      BY <3>1, <3>3, <3>4, Zenon
  <2>5. Tail(Run(a, b)) = Run(a + 1, b)
    BY <2>1, <2>3, <2>4, SeqEqual
  <2> QED
    BY <2>2, <2>5
<1> QED
  BY <1>3, <1>4

LEMMA OInit == Init => OInv
<1> SUFFICES ASSUME Init PROVE OInv
  OBVIOUS
<1>1. Shown(NoMessages) = {}
  BY DEF Shown, NoMessages, ToSet
<1>2. RequestsOK /\ HandlingOK
  BY DEF Init, RequestsOK, HandlingOK, Free
<1>3. CursorOK
  BY DEF Init, CursorOK, Covers
<1>4. FineCopy(log, own, NoMessages)
  BY <1>1 DEF FineCopy, Gapless, InOrder, NoMessages
<1> QED
  BY <1>2, <1>3, <1>4 DEF Init, OInv

(* A step that leaves the client's side alone.                             *)
LEMMA OClientStays ==
    ASSUME IInv, OInv, UNCHANGED <<client, cache>>,
           log' = log \/ \E c \in Conversations : log' = Append(log, c)
    PROVE  /\ \A k \in 0..Len(log) :
                 Covers(log, own, known, k) => k \in 0..Len(log') /\ Covers(log', own, known, k)
           /\ \A ids, last : Continues(log, own, known, ids, last)
                               => Continues(log', own, known, ids, last)
           /\ HandlingOK' /\ CursorOK' /\ FineCopy(log, own, view)' /\ FineCopy(log, own, cache)'
<1>1. log \in Seq(Conversations)
  BY DEF IInv, TypeOK
<1>2. /\ \A k \in 0..Len(log) :
            Covers(log, own, known, k) => k \in 0..Len(log') /\ Covers(log', own, known, k)
      /\ \A ids, last : Continues(log, own, known, ids, last)
                          => Continues(log', own, known, ids, last)
  BY <1>1, CoversStays
<1>3. HandlingOK' /\ CursorOK'
  BY <1>2 DEF OInv, HandlingOK, CursorOK, client
<1>4. FineCopy(log', own, view) /\ FineCopy(log', own, cache)
  BY <1>1, FineStays DEF OInv, IInv, ViewOK, CopyOK
<1>5. own' = own /\ view' = view /\ cache' = cache
  BY DEF client
<1> QED
  BY <1>2, <1>3, <1>4, <1>5

LEMMA OServer == ASSUME IInv, OInv, Server PROVE OInv'
<1>1. log \in Seq(Conversations) /\ wire \in [Connections -> Traffic]
  BY DEF IInv, TypeOK
<1>2. ASSUME NEW c \in Conversations, OtherSends(c) PROVE OInv'
  <2>1. log' = Append(log, c) /\ UNCHANGED <<wire, client, cache>>
    BY <1>2 DEF OtherSends
  <2>2. RequestsOK'
    BY <2>1, OClientStays DEF OInv, RequestsOK, client
  <2> QED
    BY <2>1, <2>2, OClientStays DEF OInv
<1>3. ASSUME NEW n \in Connections, AnswerGet(n) PROVE OInv'
  <2> DEFINE ids == After(wire[n].since)
             reply == [kind |-> "history", ids |-> ids, last |-> Latest(ToSet(ids))]
  <2>1. wire' = [wire EXCEPT ![n] = reply] /\ UNCHANGED <<log, client, cache>>
    BY <1>3 DEF AnswerGet
  <2>2. wire[n].since \in 0..Len(log) /\ Covers(log, own, known, wire[n].since)
    BY <1>3 DEF AnswerGet, OInv, RequestsOK
  <2>3. Len(log) \in Nat /\ wire[n].since \in Nat
    BY <1>1, <2>2
  <2>4. ids = Run(wire[n].since, Len(log)) /\ Latest(ToSet(ids)) \in {0, Len(log)}
    BY <1>1, <2>3, AfterFacts DEF After, Run
  <2>5. Continues(log, own, known, reply.ids, reply.last)
    <3> HIDE DEF ids
    <3>1. Len(log) \in 0..Len(log) /\ wire[n].since <= Len(log)
      BY <2>2, <2>3
    <3> QED
      BY <2>2, <2>4, <3>1 DEF Continues
  <2>6. RequestsOK'
    BY <1>1, <2>1, <2>5 DEF OInv, RequestsOK, client
  <2> QED
    BY <2>1, <2>6, OClientStays DEF OInv
<1>4. ASSUME NEW n \in Connections, AnswerPost(n) PROVE OInv'
  <2> DEFINE reply == [kind |-> "posted", id |-> Len(log) + 1]
  <2>1. /\ log' = Append(log, wire[n].conv) /\ wire' = [wire EXCEPT ![n] = reply]
        /\ UNCHANGED <<client, cache>>
    BY <1>4 DEF AnswerPost
  <2>2. wire[n].conv \in Conversations
    <3>1. wire[n] \in [kind : {"post"}, conv : Conversations]
      BY <1>1, <1>4 DEF AnswerPost, Traffic, Free
    <3> QED
      BY <3>1
  <2>3. /\ \A k \in 0..Len(log) :
              Covers(log, own, known, k) => k \in 0..Len(log') /\ Covers(log', own, known, k)
        /\ \A ids, last : Continues(log, own, known, ids, last)
                            => Continues(log', own, known, ids, last)
    BY <2>1, <2>2, OClientStays
  <2>4. RequestsOK'
    <3>1. \A k \in Connections : wire'[k] = wire[k] \/ wire'[k].kind = "posted"
      BY <1>1, <2>1
    <3> QED
      BY <2>1, <2>3, <3>1 DEF OInv, RequestsOK, client
  <2> QED
    BY <2>1, <2>2, <2>4, OClientStays DEF OInv
<1> QED
  BY <1>2, <1>3, <1>4 DEF Server

(* A message that is added late was missing below all the newer ones that  *)
(* are shown, and so overtaken by an own one.                              *)
LEMMA OAdds ==
    ASSUME IInv, OInv, NEW id \in 1..Len(log), New(id), Add(id), log' = log,
           own \subseteq own', Covers(log, own', known \cup {id}, id)
    PROVE  /\ known' = known \cup {id}
           /\ CursorOK' /\ FineCopy(log, own, view)' /\ FineCopy(log, own, cache)'
<1>1. /\ log \in Seq(Conversations) /\ Len(log) \in Nat /\ cursor \in Nat /\ id \in Nat
      /\ known \subseteq Nat /\ log[id] \in Conversations
      /\ view \in [Conversations -> Seq(Nat)] /\ known = Shown(view)
      /\ known \subseteq 1..Len(log) /\ Shown(cache) \subseteq 1..Len(log)
  BY DEF IInv, TypeOK, ViewOK, CopyOK
<1>2. id \notin known /\ log[id] \in Visible
  BY DEF New
<1>3. /\ known' = known \cup {id}
      /\ cursor' = IF id > cursor THEN id ELSE cursor
      /\ view' = [view EXCEPT ![log[id]] = Append(@, id)]
      /\ cache' \in {view', cache}
  BY DEF Add, Remember, Advance
<1>4. Shown(view') = known'
  BY <1>1, <1>3, ShownAppend
<1>5. \A k \in 0..Len(log) : Covers(log, own, known, k) => Covers(log, own', known', k)
  BY <1>1, <1>3, CoversStays
<1>6. CursorOK'
  <2>1. cursor \in 0..Len(log) /\ Covers(log, own', known', cursor)
    BY <1>1, <1>5 DEF OInv, CursorOK
  <2>2. id \in 0..Len(log) /\ Covers(log, own', known', id)
    BY <1>1, <1>3
  <2>3. cursor' \in {id, cursor}
    BY <1>3
  <2>4. cursor' \in 0..Len(log) /\ Covers(log, own', known', cursor')
    BY <2>1, <2>2, <2>3
  <2> QED
    BY <2>4 DEF CursorOK
<1>7. Gapless(log, own', view')
  <2> SUFFICES ASSUME NEW x \in known' PROVE Covers(log, own', known', x)
    BY <1>4 DEF Gapless
  <2>1. CASE x = id
    BY <1>3, <2>1
  <2>2. CASE x \in known
    <3>1. Covers(log, own, known, x) /\ x \in 0..Len(log)
      BY <1>1, <2>2 DEF OInv, FineCopy, Gapless
    <3> QED
      BY <1>5, <3>1
  <2> QED
    BY <1>3, <2>1, <2>2
<1>8. InOrder(own', view')
  <2> DEFINE c == log[id]
             Fast(b, a) == \E d \in own' \cap Shown(view') : b < d /\ d <= a
  <2>1. c \in Conversations /\ view[c] \in Seq(Nat) /\ view'[c] = Append(view[c], id)
    BY <1>1, <1>3
  <2>2. ASSUME NEW k \in DOMAIN view[c] PROVE view[c][k] < id \/ Fast(id, view[c][k])
    <3>1. view[c][k] \in known
      BY <1>1, <2>1 DEF Shown, ToSet
    <3>2. Covers(log, own, known, view[c][k])
      BY <1>1, <3>1 DEF OInv, FineCopy, Gapless
    <3>3. view[c][k] \in Nat /\ view[c][k] # id
      BY <1>1, <1>2, <3>1
    <3>4. CASE id < view[c][k]
      <4>1. id \in 1..view[c][k]
        BY <1>1, <3>3, <3>4
      <4>2. \E d \in own \cap known : id < d /\ d <= view[c][k]
        BY <1>2, <3>2, <4>1 DEF Covers
      <4> QED
        BY <1>3, <1>4, <4>2
    <3> QED
      BY <1>1, <3>3, <3>4
  <2>3. ASSUME NEW d \in Conversations, NEW k \in DOMAIN view[d], NEW l \in DOMAIN view[d], k < l
        PROVE  view[d][k] < view[d][l] \/ Fast(view[d][l], view[d][k])
    BY <1>1, <1>3, <1>4, <2>3 DEF OInv, FineCopy, InOrder
  <2> HIDE DEF Fast
  <2> SUFFICES ASSUME NEW d \in Conversations, NEW i \in DOMAIN view'[d], NEW j \in DOMAIN view'[d], i < j
               PROVE  view'[d][i] < view'[d][j] \/ Fast(view'[d][j], view'[d][i])
    BY DEF InOrder, Fast
  <2>4. CASE d # c
    <3>1. view'[d] = view[d]
      BY <1>1, <1>3, <2>4
    <3> QED
      BY <2>3, <3>1
  <2>5. CASE d = c
    <3> HIDE DEF c
    <3>1. DOMAIN view[c] = 1..Len(view[c]) /\ Len(view[c]) \in Nat
      BY <2>1
    <3>2. DOMAIN view'[c] = 1..(Len(view[c]) + 1)
      BY <2>1
    <3>3. (\A k \in DOMAIN view[c] : view'[c][k] = view[c][k]) /\ view'[c][Len(view[c]) + 1] = id
      BY <2>1
    <3>4. i \in DOMAIN view[c] /\ (j \in DOMAIN view[c] \/ j = Len(view[c]) + 1)
      BY <2>5, <3>1, <3>2
    <3>5. CASE j \in DOMAIN view[c]
      <4>1. view[c][i] < view[c][j] \/ Fast(view[c][j], view[c][i])
        BY <2>1, <2>3, <3>4, <3>5
      <4> QED
        BY <2>5, <3>3, <3>4, <3>5, <4>1
    <3>6. CASE j = Len(view[c]) + 1
      <4>1. view[c][i] < id \/ Fast(id, view[c][i])
        BY <2>2, <3>4
      <4> QED
        BY <2>5, <3>3, <3>4, <3>6, <4>1
    <3> QED
      BY <3>4, <3>5, <3>6
  <2> QED
    BY <2>4, <2>5
<1>9. FineCopy(log, own', view') /\ FineCopy(log, own', cache')
  <2>1. FineCopy(log, own', view')
    BY <1>7, <1>8 DEF FineCopy
  <2>2. FineCopy(log, own', cache)
    BY <1>1, FineStays DEF OInv
  <2> QED
    BY <1>3, <2>1, <2>2
<1>10. FineCopy(log, own, view)' /\ FineCopy(log, own, cache)'
  BY <1>9, Zenon
<1> QED
  BY <1>3, <1>6, <1>10

(* A client that is handling a history reply has more than before.         *)
LEMMA ORequestsStay ==
    ASSUME IInv, OInv, known \subseteq known', own \subseteq own', log' = log,
           \A n \in Connections : wire'[n] = wire[n] \/ wire'[n].kind = "free"
    PROVE  RequestsOK'
<1>1. log \in Seq(Conversations)
  BY DEF IInv, TypeOK
<1>2. /\ \A k \in 0..Len(log) : Covers(log, own, known, k) => Covers(log, own', known', k)
      /\ \A ids, last : Continues(log, own, known, ids, last)
                          => Continues(log, own', known', ids, last)
  BY <1>1, CoversStays
<1> QED
  BY <1>2 DEF OInv, RequestsOK

(* Nothing changes but what is on the wire, or being handled.              *)
LEMMA OCopiesStay ==
    ASSUME OInv, UNCHANGED <<log, view, known, cursor, cache, own>>
    PROVE  CursorOK' /\ FineCopy(log, own, view)' /\ FineCopy(log, own, cache)'
BY DEF OInv, CursorOK

(* The reply to a POST overtakes everything between.                       *)
LEMMA OPosted == ASSUME IInv, OInv, NEW n \in Connections, ReceivePosted(n) PROVE OInv'
<1> DEFINE id == wire[n].id
<1>1. /\ wire' = [wire EXCEPT ![n] = Free] /\ ~handling /\ Free.kind = "free"
      /\ UNCHANGED <<log, running, handling, pending, lastId>>
      /\ wire \in [Connections -> Traffic]
      /\ log \in Seq(Conversations) /\ id \in 1..Len(log)
  BY DEF ReceivePosted, Ready, IInv, WireOK, TypeOK, Free
<1>2. \A k \in Connections : wire'[k] = wire[k] \/ wire'[k].kind = "free"
  BY <1>1
<1>3. HandlingOK'
  BY <1>1 DEF HandlingOK
<1>4. CASE New(id)
  <2>1. Add(id) /\ own' = own \cup {id}
    BY <1>4 DEF ReceivePosted
  <2>2. Covers(log, own', known \cup {id}, id)
    <3> HIDE DEF id
    <3>1. \A x \in 1..id : x = id \/ (x < id /\ id <= id)
      BY <1>1
    <3> QED
      BY <2>1, <3>1 DEF Covers
  <2> HIDE DEF id
  <2>3. /\ known' = known \cup {id}
        /\ CursorOK' /\ FineCopy(log, own, view)' /\ FineCopy(log, own, cache)'
    BY <1>1, <1>4, <2>1, <2>2, OAdds
  <2>4. RequestsOK'
    BY <1>1, <1>2, <2>1, <2>3, ORequestsStay
  <2> QED
    BY <1>3, <2>3, <2>4 DEF OInv
<1>5. CASE ~New(id)
  <2>1. UNCHANGED <<view, known, cursor, cache, own>>
    BY <1>5 DEF ReceivePosted
  <2>2. RequestsOK'
    BY <1>1, <1>2, <2>1, ORequestsStay
  <2> QED
    BY <1>1, <1>3, <2>1, <2>2, OCopiesStay DEF OInv
<1> QED
  BY <1>4, <1>5

(* Requests ask for what follows the cursor; a reply is taken as it is.    *)
LEMMA ORequests ==
    ASSUME IInv, OInv, NEW n \in Connections,
           \/ Poll(n)
           \/ \E c \in Visible : Post(n, c)
           \/ ReceiveHistory(n)
           \/ Lose(n)
    PROVE  OInv'
<1>1. /\ wire \in [Connections -> Traffic] /\ Free.kind = "free"
      /\ UNCHANGED <<log, view, known, cursor, cache, own>>
  BY DEF IInv, TypeOK, Free, Poll, Post, ReceiveHistory, Lose, client
<1>2. CursorOK' /\ FineCopy(log, own, view)' /\ FineCopy(log, own, cache)'
  BY <1>1, OCopiesStay
<1>3. CASE Poll(n)
  <2>1. /\ wire' = [wire EXCEPT ![n] = [kind |-> "get", since |-> cursor]]
        /\ UNCHANGED <<handling, pending, lastId>>
    BY <1>3 DEF Poll, Request, client
  <2>2. RequestsOK'
    BY <1>1, <2>1 DEF OInv, RequestsOK, CursorOK
  <2> QED
    BY <1>1, <1>2, <2>1, <2>2 DEF OInv, HandlingOK
<1>4. ASSUME NEW c \in Visible, Post(n, c) PROVE OInv'
  <2>1. /\ wire' = [wire EXCEPT ![n] = [kind |-> "post", conv |-> c]]
        /\ UNCHANGED <<handling, pending, lastId>>
    BY <1>4 DEF Post, Request, client
  <2>2. RequestsOK'
    BY <1>1, <2>1 DEF OInv, RequestsOK
  <2> QED
    BY <1>1, <1>2, <2>1, <2>2 DEF OInv, HandlingOK
<1>5. CASE ReceiveHistory(n)
  <2>1. /\ wire[n].kind = "history" /\ wire' = [wire EXCEPT ![n] = Free]
        /\ pending' = wire[n].ids /\ lastId' = wire[n].last
    BY <1>5 DEF ReceiveHistory
  <2>2. RequestsOK'
    BY <1>1, <2>1 DEF OInv, RequestsOK
  <2>3. HandlingOK'
    BY <1>1, <2>1 DEF OInv, RequestsOK, HandlingOK
  <2> QED
    BY <1>2, <2>2, <2>3 DEF OInv
<1>6. CASE Lose(n)
  <2>1. wire' = [wire EXCEPT ![n] = Free] /\ UNCHANGED <<handling, pending, lastId>>
    BY <1>6 DEF Lose, client
  <2>2. RequestsOK'
    BY <1>1, <2>1 DEF OInv, RequestsOK
  <2> QED
    BY <1>1, <1>2, <2>1, <2>2 DEF OInv, HandlingOK
<1> QED
  BY <1>3, <1>4, <1>5, <1>6

(* A history reply is added without opening a gap.                         *)
LEMMA OHandles == ASSUME IInv, OInv, AddNext \/ FinishHistory PROVE OInv'
<1>1. log \in Seq(Conversations) /\ Len(log) \in Nat /\ cursor \in Nat /\ lastId \in Nat
  BY DEF IInv, TypeOK
<1>2. PICK a \in 0..Len(log), b \in 0..Len(log) :
          a <= b /\ pending = Run(a, b) /\ lastId \in {0, b} /\ Covers(log, own, known, a)
  BY DEF OInv, HandlingOK, AddNext, FinishHistory, Continues
<1>3. a \in Nat /\ b \in Nat
  BY <1>1
<1>4. CASE AddNext
  <2>1. /\ UNCHANGED <<log, wire, running, handling, lastId, own>>
        /\ pending # << >> /\ pending' = Tail(pending)
    BY <1>4 DEF AddNext
  <2>2. a < b
    BY <1>2, <1>3, <2>1, RunTail
  <2>3. Head(pending) = a + 1 /\ pending' = Run(a + 1, b)
    BY <1>2, <1>3, <2>1, <2>2, RunTail
  <2>4. a + 1 \in 1..Len(log) /\ a + 1 \in 0..Len(log) /\ a + 1 <= b
    BY <1>1, <1>3, <2>2
  <2>5. /\ \A x \in 1..(a + 1) : x \in 1..a \/ x = a + 1
        /\ \A d \in Nat : d <= a => d <= a + 1
    BY <1>3
  <2>6. own \subseteq Nat
    BY DEF IInv, TypeOK
  <2>7. /\ CursorOK' /\ FineCopy(log, own, view)' /\ FineCopy(log, own, cache)'
        /\ known \subseteq known'
        /\ Covers(log, own', known', a + 1)
    <3>1. CASE New(a + 1)
      <4>1. Add(a + 1)
        BY <1>4, <2>3, <3>1 DEF AddNext
      <4>2. Covers(log, own', known \cup {a + 1}, a + 1)
        BY <1>2, <2>1, <2>5, <2>6 DEF Covers
      <4> QED
        BY <2>1, <2>4, <3>1, <4>1, <4>2, OAdds
    <3>2. CASE ~New(a + 1)
      <4>1. UNCHANGED <<view, known, cursor, cache>>
        BY <1>4, <2>3, <3>2 DEF AddNext
      <4>2. Covers(log, own, known, a + 1)
        BY <1>2, <2>5, <2>6, <3>2 DEF Covers, New
      <4> QED
        BY <2>1, <4>1, <4>2, OCopiesStay
    <3> QED
      BY <3>1, <3>2
  <2>8. RequestsOK'
    BY <2>1, <2>7, ORequestsStay
  <2>9. HandlingOK'
    <3>1. Continues(log, own', known', pending', lastId)
      BY <1>2, <2>3, <2>4, <2>7 DEF Continues
    <3> QED
      BY <2>1, <3>1 DEF HandlingOK
  <2> QED
    BY <2>7, <2>8, <2>9 DEF OInv
<1>5. CASE FinishHistory
  <2>1. /\ handling' = FALSE /\ pending = << >>
        /\ cursor' = IF lastId > cursor THEN lastId ELSE cursor
        /\ UNCHANGED <<log, wire, running, view, known, pending, cache, own>>
    BY <1>5 DEF FinishHistory, Advance
  <2>2. Covers(log, own, known, b)
    BY <1>2, <1>3, <2>1, RunTail
  <2>3. CursorOK'
    <3>1. CASE lastId > cursor
      BY <1>1, <1>2, <1>3, <2>1, <2>2, <3>1 DEF CursorOK
    <3>2. CASE ~(lastId > cursor)
      BY <2>1, <3>2 DEF OInv, CursorOK
    <3> QED
      BY <3>1, <3>2
  <2>4. RequestsOK'
    BY <2>1, ORequestsStay
  <2> QED
    BY <2>1, <2>3, <2>4 DEF OInv, HandlingOK
<1> QED
  BY <1>4, <1>5

(* The end of a client and the start of the next.                          *)
LEMMA ORestarts ==
    ASSUME IInv, OInv, (\E n \in Connections : StartOnline(n)) \/ StartOffline \/ Kill
    PROVE  OInv'
<1>1. log \in Seq(Conversations) /\ Len(log) \in Nat /\ Free.kind = "free"
  BY DEF IInv, TypeOK, Free
<1>2. ASSUME Load, \A n \in Connections : \/ wire'[n] = Free
                                          \/ wire'[n] = [kind |-> "get", since |-> 0]
      PROVE  OInv'
  <2>1. /\ UNCHANGED <<log, handling, pending, lastId, cache>>
        /\ ~handling /\ view' = cache /\ known' = Shown(cache)
        /\ cursor' = Latest(Shown(cache)) /\ own' = own \cap Shown(cache)
    BY <1>2 DEF Load, IInv, WireOK
  <2>2. FineCopy(log, own', cache)
    BY <1>1, <2>1, FineStays DEF OInv, IInv, CopyOK
  <2>3. PICK m \in {0} \cup Shown(cache) : \A id \in Shown(cache) : id <= m
    BY DEF IInv, CopyOK
  <2>4. m \in 0..Len(log) /\ Shown(cache) \in SUBSET Nat
    BY <1>1 DEF IInv, CopyOK
  <2>5. cursor' = m
    BY <2>1, <2>3, <2>4, LatestIsGreatest
  <2>6. Covers(log, own', Shown(cache), m)
    <3>1. CASE m = 0
      BY <3>1 DEF Covers
    <3>2. CASE m \in Shown(cache)
      BY <2>2, <3>2 DEF FineCopy, Gapless
    <3> QED
      BY <3>1, <3>2
  <2>7. CursorOK'
    BY <2>1, <2>4, <2>5, <2>6 DEF CursorOK
  <2>8. RequestsOK'
    <3>1. Covers(log, own', known', 0) /\ 0 \in 0..Len(log)
      BY <1>1 DEF Covers
    <3> QED
      BY <1>1, <1>2, <2>1, <3>1 DEF RequestsOK
  <2>9. FineCopy(log, own, view)' /\ FineCopy(log, own, cache)'
    BY <2>1, <2>2
  <2> QED
    BY <2>1, <2>7, <2>8, <2>9 DEF OInv, HandlingOK
<1>3. CASE \E n \in Connections : StartOnline(n)
  <2>1. PICK n \in Connections : StartOnline(n)
    BY <1>3
  <2>2. Load /\ wire' = [wire EXCEPT ![n] = [kind |-> "get", since |-> 0]] /\ ~running
    BY <2>1 DEF StartOnline, Request, Load
  <2>3. \A k \in Connections : wire'[k] = Free \/ wire'[k] = [kind |-> "get", since |-> 0]
    BY <2>2 DEF IInv, TypeOK, WireOK
  <2> QED
    BY <1>2, <2>2, <2>3
<1>4. CASE StartOffline
  <2>1. Load /\ \A k \in Connections : wire'[k] = Free
    BY <1>4 DEF StartOffline, Load, IInv, WireOK
  <2> QED
    BY <1>2, <2>1
<1>5. CASE Kill
  <2>1. /\ \A n \in Connections : wire'[n] = Free
        /\ view' = NoMessages /\ known' = {} /\ cursor' = 0 /\ handling' = FALSE
        /\ UNCHANGED <<log, cache, own>>
    BY <1>5 DEF Kill
  <2>2. RequestsOK' /\ HandlingOK'
    BY <1>1, <2>1 DEF RequestsOK, HandlingOK
  <2>3. CursorOK'
    BY <1>1, <2>1 DEF CursorOK, Covers
  <2>4. FineCopy(log, own, NoMessages)
    <3>1. Shown(NoMessages) = {}
      BY DEF Shown, NoMessages, ToSet
    <3> QED
      BY <3>1 DEF FineCopy, Gapless, InOrder, NoMessages
  <2>5. FineCopy(log, own, view)' /\ FineCopy(log, own, cache)'
    BY <2>1, <2>4 DEF OInv
  <2> QED
    BY <2>2, <2>3, <2>5 DEF OInv
<1> QED
  BY <1>3, <1>4, <1>5

(* The invariant of what is missed and of the order shown.                 *)
THEOREM OvertakenInvariance == Spec => [](IInv /\ OInv)
<1>1. Init => IInv /\ OInv
  BY InitInv, OInit
<1>2. IInv /\ OInv /\ [Next]_vars => (IInv /\ OInv)'
  <2> SUFFICES ASSUME IInv, OInv, [Next]_vars PROVE IInv' /\ OInv'
    OBVIOUS
  <2>1. IInv'
    BY ServerInv, ClientInv, FaultInv, StutterInv DEF Next
  <2>2. ASSUME UNCHANGED vars PROVE OInv'
    <3>1. CursorOK' /\ FineCopy(log, own, view)' /\ FineCopy(log, own, cache)'
      BY <2>2, OCopiesStay DEF vars, client
    <3>2. RequestsOK' /\ HandlingOK'
      BY <2>2 DEF vars, client, OInv, RequestsOK, HandlingOK
    <3> QED
      BY <3>1, <3>2 DEF OInv
  <2>3. OInv'
    BY <2>2, OServer, OPosted, ORequests, OHandles, ORestarts DEF Next, Client
  <2> QED
    BY <2>1, <2>3
<1> QED
  BY <1>1, <1>2, PTL DEF Spec

(* A client misses nothing below m_lastServerMsgId but what an own message *)
(* overtook, however requests and replies are lost and reordered and       *)
(* wherever the client is killed.                                          *)
THEOREM MissedWereOvertaken == Spec => []OnlyOvertakenMissed
<1>1. OInv => OnlyOvertakenMissed
  BY DEF OInv, CursorOK, Covers, OnlyOvertakenMissed, Overtaken
<1> QED
  BY <1>1, OvertakenInvariance, PTL

(* And shows every conversation in the order the server stored it, but for *)
(* what an own message overtook.                                           *)
THEOREM ServerOrderShown == Spec => []ShownInServerOrder
<1>1. OInv => ShownInServerOrder
  BY DEF OInv, FineCopy, InOrder, ShownInServerOrder, Overtaken
<1> QED
  BY <1>1, OvertakenInvariance, PTL

(* A client that has not yet added a message by the reply to its POST      *)
(* misses nothing below m_lastServerMsgId: the user's own messages are the *)
(* only way to lose those of others.                                       *)
THEOREM ReadersMissNothing == Spec => [](own = {} => NothingMissed)
<1>1. OnlyOvertakenMissed => (own = {} => NothingMissed)
  BY DEF OnlyOvertakenMissed, NothingMissed, Overtaken
<1> QED
  BY <1>1, MissedWereOvertaken, PTL
===============================================================================
