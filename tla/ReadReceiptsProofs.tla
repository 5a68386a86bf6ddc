-------------------------- MODULE ReadReceiptsProofs --------------------------
(***************************************************************************)
(* Theorems about ReadReceipts for any users, conversations, connections   *)
(* and number of messages: whatever is lost, repeated or late, and whoever *)
(* logs in after whom, what was read stays read, ticks and markers agree,  *)
(* and no marker and no tick stands for a message that nobody was shown.   *)
(***************************************************************************)
EXTENDS ReadReceipts, Intervals, SequenceTheorems, TLAPS

(* What a handler works on.                                                *)
States == [user : Users \cup {NoUser}, a : App,
           stored : [Conversations -> Nat], posts : SUBSET MarkPosts]

(* The state a handler of the registered user starts from.                 *)
Client == State(profile)

(* Conversations hold messages of the server, each in its own.             *)
Placed(view) == \A c \in Conversations : \A id \in ToSet(view[c]) :
                   id \in DOMAIN log /\ log[id].conv = c

ViewFits(a) == /\ Placed(a.view)
               /\ a.cursor <= Len(log)
               /\ \A id \in Shown(a.view) : id <= a.cursor

TicksFit(a) == /\ a.ticks \subseteq Shown(a.view)
               /\ LoggedIn => a.ticks = {id \in Shown(a.view) : log[id].from = profile
                                                                  /\ id <= a.peer[log[id].conv]}

(* A peer's marker is one of somebody else, which the server has too.      *)
PeersFit(a) == LoggedIn => \A c \in Conversations :
                  a.peer[c] > 0 => \E u \in Users \ {profile} : a.peer[c] <= marks[c][u]

(* What was read is shown or hidden from this user; MarkRead, which takes  *)
(* back the marker, takes it back to no less than what is shown.           *)
ReadFits(a) == \A id \in read :
                  /\ id \in DOMAIN log
                  /\ id \in Shown(a.view) \/ ~Visible(profile, log[id].conv)
                  /\ id \in Shown(a.view) /\ log[id].from # profile => id <= a.own[log[id].conv]

(* QSettings may hold a larger marker than memory: that of a conversation  *)
(* whose messages were not there at the start.  It was sent when it was    *)
(* written, or unsent has it.                                              *)
StoredFits(s) == /\ \A c \in Conversations : s.a.own[c] <= s.stored[c]
                 /\ LoggedIn => \A c \in Conversations :
                       s.stored[c] > marks[c][profile] /\ s.stored[c] > unsent[c] =>
                           \E m \in out \cup s.posts :
                              m.conv = c /\ m.user = profile /\ m.id >= s.stored[c]

Fits(s) == /\ s \in States
           /\ LoggedIn => s.user = profile
           /\ ViewFits(s.a)
           /\ TicksFit(s.a)
           /\ PeersFit(s.a)
           /\ ReadFits(s.a)
           /\ StoredFits(s)

(* The conversation that is open has been marked read since it last grew.  *)
OpenFits(a, open) == open \in Conversations =>
                        \A id \in ToSet(a.view[open]) : id <= a.own[open]

(* A marker on its way covers what its user was shown, or never will be.   *)
OutFits(m) == /\ m.id <= Len(log)
              /\ \A id \in 1..m.id : log[id].conv = m.conv => id \in seen[m.user] \/ id \in skipped

MarksFit(given) == \A c \in Conversations : \A u \in Users : given[c][u] <= marks[c][u]

(* Replies are of the server's messages, and their markers not ahead of it.*)
WireFits(w) == /\ w.kind = "get" => w.since <= Len(log)
               /\ w.kind \in {"collected", "history"} => w.ids \in Seq(1..Len(log))
               /\ w.kind = "history" => MarksFit(w.marks)
               /\ w.kind = "posted" => w.id \in 1..Len(log)

HistoryOK == seen \in [Users -> SUBSET Nat] /\ skipped \subseteq Nat

LoggedOutOK == ~LoggedIn => current = NoConversation /\ read = {} /\ unsent = stored

IInv == /\ TypeOK
        /\ HistoryOK
        /\ LoggedOutOK
        /\ Fits(Client)
        /\ OpenFits(app, current)
        /\ Placed(cache)
        /\ \A m \in out : OutFits(m)
        /\ \A c \in Conversations : \A u \in Users : marks[c][u] <= Len(log)
        /\ MarksCoverOnlySeen
        /\ \A n \in Connections : WireFits(wire[n])

-------------------------------------------------------------------------------
(* Numbers.                                                                *)

(* The largest of some identifiers, or 0.                                  *)
LEMMA LatestIs ==
    ASSUME NEW n \in Nat, NEW ids \in SUBSET (0..n)
    PROVE  /\ Latest(ids) \in 0..n
           /\ Latest(ids) \in {0} \cup ids
           /\ \A id \in ids : id <= Latest(ids)
<1> DEFINE S == {0} \cup ids
<1>1. S \in SUBSET (0..n) /\ S # {} /\ ids \subseteq S
  OBVIOUS
<1>2. Latest(ids) = Max(S)
  BY DEF Latest
<1> HIDE DEF S
<1>3. Latest(ids) \in S /\ \A id \in ids : id <= Latest(ids)
  BY <1>1, <1>2, MaxIs
<1> QED
  BY <1>1, <1>3 DEF S

LEMMA LargerIs ==
    ASSUME NEW i \in Nat, NEW j \in Nat
    PROVE  /\ Larger(i, j) \in {i, j}
           /\ i <= Larger(i, j)
           /\ j <= Larger(i, j)
BY DEF Larger

-------------------------------------------------------------------------------
(* Conversations.                                                          *)

LEMMA ToSetTyped ==
    ASSUME NEW S, NEW q \in Seq(S)
    PROVE  ToSet(q) \subseteq S
BY DEF ToSet

LEMMA ToSetAppend ==
    ASSUME NEW S, NEW q \in Seq(S), NEW e \in S
    PROVE  ToSet(Append(q, e)) = ToSet(q) \cup {e}
<1> DEFINE r == Append(q, e)
<1>1. /\ r \in Seq(S)
      /\ Len(r) = Len(q) + 1
      /\ \A i \in 1..Len(q) : r[i] = q[i]
      /\ r[Len(q) + 1] = e
  BY AppendProperties
<1>2. DOMAIN q = 1..Len(q) /\ Len(q) \in Nat
  BY LenProperties
<1>3. DOMAIN r = 1..(Len(q) + 1)
  BY <1>1, LenProperties
<1> HIDE DEF r
<1>4. ASSUME NEW x \in ToSet(r) PROVE x \in ToSet(q) \cup {e}
  <2>1. PICK i \in 1..(Len(q) + 1) : x = r[i]
    BY <1>3 DEF ToSet
  <2>2. CASE i = Len(q) + 1
    BY <1>1, <2>1, <2>2
  <2>3. CASE i # Len(q) + 1
    <3>1. i \in 1..Len(q)
      BY <1>2, <2>1, <2>3
    <3> QED
      BY <1>1, <1>2, <2>1, <3>1 DEF ToSet
  <2> QED
    BY <2>2, <2>3
<1>5. ASSUME NEW x \in ToSet(q) PROVE x \in ToSet(r)
  <2>1. PICK i \in 1..Len(q) : x = q[i]
    BY <1>2 DEF ToSet
  <2>2. i \in DOMAIN r
    BY <1>2, <1>3
  <2> QED
    BY <1>1, <2>1, <2>2 DEF ToSet
<1>6. e \in ToSet(r)
  <2>1. Len(q) + 1 \in DOMAIN r
    BY <1>2, <1>3
  <2> QED
    BY <1>1, <2>1 DEF ToSet
<1> QED
  BY <1>4, <1>5, <1>6 DEF r

LEMMA ShownAppend ==
    ASSUME NEW v \in [Conversations -> Seq(Nat)], NEW c \in Conversations, NEW id \in Nat
    PROVE  LET w == [v EXCEPT ![c] = Append(@, id)]
           IN  /\ w \in [Conversations -> Seq(Nat)]
               /\ ToSet(w[c]) = ToSet(v[c]) \cup {id}
               /\ \A d \in Conversations : d # c => w[d] = v[d]
               /\ Shown(w) = Shown(v) \cup {id}
<1> DEFINE w == [v EXCEPT ![c] = Append(@, id)]
<1>1. /\ w \in [Conversations -> Seq(Nat)]
      /\ w[c] = Append(v[c], id)
      /\ \A d \in Conversations : d # c => w[d] = v[d]
  OBVIOUS
<1>2. ToSet(w[c]) = ToSet(v[c]) \cup {id}
  BY <1>1, ToSetAppend
<1> HIDE DEF w
<1>3. ASSUME NEW x PROVE x \in Shown(w) <=> x \in Shown(v) \cup {id}
  <2>1. x \in Shown(w) <=> \E d \in Conversations : x \in ToSet(w[d])
    BY DEF Shown
  <2>2. x \in Shown(v) <=> \E d \in Conversations : x \in ToSet(v[d])
    BY DEF Shown
  <2> QED
    BY <1>1, <1>2, <2>1, <2>2
<1>4. Shown(w) = Shown(v) \cup {id}
  BY <1>3
<1> QED
  BY <1>1, <1>2, <1>4 DEF w

LEMMA ShownWhere ==
    ASSUME NEW view, Placed(view), NEW id
    PROVE  /\ id \in Shown(view) =>
                  id \in DOMAIN log /\ log[id].conv \in Conversations /\ id \in ToSet(view[log[id].conv])
           /\ \A c \in Conversations : id \in ToSet(view[c]) => id \in Shown(view)
<1>1. id \in Shown(view) <=> \E c \in Conversations : id \in ToSet(view[c])
  BY DEF Shown
<1> QED
  BY <1>1 DEF Placed

-------------------------------------------------------------------------------
(* What a handler does to the state it works on.                           *)

LEMMA LogTyped ==
    ASSUME TypeOK
    PROVE  /\ Len(log) \in Nat
           /\ DOMAIN log = 1..Len(log)
           /\ \A id \in 1..Len(log) : log[id].conv \in Conversations /\ log[id].from \in Users
<1>1. log \in Seq([conv : Conversations, from : Users])
  BY DEF TypeOK
<1>2. \A id \in 1..Len(log) : log[id] \in [conv : Conversations, from : Users]
  BY <1>1, ElementOfSeq
<1> QED
  BY <1>1, <1>2, LenProperties

LEMMA StateTyped ==
    ASSUME NEW s \in States
    PROVE  /\ s.user \in Users \cup {NoUser}
           /\ s.a \in App
           /\ s.a.view \in [Conversations -> Seq(Nat)]
           /\ s.a.cursor \in Nat
           /\ s.a.own \in [Conversations -> Nat]
           /\ s.a.peer \in [Conversations -> Nat]
           /\ s.a.ticks \subseteq Nat
           /\ s.stored \in [Conversations -> Nat]
           /\ s.posts \subseteq MarkPosts
BY DEF States, App

(* The newest message of a conversation is one the cursor has passed.      *)
LEMMA NewestOf ==
    ASSUME TypeOK, NEW a \in App, ViewFits(a), NEW c \in Conversations
    PROVE  LET last == Latest(ToSet(a.view[c]))
           IN  /\ last \in 0..Len(log)
               /\ last <= a.cursor
               /\ \A id \in ToSet(a.view[c]) : id <= last
<1>1. a.cursor \in Nat /\ a.cursor <= Len(log) /\ Len(log) \in Nat
  BY LogTyped DEF App, ViewFits
<1>2. \A id \in ToSet(a.view[c]) : id \in 1..Len(log) /\ id <= a.cursor
  BY LogTyped, ShownWhere DEF ViewFits, Placed
<1>3. ToSet(a.view[c]) \in SUBSET (0..a.cursor)
  BY <1>1, <1>2
<1>4. /\ Latest(ToSet(a.view[c])) \in 0..a.cursor
      /\ \A id \in ToSet(a.view[c]) : id <= Latest(ToSet(a.view[c]))
  BY <1>1, <1>3, LatestIs
<1> QED
  BY <1>1, <1>4

LEMMA MarkReadIs ==
    ASSUME TypeOK, NEW s \in States, s.user \in Users, NEW c \in Conversations, ViewFits(s.a)
    PROVE  LET t == MarkRead(s, c)
               last == Latest(ToSet(s.a.view[c]))
           IN  /\ t \in States
               /\ t.user = s.user
               /\ t.a.view = s.a.view
               /\ t.a.cursor = s.a.cursor
               /\ t.a.peer = s.a.peer
               /\ t.a.ticks = s.a.ticks
               /\ t.a.own = [s.a.own EXCEPT ![c] = last]
               /\ t.stored = t.a.own
               /\ t.posts = IF last > s.a.own[c]
                          THEN s.posts \cup {[conv |-> c, user |-> s.user, id |-> last]} ELSE s.posts
<1> DEFINE last == Latest(ToSet(s.a.view[c]))
           own == [s.a.own EXCEPT ![c] = last]
           post == [conv |-> c, user |-> s.user, id |-> last]
           posts1 == IF last > s.a.own[c] THEN s.posts \cup {post} ELSE s.posts
           b == [s.a EXCEPT !.own = own]
<1>1. s.a \in App /\ s.a.own \in [Conversations -> Nat] /\ s.posts \subseteq MarkPosts
  BY StateTyped
<1>2. last \in Nat
  BY <1>1, NewestOf, LogTyped
<1>3. own \in [Conversations -> Nat]
  BY <1>1, <1>2
<1>4. post \in MarkPosts
  BY <1>2 DEF MarkPosts
<1>5. posts1 \subseteq MarkPosts
  BY <1>1, <1>4
<1>6. /\ b \in App /\ b.view = s.a.view /\ b.cursor = s.a.cursor /\ b.peer = s.a.peer
      /\ b.ticks = s.a.ticks /\ b.own = own
  BY <1>1, <1>3 DEF App
<1>7. MarkRead(s, c) = [s EXCEPT !.a.own = own, !.stored = own, !.posts = posts1]
  BY DEF MarkRead
<1> HIDE DEF last, own, post, posts1
<1>8. MarkRead(s, c) = [user |-> s.user, a |-> b, stored |-> own, posts |-> posts1]
  BY <1>7 DEF States
<1>9. MarkRead(s, c) \in States
  BY <1>3, <1>5, <1>6, <1>8 DEF States
<1>10. /\ MarkRead(s, c).a = b
       /\ MarkRead(s, c).stored = own
       /\ MarkRead(s, c).posts = posts1
       /\ MarkRead(s, c).user = s.user
  BY <1>8
<1> HIDE DEF b
<1> QED
  BY <1>6, <1>9, <1>10 DEF last, own, post, posts1

(* The posts that a handler adds are of the conversation that is open.     *)
PostsFit(s, open) ==
    \A m \in s.posts : /\ LoggedIn
                       /\ m.user = profile
                       /\ m.conv = open
                       /\ Visible(profile, open)
                       /\ m.id <= s.a.cursor

LEMMA MarkReadFits ==
    ASSUME IInv, LoggedIn, NEW s \in States, Fits(s), NEW c \in Conversations,
           Visible(profile, c), PostsFit(s, c)
    PROVE  LET t == MarkRead(s, c)
           IN  /\ Fits(t) /\ OpenFits(t.a, c) /\ PostsFit(t, c)
               /\ t.user = s.user /\ t.a.view = s.a.view /\ t.a.cursor = s.a.cursor
<1> DEFINE t == MarkRead(s, c)
           last == Latest(ToSet(s.a.view[c]))
           post == [conv |-> c, user |-> s.user, id |-> last]
<1>1. TypeOK /\ ViewFits(s.a) /\ s.a \in App /\ s.user = profile /\ s.user \in Users
  BY StateTyped DEF IInv, Fits, LoggedIn
<1>2. /\ t \in States
      /\ t.user = s.user
      /\ t.a.view = s.a.view
      /\ t.a.cursor = s.a.cursor
      /\ t.a.peer = s.a.peer
      /\ t.a.ticks = s.a.ticks
      /\ t.a.own = [s.a.own EXCEPT ![c] = last]
      /\ t.stored = t.a.own
      /\ t.posts = IF last > s.a.own[c] THEN s.posts \cup {post} ELSE s.posts
  BY <1>1, MarkReadIs
<1>3. last \in Nat /\ last <= s.a.cursor /\ \A id \in ToSet(s.a.view[c]) : id <= last
  <2>1. /\ last \in 0..Len(log) /\ last <= s.a.cursor
        /\ \A id \in ToSet(s.a.view[c]) : id <= last
    BY <1>1, NewestOf
  <2> QED
    BY <2>1
<1>4. post.conv = c /\ post.user = profile /\ post.id = last
  BY <1>1
<1> HIDE DEF t, last, post
<1>5. s.a.own \in [Conversations -> Nat] /\ s.stored \in [Conversations -> Nat]
  BY StateTyped
<1>6. t.a.own[c] = last /\ \A d \in Conversations : d # c => t.a.own[d] = s.a.own[d]
  BY <1>2, <1>5
<1>7. ViewFits(t.a)
  BY <1>1, <1>2 DEF ViewFits
<1>8. TicksFit(t.a) /\ PeersFit(t.a)
  BY <1>2 DEF Fits, TicksFit, PeersFit
<1>9. ReadFits(t.a)
  <2> SUFFICES ASSUME NEW id \in read, id \in Shown(t.a.view), log[id].from # profile
               PROVE  id <= t.a.own[log[id].conv]
    BY <1>2 DEF Fits, ReadFits
  <2>1. id <= s.a.own[log[id].conv]
    BY <1>2 DEF Fits, ReadFits
  <2>2. log[id].conv \in Conversations /\ id \in ToSet(s.a.view[log[id].conv])
    BY <1>1, <1>2, ShownWhere DEF ViewFits
  <2> QED
    BY <1>3, <1>6, <2>1, <2>2
<1>10. StoredFits(t)
  <2>1. \A d \in Conversations : t.a.own[d] <= t.stored[d]
    BY <1>2, <1>3, <1>5, <1>6
  <2>2. ASSUME NEW d \in Conversations, t.stored[d] > marks[d][profile], t.stored[d] > unsent[d]
        PROVE  \E m \in out \cup t.posts : m.conv = d /\ m.user = profile /\ m.id >= t.stored[d]
    <3>1. marks[d][profile] \in Nat /\ unsent[d] \in Nat
      BY <1>1 DEF TypeOK
    <3>2. CASE d = c /\ last > s.a.own[c]
      <4>1. post \in t.posts /\ t.stored[d] = last
        BY <1>2, <1>6, <3>2
      <4> QED
        BY <1>3, <1>4, <3>2, <4>1
    <3>3. CASE ~(d = c /\ last > s.a.own[c])
      <4>1. t.stored[d] <= s.a.own[d] /\ s.a.own[d] <= s.stored[d] /\ t.stored[d] \in Nat
        BY <1>2, <1>3, <1>5, <1>6, <3>3 DEF Fits, StoredFits
      <4>2. s.stored[d] > marks[d][profile] /\ s.stored[d] > unsent[d]
        BY <1>5, <2>2, <3>1, <4>1
      <4>3. PICK m \in out \cup s.posts : m.conv = d /\ m.user = profile /\ m.id >= s.stored[d]
        BY <4>2 DEF Fits, StoredFits
      <4>4. m.id \in Nat
        BY <1>1, StateTyped DEF MarkPosts, TypeOK
      <4>5. m.id >= t.stored[d]
        BY <1>5, <4>1, <4>3, <4>4
      <4>6. m \in out \cup t.posts
        BY <1>2
      <4> QED
        BY <4>3, <4>5, <4>6
    <3> QED
      BY <3>2, <3>3
  <2> QED
    BY <2>1, <2>2 DEF StoredFits
<1>11. OpenFits(t.a, c)
  BY <1>2, <1>3, <1>6 DEF OpenFits
<1>12. PostsFit(t, c)
  <2> SUFFICES ASSUME NEW m \in t.posts, m \notin s.posts
               PROVE  m.user = profile /\ m.conv = c /\ m.id <= t.a.cursor
    BY <1>2 DEF PostsFit
  <2>1. m = post
    BY <1>2
  <2> QED
    BY <1>1, <1>2, <1>3, <1>4, <2>1
<1> QED
  BY <1>1, <1>2, <1>7, <1>8, <1>9, <1>10, <1>11, <1>12 DEF Fits, t

(* The ticks are right after updatePeerReadState if those it does not look *)
(* at were.                                                                *)
LEMMA UpdatePeerFits ==
    ASSUME TypeOK, NEW user, LoggedIn => user = profile, NEW a \in App, Placed(a.view), NEW convs \in SUBSET Conversations,
           a.ticks \subseteq Shown(a.view),
           \A id \in Shown(a.view) :
               LoggedIn /\ (log[id].conv \notin convs \/ a.peer[log[id].conv] = 0) =>
                   (id \in a.ticks <=> log[id].from = profile /\ id <= a.peer[log[id].conv])
    PROVE  LET b == UpdatePeer(user, a, convs)
           IN  /\ b \in App
               /\ b.view = a.view
               /\ b.cursor = a.cursor
               /\ b.own = a.own
               /\ b.peer = a.peer
               /\ TicksFit(b)
<1> DEFINE ids == UNION {ToSet(a.view[c]) : c \in {d \in convs : a.peer[d] > 0}}
           ticks == (a.ticks \ ids)
                       \cup {id \in ids : log[id].from = user /\ id <= a.peer[log[id].conv]}
           b == UpdatePeer(user, a, convs)
<1>1. a.view \in [Conversations -> Seq(Nat)] /\ a.peer \in [Conversations -> Nat]
  BY DEF App
<1>2. \A id : id \in ids <=> \E c \in convs : a.peer[c] > 0 /\ id \in ToSet(a.view[c])
  OBVIOUS
<1>3. ASSUME NEW id \in ids
      PROVE  /\ id \in Shown(a.view)
             /\ log[id].conv \in convs
             /\ a.peer[log[id].conv] > 0
  <2>1. PICK c \in convs : a.peer[c] > 0 /\ id \in ToSet(a.view[c])
    BY <1>2
  <2>2. log[id].conv = c
    BY <2>1 DEF Placed
  <2> QED
    BY <2>1, <2>2, ShownWhere
<1>4. ASSUME NEW id \in Shown(a.view), log[id].conv \in convs, a.peer[log[id].conv] > 0
      PROVE  id \in ids
  BY <1>2, <1>4, ShownWhere
<1>5. Shown(a.view) \subseteq Nat
  <2>1. \A c \in Conversations : ToSet(a.view[c]) \subseteq Nat
    BY <1>1, ToSetTyped
  <2> QED
    BY <2>1 DEF Shown
<1> HIDE DEF ids
<1>6. ticks \subseteq Nat
  BY <1>3, <1>5
<1>7. b = [a EXCEPT !.ticks = ticks]
  BY DEF UpdatePeer, ids
<1>8. ASSUME LoggedIn, NEW id \in Shown(a.view)
      PROVE  id \in ticks <=> log[id].from = profile /\ id <= a.peer[log[id].conv]
  <2>1. CASE id \in ids
    BY <1>8, <2>1
  <2>2. CASE id \notin ids
    <3>1. log[id].conv \in Conversations
      BY ShownWhere
    <3>2. log[id].conv \notin convs \/ a.peer[log[id].conv] = 0
      BY <1>1, <1>4, <2>2, <3>1
    <3> QED
      BY <1>8, <2>2, <3>2
  <2> QED
    BY <2>1, <2>2
<1>9. ticks \subseteq Shown(a.view)
  BY <1>3
<1> HIDE DEF ticks, b
<1>10. /\ b \in App /\ b.view = a.view /\ b.cursor = a.cursor /\ b.own = a.own
       /\ b.peer = a.peer /\ b.ticks = ticks
  BY <1>6, <1>7 DEF App
<1>11. TicksFit(b)
  BY <1>8, <1>9, <1>10 DEF TicksFit
<1> QED
  BY <1>10, <1>11 DEF b

(* addServerMessage up to the test whether the conversation is open.       *)
Added(s, id) ==
    LET c == log[id].conv
        a == [s.a EXCEPT !.view[c] = Append(@, id), !.cursor = Larger(@, id)]
    IN  [s EXCEPT !.a = UpdatePeer(s.user, a, {c})]

LEMMA AddedFits ==
    ASSUME IInv, NEW s \in States, Fits(s), NEW id \in 1..Len(log), New(s, id)
    PROVE  LET t == Added(s, id)
               c == log[id].conv
           IN  /\ Fits(t)
               /\ \A d \in Conversations : d # c => t.a.view[d] = s.a.view[d]
               /\ Shown(t.a.view) = Shown(s.a.view) \cup {id}
               /\ s.a.cursor <= t.a.cursor
               /\ t.a.own = s.a.own
               /\ t.posts = s.posts
               /\ t.user = s.user
<1> DEFINE c == log[id].conv
           view == [s.a.view EXCEPT ![c] = Append(@, id)]
           cursor == Larger(s.a.cursor, id)
           a == [s.a EXCEPT !.view[c] = Append(@, id), !.cursor = Larger(@, id)]
           b == UpdatePeer(s.user, a, {c})
           t == Added(s, id)
<1>1. /\ s.a \in App
      /\ s.a.view \in [Conversations -> Seq(Nat)]
      /\ s.a.cursor \in Nat
      /\ s.a.own \in [Conversations -> Nat]
      /\ s.a.peer \in [Conversations -> Nat]
  BY StateTyped
<1>2. c \in Conversations /\ id \in Nat /\ id \in DOMAIN log /\ id > 0 /\ Len(log) \in Nat
  BY LogTyped DEF IInv
<1>3. TypeOK /\ Placed(s.a.view) /\ s.a.cursor <= Len(log) /\ (LoggedIn => s.user = profile)
  BY DEF IInv, Fits, ViewFits
<1> HIDE DEF c
<1>4. /\ view \in [Conversations -> Seq(Nat)]
      /\ ToSet(view[c]) = ToSet(s.a.view[c]) \cup {id}
      /\ \A d \in Conversations : d # c => view[d] = s.a.view[d]
      /\ Shown(view) = Shown(s.a.view) \cup {id}
  <2>1. s.a.view \in [Conversations -> Seq(Nat)] /\ c \in Conversations /\ id \in Nat
    BY <1>1, <1>2
  <2> QED
    BY ONLY <2>1, ShownAppend
<1>5. cursor \in {s.a.cursor, id} /\ cursor \in Nat /\ s.a.cursor <= cursor /\ id <= cursor
  BY <1>1, <1>2, LargerIs
<1> HIDE DEF view, cursor
<1>6. /\ a \in App /\ a.view = view /\ a.cursor = cursor /\ a.own = s.a.own
      /\ a.peer = s.a.peer /\ a.ticks = s.a.ticks
  <2>1. a = [s.a EXCEPT !.view = view, !.cursor = cursor]
    BY <1>1 DEF view, cursor, c, App
  <2> QED
    BY <1>1, <1>4, <1>5, <2>1 DEF App
<1>7. Placed(a.view)
  <2> SUFFICES ASSUME NEW d \in Conversations, NEW x \in ToSet(view[d])
               PROVE  x \in DOMAIN log /\ log[x].conv = d
    BY <1>6 DEF Placed
  <2>1. CASE x \in ToSet(s.a.view[d])
    BY <1>3, <2>1 DEF Placed
  <2>2. CASE x \notin ToSet(s.a.view[d])
    <3>1. d = c /\ x = id
      BY <1>4, <2>2
    <3> QED
      BY <1>2, <3>1 DEF c
  <2> QED
    BY <2>1, <2>2
<1>8. a.ticks \subseteq Shown(a.view)
  BY <1>4, <1>6 DEF Fits, TicksFit
<1>9. ASSUME LoggedIn, NEW x \in Shown(a.view),
             log[x].conv \notin {c} \/ a.peer[log[x].conv] = 0
      PROVE  x \in a.ticks <=> log[x].from = profile /\ x <= a.peer[log[x].conv]
  <2>1. CASE x \in Shown(s.a.view)
    BY <1>6, <1>9, <2>1 DEF Fits, TicksFit
  <2>2. CASE x \notin Shown(s.a.view)
    <3>1. x = id /\ log[x].conv = c
      BY <1>4, <1>6, <2>2 DEF c
    <3>2. x \notin a.ticks
      BY <1>6, <2>2 DEF Fits, TicksFit
    <3>3. a.peer[log[x].conv] = 0
      BY <1>9, <3>1
    <3>4. ~(x <= a.peer[log[x].conv])
      BY <1>2, <3>1, <3>3
    <3> QED
      BY <3>2, <3>4
  <2> QED
    BY <2>1, <2>2
<1>10. /\ b \in App /\ b.view = a.view /\ b.cursor = a.cursor /\ b.own = a.own
       /\ b.peer = a.peer /\ TicksFit(b)
  <2>1. {c} \in SUBSET Conversations
    BY <1>2
  <2> HIDE DEF a
  <2> QED
    BY <1>3, <1>6, <1>7, <1>8, <1>9, <2>1, UpdatePeerFits
<1> HIDE DEF a, b
<1>11. t = [s EXCEPT !.a = b]
  BY DEF Added, a, b, c
<1> HIDE DEF t
<1>12. t \in States /\ t.a = b /\ t.stored = s.stored /\ t.posts = s.posts /\ t.user = s.user
  BY <1>10, <1>11 DEF States
<1>13. t.a.view = view /\ t.a.cursor = cursor /\ t.a.own = s.a.own /\ t.a.peer = s.a.peer
  BY <1>6, <1>10, <1>12
<1>14. ViewFits(t.a)
  <2>1. \A x \in Shown(view) : x <= cursor
    <3> SUFFICES ASSUME NEW x \in Shown(view), x # id PROVE x <= cursor
      BY <1>5
    <3>1. x \in Shown(s.a.view)
      BY <1>4
    <3>2. x <= s.a.cursor /\ x \in DOMAIN log
      BY <3>1, <1>3, ShownWhere DEF Fits, ViewFits
    <3>3. x \in Nat
      BY <1>3, <3>2, LogTyped
    <3> QED
      BY <1>1, <1>5, <3>2, <3>3
  <2>2. cursor <= Len(log)
    BY <1>2, <1>3, <1>5
  <2> QED
    BY <1>6, <1>7, <1>13, <2>1, <2>2 DEF ViewFits
<1>15. TicksFit(t.a) /\ PeersFit(t.a)
  BY <1>10, <1>12, <1>13 DEF Fits, PeersFit
<1>16. ReadFits(t.a)
  <2> SUFFICES ASSUME NEW x \in read
               PROVE  /\ x \in DOMAIN log
                      /\ x \in Shown(view) \/ ~Visible(profile, log[x].conv)
                      /\ x \in Shown(view) /\ log[x].from # profile => x <= s.a.own[log[x].conv]
    BY <1>13 DEF ReadFits
  <2>1. /\ x \in DOMAIN log
        /\ x \in Shown(s.a.view) \/ ~Visible(profile, log[x].conv)
        /\ x \in Shown(s.a.view) /\ log[x].from # profile => x <= s.a.own[log[x].conv]
    BY DEF Fits, ReadFits
  <2>2. x # id
    <3>1. LoggedIn
      BY DEF IInv, LoggedOutOK
    <3> QED
      BY <1>3, <2>1, <3>1 DEF New
  <2> QED
    BY <1>4, <2>1, <2>2
<1>17. StoredFits(t)
  BY <1>12, <1>13 DEF Fits, StoredFits
<1>18. Fits(t)
  BY <1>3, <1>12, <1>14, <1>15, <1>16, <1>17 DEF Fits
<1> QED
  BY <1>4, <1>5, <1>12, <1>13, <1>18 DEF t, c

(* What a handler has made of the state so far.                            *)
Handled(s) == Fits(s) /\ OpenFits(s.a, current) /\ PostsFit(s, current)

Gained(s, t) == t.user = s.user /\ Shown(s.a.view) \subseteq Shown(t.a.view)

LEMMA AddNewFits ==
    ASSUME IInv, NEW s \in States, Handled(s), NEW id \in 1..Len(log)
    PROVE  LET t == AddNew(s, id)
           IN  /\ Handled(t)
               /\ Gained(s, t)
               /\ id \in Shown(t.a.view) \/ ~Visible(s.user, log[id].conv)
<1>1. CASE ~New(s, id)
  BY <1>1 DEF AddNew, New, Gained
<1>2. CASE New(s, id)
  <2> DEFINE t == Added(s, id)
             c == log[id].conv
  <2>1. /\ Fits(t)
        /\ \A d \in Conversations : d # c => t.a.view[d] = s.a.view[d]
        /\ Shown(t.a.view) = Shown(s.a.view) \cup {id}
        /\ s.a.cursor <= t.a.cursor
        /\ t.a.own = s.a.own
        /\ t.posts = s.posts
        /\ t.user = s.user
    BY <1>2, AddedFits DEF Handled
  <2>2. t \in States /\ c \in Conversations /\ Visible(s.user, c)
    BY <1>2, <2>1, LogTyped DEF Fits, IInv, New
  <2>3. AddNew(s, id) = IF c = current THEN MarkRead(t, c) ELSE t
    BY <1>2 DEF AddNew, AddServerMessage, Added
  <2> HIDE DEF t, c
  <2>4. PostsFit(t, current)
    <3> SUFFICES ASSUME NEW m \in s.posts, m.id <= s.a.cursor PROVE m.id <= t.a.cursor
      BY <2>1 DEF Handled, PostsFit
    <3>1. m.id \in Nat /\ s.a.cursor \in Nat /\ t.a.cursor \in Nat
      BY <2>2, StateTyped DEF MarkPosts
    <3> QED
      BY <2>1, <3>1
  <2>5. CASE c = current
    <3>1. LoggedIn
      BY <2>2, <2>5, NamesAssumption DEF IInv, LoggedOutOK
    <3>2. LET u == MarkRead(t, c)
          IN  Fits(u) /\ OpenFits(u.a, c) /\ PostsFit(u, c) /\ u.user = t.user /\ u.a.view = t.a.view
      <4>1. Visible(profile, c)
        BY <2>1, <2>2, <3>1 DEF Fits
      <4> QED
        BY <2>1, <2>2, <2>4, <2>5, <3>1, <4>1, MarkReadFits
    <3> QED
      BY <2>1, <2>3, <2>5, <3>2 DEF Handled, Gained
  <2>6. CASE c # current
    <3>1. OpenFits(t.a, current)
      BY <2>1, <2>6 DEF Handled, OpenFits
    <3> QED
      BY <2>1, <2>3, <2>4, <2>6, <3>1 DEF Handled, Gained
  <2> QED
    BY <2>5, <2>6
<1> QED
  BY <1>1, <1>2

(* The states of the loop: the function AddAll defines by recursion exists.*)
LoopOf(f, s, ids, n) == f = [i \in 0..n |-> IF i = 0 THEN s ELSE AddNew(f[i - 1], ids[i])]

LEMMA LoopExists ==
    ASSUME NEW s, NEW ids, NEW n \in Nat
    PROVE  \E f : LoopOf(f, s, ids, n)
<1> DEFINE S == {k \in Nat : \E f : LoopOf(f, s, ids, k)}
<1>1. 0 \in S
  <2> DEFINE f == [i \in 0..0 |-> s]
  <2>1. f = [i \in 0..0 |-> IF i = 0 THEN s ELSE AddNew(f[i - 1], ids[i])]
    OBVIOUS
  <2>2. LoopOf(f, s, ids, 0)
    BY <2>1 DEF LoopOf
  <2> QED
    BY <2>2
<1>2. ASSUME NEW k \in S PROVE k + 1 \in S
  <2>1. k \in Nat
    OBVIOUS
  <2>2. PICK f : LoopOf(f, s, ids, k)
    OBVIOUS
  <2>3. f = [i \in 0..k |-> IF i = 0 THEN s ELSE AddNew(f[i - 1], ids[i])]
    BY <2>2 DEF LoopOf
  <2> DEFINE g == [i \in 0..(k + 1) |-> IF i = k + 1 THEN AddNew(f[k], ids[k + 1]) ELSE f[i]]
             rhs(i) == IF i = 0 THEN s ELSE AddNew(g[i - 1], ids[i])
  <2>4. ASSUME NEW i \in 0..(k + 1) PROVE g[i] = rhs(i)
    <3>1. CASE i = k + 1
      <4>1. i # 0 /\ i - 1 = k /\ k \in 0..(k + 1) /\ k # k + 1
        BY <2>1, <3>1
      <4>2. g[i - 1] = f[k]
        BY <4>1
      <4> QED
        BY <3>1, <4>1, <4>2
    <3>2. CASE i # k + 1
      <4>1. i \in 0..k /\ g[i] = f[i]
        BY <2>1, <3>2
      <4>2. CASE i = 0
        BY <2>3, <4>1, <4>2
      <4>3. CASE i # 0
        <5>1. i - 1 \in 0..(k + 1) /\ i - 1 # k + 1
          BY <2>1, <4>1, <4>3
        <5>2. g[i - 1] = f[i - 1]
          BY <5>1
        <5> QED
          BY <2>3, <4>1, <4>3, <5>2
      <4> QED
        BY <4>2, <4>3
    <3> QED
      BY <3>1, <3>2
  <2>5. g = [i \in 0..(k + 1) |-> rhs(i)]
    BY <2>4
  <2>6. LoopOf(g, s, ids, k + 1)
    BY <2>5 DEF LoopOf
  <2> QED
    BY <2>1, <2>6
<1> HIDE DEF S
<1>3. S = Nat
  <2>1. S \in SUBSET Nat
    BY DEF S
  <2> QED
    BY <1>1, <1>2, <2>1, SetInduction
<1> QED
  BY <1>3 DEF S

LEMMA AddAllFits ==
    ASSUME IInv, NEW s \in States, Handled(s), NEW ids \in Seq(1..Len(log))
    PROVE  LET t == AddAll(s, ids)
           IN  /\ Handled(t)
               /\ Gained(s, t)
               /\ \A id \in ToSet(ids) : id \in Shown(t.a.view) \/ ~Visible(s.user, log[id].conv)
<1> DEFINE n == Len(ids)
           after == CHOOSE f : LoopOf(f, s, ids, n)
           done(i) == /\ Handled(after[i])
                      /\ Gained(s, after[i])
                      /\ \A j \in 1..i : \/ ids[j] \in Shown(after[i].a.view)
                                         \/ ~Visible(s.user, log[ids[j]].conv)
           S == {i \in Nat : i <= n => done(i)}
<1>1. n \in Nat /\ \A i \in 1..n : ids[i] \in 1..Len(log)
  OBVIOUS
<1>2. AddAll(s, ids) = after[n]
  BY DEF AddAll, LoopOf
<1>3. LoopOf(after, s, ids, n)
  BY <1>1, LoopExists
<1> HIDE DEF n, after
<1>4. after[0] = s /\ \A i \in 1..n : after[i] = AddNew(after[i - 1], ids[i])
  <2>1. after = [i \in 0..n |-> IF i = 0 THEN s ELSE AddNew(after[i - 1], ids[i])]
    BY <1>3 DEF LoopOf
  <2>2. 0 \in 0..n /\ \A i \in 1..n : i \in 0..n /\ i # 0
    BY <1>1
  <2> QED
    BY <2>1, <2>2
<1>5. 0 \in S
  BY <1>4 DEF Gained
<1>6. ASSUME NEW i \in S PROVE i + 1 \in S
  <2> SUFFICES ASSUME i + 1 <= n PROVE done(i + 1)
    OBVIOUS
  <2>1. i \in Nat /\ i <= n /\ i + 1 \in 1..n /\ (i + 1) - 1 = i
    BY <1>1
  <2>2. Handled(after[i]) /\ Gained(s, after[i])
    BY <2>1
  <2>3. \A j \in 1..i : ids[j] \in Shown(after[i].a.view) \/ ~Visible(s.user, log[ids[j]].conv)
    BY <2>1
  <2>4. after[i + 1] = AddNew(after[i], ids[i + 1]) /\ ids[i + 1] \in 1..Len(log)
    BY <1>1, <1>4, <2>1
  <2>5. /\ Handled(after[i + 1])
        /\ Gained(after[i], after[i + 1])
        /\ \/ ids[i + 1] \in Shown(after[i + 1].a.view)
           \/ ~Visible(s.user, log[ids[i + 1]].conv)
    BY <2>2, <2>4, AddNewFits DEF Handled, Fits, Gained
  <2>6. \A j \in 1..(i + 1) : j \in 1..i \/ j = i + 1
    BY <2>1
  <2> QED
    BY <2>2, <2>3, <2>5, <2>6 DEF Gained
<1>7. S \in SUBSET Nat
  OBVIOUS
<1>8. S = Nat
  <2> HIDE DEF S
  <2> QED
    BY <1>5, <1>6, <1>7, SetInduction
<1>9. done(n)
  BY <1>1, <1>8
<1>10. \A id \in ToSet(ids) : \E j \in 1..n : id = ids[j]
  BY <1>1 DEF ToSet, n
<1> QED
  BY <1>2, <1>9, <1>10

-------------------------------------------------------------------------------
(* applyReadMarkersFromServer.                                             *)

(* What others have marked read, of the markers of a reply.                *)
Theirs(user, given, c) == Latest({given[c][u] : u \in Users \ {user}})

LEMMA TheirsIs ==
    ASSUME IInv, NEW user, NEW given \in [Conversations -> [Users -> Nat]], MarksFit(given),
           NEW c \in Conversations
    PROVE  /\ Theirs(user, given, c) \in Nat
           /\ Theirs(user, given, c) > 0 =>
                  \E u \in Users \ {user} : /\ given[c][u] > 0
                                               /\ Theirs(user, given, c) <= marks[c][u]
<1> DEFINE ids == {given[c][u] : u \in Users \ {user}}
<1>1. Len(log) \in Nat
  BY LogTyped DEF IInv
<1>2. ASSUME NEW u \in Users
      PROVE  given[c][u] \in 0..Len(log) /\ given[c][u] <= marks[c][u]
  <2>1. given[c][u] \in Nat /\ marks[c][u] \in Nat
    BY DEF IInv, TypeOK
  <2>2. given[c][u] <= marks[c][u] /\ marks[c][u] <= Len(log)
    BY DEF IInv, MarksFit
  <2> QED
    BY <1>1, <2>1, <2>2
<1>3. ids \in SUBSET (0..Len(log))
  BY <1>2
<1>4. Latest(ids) \in 0..Len(log) /\ Latest(ids) \in {0} \cup ids
  <2> HIDE DEF ids
  <2> QED
    BY <1>1, <1>3, LatestIs
<1>5. Theirs(user, given, c) = Latest(ids)
  BY DEF Theirs
<1>6. ASSUME Latest(ids) > 0
      PROVE  \E u \in Users \ {user} : given[c][u] > 0 /\ Latest(ids) <= marks[c][u]
  <2>1. Latest(ids) \in ids
    <3> HIDE DEF ids
    <3> QED
      BY <1>4, <1>6
  <2>2. PICK u \in Users \ {user} : Latest(ids) = given[c][u]
    BY <2>1
  <2> QED
    BY <1>2, <1>6, <2>2
<1> HIDE DEF ids
<1> QED
  BY <1>1, <1>4, <1>5, <1>6

Mine(user, given, c) == IF user \in Users THEN given[c][user] ELSE 0

OwnAfter(s, given) == [c \in Conversations |-> Larger(s.a.own[c], Mine(s.user, given, c))]
PeerAfter(s, given) == [c \in Conversations |-> Larger(s.a.peer[c], Theirs(s.user, given, c))]
Named(given) == {c \in Conversations : \E u \in Users : given[c][u] > 0}
Informed(s, given) == [s.a EXCEPT !.own = OwnAfter(s, given), !.peer = PeerAfter(s, given)]

LEMMA OwnAfterIs ==
    ASSUME IInv, NEW s \in States, NEW given \in [Conversations -> [Users -> Nat]]
    PROVE  /\ OwnAfter(s, given) \in [Conversations -> Nat]
           /\ \A c \in Conversations :
                 /\ s.a.own[c] <= OwnAfter(s, given)[c]
                 /\ s.user \in Users => given[c][s.user] <= OwnAfter(s, given)[c]
                 /\ \/ OwnAfter(s, given)[c] = s.a.own[c]
                    \/ s.user \in Users /\ OwnAfter(s, given)[c] = given[c][s.user]
<1> SUFFICES ASSUME NEW c \in Conversations
             PROVE  LET l == Larger(s.a.own[c], Mine(s.user, given, c))
                    IN  /\ l \in Nat
                        /\ s.a.own[c] <= l
                        /\ s.user \in Users => given[c][s.user] <= l
                        /\ l = s.a.own[c] \/ (s.user \in Users /\ l = given[c][s.user])
  BY DEF OwnAfter
<1>1. s.a.own[c] \in Nat
  BY StateTyped
<1>2. Mine(s.user, given, c) \in Nat /\ (s.user \in Users => Mine(s.user, given, c) = given[c][s.user])
      /\ (s.user \notin Users => Mine(s.user, given, c) = 0)
  BY DEF Mine
<1> QED
  BY <1>1, <1>2, Z3 DEF Larger

LEMMA InformedFits ==
    ASSUME IInv, NEW s \in States, Fits(s),
           NEW given \in [Conversations -> [Users -> Nat]], MarksFit(given)
    PROVE  LET b == UpdatePeer(s.user, Informed(s, given), Named(given))
           IN  /\ b \in App
               /\ b.view = s.a.view
               /\ b.cursor = s.a.cursor
               /\ b.own = OwnAfter(s, given)
               /\ TicksFit(b)
               /\ PeersFit(b)
<1> DEFINE own == OwnAfter(s, given)
           peer == PeerAfter(s, given)
           a == Informed(s, given)
           convs == Named(given)
           b == UpdatePeer(s.user, a, convs)
<1>1. s.a \in App /\ s.a.peer \in [Conversations -> Nat] /\ own \in [Conversations -> Nat]
  BY StateTyped, OwnAfterIs
<1>2. ASSUME NEW c \in Conversations
      PROVE  /\ peer[c] \in Nat
             /\ s.a.peer[c] <= peer[c]
             /\ peer[c] \in {s.a.peer[c], Theirs(s.user, given, c)}
             /\ c \notin convs => peer[c] = s.a.peer[c]
  <2>1. Theirs(s.user, given, c) \in Nat /\ s.a.peer[c] \in Nat
    BY <1>1, TheirsIs
  <2>2. peer[c] = Larger(s.a.peer[c], Theirs(s.user, given, c))
    BY DEF PeerAfter
  <2>3. c \notin convs => Theirs(s.user, given, c) = 0
    <3>1. c \notin convs => \A u \in Users : ~(given[c][u] > 0)
      BY DEF Named
    <3> QED
      BY <2>1, <3>1, TheirsIs
  <2> HIDE DEF peer, convs
  <2> QED
    BY <2>1, <2>2, <2>3 DEF Larger
<1>3. peer \in [Conversations -> Nat]
  <2>1. peer = [c \in Conversations |-> Larger(s.a.peer[c], Theirs(s.user, given, c))]
    BY DEF PeerAfter
  <2> HIDE DEF peer
  <2> QED
    BY <1>2, <2>1
<1>4. /\ a \in App /\ a.view = s.a.view /\ a.cursor = s.a.cursor /\ a.own = own /\ a.peer = peer
      /\ a.ticks = s.a.ticks
  <2> HIDE DEF own, peer
  <2>1. a = [s.a EXCEPT !.own = own, !.peer = peer]
    BY DEF Informed, own, peer
  <2> QED
    BY <1>1, <1>3, <2>1 DEF App
<1> HIDE DEF own, peer, a
<1>5. TypeOK /\ Placed(a.view) /\ a.ticks \subseteq Shown(a.view) /\ (LoggedIn => s.user = profile)
  BY <1>4 DEF IInv, Fits, ViewFits, TicksFit
<1>6. convs \in SUBSET Conversations
  BY DEF Named
<1>7. ASSUME LoggedIn, NEW id \in Shown(a.view), log[id].conv \notin convs \/ a.peer[log[id].conv] = 0
      PROVE  id \in a.ticks <=> log[id].from = profile /\ id <= a.peer[log[id].conv]
  <2>1. log[id].conv \in Conversations
    BY <1>5, ShownWhere
  <2>2. a.peer[log[id].conv] = s.a.peer[log[id].conv]
    BY <1>1, <1>2, <1>4, <1>7, <2>1
  <2> QED
    BY <1>4, <1>7, <2>2 DEF Fits, TicksFit
<1>8. /\ b \in App /\ b.view = a.view /\ b.cursor = a.cursor /\ b.own = a.own /\ b.peer = a.peer
      /\ TicksFit(b)
  <2> HIDE DEF convs
  <2> QED
    BY <1>4, <1>5, <1>6, <1>7, UpdatePeerFits
<1>9. PeersFit(a)
  <2> SUFFICES ASSUME LoggedIn, NEW c \in Conversations, peer[c] > 0
               PROVE  \E u \in Users \ {profile} : peer[c] <= marks[c][u]
    BY <1>4 DEF PeersFit
  <2>1. CASE peer[c] = s.a.peer[c]
    BY <2>1 DEF Fits, PeersFit
  <2>2. CASE peer[c] = Theirs(s.user, given, c)
    BY <1>5, <2>2, TheirsIs
  <2> QED
    BY <1>2, <2>1, <2>2
<1>10. PeersFit(b)
  BY <1>8, <1>9 DEF PeersFit
<1> QED
  BY <1>4, <1>8, <1>10 DEF own, a

LEMMA ApplyReadMarkersFits ==
    ASSUME IInv, NEW s \in States, Handled(s),
           NEW given \in [Conversations -> [Users -> Nat]], MarksFit(given)
    PROVE  LET t == ApplyReadMarkers(s, given)
           IN  /\ Handled(t)
               /\ t.user = s.user
               /\ t.a.view = s.a.view
               /\ LoggedIn => \A c \in Conversations : given[c][profile] <= t.a.own[c]
<1> DEFINE own == OwnAfter(s, given)
           b == UpdatePeer(s.user, Informed(s, given), Named(given))
           kept == IF own # s.a.own THEN own ELSE s.stored
           t == ApplyReadMarkers(s, given)
<1>1. Fits(s) /\ (LoggedIn => s.user = profile) /\ s.stored \in [Conversations -> Nat] /\ s.a.own \in [Conversations -> Nat]
  BY StateTyped DEF Handled, Fits
<1>2. /\ own \in [Conversations -> Nat]
      /\ \A c \in Conversations :
            /\ s.a.own[c] <= own[c]
            /\ LoggedIn => given[c][profile] <= own[c]
            /\ LoggedIn => own[c] = s.a.own[c] \/ own[c] = given[c][profile]
  BY <1>1, OwnAfterIs DEF LoggedIn
<1>3. /\ b \in App /\ b.view = s.a.view /\ b.cursor = s.a.cursor /\ b.own = own
      /\ TicksFit(b) /\ PeersFit(b)
  BY <1>1, InformedFits
<1>4. t = [s EXCEPT !.a = b, !.stored = kept]
  BY DEF ApplyReadMarkers, OwnAfter, PeerAfter, Informed, Named, Mine, Theirs
<1> HIDE DEF own, b, t
<1>5. kept \in [Conversations -> Nat]
  BY <1>1, <1>2
<1> HIDE DEF kept
<1>6. t \in States /\ t.a = b /\ t.stored = kept /\ t.posts = s.posts /\ t.user = s.user
  BY <1>3, <1>4, <1>5 DEF States
<1>7. ViewFits(t.a)
  BY <1>1, <1>3, <1>6 DEF Fits, ViewFits
<1>8. ReadFits(t.a)
  <2> SUFFICES ASSUME NEW id \in read, id \in Shown(s.a.view), log[id].from # profile
               PROVE  id <= own[log[id].conv]
    BY <1>1, <1>3, <1>6 DEF Fits, ReadFits
  <2>1. id <= s.a.own[log[id].conv]
    BY <1>1 DEF Fits, ReadFits
  <2>2. log[id].conv \in Conversations /\ id \in Nat
    BY <1>1, ShownWhere, LogTyped DEF Fits, ViewFits, IInv
  <2> QED
    BY <1>1, <1>2, <2>1, <2>2
<1>9. StoredFits(t)
  <2>1. ASSUME NEW c \in Conversations PROVE own[c] <= kept[c]
    BY <1>1, <1>2 DEF kept, Fits, StoredFits
  <2>3. ASSUME LoggedIn, NEW c \in Conversations, kept[c] > marks[c][profile], kept[c] > unsent[c]
        PROVE  \E m \in out \cup s.posts : m.conv = c /\ m.user = profile /\ m.id >= kept[c]
    <3>1. marks[c][profile] \in Nat /\ unsent[c] \in Nat /\ given[c][profile] <= marks[c][profile]
      BY <2>3 DEF IInv, TypeOK, LoggedIn, MarksFit
    <3>2. kept[c] <= s.stored[c]
      <4>1. CASE own = s.a.own
        BY <1>1, <4>1 DEF kept
      <4>2. CASE own # s.a.own
        <5>1. kept[c] = own[c]
          BY <4>2 DEF kept
        <5>2. given[c][profile] \in Nat
          BY <2>3 DEF LoggedIn
        <5>3. own[c] = s.a.own[c]
          BY <1>2, <2>3, <3>1, <5>1, <5>2
        <5> QED
          BY <1>1, <5>1, <5>3 DEF Fits, StoredFits
      <4> QED
        BY <4>1, <4>2
    <3>3. s.stored[c] > marks[c][profile] /\ s.stored[c] > unsent[c]
      BY <1>1, <1>5, <2>3, <3>1, <3>2
    <3>4. PICK m \in out \cup s.posts : m.conv = c /\ m.user = profile /\ m.id >= s.stored[c]
      BY <1>1, <2>3, <3>3 DEF Fits, StoredFits
    <3>5. m.id \in Nat
      BY StateTyped DEF MarkPosts, IInv, TypeOK
    <3> QED
      BY <1>1, <1>5, <3>2, <3>4, <3>5
  <2> QED
    BY <1>3, <1>6, <2>1, <2>3 DEF StoredFits
<1>10. OpenFits(t.a, current)
  <2> SUFFICES ASSUME current \in Conversations, NEW id \in ToSet(s.a.view[current])
               PROVE  id <= own[current]
    BY <1>3, <1>6 DEF OpenFits
  <2>1. id <= s.a.own[current]
    BY DEF Handled, OpenFits
  <2>2. id \in Nat
    <3>1. id \in DOMAIN log
      BY <1>1 DEF Fits, ViewFits, Placed
    <3> QED
      BY <3>1, LogTyped DEF IInv
  <2> QED
    BY <1>1, <1>2, <2>1, <2>2
<1>11. PostsFit(t, current)
  BY <1>3, <1>6 DEF Handled, PostsFit
<1>12. Handled(t)
  BY <1>1, <1>3, <1>6, <1>7, <1>8, <1>9, <1>10, <1>11 DEF Handled, Fits
<1> QED
  BY <1>2, <1>3, <1>6, <1>12 DEF t

(* updateLastServerMsgId with the last message of a reply.                 *)
LEMMA CursorFits ==
    ASSUME IInv, NEW s \in States, Handled(s), NEW last \in 0..Len(log)
    PROVE  LET t == [s EXCEPT !.a.cursor = Larger(@, last)]
           IN  Handled(t) /\ t \in States /\ t.user = s.user /\ t.a.view = s.a.view
<1> DEFINE cursor == Larger(s.a.cursor, last)
           b == [s.a EXCEPT !.cursor = cursor]
           t == [s EXCEPT !.a.cursor = Larger(@, last)]
<1>1. s.a \in App /\ s.a.cursor \in Nat /\ last \in Nat /\ last <= Len(log) /\ Len(log) \in Nat
  BY StateTyped, LogTyped DEF IInv
<1>2. s.a.cursor <= Len(log)
  BY DEF Handled, Fits, ViewFits
<1>3. cursor \in Nat /\ s.a.cursor <= cursor /\ cursor <= Len(log)
  BY <1>1, <1>2, LargerIs
<1> HIDE DEF cursor
<1>4. /\ b \in App /\ b.view = s.a.view /\ b.cursor = cursor /\ b.own = s.a.own
      /\ b.peer = s.a.peer /\ b.ticks = s.a.ticks
  BY <1>1, <1>3 DEF App
<1>5. t = [s EXCEPT !.a = b]
  BY DEF cursor, States
<1> HIDE DEF b, t
<1>6. t \in States /\ t.a = b /\ t.stored = s.stored /\ t.posts = s.posts /\ t.user = s.user
  BY <1>4, <1>5 DEF States
<1>7. ViewFits(t.a)
  <2>1. ASSUME NEW id \in Shown(s.a.view) PROVE id <= cursor
    <3>1. id <= s.a.cursor /\ id \in DOMAIN log
      BY ShownWhere DEF Handled, Fits, ViewFits
    <3>2. id \in Nat
      BY <3>1, LogTyped DEF IInv
    <3> QED
      BY <1>1, <1>3, <3>1, <3>2
  <2> QED
    BY <1>3, <1>4, <1>6, <2>1 DEF Handled, Fits, ViewFits
<1>8. TicksFit(t.a) /\ PeersFit(t.a) /\ ReadFits(t.a) /\ StoredFits(t) /\ OpenFits(t.a, current)
  BY <1>4, <1>6 DEF Handled, Fits, TicksFit, PeersFit, ReadFits, StoredFits, OpenFits
<1>9. PostsFit(t, current)
  <2> SUFFICES ASSUME NEW m \in s.posts, m.id <= s.a.cursor PROVE m.id <= cursor
    BY <1>4, <1>6 DEF Handled, PostsFit
  <2>1. m.id \in Nat
    BY StateTyped DEF MarkPosts
  <2> QED
    BY <1>1, <1>3, <2>1
<1> QED
  BY <1>4, <1>6, <1>7, <1>8, <1>9 DEF Handled, Fits, t

LEMMA HandleMessagesFits ==
    ASSUME IInv, NEW s \in States, Handled(s), NEW reply, reply.ids \in Seq(1..Len(log)),
           reply.marks \in [Conversations -> [Users -> Nat]], MarksFit(reply.marks)
    PROVE  LET t == HandleMessages(s, reply)
           IN  /\ Handled(t)
               /\ \A id \in ToSet(reply.ids) :
                     id \in Shown(t.a.view) \/ ~Visible(s.user, log[id].conv)
               /\ LoggedIn => \A c \in Conversations : reply.marks[c][profile] <= t.a.own[c]
<1> DEFINE t == AddAll(s, reply.ids)
           last == Latest(ToSet(reply.ids))
           u == [t EXCEPT !.a.cursor = Larger(@, last)]
<1>1. /\ Handled(t)
      /\ \A id \in ToSet(reply.ids) : id \in Shown(t.a.view) \/ ~Visible(s.user, log[id].conv)
  BY AddAllFits
<1>2. t \in States
  BY <1>1 DEF Handled, Fits
<1>3. last \in 0..Len(log)
  <2>1. Len(log) \in Nat
    BY LogTyped DEF IInv
  <2>2. ToSet(reply.ids) \subseteq 1..Len(log)
    BY ToSetTyped
  <2>3. ToSet(reply.ids) \in SUBSET (0..Len(log))
    BY <2>1, <2>2
  <2> QED
    BY <2>1, <2>3, LatestIs
<1>4. HandleMessages(s, reply) = ApplyReadMarkers(u, reply.marks)
  BY DEF HandleMessages
<1> HIDE DEF t, last
<1>5. Handled(u) /\ u \in States /\ u.user = t.user /\ u.a.view = t.a.view
  BY <1>1, <1>2, <1>3, CursorFits
<1> HIDE DEF u
<1> QED
  BY <1>1, <1>4, <1>5, ApplyReadMarkersFits

-------------------------------------------------------------------------------
(* What is on the wire, from the kind of it.                               *)
LEMMA TrafficKinds ==
    ASSUME NEW w \in Traffic
    PROVE  /\ w.kind \in {"free", "get", "collected", "history", "post", "posted"}
           /\ w.kind = "get" => w.since \in Nat
           /\ w.kind \in {"collected", "history"} => w.ids \in Seq(Nat)
           /\ w.kind = "history" => w.marks \in [Conversations -> [Users -> Nat]]
           /\ w.kind = "post" => w.conv \in Conversations /\ w.from \in Users
           /\ w.kind = "posted" => w.id \in Nat
BY DEF Traffic, Free

(* A handler of the client has run: it worked on s and left `open' open.   *)
LEMMA HandlerDone ==
    ASSUME IInv, NEW s \in States, NEW open \in Conversations \cup {NoConversation},
           Fits(s), OpenFits(s.a, open), PostsFit(s, open), Becomes(s, open),
           UNCHANGED <<log, marks, profile>>,
           ~LoggedIn => open = NoConversation,
           cache' = cache \/ cache' = s.a.view,
           \A n \in Connections : wire'[n] = wire[n] \/ wire'[n] = Free,
           wire' \in [Connections -> Traffic],
           ~LoggedIn => read' = read,
           \A id \in read' : \/ id \in read
                             \/ /\ id \in DOMAIN log
                                /\ id <= s.a.own[log[id].conv]
                                /\ \/ id \in Shown(s.a.view)
                                   \/ LoggedIn /\ ~Visible(profile, log[id].conv)
    PROVE  IInv'
<1> DEFINE kept(sent, c) == {unsent[c]} \cup MarksOf(s.posts \ sent, c)
<1>1. /\ app' = s.a /\ stored' = s.stored /\ current' = open
      /\ skipped' = skipped \cup Passed(s.user, s.a)
      /\ seen' = IF profile \in Users /\ open \in Conversations
                 THEN [seen EXCEPT ![profile] = @ \cup ToSet(s.a.view[open])] ELSE seen
  BY DEF Becomes
<1>s. PICK sent \in SUBSET s.posts :
         /\ out' = out \cup sent
         /\ unsent' = IF LoggedIn THEN [c \in Conversations |-> Latest(kept(sent, c))] ELSE s.stored
  BY DEF Becomes
<1>2. s.a \in App /\ s.stored \in [Conversations -> Nat] /\ s.posts \subseteq MarkPosts
      /\ s.a.view \in [Conversations -> Seq(Nat)] /\ s.a.cursor \in Nat
  BY StateTyped
<1>k. ASSUME NEW c \in Conversations
      PROVE  /\ Latest(kept(sent, c)) \in Nat
             /\ unsent[c] <= Latest(kept(sent, c))
             /\ \A m \in s.posts \ sent : m.conv = c => m.id <= Latest(kept(sent, c))
  <2>1. Len(log) \in Nat /\ unsent[c] \in Nat
    BY LogTyped DEF IInv, TypeOK
  <2> DEFINE n == Larger(unsent[c], Len(log))
  <2>2. n \in Nat /\ unsent[c] <= n /\ Len(log) <= n
    BY <2>1, LargerIs
  <2>3. \A m \in s.posts : m.id \in Nat /\ m.id <= Len(log)
    <3> SUFFICES ASSUME NEW m \in s.posts PROVE m.id \in Nat /\ m.id <= Len(log)
      OBVIOUS
    <3>1. m.id <= s.a.cursor /\ s.a.cursor <= Len(log)
      BY DEF PostsFit, Fits, ViewFits
    <3> QED
      BY <1>2, <2>1, <3>1 DEF MarkPosts
  <2> HIDE DEF n
  <2>4. kept(sent, c) \in SUBSET (0..n)
    BY <2>1, <2>2, <2>3 DEF MarksOf
  <2>5. /\ Latest(kept(sent, c)) \in 0..n
        /\ \A id \in kept(sent, c) : id <= Latest(kept(sent, c))
    <3> HIDE DEF kept
    <3> QED
      BY <2>2, <2>4, LatestIs
  <2>6. unsent[c] \in kept(sent, c)
    OBVIOUS
  <2>7. \A m \in s.posts \ sent : m.conv = c => m.id \in kept(sent, c)
    BY DEF MarksOf
  <2> HIDE DEF kept
  <2> QED
    BY <2>2, <2>5, <2>6, <2>7
<1> HIDE DEF kept
<1>u. unsent' \in [Conversations -> Nat]
  BY <1>2, <1>s, <1>k
<1>3. TypeOK'
  BY <1>1, <1>2, <1>s, <1>u DEF IInv, TypeOK
<1>4. HistoryOK' /\ skipped \subseteq skipped' /\ \A u \in Users : seen[u] \subseteq seen'[u]
  <2>1. Passed(s.user, s.a) \subseteq Nat
    BY DEF Passed
  <2>2. open \in Conversations => ToSet(s.a.view[open]) \subseteq Nat
    BY <1>2, ToSetTyped
  <2> QED
    BY <1>1, <2>1, <2>2 DEF IInv, HistoryOK
<1>5. Client'.user = profile /\ Client'.a = s.a /\ Client'.stored = s.stored /\ Client'.posts = {}
      /\ Client' \in States
  BY <1>1, <1>2 DEF Client, State, States, IInv, TypeOK
<1>6. ASSUME NEW id \in read'
      PROVE  /\ id \in DOMAIN log
             /\ id \in Shown(s.a.view) \/ ~Visible(profile, log[id].conv)
             /\ id \in Shown(s.a.view) /\ log[id].from # profile => id <= s.a.own[log[id].conv]
  BY DEF Fits, ReadFits
<1>7. LoggedOutOK'
  BY <1>1, <1>s DEF IInv, LoggedOutOK, LoggedIn
<1>8. Fits(Client)'
  <2>1. ViewFits(Client.a)'
    BY <1>5 DEF Fits, ViewFits, Placed, Shown
  <2>2. TicksFit(Client.a)'
    BY <1>5 DEF Fits, TicksFit, Shown, LoggedIn
  <2>3. PeersFit(Client.a)'
    BY <1>5 DEF Fits, PeersFit, LoggedIn
  <2>4. ReadFits(Client.a)'
    BY <1>5, <1>6 DEF ReadFits, Visible, Shown
  <2>5. ASSUME LoggedIn, NEW c \in Conversations,
               s.stored[c] > marks[c][profile], s.stored[c] > unsent'[c]
        PROVE  \E m \in out' : m.conv = c /\ m.user = profile /\ m.id >= s.stored[c]
    <3>1. unsent'[c] = Latest(kept(sent, c))
      BY <1>s, <2>5
    <3>2. s.stored[c] \in Nat /\ unsent[c] \in Nat /\ unsent'[c] \in Nat
      BY <1>2, <1>u DEF IInv, TypeOK
    <3>3. s.stored[c] > unsent[c]
      BY <1>k, <2>5, <3>1, <3>2
    <3>4. PICK m \in out \cup s.posts : m.conv = c /\ m.user = profile /\ m.id >= s.stored[c]
      BY <2>5, <3>3 DEF Fits, StoredFits
    <3>5. m.id \in Nat
      BY <1>2 DEF MarkPosts, IInv, TypeOK
    <3>6. m \notin s.posts \ sent
      BY <1>k, <2>5, <3>1, <3>2, <3>4, <3>5
    <3> QED
      BY <1>s, <3>4, <3>6
  <2>6. StoredFits(Client)'
    BY <1>5, <2>5 DEF Fits, StoredFits, LoggedIn
  <2> QED
    BY <1>5, <2>1, <2>2, <2>3, <2>4, <2>6 DEF Fits
<1>9. OpenFits(app, current)'
  BY <1>1 DEF OpenFits
<1>10. Placed(cache)'
  BY DEF IInv, Fits, ViewFits, Placed
<1>11. ASSUME NEW m \in out' PROVE OutFits(m)'
  <2>1. CASE m \in out
    <3>1. m.user \in Users
      BY <2>1 DEF IInv, TypeOK, MarkPosts
    <3> QED
      BY <1>4, <2>1, <3>1 DEF IInv, OutFits
  <2>2. CASE m \notin out
    <3>1. /\ LoggedIn /\ m.user = profile /\ m.conv = open /\ Visible(profile, open)
          /\ m.id <= s.a.cursor /\ s.user = profile /\ m \in s.posts
      BY <1>s, <2>2 DEF PostsFit, Fits
    <3>2. open \in Conversations /\ m.id \in Nat
      BY <1>1, <1>2, <3>1 DEF MarkPosts
    <3>3. s.a.cursor <= Len(log) /\ Len(log) \in Nat
      BY LogTyped DEF Fits, ViewFits, IInv
    <3>4. ASSUME NEW id \in 1..m.id, log[id].conv = open
          PROVE  id \in seen'[profile] \/ id \in skipped'
      <4>1. CASE id \in Shown(s.a.view)
        <5>1. id \in ToSet(s.a.view[open])
          BY <3>4, <4>1, ShownWhere DEF Fits, ViewFits
        <5> QED
          BY <1>1, <3>1, <3>2, <5>1 DEF LoggedIn, IInv, HistoryOK
      <4>2. CASE id \notin Shown(s.a.view)
        <5>1. id \in 1..s.a.cursor
          BY <1>2, <3>1, <3>2
        <5> QED
          BY <1>1, <3>1, <3>4, <4>2, <5>1 DEF Passed
      <4> QED
        BY <4>1, <4>2
    <3>5. m.id <= Len(log)
      BY <1>2, <3>1, <3>2, <3>3
    <3> QED
      BY <3>1, <3>4, <3>5 DEF OutFits
  <2> QED
    BY <2>1, <2>2
<1>12. (\A c \in Conversations : \A u \in Users : marks[c][u] <= Len(log))'
  BY DEF IInv
<1>13. MarksCoverOnlySeen'
  BY <1>4 DEF IInv, MarksCoverOnlySeen
<1>14. ASSUME NEW n \in Connections PROVE WireFits(wire[n])'
  <2>1. CASE wire'[n] = wire[n]
    BY <2>1 DEF IInv, WireFits, MarksFit
  <2>2. CASE wire'[n] = Free
    <3>1. Free.kind = "free"
      BY DEF Free
    <3> QED
      BY <2>2, <3>1 DEF WireFits
  <2> QED
    BY <2>1, <2>2
<1> QED
  BY <1>3, <1>4, <1>7, <1>8, <1>9, <1>10, <1>11, <1>12, <1>13, <1>14 DEF IInv

-------------------------------------------------------------------------------
(* The client's handlers.                                                  *)

LEMMA StateHandled ==
    ASSUME IInv
    PROVE  /\ Client \in States
           /\ Handled(Client)
           /\ Client.user = profile /\ Client.a = app /\ Client.stored = stored /\ Client.posts = {}
<1>1. Client.user = profile /\ Client.a = app /\ Client.stored = stored /\ Client.posts = {}
  BY DEF Client, State
<1>2. Client \in States
  BY DEF IInv, Fits
<1>3. OpenFits(Client.a, current)
  BY <1>1 DEF IInv, OpenFits
<1>4. PostsFit(Client, current)
  BY <1>1 DEF PostsFit
<1> QED
  BY <1>1, <1>2, <1>3, <1>4 DEF IInv, Handled

(* A late reply may find anybody as m_authenticatedUser when no profile is *)
(* registered.                                                             *)
LEMMA WhoHandled ==
    ASSUME IInv, NEW who \in Whom
    PROVE  LET s == State(who)
           IN  s \in States /\ Handled(s) /\ s.user = who /\ s.a = app /\ s.posts = {}
<1> DEFINE s == State(who)
<1>1. s.user = who /\ s.a = app /\ s.stored = stored /\ s.posts = {}
  BY DEF State
<1>2. Handled(Client) /\ Client.a = app /\ Client.stored = stored /\ Client.posts = {}
  BY StateHandled
<1>3. who \in Users \cup {NoUser} /\ (LoggedIn => who = profile)
  BY DEF Whom, LoggedIn
<1>4. s \in States
  BY <1>3 DEF State, States, IInv, TypeOK
<1> HIDE DEF s
<1>5. ViewFits(s.a) /\ TicksFit(s.a) /\ PeersFit(s.a) /\ ReadFits(s.a) /\ OpenFits(s.a, current)
  BY <1>1, <1>2 DEF Handled, Fits
<1>6. StoredFits(s) /\ PostsFit(s, current)
  BY <1>1, <1>2 DEF Handled, Fits, StoredFits, PostsFit
<1>7. Handled(s)
  BY <1>1, <1>3, <1>4, <1>5, <1>6 DEF Handled, Fits
<1> QED
  BY <1>1, <1>4, <1>7 DEF s

LEMMA Freed ==
    ASSUME IInv, NEW n \in Connections, wire' = [wire EXCEPT ![n] = Free]
    PROVE  /\ wire' \in [Connections -> Traffic]
           /\ \A m \in Connections : wire'[m] = wire[m] \/ wire'[m] = Free
<1>1. Free \in Traffic /\ wire \in [Connections -> Traffic]
  BY DEF Traffic, IInv, TypeOK
<1> QED
  BY <1>1

LEMMA OpenIsKnown ==
    ASSUME IInv
    PROVE  current \in Conversations \cup {NoConversation} /\ (~LoggedIn => current = NoConversation)
BY DEF IInv, TypeOK, LoggedOutOK

LEMMA ReadHereIs ==
    ASSUME NEW a, Placed(a.view), NEW id \in ReadHere(a)
    PROVE  id \in DOMAIN log /\ id <= a.own[log[id].conv] /\ id \in Shown(a.view)
BY ShownWhere DEF ReadHere

LEMMA PostedInv ==
    ASSUME IInv, NEW n \in Connections, ReceivePosted(n)
    PROVE  IInv'
<1>p. PICK who \in Whom :
         /\ Becomes(AddNew(State(who), wire[n].id), current)
         /\ cache' = IF New(State(who), wire[n].id) THEN app'.view ELSE cache
  BY DEF ReceivePosted
<1> DEFINE id == wire[n].id
           new == New(State(who), id)
           t == AddNew(State(who), id)
<1>1. /\ wire[n].kind = "posted"
      /\ wire' = [wire EXCEPT ![n] = Free]
      /\ Becomes(t, current)
      /\ cache' = IF new THEN app'.view ELSE cache
      /\ read' = IF LoggedIn THEN read \cup ReadHere(app') ELSE read
      /\ UNCHANGED <<log, marks, profile>>
  BY <1>p DEF ReceivePosted, server
<1>2. id \in 1..Len(log)
  BY <1>1 DEF IInv, WireFits
<1> HIDE DEF id
<1>4. Handled(t)
  BY <1>2, WhoHandled, AddNewFits
<1> HIDE DEF t
<1>5. t \in States /\ Fits(t) /\ OpenFits(t.a, current) /\ PostsFit(t, current)
  BY <1>4 DEF Handled, Fits
<1>6. app' = t.a
  BY <1>1 DEF Becomes
<1>7. cache' = cache \/ cache' = t.a.view
  BY <1>1, <1>6
<1>8. ASSUME NEW x \in read', x \notin read
      PROVE  x \in DOMAIN log /\ x <= t.a.own[log[x].conv] /\ x \in Shown(t.a.view)
  <2>1. x \in ReadHere(t.a) /\ Placed(t.a.view)
    BY <1>1, <1>5, <1>6, <1>8 DEF Fits, ViewFits
  <2> QED
    BY <2>1, ReadHereIs
<1> QED
  BY <1>1, <1>5, <1>7, <1>8, OpenIsKnown, Freed, HandlerDone

LEMMA HistoryInv ==
    ASSUME IInv, NEW n \in Connections, ReceiveHistory(n)
    PROVE  IInv'
<1> DEFINE w == wire[n]
           elsewhere == IF LoggedIn THEN Elsewhere(w) ELSE {}
<1>p. PICK who \in Whom : Becomes(HandleMessages(State(who), w), current)
  BY DEF ReceiveHistory
<1> DEFINE t == HandleMessages(State(who), w)
<1>1. /\ w.kind = "history"
      /\ wire' = [wire EXCEPT ![n] = Free]
      /\ Becomes(t, current)
      /\ cache' = IF app'.view # app.view THEN app'.view ELSE cache
      /\ read' = IF LoggedIn THEN read \cup ReadHere(app') \cup elsewhere ELSE read
      /\ UNCHANGED <<log, marks, profile>>
  BY <1>p DEF ReceiveHistory, server
<1>2. /\ w.ids \in Seq(1..Len(log)) /\ MarksFit(w.marks)
      /\ w.marks \in [Conversations -> [Users -> Nat]]
  <2>1. w \in Traffic /\ WireFits(w)
    BY DEF IInv, TypeOK
  <2> QED
    BY <1>1, <2>1, TrafficKinds DEF WireFits
<1> HIDE DEF w
<1>3. /\ Handled(t)
      /\ LoggedIn => \A id \in ToSet(w.ids) : id \in Shown(t.a.view) \/ ~Visible(profile, log[id].conv)
      /\ LoggedIn => \A c \in Conversations : w.marks[c][profile] <= t.a.own[c]
  <2>1. LoggedIn => who = profile
    BY DEF Whom
  <2> QED
    BY <1>2, <2>1, WhoHandled, HandleMessagesFits
<1> HIDE DEF t
<1>4. t \in States /\ Fits(t) /\ OpenFits(t.a, current) /\ PostsFit(t, current)
  BY <1>3 DEF Handled, Fits
<1>5. app' = t.a
  BY <1>1 DEF Becomes
<1>6. cache' = cache \/ cache' = t.a.view
  BY <1>1, <1>5
<1>7. ASSUME NEW x \in read', x \notin read
      PROVE  /\ x \in DOMAIN log
             /\ x <= t.a.own[log[x].conv]
             /\ x \in Shown(t.a.view) \/ (LoggedIn /\ ~Visible(profile, log[x].conv))
  <2>1. CASE x \in ReadHere(t.a)
    <3>1. Placed(t.a.view)
      BY <1>4 DEF Fits, ViewFits
    <3> QED
      BY <2>1, <3>1, ReadHereIs
  <2>2. CASE x \in elsewhere
    <3>1. LoggedIn /\ x \in ToSet(w.ids) /\ x <= w.marks[log[x].conv][profile]
      BY <2>2 DEF Elsewhere
    <3>2. x \in 1..Len(log)
      BY <1>2, <3>1, ToSetTyped
    <3>3. log[x].conv \in Conversations /\ x \in DOMAIN log
      BY <3>2, LogTyped DEF IInv
    <3>4. w.marks[log[x].conv][profile] <= t.a.own[log[x].conv]
      BY <1>3, <3>1, <3>3
    <3>5. w.marks[log[x].conv][profile] \in Nat /\ t.a.own[log[x].conv] \in Nat
      BY <1>2, <1>4, <3>1, <3>3, StateTyped DEF LoggedIn
    <3> QED
      BY <1>3, <3>1, <3>2, <3>3, <3>4, <3>5
  <2> QED
    BY <1>1, <1>5, <1>7, <2>1, <2>2
<1> HIDE DEF elsewhere
<1> QED
  BY <1>1, <1>4, <1>6, <1>7, OpenIsKnown, Freed, HandlerDone

LEMMA SetCurrentInv ==
    ASSUME IInv, NEW c \in Conversations, SetCurrent(c)
    PROVE  IInv'
<1> DEFINE t == MarkRead(Client, c)
<1>1. /\ LoggedIn /\ Visible(profile, c) /\ Becomes(t, c)
      /\ read' = read \cup ReadHere(app')
      /\ UNCHANGED <<log, marks, wire, profile, cache>>
  BY DEF SetCurrent, server, Client
<1>2. Client \in States /\ Fits(Client) /\ Client.posts = {}
  BY StateHandled DEF Handled
<1> PostsFit(Client, c)
  BY <1>2 DEF PostsFit
<1>3. Fits(t) /\ OpenFits(t.a, c) /\ PostsFit(t, c)
  BY <1>1, <1>2, MarkReadFits
<1> HIDE DEF t
<1>4. t \in States
  BY <1>3 DEF Fits
<1>5. app' = t.a
  BY <1>1 DEF Becomes
<1>6. ASSUME NEW x \in read', x \notin read
      PROVE  x \in DOMAIN log /\ x <= t.a.own[log[x].conv] /\ x \in Shown(t.a.view)
  <2>1. x \in ReadHere(t.a) /\ Placed(t.a.view)
    BY <1>1, <1>3, <1>5, <1>6 DEF Fits, ViewFits
  <2> QED
    BY <2>1, ReadHereIs
<1>7. wire' \in [Connections -> Traffic] /\ \A n \in Connections : wire'[n] = wire[n]
  BY <1>1 DEF IInv, TypeOK
<1> QED
  BY <1>1, <1>3, <1>4, <1>6, <1>7, HandlerDone

-------------------------------------------------------------------------------
(* Start, login and logout.                                                *)

(* A profile starts with what is kept on the disk of it.                   *)
LEMMA LoadedIs ==
    ASSUME IInv, NEW u \in Users
    PROVE  LET a == Loaded(u)
           IN  /\ a \in App
               /\ ViewFits(a)
               /\ a.peer = NoMarks
               /\ a.ticks = {}
               /\ \A c \in Conversations :
                     /\ a.own[c] <= stored[c]
                     /\ \A id \in ToSet(a.view[c]) : Visible(u, c) /\ a.own[c] = stored[c]
<1> DEFINE view == [c \in Conversations |-> IF Visible(u, c) THEN cache[c] ELSE << >>]
           own == [c \in Conversations |-> IF view[c] = << >> THEN 0 ELSE stored[c]]
           cursor == Latest(Shown(view))
           a == Loaded(u)
<1>1. a = [view |-> view, cursor |-> cursor, peer |-> NoMarks, ticks |-> {}, own |-> own]
  BY DEF Loaded
<1>2. cache \in [Conversations -> Seq(Nat)] /\ stored \in [Conversations -> Nat] /\ Placed(cache)
  BY DEF IInv, TypeOK
<1>3. << >> \in Seq(Nat)
  BY EmptySeq
<1>4. view \in [Conversations -> Seq(Nat)]
  BY <1>2, <1>3
<1>5. ToSet(<< >>) = {}
  BY DEF ToSet
<1>6. \A c \in Conversations :
         view[c] = IF Visible(u, c) THEN cache[c] ELSE << >>
  OBVIOUS
<1>7. own \in [Conversations -> Nat] /\ \A c \in Conversations :
                                         own[c] = IF view[c] = << >> THEN 0 ELSE stored[c]
  BY <1>2
<1> HIDE DEF view, own
<1>8. Placed(view)
  BY <1>2, <1>5, <1>6 DEF Placed
<1>9. Len(log) \in Nat
  BY LogTyped DEF IInv
<1>10. Shown(view) \in SUBSET (0..Len(log))
  <2>1. \A id \in Shown(view) : id \in 1..Len(log)
    BY <1>8, ShownWhere, LogTyped DEF IInv
  <2> QED
    BY <1>9, <2>1
<1>11. cursor \in 0..Len(log) /\ \A id \in Shown(view) : id <= cursor
  BY <1>9, <1>10, LatestIs
<1> HIDE DEF cursor, a
<1>12. NoMarks \in [Conversations -> Nat]
  BY DEF NoMarks
<1>13. /\ a \in App /\ a.view = view /\ a.cursor = cursor /\ a.own = own
       /\ a.peer = NoMarks /\ a.ticks = {}
  <2>1. cursor \in Nat
    BY <1>9, <1>11
  <2> QED
    BY <1>1, <1>4, <1>7, <1>12, <2>1 DEF App
<1>14. ViewFits(a)
  BY <1>8, <1>9, <1>11, <1>13 DEF ViewFits
<1>15. ASSUME NEW c \in Conversations
       PROVE  /\ own[c] <= stored[c]
              /\ \A id \in ToSet(view[c]) : Visible(u, c) /\ own[c] = stored[c]
  <2>1. own[c] <= stored[c]
    <3>1. stored[c] \in Nat /\ (own[c] = 0 \/ own[c] = stored[c])
      BY <1>2, <1>7
    <3> QED
      BY <3>1
  <2>2. ASSUME NEW id \in ToSet(view[c]) PROVE Visible(u, c) /\ own[c] = stored[c]
    BY <1>5, <1>6, <1>7, <2>2
  <2> QED
    BY <2>1, <2>2
<1> QED
  BY <1>13, <1>14, <1>15 DEF a

(* The whole history, from the start.                                      *)
WholeHistory == [kind |-> "get", since |-> 0]

LEMMA ProfileInv ==
    ASSUME IInv, NEW u \in Users, profile = u \/ profile = NoUser,
           profile' = u,
           current' = NoConversation,
           app' = Loaded(u),
           read' = read \cap Shown(app'.view),
           skipped' = skipped \cup Passed(u, app'),
           wire' \in [Connections -> Traffic],
           \A n \in Connections : wire'[n] \in {wire[n], Free, WholeHistory},
           UNCHANGED <<log, marks, out, stored, cache, unsent, seen>>
    PROVE  IInv'
<1>1. /\ app' \in App
      /\ ViewFits(app')
      /\ app'.peer = NoMarks
      /\ app'.ticks = {}
      /\ \A c \in Conversations :
            /\ app'.own[c] <= stored[c]
            /\ \A id \in ToSet(app'.view[c]) : Visible(u, c) /\ app'.own[c] = stored[c]
  BY LoadedIs
<1>2. Client'.user = u /\ Client'.a = app' /\ Client'.stored = stored /\ Client'.posts = {}
  BY DEF Client, State
<1>3. Client' \in States
  BY <1>1 DEF Client, State, States, IInv, TypeOK
<1>4. LoggedIn' /\ u # NoUser
  BY NamesAssumption DEF LoggedIn
<1>5. TypeOK'
  BY <1>1 DEF IInv, TypeOK
<1>6. HistoryOK' /\ skipped \subseteq skipped'
  <2>1. app'.cursor \in Nat
    BY <1>1 DEF App
  <2>2. Passed(u, app') \subseteq Nat
    BY <2>1 DEF Passed
  <2> QED
    BY <2>2 DEF IInv, HistoryOK
<1>7. LoggedOutOK'
  BY <1>4 DEF LoggedOutOK
<1>8. ViewFits(Client.a)'
  BY <1>1, <1>2 DEF ViewFits, Placed, Shown
<1>9. ASSUME NEW id \in Shown(app'.view)
      PROVE  /\ id \in 1..Len(log)
             /\ log[id].conv \in Conversations
             /\ id \in ToSet(app'.view[log[id].conv])
  BY <1>1, ShownWhere, LogTyped DEF ViewFits, IInv
<1>10. TicksFit(Client.a)'
  <2> SUFFICES ASSUME NEW id \in Shown(app'.view) PROVE ~(id <= app'.peer[log[id].conv])
    BY <1>1, <1>2 DEF TicksFit, Shown
  <2>1. app'.peer[log[id].conv] = 0
    BY <1>1, <1>9 DEF NoMarks
  <2> QED
    BY <1>9, <2>1
<1>11. PeersFit(Client.a)'
  BY <1>1, <1>2 DEF PeersFit, NoMarks
<1>12. ASSUME NEW id \in read'
       PROVE  /\ id \in DOMAIN log
              /\ id \in Shown(app'.view)
              /\ log[id].from # u => id <= app'.own[log[id].conv]
  <2>1. id \in read /\ id \in Shown(app'.view)
    OBVIOUS
  <2>2. LoggedIn /\ profile = u
    BY <2>1, NamesAssumption DEF IInv, LoggedOutOK, LoggedIn
  <2>3. /\ id \in DOMAIN log
        /\ id \in Shown(app.view) \/ ~Visible(u, log[id].conv)
        /\ id \in Shown(app.view) /\ log[id].from # u => id <= app.own[log[id].conv]
    <3>1. ReadFits(app)
      BY StateHandled DEF Handled, Fits
    <3> QED
      BY <2>1, <2>2, <3>1 DEF ReadFits
  <2>4. log[id].conv \in Conversations /\ Visible(u, log[id].conv)
        /\ app'.own[log[id].conv] = stored[log[id].conv]
    BY <1>1, <1>9, <2>1
  <2>5. app.own[log[id].conv] <= stored[log[id].conv]
    BY <2>4, StateHandled DEF Handled, Fits, StoredFits
  <2>6. id \in Nat /\ app.own[log[id].conv] \in Nat /\ stored[log[id].conv] \in Nat
    <3>1. id \in Nat
      BY <1>9, <2>1
    <3>2. app \in App /\ stored \in [Conversations -> Nat]
      BY DEF IInv, TypeOK
    <3>3. app.own \in [Conversations -> Nat]
      BY <3>2 DEF App
    <3> QED
      BY <2>4, <3>1, <3>2, <3>3
  <2>7. ASSUME log[id].from # u PROVE id <= app'.own[log[id].conv]
    <3>1. id <= app.own[log[id].conv]
      BY <2>3, <2>4, <2>7
    <3> QED
      BY <2>4, <2>5, <2>6, <3>1
  <2> QED
    BY <2>1, <2>3, <2>7
<1>13. ReadFits(Client.a)'
  BY <1>2, <1>12 DEF ReadFits, Shown
<1>14. StoredFits(Client)'
  <2>1. ASSUME NEW c \in Conversations, stored[c] > marks[c][u], stored[c] > unsent[c]
        PROVE  \E m \in out : m.conv = c /\ m.user = u /\ m.id >= stored[c]
    <3>1. CASE profile = u
      BY <2>1, <3>1, StateHandled DEF Handled, Fits, StoredFits, LoggedIn
    <3>2. CASE profile = NoUser
      <4>1. stored[c] = unsent[c]
        BY <3>2, NamesAssumption DEF IInv, LoggedOutOK, LoggedIn
      <4>2. unsent[c] \in Nat
        BY DEF IInv, TypeOK
      <4> QED
        BY <2>1, <4>1, <4>2
    <3> QED
      BY <3>1, <3>2
  <2> QED
    BY <1>1, <1>2, <1>4, <2>1 DEF StoredFits
<1>15. Fits(Client)'
  BY <1>2, <1>3, <1>8, <1>10, <1>11, <1>13, <1>14 DEF Fits
<1>16. OpenFits(app, current)'
  BY NamesAssumption DEF OpenFits
<1>17. Placed(cache)'
  BY DEF IInv, Placed
<1>18. ASSUME NEW m \in out' PROVE OutFits(m)'
  BY <1>6 DEF IInv, OutFits
<1>19. (\A c \in Conversations : \A v \in Users : marks[c][v] <= Len(log))'
  BY DEF IInv
<1>20. MarksCoverOnlySeen'
  BY <1>6 DEF IInv, MarksCoverOnlySeen
<1>21. ASSUME NEW n \in Connections PROVE WireFits(wire[n])'
  <2>1. CASE wire'[n] = wire[n]
    BY <2>1 DEF IInv, WireFits, MarksFit
  <2>2. CASE wire'[n] = Free
    <3>1. Free.kind = "free"
      BY DEF Free
    <3> QED
      BY <2>2, <3>1 DEF WireFits
  <2>3. CASE wire'[n] = WholeHistory
    <3>1. WholeHistory.kind = "get" /\ WholeHistory.since = 0 /\ 0 <= Len(log)
      BY LogTyped DEF WholeHistory, IInv
    <3> QED
      BY <2>3, <3>1 DEF WireFits
  <2> QED
    BY <2>1, <2>2, <2>3
<1> QED
  BY <1>5, <1>6, <1>7, <1>15, <1>16, <1>17, <1>18, <1>19, <1>20, <1>21 DEF IInv

LEMMA LoggedOutInv ==
    ASSUME IInv,
           profile' = NoUser,
           current' = NoConversation,
           stored' \in [Conversations -> Nat],
           read' = {},
           app' \in {Blank, [Blank EXCEPT !.peer = app.peer]},
           wire' \in [Connections -> Traffic],
           \A n \in Connections : wire'[n] \in {wire[n], Free},
           unsent' = stored',
           UNCHANGED <<log, marks, out, cache, seen, skipped>>
    PROVE  IInv'
<1>1. NoMarks \in [Conversations -> Nat] /\ app.peer \in [Conversations -> Nat]
  BY DEF NoMarks, IInv, TypeOK, App
<1>2. NoMessages \in [Conversations -> Seq(Nat)] /\ \A c \in Conversations : NoMessages[c] = << >>
  BY EmptySeq DEF NoMessages
<1>3. /\ app' \in App
      /\ app'.view = NoMessages
      /\ app'.cursor = 0
      /\ app'.own = NoMarks
      /\ app'.ticks = {}
      /\ app'.peer = NoMarks \/ app'.peer = app.peer
  <2> DEFINE from(peer) == [view |-> NoMessages, cursor |-> 0, own |-> NoMarks, peer |-> peer, ticks |-> {}]
  <2>1. app' = from(NoMarks) \/ app' = from(app.peer)
    BY DEF Blank
  <2>2. PICK peer \in {NoMarks, app.peer} : app' = from(peer)
    BY <2>1
  <2> QED
    BY <1>1, <1>2, <2>2 DEF App
<1>4. \A c \in Conversations : ToSet(app'.view[c]) = {}
  BY <1>2, <1>3 DEF ToSet
<1>5. Shown(app'.view) = {}
  BY <1>4 DEF Shown
<1>6. Client'.a = app' /\ Client'.stored = stored' /\ Client'.posts = {}
  BY DEF Client, State
<1>7. Client' \in States
  BY <1>1, <1>3 DEF Client, State, States, IInv, TypeOK
<1>8. ~LoggedIn'
  BY NamesAssumption DEF LoggedIn
<1>9. TypeOK'
  BY <1>1, <1>3 DEF IInv, TypeOK
<1>10. HistoryOK' /\ LoggedOutOK'
  BY DEF IInv, HistoryOK, LoggedOutOK
<1>11. ViewFits(Client.a)'
  <2>1. 0 <= Len(log)
    BY LogTyped DEF IInv
  <2>2. Placed(app'.view)
    BY <1>4 DEF Placed
  <2>3. ViewFits(app')
    BY <1>3, <1>5, <2>1, <2>2 DEF ViewFits
  <2> QED
    BY <1>6, <2>3 DEF ViewFits, Placed, Shown
<1>12. TicksFit(Client.a)'
  BY <1>3, <1>5, <1>6 DEF TicksFit, Shown
<1>13. PeersFit(Client.a)'
  BY <1>8 DEF PeersFit, LoggedIn
<1>14. ReadFits(Client.a)'
  BY DEF ReadFits
<1>15. StoredFits(Client)'
  <2>1. \A c \in Conversations : app'.own[c] <= stored'[c]
    BY <1>3 DEF NoMarks
  <2> QED
    BY <1>6, <1>8, <2>1 DEF StoredFits, LoggedIn
<1>16. Fits(Client)'
  BY <1>7, <1>8, <1>11, <1>12, <1>13, <1>14, <1>15 DEF Fits
<1>17. OpenFits(app, current)'
  BY NamesAssumption DEF OpenFits
<1>18. Placed(cache)'
  BY DEF IInv, Placed
<1>19. ASSUME NEW m \in out' PROVE OutFits(m)'
  BY DEF IInv, OutFits
<1>20. (\A c \in Conversations : \A u \in Users : marks[c][u] <= Len(log))'
  BY DEF IInv
<1>21. MarksCoverOnlySeen'
  BY DEF IInv, MarksCoverOnlySeen
<1>22. ASSUME NEW n \in Connections PROVE WireFits(wire[n])'
  <2>1. CASE wire'[n] = wire[n]
    BY <2>1 DEF IInv, WireFits, MarksFit
  <2>2. CASE wire'[n] = Free
    <3>1. Free.kind = "free"
      BY DEF Free
    <3> QED
      BY <2>2, <3>1 DEF WireFits
  <2> QED
    BY <2>1, <2>2
<1> QED
  BY <1>9, <1>10, <1>16, <1>17, <1>18, <1>19, <1>20, <1>21, <1>22 DEF IInv

LEMMA LoginInv ==
    ASSUME IInv, NEW n \in Connections, NEW u \in Users, Login(n, u) \/ (Restart(n) /\ profile = u)
    PROVE  IInv'
<1>1. WholeHistory \in Traffic /\ Free \in Traffic /\ wire \in [Connections -> Traffic]
  BY DEF WholeHistory, Traffic, IInv, TypeOK
<1>2. CASE Login(n, u)
  <2>1. wire' = [wire EXCEPT ![n] = WholeHistory]
    BY <1>2 DEF Login, Initialize, Request, WholeHistory
  <2>2. wire' \in [Connections -> Traffic] /\ \A m \in Connections : wire'[m] \in {wire[m], WholeHistory}
    BY <1>1, <2>1
  <2>3. /\ profile = NoUser /\ profile' = u /\ app' = Loaded(u) /\ read' = read \cap Shown(app'.view)
        /\ skipped' = skipped \cup Passed(u, app')
        /\ UNCHANGED <<log, marks, out, stored, cache, unsent, seen, current>>
    BY <1>2 DEF Login, Initialize, server, disk
  <2>4. current' = NoConversation
    BY <2>3, NamesAssumption DEF IInv, LoggedOutOK, LoggedIn
  <2> QED
    BY <2>2, <2>3, <2>4, ProfileInv
<1>3. CASE Restart(n) /\ profile = u
  <2>1. wire' = [m \in Connections |-> IF m = n THEN WholeHistory ELSE Free]
    BY <1>3 DEF Restart, WholeHistory
  <2>2. wire' \in [Connections -> Traffic] /\ \A m \in Connections : wire'[m] \in {Free, WholeHistory}
    BY <1>1, <2>1
  <2>3. /\ profile' = u /\ app' = Loaded(u) /\ read' = read \cap Shown(app'.view)
        /\ skipped' = skipped \cup Passed(u, app') /\ current' = NoConversation
        /\ UNCHANGED <<log, marks, out, stored, cache, unsent, seen>>
    BY <1>3 DEF Restart, server, disk
  <2> QED
    BY <1>3, <2>2, <2>3, ProfileInv
<1> QED
  BY <1>2, <1>3

LEMMA LogoutInv ==
    ASSUME IInv, Reset \/ RestartLoggedOut
    PROVE  IInv'
<1>1. Free \in Traffic /\ wire \in [Connections -> Traffic]
  BY DEF Traffic, IInv, TypeOK
<1>2. CASE Reset
  <2>1. wire' \in [Connections -> Traffic] /\ \A n \in Connections : wire'[n] = wire[n]
    BY <1>1, <1>2 DEF Reset
  <2>2. NoMarks \in [Conversations -> Nat]
    BY DEF NoMarks
  <2> QED
    BY <1>2, <2>1, <2>2, LoggedOutInv DEF Reset, server
<1>3. CASE RestartLoggedOut
  <2>1. /\ ~LoggedIn /\ app' = Blank /\ wire' = [n \in Connections |-> Free]
        /\ UNCHANGED <<log, marks, out, profile, current, stored, cache, unsent, read, seen, skipped>>
    BY <1>3 DEF RestartLoggedOut, server, disk, history
  <2>2. wire' \in [Connections -> Traffic] /\ \A n \in Connections : wire'[n] = Free
    BY <1>1, <2>1
  <2>3. profile = NoUser
    BY <2>1 DEF LoggedIn, IInv, TypeOK
  <2>4. current = NoConversation /\ read = {}
    BY <2>1 DEF IInv, LoggedOutOK
  <2>5. stored \in [Conversations -> Nat] /\ unsent = stored
    BY <2>1 DEF IInv, TypeOK, LoggedOutOK
  <2> QED
    BY <2>1, <2>2, <2>3, <2>4, <2>5, LoggedOutInv
<1> QED
  BY <1>2, <1>3

-------------------------------------------------------------------------------
(* The server, the network and the other devices: the messages and markers *)
(* only grow, and the client keeps what it has.                            *)

LEMMA EnvironmentKept ==
    ASSUME IInv,
           UNCHANGED <<profile, current, app, stored, cache, unsent, read, skipped>>,
           log' \in Seq([conv : Conversations, from : Users]),
           Len(log) <= Len(log'),
           \A id \in 1..Len(log) : log'[id] = log[id],
           out' \subseteq out,
           marks' \in [Conversations -> [Users -> Nat]],
           \A c \in Conversations : \A u \in Users : /\ marks[c][u] <= marks'[c][u]
                                                     /\ marks'[c][u] <= Len(log'),
           seen' \in [Users -> SUBSET Nat],
           \A u \in Users : seen[u] \subseteq seen'[u],
           MarksCoverOnlySeen',
           \A m \in out : m \in out' \/ m.id <= marks'[m.conv][m.user],
           wire' \in [Connections -> Traffic],
           \A n \in Connections : wire'[n] = wire[n] \/ WireFits(wire[n])'
    PROVE  IInv'
<1>1. /\ Len(log) \in Nat /\ Len(log') \in Nat
      /\ DOMAIN log = 1..Len(log) /\ DOMAIN log' = 1..Len(log')
  BY LenProperties DEF IInv, TypeOK
<1>2. \A id \in DOMAIN log : id \in DOMAIN log' /\ log'[id] = log[id]
  BY <1>1
<1>3. TypeOK'
  BY DEF IInv, TypeOK
<1>4. HistoryOK' /\ LoggedOutOK'
  BY DEF IInv, HistoryOK, LoggedOutOK, LoggedIn
<1>5. Client'.user = profile /\ Client'.a = app /\ Client'.stored = stored /\ Client'.posts = {}
  BY DEF Client, State
<1>6. Handled(Client) /\ Client.a = app /\ Client.stored = stored /\ Client.posts = {}
  BY StateHandled
<1>7. Client' \in States
  BY <1>3 DEF Client, State, States, TypeOK
<1>8. Placed(app.view)'
  <2>1. Placed(app.view)
    BY <1>6 DEF Handled, Fits, ViewFits
  <2> QED
    BY <1>2, <2>1 DEF Placed
<1>9. ViewFits(Client.a)'
  <2>1. app.cursor <= Len(log) /\ \A id \in Shown(app.view) : id <= app.cursor
    BY <1>6 DEF Handled, Fits, ViewFits
  <2>2. app.cursor \in Nat
    BY DEF IInv, TypeOK, App
  <2>3. app.cursor <= Len(log')
    BY <1>1, <2>1, <2>2
  <2> QED
    BY <1>5, <1>8, <2>1, <2>3 DEF ViewFits, Placed, Shown
<1>10. \A id \in Shown(app.view) : log'[id] = log[id]
  <2>1. Placed(app.view)
    BY <1>6 DEF Handled, Fits, ViewFits
  <2> QED
    BY <1>2, <2>1, ShownWhere
<1>11. TicksFit(Client.a)'
  <2>1. /\ app.ticks \subseteq Shown(app.view)
        /\ LoggedIn => app.ticks = {id \in Shown(app.view) :
                          log[id].from = profile /\ id <= app.peer[log[id].conv]}
    BY <1>6 DEF Handled, Fits, TicksFit
  <2>2. LoggedIn => app.ticks = {id \in Shown(app.view) :
                       log'[id].from = profile /\ id <= app.peer[log'[id].conv]}
    BY <1>10, <2>1
  <2> QED
    BY <1>5, <2>1, <2>2 DEF TicksFit, Shown, LoggedIn
<1>12. PeersFit(Client.a)'
  <2> SUFFICES ASSUME LoggedIn, NEW c \in Conversations, app.peer[c] > 0
               PROVE  \E u \in Users \ {profile} : app.peer[c] <= marks'[c][u]
    BY <1>5 DEF PeersFit, LoggedIn
  <2>1. PICK u \in Users \ {profile} : app.peer[c] <= marks[c][u]
    BY <1>6 DEF Handled, Fits, PeersFit
  <2>2. marks[c][u] \in Nat /\ marks'[c][u] \in Nat /\ app.peer[c] \in Nat
    BY DEF IInv, TypeOK, App
  <2>3. app.peer[c] <= marks'[c][u]
    BY <2>1, <2>2
  <2> QED
    BY <2>3
<1>13. ReadFits(Client.a)'
  <2> SUFFICES ASSUME NEW id \in read
               PROVE  /\ id \in DOMAIN log'
                      /\ id \in Shown(app.view) \/ ~Visible(profile, log'[id].conv)
                      /\ id \in Shown(app.view) /\ log'[id].from # profile
                           => id <= app.own[log'[id].conv]
    <3>1. Shown(app'.view) = Shown(app.view)
      OBVIOUS
    <3>2. ReadFits(Client.a)' <=> \A id \in read' :
             /\ id \in DOMAIN log'
             /\ id \in Shown(app'.view) \/ ~Visible(profile', log'[id].conv)
             /\ id \in Shown(app'.view) /\ log'[id].from # profile'
                  => id <= app'.own[log'[id].conv]
      BY DEF ReadFits, Shown, Visible, Client, State
    <3> QED
      BY <3>1, <3>2
  <2>1. ReadFits(app)
    BY <1>6 DEF Handled, Fits
  <2>2. id \in DOMAIN log' /\ log'[id] = log[id]
    BY <1>2, <2>1 DEF ReadFits
  <2> QED
    BY <2>1, <2>2 DEF ReadFits
<1>14. StoredFits(Client)'
  <2>1. StoredFits(Client)
    BY <1>6 DEF Handled, Fits
  <2>2. ASSUME LoggedIn, NEW c \in Conversations,
               stored[c] > marks'[c][profile], stored[c] > unsent[c]
        PROVE  \E m \in out' : m.conv = c /\ m.user = profile /\ m.id >= stored[c]
    <3>1. stored[c] \in Nat /\ marks[c][profile] \in Nat /\ marks'[c][profile] \in Nat
      BY <2>2 DEF IInv, TypeOK, LoggedIn
    <3>2. stored[c] > marks[c][profile]
      BY <2>2, <3>1 DEF LoggedIn
    <3>3. PICK m \in out : m.conv = c /\ m.user = profile /\ m.id >= stored[c]
      BY <1>6, <2>1, <2>2, <3>2 DEF StoredFits
    <3>4. m.id \in Nat
      BY DEF IInv, TypeOK, MarkPosts
    <3>5. ~(m.id <= marks'[m.conv][m.user])
      BY <2>2, <3>1, <3>3, <3>4
    <3> QED
      BY <3>3, <3>5
  <2> QED
    BY <1>5, <1>6, <2>1, <2>2 DEF StoredFits, LoggedIn
<1>15. Fits(Client)'
  BY <1>5, <1>7, <1>9, <1>11, <1>12, <1>13, <1>14 DEF Fits
<1>16. OpenFits(app, current)'
  BY DEF IInv, OpenFits
<1>17. Placed(cache)'
  BY <1>2 DEF IInv, Placed
<1>18. ASSUME NEW m \in out' PROVE OutFits(m)'
  <2>1. OutFits(m) /\ m \in MarkPosts
    BY DEF IInv, TypeOK
  <2>2. m.id \in Nat /\ m.user \in Users
    BY <2>1 DEF MarkPosts
  <2>3. m.id <= Len(log) /\ m.id <= Len(log')
    BY <1>1, <2>1, <2>2 DEF OutFits
  <2>4. \A id \in 1..m.id : id \in DOMAIN log
    BY <1>1, <2>2, <2>3
  <2> QED
    BY <1>2, <2>1, <2>2, <2>3, <2>4 DEF OutFits
<1>19. (\A c \in Conversations : \A u \in Users : marks[c][u] <= Len(log))'
  OBVIOUS
<1>20. ASSUME NEW n \in Connections PROVE WireFits(wire[n])'
  <2>1. CASE WireFits(wire[n])'
    BY <2>1 DEF WireFits, MarksFit
  <2>2. CASE wire'[n] = wire[n]
    <3>1. WireFits(wire[n]) /\ wire[n] \in Traffic
      BY DEF IInv, TypeOK
    <3>2. wire[n].kind = "get" => wire[n].since <= Len(log')
      <4> HAVE wire[n].kind = "get"
      <4>1. wire[n].since \in Nat /\ wire[n].since <= Len(log)
        BY <3>1, TrafficKinds DEF WireFits
      <4> QED
        BY <1>1, <4>1
    <3>3. wire[n].kind \in {"collected", "history"} => wire[n].ids \in Seq(1..Len(log'))
      <4> HAVE wire[n].kind \in {"collected", "history"}
      <4>1. wire[n].ids \in Seq(1..Len(log))
        BY <3>1 DEF WireFits
      <4>2. 1..Len(log) \subseteq 1..Len(log')
        BY <1>1
      <4> QED
        BY <4>1, <4>2, SeqDef
    <3>4. wire[n].kind = "history" => \A c \in Conversations : \A u \in Users :
                                          wire[n].marks[c][u] <= marks'[c][u]
      <4> HAVE wire[n].kind = "history"
      <4> TAKE c \in Conversations
      <4> TAKE u \in Users
      <4>1. wire[n].marks[c][u] <= marks[c][u]
        BY <3>1 DEF WireFits, MarksFit
      <4>2. wire[n].marks \in [Conversations -> [Users -> Nat]]
        BY <3>1, TrafficKinds
      <4>3. wire[n].marks[c][u] \in Nat /\ marks[c][u] \in Nat /\ marks'[c][u] \in Nat
        BY <4>2 DEF IInv, TypeOK
      <4> QED
        BY <4>1, <4>3
    <3>5. wire[n].kind = "posted" => wire[n].id \in 1..Len(log')
      <4> HAVE wire[n].kind = "posted"
      <4>1. wire[n].id \in 1..Len(log)
        BY <3>1 DEF WireFits
      <4> QED
        BY <1>1, <4>1
    <3> QED
      BY <2>2, <3>2, <3>3, <3>4, <3>5 DEF WireFits, MarksFit
  <2> QED
    BY <2>1, <2>2
<1> QED
  BY <1>3, <1>4, <1>15, <1>16, <1>17, <1>18, <1>19, <1>20 DEF IInv

(* A message appended: the identifiers of the others stay.                 *)
LEMMA LogAppended ==
    ASSUME IInv, NEW e \in [conv : Conversations, from : Users], log' = Append(log, e)
    PROVE  /\ log' \in Seq([conv : Conversations, from : Users])
           /\ Len(log') = Len(log) + 1
           /\ Len(log) \in Nat
           /\ DOMAIN log' = 1..(Len(log) + 1)
           /\ \A id \in 1..Len(log) : log'[id] = log[id]
           /\ log'[Len(log) + 1] = e
<1>1. log \in Seq([conv : Conversations, from : Users])
  BY DEF IInv, TypeOK
<1>2. log' \in Seq([conv : Conversations, from : Users])
      /\ Len(log') = Len(log) + 1
      /\ \A id \in 1..Len(log) : log'[id] = log[id]
      /\ log'[Len(log) + 1] = e
  BY <1>1, AppendProperties
<1> QED
  BY <1>1, <1>2, LenProperties

(* A new message is shown to its sender and beyond every marker.           *)
LEMMA SentInv ==
    ASSUME IInv, NEW c \in Conversations, NEW u \in Users,
           log' = Append(log, [conv |-> c, from |-> u]),
           seen' = [seen EXCEPT ![u] = @ \cup {Len(log) + 1}],
           wire' \in [Connections -> Traffic],
           \A n \in Connections : wire'[n] = wire[n] \/ WireFits(wire[n])',
           UNCHANGED <<marks, out, profile, current, app, stored, cache, unsent, read, skipped>>
    PROVE  IInv'
<1> DEFINE e == [conv |-> c, from |-> u]
<1>1. e \in [conv : Conversations, from : Users]
  OBVIOUS
<1>2. /\ log' \in Seq([conv : Conversations, from : Users])
      /\ Len(log') = Len(log) + 1
      /\ Len(log) \in Nat
      /\ DOMAIN log' = 1..(Len(log) + 1)
      /\ \A id \in 1..Len(log) : log'[id] = log[id]
      /\ log'[Len(log) + 1] = e
  BY <1>1, LogAppended
<1>3. Len(log) <= Len(log')
  BY <1>2
<1>4. seen' \in [Users -> SUBSET Nat] /\ \A v \in Users : seen[v] \subseteq seen'[v]
  BY <1>2 DEF IInv, HistoryOK
<1>5. \A d \in Conversations : \A v \in Users : marks[d][v] \in Nat /\ marks[d][v] <= Len(log)
  BY DEF IInv, TypeOK
<1>6. marks' \in [Conversations -> [Users -> Nat]]
  BY DEF IInv, TypeOK
<1>7. \A d \in Conversations : \A v \in Users : marks[d][v] <= marks'[d][v] /\ marks'[d][v] <= Len(log')
  BY <1>2, <1>5
<1>8. MarksCoverOnlySeen'
  <2> SUFFICES ASSUME NEW id \in DOMAIN log', NEW v \in Users, id <= marks[log'[id].conv][v]
               PROVE  id \in seen'[v] \/ id \in skipped
    BY DEF MarksCoverOnlySeen
  <2>1. id \in 1..(Len(log) + 1) /\ log'[id] \in [conv : Conversations, from : Users]
    BY <1>2, ElementOfSeq
  <2>2. id <= Len(log)
    BY <1>2, <1>5, <2>1
  <2>3. id \in DOMAIN log /\ log'[id] = log[id]
    BY <1>2, <2>1, <2>2, LogTyped DEF IInv
  <2>4. id \in seen[v] \/ id \in skipped
    BY <2>3 DEF IInv, MarksCoverOnlySeen
  <2> QED
    BY <1>4, <2>4
<1> HIDE DEF e
<1> QED
  BY <1>2, <1>3, <1>4, <1>6, <1>7, <1>8, EnvironmentKept

LEMMA OtherSendsInv ==
    ASSUME IInv, NEW c \in Conversations, NEW u \in Members[c], OtherSends(u, c)
    PROVE  IInv'
<1>1. u \in Users
  BY MembersAssumption
<1>2. wire' \in [Connections -> Traffic] /\ \A n \in Connections : wire'[n] = wire[n]
  BY DEF OtherSends, IInv, TypeOK
<1> QED
  BY <1>1, <1>2, SentInv DEF OtherSends, disk

LEMMA AnswerPostInv ==
    ASSUME IInv, NEW n \in Connections, AnswerPost(n)
    PROVE  IInv'
<1> DEFINE w == [kind |-> "posted", id |-> Len(log) + 1]
<1>1. wire[n].conv \in Conversations /\ wire[n].from \in Users
  BY TrafficKinds DEF AnswerPost, IInv, TypeOK
<1>2. log' = Append(log, [conv |-> wire[n].conv, from |-> wire[n].from]) /\ wire' = [wire EXCEPT ![n] = w]
  BY DEF AnswerPost
<1>3. [conv |-> wire[n].conv, from |-> wire[n].from] \in [conv : Conversations, from : Users]
  BY <1>1
<1>4. Len(log) \in Nat /\ Len(log') = Len(log) + 1
  BY <1>2, <1>3, LogAppended
<1>5. w \in Traffic
  BY <1>4 DEF Traffic
<1>6. wire' \in [Connections -> Traffic] /\ wire'[n] = w /\ \A m \in Connections : m # n => wire'[m] = wire[m]
  BY <1>2, <1>5 DEF IInv, TypeOK
<1>7. WireFits(wire[n])'
  <2>1. wire'[n].kind = "posted" /\ wire'[n].id \in 1..Len(log')
    BY <1>4, <1>6
  <2> QED
    BY <2>1 DEF WireFits
<1>8. \A m \in Connections : wire'[m] = wire[m] \/ WireFits(wire[m])'
  BY <1>6, <1>7
<1> HIDE DEF w
<1> QED
  BY <1>1, <1>2, <1>6, <1>8, SentInv DEF AnswerPost, disk

(* A step that only replaces what a connection carries.                    *)
LEMMA TrafficInv ==
    ASSUME IInv, NEW n \in Connections, NEW w \in Traffic, WireFits(w),
           wire' = [wire EXCEPT ![n] = w],
           UNCHANGED <<server, out, profile, current, app, disk, history>>
    PROVE  IInv'
<1>1. UNCHANGED <<log, marks, out, profile, current, app, stored, cache, unsent, read, seen, skipped>>
  BY DEF server, disk, history
<1>2. /\ log' \in Seq([conv : Conversations, from : Users])
      /\ marks' \in [Conversations -> [Users -> Nat]]
      /\ seen' \in [Users -> SUBSET Nat]
      /\ wire \in [Connections -> Traffic]
  BY <1>1 DEF IInv, TypeOK, HistoryOK
<1>3. Len(log) <= Len(log')
  BY <1>1, LogTyped DEF IInv
<1>4. \A c \in Conversations : \A u \in Users : marks[c][u] \in Nat /\ marks[c][u] <= Len(log)
  BY DEF IInv, TypeOK
<1>5. \A c \in Conversations : \A u \in Users : marks[c][u] <= marks'[c][u] /\ marks'[c][u] <= Len(log')
  BY <1>1, <1>4
<1>6. MarksCoverOnlySeen'
  BY <1>1 DEF IInv, MarksCoverOnlySeen
<1>7. wire' \in [Connections -> Traffic] /\ wire'[n] = w /\ \A m \in Connections : m # n => wire'[m] = wire[m]
  BY <1>2
<1>8. WireFits(wire[n])'
  BY <1>1, <1>7 DEF WireFits, MarksFit
<1>9. \A m \in Connections : wire'[m] = wire[m] \/ WireFits(wire[m])'
  BY <1>7, <1>8
<1> QED
  BY <1>1, <1>2, <1>3, <1>5, <1>6, <1>7, <1>9, EnvironmentKept

(* The messages after `since', by identifier.                              *)
LEMMA CollectInv ==
    ASSUME IInv, NEW n \in Connections, Collect(n)
    PROVE  IInv'
<1> DEFINE since == wire[n].since
           ids == [i \in 1..(Len(log) - since) |-> since + i]
           w == [kind |-> "collected", ids |-> ids]
<1>1. Len(log) \in Nat /\ since \in Nat /\ since <= Len(log)
  BY LogTyped, TrafficKinds DEF Collect, IInv, TypeOK, WireFits
<1>2. Len(log) - since \in Nat
  BY <1>1
<1>3. \A i \in 1..(Len(log) - since) : since + i \in 1..Len(log) /\ since + i \in Nat
  BY <1>1
<1>4. ids \in Seq(1..Len(log)) /\ ids \in Seq(Nat)
  <2>1. \A S : ids \in [1..(Len(log) - since) -> S] => ids \in Seq(S)
    <3> HIDE DEF ids, since
    <3> QED
      BY <1>2, SeqDef
  <2> QED
    BY <1>3, <2>1
<1>5. wire' = [wire EXCEPT ![n] = w]
  BY DEF Collect
<1> HIDE DEF ids
<1>6. w \in Traffic
  BY <1>4 DEF Traffic
<1>7. WireFits(w)
  BY <1>4 DEF WireFits
<1> HIDE DEF w
<1> QED
  BY <1>5, <1>6, <1>7, TrafficInv DEF Collect

LEMMA AnswerGetInv ==
    ASSUME IInv, NEW n \in Connections, AnswerGet(n)
    PROVE  IInv'
<1> DEFINE ids == wire[n].ids
           given == Given(ids)
           w == [kind |-> "history", ids |-> ids, marks |-> given]
<1>1. ids \in Seq(1..Len(log)) /\ ids \in Seq(Nat)
  BY TrafficKinds DEF AnswerGet, IInv, TypeOK, WireFits
<1>2. wire' = [wire EXCEPT ![n] = w]
  BY DEF AnswerGet, IInv, TypeOK
<1>3. \A c \in Conversations : marks[c] \in [Users -> Nat]
  BY DEF IInv, TypeOK
<1>4. /\ given \in [Conversations -> [Users -> Nat]]
      /\ \A c \in Conversations : given[c] = marks[c] \/ given[c] = [u \in Users |-> 0]
  BY <1>3 DEF Given
<1> HIDE DEF given, ids
<1>5. \A c \in Conversations : \A u \in Users : given[c][u] = marks[c][u] \/ given[c][u] = 0
  BY <1>4
<1>6. MarksFit(given)
  <2> SUFFICES ASSUME NEW c \in Conversations, NEW u \in Users PROVE given[c][u] <= marks[c][u]
    BY DEF MarksFit
  <2>1. marks[c][u] \in Nat
    BY <1>3
  <2>2. given[c][u] = marks[c][u] \/ given[c][u] = 0
    BY <1>5
  <2> QED
    BY <2>1, <2>2
<1>7. w \in Traffic
  BY <1>1, <1>4 DEF Traffic
<1>8. WireFits(w)
  BY <1>1, <1>6 DEF WireFits
<1> HIDE DEF w
<1> QED
  BY <1>2, <1>7, <1>8, TrafficInv DEF AnswerGet

LEMMA RequestsInv ==
    ASSUME IInv, NEW n \in Connections, Lose(n) \/ Poll(n) \/ Post(n)
    PROVE  IInv'
<1>1. CASE Lose(n)
  <2>1. Free \in Traffic /\ WireFits(Free)
    BY DEF Free, Traffic, WireFits
  <2> QED
    BY <1>1, <2>1, TrafficInv DEF Lose
<1>2. CASE Poll(n)
  <2> DEFINE w == [kind |-> "get", since |-> app.cursor]
  <2>1. app.cursor \in Nat /\ app.cursor <= Len(log)
    BY StateHandled DEF Handled, Fits, ViewFits, IInv, TypeOK, App
  <2>2. w \in Traffic /\ WireFits(w)
    BY <2>1 DEF Traffic, WireFits
  <2>3. wire' = [wire EXCEPT ![n] = w]
    BY <1>2 DEF Poll, Request
  <2> HIDE DEF w
  <2> QED
    BY <1>2, <2>2, <2>3, TrafficInv DEF Poll
<1>3. CASE Post(n)
  <2> DEFINE w == [kind |-> "post", conv |-> current, from |-> profile]
  <2>1. w \in Traffic /\ WireFits(w)
    BY <1>3 DEF Traffic, WireFits, Post, LoggedIn
  <2>2. wire' = [wire EXCEPT ![n] = w]
    BY <1>3 DEF Post, Request
  <2> HIDE DEF w
  <2> QED
    BY <1>3, <2>1, <2>2, TrafficInv DEF Post
<1> QED
  BY <1>1, <1>2, <1>3

(* A marker moves forward, over messages its user has been shown.          *)
LEMMA MarkedInv ==
    ASSUME IInv, NEW c \in Conversations, NEW u \in Users, NEW id \in Nat, id <= Len(log),
           Mark(c, u, id),
           seen' \in [Users -> SUBSET Nat],
           \A v \in Users : seen[v] \subseteq seen'[v],
           \A i \in 1..id : log[i].conv = c => i \in seen'[u] \/ i \in skipped,
           out' \subseteq out,
           \A m \in out : m \in out' \/ m = [conv |-> c, user |-> u, id |-> id],
           UNCHANGED <<log, wire, profile, current, app, stored, cache, unsent, read, skipped>>
    PROVE  IInv'
<1>1. marks \in [Conversations -> [Users -> Nat]] /\ Len(log) \in Nat
  BY LogTyped DEF IInv, TypeOK
<1>2. marks[c][u] \in Nat /\ marks[c][u] <= Len(log)
  BY <1>1 DEF IInv
<1>3. /\ Larger(marks[c][u], id) \in Nat
      /\ marks[c][u] <= Larger(marks[c][u], id)
      /\ id <= Larger(marks[c][u], id)
      /\ Larger(marks[c][u], id) \in {marks[c][u], id}
  BY <1>2, LargerIs
<1>4. /\ marks' \in [Conversations -> [Users -> Nat]]
      /\ marks'[c][u] = Larger(marks[c][u], id)
      /\ \A d \in Conversations : \A v \in Users :
            d # c \/ v # u => marks'[d][v] = marks[d][v]
  BY <1>1, <1>3 DEF Mark
<1>5. ASSUME NEW d \in Conversations, NEW v \in Users
      PROVE  marks[d][v] <= marks'[d][v] /\ marks'[d][v] <= Len(log')
  <2>1. marks[d][v] \in Nat /\ marks[d][v] <= Len(log)
    BY <1>1 DEF IInv
  <2>2. CASE d = c /\ v = u
    BY <1>2, <1>3, <1>4, <2>2
  <2>3. CASE d # c \/ v # u
    <3>1. marks'[d][v] = marks[d][v]
      BY <1>4, <2>3
    <3> QED
      BY <2>1, <3>1
  <2> QED
    BY <2>2, <2>3
<1>6. MarksCoverOnlySeen'
  <2> SUFFICES ASSUME NEW i \in DOMAIN log, NEW v \in Users, i <= marks'[log[i].conv][v]
               PROVE  i \in seen'[v] \/ i \in skipped
    BY DEF MarksCoverOnlySeen
  <2>1. i \in 1..Len(log) /\ log[i].conv \in Conversations
    BY LogTyped DEF IInv
  <2>2. CASE i <= marks[log[i].conv][v]
    BY <2>2 DEF IInv, MarksCoverOnlySeen
  <2>3. CASE ~(i <= marks[log[i].conv][v])
    <3>1. log[i].conv = c /\ v = u
      BY <1>4, <2>1, <2>3
    <3>2. i <= Larger(marks[c][u], id) /\ ~(i <= marks[c][u])
      BY <1>4, <2>3, <3>1
    <3>3. i <= id
      BY <1>3, <3>2
    <3>4. i \in 1..id
      BY <1>1, <2>1, <3>3
    <3> QED
      BY <3>1, <3>4
  <2> QED
    BY <2>2, <2>3
<1>7. \A m \in out : m \in out' \/ m.id <= marks'[m.conv][m.user]
  BY <1>3, <1>4
<1>8. Len(log) <= Len(log') /\ log' \in Seq([conv : Conversations, from : Users])
  BY <1>1 DEF IInv, TypeOK
<1>9. wire' \in [Connections -> Traffic]
  BY DEF IInv, TypeOK
<1> QED
  BY <1>4, <1>5, <1>6, <1>7, <1>8, <1>9, EnvironmentKept

LEMMA OtherReadsInv ==
    ASSUME IInv, NEW u \in Users, NEW id \in DOMAIN log, OtherReads(u, id)
    PROVE  IInv'
<1> DEFINE c == log[id].conv
           shown == {i \in 1..id : log[i].conv = c}
<1>1. id \in 1..Len(log) /\ c \in Conversations /\ Len(log) \in Nat
  BY LogTyped DEF IInv
<1>2. id \in Nat /\ id <= Len(log) /\ shown \subseteq Nat
  BY <1>1
<1>3. seen' = [seen EXCEPT ![u] = @ \cup shown]
  BY DEF OtherReads
<1>4. \A i \in 1..id : log[i].conv = c => i \in shown
  OBVIOUS
<1>5. Mark(c, u, id)
  BY DEF OtherReads
<1> HIDE DEF shown, c
<1>6. /\ seen' \in [Users -> SUBSET Nat]
      /\ shown \subseteq seen'[u]
      /\ \A v \in Users : seen[v] \subseteq seen'[v]
  BY <1>2, <1>3 DEF IInv, HistoryOK
<1>7. UNCHANGED <<log, wire, out, profile, current, app, stored, cache, unsent, read, skipped>>
  BY DEF OtherReads, disk
<1> QED
  BY <1>1, <1>2, <1>4, <1>5, <1>6, <1>7, MarkedInv

LEMMA StoreMarkInv ==
    ASSUME IInv, NEW m \in out, StoreMark(m)
    PROVE  IInv'
<1>1. m \in MarkPosts /\ OutFits(m)
  BY DEF IInv, TypeOK
<1>2. /\ m.conv \in Conversations /\ m.user \in Users /\ m.id \in Nat
      /\ m = [conv |-> m.conv, user |-> m.user, id |-> m.id]
  BY <1>1 DEF MarkPosts
<1>3. /\ Mark(m.conv, m.user, m.id) /\ out' = out \ {m}
      /\ UNCHANGED <<log, wire, profile, current, app, stored, cache, unsent, read, seen, skipped>>
  BY DEF StoreMark, disk, history
<1>4. m.id <= Len(log) /\ \A i \in 1..m.id : log[i].conv = m.conv => i \in seen[m.user] \/ i \in skipped
  BY <1>1 DEF OutFits
<1>5. seen' \in [Users -> SUBSET Nat]
  BY <1>3 DEF IInv, HistoryOK
<1>6. \A o \in out : o \in out' \/ o = [conv |-> m.conv, user |-> m.user, id |-> m.id]
  BY <1>2, <1>3
<1> QED
  BY <1>2, <1>3, <1>4, <1>5, <1>6, MarkedInv

-------------------------------------------------------------------------------
(* The invariant and what it says.                                         *)

LEMMA InvInit ==
    ASSUME Init
    PROVE  IInv
<1>1. NoMessages \in [Conversations -> Seq(Nat)] /\ \A c \in Conversations : NoMessages[c] = << >>
  BY EmptySeq DEF NoMessages
<1>2. NoMarks \in [Conversations -> Nat] /\ \A c \in Conversations : NoMarks[c] = 0
  BY DEF NoMarks
<1>3. /\ app \in App /\ app.view = NoMessages /\ app.cursor = 0 /\ app.own = NoMarks
      /\ app.peer = NoMarks /\ app.ticks = {}
  BY <1>1, <1>2 DEF Init, Blank, App
<1>4. \A c \in Conversations : ToSet(NoMessages[c]) = {}
  BY <1>1 DEF ToSet
<1>5. Shown(app.view) = {} /\ Placed(app.view) /\ Placed(cache)
  BY <1>3, <1>4 DEF Shown, Placed, Init
<1>6. log = << >> /\ log \in Seq([conv : Conversations, from : Users]) /\ Len(log) = 0
      /\ DOMAIN log = {}
  BY EmptySeq DEF Init
<1>7. \A n \in Connections : wire[n] = Free /\ Free \in Traffic /\ Free.kind = "free"
  BY DEF Init, Free, Traffic
<1>8. wire \in [Connections -> Traffic]
  BY <1>7 DEF Init
<1>9. TypeOK
  BY <1>1, <1>2, <1>3, <1>6, <1>8 DEF Init, TypeOK
<1>10. HistoryOK /\ LoggedOutOK /\ ~LoggedIn /\ current = NoConversation
  BY NamesAssumption DEF Init, HistoryOK, LoggedOutOK, LoggedIn
<1>11. Client.user = profile /\ Client.a = app /\ Client.stored = stored /\ Client.posts = {}
       /\ Client \in States
  BY <1>9 DEF Client, State, States, TypeOK
<1>12. ViewFits(app) /\ TicksFit(app)
  BY <1>3, <1>5, <1>6 DEF ViewFits, TicksFit
<1>13. PeersFit(app) /\ ReadFits(app)
  BY <1>2, <1>3 DEF Init, PeersFit, ReadFits
<1>14. StoredFits(Client)
  BY <1>2, <1>3, <1>10, <1>11 DEF Init, StoredFits
<1>15. Fits(Client)
  BY <1>11, <1>12, <1>13, <1>14 DEF Fits
<1>16. OpenFits(app, current)
  BY <1>10, NamesAssumption DEF OpenFits
<1>17. \A c \in Conversations : \A u \in Users : marks[c][u] <= Len(log)
  BY <1>6 DEF Init
<1>18. MarksCoverOnlySeen
  BY <1>6 DEF MarksCoverOnlySeen
<1>19. \A n \in Connections : WireFits(wire[n])
  BY <1>7 DEF WireFits
<1>20. \A m \in out : OutFits(m)
  BY DEF Init
<1> QED
  BY <1>5, <1>9, <1>10, <1>15, <1>16, <1>17, <1>18, <1>19, <1>20 DEF IInv

LEMMA InvNext ==
    ASSUME IInv, Next
    PROVE  IInv'
<1>1. CASE \E c \in Conversations : \E u \in Members[c] : OtherSends(u, c)
  BY <1>1, OtherSendsInv
<1>2. CASE \E u \in Users, id \in DOMAIN log : OtherReads(u, id)
  BY <1>2, OtherReadsInv
<1>3. CASE \E m \in out : StoreMark(m)
  BY <1>3, StoreMarkInv
<1>4. CASE \E n \in Connections : Collect(n)
  BY <1>4, CollectInv
<1>5. CASE \E n \in Connections : AnswerGet(n)
  BY <1>5, AnswerGetInv
<1>6. CASE \E n \in Connections : AnswerPost(n)
  BY <1>6, AnswerPostInv
<1>7. CASE \E n \in Connections : Lose(n) \/ Poll(n) \/ Post(n)
  BY <1>7, RequestsInv
<1>8. CASE \E n \in Connections : ReceivePosted(n)
  BY <1>8, PostedInv
<1>9. CASE \E n \in Connections : ReceiveHistory(n)
  BY <1>9, HistoryInv
<1>10. CASE \E c \in Conversations : SetCurrent(c)
  BY <1>10, SetCurrentInv
<1>11. CASE \E n \in Connections, u \in Users : Login(n, u)
  BY <1>11, LoginInv
<1>12. CASE \E n \in Connections : Restart(n)
  BY <1>12, LoginInv DEF Restart, LoggedIn
<1>13. CASE Reset \/ RestartLoggedOut
  BY <1>13, LogoutInv
<1> QED
  BY <1>1, <1>2, <1>3, <1>4, <1>5, <1>6, <1>7, <1>8, <1>9, <1>10, <1>11, <1>12, <1>13 DEF Next

LEMMA InvStutter ==
    ASSUME IInv, UNCHANGED vars
    PROVE  IInv'
<1>1. UNCHANGED <<log, marks, wire, out, profile, current, app, stored, cache, unsent, read, seen, skipped>>
  BY DEF vars, server, disk, history
<1>2. /\ log' \in Seq([conv : Conversations, from : Users])
      /\ marks' \in [Conversations -> [Users -> Nat]]
      /\ seen' \in [Users -> SUBSET Nat]
      /\ wire' \in [Connections -> Traffic]
  BY <1>1 DEF IInv, TypeOK, HistoryOK
<1>3. Len(log) <= Len(log')
  BY <1>1, LogTyped DEF IInv
<1>4. \A c \in Conversations : \A u \in Users : marks[c][u] \in Nat /\ marks[c][u] <= Len(log)
  BY DEF IInv, TypeOK
<1>5. \A c \in Conversations : \A u \in Users : marks[c][u] <= marks'[c][u] /\ marks'[c][u] <= Len(log')
  BY <1>1, <1>4
<1>6. MarksCoverOnlySeen'
  BY <1>1 DEF IInv, MarksCoverOnlySeen
<1> QED
  BY <1>1, <1>2, <1>3, <1>5, <1>6, EnvironmentKept

(* Conversations, markers and what is in flight agree, in every state:     *)
(* after every handler of AppController.cpp that touches a marker, every   *)
(* reply and loss, login, reset and restart.                               *)
THEOREM Invariance == Spec => []IInv
<1>1. IInv /\ [Next]_vars => IInv'
  BY InvNext, InvStutter
<1> QED
  BY <1>1, InvInit, PTL DEF Spec

(* The client's and the server's markers, the conversations and every      *)
(* request and reply have their types.                                     *)
THEOREM TypeCorrect == Spec => []TypeOK
BY Invariance, PTL DEF IInv

(* Whichever reply brings a message to the open conversation,              *)
(* addServerMessage and markConversationRead leave none of it unread.      *)
THEOREM OpenStaysRead == Spec => []OpenIsRead
<1>1. IInv => OpenIsRead
  BY DEF IInv, OpenFits, OpenIsRead
<1> QED
  BY <1>1, Invariance, PTL

(* What was read is not unread again: neither markConversationRead, which  *)
(* may lower the marker, nor applyReadMarkersFromServer nor loadServerData *)
(* after a restart puts the marker before it.                              *)
THEOREM NothingUnreadAgain == Spec => []ReadStaysRead
<1>1. IInv => ReadStaysRead
  BY StateHandled DEF Handled, Fits, ReadFits, ReadStaysRead
<1> QED
  BY <1>1, Invariance, PTL

(* updatePeerReadState has been applied to every message shown, with the   *)
(* newest peer marker, whether the message or the marker came first.       *)
THEOREM TicksFollowMarkers == Spec => []TicksMatchMarkers
<1>1. IInv => TicksMatchMarkers
  BY StateHandled DEF Handled, Fits, TicksFit, TicksMatchMarkers
<1> QED
  BY <1>1, Invariance, PTL

(* The tick on a message means that another user's client has shown it,    *)
(* unless this installation's cursor once skipped it: m_peerReadMarkers    *)
(* never holds this user's marker, not even when another profile was       *)
(* registered before and resetRegistration kept the map.                   *)
THEOREM TicksMeanSeen == Spec => []TicksAreTrue
<1>1. IInv => TicksAreTrue
  <2> SUFFICES ASSUME IInv, LoggedIn, NEW id \in app.ticks
               PROVE  (\E u \in Users \ {profile} : id \in seen[u]) \/ id \in skipped
    BY DEF TicksAreTrue
  <2>1. ViewFits(app) /\ TicksFit(app) /\ PeersFit(app)
    BY StateHandled DEF Handled, Fits
  <2>2. id \in Shown(app.view) /\ id <= app.peer[log[id].conv]
    BY <2>1 DEF TicksFit
  <2>3. id \in DOMAIN log /\ id \in 1..Len(log) /\ log[id].conv \in Conversations
    BY <2>1, <2>2, ShownWhere, LogTyped DEF ViewFits, IInv
  <2>4. app.peer[log[id].conv] \in Nat
    BY <2>3 DEF IInv, TypeOK, App
  <2>5. app.peer[log[id].conv] > 0
    BY <2>2, <2>3, <2>4
  <2>6. PICK u \in Users \ {profile} : app.peer[log[id].conv] <= marks[log[id].conv][u]
    BY <2>1, <2>3, <2>5 DEF PeersFit
  <2>7. marks[log[id].conv][u] \in Nat
    BY <2>3 DEF IInv, TypeOK
  <2>8. id <= marks[log[id].conv][u]
    BY <2>2, <2>3, <2>4, <2>6, <2>7
  <2> QED
    BY <2>3, <2>6, <2>8 DEF IInv, MarksCoverOnlySeen
<1> QED
  BY <1>1, Invariance, PTL

(* Every marker of the client's that is beyond the server's is in a POST   *)
(* that did not arrive (yet), or is one syncReadMarkerWithServer did not   *)
(* send for want of a token, or one kept while no profile was registered.  *)
THEOREM MarksAreSent == Spec => []MarkSentOrKnown
<1>1. IInv => MarkSentOrKnown
  <2> SUFFICES ASSUME IInv, LoggedIn, NEW c \in Conversations,
                      app.own[c] > Larger(marks[c][profile], unsent[c])
               PROVE  \E m \in out : m.conv = c /\ m.user = profile /\ m.id >= app.own[c]
    BY DEF MarkSentOrKnown
  <2>1. StoredFits(Client) /\ Client.a = app /\ Client.stored = stored /\ Client.posts = {}
    BY StateHandled DEF Handled, Fits
  <2>2. app.own[c] <= stored[c]
    BY <2>1 DEF StoredFits
  <2>3. app.own[c] \in Nat /\ stored[c] \in Nat /\ marks[c][profile] \in Nat /\ unsent[c] \in Nat
    BY DEF IInv, TypeOK, App, LoggedIn
  <2>4. stored[c] > marks[c][profile] /\ stored[c] > unsent[c]
    BY <2>2, <2>3 DEF Larger
  <2>5. PICK m \in out : m.conv = c /\ m.user = profile /\ m.id >= stored[c]
    BY <2>1, <2>4 DEF StoredFits, LoggedIn
  <2>6. m.id \in Nat
    BY DEF IInv, TypeOK, MarkPosts
  <2> QED
    BY <2>2, <2>3, <2>5, <2>6
<1> QED
  BY <1>1, Invariance, PTL

(* The server's marker of a user covers what his clients showed him, and   *)
(* besides only what the cursor m_lastServerMsgId had passed.              *)
THEOREM MarksMeanSeen == Spec => []MarksCoverOnlySeen
BY Invariance, PTL DEF IInv
===============================================================================
