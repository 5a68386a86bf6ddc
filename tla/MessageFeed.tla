------------------------------ MODULE MessageFeed ------------------------------
(***************************************************************************)
(* What the messaging service promises the client of a Pull stream,        *)
(* without channels, goroutines or copies of the history: envelopes are    *)
(* stored one after the other; a stream replays what its client asked for  *)
(* without a gap, goes live when it has carried all of it that was stored  *)
(* before it was opened, then forwards, always in the order of the         *)
(* identifiers, and carries nothing once it has ended.  PullService.tla is *)
(* shown to implement this.                                                *)
(***************************************************************************)
EXTENDS Integers, Sequences

CONSTANTS Streams,
          Conversations,
          Markers,    \* values of since a client may ask for
          Filters     \* sets of conversations it may ask for

VARIABLES log,        \* conversation of each stored envelope; its position is its identifier
          phase,      \* of each stream: "off", "replay", "live", "over"
          since,      \* identifier of the last message its client has
          filter,     \* conversations it asked for
          backlog,    \* envelopes stored when it was opened
          sent        \* identifiers it has carried

vars == <<log, phase, since, filter, backlog, sent>>

Init == /\ log = << >>
        /\ phase = [p \in Streams |-> "off"]
        /\ since = [p \in Streams |-> 0]
        /\ filter = [p \in Streams |-> {}]
        /\ backlog = [p \in Streams |-> 0]
        /\ sent = [p \in Streams |-> << >>]

Asked(p, id) == id > since[p] /\ log[id] \in filter[p]

Carried(p, id) == \E i \in DOMAIN sent[p] : sent[p][i] = id

Store(c) == log' = Append(log, c) /\ UNCHANGED <<phase, since, filter, backlog, sent>>

Open(p, id, convs) == /\ phase[p] = "off"
                      /\ phase' = [phase EXCEPT ![p] = "replay"]
                      /\ since' = [since EXCEPT ![p] = id]
                      /\ filter' = [filter EXCEPT ![p] = convs]
                      /\ backlog' = [backlog EXCEPT ![p] = Len(log)]
                      /\ UNCHANGED <<log, sent>>

(* A stored envelope the client asked for, above all it was given.         *)
Carry(p, id) == /\ Asked(p, id)
                /\ \A i \in DOMAIN sent[p] : sent[p][i] < id
                /\ sent' = [sent EXCEPT ![p] = Append(@, id)]
                /\ UNCHANGED <<log, phase, since, filter, backlog>>

CaughtUp(p, n) == \A k \in 1..n : Asked(p, k) => Carried(p, k)

Replay(p, id) == /\ phase[p] = "replay"
                 /\ CaughtUp(p, id - 1)
                 /\ Carry(p, id)

GoLive(p) == /\ phase[p] = "replay"
             /\ CaughtUp(p, backlog[p])
             /\ phase' = [phase EXCEPT ![p] = "live"]
             /\ UNCHANGED <<log, since, filter, backlog, sent>>

Forward(p, id) == phase[p] = "live" /\ Carry(p, id)

End(p) == /\ phase[p] \in {"replay", "live"}
          /\ phase' = [phase EXCEPT ![p] = "over"]
          /\ UNCHANGED <<log, since, filter, backlog, sent>>

Next == \/ \E c \in Conversations : Store(c)
        \/ \E p \in Streams, id \in Markers, F \in Filters : Open(p, id, F)
        \/ \E p \in Streams, id \in DOMAIN log : Replay(p, id) \/ Forward(p, id)
        \/ \E p \in Streams : GoLive(p) \/ End(p)

Spec == Init /\ [][Next]_vars
===============================================================================
