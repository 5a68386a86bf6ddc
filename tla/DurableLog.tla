------------------------------ MODULE DurableLog ------------------------------
(***************************************************************************)
(* What the message store promises its callers, without memory, locks,     *)
(* files or restarts: an append-only log whose entries carry the           *)
(* identifiers 1, 2, 3, ..., a read marker per conversation and user that  *)
(* only moves forward, and answers that never show anything that is not    *)
(* in the log.  MessageStore.tla is shown to implement this.               *)
(***************************************************************************)
EXTENDS Integers, Sequences

CONSTANTS Messages,     \* what an envelope carries
          Slots         \* (conversation, user) pairs that own a read marker

VARIABLES log,          \* sequence of [id, msg]
          marks,        \* slot -> identifier of the last message read, 0 if none
          told          \* every [id, msg] a caller has been told of

vars == <<log, marks, told>>

Entries(s) == {s[i] : i \in DOMAIN s}

NoMarks == [s \in Slots |-> 0]

Init == /\ log = << >>
        /\ marks = NoMarks
        /\ told = {}

MarksAdvance == /\ marks' \in [Slots -> Nat]
                /\ \A s \in Slots : marks'[s] >= marks[s]

(* One more entry, with the next identifier.  A snapshot carries the       *)
(* markers too, so they may advance in the same step.                      *)
Commit(m) == /\ log' = Append(log, [id |-> Len(log) + 1, msg |-> m])
             /\ MarksAdvance
             /\ UNCHANGED told

Advance == MarksAdvance /\ UNCHANGED <<log, told>>

Tell == /\ told \subseteq told'
        /\ told' \subseteq told \cup Entries(log)
        /\ UNCHANGED <<log, marks>>

Next == \/ \E m \in Messages : Commit(m)
        \/ Advance
        \/ Tell

Spec == Init /\ [][Next]_vars
===============================================================================
