------------------------------ MODULE AccountBook ------------------------------
(***************************************************************************)
(* What the identity manager promises, without memory, locks, files or     *)
(* restarts: a set of accounts that only grows, by accounts that share no  *)
(* identifier, nickname (up to case) or certificate with one before them,  *)
(* and answers that only ever name its members.  The accounts there were   *)
(* at first have identifiers of their own, and may clash otherwise.        *)
(* IdentityManager.tla is shown to implement this.                         *)
(***************************************************************************)
EXTENDS Integers

CONSTANTS Accounts,        \* records with at least the fields userID, nickname, cert
          Clash(_, _)      \* whether one may not be opened beside the other

VARIABLES book,            \* the accounts there are
          told             \* every account a caller has been told of

vars == <<book, told>>

Init == /\ book \in SUBSET Accounts
        /\ \A a, b \in book : a # b => a.userID # b.userID
        /\ told = {}

Open(a) == /\ \A b \in book : ~Clash(a, b)
           /\ book' = book \cup {a}
           /\ UNCHANGED told

Tell == /\ told \subseteq told'
        /\ told' \subseteq told \cup book
        /\ UNCHANGED book

Next == \/ \E a \in Accounts : Open(a)
        \/ Tell

Spec == Init /\ [][Next]_vars
===============================================================================
