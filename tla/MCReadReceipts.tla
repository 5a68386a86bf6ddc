--------------------------- MODULE MCReadReceipts ---------------------------
(* Two users who log in on one installation: a room for both, and another  *)
(* conversation only one of them sees, into which his other devices write. *)
EXTENDS ReadReceipts

CONSTANTS ann, bob, room

MCMembers == [c \in Conversations |-> IF c = room THEN Users ELSE {ann}]
=============================================================================
