--------------------------- MODULE MCSystemCalls ---------------------------
(***************************************************************************)
(* System calls with a number of each kind: fork, an empty entry, one past *)
(* the table, and before it a word of the interrupt table that is zero and *)
(* one that belongs to a gate.                                             *)
(***************************************************************************)
EXTENDS SystemCalls

MCNumber == {0, 1, 3, 256, -1, -280}
=============================================================================
