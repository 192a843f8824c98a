--------------------------- MODULE MCDescriptors ---------------------------
(***************************************************************************)
(* Descriptors on addresses in which no two bytes can be exchanged without *)
(* being noticed: two addresses that differ in each byte, and every        *)
(* mixture of their upper and lower halves.                                *)
(***************************************************************************)
EXTENDS Descriptors

MCAddress == {<<1, 2, 3, 4>>, <<250, 249, 248, 247>>,
              <<1, 2, 248, 247>>, <<250, 249, 3, 4>>}

MCTrapFunction ==
  [v \in {3, 14, 32, 116} |-> <<v, 100, 150 + (v % 5), 200>>]

MCLdtAddress == [i \in 0 .. 4 |-> <<24 * i, 16, 32, 48>>]
=============================================================================
