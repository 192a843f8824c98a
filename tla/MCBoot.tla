------------------------------- MODULE MCBoot -------------------------------
(***************************************************************************)
(* The boot sequence with the sizes of the code, but for the frames.       *)
(***************************************************************************)
EXTENDS Boot
=============================================================================
