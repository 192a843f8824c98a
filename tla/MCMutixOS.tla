----------------------------- MODULE MCMutixOS -----------------------------
(***************************************************************************)
(* MutixOS with one kernel page and a directory of one entry per segment.  *)
(***************************************************************************)
EXTENDS MutixOS
=============================================================================
