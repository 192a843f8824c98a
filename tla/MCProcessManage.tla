-------------------------- MODULE MCProcessManage --------------------------
(***************************************************************************)
(* ProcessManage with constants small enough for TLC.  Slots and pages are *)
(* numbers, and lower ones are found first, so symmetry does not apply.    *)
(***************************************************************************)
EXTENDS ProcessManage
=============================================================================
