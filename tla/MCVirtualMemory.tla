-------------------------- MODULE MCVirtualMemory --------------------------
(***************************************************************************)
(* VirtualMemory with as many frames as its tasks can use.                 *)
(***************************************************************************)
EXTENDS VirtualMemory
=============================================================================
