--------------------------- MODULE MCMemoryManage ---------------------------
(***************************************************************************)
(* MemoryManage with as many segments as slots and tables of two entries:  *)
(* the kernel's page, which children inherit, and a page of the task's own.*)
(***************************************************************************)
EXTENDS MemoryManage
=============================================================================
