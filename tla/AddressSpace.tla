---------------------------- MODULE AddressSpace ----------------------------
(***************************************************************************)
(* What the memory manager promises to the tasks, without saying how: each *)
(* task has pages of its own.  A child starts with what its father's pages *)
(* hold at that moment, and from then on a write changes what its writer   *)
(* sees and nothing that any other task sees.                              *)
(*                                                                         *)
(* Sharing, copying on write, frames and page tables do not appear.  Pages *)
(* of the kernel may be seen by many tasks; a task can take a copy of one. *)
(***************************************************************************)
CONSTANTS
  Task, First,    \* the tasks, and the one that is there at the start
  Page,           \* page numbers within a task's segment
  Value,          \* what a page can hold
  Inherited,      \* task -> the pages its children get
  KernelPage,     \* the pages in which the first task sees the kernel
  NULL,           \* no page
  Kernel          \* a page of the kernel, seen directly

VARIABLES
  tasks,          \* tasks that exist
  space           \* task -> page -> what the task sees there

asVars == <<tasks, space>>

Nothing == [p \in Page |-> NULL]

SpaceInit ==
  /\ tasks = {First}
  /\ space = [t \in Task |-> [p \in Page |->
                IF t = First /\ p \in KernelPage THEN Kernel ELSE NULL]]

(* A child sees what its father sees.                                      *)
ForkSpace(child, father) ==
  /\ child \notin tasks /\ father \in tasks
  /\ tasks' = tasks \cup {child}
  /\ space' = [space EXCEPT ![child] =
       [p \in Page |-> IF p \in Inherited[father] THEN space[father][p]
                                                  ELSE NULL]]

(* A task gets a page it did not have, or its own copy of a kernel page,   *)
(* with whatever is in it.                                                 *)
NewPageOf(t, p) ==
  /\ t \in tasks
  /\ space[t][p] \in {NULL, Kernel}
  /\ \E v \in Value : space' = [space EXCEPT ![t][p] = v]
  /\ UNCHANGED tasks

(* A task writes to a page of its own.                                     *)
WritePage(t, p, v) ==
  /\ t \in tasks
  /\ space[t][p] \in Value
  /\ space' = [space EXCEPT ![t][p] = v]
  /\ UNCHANGED tasks

SpaceNext ==
  \/ \E child, father \in Task : ForkSpace(child, father)
  \/ \E t \in Task, p \in Page : NewPageOf(t, p)
  \/ \E t \in Task, p \in Page, v \in Value : WritePage(t, p, v)

SpaceSpec == SpaceInit /\ [][SpaceNext]_asVars
=============================================================================
