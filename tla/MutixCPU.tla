------------------------------ MODULE MutixCPU ------------------------------
(***************************************************************************)
(* The simulated processor's task switch (rescue/mutixcpu.cpp).            *)
(*                                                                         *)
(* A context is a C++ stack plus a jump point.  Tasks share one host stack:*)
(* switching out copies the live stack into the task's stack_mirror_arr    *)
(* slot and setjmp fills jmp_env; switching in copies the mirror back and  *)
(* longjmps.  Of the stack only one thing decides later behaviour, the     *)
(* local variable `tmp' of ProcessManage::sleep; of the jump point only    *)
(* the place in the code it returns to.  Slots are written 0, 1, 2, ...    *)
(* where the code uses the TSS selector's index 4, 6, 8, ...               *)
(***************************************************************************)
EXTENDS Integers

CONSTANTS
  MAX_TASK_NUM,               \* entries of the task table
  PROCESS_MEMORY_PAGES_NUM,   \* pages that can hold a Process object
  NULL,                       \* a null Process* or descriptor
  NoMirror,                   \* stack_mirror_arr[i].pointer == NULL
  MirrorMayFail               \* may `new (std::nothrow) char[]' return NULL?

ASSUME SizesAssumption ==
  /\ MAX_TASK_NUM \in Nat \ {0}
  /\ PROCESS_MEMORY_PAGES_NUM \in Nat \ {0}

ASSUME NullAssumption ==
  /\ NULL \notin Nat
  /\ NoMirror \notin Nat
  /\ NoMirror # NULL
  /\ MirrorMayFail \in BOOLEAN

Index     == 0 .. MAX_TASK_NUM - 1               \* task slots
Process   == 0 .. PROCESS_MEMORY_PAGES_NUM - 1   \* Process*, as page numbers
ProcessOrNull == Process \cup {NULL}

(* Where a context is in do_first_task and what it calls:                  *)
(*   prompt   at `std::cin >> cmd'                                         *)
(*   toSleep  about to call sleep(que), after a fork                       *)
(*   sleep    inside sleep(), at the return of schedule()                  *)
(*   fork     inside fork_process(), at the return of switch_to(.., true)  *)
(*   boot     the jump point ProcessManageInit left in slot 0              *)
(*   wild     jumped to a place its stack does not belong to               *)
(*   halted   do_first_task returned, and with it ProcessManageInit        *)
Location == {"none", "boot", "prompt", "toSleep", "sleep", "fork", "wild",
             "halted"}

VARIABLES
  tss_desc,          \* per slot: the Process whose tss the GDT entry names
  tss_ldt,           \* per Process: the slot its saved tss.ldt selects
  tr,                \* the Process whose tss the task register points to
  ldtr,              \* the slot whose LDT is loaded
  cur_task,          \* MutixCPU::cur_task
  at,                \* where the running context is
  stack,             \* the running stack: `tmp' of its call of sleep
  stack_mirror_arr,  \* per slot: the saved stack
  jmp_env            \* per slot: the saved location

cpuVars == <<tss_desc, tss_ldt, tr, ldtr, cur_task, at, stack,
             stack_mirror_arr, jmp_env>>

CPUTypeOK ==
  /\ tss_desc \in [Index -> ProcessOrNull]
  /\ tss_ldt \in [Process -> Index]
  /\ tr \in Process
  /\ ldtr \in Index
  /\ cur_task \in Index
  /\ at \in Location
  /\ stack \in ProcessOrNull
  /\ stack_mirror_arr \in [Index -> ProcessOrNull \cup {NoMirror}]
  /\ jmp_env \in [Index -> Location]

(* After ProcessManageInit: slot 0 loaded by ltr, lldt and a switch to     *)
(* itself, which leaves its own mirror and jump point behind.              *)
CPUInit ==
  /\ tss_desc = [i \in Index |-> IF i = 0 THEN 0 ELSE NULL]
  /\ tss_ldt = [p \in Process |-> 0]
  /\ tr = 0
  /\ ldtr = 0
  /\ cur_task = 0
  /\ at = "prompt"
  /\ stack = NULL
  /\ stack_mirror_arr = [i \in Index |-> IF i = 0 THEN NULL ELSE NoMirror]
  /\ jmp_env = [i \in Index |-> IF i = 0 THEN "boot" ELSE "none"]

(* Mutants of SavedStacks: the stack is not saved; its locals are not.     *)
SavedStacks_None(locals) == {NoMirror}
SavedStacks_NoLocals(locals) == {NULL}

(* What the allocation and copy of the running stack can leave in a slot.  *)
SavedStacks(locals) ==
  {locals} \cup (IF MirrorMayFail THEN {NoMirror} ELSE {})

(* A mutant of LoadTask: the LDT register is not reloaded.                 *)
LoadTask_KeepsLdt(next) ==
  /\ cur_task' = next
  /\ tr' = tss_desc[next]
  /\ UNCHANGED <<tss_ldt, ldtr>>

(* str(); ltr(next): the registers go to the outgoing tss and come from    *)
(* the incoming one; a descriptor that is not a TSS loads nothing, but     *)
(* cur_task moves all the same.                                            *)
LoadTask(next) ==
  LET stored == [tss_ldt EXCEPT ![tr] = ldtr]
  IN  /\ tss_ldt' = stored
      /\ cur_task' = next
      /\ IF tss_desc[next] = NULL
           THEN UNCHANGED <<tr, ldtr>>
           ELSE /\ tr' = tss_desc[next]
                /\ ldtr' = stored[tss_desc[next]]

(* switch_to(choice): the running context, its locals as given, stops in   *)
(* sleep() and slot `next' continues where it was saved.  With no mirror   *)
(* to restore, the outgoing stack stays in place under the new jump point: *)
(* another caller of sleep() returns through it, a forked child cannot.    *)
SwitchContext(next, locals) ==
  \E saved \in SavedStacks(locals) :
    LET mirrors == [stack_mirror_arr EXCEPT ![cur_task] = saved]
        points  == [jmp_env EXCEPT ![cur_task] = "sleep"]
    IN  /\ stack_mirror_arr' = mirrors
        /\ jmp_env' = points
        /\ LoadTask(next)
        /\ IF mirrors[next] # NoMirror
             THEN stack' = mirrors[next] /\ at' = points[next]
             ELSE /\ stack' = locals
                  /\ at' = IF points[next] = "sleep" THEN "sleep" ELSE "wild"
        /\ UNCHANGED tss_desc

(* set_TSS_desc, ProcessCopy's tss.ldt and switch_to(choice, true): the    *)
(* running stack is saved as the new task's, and the caller continues.     *)
NewContext(index, page) ==
  /\ tss_desc' = [tss_desc EXCEPT ![index] = page]
  /\ tss_ldt' = [tss_ldt EXCEPT ![page] = index]
  /\ \E saved \in SavedStacks(stack) :
       stack_mirror_arr' = [stack_mirror_arr EXCEPT ![index] = saved]
  /\ jmp_env' = [jmp_env EXCEPT ![index] = "fork"]
  /\ UNCHANGED <<tr, ldtr, cur_task, stack>>
=============================================================================
