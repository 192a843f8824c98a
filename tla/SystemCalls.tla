---------------------------- MODULE SystemCalls ----------------------------
(***************************************************************************)
(* System calls (SystemCall::on_system_call in kernel/systemcall.cpp) with *)
(* the registers, push and pop of the simulated processor, and the tss in  *)
(* which a task's registers wait while others run.                         *)
(*                                                                         *)
(* Everything is on the machine the kernel is for, where the physical      *)
(* addresses that push and pop compute can be used as pointers; in the     *)
(* simulator the first push is a wild access.  What happens between calls, *)
(* computing and the commands that fork or sleep, is up to the tasks.      *)
(*                                                                         *)
(* What fork answers comes from the setjmp in MutixCPU::switch_to, to which*)
(* a child returns by a longjmp.  That its argument prev_task, a local     *)
(* variable, outlives the restore_stack before it is assumed.              *)
(***************************************************************************)
EXTENDS Integers

CONSTANTS
  MAX_TASK_NUM,
  Value,       \* what tasks put into registers
  Garbage,     \* what memory may hold where no call has stored anything
  Number,      \* call numbers that are tried
  NULL

SYSTEMCALL_MAX_NUM == 256
UserSelector       == 23     \* 0x17
KernelSelector     == 16     \* 0x10

ERROR_PROCESS_FULL == 1

Task == 0 .. MAX_TASK_NUM - 1      \* slots, and pids
Word == Value \cup Garbage         \* what a pop may find

ASSUME CallAssumption ==
  /\ MAX_TASK_NUM \in Nat \ {0}
  /\ Value \subseteq Nat /\ {0, UserSelector} \subseteq Value
  /\ Garbage \subseteq Nat
  /\ Number \subseteq Int
  /\ NULL \notin Int

Saved     == {"ebx", "ecx", "edx", "fs", "es", "ds"}
Registers == [eax : Int, esp : Int, ebx : Word, ecx : Word, edx : Word,
              fs : Word, es : Word, ds : Word]

VARIABLES
  cpu,        \* the registers
  tss,        \* task -> its saved registers
  live,       \* how many tasks there are
  running,    \* whose turn it is
  pending,    \* task -> what its first turn begins with: the rest of
              \* "on_system_call" in which it was forked, or "nothing"
  var,        \* what the setjmp of the running task has returned last
  word,       \* the two words of memory that calls of the first task use
  kernel,     \* "fault" once something wild was written to or called
  left        \* history: sleeping task -> the registers it fell asleep with

scVars == <<cpu, tss, live, running, pending, var, word, kernel, left>>

SCTypeOK ==
  /\ cpu \in Registers
  /\ tss \in [Task -> Registers]
  /\ live \in 1 .. MAX_TASK_NUM
  /\ running \in 0 .. live - 1
  /\ pending \in [Task -> {"nothing", "on_system_call"}]
  /\ var \in Nat
  /\ word \in [{"process page", "page 0"} -> Word]
  /\ kernel \in {"up", "fault"}
  /\ left \in [Task -> Registers \cup {NULL}]

(* The registers of ProcessInit.                                           *)
FirstRegisters ==
  [eax |-> 0, esp |-> 0, ebx |-> 0, ecx |-> 0, edx |-> 0,
   fs |-> UserSelector, es |-> UserSelector, ds |-> UserSelector]

SCInit ==
  /\ cpu = FirstRegisters
  /\ tss = [t \in Task |-> FirstRegisters]
  /\ live = 1 /\ running = 0
  /\ pending = [t \in Task |-> "nothing"]
  /\ var = 0
  /\ word \in [{"process page", "page 0"} -> Garbage]
  /\ kernel = "up"
  /\ left = [t \in Task |-> NULL]

(***************************************************************************)
(* push and pop, on a machine m of registers, words and a flag             *)
(***************************************************************************)

(* The word at fs << 16 + esp, which C reads as fs << (16 + esp): 0x170000 *)
(* is a page of the kernel, which is mapped onto itself; the five doubles  *)
(* of it have no table entry, and what has none is found at address 0.     *)
(* There, too, is every address with fs 0.  Any other is that of something *)
(* else, if of anything.                                                   *)
Location(r) ==
  CASE r.fs = UserSelector /\ r.esp = 0       -> "process page"
    [] r.fs = UserSelector /\ r.esp \in 1 .. 5 -> "page 0"
    [] r.fs = 0                               -> "page 0"
    [] OTHER                                  -> "wild"

(* Stores and then counts up, contrary to pop.                             *)
push(m, reg) ==
  LET at == Location(m.reg)
  IN  [reg  |-> [m.reg EXCEPT !.esp = @ + 1],
       word |-> [w \in DOMAIN m.word |->
                   IF w = at THEN m.reg[reg] ELSE m.word[w]],
       wild |-> m.wild \/ at = "wild"]

(* The possible results of popping into a register.                        *)
pop(machines, reg) ==
  UNION {LET at == Location(m.reg)
         IN  {[m EXCEPT !.reg.esp = @ - 1, !.reg[reg] = v] :
                v \in IF at = "wild" THEN Garbage ELSE {m.word[at]}} :
           m \in machines}

Machine(reg) == [reg |-> reg, word |-> word, wild |-> FALSE]

(* A mutant of Push: ebx is forgotten.                                     *)
Push_NotEbx(m) ==
  push(push(push(push(push(m, "ds"), "es"), "fs"), "edx"), "ecx")

Push(m) ==
  push(push(push(push(push(push(m, "ds"), "es"), "fs"), "edx"), "ecx"), "ebx")

(* A mutant of Pop: ds is forgotten.                                       *)
Pop_NotDs(machines) ==
  pop(pop(pop(pop(pop(machines, "ebx"), "ecx"), "edx"), "fs"), "es")

Pop(machines) ==
  pop(pop(pop(pop(pop(pop(machines, "ebx"), "ecx"), "edx"), "fs"), "es"), "ds")

(***************************************************************************)
(* The call table                                                          *)
(***************************************************************************)

(* Below system_call_table lie the 512 words of the interrupt table, where *)
(* vectors 0 to 47 and 0x74 are set, and below that no one knows what.     *)
BadPointer(number) ==
  LET vector == (number + 512) \div 2
  IN  number < 0 /\ (vector < 0 \/ vector \in 0 .. 47 \cup {116})

(* What the call of a number leads to, after the three SetSystemCall of    *)
(* ProcessManageInit.  sleep and wake_up take a queue, which no caller of a*)
(* function without arguments gives them.                                  *)
Called(number) ==
  CASE number >= SYSTEMCALL_MAX_NUM -> "refused"
    [] number = 0                   -> "fork_process"
    [] number \in {1, 2}            -> "wild"
    [] BadPointer(number)           -> "wild"
    [] OTHER                        -> "refused"

(***************************************************************************)
(* The operations                                                          *)
(***************************************************************************)

HasRoom == live < MAX_TASK_NUM

(* The entry of a task's TSS descriptor, which is what cur_task holds while*)
(* the task runs.                                                          *)
TSSEntry(task) == 2 * task + 4

(* A mutant of Delivered: the jump announces who runs next, as in          *)
(* switch_to_first_task.                                                   *)
Delivered_Next(next) == TSSEntry(next)

(* What longjmp makes the setjmp of the next task return: prev_task.       *)
Delivered(next) == TSSEntry(running)

(* switch_to for a new task, once its setjmp has returned: at first        *)
(* is_new_task, after a jump whether it came from the task itself.         *)
switch_to(returned) ==
  IF returned = 0 \/ returned = TSSEntry(running) THEN 1 ELSE 0

(* The end of fork_process, where p is the child; pids are slots.          *)
ForkResult(returned, p) == IF switch_to(returned) = 0 THEN 0 ELSE p

fork_process == IF HasRoom THEN ForkResult(0, live) ELSE -ERROR_PROCESS_FULL

(* ProcessCopy's part in the registers: the father's tss, which holds what *)
(* the registers were when he last slept, with eax 0.                      *)
ForkTask(begin) ==
  IF HasRoom
    THEN /\ live' = live + 1
         /\ tss' = [tss EXCEPT ![live] = [tss[running] EXCEPT !.eax = 0]]
         /\ pending' = [pending EXCEPT ![live] = begin]
    ELSE UNCHANGED <<live, tss, pending>>

Free == kernel = "up" /\ pending[running] = "nothing"

(* After a wild access nothing is known, and nothing follows.              *)
Fault ==
  /\ kernel' = "fault"
  /\ UNCHANGED <<cpu, tss, live, running, pending, var, word, left>>

(* A call that is refused, or that jumps to or uses what is not there.     *)
OtherCall(number) ==
  /\ Free
  /\ Called(number) # "fork_process"
  /\ IF Called(number) = "wild"
       THEN Fault
       ELSE /\ cpu' = [cpu EXCEPT !.eax = number]
            /\ UNCHANGED <<tss, live, running, pending, var, word, kernel,
                           left>>

(* Call 0, in the father: push, the kernel's selectors, fork_process, pop. *)
ForkCall ==
  LET in == Push(Machine(cpu))
      called == [in EXCEPT !.reg = [@ EXCEPT
                   !.edx = UserSelector, !.ds = KernelSelector,
                   !.es = KernelSelector, !.fs = UserSelector,
                   !.eax = fork_process]]
  IN  /\ Free
      /\ IF in.wild
           THEN Fault
           ELSE /\ \E m \in Pop({called}) : cpu' = m.reg
                /\ word' = in.word
                /\ ForkTask("on_system_call")
                /\ UNCHANGED <<running, var, kernel, left>>

(* The rest of fork_process and on_system_call in a child that was forked  *)
(* in it, on the father's stack as it was then.                            *)
ChildCallReturn ==
  /\ kernel = "up"
  /\ pending[running] = "on_system_call"
  /\ \E m \in Pop({Machine([cpu EXCEPT !.eax = ForkResult(var, running)])}) : cpu' = m.reg
  /\ pending' = [pending EXCEPT ![running] = "nothing"]
  /\ UNCHANGED <<tss, live, running, var, word, kernel, left>>

(* A fork by command, without a call.                                      *)
ForkCommand ==
  /\ Free
  /\ HasRoom
  /\ ForkTask("nothing")
  /\ UNCHANGED <<cpu, running, var, word, kernel, left>>

(* A mutant of str: nothing is stored.                                     *)
str_None == tss

str == [tss EXCEPT ![running] = cpu]

(* sleep() and the switch: str, ltr and the jump.                          *)
Switch(next) ==
  /\ Free
  /\ next \in 0 .. live - 1 /\ next # running
  /\ tss' = str
  /\ cpu' = tss'[next]
  /\ running' = next
  /\ var' = Delivered(next)
  /\ left' = [left EXCEPT ![running] = cpu, ![next] = NULL]
  /\ UNCHANGED <<live, pending, word, kernel>>

(* A task computes.                                                        *)
Compute(reg, v) ==
  /\ Free
  /\ cpu[reg] # v
  /\ cpu' = [cpu EXCEPT ![reg] = v]
  /\ UNCHANGED <<tss, live, running, pending, var, word, kernel, left>>

SCNext ==
  \/ ForkCall
  \/ \E number \in Number : OtherCall(number)
  \/ ChildCallReturn
  \/ ForkCommand
  \/ \E next \in Task : Switch(next)
  \/ \E v \in Value : Compute("ebx", v)

SCSpec == SCInit /\ [][SCNext]_scVars

(***************************************************************************)
(* Properties                                                              *)
(***************************************************************************)

(* Fork answers twice: the father, in the call he made, gets the new task's*)
(* pid, and the child, whenever it first runs, whichever task it is that   *)
(* goes to sleep then, and in a call it never made, gets 0.                *)
ForkAnswers ==
  [][/\ HasRoom /\ pending'[live] # pending[live] => cpu'.eax = live
     /\ pending'[running] # pending[running] => cpu'.eax = 0]_scVars

(* A task that makes a call and comes back from it, or forks without one,  *)
(* finds the stack pointer where it was.                                   *)
StackIsBalanced ==
  [][running' = running /\ pending[running] = "nothing"
       => cpu'.esp = cpu.esp]_scVars

(* Whatever the other tasks call, fork and compute in between, a task wakes*)
(* with the registers it went to sleep with.                               *)
WakesAsItSlept ==
  [][\A t \in Task : (running' = t /\ running # t /\ left[t] # NULL) =>
       cpu' = left[t]]_scVars

(* A system call is an episode that nothing else need know of: whatever its*)
(* number, it comes back, and gives every register but eax back as it was, *)
(* to a child that comes back from its father's call as well.              *)
CallsAreTransparent ==
  [][(ForkCall \/ ChildCallReturn \/ \E number \in Number : OtherCall(number)) =>
       /\ kernel' = "up"
       /\ \A reg \in Saved \cup {"esp"} : cpu'[reg] = cpu[reg]]_scVars
=============================================================================
