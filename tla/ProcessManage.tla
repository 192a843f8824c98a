--------------------------- MODULE ProcessManage ---------------------------
(***************************************************************************)
(* The process manager (kernel/processmanage.cpp, kernel/process.cpp):     *)
(* fork, the priority scheduler, and the sleep queue, whose links are the  *)
(* local variables `tmp' of suspended calls of sleep().                    *)
(*                                                                         *)
(* One task runs at a time and gives up the processor only inside sleep(), *)
(* so each action is one call made by do_first_task, up to the point where *)
(* the processor changes hands; `at' says which call comes next.  What the *)
(* user types is the nondeterminism.  A Process object is named by the     *)
(* number of its page; page numbers stand for Process pointers.            *)
(***************************************************************************)
EXTENDS MutixCPU

CONSTANTS
  FIRST_PRIORITY,     \* priority of task 0                 (15)
  FORK_PRIORITY,      \* priority of a child of task 0      (20)
  PriorityBound       \* the N command is not given beyond this priority

ASSUME PriorityAssumption ==
  /\ FIRST_PRIORITY \in Nat
  /\ FORK_PRIORITY \in Nat
  /\ PriorityBound \in Nat
  /\ FIRST_PRIORITY < FORK_PRIORITY

VARIABLES
  task_array,            \* slot -> Process*, or NULL
  process_memeory_map,   \* page -> 1 when it holds a Process
  p_counter,             \* Process::p_counter
  current,               \* Process::current
  pid, father, state, priority,   \* members of the Process objects
  QueHead, is_used       \* the one sleep queue sleepQueGet hands out

pmVars == <<task_array, process_memeory_map, p_counter, current, pid,
            father, state, priority, QueHead, is_used>>

vars == <<cpuVars, pmVars>>

States == {"DEAD", "READY", "WAITE"}

TypeOK ==
  /\ CPUTypeOK
  /\ task_array \in [Index -> ProcessOrNull]
  /\ process_memeory_map \in [Process -> {0, 1}]
  /\ p_counter \in Nat
  /\ current \in Process
  /\ pid \in [Process -> Nat]
  /\ father \in [Process -> Nat \cup {-1}]
  /\ state \in [Process -> States]
  /\ priority \in [Process -> Nat]
  /\ QueHead \in ProcessOrNull
  /\ is_used \in BOOLEAN

(* ProcessManageInit and ProcessInit, then sleepQueGet in do_first_task.   *)
Init ==
  /\ CPUInit
  /\ task_array = [i \in Index |-> IF i = 0 THEN 0 ELSE NULL]
  /\ process_memeory_map = [p \in Process |-> IF p = 0 THEN 1 ELSE 0]
  /\ p_counter = 1
  /\ current = 0
  /\ pid = [p \in Process |-> 0]
  /\ father = [p \in Process |-> -1]
  /\ state = [p \in Process |-> "DEAD"]
  /\ priority = [p \in Process |-> FIRST_PRIORITY]
  /\ QueHead = NULL
  /\ is_used = TRUE

(***************************************************************************)
(* fork_process                                                            *)
(***************************************************************************)

(* A mutant of EmptyPage: the test of the map entry is inverted.           *)
EmptyPage_Inverted(page) ==
  /\ process_memeory_map[page] # 0
  /\ \A p \in Process : p < page => process_memeory_map[p] = 0

(* find_empty_task and find_empty_page return the first free entry.        *)
EmptyTask(index) ==
  /\ task_array[index] = NULL
  /\ \A i \in Index : i < index => task_array[i] # NULL

EmptyPage(page) ==
  /\ process_memeory_map[page] = 0
  /\ \A p \in Process : p < page => process_memeory_map[p] # 0

(* A mutant of ProcessCopy: p_counter is read and not incremented.         *)
ProcessCopy_SamePid(page) ==
  /\ pid' = [pid EXCEPT ![page] = p_counter]
  /\ father' = [father EXCEPT ![page] = pid[current]]
  /\ state' = [state EXCEPT ![page] = "READY"]
  /\ priority' = [priority EXCEPT ![page] = FORK_PRIORITY]
  /\ UNCHANGED p_counter

(* p->ProcessCopy(current, index), then setState(P_STATE_READY).           *)
ProcessCopy(page) ==
  /\ pid' = [pid EXCEPT ![page] = p_counter]
  /\ p_counter' = p_counter + 1
  /\ father' = [father EXCEPT ![page] = pid[current]]
  /\ state' = [state EXCEPT ![page] = "READY"]
  /\ priority' = [priority EXCEPT ![page] =
                    IF pid[current] = 0 THEN FORK_PRIORITY
                                        ELSE priority[current]]

(* The F command in the father, which goes to sleep next.                  *)
Fork(index, page) ==
  /\ at = "prompt"
  /\ EmptyTask(index)
  /\ EmptyPage(page)
  /\ task_array' = [task_array EXCEPT ![index] = page]
  /\ process_memeory_map' = [process_memeory_map EXCEPT ![page] = 1]
  /\ ProcessCopy(page)
  /\ NewContext(index, page)
  /\ at' = "toSleep"
  /\ UNCHANGED <<current, QueHead, is_used>>

(* ERROR_PROCESS_FULL or ERROR_PM_MEMORY_FULL: not 0, so the caller takes  *)
(* itself for the father of a new child and sleeps all the same.           *)
ForkFails ==
  /\ at = "prompt"
  /\ \/ \A i \in Index : task_array[i] # NULL
     \/ \A p \in Process : process_memeory_map[p] # 0
  /\ at' = "toSleep"
  /\ UNCHANGED <<pmVars, tss_desc, tss_ldt, tr, ldtr, cur_task, stack,
                 stack_mirror_arr, jmp_env>>

(***************************************************************************)
(* wake_up, schedule and sleep                                             *)
(***************************************************************************)

(* A mutant of wake_up: the queue keeps its head.                          *)
wake_up_KeepsHead ==
  /\ state' = IF QueHead = NULL THEN state
                                ELSE [state EXCEPT ![QueHead] = "READY"]
  /\ UNCHANGED QueHead

wake_up ==
  IF QueHead = NULL
    THEN UNCHANGED <<state, QueHead>>
    ELSE /\ state' = [state EXCEPT ![QueHead] = "READY"]
         /\ QueHead' = NULL

(* The child's first steps: fork_process returns 0 to it and it wakes the  *)
(* queue, before it sleeps.                                                *)
ChildReturn ==
  /\ at = "fork"
  /\ wake_up
  /\ at' = "toSleep"
  /\ UNCHANGED <<task_array, process_memeory_map, p_counter, current, pid,
                 father, priority, is_used, tss_desc, tss_ldt, tr, ldtr,
                 cur_task, stack, stack_mirror_arr, jmp_env>>

(* The W command.                                                          *)
WakeUp ==
  /\ at = "prompt"
  /\ wake_up
  /\ UNCHANGED <<cpuVars, task_array, process_memeory_map, p_counter,
                 current, pid, father, priority, is_used>>

Ready(i, st) == task_array[i] # NULL /\ st[task_array[i]] = "READY"

(* `low' loses to `high' in schedule(): higher priority, then higher slot. *)
Outranks(high, low) ==
  \/ priority[task_array[low]] < priority[task_array[high]]
  \/ /\ priority[task_array[low]] = priority[task_array[high]]
     /\ low <= high

(* Mutants of Picks: `<' for `<=' in the comparison; a loop that does not  *)
(* compare with task 0.                                                    *)
Picks_FirstWins(next, st) ==
  /\ next = 0 \/ Ready(next, st)
  /\ \A i \in Index \ {next} : i = 0 \/ Ready(i, st) =>
       IF i < next THEN priority[task_array[i]] < priority[task_array[next]]
                   ELSE priority[task_array[i]] <= priority[task_array[next]]

Picks_NotIdle(next, st) ==
  /\ next = 0 \/ Ready(next, st)
  /\ \A i \in Index : Ready(i, st) => Outranks(next, i)

(* The slot schedule() settles on, in states st: the best of the READY     *)
(* slots and slot 0, which is the starting point whatever its state.       *)
Picks(next, st) ==
  /\ next = 0 \/ Ready(next, st)
  /\ \A i \in Index : i = 0 \/ Ready(i, st) => Outranks(next, i)

(* Mutants of Enqueue: the task stays READY; it is not put on the queue.   *)
Enqueue_StaysReady ==
  /\ QueHead' = IF pid[current] = 0 THEN QueHead ELSE current
  /\ UNCHANGED state

Enqueue_Unqueued ==
  /\ state' = IF pid[current] = 0 THEN state
                                  ELSE [state EXCEPT ![current] = "WAITE"]
  /\ UNCHANGED QueHead

(* sleep(que) up to the return of schedule().  Task 0 is never enqueued.   *)
Enqueue ==
  IF pid[current] = 0
    THEN UNCHANGED <<state, QueHead>>
    ELSE /\ state' = [state EXCEPT ![current] = "WAITE"]
         /\ QueHead' = current

Sleep(next) ==
  LET tmp == IF pid[current] = 0 THEN NULL ELSE QueHead
  IN  /\ at \in {"prompt", "toSleep"}
      /\ Enqueue
      /\ Picks(next, state')
      /\ current' = task_array[next]
      /\ IF task_array[next] = current
           THEN /\ at' = "sleep"
                /\ stack' = tmp
                /\ UNCHANGED <<tss_desc, tss_ldt, tr, ldtr, cur_task,
                               stack_mirror_arr, jmp_env>>
           ELSE SwitchContext(next, tmp)
      /\ UNCHANGED <<task_array, process_memeory_map, p_counter, pid,
                     father, priority, is_used>>

(* A mutant of SleepReturn: it loops until the task is READY.              *)
SleepReturn_Spins ==
  /\ at = "sleep"
  /\ state' = IF stack # NULL THEN [state EXCEPT ![stack] = "READY"] ELSE state
  /\ stack' = NULL
  /\ at' = IF state[current] = "READY" THEN "prompt" ELSE "sleep"
  /\ UNCHANGED <<task_array, process_memeory_map, p_counter, current, pid,
                 father, priority, QueHead, is_used, tss_desc, tss_ldt, tr,
                 ldtr, cur_task, stack_mirror_arr, jmp_env>>

(* The rest of sleep(que), run by the task that schedule() returned in.    *)
SleepReturn ==
  /\ at = "sleep"
  /\ state' = IF state[current] = "READY" /\ stack # NULL
                THEN [state EXCEPT ![stack] = "READY"]
                ELSE state
  /\ stack' = NULL
  /\ at' = "prompt"
  /\ UNCHANGED <<task_array, process_memeory_map, p_counter, current, pid,
                 father, priority, QueHead, is_used, tss_desc, tss_ldt, tr,
                 ldtr, cur_task, stack_mirror_arr, jmp_env>>

(***************************************************************************)
(* The remaining commands                                                  *)
(***************************************************************************)

(* A mutant of Nice: the priority goes down.                               *)
Nice_Lowers ==
  /\ at = "prompt"
  /\ priority' = [priority EXCEPT ![current] = @ - 1]
  /\ UNCHANGED <<cpuVars, task_array, process_memeory_map, p_counter,
                 current, pid, father, state, QueHead, is_used>>

(* The N command.                                                          *)
Nice ==
  /\ at = "prompt"
  /\ priority[current] < PriorityBound
  /\ priority' = [priority EXCEPT ![current] = @ + 1]
  /\ UNCHANGED <<cpuVars, task_array, process_memeory_map, p_counter,
                 current, pid, father, state, QueHead, is_used>>

(* The Q and E commands and end of input, in whichever task reads them:    *)
(* do_first_task returns on the shared stack and the whole program ends.   *)
Quit ==
  /\ at = "prompt"
  /\ is_used' = FALSE
  /\ at' = "halted"
  /\ UNCHANGED <<task_array, process_memeory_map, p_counter, current, pid,
                 father, state, priority, QueHead, tss_desc, tss_ldt, tr,
                 ldtr, cur_task, stack, stack_mirror_arr, jmp_env>>

Stopped == at \in {"halted", "wild"}

Next ==
  \/ \E index \in Index, page \in Process : Fork(index, page)
  \/ ForkFails
  \/ ChildReturn
  \/ \E next \in Index : Sleep(next)
  \/ SleepReturn
  \/ WakeUp
  \/ Nice
  \/ Quit
  \/ Stopped /\ UNCHANGED vars

Spec == Init /\ [][Next]_vars

(***************************************************************************)
(* Safety properties                                                       *)
(***************************************************************************)

Live == {i \in Index : task_array[i] # NULL}        \* slots in use

Tasks == {p \in Process : \E i \in Index : task_array[i] = p}

(* The slot table, the page map and the pids tell one story: a page holds  *)
(* a Process exactly when one slot points to it, no two tasks share a page *)
(* or a pid, and every task's father is a task created before it.          *)
TaskTableConsistent ==
  /\ \A p \in Process : process_memeory_map[p] = 1 <=> p \in Tasks
  /\ \A i, j \in Live : task_array[i] = task_array[j] => i = j
  /\ \A p, q \in Tasks : pid[p] = pid[q] => p = q
  /\ \A p \in Tasks : \/ (pid[p] = 0 /\ father[p] = -1)
                       \/ \E q \in Tasks : /\ pid[q] = father[p]
                                           /\ pid[q] < pid[p]

(* The kernel's and the processor's idea of who runs agree: cur_task is    *)
(* the slot of Process::current, the task register and the LDT register    *)
(* are that task's, and only task 0 runs without being READY.              *)
CpuFollowsCurrent ==
  /\ task_array[cur_task] = current
  /\ tss_desc = task_array
  /\ tr = current
  /\ ldtr = cur_task
  /\ \A i \in Live : i # cur_task => tss_ldt[task_array[i]] = i
  /\ state[current] = "READY" \/ cur_task = 0

(* Whoever the scheduler may pick can be resumed: its stack was saved, and *)
(* its jump point is a call that is still open.  In particular the program *)
(* never runs on a stack that belongs to another call.                     *)
ResumeSafe ==
  /\ at \notin {"wild", "boot", "none"}
  /\ \A i \in Live \ {cur_task} :
       /\ stack_mirror_arr[i] # NoMirror
       /\ jmp_env[i] \in {"sleep", "fork"}
       /\ jmp_env[i] = "fork" => state[task_array[i]] = "READY"

Sleepers == {p \in Tasks : state[p] = "WAITE"}

(* The sleeper that slot i's open call of sleep() will wake: its `tmp'.    *)
Link(i) ==
  CASE i = cur_task /\ at = "sleep"               -> stack
    [] i # cur_task /\ jmp_env[i] = "sleep"       -> stack_mirror_arr[i]
    [] OTHER                                      -> NULL

(* The queue is threaded through suspended stack frames, so a sleeper can  *)
(* be lost without trace.  None is: from every set of sleepers one is      *)
(* named by QueHead or by the `tmp' of a task outside the set.  Hence each *)
(* is reached from QueHead, the running task or a READY task, and no       *)
(* sleepers wait only for each other.                                      *)
NoLostSleeper ==
  \A S \in SUBSET Sleepers : S # {} =>
    \E p \in S : \/ QueHead = p
                 \/ \E i \in Live : task_array[i] \notin S /\ Link(i) = p

(* Wakings are neither spurious nor doubled: QueHead and every tmp name a  *)
(* task that is still asleep, and no two of them name the same one.        *)
WakesAreExact ==
  /\ QueHead # NULL => QueHead \in Sleepers
  /\ \A i \in Live : Link(i) # NULL =>
       /\ Link(i) \in Sleepers
       /\ Link(i) # QueHead
       /\ \A j \in Live : Link(j) = Link(i) => i = j

(* The loop of schedule(), as the code runs it.                            *)
schedule(st) ==
  LET cur[i \in 0 .. MAX_TASK_NUM] ==
        IF i = 0 THEN 0
        ELSE IF Ready(i - 1, st) /\ Outranks(i - 1, cur[i - 1])
               THEN i - 1
               ELSE cur[i - 1]
  IN  cur[MAX_TASK_NUM]

(* What the scheduler promises is what its loop computes: one slot, the    *)
(* last of those with the highest priority, task 0 competing even though   *)
(* it is never READY and winning only when it strictly outranks them all.  *)
PicksIsTheLoop ==
  \A next \in Index : Picks(next, state) <=> next = schedule(state)

(* A fork hands the processor over: by the time anybody is back at the     *)
(* prompt, a child that has not run yet has lost to the task that runs, on *)
(* priority or, against a younger task, on its slot.                       *)
ForkYields ==
  at = "prompt" =>
    \A i \in Live \ {cur_task} :
      jmp_env[i] = "fork" => Outranks(cur_task, i)

(***************************************************************************)
(* The sleep queue as an abstraction                                       *)
(***************************************************************************)

(* The chain that starts at QueHead: the least set that holds the head and *)
(* the `tmp' of each member.  Those who sleep outside it were released.    *)
Chain ==
  {p \in Tasks :
     \A S \in SUBSET Tasks :
       /\ QueHead # NULL => QueHead \in S
       /\ \A i \in Live : task_array[i] \in S /\ Link(i) # NULL
                           => Link(i) \in S
       => p \in S}

(* ProcessManage implements SleepQueue: the head alone is marked READY, but*)
(* every task of the chain is thereby released, and none before that.      *)
Queue == INSTANCE SleepQueue WITH
  Task <- Process, Idle <- 0,
  members <- Tasks, running <- current, asleep <- Chain

ImplementsSleepQueue == Queue!QueueSpec

(***************************************************************************)
(* Liveness                                                                *)
(***************************************************************************)

(* Between two prompts the kernel runs without waiting for anything.  The  *)
(* user owes it nothing: no fairness on a command.                         *)
Fairness ==
  /\ WF_vars(ChildReturn)
  /\ WF_vars(at = "toSleep" /\ \E next \in Index : Sleep(next))
  /\ WF_vars(SleepReturn)

LiveSpec == Spec /\ Fairness

(* Every command comes to an end: the scheduler always finds a task to run,*)
(* and whatever call it resumes there returns to the prompt.               *)
PromptReturns == at # "prompt" ~> (at = "prompt" \/ Stopped)

(* Those that a wake_up released but that still sleep or wait to run.      *)
Released == {p \in Tasks \ {0, current} : p \notin Chain}

SleepOnly ==
  ChildReturn \/ SleepReturn \/ \E next \in Index : Sleep(next)

SleepAgain == \E next \in Index : Sleep(next)

IdleIsLowest ==
  \A i \in Live \ {0} : priority[task_array[0]] <= priority[task_array[i]]

(* The step by which a release takes effect: as long as task 0 outranks    *)
(* nobody, each sleep() gives the processor to a released task, if there   *)
(* is one, and neither it nor the rest of the call takes a release back.   *)
ReleaseAdvances ==
  [][ /\ SleepAgain \/ SleepReturn => Released' \subseteq Released
      /\ SleepAgain /\ IdleIsLowest =>
           Released = {} \/ current' \in Released \ Released' ]_vars

(* A release takes effect without further wake_ups: if from some moment on *)
(* the tasks do nothing but sleep, again and again, and task 0 does not    *)
(* outrank them, then each released task gets its turn to run; in the end  *)
(* no released task is left.                                               *)
ReleaseIsComplete ==
  (<>[][SleepOnly]_vars /\ []<><<SleepAgain>>_vars /\ <>[]IdleIsLowest)
    => <>[](Released = {})
=====
