------------------------ MODULE ProcessManage_proof ------------------------
(***************************************************************************)
(* Theorems about ProcessManage, for any number of slots, pages and        *)
(* priorities, and that it implements SleepQueue: the chain of suspended   *)
(* calls is the set of sleepers that no wake_up has released.              *)
(***************************************************************************)
EXTENDS ProcessManage, WellFoundedInduction, TLAPS

(* Nothing is ever freed, so slots, pages and pids are dealt out together. *)
Allocation ==
  /\ p_counter >= 1
  /\ p_counter <= MAX_TASK_NUM
  /\ p_counter <= PROCESS_MEMORY_PAGES_NUM
  /\ \A i \in Index : task_array[i] = IF i < p_counter THEN i ELSE NULL
  /\ \A p \in Process :
       process_memeory_map[p] = IF p < p_counter THEN 1 ELSE 0
  /\ \A p \in Process : p < p_counter => pid[p] = p

(* The processor's registers describe the task that Process::current names.*)
Registers ==
  /\ cur_task = current
  /\ current < p_counter
  /\ tss_desc = task_array
  /\ tr = current
  /\ ldtr = cur_task
  /\ \A p \in Process : p < p_counter => tss_ldt[p] = p

(* Task 0 never sleeps, and any other task that runs is READY.             *)
TaskStates ==
  /\ state[0] # "WAITE"
  /\ current # 0 => state[current] = "READY"

(* A father is older than its children.                                    *)
Fathers ==
  \A p \in Process : p < p_counter =>
    (father[p] = -1 /\ p = 0) \/ (father[p] \in Nat /\ father[p] < p)

BaseInv == TypeOK /\ Allocation /\ Registers /\ TaskStates /\ Fathers

(* No slot or page number is NULL, and 0 is both.                          *)
LEMMA Numbers ==
  /\ 0 \in Index /\ 0 \in Process
  /\ Index \subseteq Nat /\ Process \subseteq Nat
  /\ NULL \notin Nat
BY SizesAssumption, NullAssumption DEF Index, Process

(* Initially task 0 alone exists and runs.                                 *)
LEMMA BaseInvInit == Init => BaseInv
<1> SUFFICES ASSUME Init PROVE BaseInv
  OBVIOUS
<1> USE Numbers
<1>1. TypeOK
  BY SizesAssumption, PriorityAssumption
     DEF Init, CPUInit, TypeOK, CPUTypeOK, ProcessOrNull, Location, States
<1>2. Allocation
  BY SizesAssumption DEF Init, Allocation, Index, Process
<1>3. Registers
  BY DEF Init, CPUInit, Registers, Process
<1>4. TaskStates
  BY DEF Init, TaskStates, Process
<1>5. Fathers
  BY DEF Init, Fathers, Process
<1>6. QED
  BY <1>1, <1>2, <1>3, <1>4, <1>5 DEF BaseInv

(* find_empty_task and find_empty_page find the same number: the next pid. *)
LEMMA FirstEmpty ==
  ASSUME BaseInv, NEW index \in Index, NEW page \in Process,
         EmptyTask(index), EmptyPage(page)
  PROVE  index = p_counter /\ page = p_counter
<1> USE Numbers, SizesAssumption DEF BaseInv
<1>1. p_counter \in Nat
  BY DEF TypeOK
<1>2. index >= p_counter /\ page >= p_counter
  BY <1>1 DEF EmptyTask, EmptyPage, Allocation, Index, Process
<1>3. ~(index > p_counter)
  <2> SUFFICES ASSUME index > p_counter PROVE FALSE
    OBVIOUS
  <2>1. p_counter \in Index /\ p_counter < index
    BY <1>1 DEF Index
  <2>2. task_array[p_counter] # NULL
    BY <2>1 DEF EmptyTask
  <2>3. QED
    BY <1>1, <2>1, <2>2 DEF Allocation
<1>4. ~(page > p_counter)
  <2> SUFFICES ASSUME page > p_counter PROVE FALSE
    OBVIOUS
  <2>1. p_counter \in Process /\ p_counter < page
    BY <1>1 DEF Process
  <2>2. process_memeory_map[p_counter] # 0
    BY <2>1 DEF EmptyPage
  <2>3. QED
    BY <1>1, <2>1, <2>2 DEF Allocation
<1>5. QED
  BY <1>1, <1>2, <1>3, <1>4 DEF Index, Process

(* Whatever the scheduler settles on is a task, and READY unless task 0.   *)
LEMMA PickIsTask ==
  ASSUME BaseInv, NEW next \in Index, NEW st, Picks(next, st)
  PROVE  /\ next < p_counter
         /\ next \in Process
         /\ task_array[next] = next
         /\ next = 0 \/ st[next] = "READY"
<1> USE Numbers, SizesAssumption DEF BaseInv
<1>1. p_counter \in Nat
  BY DEF TypeOK
<1>2. CASE next = 0
  BY <1>1, <1>2 DEF Allocation
<1>3. CASE Ready(next, st)
  BY <1>1, <1>3 DEF Allocation, Ready, Index, Process
<1>4. QED
  BY <1>2, <1>3 DEF Picks

(* Fork adds one task, READY, whose numbers are all p_counter.             *)
LEMMA ForkBase ==
  ASSUME BaseInv, NEW index \in Index, NEW page \in Process,
         Fork(index, page)
  PROVE  BaseInv'
<1> USE Numbers, SizesAssumption, PriorityAssumption
<1>1. index = p_counter /\ page = p_counter
  BY FirstEmpty DEF Fork
<1>2. p_counter \in Nat
  BY DEF BaseInv, TypeOK
<1>3. TypeOK'
  <2>1. CPUTypeOK'
    <3>1. stack_mirror_arr' \in [Index -> ProcessOrNull \cup {NoMirror}]
      <4>1. PICK saved \in SavedStacks(stack) :
              stack_mirror_arr' = [stack_mirror_arr EXCEPT ![index] = saved]
        BY DEF Fork, NewContext
      <4>2. saved \in ProcessOrNull \cup {NoMirror}
        BY <4>1 DEF BaseInv, TypeOK, CPUTypeOK, SavedStacks
      <4>3. QED
        BY <4>1, <4>2 DEF BaseInv, TypeOK, CPUTypeOK
    <3>2. QED
      BY <3>1 DEF BaseInv, TypeOK, CPUTypeOK, Fork, NewContext,
                  ProcessOrNull, Location
  <2>2. QED
    BY <2>1 DEF BaseInv, TypeOK, Fork, ProcessCopy, ProcessOrNull, States
<1>4. Allocation'
  <2>1. /\ p_counter' = p_counter + 1
        /\ p_counter' <= MAX_TASK_NUM /\ p_counter' <= PROCESS_MEMORY_PAGES_NUM
    BY <1>1, <1>2 DEF Fork, ProcessCopy, Index, Process
  <2>2. \A i \in Index :
          task_array'[i] = IF i < p_counter' THEN i ELSE NULL
    BY <1>1, <1>2, <2>1 DEF BaseInv, TypeOK, Allocation, Fork
  <2>3. \A p \in Process :
          process_memeory_map'[p] = IF p < p_counter' THEN 1 ELSE 0
    BY <1>1, <1>2, <2>1 DEF BaseInv, TypeOK, Allocation, Fork
  <2>4. \A p \in Process : p < p_counter' => pid'[p] = p
    BY <1>1, <1>2, <2>1 DEF BaseInv, TypeOK, Allocation, Fork, ProcessCopy
  <2>5. QED
    BY <1>2, <2>1, <2>2, <2>3, <2>4 DEF Allocation
<1>5. Registers'
  <2>1. /\ UNCHANGED <<cur_task, current, tr, ldtr>>
        /\ p_counter' = p_counter + 1
        /\ tss_desc' = [tss_desc EXCEPT ![index] = page]
        /\ task_array' = [task_array EXCEPT ![index] = page]
        /\ tss_ldt' = [tss_ldt EXCEPT ![page] = index]
    BY DEF Fork, ProcessCopy, NewContext
  <2>2. \A p \in Process : p < p_counter' => tss_ldt'[p] = p
    BY <1>1, <1>2, <2>1 DEF BaseInv, TypeOK, CPUTypeOK, Registers
  <2>3. current' < p_counter'
    BY <1>2, <2>1 DEF BaseInv, TypeOK, Registers
  <2>4. QED
    BY <2>1, <2>2, <2>3 DEF BaseInv, Registers
<1>6. TaskStates'
  BY <1>1, <1>2
     DEF BaseInv, TypeOK, Allocation, Registers, TaskStates, Fork,
         ProcessCopy, Process
<1>7. Fathers'
  <2>1. /\ p_counter' = p_counter + 1
        /\ father' = [father EXCEPT ![page] = current]
    BY DEF Fork, ProcessCopy, BaseInv, Allocation, Registers, TypeOK
  <2>2. current \in Nat /\ current < p_counter
    BY DEF BaseInv, TypeOK, Registers
  <2>3. QED
    BY <1>1, <1>2, <2>1, <2>2 DEF BaseInv, TypeOK, Fathers
<1>8. QED
  BY <1>3, <1>4, <1>5, <1>6, <1>7 DEF BaseInv

(* sleep(): the registers move with Process::current.                      *)
LEMMA SleepBase ==
  ASSUME BaseInv, NEW next \in Index, Sleep(next)
  PROVE  BaseInv'
<1> USE Numbers, SizesAssumption
<1> DEFINE tmp == IF pid[current] = 0 THEN NULL ELSE QueHead
<1>1. /\ next < p_counter
      /\ next \in Process
      /\ task_array[next] = next
      /\ next = 0 \/ state'[next] = "READY"
  BY PickIsTask DEF Sleep
<1>2. /\ p_counter \in Nat
      /\ current \in Process /\ cur_task = current
      /\ pid[current] = 0 <=> current = 0
  BY DEF BaseInv, TypeOK, Allocation, Registers
<1>3. current' = next
  BY <1>1 DEF Sleep
<1>4. tmp \in ProcessOrNull
  BY DEF BaseInv, TypeOK, ProcessOrNull
<1>5. /\ state' \in [Process -> States]
      /\ QueHead' \in ProcessOrNull
  BY <1>2 DEF Sleep, Enqueue, BaseInv, TypeOK, States, ProcessOrNull
<1>6. CPUTypeOK' /\ Registers'
  <2>1. CASE task_array[next] = current
    BY <1>1, <1>2, <1>3, <1>4, <2>1
       DEF Sleep, BaseInv, TypeOK, CPUTypeOK, Registers, Location
  <2>2. CASE task_array[next] # current
    <3>1. SwitchContext(next, tmp)
      BY <2>2 DEF Sleep
    <3>2. PICK saved \in SavedStacks(tmp) :
            /\ stack_mirror_arr' =
                  [stack_mirror_arr EXCEPT ![cur_task] = saved]
            /\ jmp_env' = [jmp_env EXCEPT ![cur_task] = "sleep"]
            /\ LoadTask(next)
            /\ \/ stack' = stack_mirror_arr'[next] /\ at' = jmp_env'[next]
                  /\ stack_mirror_arr'[next] # NoMirror
               \/ stack' = tmp /\ at' \in {"sleep", "wild"}
            /\ UNCHANGED tss_desc
      BY <3>1 DEF SwitchContext
    <3>3. saved \in ProcessOrNull \cup {NoMirror}
      BY <1>4, <3>2 DEF SavedStacks
    <3>4. /\ stack_mirror_arr' \in [Index -> ProcessOrNull \cup {NoMirror}]
          /\ jmp_env' \in [Index -> Location]
      BY <1>2, <3>2, <3>3 DEF BaseInv, TypeOK, CPUTypeOK, Location
    <3>5. stack' \in ProcessOrNull /\ at' \in Location
      BY <1>4, <3>2, <3>4 DEF Location
    <3>6. /\ cur_task' = next /\ tr' = next /\ ldtr' = next
          /\ tss_ldt' = tss_ldt
      BY <1>1, <1>2, <3>2
         DEF LoadTask, BaseInv, TypeOK, CPUTypeOK, Registers
    <3>7. QED
      BY <1>1, <1>3, <3>2, <3>4, <3>5, <3>6
         DEF Sleep, BaseInv, TypeOK, CPUTypeOK, Registers
  <2>3. QED
    BY <2>1, <2>2
<1>7. TypeOK'
  BY <1>1, <1>3, <1>5, <1>6 DEF Sleep, BaseInv, TypeOK
<1>8. Allocation'
  BY DEF Sleep, BaseInv, Allocation
<1>9. TaskStates'
  BY <1>1, <1>2, <1>3 DEF Sleep, Enqueue, BaseInv, TypeOK, TaskStates, Process
<1>10. Fathers'
  BY DEF Sleep, BaseInv, Fathers
<1>11. QED
  BY <1>6, <1>7, <1>8, <1>9, <1>10 DEF BaseInv

(* wake_up and the tail of sleep() only ever mark tasks READY.             *)
LEMMA WakeBase ==
  ASSUME BaseInv, NEW woken \in ProcessOrNull,
         state' = IF woken = NULL THEN state
                                  ELSE [state EXCEPT ![woken] = "READY"],
         QueHead' \in ProcessOrNull, stack' \in ProcessOrNull,
         at' \in Location,
         UNCHANGED <<task_array, process_memeory_map, p_counter, current,
                     pid, father, priority, is_used, tss_desc, tss_ldt, tr,
                     ldtr, cur_task, stack_mirror_arr, jmp_env>>
  PROVE  BaseInv'
<1> USE Numbers
<1>1. state' \in [Process -> States]
  BY DEF BaseInv, TypeOK, ProcessOrNull, States
<1>2. TypeOK'
  BY <1>1 DEF BaseInv, TypeOK, CPUTypeOK
<1>3. TaskStates'
  BY DEF BaseInv, TypeOK, TaskStates, ProcessOrNull
<1>4. Allocation' /\ Registers' /\ Fathers'
  BY DEF BaseInv, Allocation, Registers, Fathers
<1>5. QED
  BY <1>2, <1>3, <1>4 DEF BaseInv

(* The base invariant is inductive, whatever the allocator does.           *)
LEMMA BaseInvStep == BaseInv /\ [Next]_vars => BaseInv'
<1> SUFFICES ASSUME BaseInv, [Next]_vars PROVE BaseInv'
  OBVIOUS
<1> USE Numbers
<1>1. ASSUME NEW index \in Index, NEW page \in Process, Fork(index, page)
      PROVE  BaseInv'
  BY <1>1, ForkBase
<1>2. ASSUME ForkFails PROVE BaseInv'
  BY <1>2 DEF ForkFails, pmVars, BaseInv, TypeOK, CPUTypeOK, Allocation,
              Registers, TaskStates, Fathers, Location
<1>3. ASSUME ChildReturn PROVE BaseInv'
  <2>1. QueHead \in ProcessOrNull /\ stack \in ProcessOrNull
    BY DEF BaseInv, TypeOK, CPUTypeOK
  <2>2. QED
    BY <1>3, <2>1, WakeBase DEF ChildReturn, wake_up, ProcessOrNull, Location
<1>4. ASSUME NEW next \in Index, Sleep(next) PROVE BaseInv'
  BY <1>4, SleepBase
<1>5. ASSUME SleepReturn PROVE BaseInv'
  <2> DEFINE woken == IF state[current] = "READY" THEN stack ELSE NULL
  <2>1. woken \in ProcessOrNull /\ QueHead \in ProcessOrNull
    BY DEF BaseInv, TypeOK, CPUTypeOK, ProcessOrNull
  <2>2. QED
    BY <1>5, <2>1, WakeBase DEF SleepReturn, ProcessOrNull, Location
<1>6. ASSUME WakeUp PROVE BaseInv'
  <2>1. /\ QueHead \in ProcessOrNull /\ stack \in ProcessOrNull
        /\ at \in Location
    BY DEF BaseInv, TypeOK, CPUTypeOK
  <2>2. QED
    BY <1>6, <2>1, WakeBase DEF WakeUp, wake_up, cpuVars, ProcessOrNull
<1>7. ASSUME Nice PROVE BaseInv'
  <2>1. priority' \in [Process -> Nat]
    BY <1>7 DEF Nice, BaseInv, TypeOK
  <2>2. QED
    BY <1>7, <2>1 DEF Nice, cpuVars, BaseInv, TypeOK, CPUTypeOK, Allocation,
                      Registers, TaskStates, Fathers
<1>8. ASSUME Quit PROVE BaseInv'
  BY <1>8 DEF Quit, BaseInv, TypeOK, CPUTypeOK, Allocation, Registers,
              TaskStates, Fathers, Location
<1>9. ASSUME UNCHANGED vars PROVE BaseInv'
  BY <1>9 DEF vars, cpuVars, pmVars, BaseInv, TypeOK, CPUTypeOK, Allocation,
              Registers, TaskStates, Fathers
<1>10. QED
  BY <1>1, <1>2, <1>3, <1>4, <1>5, <1>6, <1>7, <1>8, <1>9 DEF Next

(* The base invariant holds throughout every behaviour.                    *)
LEMMA BaseInvAlways == Spec => []BaseInv
BY BaseInvInit, BaseInvStep, PTL DEF Spec

(* Every variable keeps its type, however many tasks are forked and however*)
(* the saving of a stack fails: in particular the scheduler never lands on *)
(* an empty slot, and no null pointer is ever woken or run.                *)
THEOREM TypeCorrectness == Spec => []TypeOK
<1>1. BaseInv => TypeOK
  BY DEF BaseInv
<1>2. QED
  BY <1>1, BaseInvAlways, PTL

(* The tasks that exist are the numbers below p_counter.                   *)
LEMMA TasksAreNumbers ==
  ASSUME BaseInv
  PROVE  /\ Tasks = {p \in Process : p < p_counter}
         /\ Live = {i \in Index : i < p_counter}
         /\ Tasks = Live
         /\ \A i \in Live : i \in Process /\ task_array[i] = i
<1> USE Numbers, SizesAssumption
<1>1. p_counter \in Nat
  BY DEF BaseInv, TypeOK
<1>2. \A p \in Process : p < p_counter => p \in Index
  BY <1>1 DEF BaseInv, Allocation, Index, Process
<1>3. \A i \in Index : i < p_counter => i \in Process
  BY <1>1 DEF BaseInv, Allocation, Index, Process
<1>4. Live = {i \in Index : i < p_counter}
  BY DEF BaseInv, Allocation, Live
<1>5. \A i \in Index : i < p_counter => task_array[i] = i
  BY DEF BaseInv, Allocation
<1>6. \A i \in Index : ~(i < p_counter) => task_array[i] = NULL
  BY DEF BaseInv, Allocation
<1>7. Tasks = {p \in Process : p < p_counter}
  BY <1>2, <1>5, <1>6 DEF Tasks
<1>8. QED
  BY <1>2, <1>3, <1>4, <1>5, <1>7

(* The processor's registers name the task the kernel believes it runs, at *)
(* every step of every schedule.                                           *)
THEOREM RegistersFollowCurrent == Spec => []CpuFollowsCurrent
<1>1. BaseInv => CpuFollowsCurrent
  <2> SUFFICES ASSUME BaseInv PROVE CpuFollowsCurrent
    OBVIOUS
  <2>1. cur_task = current /\ current < p_counter /\ cur_task \in Index
    BY DEF BaseInv, Registers, TypeOK, CPUTypeOK
  <2>2. task_array[cur_task] = current
    BY <2>1 DEF BaseInv, Allocation
  <2>3. \A i \in Live : tss_ldt[task_array[i]] = i
    BY TasksAreNumbers DEF BaseInv, Registers
  <2>4. QED
    BY <2>1, <2>2, <2>3 DEF CpuFollowsCurrent, BaseInv, Registers, TaskStates
<1>2. QED
  BY <1>1, BaseInvAlways, PTL

(* Forks never give out a slot, page or pid twice, and the father links    *)
(* form a tree rooted in task 0.                                           *)
THEOREM TableStaysConsistent == Spec => []TaskTableConsistent
<1>1. BaseInv => TaskTableConsistent
  <2> SUFFICES ASSUME BaseInv PROVE TaskTableConsistent
    OBVIOUS
  <2> USE Numbers, TasksAreNumbers
  <2>1. p_counter \in Nat
    BY DEF BaseInv, TypeOK
  <2>2. \A p \in Process : process_memeory_map[p] = 1 <=> p \in Tasks
    BY DEF BaseInv, Allocation
  <2>3. \A p \in Tasks : pid[p] = p
    BY DEF BaseInv, Allocation
  <2>4. \A p \in Tasks : \/ pid[p] = 0 /\ father[p] = -1
                         \/ \E q \in Tasks : /\ pid[q] = father[p]
                                             /\ pid[q] < pid[p]
    <3> SUFFICES ASSUME NEW p \in Tasks, p # 0
                 PROVE  \E q \in Tasks : /\ pid[q] = father[p]
                                         /\ pid[q] < pid[p]
      BY <2>3 DEF BaseInv, Fathers
    <3>1. father[p] \in Nat /\ father[p] < p /\ p < p_counter
      BY DEF BaseInv, Fathers
    <3>2. father[p] \in Tasks
      BY <2>1, <3>1, SizesAssumption DEF Process
    <3>3. QED
      BY <2>3, <3>1, <3>2
  <2>5. QED
    BY <2>2, <2>3, <2>4 DEF TaskTableConsistent
<1>2. QED
  BY <1>1, BaseInvAlways, PTL

(***************************************************************************)
(* Contexts and the sleep queue, when saving a stack does not fail         *)
(***************************************************************************)

(* Every task that does not run has a saved stack and an open call to      *)
(* return to.  Task 0, never enqueued, has no sleeper to wake.             *)
Contexts ==
  /\ at \in {"prompt", "toSleep", "sleep", "fork", "halted"}
  /\ stack_mirror_arr[0] = NULL
  /\ current = 0 /\ at = "sleep" => stack = NULL
  /\ \A p \in Process : p < p_counter /\ p # current =>
       /\ stack_mirror_arr[p] \in ProcessOrNull
       /\ jmp_env[p] \in {"sleep", "fork"}
       /\ jmp_env[p] = "fork" => state[p] = "READY"

(* Initially the only context is the running one.                          *)
LEMMA ContextsInit == Init => Contexts
BY Numbers DEF Init, CPUInit, Contexts, Process

(* switch_to lands where the chosen task left off: its `tmp' is back on the*)
(* stack if it slept, and every other task's context is untouched.         *)
LEMMA SleepContexts ==
  ASSUME BaseInv, Contexts, ~MirrorMayFail,
         NEW next \in Index, Sleep(next)
  PROVE  /\ Contexts'
         /\ next \in Process /\ next < p_counter
         /\ current' = next
         /\ next # current =>
              /\ stack_mirror_arr' = [stack_mirror_arr EXCEPT ![current] =
                   IF current = 0 THEN NULL ELSE QueHead]
              /\ jmp_env' = [jmp_env EXCEPT ![current] = "sleep"]
              /\ at' = jmp_env[next]
              /\ stack' = stack_mirror_arr[next]
         /\ next = current =>
              /\ current = 0
              /\ stack' = NULL
              /\ UNCHANGED <<stack_mirror_arr, jmp_env>>
<1> USE Numbers
<1> DEFINE tmp == IF current = 0 THEN NULL ELSE QueHead
<1>1. /\ next < p_counter
      /\ next \in Process
      /\ task_array[next] = next
      /\ next = 0 \/ state'[next] = "READY"
  BY PickIsTask DEF Sleep
<1>2. /\ p_counter \in Nat
      /\ current \in Process /\ current < p_counter /\ cur_task = current
      /\ pid[current] = 0 <=> current = 0
  BY DEF BaseInv, TypeOK, Allocation, Registers
<1>3. current' = next /\ UNCHANGED p_counter
  BY <1>1 DEF Sleep
<1>4. tmp \in ProcessOrNull /\ tmp # NoMirror
  BY NullAssumption DEF BaseInv, TypeOK, ProcessOrNull
<1>5. \A p \in Process : p # current => state'[p] = state[p]
  BY <1>2 DEF Sleep, Enqueue, BaseInv, TypeOK
<1>6. CASE next = current
  <2>1. current = 0
    BY <1>1, <1>2, <1>6 DEF Sleep, Enqueue, BaseInv, TypeOK
  <2>2. /\ at' = "sleep" /\ stack' = NULL
        /\ UNCHANGED <<stack_mirror_arr, jmp_env>>
    BY <1>1, <1>2, <1>6, <2>1 DEF Sleep
  <2>3. Contexts'
    BY <1>3, <1>5, <1>6, <2>1, <2>2 DEF Contexts
  <2>4. QED
    BY <1>1, <1>3, <1>6, <2>1, <2>2, <2>3
<1>7. CASE next # current
  <2>1. SwitchContext(next, tmp)
    BY <1>1, <1>2, <1>7 DEF Sleep
  <2>2. SavedStacks(tmp) = {tmp}
    BY DEF SavedStacks
  <2>3. /\ stack_mirror_arr' = [stack_mirror_arr EXCEPT ![current] = tmp]
        /\ jmp_env' = [jmp_env EXCEPT ![current] = "sleep"]
        /\ IF stack_mirror_arr'[next] # NoMirror
             THEN stack' = stack_mirror_arr'[next] /\ at' = jmp_env'[next]
             ELSE TRUE
    BY <1>2, <2>1, <2>2 DEF SwitchContext
  <2>4. /\ stack_mirror_arr'[next] = stack_mirror_arr[next]
        /\ jmp_env'[next] = jmp_env[next]
        /\ stack_mirror_arr[next] \in ProcessOrNull
        /\ jmp_env[next] \in {"sleep", "fork"}
    BY <1>1, <1>2, <1>7, <2>3 DEF BaseInv, TypeOK, CPUTypeOK, Contexts
  <2>5. stack' = stack_mirror_arr[next] /\ at' = jmp_env[next]
    BY <2>3, <2>4, NullAssumption DEF ProcessOrNull
  <2>6. \A p \in Process : p < p_counter /\ p # next =>
          /\ stack_mirror_arr'[p] \in ProcessOrNull
          /\ jmp_env'[p] \in {"sleep", "fork"}
          /\ jmp_env'[p] = "fork" => state'[p] = "READY"
    <3> SUFFICES ASSUME NEW p \in Process, p < p_counter, p # next
                 PROVE  /\ stack_mirror_arr'[p] \in ProcessOrNull
                        /\ jmp_env'[p] \in {"sleep", "fork"}
                        /\ jmp_env'[p] = "fork" => state'[p] = "READY"
      OBVIOUS
    <3>1. p \in Index
      BY SizesAssumption, <1>2 DEF BaseInv, Allocation, Index, Process
    <3>2. CASE p = current
      BY <1>4, <2>3, <3>1, <3>2 DEF BaseInv, TypeOK, CPUTypeOK
    <3>3. CASE p # current
      BY <1>5, <2>3, <3>1, <3>3 DEF BaseInv, TypeOK, CPUTypeOK, Contexts
    <3>4. QED
      BY <3>2, <3>3
  <2>7. stack_mirror_arr'[0] = NULL
    BY <1>2, <2>3 DEF BaseInv, TypeOK, CPUTypeOK, Contexts
  <2>8. next = 0 => stack' = NULL
    BY <2>5 DEF Contexts
  <2>9. Contexts'
    BY <1>3, <2>4, <2>5, <2>6, <2>7, <2>8 DEF Contexts
  <2>10. QED
    BY <1>1, <1>3, <1>7, <2>3, <2>5, <2>9
<1>8. QED
  BY <1>6, <1>7

(* A fork gives the child a context of its own and leaves the others alone.*)
LEMMA ForkContexts ==
  ASSUME BaseInv, Contexts, ~MirrorMayFail,
         NEW index \in Index, NEW page \in Process, Fork(index, page)
  PROVE  /\ Contexts'
         /\ jmp_env'[p_counter] = "fork"
         /\ \A p \in Process : p < p_counter =>
              /\ stack_mirror_arr'[p] = stack_mirror_arr[p]
              /\ jmp_env'[p] = jmp_env[p]
<1> USE Numbers
<1>1. index = p_counter /\ page = p_counter /\ p_counter \in Nat
  BY FirstEmpty DEF Fork, BaseInv, TypeOK
<1>2. /\ stack_mirror_arr' = [stack_mirror_arr EXCEPT ![index] = stack]
      /\ jmp_env' = [jmp_env EXCEPT ![index] = "fork"]
      /\ state' = [state EXCEPT ![page] = "READY"]
      /\ p_counter' = p_counter + 1
      /\ at' = "toSleep"
      /\ UNCHANGED current
  BY DEF Fork, NewContext, ProcessCopy, SavedStacks
<1>3. \A p \in Process : p < p_counter =>
        /\ stack_mirror_arr'[p] = stack_mirror_arr[p]
        /\ jmp_env'[p] = jmp_env[p]
        /\ state'[p] = state[p]
  BY <1>1, <1>2, SizesAssumption
     DEF BaseInv, Allocation, TypeOK, CPUTypeOK, Index, Process
<1>4. /\ stack_mirror_arr'[p_counter] = stack
      /\ jmp_env'[p_counter] = "fork"
      /\ state'[p_counter] = "READY"
      /\ stack \in ProcessOrNull
  BY <1>1, <1>2 DEF BaseInv, TypeOK, CPUTypeOK
<1>5. \A p \in Process : p < p_counter' <=> p < p_counter \/ p = p_counter
  <2>1. \A p \in Nat : p < p_counter + 1 <=> p < p_counter \/ p = p_counter
    BY <1>1
  <2>2. QED
    BY <1>2, <2>1
<1>6. 0 < p_counter
  BY <1>1 DEF BaseInv, Allocation
<1>7. Contexts'
  <2>1. stack_mirror_arr'[0] = NULL
    BY <1>3, <1>6 DEF Contexts
  <2>2. \A p \in Process : p < p_counter' /\ p # current' =>
          /\ stack_mirror_arr'[p] \in ProcessOrNull
          /\ jmp_env'[p] \in {"sleep", "fork"}
          /\ jmp_env'[p] = "fork" => state'[p] = "READY"
    BY <1>2, <1>3, <1>4, <1>5 DEF Contexts
  <2>3. QED
    BY <1>2, <2>1, <2>2 DEF Contexts
<1>8. QED
  BY <1>3, <1>4, <1>7

(* No step loses or mixes up a context, when every stack is saved.         *)
LEMMA ContextsStep ==
  ASSUME ~MirrorMayFail
  PROVE  BaseInv /\ Contexts /\ [Next]_vars => Contexts'
<1> SUFFICES ASSUME BaseInv, Contexts, [Next]_vars PROVE Contexts'
  OBVIOUS
<1> USE Numbers
<1>1. ASSUME NEW index \in Index, NEW page \in Process, Fork(index, page)
      PROVE  Contexts'
  BY <1>1, ForkContexts
<1>2. ASSUME ForkFails PROVE Contexts'
  BY <1>2 DEF ForkFails, pmVars, Contexts
<1>3. ASSUME ChildReturn PROVE Contexts'
  BY <1>3 DEF ChildReturn, wake_up, Contexts, BaseInv, TypeOK
<1>4. ASSUME NEW next \in Index, Sleep(next) PROVE Contexts'
  BY <1>4, SleepContexts
<1>5. ASSUME SleepReturn PROVE Contexts'
  BY <1>5 DEF SleepReturn, Contexts, BaseInv, TypeOK
<1>6. ASSUME WakeUp PROVE Contexts'
  BY <1>6 DEF WakeUp, wake_up, cpuVars, Contexts, BaseInv, TypeOK
<1>7. ASSUME Nice PROVE Contexts'
  BY <1>7 DEF Nice, cpuVars, Contexts
<1>8. ASSUME Quit PROVE Contexts'
  BY <1>8 DEF Quit, Contexts
<1>9. ASSUME UNCHANGED vars PROVE Contexts'
  BY <1>9 DEF vars, cpuVars, pmVars, Contexts
<1>10. QED
  BY <1>1, <1>2, <1>3, <1>4, <1>5, <1>6, <1>7, <1>8, <1>9 DEF Next

(* If saving a stack never fails, no task is ever resumed on a stack that  *)
(* is not its own, and a child that has not run yet is READY to.           *)
THEOREM ResumptionIsSafe ==
  ASSUME ~MirrorMayFail
  PROVE  Spec => []ResumeSafe
<1>1. BaseInv /\ Contexts => ResumeSafe
  <2> SUFFICES ASSUME BaseInv, Contexts PROVE ResumeSafe
    OBVIOUS
  <2>1. cur_task = current
    BY DEF BaseInv, Registers
  <2>2. \A i \in Live : i \in Process /\ i < p_counter /\ task_array[i] = i
    BY TasksAreNumbers
  <2>3. NoMirror \notin ProcessOrNull
    BY NullAssumption, Numbers DEF ProcessOrNull
  <2>4. QED
    BY <2>1, <2>2, <2>3 DEF Contexts, ResumeSafe
<1>2. Init => Contexts
  BY ContextsInit
<1>3. BaseInv /\ Contexts /\ [Next]_vars => Contexts'
  BY ContextsStep
<1>4. QED
  BY <1>1, <1>2, <1>3, BaseInvAlways, PTL DEF Spec

(* What happens to the links: only the task that falls asleep gains one.   *)
LEMMA SleepLinks ==
  ASSUME BaseInv, Contexts, ~MirrorMayFail,
         NEW next \in Index, Sleep(next)
  PROVE  /\ Link(current) = NULL
         /\ \A i \in Live :
              Link(i)' = IF i = current
                           THEN IF current = 0 THEN NULL ELSE QueHead
                           ELSE Link(i)
<1> USE Numbers
<1>1. /\ current \in Process /\ current < p_counter /\ cur_task = current
      /\ cur_task' = current' /\ cur_task \in Index
  <2>1. BaseInv'
    BY SleepBase
  <2>2. QED
    BY <2>1 DEF BaseInv, TypeOK, CPUTypeOK, Registers
<1>2. Link(current) = NULL
  BY <1>1 DEF Sleep, Link
<1>3. ASSUME NEW i \in Live
      PROVE  Link(i)' = IF i = current
                          THEN IF current = 0 THEN NULL ELSE QueHead
                          ELSE Link(i)
  <2>1. i \in Process /\ i < p_counter /\ i \in Index
    BY TasksAreNumbers DEF Live
  <2>2. CASE next = current
    BY <1>1, <1>2, <2>1, <2>2, SleepContexts DEF Link
  <2>3. CASE next # current
    <3>1. /\ current' = next
          /\ stack_mirror_arr' = [stack_mirror_arr EXCEPT ![current] =
               IF current = 0 THEN NULL ELSE QueHead]
          /\ jmp_env' = [jmp_env EXCEPT ![current] = "sleep"]
          /\ at' = jmp_env[next]
          /\ stack' = stack_mirror_arr[next]
      BY <2>3, SleepContexts
    <3>2. CASE i = current
      BY <1>1, <2>1, <2>3, <3>1, <3>2
         DEF Link, BaseInv, TypeOK, CPUTypeOK
    <3>3. CASE i # current
      BY <1>1, <2>1, <2>3, <3>1, <3>3
         DEF Link, BaseInv, TypeOK, CPUTypeOK
    <3>4. QED
      BY <3>2, <3>3
  <2>4. QED
    BY <2>2, <2>3
<1>4. QED
  BY <1>2, <1>3

(* The other steps add no link; the tail of sleep() uses one up.           *)
LEMMA ForkLinks ==
  ASSUME BaseInv, Contexts, ~MirrorMayFail,
         NEW index \in Index, NEW page \in Process, Fork(index, page)
  PROVE  /\ Link(index)' = NULL
         /\ \A i \in Live : Link(i)' = Link(i)
<1> USE Numbers
<1>1. /\ cur_task' = cur_task /\ at = "prompt" /\ at' = "toSleep"
      /\ cur_task = current /\ current < p_counter /\ p_counter \in Nat
      /\ index = p_counter
  BY FirstEmpty DEF Fork, NewContext, BaseInv, Registers, TypeOK
<1>2. \A i \in Live : i \in Process /\ i < p_counter
  BY TasksAreNumbers
<1>3. Link(index)' = NULL
  BY <1>1, ForkContexts DEF Link
<1>4. \A i \in Live : Link(i)' = Link(i)
  BY <1>1, <1>2, ForkContexts DEF Link
<1>5. QED
  BY <1>3, <1>4

(* The child's first steps and the commands W, N and Q: no link changes.   *)
LEMMA OtherLinks ==
  ASSUME BaseInv, Contexts,
         \/ ForkFails \/ ChildReturn \/ WakeUp \/ Nice \/ Quit
         \/ UNCHANGED vars
  PROVE  \A i \in Live : Link(i)' = Link(i)
BY DEF ForkFails, ChildReturn, WakeUp, Nice, Quit, vars, cpuVars, pmVars,
       Link

(* The tail of sleep() drops the running task's link.                      *)
LEMMA ReturnLinks ==
  ASSUME BaseInv, Contexts, SleepReturn
  PROVE  /\ Link(current) = stack
         /\ \A i \in Live :
              Link(i)' = IF i = current THEN NULL ELSE Link(i)
BY DEF SleepReturn, Link, BaseInv, Registers

(***************************************************************************)
(* The sleep queue's invariant                                             *)
(***************************************************************************)

(* NoLostSleeper with slots and tasks identified, as TasksAreNumbers allows*)
EveryGroupIsWoken ==
  \A S \in SUBSET Sleepers : S # {} =>
    \E p \in S : QueHead = p \/ \E i \in Live : i \notin S /\ Link(i) = p

(* It says of slots what NoLostSleeper says of tasks, given the base       *)
(* invariant, which also tells sleepers from the running task and NULL.    *)
LEMMA Restated ==
  ASSUME BaseInv
  PROVE  /\ NoLostSleeper <=> EveryGroupIsWoken
         /\ Sleepers = {p \in Live : state[p] = "WAITE"}
         /\ current \in Live /\ current \notin Sleepers /\ 0 \notin Sleepers
         /\ NULL \notin Live
<1> USE Numbers
<1>1. \A i \in Live : task_array[i] = i
  BY TasksAreNumbers
<1>2. Tasks = Live
  BY TasksAreNumbers
<1>3. NoLostSleeper <=> EveryGroupIsWoken
  BY <1>1 DEF NoLostSleeper, EveryGroupIsWoken
<1>4. current \in Live
  BY <1>2, TasksAreNumbers DEF BaseInv, TypeOK, Registers
<1>5. QED
  BY <1>2, <1>3, <1>4 DEF Sleepers, BaseInv, TaskStates, Live

QueueInv == WakesAreExact /\ EveryGroupIsWoken

(* A step that neither wakes, enqueues nor changes a link keeps QueueInv;  *)
(* a new task has no link.                                                 *)
LEMMA QueueUntouched ==
  ASSUME QueueInv, QueHead' = QueHead, Sleepers' = Sleepers,
         Live \subseteq Live',
         \A i \in Live : Link(i)' = Link(i),
         \A i \in Live' : i \notin Live => Link(i)' = NULL
  PROVE  QueueInv'
<1>1. WakesAreExact'
  BY DEF QueueInv, WakesAreExact
<1>2. EveryGroupIsWoken'
  BY DEF QueueInv, EveryGroupIsWoken
<1>3. QED
  BY <1>1, <1>2 DEF QueueInv

(* wake_up: the groups without the head are woken by the same task as      *)
(* before, or by the head, which is no longer in any group.                *)
LEMMA QueueWake ==
  ASSUME BaseInv, BaseInv', QueueInv, wake_up,
         UNCHANGED <<task_array, p_counter, current>>,
         \A i \in Live : Link(i)' = Link(i)
  PROVE  QueueInv'
<1> USE Numbers
<1>1. Live' = Live
  BY DEF Live
<1>2. CASE QueHead = NULL
  <2>1. Sleepers' = Sleepers /\ QueHead' = QueHead
    BY <1>2 DEF wake_up, Sleepers, Tasks
  <2>2. QED
    BY <1>1, <2>1, QueueUntouched
<1>3. CASE QueHead # NULL
  <2>1. /\ QueHead' = NULL
        /\ QueHead \in Sleepers
        /\ Sleepers' = Sleepers \ {QueHead}
    <3>1. /\ QueHead' = NULL
          /\ state' = [state EXCEPT ![QueHead] = "READY"]
          /\ QueHead \in Sleepers /\ QueHead \in Process
          /\ Tasks' = Tasks
      BY <1>3 DEF wake_up, QueueInv, WakesAreExact, Sleepers, Tasks
    <3>2. QED
      BY <3>1 DEF BaseInv, TypeOK, Sleepers, Tasks
  <2>2. WakesAreExact'
    BY <1>1, <2>1 DEF QueueInv, WakesAreExact
  <2>3. EveryGroupIsWoken'
    BY <1>1, <2>1 DEF QueueInv, EveryGroupIsWoken
  <2>4. QED
    BY <2>2, <2>3 DEF QueueInv
<1>4. QED
  BY <1>2, <1>3

(* The tail of sleep(): its link leads to one sleeper, which it wakes.     *)
LEMMA QueueReturn ==
  ASSUME BaseInv, Contexts, QueueInv, SleepReturn
  PROVE  QueueInv'
<1> USE Numbers
<1>1. Live' = Live /\ QueHead' = QueHead
  BY DEF SleepReturn, Live
<1>2. /\ Link(current) = stack
      /\ \A i \in Live : Link(i)' = IF i = current THEN NULL ELSE Link(i)
  BY ReturnLinks
<1>3. CASE stack = NULL
  <2>1. Sleepers' = Sleepers
    BY <1>3 DEF SleepReturn, Sleepers, Tasks
  <2>2. \A i \in Live : Link(i)' = Link(i)
    BY <1>2, <1>3
  <2>3. QED
    BY <1>1, <2>1, <2>2, QueueUntouched
<1>4. CASE stack # NULL
  <2>1. current # 0 /\ state[current] = "READY"
    BY <1>4 DEF SleepReturn, Contexts, BaseInv, TaskStates
  <2>2. stack \in Sleepers /\ stack # QueHead
    BY <1>2, <1>4, Restated DEF QueueInv, WakesAreExact
  <2>3. Sleepers' = Sleepers \ {stack}
    BY <1>4, <2>1, <2>2
       DEF SleepReturn, Sleepers, Tasks, BaseInv, TypeOK
  <2>4. \A j \in Live : j # current => Link(j) # stack
    BY <1>2, <1>4, Restated DEF QueueInv, WakesAreExact
  <2>5. WakesAreExact'
    BY <1>1, <1>2, <2>2, <2>3, <2>4 DEF QueueInv, WakesAreExact
  <2>6. EveryGroupIsWoken'
    BY <1>1, <1>2, <2>3 DEF QueueInv, EveryGroupIsWoken
  <2>7. QED
    BY <2>5, <2>6 DEF QueueInv
<1>5. QED
  BY <1>3, <1>4

(* sleep() up to the switch: the new head inherits the old one.            *)
LEMMA QueueSleep ==
  ASSUME BaseInv, Contexts, QueueInv, ~MirrorMayFail,
         NEW next \in Index, Sleep(next)
  PROVE  QueueInv'
<1> USE Numbers
<1>1. Live' = Live
  BY DEF Sleep, Live
<1>2. /\ Link(current) = NULL
      /\ \A i \in Live :
           Link(i)' = IF i = current
                        THEN IF current = 0 THEN NULL ELSE QueHead
                        ELSE Link(i)
  BY SleepLinks
<1>3. /\ current \in Live /\ current \notin Sleepers
      /\ current \in Tasks /\ current \in Process
      /\ pid[current] = 0 <=> current = 0
  BY Restated, TasksAreNumbers
     DEF BaseInv, TypeOK, Allocation, Registers
<1>4. CASE current = 0
  <2>1. Sleepers' = Sleepers /\ QueHead' = QueHead
    BY <1>3, <1>4 DEF Sleep, Enqueue, Sleepers, Tasks
  <2>2. \A i \in Live : Link(i)' = Link(i)
    BY <1>2, <1>4
  <2>3. QED
    BY <1>1, <2>1, <2>2, QueueUntouched
<1>5. CASE current # 0
  <2>1. QueHead' = current /\ Sleepers' = Sleepers \cup {current}
    BY <1>3, <1>5 DEF Sleep, Enqueue, Sleepers, Tasks, BaseInv, TypeOK
  <2>2. \A i \in Live : Link(i)' = IF i = current THEN QueHead ELSE Link(i)
    BY <1>2, <1>5
  <2>3. WakesAreExact'
    <3>1. QueHead' \in Sleepers'
      BY <2>1
    <3>2. ASSUME NEW i \in Live, Link(i)' # NULL
          PROVE  /\ Link(i)' \in Sleepers'
                 /\ Link(i)' # QueHead'
                 /\ \A j \in Live : Link(j)' = Link(i)' => i = j
      BY <1>3, <2>1, <2>2, <3>2 DEF QueueInv, WakesAreExact
    <3>3. QED
      BY <1>1, <3>1, <3>2 DEF WakesAreExact
  <2>4. EveryGroupIsWoken'
    <3> SUFFICES ASSUME NEW S \in SUBSET Sleepers', S # {}
                 PROVE  \E p \in S : \/ QueHead' = p
                                     \/ \E i \in Live : i \notin S /\ Link(i)' = p
      BY <1>1 DEF EveryGroupIsWoken
    <3>1. CASE current \in S
      BY <2>1, <3>1
    <3>2. CASE current \notin S
      <4>1. S \in SUBSET Sleepers
        BY <2>1, <3>2
      <4>2. PICK p \in S :
              QueHead = p \/ \E i \in Live : i \notin S /\ Link(i) = p
        BY <4>1 DEF QueueInv, EveryGroupIsWoken
      <4>3. CASE QueHead = p
        BY <1>3, <2>2, <3>2, <4>3
      <4>4. CASE \E i \in Live : i \notin S /\ Link(i) = p
        <5>1. PICK i \in Live : i \notin S /\ Link(i) = p
          BY <4>4
        <5>2. i # current
          BY <1>2, <4>1, <5>1, Restated
        <5>3. QED
          BY <2>2, <5>1, <5>2
      <4>5. QED
        BY <4>2, <4>3, <4>4
    <3>3. QED
      BY <3>1, <3>2
  <2>5. QED
    BY <2>3, <2>4 DEF QueueInv
<1>6. QED
  BY <1>4, <1>5

(* fork: the child is READY, so nobody new sleeps.                         *)
LEMMA QueueFork ==
  ASSUME BaseInv, Contexts, QueueInv, ~MirrorMayFail,
         NEW index \in Index, NEW page \in Process, Fork(index, page)
  PROVE  QueueInv'
<1> USE Numbers
<1>1. /\ index = p_counter /\ page = p_counter
      /\ task_array[index] = NULL
      /\ task_array' = [task_array EXCEPT ![index] = page]
      /\ state' = [state EXCEPT ![page] = "READY"]
  BY FirstEmpty DEF Fork, ProcessCopy, EmptyTask
<1>2. task_array \in [Index -> ProcessOrNull] /\ state \in [Process -> States]
  BY DEF BaseInv, TypeOK
<1>3. page \notin Tasks
  BY <1>1, TasksAreNumbers DEF BaseInv, TypeOK
<1>4. Live' = Live \cup {index} /\ index \notin Live
  BY <1>1, <1>2 DEF Live
<1>5. Sleepers' = Sleepers
  <2>1. Tasks' = Tasks \cup {page}
    BY <1>1, <1>2 DEF Tasks
  <2>2. Tasks \subseteq Process
    BY DEF Tasks
  <2>3. QED
    BY <1>1, <1>2, <1>3, <2>1, <2>2 DEF Sleepers
<1>6. /\ Link(index)' = NULL
      /\ \A i \in Live : Link(i)' = Link(i)
      /\ QueHead' = QueHead
  BY ForkLinks DEF Fork
<1>7. QED
  BY <1>4, <1>5, <1>6, QueueUntouched

(* The inductive invariant: types, the dealing out of slots, the registers,*)
(* the saved contexts, and with them the queue.                            *)
IInv == BaseInv /\ Contexts /\ QueueInv

(* With nobody asleep, there is nobody to lose.                            *)
LEMMA IInvInit == Init => IInv
<1> SUFFICES ASSUME Init PROVE IInv
  OBVIOUS
<1>1. BaseInv /\ Contexts
  BY BaseInvInit, ContextsInit
<1>2. QueHead = NULL /\ Sleepers = {}
  BY DEF Init, Sleepers, Tasks
<1>3. Live = {0} /\ Link(0) = NULL
  BY Numbers DEF Init, CPUInit, Live, Link
<1>4. QED
  BY <1>1, <1>2, <1>3
     DEF IInv, QueueInv, WakesAreExact, EveryGroupIsWoken

(* The whole invariant is inductive, when every stack is saved.            *)
LEMMA IInvStep ==
  ASSUME ~MirrorMayFail
  PROVE  IInv /\ [Next]_vars => IInv'
<1> SUFFICES ASSUME IInv, [Next]_vars PROVE IInv'
  OBVIOUS
<1>1. BaseInv' /\ Contexts'
  BY BaseInvStep, ContextsStep DEF IInv
<1>2. QueueInv'
  <2>1. ASSUME NEW index \in Index, NEW page \in Process,
               Fork(index, page)
        PROVE  QueueInv'
    BY <2>1, QueueFork DEF IInv
  <2>2. ASSUME NEW next \in Index, Sleep(next) PROVE QueueInv'
    BY <2>2, QueueSleep DEF IInv
  <2>3. ASSUME SleepReturn PROVE QueueInv'
    BY <2>3, QueueReturn DEF IInv
  <2>4. ASSUME ChildReturn \/ WakeUp PROVE QueueInv'
    <3>1. \A i \in Live : Link(i)' = Link(i)
      BY <2>4, OtherLinks DEF IInv
    <3>2. wake_up /\ UNCHANGED <<task_array, p_counter, current>>
      BY <2>4 DEF ChildReturn, WakeUp
    <3>3. QED
      BY <1>1, <3>1, <3>2, QueueWake DEF IInv
  <2>5. ASSUME ForkFails \/ Nice \/ Quit \/ UNCHANGED vars
        PROVE  QueueInv'
    <3>1. \A i \in Live : Link(i)' = Link(i)
      BY <2>5, OtherLinks DEF IInv
    <3>2. UNCHANGED <<task_array, state, QueHead>>
      BY <2>5 DEF ForkFails, Nice, Quit, vars, pmVars
    <3>3. Live' = Live /\ Sleepers' = Sleepers
      BY <3>2 DEF Live, Sleepers, Tasks
    <3>4. QED
      BY <3>1, <3>2, <3>3, QueueUntouched DEF IInv
  <2>6. QED
    BY <2>1, <2>2, <2>3, <2>4, <2>5 DEF Next
<1>3. QED
  BY <1>1, <1>2 DEF IInv

(* No interleaving of forks, sleeps and wakes leaves a task asleep that    *)
(* nobody will wake, as long as saving a stack does not fail.              *)
THEOREM SleepersAreNeverLost ==
  ASSUME ~MirrorMayFail
  PROVE  Spec => []NoLostSleeper
<1>1. IInv => NoLostSleeper
  BY Restated DEF IInv, QueueInv
<1>2. Init => IInv
  BY IInvInit
<1>3. IInv /\ [Next]_vars => IInv'
  BY IInvStep
<1>4. QED
  BY <1>1, <1>2, <1>3, PTL DEF Spec

(* Every waking is of a task that sleeps, and no task has two wakers.      *)
THEOREM WakingsAreExact ==
  ASSUME ~MirrorMayFail
  PROVE  Spec => []WakesAreExact
<1>1. IInv => WakesAreExact
  BY DEF IInv, QueueInv
<1>2. Init => IInv
  BY IInvInit
<1>3. IInv /\ [Next]_vars => IInv'
  BY IInvStep
<1>4. QED
  BY <1>1, <1>2, <1>3, PTL DEF Spec
(***************************************************************************)
(* Forks and the scheduler                                                 *)
(***************************************************************************)

(* ForkYields in terms of the numbers, wherever the running task is but    *)
(* between its fork and its call of sleep().                               *)
Yields ==
  at # "toSleep" =>
    \A p \in Process :
      p < p_counter /\ p # current /\ jmp_env[p] = "fork" => Outranks(current, p)

(* Whoever schedule() picks outranks the children that wait: they are READY*)
(* and took part in the comparison.                                        *)
LEMMA SleepYields ==
  ASSUME BaseInv, Contexts, ~MirrorMayFail, NEW next \in Index, Sleep(next)
  PROVE  Yields'
<1> USE Numbers
<1> SUFFICES ASSUME NEW p \in Process, p < p_counter', p # current',
                    jmp_env'[p] = "fork"
             PROVE  Outranks(current, p)'
  BY DEF Yields
<1>1. /\ next \in Process /\ next < p_counter /\ current' = next
      /\ next # current => jmp_env' = [jmp_env EXCEPT ![current] = "sleep"]
      /\ next = current => UNCHANGED jmp_env
  BY SleepContexts
<1>2. UNCHANGED <<p_counter, task_array, priority>> /\ Picks(next, state') /\ Enqueue
  BY DEF Sleep
<1>3. p # current /\ jmp_env[p] = "fork"
  <2>1. CASE next = current
    BY <1>1, <2>1
  <2>2. CASE next # current
    <3>1. current \in Index /\ jmp_env \in [Index -> Location]
      BY DEF BaseInv, Registers, TypeOK, CPUTypeOK
    <3>2. jmp_env' = [jmp_env EXCEPT ![current] = "sleep"]
      BY <1>1, <2>2
    <3>3. jmp_env'[current] = "sleep"
      BY <3>1, <3>2
    <3>4. p # current /\ p \in Index
      BY <1>2, <3>3, SizesAssumption
         DEF BaseInv, Allocation, TypeOK, Index, Process
    <3>5. QED
      BY <3>1, <3>2, <3>4
  <2>3. QED
    BY <2>1, <2>2
<1>4. state'[p] = "READY"
  <2>1. state[p] = "READY"
    BY <1>2, <1>3 DEF Contexts
  <2>2. QED
    BY <1>2, <1>3, <2>1 DEF Enqueue, BaseInv, TypeOK
<1>5. p \in Index /\ task_array[p] = p
  BY <1>2, SizesAssumption DEF BaseInv, Allocation, TypeOK, Index, Process
<1>6. Outranks(next, p)
  BY <1>2, <1>4, <1>5 DEF Picks, Ready
<1>7. QED
  BY <1>1, <1>2, <1>6 DEF Outranks

LEMMA YieldsStep ==
  ASSUME ~MirrorMayFail
  PROVE  BaseInv /\ Contexts /\ Yields /\ [Next]_vars => Yields'
<1> SUFFICES ASSUME BaseInv, Contexts, Yields, [Next]_vars PROVE Yields'
  OBVIOUS
<1> USE Numbers
<1>1. ASSUME NEW index \in Index, NEW page \in Process, Fork(index, page)
      PROVE  Yields'
  BY <1>1 DEF Fork, Yields
<1>2. CASE ForkFails \/ ChildReturn
  BY <1>2 DEF ForkFails, ChildReturn, Yields
<1>3. ASSUME NEW next \in Index, Sleep(next) PROVE Yields'
  BY <1>3, SleepYields
<1>4. CASE SleepReturn \/ WakeUp \/ Quit \/ UNCHANGED vars
  <2>1. /\ UNCHANGED <<p_counter, current, jmp_env, priority, task_array>>
        /\ at # "toSleep" \/ at' = at
    BY <1>4 DEF SleepReturn, WakeUp, Quit, vars, pmVars, cpuVars
  <2>2. QED
    BY <2>1 DEF Yields, Outranks
<1>5. CASE Nice
  <2>1. /\ UNCHANGED <<p_counter, current, jmp_env, task_array, at>>
        /\ priority' = [priority EXCEPT ![current] = @ + 1]
        /\ at = "prompt"
    BY <1>5 DEF Nice, cpuVars
  <2> SUFFICES ASSUME NEW p \in Process, p < p_counter, p # current,
                      jmp_env[p] = "fork"
               PROVE  Outranks(current, p)'
    BY <2>1 DEF Yields
  <2>2. Outranks(current, p)
    BY <2>1 DEF Yields
  <2>3. /\ p \in Index /\ task_array[p] = p
        /\ current \in Process /\ current \in Index /\ task_array[current] = current
    BY SizesAssumption
       DEF BaseInv, Allocation, Registers, TypeOK, CPUTypeOK, Index, Process
  <2>4. /\ priority'[p] = priority[p] /\ priority'[current] = priority[current] + 1
        /\ priority[p] \in Nat /\ priority[current] \in Nat
    BY <2>1, <2>3 DEF BaseInv, TypeOK
  <2>5. QED
    BY <2>1, <2>2, <2>3, <2>4 DEF Outranks
<1>6. QED
  BY <1>1, <1>2, <1>3, <1>4, <1>5 DEF Next

(* If saving a stack never fails, a fork hands the processor over: whoever *)
(* is back at the prompt outranks the children that have not run yet.      *)
THEOREM ForksYield ==
  ASSUME ~MirrorMayFail
  PROVE  Spec => []ForkYields
<1>1. Init => Yields
  BY Numbers DEF Init, CPUInit, Yields, Process
<1>2. BaseInv /\ Yields => ForkYields
  <2> SUFFICES ASSUME BaseInv, Yields, at = "prompt",
                      NEW i \in Live \ {cur_task}, jmp_env[i] = "fork"
               PROVE  Outranks(cur_task, i)
    BY DEF ForkYields
  <2>1. i < p_counter /\ cur_task = current
    BY TasksAreNumbers DEF BaseInv, Registers
  <2>2. i \in Process
    BY <2>1, SizesAssumption
       DEF Live, BaseInv, Allocation, TypeOK, Index, Process
  <2>3. QED
    BY <2>1, <2>2 DEF Yields
<1>3. Spec => [](BaseInv /\ Contexts /\ Yields)
  BY <1>1, BaseInvInit, BaseInvStep, ContextsInit, ContextsStep, YieldsStep, PTL
     DEF Spec
<1>4. QED
  BY <1>2, <1>3, PTL

(***************************************************************************)
(* The scheduler                                                           *)
(***************************************************************************)

(* Every set of numbers but the empty one has a least element.             *)
LEMMA LeastNumber ==
  ASSUME NEW S \in SUBSET Nat, S # {}
  PROVE  \E n \in S : \A m \in S : n <= m
<1> DEFINE R == {p \in Nat \X Nat : p[1] < p[2]}
<1>1. IsWellFoundedOn(R, Nat)
  BY NatLessThanWellFounded DEF OpToRel
<1> HIDE DEF R
<1>2. PICK n \in S : \A m \in S : ~(<<m, n>> \in R)
  BY <1>1, WFMin
<1>3. \A m \in S : ~(m < n)
  BY <1>2 DEF R
<1>4. QED
  BY <1>3

(* Induction, for sets: what holds 0 and with each number the next holds   *)
(* all.                                                                    *)
LEMMA Induction ==
  ASSUME NEW S \in SUBSET Nat, 0 \in S, \A n \in S : n + 1 \in S
  PROVE  S = Nat
<1> SUFFICES ASSUME Nat \ S # {} PROVE FALSE
  OBVIOUS
<1>1. PICK n \in Nat \ S : \A m \in Nat \ S : n <= m
  BY LeastNumber
<1>2. n - 1 \in Nat /\ n - 1 \in S
  BY <1>1
<1>3. QED
  BY <1>1, <1>2

(* The body of the loop, with cur as far as it has been computed.          *)
LoopBody(cur, i, st) ==
  IF i = 0 THEN 0
  ELSE IF Ready(i - 1, st) /\ Outranks(i - 1, cur[i - 1]) THEN i - 1
       ELSE cur[i - 1]

(* The loop can be run any number of times.                                *)
LEMMA LoopRuns ==
  ASSUME NEW st, NEW n \in Nat
  PROVE  \E cur : cur = [i \in 0 .. n |-> LoopBody(cur, i, st)]
<1> DEFINE S == {m \in Nat : \E cur : cur = [i \in 0 .. m |-> LoopBody(cur, i, st)]}
<1>1. 0 \in S
  <2> DEFINE cur == [i \in 0 .. 0 |-> 0]
  <2>1. \A i \in 0 .. 0 : LoopBody(cur, i, st) = 0
    BY DEF LoopBody
  <2>2. cur = [i \in 0 .. 0 |-> LoopBody(cur, i, st)]
    BY <2>1
  <2>3. QED
    BY <2>2
<1>2. ASSUME NEW m \in S PROVE m + 1 \in S
  <2>1. PICK cur : cur = [i \in 0 .. m |-> LoopBody(cur, i, st)]
    OBVIOUS
  <2> DEFINE new == [i \in 0 .. m + 1 |-> IF i = m + 1 THEN LoopBody(cur, i, st)
                                                      ELSE cur[i]]
  <2>2. \A i \in 0 .. m : new[i] = cur[i]
    OBVIOUS
  <2>3. \A i \in 0 .. m + 1 : LoopBody(new, i, st) = LoopBody(cur, i, st)
    <3> HIDE DEF new
    <3>1. \A i \in 0 .. m + 1 : i = 0 \/ i - 1 \in 0 .. m
      OBVIOUS
    <3>2. QED
      BY <2>2, <3>1 DEF LoopBody
  <2>4. \A i \in 0 .. m : cur[i] = LoopBody(cur, i, st)
    <3> DEFINE Body(i) == LoopBody(cur, i, st)
    <3>1. cur = [i \in 0 .. m |-> Body(i)]
      BY <2>1
    <3> HIDE DEF Body
    <3>2. \A i \in 0 .. m : cur[i] = Body(i)
      BY <3>1
    <3>3. QED
      BY <3>2 DEF Body
  <2>5. \A i \in 0 .. m + 1 : i = m + 1 \/ i \in 0 .. m
    OBVIOUS
  <2>6. new = [i \in 0 .. m + 1 |-> LoopBody(new, i, st)]
    BY <2>3, <2>4, <2>5
  <2> HIDE DEF new
  <2>7. \E c : c = [i \in 0 .. m + 1 |-> LoopBody(c, i, st)]
    BY <2>6
  <2>8. QED
    BY <2>7
<1> HIDE DEF S
<1>3. S = Nat
  BY <1>1, <1>2, Induction DEF S
<1>4. QED
  BY <1>3 DEF S

(* Priorities compare slots as numbers do.                                 *)
LEMMA Ranking ==
  ASSUME BaseInv
  PROVE  /\ 0 \in Live
         /\ \A a, b \in Live : Outranks(a, b) \/ Outranks(b, a)
         /\ \A a, b \in Live : Outranks(a, b) /\ Outranks(b, a) => a = b
         /\ \A a, b, c \in Live :
              Outranks(a, b) /\ Outranks(b, c) => Outranks(a, c)
<1>1. \A i \in Live : i \in Nat /\ priority[task_array[i]] \in Nat
  BY Numbers DEF BaseInv, TypeOK, Live, ProcessOrNull
<1>2. 0 \in Live
  <2>1. task_array[0] = 0
    BY Numbers DEF BaseInv, TypeOK, Allocation
  <2>2. QED
    BY <2>1, Numbers DEF Live
<1>3. QED
  BY <1>1, <1>2 DEF Outranks

(* After n passes cur is the best of the first n slots and of slot 0.      *)
LEMMA LoopInvariant ==
  ASSUME BaseInv, NEW st,
         NEW cur, cur = [i \in 0 .. MAX_TASK_NUM |-> LoopBody(cur, i, st)],
         NEW n \in 0 .. MAX_TASK_NUM
  PROVE  /\ cur[n] \in Live
         /\ cur[n] = 0 \/ Ready(cur[n], st)
         /\ \A i \in Index : i = 0 \/ (i < n /\ Ready(i, st)) => Outranks(cur[n], i)
<1> DEFINE Best(m) ==
             /\ cur[m] \in Live
             /\ cur[m] = 0 \/ Ready(cur[m], st)
             /\ \A i \in Index :
                  i = 0 \/ (i < m /\ Ready(i, st)) => Outranks(cur[m], i)
           S == {m \in Nat : m <= MAX_TASK_NUM => Best(m)}
<1>1. /\ MAX_TASK_NUM \in Nat
      /\ \A i \in Index : i \in Nat /\ i < MAX_TASK_NUM
      /\ \A m \in Nat : m < MAX_TASK_NUM => m \in Index
      /\ Live \subseteq Index
      /\ \A i \in Index : Ready(i, st) => i \in Live
  BY SizesAssumption DEF Index, Live, Ready
<1>2. \A m \in 0 .. MAX_TASK_NUM : cur[m] = LoopBody(cur, m, st)
  <2> DEFINE Body(i) == LoopBody(cur, i, st)
  <2>1. cur = [i \in 0 .. MAX_TASK_NUM |-> Body(i)]
    OBVIOUS
  <2> HIDE DEF Body
  <2>2. \A m \in 0 .. MAX_TASK_NUM : cur[m] = Body(m)
    BY <2>1
  <2>3. QED
    BY <2>2 DEF Body
<1>3. 0 \in S
  <2>1. cur[0] = 0
    <3>1. 0 \in 0 .. MAX_TASK_NUM
      BY <1>1
    <3>2. QED
      BY <1>2, <3>1 DEF LoopBody
  <2>2. QED
    BY <1>1, <2>1, Ranking
<1>4. ASSUME NEW m \in S PROVE m + 1 \in S
  <2>0. m \in Nat /\ (m <= MAX_TASK_NUM => Best(m))
    OBVIOUS
  <2> SUFFICES ASSUME m + 1 <= MAX_TASK_NUM PROVE Best(m + 1)
    <3> HIDE DEF Best
    <3>1. QED
      BY <2>0
  <2>1. /\ m \in Nat /\ m \in Index /\ Best(m)
        /\ \A i \in Index : i < m + 1 => i < m \/ i = m
    <3> HIDE DEF Best
    <3>1. m < MAX_TASK_NUM
      BY <1>1, <2>0
    <3>2. QED
      BY <1>1, <2>0, <3>1
  <2>2. cur[m + 1] = IF Ready(m, st) /\ Outranks(m, cur[m]) THEN m ELSE cur[m]
    <3>1. m + 1 \in 0 .. MAX_TASK_NUM /\ m + 1 # 0 /\ (m + 1) - 1 = m
      <4> HIDE DEF Best
      <4>1. m \in Nat /\ MAX_TASK_NUM \in Nat
        BY <1>1, <2>0
      <4>2. QED
        BY <4>1
    <3>2. cur[m + 1] = LoopBody(cur, m + 1, st)
      BY <1>2, <3>1
    <3>3. QED
      BY <3>1, <3>2 DEF LoopBody
  <2>3. CASE Ready(m, st) /\ Outranks(m, cur[m])
    <3>1. cur[m + 1] = m /\ m \in Live
      BY <1>1, <2>1, <2>2, <2>3
    <3>2. ASSUME NEW i \in Index, i = 0 \/ (i < m + 1 /\ Ready(i, st))
          PROVE  Outranks(m, i)
      <4>1. i \in Live
        BY <1>1, <3>2, Ranking
      <4>2. CASE i = m
        BY <3>1, <4>2, Ranking
      <4>3. CASE i # m
        <5>1. Outranks(cur[m], i)
          BY <2>1, <3>2, <4>3
        <5>2. QED
          BY <2>1, <2>3, <3>1, <4>1, <5>1, Ranking
      <4>4. QED
        BY <4>2, <4>3
    <3>3. QED
      BY <2>3, <3>1, <3>2
  <2>4. CASE ~(Ready(m, st) /\ Outranks(m, cur[m]))
    <3>1. cur[m + 1] = cur[m]
      BY <2>2, <2>4
    <3>2. Ready(m, st) => Outranks(cur[m], m)
      BY <1>1, <2>1, <2>4, Ranking
    <3>3. QED
      BY <2>1, <3>1, <3>2
  <2>5. QED
    BY <2>3, <2>4
<1> HIDE DEF Best
<1>5. S = Nat
  <2> HIDE DEF S
  <2>1. S \subseteq Nat
    BY DEF S
  <2>2. QED
    BY <1>3, <1>4, <2>1, Induction
<1>6. Best(n)
  BY <1>1, <1>5
<1>7. QED
  BY <1>6 DEF Best

(* The loop of schedule() settles on the slot that Picks describes, and    *)
(* there is no other.                                                      *)
LEMMA LoopPicks ==
  ASSUME BaseInv, NEW st
  PROVE  /\ schedule(st) \in Index
         /\ \A next \in Index : Picks(next, st) <=> next = schedule(st)
<1> DEFINE Is(cur) == cur = [i \in 0 .. MAX_TASK_NUM |-> LoopBody(cur, i, st)]
           loop    == CHOOSE cur : Is(cur)
<1>1. Is(loop)
  <2>1. \E cur : Is(cur)
    BY LoopRuns, SizesAssumption
  <2> HIDE DEF Is
  <2>2. QED
    BY <2>1
<1>2. schedule(st) = loop[MAX_TASK_NUM]
  BY DEF schedule, LoopBody
<1> HIDE DEF loop
<1>3. /\ loop[MAX_TASK_NUM] \in Live
      /\ loop[MAX_TASK_NUM] = 0 \/ Ready(loop[MAX_TASK_NUM], st)
      /\ \A i \in Index : i = 0 \/ (i < MAX_TASK_NUM /\ Ready(i, st))
           => Outranks(loop[MAX_TASK_NUM], i)
  <2>1. MAX_TASK_NUM \in 0 .. MAX_TASK_NUM
    BY SizesAssumption
  <2>2. QED
    BY <1>1, <2>1, LoopInvariant
<1>4. Picks(schedule(st), st)
  BY <1>2, <1>3, SizesAssumption DEF Picks, Index
<1>5. ASSUME NEW a \in Index, Picks(a, st) PROVE a = schedule(st)
  <2>1. a \in Live /\ schedule(st) \in Live
    BY <1>2, <1>3, <1>5, Ranking DEF Picks, Ready, Live
  <2>2. Outranks(a, schedule(st)) /\ Outranks(schedule(st), a)
    BY <1>2, <1>3, <1>4, <1>5, <2>1 DEF Picks, Live
  <2>3. QED
    BY <2>1, <2>2, Ranking
<1>6. schedule(st) \in Index
  BY <1>2, <1>3 DEF Live
<1>7. QED
  BY <1>4, <1>5, <1>6

(* schedule() and its description agree, for any number of slots: the last *)
(* of the slots with the highest priority among the READY ones and slot 0. *)
THEOREM ScheduleIsPick == Spec => []PicksIsTheLoop
<1>1. BaseInv => PicksIsTheLoop
  BY LoopPicks DEF PicksIsTheLoop
<1>2. QED
  BY <1>1, BaseInvAlways, PTL

(* Whichever states the tasks are in, schedule() finds a task, and one     *)
(* only: Sleep(next) is never stuck and leaves no choice of next.  This is *)
(* what PromptReturns needs besides fairness.                              *)
THEOREM ScheduleFindsOne ==
  Spec => [](\A st \in [Process -> States] :
               \E next \in Index :
                 /\ Picks(next, st)
                 /\ \A other \in Index : Picks(other, st) => other = next)
<1>1. BaseInv =>
        \A st \in [Process -> States] :
          \E next \in Index :
            /\ Picks(next, st)
            /\ \A other \in Index : Picks(other, st) => other = next
  <2> SUFFICES ASSUME BaseInv, NEW st \in [Process -> States]
               PROVE  /\ schedule(st) \in Index
                      /\ Picks(schedule(st), st)
                      /\ \A other \in Index :
                           Picks(other, st) => other = schedule(st)
    OBVIOUS
  <2>1. QED
    BY LoopPicks
<1>2. QED
  BY <1>1, BaseInvAlways, PTL

(***************************************************************************)
(* The sleep queue as an abstraction                                       *)
(***************************************************************************)

(* What Chain is the least of, with slots and tasks identified.            *)
Closed(S) ==
  /\ QueHead # NULL => QueHead \in S
  /\ \A i \in Live : i \in S /\ Link(i) # NULL => Link(i) \in S

QueueIsChain ==
  /\ Tasks = Live
  /\ Chain \subseteq Sleepers /\ Sleepers \subseteq Live
  /\ current \in Live /\ current \notin Sleepers
  /\ Closed(Chain)
  /\ \A S \in SUBSET Live : Closed(S) => Chain \subseteq S

(* Where every waking is exact the chain consists of sleepers.             *)
LEMMA ChainOfSleepers == BaseInv /\ QueueInv => QueueIsChain
<1> SUFFICES ASSUME BaseInv, QueueInv PROVE QueueIsChain
  OBVIOUS
<1>1. /\ Tasks = Live
      /\ \A i \in Live : task_array[i] = i
  BY TasksAreNumbers
<1>2. Chain = {p \in Live : \A S \in SUBSET Live : Closed(S) => p \in S}
  BY <1>1 DEF Chain, Closed
<1>3. /\ QueHead # NULL => QueHead \in Sleepers
      /\ \A i \in Live : Link(i) # NULL => Link(i) \in Sleepers
  BY DEF QueueInv, WakesAreExact
<1>4. /\ Sleepers \subseteq Live
      /\ current \in Live /\ current \notin Sleepers
  BY Restated
<1>5. Closed(Sleepers)
  BY <1>3 DEF Closed
<1>6. Chain \subseteq Sleepers
  BY <1>2, <1>4, <1>5
<1>7. Closed(Chain)
  <2>1. QueHead # NULL => QueHead \in Chain
    BY <1>2, <1>3, <1>4 DEF Closed
  <2>2. ASSUME NEW i \in Live, i \in Chain, Link(i) # NULL
        PROVE  Link(i) \in Chain
    <3>1. Link(i) \in Live
      BY <1>3, <1>4, <2>2
    <3>2. ASSUME NEW S \in SUBSET Live, Closed(S) PROVE Link(i) \in S
      <4>1. i \in S
        BY <1>2, <2>2, <3>2
      <4>2. QED
        BY <2>2, <3>2, <4>1 DEF Closed
    <3>3. QED
      BY <1>2, <3>1, <3>2
  <2>3. QED
    BY <2>1, <2>2 DEF Closed
<1>8. \A S \in SUBSET Live : Closed(S) => Chain \subseteq S
  BY <1>2
<1>9. QED
  BY <1>1, <1>4, <1>6, <1>7, <1>8 DEF QueueIsChain

(* The same after a step.                                                  *)
LEMMA ChainOfSleepersNext == (BaseInv /\ QueueInv => QueueIsChain)'
BY ChainOfSleepers, PTL

(* The chain is kept by a step that keeps head and links; the task of a new*)
(* slot has no link and is in no chain.                                    *)
LEMMA ChainUntouched ==
  ASSUME QueueInv, QueueIsChain, QueueIsChain', QueHead' = QueHead,
         Live \subseteq Live',
         \A i \in Live : Link(i)' = Link(i),
         \A i \in Live' : i \notin Live => Link(i)' = NULL
  PROVE  Chain' = Chain
<1>1. PICK before, after : before = Chain /\ after = Chain' \cap Live
  OBVIOUS
<1>2. Closed(before)'
  BY <1>1 DEF QueueIsChain, Closed
<1>3. Chain' \subseteq Chain
  BY <1>1, <1>2 DEF QueueIsChain
<1>4. Closed(after)
  <2>1. /\ QueHead # NULL => QueHead \in Live
        /\ \A i \in Live : Link(i) # NULL => Link(i) \in Live
    BY DEF QueueInv, WakesAreExact, QueueIsChain
  <2>2. Closed(Chain)'
    BY DEF QueueIsChain
  <2>3. QED
    BY <1>1, <2>1, <2>2 DEF Closed
<1>5. Chain \subseteq Chain'
  BY <1>1, <1>4 DEF QueueIsChain
<1>6. QED
  BY <1>3, <1>5

(* The head and everybody behind it are released by forgetting the head.   *)
LEMMA ChainReleased ==
  ASSUME QueueIsChain', QueHead' = NULL, \A i \in Live' : Link(i)' = Link(i)
  PROVE  Chain' = {}
<1>1. Closed({})'
  BY DEF Closed
<1>2. QED
  BY <1>1 DEF QueueIsChain

(* The tail of sleep() uses up a link that was in no chain: its owner runs.*)
LEMMA ChainReturn ==
  ASSUME BaseInv, Contexts, QueueInv, QueueIsChain, QueueIsChain', SleepReturn
  PROVE  Chain' = Chain
<1>1. /\ Live' = Live /\ QueHead' = QueHead
      /\ \A i \in Live : Link(i)' = IF i = current THEN NULL ELSE Link(i)
  BY ReturnLinks DEF SleepReturn, Live
<1>2. current \notin Chain
  BY DEF QueueIsChain
<1>3. PICK before, others : before = Chain /\ others = Chain' \ {current}
  OBVIOUS
<1>4. Closed(before)'
  BY <1>1, <1>2, <1>3 DEF QueueIsChain, Closed
<1>5. Chain' \subseteq Chain
  BY <1>1, <1>3, <1>4 DEF QueueIsChain
<1>6. Closed(others)
  <2>1. /\ QueHead # NULL => QueHead # current
        /\ \A i \in Live : Link(i) # NULL => Link(i) # current
    BY DEF QueueInv, WakesAreExact, QueueIsChain
  <2>2. Closed(Chain)'
    BY DEF QueueIsChain
  <2>3. QED
    BY <1>1, <1>3, <2>1, <2>2 DEF Closed
<1>7. others \in SUBSET Live
  <2>1. Chain' \subseteq Live'
    BY DEF QueueIsChain
  <2>2. QED
    BY <1>1, <1>3, <2>1
<1>8. Chain \subseteq others
  BY <1>6, <1>7 DEF QueueIsChain
<1>9. QED
  BY <1>3, <1>5, <1>8

(* Falling asleep puts the running task, and nobody else, on the chain.    *)
LEMMA ChainSleep ==
  ASSUME BaseInv, Contexts, QueueInv, QueueIsChain, QueueIsChain',
         ~MirrorMayFail, NEW next \in Index, Sleep(next)
  PROVE  Chain' = Chain \cup ({current} \ {0})
<1> USE Numbers
<1>1. Live' = Live
  BY DEF Sleep, Live
<1>2. /\ Link(current) = NULL
      /\ \A i \in Live :
           Link(i)' = IF i = current
                        THEN IF current = 0 THEN NULL ELSE QueHead
                        ELSE Link(i)
  BY SleepLinks
<1>3. /\ current \in Live
      /\ pid[current] = 0 <=> current = 0
  BY DEF QueueIsChain, BaseInv, TypeOK, Allocation, Registers
<1>4. CASE current = 0
  <2>1. QueHead' = QueHead
    BY <1>3, <1>4 DEF Sleep, Enqueue
  <2>2. \A i \in Live : Link(i)' = Link(i)
    BY <1>2, <1>4
  <2>3. Chain' = Chain
    BY <1>1, <2>1, <2>2, ChainUntouched
  <2>4. QED
    BY <1>4, <2>3
<1>5. CASE current # 0
  <2>1. QueHead' = current /\ current # NULL
    BY <1>3, <1>5 DEF Sleep, Enqueue, BaseInv, TypeOK
  <2>2. \A i \in Live : Link(i)' = IF i = current THEN QueHead ELSE Link(i)
    BY <1>2, <1>5
  <2>3. PICK longer, now : longer = Chain \cup {current} /\ now = Chain'
    OBVIOUS
  <2>4. Closed(longer)' /\ longer \in SUBSET Live
    BY <1>1, <1>3, <2>1, <2>2, <2>3 DEF QueueIsChain, Closed
  <2>5. Chain' \subseteq longer
    BY <1>1, <2>4 DEF QueueIsChain
  <2>6. Closed(Chain)' /\ Chain' \subseteq Live'
    BY DEF QueueIsChain
  <2>7. current \in Chain'
    BY <2>1, <2>6 DEF Closed
  <2>8. Chain \subseteq Chain'
    <3>1. QueHead # NULL => QueHead \in now
      BY <1>1, <1>3, <2>2, <2>6, <2>7, <2>3 DEF Closed
    <3>2. ASSUME NEW i \in Live, i \in now, Link(i) # NULL PROVE Link(i) \in now
      <4>1. i # current /\ Link(i)' = Link(i)
        BY <1>2, <2>2, <3>2
      <4>2. QED
        BY <1>1, <2>6, <2>3, <3>2, <4>1 DEF Closed
    <3>3. Closed(now)
      BY <3>1, <3>2 DEF Closed
    <3>4. QED
      BY <1>1, <2>6, <2>3, <3>3 DEF QueueIsChain
  <2>9. QED
    BY <1>5, <2>3, <2>5, <2>7, <2>8
<1>6. QED
  BY <1>4, <1>5

(***************************************************************************)
(* The steps                                                               *)
(***************************************************************************)

LEMMA InitIsInit == Init => Queue!QueueInit
<1> SUFFICES ASSUME Init PROVE Queue!QueueInit
  OBVIOUS
<1>1. QueueIsChain
  BY IInvInit, ChainOfSleepers DEF IInv
<1>2. Tasks = {0} /\ Sleepers = {} /\ current = 0
  BY Numbers DEF Init, Tasks, Sleepers
<1>3. Chain = {}
  BY <1>1, <1>2 DEF QueueIsChain
<1>4. QED
  BY <1>2, <1>3 DEF Queue!QueueInit

LEMMA StepIsStep ==
  ASSUME ~MirrorMayFail
  PROVE  IInv /\ [Next]_vars => [Queue!QueueNext]_Queue!qvars
<1> SUFFICES ASSUME IInv, [Next]_vars PROVE [Queue!QueueNext]_Queue!qvars
  OBVIOUS
<1>1. BaseInv /\ Contexts /\ QueueInv /\ QueueIsChain
  BY ChainOfSleepers DEF IInv
<1>2. QueueIsChain'
  BY IInvStep, ChainOfSleepersNext DEF IInv
<1>3. ASSUME NEW index \in Index, NEW page \in Process, Fork(index, page)
      PROVE  Queue!Create(page)
  <2>1. /\ index = p_counter /\ page = p_counter
        /\ task_array[index] = NULL
        /\ task_array' = [task_array EXCEPT ![index] = page]
        /\ current' = current /\ QueHead' = QueHead
    BY <1>1, <1>3, FirstEmpty DEF Fork, EmptyTask
  <2>2. task_array \in [Index -> ProcessOrNull]
    BY <1>1 DEF BaseInv, TypeOK
  <2>3. Live' = Live \cup {page} /\ page \notin Live
    BY <2>1, <2>2, Numbers DEF Live
  <2>4. Tasks' = Tasks \cup {page} /\ page \notin Tasks
    BY <1>1, <1>2, <2>3 DEF QueueIsChain
  <2>5. Chain' = Chain
    BY <1>1, <1>2, <1>3, <2>1, <2>3, ForkLinks, ChainUntouched
  <2>6. QED
    BY <2>1, <2>4, <2>5 DEF Queue!Create
<1>4. ASSUME NEW next \in Index, Sleep(next) PROVE Queue!Yield(next)
  <2>1. Tasks' = Tasks
    BY <1>4 DEF Sleep, Tasks
  <2>2. current' = next
    BY <1>1, <1>4, SleepContexts
  <2>3. next \in Tasks /\ next \notin Chain'
    BY <1>2, <2>1, <2>2 DEF QueueIsChain
  <2>4. Chain' = Chain \cup ({current} \ {0})
    BY <1>1, <1>2, <1>4, ChainSleep
  <2>5. QED
    BY <2>1, <2>2, <2>3, <2>4 DEF Queue!Yield
<1>5. CASE SleepReturn
  <2>1. Chain' = Chain
    BY <1>1, <1>2, <1>5, ChainReturn
  <2>2. Tasks' = Tasks /\ current' = current
    BY <1>5 DEF SleepReturn, Tasks
  <2>3. QED
    BY <2>1, <2>2 DEF Queue!qvars
<1>6. CASE ChildReturn \/ WakeUp
  <2>1. UNCHANGED <<task_array, current>> /\ wake_up
    BY <1>6 DEF ChildReturn, WakeUp
  <2>2. QueHead' = NULL
    BY <2>1 DEF wake_up
  <2>3. Tasks' = Tasks /\ Live' = Live
    BY <2>1 DEF Tasks, Live
  <2>4. \A i \in Live : Link(i)' = Link(i)
    BY <1>1, <1>6, OtherLinks
  <2>5. Chain' = {}
    BY <1>2, <2>2, <2>3, <2>4, ChainReleased
  <2>6. QED
    BY <2>1, <2>3, <2>5 DEF Queue!QueueNext, Queue!WakeAll
<1>7. CASE ForkFails \/ Nice \/ Quit \/ UNCHANGED vars
  <2>1. UNCHANGED <<task_array, current, QueHead>>
    BY <1>7 DEF ForkFails, Nice, Quit, vars, pmVars
  <2>2. Tasks' = Tasks /\ Live' = Live
    BY <2>1 DEF Tasks, Live
  <2>3. \A i \in Live : Link(i)' = Link(i)
    BY <1>1, <1>7, OtherLinks
  <2>4. Chain' = Chain
    BY <1>1, <1>2, <2>1, <2>2, <2>3, ChainUntouched
  <2>5. QED
    BY <2>1, <2>2, <2>4 DEF Queue!qvars
<1>8. Index \subseteq Nat /\ (\A next \in Index : Sleep(next) => next \in Process)
  BY <1>1, Numbers, PickIsTask DEF Sleep
<1>9. QED
  BY <1>3, <1>4, <1>5, <1>6, <1>7, <1>8 DEF Next, Queue!QueueNext

(* Whatever is forked, renamed in priority, put to sleep and woken, through*)
(* whatever switches: a wake_up releases everyone who is on the queue, and *)
(* the scheduler gives the processor to no one who is.                     *)
THEOREM QueueIsImplemented ==
  ASSUME ~MirrorMayFail
  PROVE  Spec => ImplementsSleepQueue
<1>1. Init => Queue!QueueInit
  BY InitIsInit
<1>2. Init => IInv
  BY IInvInit
<1>3. IInv /\ [Next]_vars => IInv'
  BY IInvStep
<1>4. IInv /\ [Next]_vars => [Queue!QueueNext]_Queue!qvars
  BY StepIsStep
<1>5. QED
  BY <1>1, <1>2, <1>3, <1>4, PTL DEF Spec, ImplementsSleepQueue, Queue!QueueSpec

(***************************************************************************)
(* The release of the sleepers                                             *)
(***************************************************************************)

(* Forked once, a task is READY or asleep for good: none is ever DEAD.     *)
Alive ==
  \A p \in Process \ {0} : p < p_counter => state[p] \in {"READY", "WAITE"}

(* Every assignment to a task's state is one of the two.                   *)
LEMMA AliveStep == BaseInv /\ Alive /\ [Next]_vars => Alive'
<1> SUFFICES ASSUME BaseInv, Alive, [Next]_vars PROVE Alive'
  OBVIOUS
<1> USE Numbers DEF Alive
<1>1. state \in [Process -> States] /\ p_counter \in Nat
  BY DEF BaseInv, TypeOK
<1>2. ASSUME NEW index \in Index, NEW page \in Process, Fork(index, page)
      PROVE  Alive'
  <2>1. /\ page = p_counter /\ p_counter' = p_counter + 1
        /\ state' = [state EXCEPT ![page] = "READY"]
    BY <1>2, FirstEmpty DEF Fork, ProcessCopy
  <2>2. ASSUME NEW p \in Process \ {0}, p < p_counter'
        PROVE  p = page \/ p < p_counter
    BY <1>1, <2>1, <2>2
  <2>3. QED
    BY <1>1, <2>1, <2>2
<1>3. ASSUME NEW next \in Index, Sleep(next) PROVE Alive'
  BY <1>1, <1>3 DEF Sleep, Enqueue
<1>4. CASE SleepReturn
  BY <1>1, <1>4 DEF SleepReturn
<1>5. CASE ChildReturn \/ WakeUp
  BY <1>1, <1>5 DEF ChildReturn, WakeUp, wake_up
<1>6. CASE ForkFails \/ Nice \/ Quit \/ UNCHANGED vars
  BY <1>6 DEF ForkFails, Nice, Quit, vars, pmVars
<1>7. QED
  BY <1>2, <1>3, <1>4, <1>5, <1>6 DEF Next

(* If some task is released, some task is READY: a released sleeper is not *)
(* on the chain, so its waker is neither, and the group of all released    *)
(* sleepers has a waker outside the group.                                 *)
LEMMA ReleasedIsReady ==
  ASSUME IInv, Alive, at \in {"prompt", "toSleep"}, Released # {}
  PROVE  \E i \in Live \ {0, current} : state[i] = "READY"
<1> USE Numbers
<1>1. BaseInv /\ Contexts /\ QueueInv /\ QueueIsChain
  BY ChainOfSleepers DEF IInv
<1>2. /\ \A i \in Live : i \in Process /\ i < p_counter
      /\ \A i \in Live : state[i] = "WAITE" <=> i \in Sleepers
      /\ NULL \notin Live
  BY <1>1, TasksAreNumbers, Restated
<1>3. ASSUME NEW i \in Live \ {0}, i \notin Sleepers PROVE state[i] = "READY"
  BY <1>2, <1>3 DEF Alive
<1>4. PICK p \in Live \ {0, current} : p \notin Chain
  BY <1>1 DEF Released, QueueIsChain
<1>5. CASE p \notin Sleepers
  BY <1>3, <1>4, <1>5
<1>6. CASE p \in Sleepers
  <2>1. PICK group \in SUBSET Sleepers : group = Sleepers \ Chain
    OBVIOUS
  <2>2. PICK q \in group :
          QueHead = q \/ \E i \in Live : i \notin group /\ Link(i) = q
    BY <1>1, <1>4, <1>6, <2>1 DEF QueueInv, EveryGroupIsWoken
  <2>3. q \in Live /\ q # NULL /\ q \notin Chain
    BY <1>1, <1>2, <2>1 DEF QueueIsChain
  <2>4. QueHead # q
    BY <1>1, <2>3 DEF QueueIsChain, Closed
  <2>5. PICK i \in Live : i \notin group /\ Link(i) = q
    BY <2>2, <2>4
  <2>6. i \notin Sleepers
    BY <1>1, <2>1, <2>3, <2>5 DEF QueueIsChain, Closed
  <2>7. cur_task = current /\ Link(current) = NULL
    BY <1>1 DEF BaseInv, Registers, Link
  <2>8. i # 0
    BY <1>1, <2>3, <2>5, <2>7 DEF Link, Contexts
  <2>9. QED
    BY <1>3, <2>3, <2>5, <2>6, <2>7, <2>8
<1>7. QED
  BY <1>5, <1>6

(* Going to sleep releases nobody and takes no release back.               *)
LEMMA SleepKeepsReleases ==
  ASSUME IInv, IInv', ~MirrorMayFail, NEW next \in Index, Sleep(next)
  PROVE  /\ current' = next
         /\ Released' \subseteq Released
<1>1. BaseInv /\ Contexts /\ QueueInv /\ QueueIsChain
  BY ChainOfSleepers DEF IInv
<1>2. QueueIsChain'
  BY ChainOfSleepersNext DEF IInv
<1>3. current' = next
  BY <1>1, SleepContexts
<1>4. Tasks' = Tasks
  BY DEF Sleep, Tasks
<1>5. Chain' = Chain \cup ({current} \ {0})
  BY <1>1, <1>2, ChainSleep
<1>6. QED
  BY <1>3, <1>4, <1>5 DEF Released

(* The scheduler prefers any READY task to a task 0 that outranks nobody,  *)
(* and who is READY and does not run has been released.                    *)
LEMMA SleepServesReleased ==
  ASSUME IInv, IInv', Alive, ~MirrorMayFail, IdleIsLowest, Released # {},
         NEW next \in Index, Sleep(next)
  PROVE  current' \in Released \ Released'
<1> USE Numbers
<1>1. BaseInv /\ QueueIsChain
  BY ChainOfSleepers DEF IInv
<1>2. /\ state \in [Process -> States]
      /\ priority \in [Process -> Nat]
      /\ pid[current] = 0 <=> current = 0
      /\ current \in Process
  BY <1>1 DEF BaseInv, TypeOK, Allocation, Registers
<1>3. \A i \in Live : i \in Nat /\ i \in Process /\ i \in Index /\ task_array[i] = i
  BY <1>1, TasksAreNumbers DEF Live
<1>4. PICK i \in Live \ {0, current} : state[i] = "READY"
  BY ReleasedIsReady DEF Sleep
<1>5. Ready(i, state')
  BY <1>2, <1>3, <1>4 DEF Ready, Sleep, Enqueue, Live
<1>6. 0 \in Live
  BY <1>1 DEF BaseInv, TypeOK, Allocation, Live
<1>7. next # 0
  <2>1. priority[0] <= priority[i] /\ priority[0] \in Nat /\ priority[i] \in Nat
    BY <1>2, <1>3, <1>4, <1>6 DEF IdleIsLowest
  <2>2. ~Outranks(0, i)
    BY <1>3, <1>4, <1>6, <2>1 DEF Outranks
  <2>3. QED
    BY <1>3, <1>4, <1>5, <2>2 DEF Sleep, Picks
<1>8. next \in Live /\ state'[next] = "READY"
  BY <1>3, <1>7 DEF Sleep, Picks, Ready, Live
<1>9. next # current
  BY <1>2, <1>7, <1>8 DEF Sleep, Enqueue
<1>10. state[next] = "READY"
  BY <1>2, <1>3, <1>8, <1>9 DEF Sleep, Enqueue
<1>11. next \notin Sleepers
  BY <1>10 DEF Sleepers
<1>12. next \in Released
  BY <1>1, <1>7, <1>8, <1>9, <1>11 DEF Released, QueueIsChain
<1>13. current' = next
  BY SleepKeepsReleases
<1>14. QED
  BY <1>12, <1>13 DEF Released

(* The released tasks are served one by one, and no call of sleep() adds   *)
(* to them or sends one back unserved: the measure that decreases until    *)
(* the release is complete.                                                *)
THEOREM ReleasesAdvance ==
  ASSUME ~MirrorMayFail
  PROVE  Spec => ReleaseAdvances
<1> DEFINE Advances ==
      /\ SleepAgain \/ SleepReturn => Released' \subseteq Released
      /\ SleepAgain /\ IdleIsLowest =>
           Released = {} \/ current' \in Released \ Released'
<1>1. Init => IInv /\ Alive
  BY IInvInit, Numbers DEF Init, Alive
<1>2. IInv /\ Alive /\ [Next]_vars => (IInv /\ Alive)'
  BY IInvStep, AliveStep DEF IInv
<1>3. IInv /\ Alive /\ [Next]_vars => [Advances]_vars
  <2> SUFFICES ASSUME IInv, Alive, [Next]_vars PROVE Advances
    OBVIOUS
  <2>1. IInv'
    BY IInvStep
  <2>2. SleepAgain => Released' \subseteq Released
    BY <2>1, SleepKeepsReleases DEF SleepAgain
  <2>3. SleepAgain /\ IdleIsLowest =>
          Released = {} \/ current' \in Released \ Released'
    BY <2>1, SleepServesReleased DEF SleepAgain
  <2>4. ASSUME SleepReturn PROVE Released' = Released
    <3>1. QueueIsChain /\ QueueIsChain'
      BY <2>1, ChainOfSleepers, ChainOfSleepersNext DEF IInv
    <3>2. Chain' = Chain
      BY <2>4, <3>1, ChainReturn DEF IInv
    <3>3. Tasks' = Tasks /\ current' = current
      BY <2>4 DEF SleepReturn, Tasks
    <3>4. QED
      BY <3>2, <3>3 DEF Released
  <2>5. QED
    BY <2>2, <2>3, <2>4
<1>4. QED
  BY <1>1, <1>2, <1>3, PTL DEF Spec, ReleaseAdvances
=============================================================================
