# A TLA+ model of MutixOS

MutixOS is a small teaching kernel in C++ (`src/kernel`) that runs on a processor, a
memory and devices simulated in the same program (`src/rescue`).  This directory holds
TLA+ modules that model the parts of it that keep state, the TLC configurations that
check them on small instances, and proofs, for instances of any size, of every safety
property but one that the passing runs check and of the refinements of the two abstract
specifications.

## 1. Inventory

| component | state | operations | interacts with | modelled in |
|---|---|---|---|---|
| Process manager: `kernel/processmanage.cpp`, `kernel/process.cpp` | `task_array`, `process_memeory_map`, `p_counter`, `current`, the `Process` objects, the sleep queue | `fork_process`, `schedule`, `sleep`, `wake_up`, `switch_to`, `kill_process`, the command loop `do_first_task` | calls the processor to switch, the memory manager for a segment | `ProcessManage`, `SleepQueue` |
| Simulated processor: `rescue/mutixcpu.cpp` | registers, `cur_task`, `stack_mirror_arr`, `jmp_env` | `str`, `ltr`, `switch_to`, translation of addresses, decoding of descriptors and gates, delivery of traps, `push`, `pop` | reads the descriptor tables and page tables of the memory manager, the `tss` of a `Process` | `MutixCPU` (switching), `Descriptors` (decoding, traps), `Boot` (translation), `SystemCalls` (`push`, `pop`) |
| Memory manager: `kernel/memorymanage.cpp` | `page_dir`, page tables, `memory_map`, `gdt`, `ldt_array` | `MemoryManageInit`, `set_LDT_desc` (fork), `put_page`, `un_wp_page`, `on_process_die`, `copy_on_write`, `do_no_page` | called by fork and, in intention, by page faults | `MemoryManage` (paging), `VirtualMemory`, `AddressSpace` (contents), `Descriptors` (`gdt`, `ldt_array`), `Boot` |
| Booted kernel: `rescue/kernelrescue.cpp`, `rescue/main.cpp` | none of its own | boot in the order system calls, memory, processes | all of the above | `Boot` (the way there), `MutixOS` (from there on) |
| System call interface: `kernel/systemcall.cpp` | interrupt table, call table | `SystemCallInit`, `SetSystemCall`, `SetPageFaultTraps`, `on_system_call` | filled by the others; nothing raises a call | `SystemCalls`, `Descriptors` (interrupt table), `Boot` |
| Simulated memory: `rescue/mutixmemory.cpp` | one array | `get_address` | everybody | `Boot` (what it holds at first), `FlatMemory` |
| File system, IPC, devices, timer, I/O, `page.S` | none | empty bodies, or code nothing refers to | nobody | no |

### How the components interact

There is one thread of execution.  `do_first_task` reads a command from standard input
on behalf of whichever task runs.  A task gives up the processor only inside `sleep()`:
`schedule()` picks a slot, `ProcessManage::switch_to` sets `Process::current` and calls
`MutixCPU::switch_to`, which copies the live C++ stack into the outgoing task's mirror,
does `setjmp`, swaps the registers through the two `tss` structures, copies the incoming
task's mirror over the live stack and does `longjmp`.  A fork saves the running stack as
the child's without switching; the child starts by returning 0 from `fork_process`.
Fork is the only place where the process manager calls the memory manager.

### What is hard

* **Interleaving.** The sleep queue has a head and no next-pointers: the link to the next
  sleeper is the local variable `tmp` of a suspended call of `sleep()`.  The queue is
  therefore as intact as the stack mirrors, and a waking travels down the chain only as
  each woken task comes to run.
* **Who runs.** `Process::current`, `cur_task`, `tr` and the LDT register are set in
  different functions on both sides of a jump.
* **Limits.** Slots and pages run out separately; failing calls return codes their
  callers ignore; frames run out in the middle of an operation; segments wrap at 4 GB.
* **Ownership of frames.** A frame's count must match the places that use it, through
  sharing by fork, copies on write, failing forks and deaths.
* **Leftovers.** Frames are handed out uncleared, also to become page tables, and
  `memory_map` itself is never cleared.
* **Scattered fields.** Bases, limits and offsets are cut up over the two words of a
  descriptor by one component and put together by another.
* **Twofold returns.** A fork inside a system call returns twice, the second time in a
  task that never entered the call, on registers saved long before; which of the two
  returns it is shows in the value of a `longjmp` only.
* **Order of initialisation.** The components reach each other through static pointers,
  and the processor translates addresses before the first task runs.

The hazards are listed with their lines in `PROJECT.json`, each with the properties that
would catch it, or with the reason why none does.

### What makes each component correct

* Process manager: slots, pages, pids and fathers agree; every sleeper can still be
  woken, by exactly one waker; a wake-up releases everybody who sleeps at that moment and
  nobody later; the scheduler computes what it means to; every command ends.
* Processor: after every switch the registers belong to the task that runs, and every
  task that may be picked has a stack and a jump point of the same suspended call.
* Memory manager: counts equal uses; a mapped frame is never handed out; shared pages are
  read-only; tables are private and are never mapped; one task's faults, copies and death
  leave what another sees; the kernel stays mapped and, while a frame is free, is never made
  writable for a task.  All of it can be claimed only until a page table is made of a frame
  with leftover words, which may name any page; that no table is before the first death is a
  property too.
* Contents: each task has a space of its own, as if every fork had copied every page.
* Descriptors: the processor reads what the kernel wrote, whatever was forked in between.
* System calls: fork answers father and child rightly, the stack pointer comes back where
  it was, and a task wakes with the registers it slept with.
* Boot: nothing is used before it is set, and what comes out is the state from which the
  composition starts, but for what frames and `memory_map` held before.
* Composition: each task has a mapped segment of its own, where it was told it is.

## 2. The modules

* **`MutixCPU`** - the processor's variables and `LoadTask` (`str` and `ltr`),
  `SwitchContext` (`switch_to`) and `NewContext` (`switch_to(.., true)`).  A stack is
  represented by the one local that decides later behaviour, `tmp` of `sleep()`; a jump
  point by the place in the code it returns to.  Slots are 0, 1, 2, ... where the code
  uses selector indices 4, 6, 8, ...  `MirrorMayFail` says whether
  `new (std::nothrow)` may return NULL for a mirror.
* **`ProcessManage`** (extends `MutixCPU`) - one action per call made by `do_first_task`:
  `Fork`/`ForkFails`, `ChildReturn` (a child's first steps, which wake the queue), `Sleep`
  (up to the change of task), `SleepReturn` (what `sleep()` does after `schedule()`
  returns, in the task that then runs), `WakeUp`, `Nice`, `Quit`.  The variable `at` is
  the place the running code has reached.  Users type anything at any time.
* **`SleepQueue`** - the abstract specification: a set of sleepers, from which one
  wake-up releases all.  `ProcessManage!ImplementsSleepQueue` states the refinement: the
  abstract set is the chain of frames that starts at `QueHead`.
* **`MemoryManage`** - directory, tables (which live in the frames they map), counts and
  segments, with one action each for fork, `put_page`, `un_wp_page` (the copy on write)
  and `on_process_die`.  Linear
  addresses are directory index and table entry.  Every limit in the code is 0x9f, so a
  segment uses one directory entry; `SEG_DIRS` is the distance between two segments.
  A page that a task owns is filled with `Junk`, a word of data, which read as an entry could
  map any page in any way.  Frames are handed out as they are, so a new table keeps such words
  in the entries that it does not set (`KeepLeftovers`); `memory` is then `"stray"`, and as
  nothing can be said of what follows, no operation does.  Until then faults and copies meet
  entries only.  Two constants choose a setting: `Deaths`, whether
  `on_process_die` is called (its one call is commented out in `kill_process`), and
  `FlatMemory`, whether a physical address can be used as a pointer, which
  `free_page_tables` does without `get_address`: true on the machine the kernel is meant
  for, a wild access in the simulator.
* **`MutixOS`** - the process manager with the memory manager under it: `fork_process`
  as a whole, `find_process` included, and `start_code`.
* **`Descriptors`** - the descriptor tables as bytes: `set_base`, `set_limit`,
  `set_tssldt_desc`, `set_gate` on the kernel's side, `check_type`, `get_base_from_desc`,
  `get_limit_frome_desc`, `get_offset_from_gate` and the delivery of a trap on the
  processor's; the actions are what a fork does to the tables and `SetPageFaultTraps`.
  `gdt` and `ldt_array` are members that follow each other, so they are one array here, and
  an index past the first reaches the second (`EntriesFit` says that none has).  Addresses are
  constants: where the program's objects lie does not matter.
* **`AddressSpace`** - the abstract specification of what the memory manager promises:
  tasks with pages of their own, where a fork copies and a write is seen by its writer only.
* **`VirtualMemory`** (extends `MemoryManage`) - the same operations with what the frames
  hold, the page fault handlers `do_no_page` and `copy_on_write` in front of them, and
  tasks that write.  `ImplementsAddressSpace` is the refinement: what a task sees through
  its table is its abstract space.  `WriteFault` calls `un_wp_page` with the entry it is
  meant for; `FaultSpec` has the handler as it stands: `copy_on_write` is all that handler and
  `un_wp_page` do when a word of a data page is taken for an entry, whatever page it names,
  the counts (8 bits wide) included.
* **`Boot`** - the constructor of `KernelRescue`: one step per `Init` function and per
  turn of the loop that maps the kernel, then the loads of the first task.  Its last
  property maps the result into `MutixOS` and claims `OSInit`: the states in which the
  other models start are what the boot produces.  `DirtyFrames` are the frames whose words
  (`LeftWords`), and whose entries of `memory_map`, may be anything when the memory is
  allocated.
* **`SystemCalls`** - the registers, `push` and `pop`, the call table and
  `on_system_call`, with the `tss` in which registers wait.  What fork answers is computed as
  in the code: `var` is what the `setjmp` in `switch_to` returned last, 0 or what the
  `longjmp` delivered (`Delivered`: the outgoing task's `cur_task`), `switch_to` compares it
  with the `cur_task` of the task that runs, and `ForkResult` is the end of `fork_process`.
  Pops may find `Garbage`, words that memory held before any call.  It is about the machine
  the kernel is for: in the simulator `push` uses a physical address as a host pointer.
* **`MC...`** - the modules TLC is run on; they extend the others and define what a
  configuration cannot write.  All constants get their values in the configurations.
* **`ProcessManage_proof`**, **`MemoryManage_proof`**, **`FrameCounts_proof`**,
  **`VirtualMemory_proof`**, **`Descriptors_proof`**, **`SystemCalls_proof`**,
  **`MutixOS_proof`**, **`Boot_proof`** - the theorems of section 5.

Operators whose name continues another's after an underscore (`Picks_FirstWins`) are
deliberately wrong variants of it, kept to show that the properties notice them; no
specification uses them.

Modelling decisions worth knowing:

* The repository has no build file; its `unsigned long` descriptors, page tables and
  casts of addresses are those of a 32-bit program, and words have 32 bits here.
* The simulated memory comes from `new char[]` of 8 MB.  Allocators serve such a block
  from fresh pages, which are zero, and the models of what comes after the boot take it so.
  `Boot` does not, where nobody clears it: the frames, and `memory_map`, on which the `memset`
  of `MemoryManageInit` (line 97), with length and value exchanged, has no effect.
* Addresses are translated without a look at the present bit; what has no entry is found
  on page 0.
* Every `tss` is made by `ProcessInit` with `esp` 0 and `fs` 0x17, so calls push from the
  same two places for every task; these are the only words `SystemCalls` keeps.
* `end_data` is assigned nowhere, so `do_no_page` puts a page wherever one is absent.
* `restore_stack` writes over the live stack from below the frame it returns to; the model
  takes it that the frames it needs survive, as they do in the compiled program.  In
  particular `prev_task`, a local read after it for the `longjmp`, is taken to keep its value;
  `ForkAnswers` depends on that.
* When a mirror is missing, `switch_to` prints an error and jumps all the same, on the
  stack of the outgoing call.  If both calls were suspended in `sleep()` their frames
  coincide and the incoming task merely has the other's `tmp`; a child that was suspended
  in `fork_process` has no such frame, and the place is called `wild`.
* The three commands that print tables are left out.

## 3. The runs

| run | instance | checks | result |
|---|---|---|---|
| `pm_core` | 5 slots, 4 pages, priorities 1/2, raised to 3 at most, with fairness | `TypeOK`, `TaskTableConsistent`, `CpuFollowsCurrent`, `ResumeSafe`, `NoLostSleeper`, `WakesAreExact`, `PicksIsTheLoop`, `ForkYields`, the refinement `ImplementsSleepQueue`, the liveness of `PromptReturns` and `ReleaseIsComplete`, and the step behind it, `ReleaseAdvances` | passes, 21718 states |
| `mm_core` | 4 tasks, 6 frames, tables of 2 entries, deaths | `MMTypeOK`, `CountsMatch`, `SharedIsReadOnly`, `TablesAreClean`, `NoEarlyReuse`, `OnlyUnusedAreLost`, `TablesArePrivate`, `KernelStaysMapped`, `OneTaskAtATime`, `KernelStaysReadOnly` | passes, 312297 states |
| `vm_core` | 3 tasks, 10 frames, 2 values | the refinement `ImplementsAddressSpace`, `ManagerKeepsContents` | passes, 86083 states |
| `ds_core` | 5 slots, a `gdt` of 10 entries, 4 addresses, 4 interrupt vectors | `DescTypeOK`, `TasksAreFound`, `SegmentsAreInPlace`, `GatesLeadToHandlers`, `ForksKeepDescriptors` | passes, 11940 states |
| `os_core` | 4 tasks, 4 segments in 4 directory entries, 4 frames, mirrors may fail | `OSTypeOK`, `EveryTaskIsMapped` | passes, 110062 states |
| `boot_core` | the code's sizes but for the frames, of which there are 4; words and counts of two of them clean or dirty | `BootTypeOK`, `NothingIsUsedBeforeItExists`, `KernelMapsOntoItself`, `FirstTaskIsLoaded`, `BootLeavesOSInit` | passes, 6624 states |
| `sc_core` | 3 tasks, 2 values, fork and a refused call | `SCTypeOK`, `ForkAnswers`, `StackIsBalanced`, `WakesAsItSlept` | passes, 2483698 states |
| `os_wrap` | 4 tasks, 3 segments in 6 directory entries | `SegmentsAreFree` | violated |
| `vm_cow` | `vm_core` with 8 frames and `copy_on_write` | `WriteFaultsAreServed` | violated |
| `ds_rights` | `ds_core` | `SegmentsHaveRights` | violated |
| `ds_traps` | `ds_core` | `TrapsReachHandlers` | violated |
| `sc_calls` | `sc_core` with numbers of each kind | `CallsAreTransparent` | violated |

**Bounds.** Four tasks are the least with which a chain of sleepers has a head, a middle
and an end while task 0, which never queues, stands apart.  `pm_core` has one slot more
than pages, so that a fork fails with a slot in hand, and `os_core` has as many, so that the
search for a slot fails first.  Priorities matter only by comparison: task 0's, a child's,
and one step above give every order of two tasks and ties; `PriorityBound` stops the N
command there.  In the memory runs a table has one entry that maps the kernel and that
children inherit, and one that is free; six frames for four tasks, which could use eight,
run out in a fork and in a page fault, before and after the table is taken.  `vm_core` is
about contents where frames do not run out: three tasks can use eight, so two of its ten
are always left, which is what the theorem about it asks for;
two values tell a write from its absence.  `boot_core` has the real sizes because the
boot is a single behaviour per choice of dirty frames and of their words; frames beyond the
first few are not touched, frame 0 is the one the first table goes to, and frame 3 stands for
the rest.  In `sc_core` the two values are the selector that tasks start with and 0, and the
one unknown word (`Garbage`) is neither, so that a pop which finds it is seen, and an address
made with it is wild.  Of the five slots of `ds_core` two have entries past the end of the
`gdt`, as slots 126 and 127 have in the code: one overwrites task 0's code segment, the
other its data segment.  The addresses of the descriptor runs
differ in every byte, mixed by halves, so that no two bytes can be exchanged or left out
unnoticed; the vectors are one of each kind of gate, with and without privilege 3, and the
page fault's.  `os_wrap` has as many slots per segment of address space as makes the last
slot wrap, as slot 64 of 255 does in the code.

**Violations.** Five runs show where the code departs from what it says of itself:

* `os_wrap`: slot 64 gets task 0's segment.  Its fork finds a table there, fails and frees
  it, in the simulator through a wild pointer.
* `vm_cow`: `copy_on_write` hands `un_wp_page` the value of an entry for its address; a
  word of the page is overwritten and the fault is not served.
* `ds_rights`: a forked task's code and data descriptors have access byte 0, since only
  base and limit are set in an array of zeros; the processor takes them for absent.
* `ds_traps`: `deal_with_trap` tests the gate for a code segment where it means the
  segment's descriptor, and never calls a handler.
* `sc_calls`: `push` stores and then counts up, `pop` reads before it counts down, so every
  register comes back with the word beside its own, or none's.

**Limits that properties name.** Some properties hold under a condition that they state,
and the condition is where the code gives way:

* `NoLostSleeper` and what depends on it need mirrors: a failed allocation in
  `MutixCPU::switch_to` loses the sleeper behind the task that was switched out.  Mirrors
  are never freed, so the allocation does fail in the end.  The proofs name the assumption
  `~MirrorMayFail`.
* `KernelStaysReadOnly` needs a free frame: without one `put_page` and `un_wp_page` map
  physical page 0, writable.
* The properties of the memory manager hold while `memory` is `"up"`.  `get_free_page` does
  not clear a page, contrary to the assembly kept under it, so once a task has died a table
  may be made of a frame with words of its data.  `un_wp_page` and `free_page_tables` take
  them for entries: a page they name may become writable for two tasks, or lose its last
  count while it is mapped.  `TablesAreClean` shows that this needs a death.
* `CountsMatch` holds until the first death; after it `put_page` can lose a frame, once per
  call, and `OnlyUnusedAreLost` shows that it is all that is lost.
* `SegmentsAreInPlace`, and `ForksKeepDescriptors` of segments, hold while all entries lie in
  the `gdt` (`EntriesFit`), as those of the code's first 126 slots do.
* `BootLeavesOSInit` claims `OSInit` where frames and `memory_map` were zero before the boot,
  and the process manager's part of it anyhow.
* `StackIsBalanced` says nothing of a child that returns from its father's call: it pops
  six words that it never pushed (`CallsAreTransparent` covers it).

`CHECK_DEADLOCK FALSE` stands where the system may stop: in the memory runs frames and
slots run out, the boot ends, and nothing follows a wild access.  The process manager never
stops except at `halted`, which has a step of its own.

## 4. Fairness

`LiveSpec`, the specification of `pm_core`, assumes weak fairness of the kernel's own continuation only: `ChildReturn`,
the call of `sleep()` that follows a fork, and `SleepReturn`.  They are the next
instructions of the one thread that runs, so they happen.  Commands are never owed:
`ReleaseIsComplete` says in its premise that the user goes on putting tasks to sleep, that
nothing else is done, and that task 0 does not outrank the rest.  The last is needed:
`schedule()` starts from task 0 whatever its state, so a task 0 whose priority was raised
starves everybody.

## 5. What is proved

`ProcessManage_proof` proves with TLAPS, for all sizes of the slot table and of the page
pool, all priorities and all behaviours:

* `TypeCorrectness`, `RegistersFollowCurrent`, `TableStaysConsistent`: `TypeOK`,
  `CpuFollowsCurrent` and `TaskTableConsistent` are invariants, even when mirrors fail;
* `ResumptionIsSafe`, `SleepersAreNeverLost`, `WakingsAreExact`, `ForksYield`: `ResumeSafe`,
  `NoLostSleeper`, `WakesAreExact` and `ForkYields` are invariants if mirrors do not fail;
* `ReleasesAdvance`: `ReleaseAdvances` holds if mirrors do not fail: as long as task 0
  outranks nobody, every `sleep()` serves one of the released tasks and takes no other back;
* `QueueIsImplemented`: the refinement `ImplementsSleepQueue` holds if mirrors do not fail;
* `ScheduleIsPick`: `PicksIsTheLoop` is an invariant, so the loop of `schedule()` finds the
  slot that the actions take it to find, however many slots it passes;
* `ScheduleFindsOne`: whatever states the tasks are in there is exactly one such slot, so
  the call of `sleep()` is never stuck and `Sleep(next)` leaves no choice.

`MemoryManage_proof` proves, for all numbers of tasks, frames, entries and kernel pages,
with deaths or without, on a flat memory or not:

* `TypeCorrectness`, `FramesAreNotReused`, `TablesStayPrivate`,
  `SharedFramesAreReadOnly`: `MMTypeOK`, `NoEarlyReuse`, `TablesArePrivate` and
  `SharedIsReadOnly` are invariants, the last three of what happens before a table holds
  leftover words, as they say themselves;
* `StepsRemapOneTask`: `OneTaskAtATime` holds, up to and including the step that leaves them;
* `KernelSurvives`: `KernelStaysMapped` holds as long as only slots whose segment lies in
  the directory were used (`SegmentsInRange`).  With the code's numbers these are slots 0
  to 63; `os_wrap` shows the fork after them.

`FrameCounts_proof` proves, for the same instances:

* `CountsAreExact`, `TablesStayClean`: `CountsMatch` and `TablesAreClean` hold as long as
  `SegmentsInRange` does;
* `KernelStaysProtected`: `KernelStaysReadOnly` holds, without a condition on slots or deaths;
  its own premise excludes the steps that find no frame or make a table of leftovers.

`VirtualMemory_proof` proves, for the same sizes and all values in pages, two theorems under
two conditions on the behaviour: `SegmentsInRange`, and `FramesLeft`, that two frames are
free in every state, the most that one call of `put_page` takes.

* `CopyOnWriteIsCopying`: the refinement `ImplementsAddressSpace` holds;
* `OnlyWritesWrite`: `ManagerKeepsContents` holds.

Both conditions are needed by the code: without a free frame tasks are given physical page 0,
and from slot 64 on segments coincide (`os_wrap`).

`Descriptors_proof` proves, for all addresses and all numbers of tasks:

* `DescriptorTypes`, `GatesStayBound`, `TasksStayFound`: `DescTypeOK`,
  `GatesLeadToHandlers` and `TasksAreFound` are invariants, also where the entries of late
  slots run past the end of `gdt`;
* `SegmentsStayInPlace`, `ForksAreApart`: `SegmentsAreInPlace` is an invariant, and
  `ForksKeepDescriptors` holds.  No assumption relates the number of slots to that of entries:
  what is said of segments says itself until when (`EntriesFit`), for the code's 255 slots and
  256 entries until the 127th task.

`SystemCalls_proof` proves, for all numbers of tasks, values in registers and call numbers:

* `TypeCorrectness`, `TasksWakeAsTheySlept`, `StackStaysBalanced`, `ForkAnswersBoth`:
  `SCTypeOK` is an invariant, and `WakesAsItSlept`, `StackIsBalanced` and `ForkAnswers`
  hold of every step, though `CallsAreTransparent` does not (`sc_calls`).  That registers hold
  what tasks put there or memory held says that a kernel's selector is never left in one.

`MutixOS_proof` proves, for all sizes of all tables, of the composed system:

* `SystemIsProcessManage`, `SystemIsMemoryManage`: its behaviours are behaviours of
  `ProcessManage` and, without deaths, of `MemoryManage`, so whatever is proved of either
  holds in it;
* `SystemTypes`: `OSTypeOK` is an invariant, even when mirrors or frames fail and segments
  wrap;
* `TasksStayMapped`, `ForksAreHarmless`: `EveryTaskIsMapped` holds, and no wild pointer is
  followed, as long as the slots in use have their segments in the directory
  (`SegmentsInRange`), if there are as many frames as slots (`FramesSuffice`; the code has
  1643 and 255);
* `SegmentsAreFreeWithRoom`: what `SegmentsAreFree` says, which `os_wrap` violates, holds if
  frames suffice of every fork into a slot whose segment lies in the directory, however many
  slots there are: of the code's 255, the first 64.

`Boot_proof` proves, for all sizes of kernel, tables and frames and every place of the
first task in the kernel:

* `BootTypes`: `BootTypeOK` is an invariant, whatever frames and `memory_map` contained;
* `BootUsesWhatExists`, `BootMapsTheKernel`, `BootLoadsFirstTask`, `BootEndsInOSInit`:
  `NothingIsUsedBeforeItExists`, `KernelMapsOntoItself`, `FirstTaskIsLoaded` and
  `BootLeavesOSInit` are invariants if `memory_map` is zero somewhere (`FrameForTable`):
  otherwise `write_page_table` finds no frame for the kernel's table, which nobody notices;
* `CleanMemoryBoots`: with clean frames and counts the boot does end in `MutixOS`'s `OSInit`.

The constants' assumptions are those of the modules (`MemoryAssumption`, `PageAssumption`
and so on), which TLC evaluates in every run.

*The argument for processes.* Slots and pages are handed out in step and never given back, so slot,
page and pid of a task are one number and the tasks are the numbers below `p_counter`
(`Allocation`); `FirstEmpty` shows that both searches find that number.  With it come
`Registers` (the processor's registers name `current`), `TaskStates` and `Fathers`;
together with the types they make `BaseInv`, inductive whatever the allocator does
(`BaseInvStep`).  It is needed because each property alone says too little to survive a
step: `CpuFollowsCurrent`, for instance, needs the saved LDT of the task that is about to
run.  `Contexts` adds that every task that does not run has a mirror and an open call,
and that task 0 holds no link; it needs `~MirrorMayFail`.  The sleep queue's invariant
joins `EveryGroupIsWoken` (`NoLostSleeper` in terms of the numbers) with `WakesAreExact`:
neither is inductive alone, since a waking keeps the rest of the chain attached only if
no other frame names the task that is woken.  `IInv` is their conjunction, checked with
TLC before it was proved.

*The argument for the queue.* The abstract set is the chain of frames that starts at
`QueHead`.  The proof takes the chain as the least set that holds the head and is closed
under the links, so that no induction along the links is needed: to show that a step leaves
it alone, show that it is closed before and after.  Wakings are exact, so the chain consists
of sleepers and no task that returns from `sleep()` is on it; a step then keeps the chain,
adds the running task in front, or empties it, which are the abstract queue's three steps.

*The argument for the release.* `wake_up` marks only the head READY; the others are marked
by the task in front of them when it runs, so `ReleaseAdvances` has to show that a runnable
task is left at all.  The released tasks that still sleep are a set of sleepers, so by
`EveryGroupIsWoken` one of them is named by `QueHead` or by a task outside the set.  It is
not on the chain, so neither is the task that names it, which is then awake: it is READY,
for no task but 0 is ever DEAD (`Alive`), and it is neither the running task, which has no
link at that point, nor task 0, which never has one (`ReleasedIsReady`).  The scheduler
prefers it to task 0, and whomever it picks is off the chain (`SleepServesReleased`).

*The argument for the scheduler.* The loop is a recursive function, so first `LoopRuns`
shows that there is a function that satisfies the recursion, by induction over the number of
passes, and `LoopInvariant` that after each pass `cur` is the best of the slots seen and of
slot 0.  That the order of slots is total and transitive (`Ranking`) rests on the types and
on slot 0 being in use, hence on `BaseInv`.  The library states induction for operators,
which the provers here cannot apply; `Induction` states it for sets of numbers, and follows
from the library's theorem that every set of numbers has a least element
(`NatLessThanWellFounded`, `WFMin`).

*The argument for descriptors.* Three lemmas say that reading inverts writing
(`SystemDescriptor`, `SegmentDescriptor`, `Gate`); the second is where the shared fields
matter, `16 * (x \div 16) + y % 16` keeping rights and limit apart.  `PlacesAreApart` and
`SegmentsAreApart` show which places of two tasks can be one, `DescribeEffect` what a fork
writes.  The limit needs an invariant because it is copied from
parent to child: `DescInv`, the conjunction of the properties and of `SlotsInOrder`, that
slots are used from 0 on.  It is the order that saves the entries past the end of the `gdt`:
they lie in the LDTs of much earlier tasks, whose segments are written already.  The types need none of it:
every slot's entries lie in `gdt` or `ldt_array` (`PlacesExist`), though not in the part
meant for them, and what is written there is a descriptor whatever it overwrites
(`WrittenDescriptor`).

*The argument for memory.* The two kinds of use of a frame are two finite sets, the
directory entries that have it as a table (`AsTable`) and the table entries that map it
(`AsPage`); `NoEarlyReuse` bounds the sum of their sizes by the count.  From the bound
follow the two facts that everything else needs (`UsesAreCounted`): a frame whose count is 0
is used nowhere, so what `get_free_page` finds is fresh, and a frame whose count is 1 is
mapped in one place only, so `un_wp_page` may make it writable.  Each operation then adds to
or takes from the two sets no more than it adds to or takes from the count.  The inductive
invariant `IInv` needs one more part, `OnlyTablesPoint`: a frame that is no table holds
absent entries and words of data only, so that what a new table keeps of what its frame held
is nothing, or leaves `memory` at `"stray"`, where the claims end.  The kernel's own map needs that no directory
entry but its own leads to its table (`TablesArePrivate`) and that no segment in range
starts at directory entry 0 (`SegmentsAreDirs`).

*The argument for exact counts.* The bounds become equations (`Exact`) once it is known that
`put_page` never takes a page and then finds no frame for the table, which would leave the
page taken and used nowhere; nothing in `put_page` prevents it.  What does is history
(`AllInUse`): a task has no table only because its fork, or the fork it descends from, found
no frame, and until a task dies none comes back.  `History` adds that segments in range are
free when they are given out (`Bases`, `TablesInUse`), so that no fork frees a table of
another, and that neither tables nor free frames hold data (`NoData`).  It is inductive
under `Orderly`, in-range slots and no deaths; it was checked with TLC on the instance of
`mm_core` before it was proved.  For the kernel's pages it is enough that only tables have
entries for them (`KernelInTables`), so that a table taken by `put_page` has none left over.

*The argument for contents.* What a task sees is the data of the frames its table maps.
Two lemmas carry the refinement: a free frame is in nobody's map (`FreeIsUnmapped`), so
filling one is invisible, and a writable frame is mapped once (`WritableIsOwn`), so a write
is seen by the writer only; both follow from the counts and from `SharedIsReadOnly`.  The
invariant `VInv` adds three parts to `IInv`: unused frames are as they were at first
(`Clean`), as nothing is given back; segments are where their slots say (`Bases`); and only
the segments of tasks have tables (`TablesInUse`), so a fork finds none in the child's.

*The argument for system calls.* `PushAll` and `PopAll` follow the six pushes and pops one
register at a time: whatever words they meet, `esp` goes up by six and down by six, `eax`
is kept, and the other registers hold words (`Popped`).  With the two lemmas on the returns
of father and child the rest is `IInv`: slots not yet given away have nothing pending,
what a sleeper fell asleep with is in its `tss`, and while the running task has a return
pending, `var` is neither 0 nor its own entry.  For a child only runs after a switch, which
delivers the entry of a task that was another, and a return that is pending is the first
thing it does.  A fork keeps that because it writes the
`tss` of the next free slot only, and a switch because it stores into the `tss` of the task
that falls asleep.

*The argument for the composition.* A fork of the process manager uses the next free slot,
which is also the next free page and pid (`Allocation`), so the slot has no segment and its
father has one: that is all `MemoryManage` asks of a call.  The slot's segment, in turn,
starts beyond those of all earlier slots while its number times `SEG_DIRS` is less than
`PAGE_DIR_SIZE`, so there is no table in it (`SegmentsAreApart`, `NextSegmentIsFree`), and
`ldt_copy_mem` neither fails for that reason nor frees anything.  It fails for want of a
frame only.  As nobody maps other pages here (`OnlyKernelPages`) and no two segments share
a table (`TablesCounted`), every fork takes one frame, the next; with as many frames as
slots one is left for the last of them.  `Mapped`, the statement for the slots
below `p_counter`, is inductive together with `BaseInv` and these, under `SegmentsInRange`;
TLC checked the conjunction on instances in and out of range before it was proved.

*The argument for the boot.* The constructor has no branches, so how far it has come
(`pc`) says what everything but the frames holds (`Straight`).  For the frames, `OneTable`
says that there is one table, in the first frame that was free, and that its first `i`
entries map pages onto themselves.  The two need each other in one place: `ltr` finds the
`tss` because page `FirstProcess` has been mapped.  In the end the frames below the table's
are all in use; if the table's is the only one in use it is frame 0, as `MMInit` says
(`EndIsOSInit`).  The process manager's part of `OSInit` needs no such condition
(`EndIsInit`).

Model-checked only: `OnlyUnusedAreLost`, and liveness (`PromptReturns`,
`ReleaseIsComplete`), which, like whatever needs ENABLED, is out of the prover's reach.  `ReleaseAdvances` is the safety half of
`ReleaseIsComplete`: a set of released tasks that shrinks with every `sleep()`.  What TLC
adds is that only finitely many children wake the queue on their first run.

## 6. Not modelled

* `kill_process`: called from nowhere; it deletes a pointer that is no heap pointer.
* `switch_to_first_task` and `deal_with_task`: nothing calls the one, and no gate is a
  task gate.
* The bounds test of `get_address`: kernel and frames make up the simulated memory exactly,
  so no physical page that occurs is outside.
* `get_empty_page` and `find_wapped_out`, the file system, IPC, the devices, the timer and
  the handlers other than `on_system_call`: empty bodies, without state.
* `page.S`: no table refers to it.
* The Show functions and the commands T, M and P, which only print.

## 7. Plan

Done: the process manager with its abstract queue, the task switch, the memory manager with
its abstract address spaces and the fault handlers, descriptors and traps, system calls,
the boot and the booted composition; the proofs of section 5: all safety properties that
passing runs check but `OnlyUnusedAreLost`, and both refinements.  Left:

* `OnlyUnusedAreLost` as a theorem: with `NoEarlyReuse` the counts are bounded from below for
  all sizes, this would bound them from above.
* `SleepersAreNeverLost` where mirrors do fail: which sleeper is lost, and that no other is.
