------------------------------ MODULE MutixOS ------------------------------
(***************************************************************************)
(* The process manager on top of the memory manager, as the booted system  *)
(* runs: fork_process is the one place where PM calls MM, to give the child*)
(* a segment; nothing calls put_page or on_process_die.                    *)
(***************************************************************************)
EXTENDS ProcessManage

CONSTANTS PAGE_DIR_SIZE, SEG_DIRS, PAGE_TABLE_SIZE, KERNEL_PAGES, COPY_PAGES,
          PAGING_PAGES, Kernel, Junk, FlatMemory

ASSUME MemorySizes ==
  /\ PAGE_DIR_SIZE \in Nat \ {0}
  /\ SEG_DIRS \in Nat \ {0}
  /\ PAGING_PAGES \in Nat \ {0}
  /\ PAGE_TABLE_SIZE \in Nat /\ KERNEL_PAGES \in Nat /\ COPY_PAGES \in Nat
  /\ COPY_PAGES <= KERNEL_PAGES /\ KERNEL_PAGES <= PAGE_TABLE_SIZE
  /\ Kernel \notin Nat /\ Junk \notin Nat
  /\ Kernel # NULL /\ Junk # NULL /\ Junk # Kernel
  /\ FlatMemory \in BOOLEAN

VARIABLES
  page_dir, content, memory_map, ldt_base, memory, gone,   \* MemoryManage's
  start_code       \* Process -> the directory entry its code starts at

MM == INSTANCE MemoryManage WITH Deaths <- FALSE

memVars == <<page_dir, content, memory_map, ldt_base, memory, gone, start_code>>

osVars == <<vars, memVars>>

OSTypeOK ==
  /\ TypeOK
  /\ MM!MMTypeOK
  /\ start_code \in [Process -> MM!Dir]

OSInit ==
  /\ Init
  /\ MM!MMInit
  /\ start_code = [p \in Process |-> 0]

(* find_process(pid): the first slot whose task has it.                    *)
FindProcess(slot, p) ==
  /\ slot \in Live
  /\ pid[task_array[slot]] = p
  /\ \A i \in Live : pid[task_array[i]] = p => slot <= i

(* A mutant of StartCode: the start is given in bytes.                     *)
StartCode_Bytes(index, from) == MM!SegmentOf(index) * 4096

(* ldt_copy_mem returns the segment's start, or 0 when it could not copy;  *)
(* fork_process stores the one as well as the other.                       *)
StartCode(index, from) ==
  IF \/ page_dir[MM!SegmentOf(index)] # NULL
     \/ page_dir[ldt_base[from]] # NULL /\ MM!FreeFrame(memory_map) = NULL
    THEN 0
    ELSE MM!SegmentOf(index)

(* The whole of fork_process.                                              *)
ForkProcess(index, page) ==
  /\ Fork(index, page)
  /\ \E from \in Index :
       /\ FindProcess(from, pid[current])
       /\ MM!ForkSegment(index, from)
       /\ start_code' = [start_code EXCEPT ![page] = StartCode(index, from)]

Others ==
  /\ \/ ForkFails
     \/ ChildReturn
     \/ \E next \in Index : Sleep(next)
     \/ SleepReturn
     \/ WakeUp
     \/ Nice
     \/ Quit
  /\ UNCHANGED memVars

(* A wild pointer ends the simulator, and a table of leftover words would  *)
(* end what the model knows.                                               *)
OSNext ==
  \/ /\ memory = "up"
     /\ \/ \E index \in Index, page \in Process : ForkProcess(index, page)
        \/ Others
  \/ (Stopped \/ memory # "up") /\ UNCHANGED osVars

OSSpec == OSInit /\ [][OSNext]_osVars

(***************************************************************************)
(* Properties                                                              *)
(***************************************************************************)

(* A task that exists has memory of its own: its segment is mapped, starts *)
(* where the task was told it starts, and is no other task's.              *)
EveryTaskIsMapped ==
  \A i \in Live :
    /\ ldt_base[i] # NULL
    /\ page_dir[ldt_base[i]] # NULL
    /\ start_code[task_array[i]] = ldt_base[i]
    /\ \A j \in Live : ldt_base[i] = ldt_base[j] => i = j

(* When a task is forked, no page table exists yet where its segment lies. *)
SegmentsAreFree ==
  [][\A i \in Index : (task_array[i] = NULL /\ task_array'[i] # NULL)
       => page_dir[MM!SegmentOf(i)] = NULL]_osVars
=============================================================================
