-------------------------------- MODULE Boot --------------------------------
(***************************************************************************)
(* The boot sequence: the constructor of KernelRescue (rescue/kernelrescue *)
(* .cpp) and the three ...Init functions it calls, with the translation of *)
(* addresses (MutixCPU::line2physical_addr) that the last of them already  *)
(* goes through.                                                           *)
(*                                                                         *)
(* The code is straight, but its pieces lean on each other: static         *)
(* functions find their object through a pointer that another Init sets,   *)
(* the first task's tss is stored through a physical and loaded through a  *)
(* linear address, and the load replaces cr3 by what the tss says.  What   *)
(* comes out must be the state in which MutixOS starts.                    *)
(***************************************************************************)
EXTENDS Integers, Sequences

CONSTANTS
  MAX_TASK_NUM, PROCESS_MEMORY_PAGES_NUM,
  PAGE_DIR_SIZE, SEG_DIRS, PAGE_TABLE_SIZE, COPY_PAGES, PAGING_PAGES,
  KERNEL_PAGES,      \* KERNEL_MEM_END / PAGE_SIZE                (405)
  FirstProcess,      \* the page at PROCESS_MEMORY_BASE           (120)
  DirtyFrames,       \* frames of which the block that new char[] returns may
                     \* not be 0: the words in them, their entry of memory_map
  LeftWords,         \* what a word in a dirty frame may read as in an entry
  NULL, NoMirror, Kernel, Junk

(* A Process object, as far as the boot writes it.                         *)
TSS    == [cr3 : {NULL, "page_dir"}, ldt : {0, NULL}]
Object == [pid : Nat, father : {-1}, state : {"DEAD"}, priority : {15},
           start_code : {0}, tss : TSS]

Dir   == 0 .. PAGE_DIR_SIZE - 1
Entry == 0 .. PAGE_TABLE_SIZE - 1
Frame == 0 .. PAGING_PAGES - 1      \* frame f is page KERNEL_PAGES + f
Page  == 0 .. KERNEL_PAGES + PAGING_PAGES - 1

ASSUME BootAssumption ==
  /\ PAGE_DIR_SIZE \in Nat \ {0} /\ PAGING_PAGES \in Nat
  /\ PAGE_TABLE_SIZE \in Nat /\ KERNEL_PAGES \in Nat
  /\ FirstProcess < KERNEL_PAGES /\ KERNEL_PAGES <= PAGE_TABLE_SIZE
  /\ FirstProcess \in Nat \ {0}
  /\ NULL \notin Nat /\ NULL \notin {"page_dir", "gdt", "boot"}
  /\ NULL \notin Object
  /\ LeftWords \subseteq Page \cup {NULL}

VARIABLES
  pc,            \* how far the constructor has come
  i,             \* the loop variable of MemoryManageInit
  pointers,      \* which of currentSCI, currentMM, currentPM are set
  wild,          \* a pointer that is not set was followed
  sci,           \* the SystemCall object: idt[14], system_call_table
  page_dir, content, memory_map, \* frames and tables, entries as page numbers
  gdt,           \* tss: the linear page of the tss that the first task's TSS
                 \* descriptor names; ldt: is its LDT described
  pm,            \* the ProcessManage object, of each array entry 0
  process,       \* the Process object at the physical page FirstProcess
  cpu,           \* registers; NULL for a register that holds 0
  saved          \* mirror and jump point of slot 0, once switch_to was called

bootVars == <<pc, i, pointers, wild, sci, page_dir, content, memory_map, gdt,
              pm, process, cpu, saved>>

(* A mutant of Order: memory before the interrupt table.                   *)
Order_MMFirst ==
  <<"InitMM", "MapKernel", "SetTraps", "InitSCI", "InitPM", "ltr", "lldt",
    "switch_to", "running">>

(* InitSCI(), InitMM(), InitPM(), and within them what comes after what.   *)
Order ==
  <<"InitSCI", "InitMM", "MapKernel", "SetTraps", "InitPM", "ltr", "lldt",
    "switch_to", "running">>

At(step) == Order[pc] = step
Done     == pc' = pc + 1

(* A function of component c is called.                                    *)
Uses(c) == wild' = (wild \/ c \notin pointers)

(* main() has made the memory.  In the dirty frames lies what new char[]   *)
(* found there; all other objects are taken to be zero.                    *)
BootInit ==
  /\ pc = 1 /\ i = 0 /\ pointers = {} /\ wild = FALSE
  /\ sci = [page_fault |-> NULL, calls |-> {}]
  /\ page_dir = [d \in Dir |-> NULL]
  /\ \E left \in [DirtyFrames -> LeftWords] :
       content = [f \in Frame |-> [e \in Entry |->
                    IF f \in DirtyFrames THEN left[f] ELSE NULL]]
  /\ \E dirty \in SUBSET DirtyFrames :
       memory_map = [f \in Frame |-> IF f \in dirty THEN 1 ELSE 0]
  /\ gdt = [tss |-> NULL, ldt |-> FALSE]
  /\ pm = [task |-> NULL, used |-> 0, current |-> NULL, p_counter |-> 0,
           que_used |-> FALSE]
  /\ process = NULL
  /\ cpu = [cr3 |-> NULL, gdt |-> NULL, tr |-> NULL, ldt |-> NULL,
            level |-> "RESCUE_LEVEL"]
  /\ saved = NULL

(* SystemCallInit clears both tables and sets the gates, 14 to on_reserved.*)
InitSCI ==
  /\ At("InitSCI") /\ Done
  /\ pointers' = pointers \cup {"SCI"}
  /\ sci' = [page_fault |-> "on_reserved", calls |-> {}]
  /\ UNCHANGED <<i, wild, page_dir, content, memory_map, gdt, pm, process,
                 cpu, saved>>

(* MemoryManageInit up to its loop.  Its memset, with length and value     *)
(* exchanged, leaves memory_map as it is.                                  *)
InitMM ==
  /\ At("InitMM") /\ Done
  /\ pointers' = pointers \cup {"MM"}
  /\ gdt' = [tss |-> NULL, ldt |-> FALSE]
  /\ page_dir' = [d \in Dir |-> NULL]
  /\ cpu' = [cpu EXCEPT !.cr3 = "page_dir", !.gdt = "gdt"]
  /\ i' = 0
  /\ UNCHANGED <<wild, sci, content, memory_map, pm, process, saved>>

FreeFrames == {f \in Frame : memory_map[f] = 0}
get_free_page == CHOOSE f \in FreeFrames : \A g \in FreeFrames : f <= g

(* write_page_table, both arguments given as pages; without a frame for the*)
(* table it returns false.                                                 *)
write_page_table(address, page) ==
  LET dir   == address \div PAGE_TABLE_SIZE
      entry == address % PAGE_TABLE_SIZE
      table == IF page_dir[dir] # NULL THEN page_dir[dir] ELSE get_free_page
  IN  IF page_dir[dir] = NULL /\ FreeFrames = {}
        THEN UNCHANGED <<page_dir, content, memory_map>>
        ELSE /\ page_dir' = [page_dir EXCEPT ![dir] = table]
             /\ content' = [content EXCEPT ![table][entry] = page]
             /\ memory_map' = IF page_dir[dir] # NULL THEN memory_map
                              ELSE [memory_map EXCEPT ![table] = 1]

(* Mutants of MappedPages: the loop ends one page early, or late.          *)
MappedPages_Short == KERNEL_PAGES - 1
MappedPages_Long  == KERNEL_PAGES + 1

MappedPages == KERNEL_PAGES

(* The loop of MemoryManageInit, which maps the kernel onto itself.        *)
MapKernel ==
  /\ At("MapKernel")
  /\ IF i < MappedPages
       THEN /\ write_page_table(i, i)
            /\ i' = i + 1
            /\ UNCHANGED pc
       ELSE Done /\ UNCHANGED <<i, page_dir, content, memory_map>>
  /\ Uses("MM")
  /\ UNCHANGED <<pointers, sci, gdt, pm, process, cpu, saved>>

(* SetPageFaultTraps, which goes through currentSCI.                       *)
SetTraps ==
  /\ At("SetTraps") /\ Done
  /\ Uses("SCI")
  /\ sci' = [sci EXCEPT !.page_fault = "on_page_fault"]
  /\ UNCHANGED <<i, pointers, page_dir, content, memory_map, gdt, pm, process,
                 cpu, saved>>

(* A mutant of FirstTSS: cr3 is left 0.                                    *)
FirstTSS_NoCr3 == [cr3 |-> NULL, ldt |-> 0]

(* tss.cr3 and tss.ldt of ProcessInit.                                     *)
FirstTSS == [cr3 |-> IF "MM" \in pointers THEN "page_dir" ELSE NULL, ldt |-> 0]

(* A mutant of FirstPM: the first task's page is not marked used.          *)
FirstPM_Unmarked ==
  [pm EXCEPT !.task = FirstProcess, !.current = FirstProcess, !.p_counter = @ + 1]

FirstPM ==
  [pm EXCEPT !.task = FirstProcess, !.used = 1, !.current = FirstProcess,
             !.p_counter = @ + 1]

(* ProcessManageInit up to the processor: the Process object is reached    *)
(* through its address taken as a physical one.                            *)
InitPM ==
  /\ At("InitPM") /\ Done
  /\ pointers' = pointers \cup {"PM"}
  /\ wild' = (wild \/ ~({"MM", "SCI"} \subseteq pointers))
  /\ pm' = FirstPM
  /\ process' = [pid |-> pm.p_counter, father |-> -1, state |-> "DEAD",
                 priority |-> 15, start_code |-> 0, tss |-> FirstTSS]
  /\ gdt' = [tss |-> FirstProcess, ldt |-> TRUE]
  /\ sci' = [sci EXCEPT !.calls = {"fork_process", "sleep", "wake_up"}]
  /\ UNCHANGED <<i, page_dir, content, memory_map, cpu, saved>>

(* line2physical_addr, by page.  The present bits are not looked at: what  *)
(* is absent is found on page 0, also a table, whose words are taken to be *)
(* all 0.                                                                  *)
line2physical_addr(page) ==
  LET dir == page \div PAGE_TABLE_SIZE
      item == IF page_dir[dir] = NULL THEN NULL
              ELSE content[page_dir[dir]][page % PAGE_TABLE_SIZE]
  IN  IF item = NULL THEN 0 ELSE item

(* get_tss and load_tss: what lies where the tss was not stored is 0.      *)
LoadedCPU ==
  LET page == line2physical_addr(gdt.tss)
      tss  == IF page = FirstProcess /\ process # NULL THEN process.tss
              ELSE [cr3 |-> NULL, ldt |-> NULL]
  IN  IF gdt.tss = NULL THEN cpu
      ELSE [cpu EXCEPT !.tr = page, !.cr3 = tss.cr3, !.ldt = tss.ldt]

ltr ==
  /\ At("ltr") /\ Done
  /\ wild' = (wild \/ cpu.gdt = NULL \/ cpu.cr3 = NULL)
  /\ cpu' = LoadedCPU
  /\ UNCHANGED <<i, pointers, sci, page_dir, content, memory_map, gdt, pm,
                 process, saved>>

(* lldt and to_state.                                                      *)
lldt ==
  /\ At("lldt") /\ Done
  /\ cpu' = [cpu EXCEPT !.ldt = 0, !.level = "USER_LEVEL"]
  /\ UNCHANGED <<i, pointers, wild, sci, page_dir, content, memory_map, gdt,
                 pm, process, saved>>

(* switch_to the running task: str stores what ltr loads again, and slot 0 *)
(* keeps a mirror and a jump point; then do_first_task gets a queue.       *)
switch_to ==
  /\ At("switch_to") /\ Done
  /\ wild' = (wild \/ cpu.tr # FirstProcess \/ cpu.cr3 = NULL)
  /\ process' = [process EXCEPT !.tss = [cr3 |-> cpu.cr3, ldt |-> cpu.ldt]]
  /\ saved' = "boot"
  /\ pm' = [pm EXCEPT !.que_used = TRUE]
  /\ UNCHANGED <<i, pointers, sci, page_dir, content, memory_map, gdt, cpu>>

BootNext ==
  \/ InitSCI \/ InitMM \/ MapKernel \/ SetTraps
  \/ InitPM \/ ltr \/ lldt \/ switch_to

BootSpec == BootInit /\ [][BootNext]_bootVars

(***************************************************************************)
(* Properties                                                              *)
(***************************************************************************)

Calls == {"fork_process", "sleep", "wake_up"}

BootTypeOK ==
  /\ pc \in 1 .. Len(Order)
  /\ i \in 0 .. KERNEL_PAGES
  /\ pointers \subseteq {"SCI", "MM", "PM"}
  /\ wild \in BOOLEAN
  /\ sci \in [page_fault : {NULL, "on_reserved", "on_page_fault"},
              calls : SUBSET Calls]
  /\ page_dir \in [Dir -> Frame \cup {NULL}]
  /\ content \in [Frame -> [Entry -> Page \cup {NULL}]]
  /\ memory_map \in [Frame -> {0, 1}]
  /\ gdt \in [tss : {NULL, FirstProcess}, ldt : BOOLEAN]
  /\ pm \in [task : {NULL, FirstProcess}, used : {0, 1},
             current : {NULL, FirstProcess}, p_counter : Nat, que_used : BOOLEAN]
  /\ process \in Object \cup {NULL}
  /\ cpu \in [cr3 : {NULL, "page_dir"}, gdt : {NULL, "gdt"}, tr : {NULL} \cup Nat,
              ldt : {NULL, 0}, level : {"RESCUE_LEVEL", "USER_LEVEL"}]
  /\ saved \in {NULL, "boot"}

(* Nothing is reached through a pointer that is not set yet, and at no time*)
(* is an address translated without a page directory.                      *)
NothingIsUsedBeforeItExists == ~wild

(* As far as the loop has come, and from then on, every page of the kernel *)
(* is where the code that still uses physical addresses takes it to be.    *)
KernelMapsOntoItself ==
  "MM" \in pointers =>
    \A k \in 0 .. KERNEL_PAGES - 1 :
      k < i \/ pc > 3 => line2physical_addr(k) = k

(* Loading the first task neither loses the page directory nor reads the   *)
(* tss elsewhere than where ProcessInit stored it.                         *)
FirstTaskIsLoaded ==
  pc > 6 => cpu.cr3 = "page_dir" /\ cpu.tr = FirstProcess /\ cpu.ldt = 0

Running == At("running")

(* The only frame in use is the one that holds the kernel's page table.    *)
FramesAreCounted ==
  \A f \in Frame : memory_map[f] = IF f = page_dir[0] THEN 1 ELSE 0

(* Only the kernel's pages are mapped, and free frames are clear.          *)
FramesAreZero ==
  \A f \in Frame, e \in Entry :
    content[f][e] # NULL => f = page_dir[0] /\ e < KERNEL_PAGES

(* A page as MutixOS has it: below LOW_MEM it is the kernel's, above it a  *)
(* frame.                                                                  *)
OSPage(item) ==
  IF item = NULL THEN NULL
  ELSE IF item < KERNEL_PAGES THEN Kernel ELSE item - KERNEL_PAGES

(* The state the boot leaves, in the terms of MutixOS.                     *)
OS == INSTANCE MutixOS WITH
  FIRST_PRIORITY <- 15, FORK_PRIORITY <- 20, PriorityBound <- 21,
  MirrorMayFail <- FALSE, FlatMemory <- FALSE,
  tss_desc <- [s \in 0 .. MAX_TASK_NUM - 1 |->
     IF s = 0 /\ gdt.tss # NULL THEN gdt.tss - FirstProcess ELSE NULL],
  tss_ldt <- [p \in 0 .. PROCESS_MEMORY_PAGES_NUM - 1 |->
     IF p = 0 THEN process.tss.ldt ELSE 0],
  tr <- cpu.tr - FirstProcess,
  ldtr <- cpu.ldt,
  cur_task <- 0,
  at <- IF Running THEN "prompt" ELSE "boot",
  stack <- NULL,
  stack_mirror_arr <- [s \in 0 .. MAX_TASK_NUM - 1 |->
     IF s = 0 /\ saved # NULL THEN NULL ELSE NoMirror],
  jmp_env <- [s \in 0 .. MAX_TASK_NUM - 1 |->
     IF s = 0 /\ saved # NULL THEN saved ELSE "none"],
  task_array <- [s \in 0 .. MAX_TASK_NUM - 1 |->
     IF s = 0 /\ pm.task # NULL THEN pm.task - FirstProcess ELSE NULL],
  process_memeory_map <- [p \in 0 .. PROCESS_MEMORY_PAGES_NUM - 1 |->
     IF p = 0 THEN pm.used ELSE 0],
  p_counter <- pm.p_counter,
  current <- pm.current - FirstProcess,
  pid <- [p \in 0 .. PROCESS_MEMORY_PAGES_NUM - 1 |->
     IF p = 0 THEN process.pid ELSE 0],
  father <- [p \in 0 .. PROCESS_MEMORY_PAGES_NUM - 1 |->
     IF p = 0 THEN process.father ELSE -1],
  state <- [p \in 0 .. PROCESS_MEMORY_PAGES_NUM - 1 |->
     IF p = 0 THEN process.state ELSE "DEAD"],
  priority <- [p \in 0 .. PROCESS_MEMORY_PAGES_NUM - 1 |->
     IF p = 0 THEN process.priority ELSE 15],
  QueHead <- NULL,
  is_used <- pm.que_used,
  content <- [f \in Frame |-> [e \in Entry |->
     [page |-> OSPage(content[f][e]), write |-> content[f][e] # NULL]]],
  ldt_base <- [s \in 0 .. MAX_TASK_NUM - 1 |->
     IF s = 0 /\ gdt.ldt THEN 0 ELSE NULL],
  memory <- IF wild THEN "fault" ELSE "up",
  gone <- {},
  start_code <- [p \in 0 .. PROCESS_MEMORY_PAGES_NUM - 1 |->
     IF p = 0 THEN process.start_code ELSE 0]

(* When the boot is over, processor and process manager are in the state   *)
(* from which MutixOS starts, whatever the memory contained, and no Init   *)
(* has undone what another entered in the tables of the system call        *)
(* interface.  So is the memory manager, but for what nobody has cleared   *)
(* where it was not zero before: memory_map and the words in the frames,   *)
(* those of the kernel's own table beyond the kernel included.             *)
BootLeavesOSInit ==
  Running =>
    /\ OS!Init
    /\ process.start_code = 0
    /\ FramesAreCounted /\ FramesAreZero => OS!OSInit
    /\ sci = [page_fault |-> "on_page_fault",
               calls |-> Calls]
=============================================================================
