---------------------------- MODULE MemoryManage ----------------------------
(***************************************************************************)
(* The memory manager (kernel/memorymanage.cpp): one page directory for    *)
(* all tasks, a fixed segment of it per task slot, page tables that live   *)
(* in the frames they map, and a use count per frame (memory_map).         *)
(*                                                                         *)
(* Linear addresses are kept as a directory index and an entry of a table. *)
(* Every LDT limit is the 0x9f that Init_LDT_desc sets and ldt_copy_mem    *)
(* hands on, so a segment uses exactly one directory entry.  Frames are    *)
(* numbered from LOW_MEM; pages below it belong to the kernel.             *)
(*                                                                         *)
(* The model ends where the code's state says nothing any more: a wild     *)
(* pointer was used, or a page table holds words that no one stored as     *)
(* entries and that may name any page.                                     *)
(***************************************************************************)
EXTENDS Integers, FiniteSets

CONSTANTS
  MAX_TASK_NUM,
  PAGE_DIR_SIZE,     \* entries of the directory               (1024)
  SEG_DIRS,          \* entries per segment, SEG_LENGTH / 4 MB   (16)
  PAGE_TABLE_SIZE,   \* entries of a table                     (1024)
  KERNEL_PAGES,      \* entries that map the kernel             (405)
  COPY_PAGES,        \* entries of task 0 that a child gets    (0xA0)
  PAGING_PAGES,      \* frames above LOW_MEM                   (1643)
  NULL,              \* nothing there
  Kernel,            \* a page below LOW_MEM
  Junk,              \* a word of data, in a frame that is no table; as an
                     \* entry it would map any page, in any way
  FlatMemory,        \* do physical addresses work as pointers?  They do on
                     \* the machine the kernel is for, not in the simulator
  Deaths             \* may on_process_die be called?

ASSUME MemoryAssumption ==
  /\ MAX_TASK_NUM \in Nat \ {0}
  /\ PAGE_DIR_SIZE \in Nat \ {0}
  /\ SEG_DIRS \in Nat \ {0}
  /\ PAGING_PAGES \in Nat \ {0}
  /\ PAGE_TABLE_SIZE \in Nat /\ KERNEL_PAGES \in Nat /\ COPY_PAGES \in Nat
  /\ COPY_PAGES <= KERNEL_PAGES /\ KERNEL_PAGES <= PAGE_TABLE_SIZE
  /\ FlatMemory \in BOOLEAN /\ Deaths \in BOOLEAN

Index == 0 .. MAX_TASK_NUM - 1
Dir   == 0 .. PAGE_DIR_SIZE - 1
Entry == 0 .. PAGE_TABLE_SIZE - 1
Frame == 0 .. PAGING_PAGES - 1

ASSUME PageAssumption ==
  /\ NULL \notin Nat /\ Kernel \notin Nat /\ Junk \notin Nat
  /\ Kernel # NULL /\ Junk # NULL /\ Junk # Kernel

PageOrNull == Frame \cup {NULL, Kernel, Junk}

VARIABLES
  page_dir,     \* directory entry -> the frame of its table, or NULL
  content,      \* frame -> what it holds, read as a page table
  memory_map,   \* frame -> use count
  ldt_base,     \* slot -> first directory entry of its segment, or NULL
  memory,       \* "up"; "fault" once a wild pointer or index was used;
                \* "stray" once a table holds leftover words of data
  gone          \* slots whose task died; PM makes no call for them again

mmVars == <<page_dir, content, memory_map, ldt_base, memory, gone>>

Item == [page : PageOrNull, write : BOOLEAN]

Absent == [page |-> NULL, write |-> FALSE]

MMTypeOK ==
  /\ page_dir \in [Dir -> Frame \cup {NULL}]
  /\ content \in [Frame -> [Entry -> Item]]
  /\ memory_map \in [Frame -> Nat]
  /\ ldt_base \in [Index -> Dir \cup {NULL}]
  /\ memory \in {"up", "stray", "fault"}
  /\ gone \subseteq Index

(* MemoryManageInit and Init_LDT_desc(FIRST_TASK): frame 0 becomes the     *)
(* table that maps the kernel onto itself; the simulated memory is zeros.  *)
MMInit ==
  /\ page_dir = [d \in Dir |-> IF d = 0 THEN 0 ELSE NULL]
  /\ content = [f \in Frame |-> [e \in Entry |->
                  IF f = 0 /\ e < KERNEL_PAGES
                    THEN [page |-> Kernel, write |-> TRUE]
                    ELSE Absent]]
  /\ memory_map = [f \in Frame |-> IF f = 0 THEN 1 ELSE 0]
  /\ ldt_base = [i \in Index |-> IF i = 0 THEN 0 ELSE NULL]
  /\ memory = "up"
  /\ gone = {}

(* A mutant of FreeFrame: one frame too many is searched.                  *)
FreeFrame_OneMore(map) ==
  CHOOSE f \in 0 .. PAGING_PAGES :
    /\ f \in Frame => map[f] = 0
    /\ \A g \in Frame : g < f => map[g] # 0

(* get_free_page in a given memory_map: the first unused frame, or the 0   *)
(* that stands for none, which is NULL here.                               *)
FreeFrame(map) ==
  IF \E f \in Frame : map[f] = 0
    THEN CHOOSE f \in Frame : map[f] = 0 /\ \A g \in Frame : g < f => map[g] # 0
    ELSE NULL

(* A mutant of Taken: the frame found is not marked used.                  *)
Taken_Unmarked(map, f) == map

Taken(map, f) == IF f = NULL THEN map ELSE [map EXCEPT ![f] = @ + 1]

(* get_free_page hands frames out as they are.  One that held data has     *)
(* words of it in every entry its new table t does not set.                *)
KeepLeftovers(t) ==
  memory' = IF \E e \in Entry : content'[t][e].page = Junk
              THEN "stray" ELSE memory

Uses(f, items) == Cardinality({e \in Entry : items[e].page = f})

(***************************************************************************)
(* set_LDT_desc: a segment for a new task                                  *)
(***************************************************************************)

(* A mutant of SegmentOf: segments of half the length.                     *)
SegmentOf_Halved(index) == ((index * SEG_DIRS) \div 2) % PAGE_DIR_SIZE

(* index * SEG_LENGTH is a 32-bit product.                                 *)
SegmentOf(index) == (index * SEG_DIRS) % PAGE_DIR_SIZE

(* free_page_tables(dir, 1 entry): every page loses a use, but not below 0,*)
(* the table is zeroed and given back.  The table is reached through its   *)
(* physical address; where that is no pointer, what is touched instead is  *)
(* anyone's.                                                               *)
free_page_tables(dir) ==
  LET t == page_dir[dir]
      lost(f) == Uses(f, content[t]) + (IF f = t THEN 1 ELSE 0)
  IN  IF t = NULL
        THEN UNCHANGED <<page_dir, content, memory_map, memory>>
      ELSE IF ~FlatMemory
        THEN memory' = "fault" /\ UNCHANGED <<page_dir, content, memory_map>>
      ELSE /\ memory_map' = [f \in Frame |->
                IF memory_map[f] >= lost(f) THEN memory_map[f] - lost(f) ELSE 0]
           /\ content' = [content EXCEPT ![t] = [e \in Entry |-> Absent]]
           /\ page_dir' = [page_dir EXCEPT ![dir] = NULL]
           /\ UNCHANGED memory

(* The entries a child gets: all that are present, but of task 0, whose    *)
(* table also maps the rest of the kernel, only the first.                 *)
Copied(from, source) ==
  {e \in Entry : /\ content[from][e].page # NULL
                 /\ source = 0 => e < COPY_PAGES}

(* Mutants: the copy stays writable; a shared page is not counted.         *)
ReadOnly_Kept(item) == item
NewUses_None(f, from, source) == 0

ReadOnly(item) == [page |-> item.page, write |-> FALSE]

NewUses(f, from, source) ==
  Cardinality({e \in Copied(from, source) : content[from][e].page = f})

(* copy_page_tables, the copy proper: the new table `to' gets the entries, *)
(* read-only, over whatever the frame held before, and keeps the rest of   *)
(* it.  User pages become read-only in `from' too, and gain a use.         *)
CopyTable(from, to, source, dest) ==
  LET copied == Copied(from, source)
      shared == {e \in copied : content[from][e].page # Kernel}
      withReadOnly(items, es) ==
        [e \in Entry |-> IF e \in es THEN ReadOnly(content[from][e])
                                    ELSE items[e]]
  IN  /\ page_dir' = [page_dir EXCEPT ![dest] = to]
      /\ content' = [content EXCEPT ![to]   = withReadOnly(@, copied),
                                    ![from] = withReadOnly(@, shared)]
      /\ memory_map' = [f \in Frame |->
           Taken(memory_map, to)[f] + NewUses(f, from, source)]
      /\ KeepLeftovers(to)

(* set_LDT_desc(index, current_index).  A source without a table copies    *)
(* nothing and succeeds; failing, the destination's tables are freed.      *)
set_LDT_desc(index, current_index) ==
  LET source == ldt_base[current_index]
      dest   == SegmentOf(index)
      to     == FreeFrame(memory_map)
  IN  /\ ldt_base' = [ldt_base EXCEPT ![index] = dest]
      /\ IF page_dir[dest] # NULL THEN free_page_tables(dest)
         ELSE IF page_dir[source] = NULL \/ to = NULL
           THEN UNCHANGED <<page_dir, content, memory_map, memory>>
         ELSE CopyTable(page_dir[source], to, source, dest)

(***************************************************************************)
(* The operations                                                          *)
(***************************************************************************)

Alive(index) == ldt_base[index] # NULL /\ index \notin gone

(* Fork: PM calls set_LDT_desc for a slot it has not used before.          *)
ForkSegment(index, current_index) ==
  /\ memory = "up"
  /\ ldt_base[index] = NULL
  /\ Alive(current_index)
  /\ set_LDT_desc(index, current_index)
  /\ UNCHANGED gone

(* put_page, for an address under a task's directory entry that has no page*)
(* yet: takes a frame, if there is one, then a table if there is none, of  *)
(* which it sets one entry.  The task then fills its page with data.       *)
put_page(index, entry) ==
  LET dir    == ldt_base[index]
      page   == FreeFrame(memory_map)
      table  == IF page_dir[dir] # NULL THEN page_dir[dir]
                ELSE FreeFrame(Taken(memory_map, page))
      mapped == [page |-> IF page = NULL THEN Kernel ELSE page, write |-> TRUE]
      filled == [f \in Frame |-> IF f = page
                  THEN [e \in Entry |-> [page |-> Junk, write |-> TRUE]]
                  ELSE content[f]]
  IN  /\ memory = "up"
      /\ Alive(index)
      /\ page_dir[dir] # NULL => content[page_dir[dir]][entry] = Absent
      /\ IF table = NULL
           THEN /\ memory_map' = Taken(memory_map, page)
                /\ UNCHANGED <<page_dir, content, memory>>
           ELSE /\ memory_map' = IF page_dir[dir] # NULL
                     THEN Taken(memory_map, page)
                     ELSE Taken(Taken(memory_map, page), table)
                /\ page_dir' = [page_dir EXCEPT ![dir] = table]
                /\ content' = [filled EXCEPT ![table][entry] = mapped]
                /\ KeepLeftovers(table)
      /\ UNCHANGED <<ldt_base, gone>>

(* Mutants of NewPage: the old page is not given up; the copy is not taken.*)
NewPage_Keeps(map, old, page) == Taken(map, page)
NewPage_Untaken(map, old, page) ==
  IF old = Kernel THEN map ELSE [map EXCEPT ![old] = @ - 1]

(* un_wp_page when it copies: the copy is in use, the old page once less.  *)
NewPage(map, old, page) ==
  IF old = Kernel THEN Taken(map, page)
                  ELSE [Taken(map, page) EXCEPT ![old] = @ - 1]

(* un_wp_page, for a present entry without write permission.  The last user*)
(* of a page gets it back; another gets a copy, and page 0 of the kernel   *)
(* when there is no frame for it.  What is copied is data.                 *)
un_wp_page(index, entry) ==
  LET t    == page_dir[ldt_base[index]]
      old  == content[t][entry].page
      page == FreeFrame(memory_map)
      copy == [f \in Frame |-> IF f = page
                THEN [e \in Entry |-> [page |-> Junk, write |-> TRUE]]
                ELSE content[f]]
  IN  /\ memory = "up"
      /\ Alive(index)
      /\ t # NULL
      /\ old # NULL /\ ~content[t][entry].write
      /\ IF old \in Frame /\ memory_map[old] = 1
           THEN /\ content' = [content EXCEPT ![t][entry].write = TRUE]
                /\ UNCHANGED memory_map
           ELSE /\ memory_map' = NewPage(memory_map, old, page)
                /\ content' = [copy EXCEPT ![t][entry] =
                     [page |-> IF page = NULL THEN Kernel ELSE page,
                      write |-> TRUE]]
      /\ UNCHANGED <<page_dir, ldt_base, memory, gone>>

(* on_process_die(index): code and data segment have the same base, so the *)
(* second of its two calls of free_page_tables finds nothing left.         *)
on_process_die(index) ==
  /\ Deaths
  /\ memory = "up"
  /\ index # 0
  /\ Alive(index)
  /\ free_page_tables(ldt_base[index])
  /\ gone' = gone \cup {index}
  /\ UNCHANGED ldt_base

MMNext ==
  \/ \E index, current_index \in Index : ForkSegment(index, current_index)
  \/ \E index \in Index, entry \in Entry : put_page(index, entry)
  \/ \E index \in Index, entry \in Entry : un_wp_page(index, entry)
  \/ \E index \in Index : on_process_die(index)

MMSpec == MMInit /\ [][MMNext]_mmVars

(***************************************************************************)
(* Properties                                                              *)
(***************************************************************************)

Tables == {page_dir[d] : d \in Dir} \ {NULL}

(* How many places use frame f, as a table or as a page.                   *)
UsesOf(f) ==
  Cardinality({d \in Dir : page_dir[d] = f})
    + Cardinality({x \in Tables \X Entry : content[x[1]][x[2]].page = f})

(* While no task dies, a frame's count is exactly its uses: nothing is     *)
(* lost in a fork or a page fault that finds no memory.                    *)
CountsMatch == gone = {} => \A f \in Frame : memory_map[f] = UsesOf(f)

(* A frame that is still a table or mapped in one is never handed out: its *)
(* count is not below its uses, also after deaths, while every table holds *)
(* entries only.  (It may be above: put_page can lose a frame.)            *)
NoEarlyReuse ==
  memory = "up" => \A f \in Frame : memory_map[f] >= UsesOf(f)

(* And that frame is all that deaths, forks and faults ever lose: a count  *)
(* that is not the number of uses is the one of a frame nothing uses.      *)
OnlyUnusedAreLost ==
  memory = "up" => \A f \in Frame :
    memory_map[f] # UsesOf(f) => memory_map[f] = 1 /\ UsesOf(f) = 0

(* Copy on write: a frame that two entries map is writable through none,   *)
(* while every table holds entries only.                                   *)
SharedIsReadOnly ==
  memory = "up" => \A s, t \in Tables : \A e, g \in Entry :
    (content[s][e].page \in Frame /\ content[s][e].page = content[t][g].page
       /\ <<s, e>> # <<t, g>>)
      => ~content[s][e].write

(* No page table is mapped into any segment, and none serves two, while    *)
(* every table holds entries only.                                         *)
TablesArePrivate ==
  memory = "up" =>
    /\ \A c, d \in Dir : page_dir[c] = page_dir[d] /\ page_dir[c] # NULL => c = d
    /\ \A t \in Tables : \A e \in Entry : content[t][e].page \notin Tables

(* What the task at directory entry d sees, by page.                       *)
Mapping(d) ==
  IF page_dir[d] = NULL THEN [e \in Entry |-> NULL]
                        ELSE [e \in Entry |-> content[page_dir[d]][e].page]

(* Tasks are isolated: a fork, a fault, a copy on write or a death changes *)
(* what is mapped for one task only.  The claim ends, like the model, with *)
(* the step that leaves a table with leftover words.                       *)
OneTaskAtATime ==
  [][\A c, d \in Dir : Mapping(c)' # Mapping(c) /\ Mapping(d)' # Mapping(d)
       => c = d]_mmVars

(* The kernel's own map survives whatever the tasks do.                    *)
KernelStaysMapped ==
  /\ page_dir[0] # NULL
  /\ \A e \in Entry : e < KERNEL_PAGES =>
       content[page_dir[0]][e] = [page |-> Kernel, write |-> TRUE]

(* No task can write to the kernel's pages through its segment,            *)
KernelIsReadOnly ==
  \A d \in Dir \ {0} : page_dir[d] # NULL =>
    \A e \in Entry : content[page_dir[d]][e].page = Kernel =>
      ~content[page_dir[d]][e].write

(* and no step lets one, unless it asked for a frame and none was left, or *)
(* made a table of a frame with leftover words, which may map anything.    *)
KernelStaysReadOnly ==
  [][/\ KernelIsReadOnly
     /\ FreeFrame(memory_map) # NULL
     /\ memory' = "up"
     => KernelIsReadOnly']_mmVars

(* Every entry of a table was put there as an entry, and only a death can  *)
(* end that: until the first, no frame that held data becomes a table.     *)
TablesAreClean ==
  /\ gone = {} => memory # "stray"
  /\ memory = "up" =>
       \A t \in Tables : \A e \in Entry : content[t][e].page # Junk

=============================================================================
