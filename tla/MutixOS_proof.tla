--------------------------- MODULE MutixOS_proof ---------------------------
(***************************************************************************)
(* The composed system of MutixOS, for any number of slots, segments and   *)
(* frames: it is a process manager and a memory manager at once, and every *)
(* task has the memory it was promised.                                    *)
(***************************************************************************)
EXTENDS MutixOS, ProcessManage_proof, FiniteSetTheorems

(***************************************************************************)
(* The system is its components                                            *)
(***************************************************************************)

(* Nothing the memory does or fails to do makes the process manager take a *)
(* step of its own, so all that is proved of ProcessManage holds here.     *)
THEOREM SystemIsProcessManage == OSSpec => Spec
<1>1. OSInit => Init
  BY DEF OSInit
<1>2. [OSNext]_osVars => [Next]_vars
  BY DEF OSNext, ForkProcess, Others, Next, Stopped, osVars
<1>3. QED
  BY <1>1, <1>2, PTL DEF OSSpec, Spec

(* And the process manager calls the memory manager as that expects it: a  *)
(* fork names a slot without a segment and a father that has one.          *)
THEOREM SystemIsMemoryManage == OSSpec => MM!MMSpec
<1>1. OSInit => MM!MMInit
  BY DEF OSInit
<1>2. [OSNext]_osVars => [MM!MMNext]_MM!mmVars
  <2> SUFFICES ASSUME [OSNext]_osVars
               PROVE  [MM!MMNext]_MM!mmVars
    OBVIOUS
  <2>1. ASSUME NEW index \in Index, NEW page \in Process, ForkProcess(index, page)
        PROVE  MM!MMNext
    <3>1. PICK from \in Index : MM!ForkSegment(index, from)
      BY <2>1 DEF ForkProcess
    <3>2. Index = MM!Index
      BY DEF Index, MM!Index
    <3>3. QED
      BY <3>1, <3>2 DEF MM!MMNext
  <2>2. ASSUME UNCHANGED memVars PROVE UNCHANGED MM!mmVars
    BY <2>2 DEF memVars, MM!mmVars
  <2>3. QED
    BY <2>1, <2>2 DEF OSNext, Others, osVars
<1>3. QED
  BY <1>1, <1>2, PTL DEF OSSpec, MM!MMSpec

(***************************************************************************)
(* The inductive invariant                                                 *)
(***************************************************************************)

(* No task asks for a page, so the tables map nothing but the kernel.      *)
OnlyKernelPages ==
  \A f \in MM!Frame : \A e \in MM!Entry : content[f][e].page \in {NULL, Kernel}

(* Every table is a frame in use, and the table of one segment only.       *)
TablesCounted ==
  /\ \A d \in MM!Dir : page_dir[d] # NULL => memory_map[page_dir[d]] # 0
  /\ \A c, d \in MM!Dir : page_dir[c] = page_dir[d] /\ page_dir[c] # NULL => c = d

(* A segment for every task, at the place that belongs to its slot.        *)
Segments ==
  /\ gone = {}
  /\ \A i \in Index : ldt_base[i] = IF i < p_counter THEN MM!SegmentOf(i) ELSE NULL

(* Only slots below the 64th, whose segments the directory has room for,   *)
(* have tasks.                                                             *)
SegmentsInRange == \A i \in Live : i * SEG_DIRS < PAGE_DIR_SIZE

(* Tables are where the tasks' segments are and nowhere else; every fork   *)
(* has taken one frame, and the next.                                      *)
Mapped ==
  /\ memory = "up"
  /\ \A i \in Live : /\ page_dir[MM!SegmentOf(i)] # NULL
                     /\ start_code[i] = MM!SegmentOf(i)
  /\ \A d \in MM!Dir : page_dir[d] # NULL => \E i \in Live : d = MM!SegmentOf(i)
  /\ \A f \in MM!Frame : f >= p_counter => memory_map[f] = 0

MemoryTypes == MM!MMTypeOK /\ start_code \in [Process -> MM!Dir]

MemoryInv == MemoryTypes /\ OnlyKernelPages /\ TablesCounted /\ Segments

(* There is a frame for the page table of every task that can be.          *)
FramesSuffice == MAX_TASK_NUM <= PAGING_PAGES

(***************************************************************************)
(* Segments and frames                                                     *)
(***************************************************************************)

LEMMA Names ==
  /\ Index = MM!Index
  /\ NULL \notin MM!Frame /\ NULL \notin MM!Dir /\ Kernel \notin MM!Frame
  /\ 0 \in MM!Frame /\ 0 \in MM!Dir
  /\ MM!Frame \subseteq Nat /\ MM!Dir \subseteq Nat
BY MemorySizes, NullAssumption DEF Index, MM!Index, MM!Frame, MM!Dir

(* A segment lies in the directory, and two in range do not overlap.       *)
LEMMA SegmentPlaces ==
  ASSUME NEW i \in Index
  PROVE  /\ MM!SegmentOf(i) \in MM!Dir
         /\ i = 0 => MM!SegmentOf(i) = 0
         /\ i * SEG_DIRS < PAGE_DIR_SIZE => MM!SegmentOf(i) = i * SEG_DIRS
<1>1. i \in Nat /\ i * SEG_DIRS \in Nat
  BY MemorySizes, SizesAssumption DEF Index
<1>2. \A n \in Nat : /\ n % PAGE_DIR_SIZE \in Nat /\ n % PAGE_DIR_SIZE < PAGE_DIR_SIZE
                     /\ n < PAGE_DIR_SIZE => n % PAGE_DIR_SIZE = n
  BY MemorySizes
<1>3. i = 0 => i * SEG_DIRS = 0
  BY MemorySizes
<1>4. QED
  BY <1>1, <1>2, <1>3, MemorySizes DEF MM!SegmentOf, MM!Dir

LEMMA ProductsDiffer ==
  ASSUME NEW a \in Nat, NEW b \in Nat, a < b
  PROVE  a * SEG_DIRS < b * SEG_DIRS
<1>1. PICK c \in Nat : b = a + c /\ c >= 1
  <2>1. b - a \in Nat /\ b = a + (b - a) /\ b - a >= 1
    OBVIOUS
  <2>2. QED
    BY <2>1
<1>2. SEG_DIRS \in Nat /\ SEG_DIRS >= 1
  BY MemorySizes
<1>3. /\ b * SEG_DIRS = a * SEG_DIRS + c * SEG_DIRS
      /\ a * SEG_DIRS \in Nat /\ c * SEG_DIRS \in Nat /\ c * SEG_DIRS >= 1
  BY <1>1, <1>2
<1>4. QED
  BY <1>3

LEMMA SegmentsAreApart ==
  ASSUME NEW i \in Index, NEW j \in Index,
         i * SEG_DIRS < PAGE_DIR_SIZE, j * SEG_DIRS < PAGE_DIR_SIZE,
         MM!SegmentOf(i) = MM!SegmentOf(j)
  PROVE  i = j
<1>1. i \in Nat /\ j \in Nat
  BY SizesAssumption DEF Index
<1>2. i * SEG_DIRS = j * SEG_DIRS
  BY SegmentPlaces
<1>3. CASE i < j
  BY <1>1, <1>2, <1>3, ProductsDiffer, MemorySizes
<1>4. CASE j < i
  BY <1>1, <1>2, <1>4, ProductsDiffer, MemorySizes
<1>5. QED
  BY <1>1, <1>3, <1>4

(* get_free_page finds the first free frame, where there is one.           *)
LEMMA FirstFreeFrame ==
  ASSUME MM!MMTypeOK
  PROVE  LET to == MM!FreeFrame(memory_map)
         IN  /\ to \in MM!Frame \cup {NULL}
             /\ to # NULL => memory_map[to] = 0
             /\ \A f \in MM!Frame : memory_map[f] = 0 => to # NULL /\ to <= f
<1> DEFINE S == {f \in MM!Frame : memory_map[f] = 0}
           to == MM!FreeFrame(memory_map)
           First(f) == memory_map[f] = 0 /\ \A g \in MM!Frame : g < f => memory_map[g] # 0
<1> USE Names
<1>1. CASE S = {}
  BY <1>1 DEF MM!FreeFrame
<1>2. CASE S # {}
  <2>1. PICK f \in S : \A g \in S : f <= g
    BY <1>2, LeastNumber
  <2>2. f \in MM!Frame /\ First(f)
    BY <2>1
  <2>3. to = CHOOSE g \in MM!Frame : First(g)
    BY <1>2 DEF MM!FreeFrame
  <2>4. to \in MM!Frame /\ First(to)
    <3> HIDE DEF First, to
    <3>1. QED
      BY <2>2, <2>3
  <2>5. \A g \in MM!Frame : memory_map[g] = 0 => to <= g
    <3> HIDE DEF to
    <3>1. QED
      BY <2>4
  <2>6. QED
    BY <2>4, <2>5
<1>3. QED
  BY <1>1, <1>2

(***************************************************************************)
(* A fork                                                                  *)
(***************************************************************************)

(* fork_process asks for the segment of the running task to be copied into *)
(* that of the first slot without one.                                     *)
LEMMA ForkIsForNext ==
  ASSUME BaseInv, NEW index \in Index, NEW page \in Process,
         ForkProcess(index, page)
  PROVE  /\ index = p_counter /\ page = p_counter /\ p_counter' = p_counter + 1
         /\ current \in Live
         /\ MM!ForkSegment(index, current)
         /\ start_code' = [start_code EXCEPT ![page] = StartCode(index, current)]
         /\ Live' = Live \cup {index}
<1>1. Fork(index, page)
  BY DEF ForkProcess
<1>2. index = p_counter /\ page = p_counter
  BY <1>1, FirstEmpty DEF Fork
<1>3. p_counter' = p_counter + 1
  BY <1>1 DEF Fork, ProcessCopy
<1>4. current \in Live /\ Live = {i \in Index : i < p_counter}
  <2>1. current < p_counter /\ current \in Index
    BY DEF BaseInv, Registers, TypeOK, CPUTypeOK
  <2>2. QED
    BY <2>1, TasksAreNumbers
<1>5. PICK from \in Index :
        /\ FindProcess(from, pid[current])
        /\ MM!ForkSegment(index, from)
        /\ start_code' = [start_code EXCEPT ![page] = StartCode(index, from)]
  BY DEF ForkProcess
<1>6. from = current
  <2>1. from \in Live /\ pid[task_array[from]] = pid[current]
    BY <1>5 DEF FindProcess
  <2>2. task_array[from] = from /\ from \in Process /\ from < p_counter
    BY <1>4, <2>1, TasksAreNumbers
  <2>3. pid[from] = from /\ pid[current] = current
    BY <1>4, <2>2, TasksAreNumbers DEF BaseInv, Allocation
  <2>4. QED
    BY <2>1, <2>2, <2>3
<1>7. Live' = Live \cup {index}
  <2>1. BaseInv'
    BY <1>1, ForkBase
  <2>2. task_array' = [task_array EXCEPT ![index] = page] /\ page # NULL
    BY <1>1, Numbers DEF Fork
  <2>3. task_array \in [Index -> ProcessOrNull]
    BY DEF BaseInv, TypeOK
  <2>4. QED
    BY <2>2, <2>3 DEF Live
<1>8. QED
  BY <1>2, <1>3, <1>4, <1>5, <1>6, <1>7

(* Where only the kernel is mapped no frame is counted as a page.          *)
LEMMA NoFrameIsPage ==
  ASSUME OnlyKernelPages, NEW f \in MM!Frame, NEW t \in MM!Frame, NEW source
  PROVE  MM!Uses(f, content[t]) = 0 /\ MM!NewUses(f, t, source) = 0
<1>1. \A e \in MM!Entry : content[t][e].page # f
  BY Names DEF OnlyKernelPages
<1>2. {e \in MM!Entry : content[t][e].page = f} = {}
  BY <1>1
<1>3. {e \in MM!Copied(t, source) : content[t][e].page = f} = {}
  BY <1>1 DEF MM!Copied
<1>4. MM!Cardinality({}) = Cardinality({})
  BY DEF MM!Cardinality, Cardinality
<1>5. MM!Cardinality({}) = 0
  BY <1>4, FS_EmptySet
<1>6. QED
  BY <1>2, <1>3, <1>5 DEF MM!Uses, MM!NewUses

(* Freeing the tables of a segment that was taken already: where physical  *)
(* addresses are no pointers the kernel follows a wild one.                *)
LEMMA FreeKeepsTypes ==
  ASSUME MM!MMTypeOK, OnlyKernelPages, TablesCounted, NEW dir \in MM!Dir,
         MM!free_page_tables(dir)
  PROVE  /\ page_dir' \in [MM!Dir -> MM!Frame \cup {NULL}]
         /\ content' \in [MM!Frame -> [MM!Entry -> MM!Item]]
         /\ memory_map' \in [MM!Frame -> Nat]
         /\ memory' \in {"up", "stray", "fault"}
         /\ OnlyKernelPages' /\ TablesCounted'
<1> DEFINE t == page_dir[dir]
<1>1. /\ page_dir \in [MM!Dir -> MM!Frame \cup {NULL}]
      /\ content \in [MM!Frame -> [MM!Entry -> MM!Item]]
      /\ memory_map \in [MM!Frame -> Nat]
      /\ memory \in {"up", "stray", "fault"}
  BY DEF MM!MMTypeOK
<1>2. CASE UNCHANGED <<page_dir, content, memory_map>> /\ memory' \in {memory, "fault"}
  BY <1>1, <1>2 DEF OnlyKernelPages, TablesCounted
<1>3. CASE
        /\ t \in MM!Frame
        /\ memory_map' = [f \in MM!Frame |->
             IF memory_map[f] >= MM!Uses(f, content[t]) + (IF f = t THEN 1 ELSE 0)
               THEN memory_map[f] - (MM!Uses(f, content[t]) + (IF f = t THEN 1 ELSE 0))
               ELSE 0]
        /\ content' = [content EXCEPT ![t] = [e \in MM!Entry |-> MM!Absent]]
        /\ page_dir' = [page_dir EXCEPT ![dir] = NULL]
        /\ UNCHANGED memory
  <2>1. \A f \in MM!Frame : MM!Uses(f, content[t]) = 0 /\ memory_map[f] \in Nat
    BY <1>1, <1>3, NoFrameIsPage
  <2>2. memory_map' \in [MM!Frame -> Nat]
    BY <1>3, <2>1
  <2>3. MM!Absent \in MM!Item /\ MM!Absent.page = NULL
    BY DEF MM!Absent, MM!Item, MM!PageOrNull
  <2>4. content' \in [MM!Frame -> [MM!Entry -> MM!Item]]
    BY <1>1, <1>3, <2>3
  <2>5. OnlyKernelPages'
    BY <1>1, <1>3, <2>3 DEF OnlyKernelPages
  <2>6. page_dir' \in [MM!Dir -> MM!Frame \cup {NULL}]
    BY <1>1, <1>3
  <2>7. TablesCounted'
    <3>1. \A f \in MM!Frame \ {t} : memory_map'[f] = memory_map[f]
      BY <1>3, <2>1
    <3>2. \A d \in MM!Dir : page_dir'[d] # NULL =>
            page_dir'[d] = page_dir[d] /\ page_dir[d] \in MM!Frame \ {t}
      BY <1>1, <1>3, Names DEF TablesCounted
    <3>3. QED
      BY <3>1, <3>2 DEF TablesCounted
  <2>8. QED
    BY <1>1, <1>3, <2>2, <2>4, <2>5, <2>6, <2>7
<1>4. QED
  BY <1>1, <1>2, <1>3 DEF MM!free_page_tables

(* The copy of a table is a table of the kernel's pages.                   *)
LEMMA CopyKeepsTypes ==
  ASSUME MM!MMTypeOK, OnlyKernelPages,
         NEW from \in MM!Frame, NEW to \in MM!Frame, from # to,
         NEW source, NEW dest \in MM!Dir,
         MM!CopyTable(from, to, source, dest)
  PROVE  /\ page_dir' = [page_dir EXCEPT ![dest] = to]
         /\ content' \in [MM!Frame -> [MM!Entry -> MM!Item]]
         /\ memory_map' = [memory_map EXCEPT ![to] = @ + 1]
         /\ UNCHANGED memory
         /\ OnlyKernelPages'
<1> DEFINE copied == MM!Copied(from, source)
           shared == {e \in copied : content[from][e].page # Kernel}
           New(f, es) == [e \in MM!Entry |-> IF e \in es
                            THEN MM!ReadOnly(content[from][e]) ELSE content[f][e]]
<1>1. /\ content \in [MM!Frame -> [MM!Entry -> MM!Item]]
      /\ memory_map \in [MM!Frame -> Nat]
  BY DEF MM!MMTypeOK
<1>2. copied \subseteq MM!Entry
      /\ \A e \in copied : content[from][e].page = Kernel
  BY DEF OnlyKernelPages, MM!Copied
<1>3. shared = {}
  BY <1>2
<1>4. \A e \in MM!Entry :
        /\ MM!ReadOnly(content[from][e]) \in MM!Item
        /\ MM!ReadOnly(content[from][e]).page \in {NULL, Kernel}
  BY <1>1 DEF MM!ReadOnly, MM!Item, OnlyKernelPages
<1>5. \A f \in MM!Frame : \A es \in SUBSET MM!Entry :
        /\ New(f, es) \in [MM!Entry -> MM!Item]
        /\ \A e \in MM!Entry : New(f, es)[e].page \in {NULL, Kernel}
  BY <1>1, <1>4 DEF OnlyKernelPages
<1>6. content' \in [MM!Frame -> [MM!Entry -> MM!Item]] /\ OnlyKernelPages'
  <2>1. content' = [content EXCEPT ![to] = New(to, copied),
                                   ![from] = New(from, shared)]
    BY DEF MM!CopyTable
  <2>2. New(from, shared) = content[from]
    BY <1>1, <1>3
  <2>3. content' = [content EXCEPT ![to] = New(to, copied)]
    <3> HIDE DEF New, copied
    <3>1. QED
      BY <1>1, <2>1, <2>2
  <2>4. QED
    <3> HIDE DEF New
    <3>1. QED
      BY <1>1, <1>2, <1>5, <2>3 DEF OnlyKernelPages
<1>7. memory_map' = [memory_map EXCEPT ![to] = @ + 1]
  <2>1. \A f \in MM!Frame : MM!NewUses(f, from, source) = 0
    BY NoFrameIsPage
  <2>2. memory_map' = [f \in MM!Frame |->
          [memory_map EXCEPT ![to] = @ + 1][f] + MM!NewUses(f, from, source)]
    BY Names DEF MM!CopyTable, MM!Taken
  <2>3. [memory_map EXCEPT ![to] = @ + 1] \in [MM!Frame -> Nat]
    BY <1>1
  <2> DEFINE map == [memory_map EXCEPT ![to] = @ + 1]
  <2>4. \A f \in MM!Frame : map[f] + 0 = map[f]
    BY <2>3
  <2>5. memory_map' = [f \in MM!Frame |-> map[f]]
    <3> HIDE DEF map
    <3>1. QED
      BY <2>1, <2>2, <2>4 DEF map
  <2>6. QED
    BY <2>3, <2>5
<1>8. UNCHANGED memory
  <2>1. MM!KeepLeftovers(to)
    BY DEF MM!CopyTable
  <2>2. \A e \in MM!Entry : content'[to][e].page # Junk
    BY <1>6, MemorySizes DEF OnlyKernelPages
  <2>3. QED
    BY <2>1, <2>2 DEF MM!KeepLeftovers
<1>9. page_dir' = [page_dir EXCEPT ![dest] = to]
  BY DEF MM!CopyTable
<1>10. QED
  BY <1>6, <1>7, <1>8, <1>9

(* Whatever comes of the attempt to give a child memory.                   *)
LEMMA ForkKeepsMemory ==
  ASSUME BaseInv, MemoryInv, NEW index \in Index, NEW page \in Process,
         ForkProcess(index, page)
  PROVE  MemoryInv'
<1> DEFINE from == page_dir[ldt_base[current]]
           dest == MM!SegmentOf(index)
           to   == MM!FreeFrame(memory_map)
<1>1. /\ index = p_counter /\ page = p_counter /\ p_counter' = p_counter + 1
      /\ current \in Live
      /\ start_code' = [start_code EXCEPT ![page] = StartCode(index, current)]
      /\ gone' = gone /\ MM!set_LDT_desc(index, current)
  BY ForkIsForNext DEF MM!ForkSegment
<1>2. /\ page_dir \in [MM!Dir -> MM!Frame \cup {NULL}]
      /\ content \in [MM!Frame -> [MM!Entry -> MM!Item]]
      /\ memory_map \in [MM!Frame -> Nat]
      /\ ldt_base \in [Index -> MM!Dir \cup {NULL}]
      /\ memory \in {"up", "stray", "fault"} /\ gone = {}
      /\ start_code \in [Process -> MM!Dir]
      /\ MM!MMTypeOK /\ OnlyKernelPages /\ TablesCounted
  BY Names DEF MemoryInv, MemoryTypes, MM!MMTypeOK, Segments
<1>3. dest \in MM!Dir /\ 0 \in MM!Dir
  BY SegmentPlaces, Names
<1>4. /\ current \in Index /\ current < p_counter /\ p_counter \in Nat
      /\ ldt_base[current] \in MM!Dir
  <2>1. current \in Index /\ current < p_counter /\ p_counter \in Nat
    BY <1>1, TasksAreNumbers DEF BaseInv, TypeOK
  <2>2. QED
    BY <2>1, SegmentPlaces DEF MemoryInv, Segments
<1>5. ldt_base' = [ldt_base EXCEPT ![index] = dest]
  BY <1>1 DEF MM!set_LDT_desc
<1>6. start_code' \in [Process -> MM!Dir]
  BY <1>1, <1>2, <1>3 DEF StartCode
<1>7. Segments'
  <2>1. \A i \in Index : i < p_counter' <=> i < p_counter \/ i = index
    BY <1>1, <1>4, Numbers
  <2>2. \A i \in Index : ldt_base'[i] = IF i = index THEN dest ELSE ldt_base[i]
    BY <1>2, <1>5
  <2>3. \A i \in Index :
          ldt_base'[i] = IF i < p_counter' THEN MM!SegmentOf(i) ELSE NULL
    BY <2>1, <2>2 DEF MemoryInv, Segments
  <2>4. QED
    BY <1>1, <1>2, <2>3 DEF Segments
<1>8. ASSUME page_dir' \in [MM!Dir -> MM!Frame \cup {NULL}],
             content' \in [MM!Frame -> [MM!Entry -> MM!Item]],
             memory_map' \in [MM!Frame -> Nat],
             memory' \in {"up", "stray", "fault"},
             OnlyKernelPages', TablesCounted'
      PROVE  MemoryInv'
  <2>1. ldt_base' \in [MM!Index -> MM!Dir \cup {NULL}] /\ gone' \subseteq MM!Index
    BY <1>1, <1>2, <1>3, <1>5, Names
  <2>2. QED
    BY <1>6, <1>7, <1>8, <2>1 DEF MemoryInv, MemoryTypes, MM!MMTypeOK
<1>9. CASE page_dir[dest] # NULL
  <2>1. MM!free_page_tables(dest)
    BY <1>1, <1>9 DEF MM!set_LDT_desc
  <2>2. QED
    BY <1>2, <1>3, <1>8, <2>1, FreeKeepsTypes
<1>10. CASE page_dir[dest] = NULL /\ (from = NULL \/ to = NULL)
  <2>1. UNCHANGED <<page_dir, content, memory_map, memory>>
    BY <1>1, <1>10 DEF MM!set_LDT_desc
  <2>2. QED
    BY <1>2, <1>8, <2>1 DEF OnlyKernelPages, TablesCounted
<1>11. CASE page_dir[dest] = NULL /\ from # NULL /\ to # NULL
  <2>1. MM!CopyTable(from, to, ldt_base[current], dest)
    BY <1>1, <1>11 DEF MM!set_LDT_desc
  <2>2. from \in MM!Frame /\ to \in MM!Frame /\ memory_map[from] # 0
    BY <1>2, <1>4, <1>11, FirstFreeFrame DEF TablesCounted
  <2>3. memory_map[to] = 0
    BY <1>2, <1>11, FirstFreeFrame
  <2>4. /\ page_dir' = [page_dir EXCEPT ![dest] = to]
        /\ content' \in [MM!Frame -> [MM!Entry -> MM!Item]]
        /\ memory_map' = [memory_map EXCEPT ![to] = @ + 1]
        /\ UNCHANGED memory /\ OnlyKernelPages'
    <3> HIDE DEF from, to, dest
    <3>1. QED
      BY <1>2, <1>3, <2>1, <2>2, <2>3, CopyKeepsTypes
  <2>5. TablesCounted'
    <3> HIDE DEF from, to, dest
    <3>1. QED
      BY <1>2, <1>3, <2>2, <2>3, <2>4, Names DEF TablesCounted
  <2>6. QED
    <3> HIDE DEF from, to, dest
    <3>1. QED
      BY <1>2, <1>3, <1>8, <2>2, <2>4, <2>5
<1>12. QED
  BY <1>9, <1>10, <1>11

(* The boot's state, and every step of the system.                         *)
LEMMA MemoryInvInit == OSInit => MemoryInv
<1> SUFFICES ASSUME OSInit PROVE MemoryInv
  OBVIOUS
<1> USE Names
<1>1. /\ MM!Absent \in MM!Item /\ MM!Absent.page = NULL
      /\ [page |-> Kernel, write |-> TRUE] \in MM!Item
  BY DEF MM!Absent, MM!Item, MM!PageOrNull
<1>2. MM!MMTypeOK
  BY <1>1 DEF OSInit, MM!MMInit, MM!MMTypeOK
<1>3. OnlyKernelPages
  BY <1>1 DEF OSInit, MM!MMInit, OnlyKernelPages
<1>4. TablesCounted
  BY DEF OSInit, MM!MMInit, TablesCounted
<1>5. Segments
  <2>1. p_counter = 1 /\ ldt_base = [i \in Index |-> IF i = 0 THEN 0 ELSE NULL]
    BY DEF OSInit, Init, MM!MMInit
  <2>2. \A i \in Index : i < 1 <=> i = 0
    BY SizesAssumption DEF Index
  <2>3. 0 \in Index /\ MM!SegmentOf(0) = 0
    BY SegmentPlaces, Numbers
  <2>4. QED
    BY <2>1, <2>2, <2>3 DEF OSInit, MM!MMInit, Segments
<1>6. QED
  BY <1>2, <1>3, <1>4, <1>5 DEF OSInit, MemoryInv, MemoryTypes

LEMMA MemoryInvStep == BaseInv /\ MemoryInv /\ [OSNext]_osVars => MemoryInv'
<1> SUFFICES ASSUME BaseInv, MemoryInv, [OSNext]_osVars
             PROVE  MemoryInv'
  OBVIOUS
<1>1. ASSUME NEW index \in Index, NEW page \in Process, ForkProcess(index, page)
      PROVE  MemoryInv'
  BY <1>1, ForkKeepsMemory
<1>2. ASSUME UNCHANGED <<memVars, p_counter>>
      PROVE  MemoryInv'
  BY <1>2 DEF memVars, MemoryInv, MemoryTypes, MM!MMTypeOK, OnlyKernelPages,
              TablesCounted, Segments
<1>3. Others => UNCHANGED <<memVars, p_counter>>
  BY DEF Others, ForkFails, pmVars, ChildReturn, Sleep, SleepReturn, WakeUp, Nice,
         Quit
<1>4. UNCHANGED osVars => UNCHANGED <<memVars, p_counter>>
  BY DEF osVars, vars, pmVars
<1>5. QED
  BY <1>1, <1>2, <1>3, <1>4 DEF OSNext

LEMMA MemoryInvAlways == OSSpec => [](BaseInv /\ MemoryInv)
<1>1. OSSpec => []BaseInv
  BY SystemIsProcessManage, BaseInvAlways, PTL
<1>2. QED
  BY <1>1, MemoryInvInit, MemoryInvStep, PTL DEF OSSpec

(***************************************************************************)
(* What a fork maps                                                        *)
(***************************************************************************)

(* As long as slots are in range, the segment that a fork asks for is free,*)
(* for no other slot's segment is there.                                   *)
LEMMA NextSegmentIsFree ==
  ASSUME BaseInv, MemoryInv, SegmentsInRange => Mapped,
         NEW index \in Index, NEW page \in Process, ForkProcess(index, page),
         index * SEG_DIRS < PAGE_DIR_SIZE
  PROVE  /\ SegmentsInRange
         /\ page_dir[MM!SegmentOf(index)] = NULL
<1>1. /\ index = p_counter /\ index \in Nat
      /\ Live = {i \in Index : i < p_counter} /\ Index \subseteq Nat
  BY ForkIsForNext, TasksAreNumbers, Numbers
<1>2. ASSUME NEW i \in Live PROVE i * SEG_DIRS < PAGE_DIR_SIZE /\ i # index
  <2>1. i \in Nat /\ i < index
    BY <1>1
  <2>2. i * SEG_DIRS < index * SEG_DIRS
    BY <1>1, <2>1, ProductsDiffer
  <2>3. i * SEG_DIRS \in Nat /\ index * SEG_DIRS \in Nat /\ PAGE_DIR_SIZE \in Nat
    BY <1>1, <2>1, MemorySizes
  <2>4. QED
    BY <2>1, <2>2, <2>3
<1>3. SegmentsInRange
  BY <1>2 DEF SegmentsInRange
<1>4. \A i \in Live : MM!SegmentOf(i) # MM!SegmentOf(index)
  BY <1>1, <1>2, SegmentsAreApart
<1>5. QED
  BY <1>3, <1>4, SegmentPlaces DEF Mapped

(* The child's segment is mapped by the next frame, and it is told where.  *)
LEMMA ForkMaps ==
  ASSUME FramesSuffice, BaseInv, MemoryInv, SegmentsInRange => Mapped,
         NEW index \in Index, NEW page \in Process, ForkProcess(index, page),
         SegmentsInRange'
  PROVE  Mapped'
<1> DEFINE from == page_dir[ldt_base[current]]
           dest == MM!SegmentOf(index)
           to   == MM!FreeFrame(memory_map)
<1>1. /\ index = p_counter /\ page = p_counter /\ p_counter' = p_counter + 1
      /\ current \in Live /\ Live' = Live \cup {index}
      /\ start_code' = [start_code EXCEPT ![page] = StartCode(index, current)]
      /\ MM!set_LDT_desc(index, current)
  BY ForkIsForNext DEF MM!ForkSegment
<1>2. SegmentsInRange /\ page_dir[dest] = NULL /\ Mapped
  BY <1>1, NextSegmentIsFree DEF SegmentsInRange
<1>3. /\ page_dir \in [MM!Dir -> MM!Frame \cup {NULL}]
      /\ memory_map \in [MM!Frame -> Nat]
      /\ start_code \in [Process -> MM!Dir]
      /\ MM!MMTypeOK /\ OnlyKernelPages /\ TablesCounted
  BY DEF MemoryInv, MemoryTypes, MM!MMTypeOK
<1>4. /\ index \in Nat /\ index \in MM!Frame /\ memory_map[index] = 0
      /\ Live \subseteq Index /\ Live = {i \in Index : i < p_counter}
      /\ index \notin Live
  <2>1. index \in Nat /\ index < MAX_TASK_NUM
    BY SizesAssumption DEF Index
  <2>2. index \in MM!Frame
    BY <2>1, MemorySizes, SizesAssumption DEF FramesSuffice, MM!Frame
  <2>3. QED
    BY <1>1, <1>2, <2>1, <2>2, TasksAreNumbers DEF Mapped
<1>5. /\ to \in MM!Frame /\ to <= index /\ to # NULL /\ memory_map[to] = 0
  BY <1>3, <1>4, FirstFreeFrame
<1>6. /\ ldt_base[current] = MM!SegmentOf(current)
      /\ MM!SegmentOf(current) \in MM!Dir /\ dest \in MM!Dir
      /\ from \in MM!Frame /\ from # NULL /\ from # to
  <2>1. ldt_base[current] = MM!SegmentOf(current) /\ current \in Index
    BY <1>1, <1>4 DEF MemoryInv, Segments
  <2>2. MM!SegmentOf(current) \in MM!Dir /\ dest \in MM!Dir
    BY <2>1, SegmentPlaces
  <2>3. from \in MM!Frame /\ from # NULL
    BY <1>1, <1>2, <1>3, <2>1, <2>2 DEF Mapped
  <2>4. QED
    BY <1>3, <1>5, <2>1, <2>2, <2>3 DEF TablesCounted
<1>7. MM!CopyTable(from, to, ldt_base[current], dest)
  BY <1>1, <1>2, <1>5, <1>6 DEF MM!set_LDT_desc
<1>8. /\ page_dir' = [page_dir EXCEPT ![dest] = to]
      /\ memory_map' = [memory_map EXCEPT ![to] = @ + 1]
      /\ UNCHANGED memory
  <2> HIDE DEF from, to, dest
  <2>1. QED
    BY <1>3, <1>5, <1>6, <1>7, CopyKeepsTypes
<1>9. start_code' = [start_code EXCEPT ![page] = dest]
  BY <1>1, <1>2, <1>5, <1>6 DEF StartCode
<1>10. \A i \in Live' : /\ page_dir'[MM!SegmentOf(i)] # NULL
                        /\ start_code'[i] = MM!SegmentOf(i)
  <2>1. \A i \in Live : MM!SegmentOf(i) \in MM!Dir /\ MM!SegmentOf(i) # dest
    BY <1>2, <1>4, SegmentPlaces DEF Mapped
  <2>2. \A i \in Live : i \in Process /\ i # page
    BY <1>1, <1>4, TasksAreNumbers
  <2> HIDE DEF to, dest
  <2>3. ASSUME NEW i \in Live
        PROVE  /\ page_dir'[MM!SegmentOf(i)] # NULL
               /\ start_code'[i] = MM!SegmentOf(i)
    BY <1>2, <1>3, <1>8, <1>9, <2>1, <2>2 DEF Mapped
  <2>4. page_dir'[dest] # NULL /\ start_code'[index] = dest
    BY <1>1, <1>3, <1>5, <1>6, <1>8, <1>9
  <2>5. QED
    BY <1>1, <2>3, <2>4 DEF dest
<1>11. \A d \in MM!Dir : page_dir'[d] # NULL =>
         \E i \in Live' : d = MM!SegmentOf(i)
  BY <1>1, <1>2, <1>3, <1>8 DEF Mapped
<1>12. \A f \in MM!Frame : f >= p_counter' => memory_map'[f] = 0
  <2> HIDE DEF to
  <2>1. QED
    BY <1>1, <1>2, <1>3, <1>4, <1>5, <1>8, Names DEF Mapped
<1>13. QED
  BY <1>2, <1>8, <1>10, <1>11, <1>12 DEF Mapped

LEMMA MappedInit == OSInit => (SegmentsInRange => Mapped)
<1> SUFFICES ASSUME OSInit PROVE Mapped
  OBVIOUS
<1>1. Live = {0} /\ p_counter = 1
  BY Numbers DEF OSInit, Init, Live
<1>2. MM!SegmentOf(0) = 0 /\ 0 \in MM!Dir /\ 0 \in Process
  BY SegmentPlaces, Numbers, Names
<1>3. \A f \in MM!Frame : f >= 1 => f # 0
  BY Names
<1>4. QED
  BY <1>1, <1>2, <1>3, Names DEF OSInit, MM!MMInit, Mapped

LEMMA MappedStep ==
  ASSUME FramesSuffice
  PROVE  BaseInv /\ MemoryInv /\ (SegmentsInRange => Mapped) /\ [OSNext]_osVars
           => (SegmentsInRange => Mapped)'
<1> SUFFICES ASSUME BaseInv, MemoryInv, SegmentsInRange => Mapped,
                    [OSNext]_osVars, SegmentsInRange'
             PROVE  Mapped'
  OBVIOUS
<1>1. ASSUME NEW index \in Index, NEW page \in Process, ForkProcess(index, page)
      PROVE  Mapped'
  BY <1>1, ForkMaps
<1>2. ASSUME UNCHANGED <<memVars, p_counter, task_array>>
      PROVE  Mapped'
  BY <1>2 DEF memVars, SegmentsInRange, Mapped, Live
<1>3. Others => UNCHANGED <<memVars, p_counter, task_array>>
  BY DEF Others, ForkFails, pmVars, ChildReturn, Sleep, SleepReturn, WakeUp, Nice,
         Quit
<1>4. UNCHANGED osVars => UNCHANGED <<memVars, p_counter, task_array>>
  BY DEF osVars, vars, pmVars
<1>5. QED
  BY <1>1, <1>2, <1>3, <1>4 DEF OSNext

LEMMA MappedAlways ==
  ASSUME FramesSuffice
  PROVE  OSSpec => [](BaseInv /\ MemoryInv /\ (SegmentsInRange => Mapped))
BY MemoryInvAlways, MappedInit, MappedStep, PTL DEF OSSpec

(***************************************************************************)
(* Theorems                                                                *)
(***************************************************************************)

(* Processor, process manager and memory manager keep their types, also    *)
(* when segments wrap around and when a fork finds no frame.               *)
THEOREM SystemTypes == OSSpec => []OSTypeOK
<1>1. BaseInv /\ MemoryInv => OSTypeOK
  BY DEF BaseInv, MemoryInv, MemoryTypes, OSTypeOK
<1>2. QED
  BY <1>1, MemoryInvAlways, PTL

(* As long as their slots are in range all tasks have memory of their own, *)
(* however they are forked, scheduled and put to sleep.                    *)
THEOREM TasksStayMapped ==
  ASSUME FramesSuffice
  PROVE  OSSpec => [](SegmentsInRange => EveryTaskIsMapped)
<1>1. BaseInv /\ MemoryInv /\ Mapped /\ SegmentsInRange => EveryTaskIsMapped
  <2> SUFFICES ASSUME BaseInv, MemoryInv, Mapped, SegmentsInRange
               PROVE  EveryTaskIsMapped
    OBVIOUS
  <2>1. Live = {i \in Index : i < p_counter} /\ \A i \in Live : task_array[i] = i
    BY TasksAreNumbers
  <2>2. \A i \in Live : ldt_base[i] = MM!SegmentOf(i) /\ ldt_base[i] \in MM!Dir
    BY <2>1, SegmentPlaces DEF MemoryInv, Segments
  <2>3. \A i, j \in Live : ldt_base[i] = ldt_base[j] => i = j
    BY <2>1, <2>2, SegmentsAreApart DEF SegmentsInRange
  <2>4. QED
    BY <2>1, <2>2, <2>3, Names DEF Mapped, EveryTaskIsMapped
<1>2. QED
  BY <1>1, MappedAlways, PTL

(* Nor is a wild pointer followed: set_LDT_desc never has to free a table, *)
(* and makes none over words of data.                                      *)
THEOREM ForksAreHarmless ==
  ASSUME FramesSuffice
  PROVE  OSSpec => [](SegmentsInRange => memory = "up")
<1>1. Mapped => memory = "up"
  BY DEF Mapped
<1>2. QED
  BY <1>1, MappedAlways, PTL

(* Every fork whose slot the directory has room for finds its segment free,*)
(* one after another: the first 64 of the code's 255.                      *)
THEOREM SegmentsAreFreeWithRoom ==
  ASSUME FramesSuffice
  PROVE  OSSpec => [][\A i \in Index :
           (i * SEG_DIRS < PAGE_DIR_SIZE /\ task_array[i] = NULL /\ task_array'[i] # NULL)
             => page_dir[MM!SegmentOf(i)] = NULL]_osVars
<1> DEFINE Inv == BaseInv /\ MemoryInv /\ (SegmentsInRange => Mapped)
           Free == \A i \in Index :
             (i * SEG_DIRS < PAGE_DIR_SIZE /\ task_array[i] = NULL /\ task_array'[i] # NULL)
               => page_dir[MM!SegmentOf(i)] = NULL
<1>1. Inv /\ [OSNext]_osVars => [Free]_osVars
  <2> SUFFICES ASSUME Inv, OSNext PROVE Free \/ UNCHANGED osVars
    OBVIOUS
  <2>1. ASSUME NEW index \in Index, NEW page \in Process, ForkProcess(index, page)
        PROVE  Free
    <3>1. index * SEG_DIRS < PAGE_DIR_SIZE => page_dir[MM!SegmentOf(index)] = NULL
      BY <2>1, NextSegmentIsFree
    <3>2. task_array' = [task_array EXCEPT ![index] = page]
      BY <2>1 DEF ForkProcess, Fork
    <3>3. task_array \in [Index -> ProcessOrNull]
      BY DEF BaseInv, TypeOK
    <3>4. QED
      BY <3>1, <3>2, <3>3
  <2>2. ASSUME UNCHANGED task_array PROVE Free
    BY <2>2
  <2>3. Others => UNCHANGED task_array
    BY DEF Others, ForkFails, pmVars, ChildReturn, Sleep, SleepReturn, WakeUp,
           Nice, Quit
  <2>4. QED
    BY <2>1, <2>2, <2>3 DEF OSNext
<1>2. OSSpec => []Inv
  BY MappedAlways
<1>3. QED
  BY <1>1, <1>2, PTL DEF OSSpec
=============================================================================
