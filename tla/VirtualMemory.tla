--------------------------- MODULE VirtualMemory ---------------------------
(***************************************************************************)
(* The memory manager with what its frames hold, and the tasks that read   *)
(* and write through their page tables: what forks, page faults and copies *)
(* on write look like from inside a task.                                  *)
(***************************************************************************)
EXTENDS MemoryManage

CONSTANTS Value, Zero     \* what a page can hold; what it holds at first

ASSUME ValueAssumption == Zero \in Value /\ Value \cap {NULL, Kernel} = {}

VARIABLE data     \* frame -> what it holds, read as a page of a task

vmVars == <<mmVars, data>>

VMTypeOK == MMTypeOK /\ data \in [Frame -> Value]

VMInit == MMInit /\ data = [f \in Frame |-> Zero]

(* A mutant of CopyPage: nothing is copied.                                *)
CopyPage_None(old, page) == UNCHANGED data

(* copy_page(old, new).  Of the kernel's pages only some value is known;   *)
(* with no new page the copy goes to page 0 of the kernel.                 *)
CopyPage(old, page) ==
  IF page = NULL
    THEN UNCHANGED data
    ELSE \E v \in IF old = Kernel THEN Value ELSE {data[old]} :
           data' = [data EXCEPT ![page] = v]

(* What copy_page does at the end of un_wp_page.                           *)
WriteFault(index, entry) ==
  LET old == content[page_dir[ldt_base[index]]][entry].page
  IN  /\ un_wp_page(index, entry)
      /\ IF old \in Frame /\ memory_map[old] = 1
           THEN UNCHANGED data
           ELSE CopyPage(old, FreeFrame(memory_map))

(* do_no_page: an absent page at or above end_data, counted from the task's*)
(* code, is put there.  Nobody sets end_data, it stays 0, and so that is   *)
(* every absent page.  The frame is not cleared.                           *)
do_no_page(index, entry) == put_page(index, entry) /\ UNCHANGED data

(* memory_map counts in chars: one less than 0 is 255 again, as a byte.    *)
CountDown(map, f) ==
  IF f \in Frame THEN [map EXCEPT ![f] = (@ + 255) % 256] ELSE map

(* copy_on_write, the intended handler of a write fault.  It hands         *)
(* un_wp_page the value of an entry for the address of one, and that       *)
(* entry's index loses its last two bits: what un_wp_page takes for an     *)
(* entry is a word of the page it maps.  The word names some page `old' (in*)
(* the kernel; NULL: above the memory, where memory_map is read past its   *)
(* end) and gets its write bit set, if that is `last' used there, or a new *)
(* page, a copy of `old'.  No table changes.                               *)
copy_on_write(index, entry) ==
  LET t    == page_dir[ldt_base[index]]
      page == content[t][entry - (entry % 4)].page
      new  == FreeFrame(memory_map)
  IN  /\ memory = "up"
      /\ Alive(index)
      /\ t # NULL
      /\ content[t][entry].page # NULL /\ ~content[t][entry].write
      /\ memory' = "fault"
      /\ \E old \in Frame \cup {Kernel, NULL}, last \in BOOLEAN, v, w \in Value :
           LET written == IF page \in Frame THEN [data EXCEPT ![page] = v]
                                            ELSE data
               copy    == IF old \in Frame THEN written[old] ELSE w
           IN  /\ old # NULL => last = (old \in Frame /\ memory_map[old] = 1)
               /\ IF last
                    THEN memory_map' = memory_map /\ data' = written
                    ELSE /\ memory_map' = CountDown(Taken(memory_map, new), old)
                         /\ data' = IF new = NULL THEN written
                                    ELSE [written EXCEPT ![new] = copy]
      /\ UNCHANGED <<page_dir, content, ldt_base, gone>>

(* A task writes where its table lets it.                                  *)
Write(index, entry, v) ==
  LET t == page_dir[ldt_base[index]]
  IN  /\ memory = "up"
      /\ Alive(index)
      /\ t # NULL
      /\ content[t][entry].page \in Frame /\ content[t][entry].write
      /\ data' = [data EXCEPT ![content[t][entry].page] = v]
      /\ UNCHANGED mmVars

VMNext ==
  \/ \E index, current_index \in Index :
       ForkSegment(index, current_index) /\ UNCHANGED data
  \/ \E index \in Index, entry \in Entry : do_no_page(index, entry)
  \/ \E index \in Index, entry \in Entry : WriteFault(index, entry)
  \/ \E index \in Index, entry \in Entry, v \in Value : Write(index, entry, v)

VMSpec == VMInit /\ [][VMNext]_vmVars

(* With the handler as it stands in front of un_wp_page.                   *)
FaultNext ==
  \/ \E index, current_index \in Index :
       ForkSegment(index, current_index) /\ UNCHANGED data
  \/ \E index \in Index, entry \in Entry : do_no_page(index, entry)
  \/ \E index \in Index, entry \in Entry : copy_on_write(index, entry)

FaultSpec == VMInit /\ [][FaultNext]_vmVars

(* What task i sees.                                                       *)
Sees(i) ==
  IF ldt_base[i] = NULL \/ page_dir[ldt_base[i]] = NULL
    THEN [e \in Entry |-> NULL]
    ELSE [e \in Entry |->
            LET page == content[page_dir[ldt_base[i]]][e].page
            IN  IF page \in Frame THEN data[page] ELSE page]

(* Copy on write cannot be noticed: while there are frames, whatever tasks *)
(* fork, fault and write, and in whatever order the sharers of a page fall *)
(* apart, each sees what it would see if every fork had copied every page. *)
Space == INSTANCE AddressSpace WITH
  Task <- Index, First <- 0, Page <- Entry,
  Inherited <- [i \in Index |-> IF i = 0 THEN 0 .. COPY_PAGES - 1 ELSE Entry],
  KernelPage <- 0 .. KERNEL_PAGES - 1,
  tasks <- {i \in Index : ldt_base[i] # NULL},
  space <- [i \in Index |-> Sees(i)]

ImplementsAddressSpace == Space!SpaceSpec

(* Only writes write: what a task sees in its pages is the same before and *)
(* after whatever the memory manager does, a fork or a fault of its own or *)
(* of another task.                                                        *)
ManagerKeepsContents ==
  [][mmVars' # mmVars =>
       \A i \in Index, e \in Entry :
         Sees(i)[e] \in Value => Sees(i)'[e] = Sees(i)[e]]_vmVars

(* After its write fault was handled a task can write to the page.         *)
WriteFaultsAreServed ==
  [][\A i \in Index, e \in Entry : copy_on_write(i, e) =>
       content'[page_dir[ldt_base[i]]][e].write]_vmVars
=============================================================================
