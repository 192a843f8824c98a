---------------------------- MODULE Boot_proof ----------------------------
(***************************************************************************)
(* The boot sequence, for any size of the kernel and of the tables that    *)
(* hold it, and whatever the dirty frames contained: what state it leaves, *)
(* and that it is the one MutixOS starts from where memory was clear.      *)
(***************************************************************************)
EXTENDS Boot, WellFoundedInduction, TLAPS

(* The block that memory_map lies in is zero somewhere.  Without this there*)
(* need not be a frame for the first page table, and no Init checks that.  *)
FrameForTable == Frame \ DirtyFrames # {}

(***************************************************************************)
(* The inductive invariant                                                 *)
(***************************************************************************)

(* The constructor has no branches: how far it has come determines all but *)
(* the frames.                                                             *)
PointersSet ==
  (IF pc > 1 THEN {"SCI"} ELSE {}) \cup (IF pc > 2 THEN {"MM"} ELSE {})
    \cup (IF pc > 5 THEN {"PM"} ELSE {})

FirstObject ==
  [pid |-> 0, father |-> -1, state |-> "DEAD", priority |-> 15,
   start_code |-> 0, tss |-> [cr3 |-> "page_dir", ldt |-> 0]]

Straight ==
  /\ ~wild
  /\ pc < 3 => i = 0
  /\ pc > 3 => i = KERNEL_PAGES
  /\ pointers = PointersSet
  /\ pc > 1 /\ pc < 5 => sci.page_fault = "on_reserved"
  /\ pc > 4 => sci.page_fault = "on_page_fault"
  /\ pc > 5 => sci.calls = Calls
  /\ pc > 2 /\ pc < 6 => gdt.tss = NULL
  /\ pc > 5 => gdt.tss = FirstProcess /\ gdt.ldt
  /\ pc < 6 => pm.p_counter = 0
  /\ pc > 5 => /\ pm.task = FirstProcess /\ pm.current = FirstProcess
               /\ pm.used = 1 /\ pm.p_counter = 1
  /\ pc > 5 => process = FirstObject
  /\ pc > 2 => cpu.cr3 = "page_dir" /\ cpu.gdt = "gdt"
  /\ pc > 6 => cpu.tr = FirstProcess /\ cpu.ldt = 0
  /\ pc > 8 => pm.que_used /\ saved = "boot"

(* One table at most, in the first frame that was free, which maps as many *)
(* pages onto themselves as the loop has come to.                          *)
OneTable ==
  /\ \A d \in Dir \ {0} : page_dir[d] = NULL
  /\ page_dir[0] = NULL => i = 0
  /\ \A f \in Frame \ DirtyFrames :
       memory_map[f] = IF f = page_dir[0] THEN 1 ELSE 0
  /\ page_dir[0] # NULL =>
       /\ pc > 2
       /\ memory_map[page_dir[0]] = 1
       /\ \A f \in Frame : f < page_dir[0] => memory_map[f] # 0
  /\ \A f \in Frame : \A e \in Entry :
       /\ f = page_dir[0] /\ e < i => content[f][e] = e
       /\ f \notin DirtyFrames /\ ~(f = page_dir[0] /\ e < i) =>
            content[f][e] = NULL

BootInv == BootTypeOK /\ Straight /\ OneTable

(***************************************************************************)
(* Lemmas                                                                  *)
(***************************************************************************)

LEMMA Steps ==
  /\ Len(Order) = 9
  /\ \A n \in 1 .. 9 :
       /\ Order[n] = "InitSCI"   <=> n = 1
       /\ Order[n] = "InitMM"    <=> n = 2
       /\ Order[n] = "MapKernel" <=> n = 3
       /\ Order[n] = "SetTraps"  <=> n = 4
       /\ Order[n] = "InitPM"    <=> n = 5
       /\ Order[n] = "ltr"       <=> n = 6
       /\ Order[n] = "lldt"      <=> n = 7
       /\ Order[n] = "switch_to" <=> n = 8
       /\ Order[n] = "running"   <=> n = 9
<1>1. Len(Order) = 9
  BY DEF Order
<1>2. /\ Order[1] = "InitSCI" /\ Order[2] = "InitMM" /\ Order[3] = "MapKernel"
      /\ Order[4] = "SetTraps" /\ Order[5] = "InitPM" /\ Order[6] = "ltr"
      /\ Order[7] = "lldt" /\ Order[8] = "switch_to" /\ Order[9] = "running"
  BY DEF Order
<1>3. \A n \in 1 .. 9 : n \in {1, 2, 3, 4, 5, 6, 7, 8, 9}
  OBVIOUS
<1>4. QED
  BY <1>1, <1>2, <1>3

(* The kernel's pages are entries of the first table.                      *)
LEMMA KernelEntries ==
  /\ 0 \in Dir
  /\ \A k \in 0 .. KERNEL_PAGES - 1 :
       /\ k \in Entry /\ k \in Page
       /\ k \div PAGE_TABLE_SIZE = 0
       /\ k % PAGE_TABLE_SIZE = k
<1>1. 0 \in Dir
  BY BootAssumption DEF Dir
<1>2. ASSUME NEW k \in 0 .. KERNEL_PAGES - 1
      PROVE  /\ k \in Entry /\ k \in Page
             /\ k \div PAGE_TABLE_SIZE = 0
             /\ k % PAGE_TABLE_SIZE = k
  <2>1. /\ k \in Nat /\ k < PAGE_TABLE_SIZE
        /\ PAGE_TABLE_SIZE \in Nat /\ PAGE_TABLE_SIZE > 0
    BY BootAssumption
  <2>2. QED
    BY <2>1, BootAssumption DEF Entry, Page
<1>3. QED
  BY <1>1, <1>2

(* Every set of numbers but the empty one has a least element.             *)
LEMMA LeastNumber ==
  ASSUME NEW S \in SUBSET Nat, S # {}
  PROVE  \E n \in S : \A m \in S : n <= m
<1> DEFINE R == {p \in Nat \X Nat : p[1] < p[2]}
<1>1. IsWellFoundedOn(R, Nat)
  BY NatLessThanWellFounded DEF OpToRel
<1> HIDE DEF R
<1>2. PICK n \in S : \A m \in S : ~(<<m, n>> \in R)
  BY <1>1, WFMin
<1>3. \A m \in S : ~(m < n)
  BY <1>2 DEF R
<1>4. QED
  BY <1>3

(* get_free_page finds the first free frame.                               *)
LEMMA FirstFree ==
  ASSUME FreeFrames # {}
  PROVE  /\ get_free_page \in FreeFrames
         /\ \A g \in Frame : g < get_free_page => memory_map[g] # 0
<1>1. FreeFrames \subseteq Nat
  BY DEF FreeFrames, Frame
<1>2. \E f \in FreeFrames : \A g \in FreeFrames : f <= g
  BY <1>1, LeastNumber
<1>3. /\ get_free_page \in FreeFrames
      /\ \A g \in FreeFrames : get_free_page <= g
  BY <1>2 DEF get_free_page
<1>4. QED
  BY <1>1, <1>3 DEF FreeFrames, Frame

(* What the processor finds for a page that the loop has mapped.           *)
LEMMA MappedOntoItself ==
  ASSUME BootInv, NEW k \in 0 .. KERNEL_PAGES - 1, k < i
  PROVE  line2physical_addr(k) = k
<1>1. /\ k \in Entry /\ k \in Nat /\ i \in Nat
      /\ k \div PAGE_TABLE_SIZE = 0 /\ k % PAGE_TABLE_SIZE = k
  <2>1. i \in Nat
    BY BootAssumption DEF BootInv, BootTypeOK
  <2>2. k \in Nat
    OBVIOUS
  <2>3. QED
    BY <2>1, <2>2, KernelEntries
<1>2. page_dir[0] # NULL /\ page_dir[0] \in Frame
  BY <1>1, KernelEntries DEF BootInv, BootTypeOK, OneTable
<1>3. content[page_dir[0]][k] = k
  BY <1>1, <1>2 DEF BootInv, OneTable
<1>4. QED
  BY <1>1, <1>2, <1>3, BootAssumption DEF line2physical_addr

(***************************************************************************)
(* Every step                                                              *)
(***************************************************************************)

LEMMA BootInvInit ==
  BootInit => BootTypeOK /\ Straight /\ (FrameForTable => OneTable)
<1> SUFFICES ASSUME BootInit
             PROVE  BootTypeOK /\ Straight /\ (FrameForTable => OneTable)
  OBVIOUS
<1>1. PICK dirty \in SUBSET DirtyFrames :
        memory_map = [f \in Frame |-> IF f \in dirty THEN 1 ELSE 0]
  BY DEF BootInit
<1>a. PICK left \in [DirtyFrames -> LeftWords] :
        content = [f \in Frame |-> [e \in Entry |->
                     IF f \in DirtyFrames THEN left[f] ELSE NULL]]
  BY DEF BootInit
<1>2. 0 \in Dir /\ pc = 1
  BY KernelEntries DEF BootInit
<1>3. BootTypeOK
  <2>1. memory_map \in [Frame -> {0, 1}]
    BY <1>1
  <2>2. pc \in 1 .. Len(Order)
    BY <1>2, Steps
  <2>3. i \in 0 .. KERNEL_PAGES
    BY BootAssumption DEF BootInit
  <2>4. content \in [Frame -> [Entry -> Page \cup {NULL}]]
    <3>1. \A f \in DirtyFrames : left[f] \in Page \cup {NULL}
      BY <1>a, BootAssumption
    <3>2. QED
      BY <1>a, <3>1
  <2>5. QED
    BY <2>1, <2>2, <2>3, <2>4 DEF BootInit, BootTypeOK
<1>4. Straight
  BY <1>2 DEF BootInit, Straight, PointersSet
<1>5. ASSUME FrameForTable PROVE OneTable
  <2>1. \A f \in Frame \ DirtyFrames : memory_map[f] = 0 /\ f # NULL
    BY <1>1, BootAssumption DEF Frame
  <2>2. \A f \in Frame : \A e \in Entry :
          /\ f \notin DirtyFrames => content[f][e] = NULL
          /\ e \in Nat /\ ~(e < 0)
    BY <1>a, BootAssumption DEF Entry
  <2>3. page_dir = [d \in Dir |-> NULL] /\ i = 0
    BY DEF BootInit
  <2>4. QED
    BY <1>2, <2>1, <2>2, <2>3 DEF OneTable
<1>6. QED
  BY <1>3, <1>4, <1>5

(* A step that goes from one stage to the next keeps what is known of pc.  *)
LEMMA Stage ==
  ASSUME BootTypeOK, NEW n \in 1 .. 8, Order[pc] = Order[n], Done
  PROVE  pc = n /\ pc' = n + 1 /\ pc' \in 1 .. Len(Order)
<1>1. pc \in 1 .. 9 /\ n \in 1 .. 9
  BY Steps DEF BootTypeOK
<1>2. pc = n
  BY <1>1, Steps
<1>3. QED
  BY <1>2, Steps DEF Done

(* One pass of the loop maps one page more, in the table there is or, the  *)
(* first time, in the first free frame.                                    *)
LEMMA LoopMapsPage ==
  ASSUME FrameForTable, BootInv, pc = 3, pc' = pc, i < KERNEL_PAGES,
         write_page_table(i, i), i' = i + 1
  PROVE  /\ OneTable'
         /\ i' \in 0 .. KERNEL_PAGES
         /\ page_dir' \in [Dir -> Frame \cup {NULL}]
         /\ content' \in [Frame -> [Entry -> Page \cup {NULL}]]
         /\ memory_map' \in [Frame -> {0, 1}]
<1> DEFINE table == IF page_dir[0] # NULL THEN page_dir[0] ELSE get_free_page
<1>1. /\ i \in Nat /\ KERNEL_PAGES \in Nat
      /\ page_dir \in [Dir -> Frame \cup {NULL}]
      /\ content \in [Frame -> [Entry -> Page \cup {NULL}]]
      /\ memory_map \in [Frame -> {0, 1}]
  BY BootAssumption DEF BootInv, BootTypeOK
<1>2. /\ i \in Entry /\ i \in Page /\ 0 \in Dir
      /\ i \div PAGE_TABLE_SIZE = 0 /\ i % PAGE_TABLE_SIZE = i
  BY <1>1, KernelEntries
<1>3. i' \in 0 .. KERNEL_PAGES
  BY <1>1
<1>4. /\ \A f \in Frame : f \in Nat /\ f # NULL
      /\ \A e \in Entry : e \in Nat
  BY BootAssumption DEF Frame, Entry
<1>5. page_dir[0] = NULL => FreeFrames # {}
  BY <1>4 DEF BootInv, OneTable, FrameForTable, FreeFrames
<1>6. /\ page_dir' = [page_dir EXCEPT ![0] = table]
      /\ content' = [content EXCEPT ![table][i] = i]
      /\ memory_map' = IF page_dir[0] # NULL THEN memory_map
                       ELSE [memory_map EXCEPT ![table] = 1]
  BY <1>2, <1>5 DEF write_page_table
<1>7. /\ table \in Frame
      /\ page_dir[0] = NULL => \A g \in Frame : g < table => memory_map[g] # 0
  BY <1>1, <1>2, <1>5, FirstFree DEF FreeFrames
<1> HIDE DEF table
<1>8. /\ page_dir' \in [Dir -> Frame \cup {NULL}]
      /\ content' \in [Frame -> [Entry -> Page \cup {NULL}]]
      /\ memory_map' \in [Frame -> {0, 1}]
  BY <1>1, <1>2, <1>6, <1>7
<1>9. page_dir'[0] = table /\ \A d \in Dir \ {0} : page_dir'[d] = NULL
  BY <1>1, <1>2, <1>6 DEF BootInv, OneTable
<1>10. /\ memory_map'[table] = 1
       /\ \A f \in Frame : f < table => memory_map'[f] # 0
       /\ \A f \in Frame \ DirtyFrames :
            memory_map'[f] = IF f = table THEN 1 ELSE 0
  <2>1. CASE page_dir[0] = NULL
    <3>1. \A f \in Frame \ DirtyFrames : memory_map[f] = 0
      BY <1>4, <2>1 DEF BootInv, OneTable
    <3>2. QED
      BY <1>1, <1>4, <1>6, <1>7, <2>1, <3>1
  <2>2. CASE page_dir[0] # NULL
    BY <1>6, <2>2 DEF table, BootInv, OneTable
  <2>3. QED
    BY <2>1, <2>2
<1>11. ASSUME NEW f \in Frame, NEW e \in Entry
       PROVE  /\ f = table /\ e < i + 1 => content'[f][e] = e
              /\ f \notin DirtyFrames /\ ~(f = table /\ e < i + 1) =>
                   content'[f][e] = NULL
  <2>1. /\ f = table /\ e < i => content[f][e] = e
        /\ f \notin DirtyFrames /\ ~(f = table /\ e < i) =>
             content[f][e] = NULL
    <3>1. /\ f = page_dir[0] /\ e < i => content[f][e] = e
          /\ f \notin DirtyFrames /\ ~(f = page_dir[0] /\ e < i) =>
               content[f][e] = NULL
      BY DEF BootInv, OneTable
    <3>2. CASE page_dir[0] = NULL
      <4>1. i = 0 /\ ~(e < 0)
        BY <1>4, <3>2 DEF BootInv, OneTable
      <4>2. QED
        BY <3>1, <4>1
    <3>3. CASE page_dir[0] # NULL
      BY <3>1, <3>3 DEF table
    <3>4. QED
      BY <3>2, <3>3
  <2>2. content'[f][e] = IF f = table /\ e = i THEN i ELSE content[f][e]
    BY <1>1, <1>2, <1>6, <1>7
  <2>3. e < i + 1 <=> e < i \/ e = i
    BY <1>1, <1>4
  <2>4. QED
    BY <2>1, <2>2, <2>3
<1>12. OneTable'
  BY <1>4, <1>7, <1>9, <1>10, <1>11 DEF OneTable
<1>13. QED
  BY <1>3, <1>8, <1>12

(* Types hold whatever the memory contained: without a frame for the table *)
(* the loop only maps nothing.  switch_to needs the object ProcessInit made.*)
TypesInv == BootTypeOK /\ (pc > 5 => process # NULL)

CPUType ==
  [cr3 : {NULL, "page_dir"}, gdt : {NULL, "gdt"}, tr : {NULL} \cup Nat,
   ldt : {NULL, 0}, level : {"RESCUE_LEVEL", "USER_LEVEL"}]

LEMMA TableTypes ==
  ASSUME BootTypeOK, i < KERNEL_PAGES, write_page_table(i, i)
  PROVE  /\ page_dir' \in [Dir -> Frame \cup {NULL}]
         /\ content' \in [Frame -> [Entry -> Page \cup {NULL}]]
         /\ memory_map' \in [Frame -> {0, 1}]
<1> DEFINE table == IF page_dir[0] # NULL THEN page_dir[0] ELSE get_free_page
<1>1. /\ i \in 0 .. KERNEL_PAGES - 1
      /\ page_dir \in [Dir -> Frame \cup {NULL}]
      /\ content \in [Frame -> [Entry -> Page \cup {NULL}]]
      /\ memory_map \in [Frame -> {0, 1}]
  BY BootAssumption DEF BootTypeOK
<1>2. /\ i \in Entry /\ i \in Page /\ 0 \in Dir
      /\ i \div PAGE_TABLE_SIZE = 0 /\ i % PAGE_TABLE_SIZE = i
  BY <1>1, KernelEntries
<1>3. CASE page_dir[0] = NULL /\ FreeFrames = {}
  BY <1>1, <1>2, <1>3 DEF write_page_table
<1>4. CASE ~(page_dir[0] = NULL /\ FreeFrames = {})
  <2>1. /\ page_dir' = [page_dir EXCEPT ![0] = table]
        /\ content' = [content EXCEPT ![table][i] = i]
        /\ memory_map' = IF page_dir[0] # NULL THEN memory_map
                         ELSE [memory_map EXCEPT ![table] = 1]
    BY <1>2, <1>4 DEF write_page_table
  <2>2. table \in Frame
    BY <1>1, <1>2, <1>4, FirstFree DEF FreeFrames
  <2> HIDE DEF table
  <2>3. QED
    BY <1>1, <1>2, <2>1, <2>2
<1>5. QED
  BY <1>3, <1>4

LEMMA TypesStep == TypesInv /\ [BootNext]_bootVars => TypesInv'
<1> SUFFICES ASSUME TypesInv, [BootNext]_bootVars
             PROVE  TypesInv'
  OBVIOUS
<1> USE DEF TypesInv
<1>1. ASSUME InitSCI PROVE TypesInv'
  <2>1. pc = 1 /\ pc' = 2 /\ pc' \in 1 .. Len(Order)
    BY <1>1, Stage, Steps DEF InitSCI, At
  <2>2. QED
    BY <1>1, <2>1 DEF InitSCI, BootTypeOK
<1>2. ASSUME InitMM PROVE TypesInv'
  <2>1. pc = 2 /\ pc' = 3 /\ pc' \in 1 .. Len(Order)
    BY <1>2, Stage, Steps DEF InitMM, At
  <2>2. cpu' \in CPUType
    BY <1>2 DEF InitMM, BootTypeOK, CPUType
  <2>3. i' \in 0 .. KERNEL_PAGES /\ page_dir' \in [Dir -> Frame \cup {NULL}]
    BY <1>2, BootAssumption DEF InitMM
  <2>4. QED
    BY <1>2, <2>1, <2>2, <2>3 DEF InitMM, BootTypeOK, CPUType
<1>3. ASSUME MapKernel PROVE TypesInv'
  <2>1. pc = 3
    BY <1>3, Steps DEF MapKernel, At, BootTypeOK
  <2>2. wild' \in BOOLEAN /\ UNCHANGED <<pointers, sci, gdt, pm, process, cpu, saved>>
    BY <1>3 DEF MapKernel, Uses
  <2>3. CASE i < KERNEL_PAGES
    <3>1. pc' = pc /\ i' = i + 1 /\ write_page_table(i, i)
      BY <1>3, <2>3 DEF MapKernel, MappedPages
    <3>2. i' \in 0 .. KERNEL_PAGES
      BY <2>3, <3>1, BootAssumption DEF BootTypeOK
    <3>3. QED
      BY <2>1, <2>2, <2>3, <3>1, <3>2, TableTypes DEF BootTypeOK
  <2>4. CASE ~(i < KERNEL_PAGES)
    <3>1. pc' = 4 /\ pc' \in 1 .. Len(Order)
      BY <1>3, <2>1, <2>4, Steps DEF MapKernel, MappedPages, Done
    <3>2. UNCHANGED <<i, page_dir, content, memory_map>>
      BY <1>3, <2>4 DEF MapKernel, MappedPages
    <3>3. QED
      BY <2>1, <2>2, <3>1, <3>2 DEF BootTypeOK
  <2>5. QED
    BY <2>3, <2>4
<1>4. ASSUME SetTraps PROVE TypesInv'
  <2>1. pc = 4 /\ pc' = 5 /\ pc' \in 1 .. Len(Order)
    BY <1>4, Stage, Steps DEF SetTraps, At
  <2>2. QED
    BY <1>4, <2>1 DEF SetTraps, Uses, BootTypeOK
<1>5. ASSUME InitPM PROVE TypesInv'
  <2>1. pc = 5 /\ pc' = 6 /\ pc' \in 1 .. Len(Order)
    BY <1>5, Stage, Steps DEF InitPM, At
  <2>2. process' \in Object /\ process' # NULL
    BY <1>5, BootAssumption DEF InitPM, FirstTSS, BootTypeOK, Object, TSS
  <2>3. /\ pm' \in [task : {NULL, FirstProcess}, used : {0, 1},
                     current : {NULL, FirstProcess}, p_counter : Nat,
                     que_used : BOOLEAN]
        /\ sci' \in [page_fault : {NULL, "on_reserved", "on_page_fault"},
                     calls : SUBSET Calls]
        /\ gdt' \in [tss : {NULL, FirstProcess}, ldt : BOOLEAN]
    <3>1. /\ pm.p_counter \in Nat /\ pm.que_used \in BOOLEAN
          /\ pm = [task |-> pm.task, used |-> pm.used, current |-> pm.current,
                   p_counter |-> pm.p_counter, que_used |-> pm.que_used]
          /\ sci.page_fault \in {NULL, "on_reserved", "on_page_fault"}
          /\ sci = [page_fault |-> sci.page_fault, calls |-> sci.calls]
      BY DEF BootTypeOK
    <3>2. pm' = [task |-> FirstProcess, used |-> 1, current |-> FirstProcess,
                 p_counter |-> pm.p_counter + 1, que_used |-> pm.que_used]
      BY <1>5, <3>1 DEF InitPM, FirstPM
    <3>3. sci' = [page_fault |-> sci.page_fault, calls |-> Calls]
      BY <1>5, <3>1 DEF InitPM, Calls
    <3>4. gdt' = [tss |-> FirstProcess, ldt |-> TRUE]
      BY <1>5 DEF InitPM
    <3>5. pm.p_counter + 1 \in Nat
      BY <3>1
    <3>6. QED
      BY <3>1, <3>2, <3>3, <3>4, <3>5
  <2>4. pointers' \subseteq {"SCI", "MM", "PM"} /\ wild' \in BOOLEAN
    BY <1>5 DEF InitPM, BootTypeOK
  <2>5. UNCHANGED <<i, page_dir, content, memory_map, cpu, saved>>
    BY <1>5 DEF InitPM
  <2>6. QED
    BY <2>1, <2>2, <2>3, <2>4, <2>5 DEF BootTypeOK
<1>6. ASSUME ltr PROVE TypesInv'
  <2>1. pc = 6 /\ pc' = 7 /\ pc' \in 1 .. Len(Order)
    BY <1>6, Stage, Steps DEF ltr, At
  <2>2. process \in Object
    BY <2>1 DEF BootTypeOK
  <2>3. line2physical_addr(FirstProcess) \in Nat
    <3>1. /\ FirstProcess \in Entry /\ 0 \in Dir
          /\ FirstProcess \div PAGE_TABLE_SIZE = 0
          /\ FirstProcess % PAGE_TABLE_SIZE = FirstProcess
      BY KernelEntries, BootAssumption
    <3>2. page_dir[0] # NULL =>
            content[page_dir[0]][FirstProcess] \in Nat \cup {NULL}
      BY <3>1 DEF BootTypeOK, Page
    <3>3. QED
      BY <3>1, <3>2 DEF line2physical_addr
  <2>4. CASE gdt.tss = NULL
    <3>1. cpu' = cpu
      BY <1>6, <2>4 DEF ltr, LoadedCPU
    <3>2. QED
      BY <1>6, <2>1, <3>1 DEF ltr, BootTypeOK
  <2>5. CASE gdt.tss # NULL
    <3>1. gdt.tss = FirstProcess
      BY <2>5 DEF BootTypeOK
    <3>2. PICK tss \in [cr3 : {NULL, "page_dir"}, ldt : {0, NULL}] :
            cpu' = [cpu EXCEPT !.tr = line2physical_addr(FirstProcess),
                               !.cr3 = tss.cr3, !.ldt = tss.ldt]
      BY <1>6, <2>2, <2>5, <3>1 DEF ltr, LoadedCPU, Object, TSS
    <3>3. cpu' \in [cr3 : {NULL, "page_dir"}, gdt : {NULL, "gdt"},
                    tr : {NULL} \cup Nat, ldt : {NULL, 0},
                    level : {"RESCUE_LEVEL", "USER_LEVEL"}]
      BY <2>3, <3>2 DEF BootTypeOK
    <3>4. QED
      BY <1>6, <2>1, <3>3 DEF ltr, BootTypeOK
  <2>6. QED
    BY <2>4, <2>5
<1>7. ASSUME lldt PROVE TypesInv'
  <2>1. pc = 7 /\ pc' = 8 /\ pc' \in 1 .. Len(Order)
    BY <1>7, Stage, Steps DEF lldt, At
  <2>2. cpu' \in CPUType
    BY <1>7 DEF lldt, BootTypeOK, CPUType
  <2>3. QED
    BY <1>7, <2>1, <2>2 DEF lldt, BootTypeOK, CPUType
<1>8. ASSUME switch_to PROVE TypesInv'
  <2>1. pc = 8 /\ pc' = 9 /\ pc' \in 1 .. Len(Order)
    BY <1>8, Stage, Steps DEF switch_to, At
  <2>2. process' \in Object /\ process' # NULL
    <3>1. process \in Object /\ cpu \in CPUType
      BY <2>1 DEF BootTypeOK, CPUType
    <3>2. [cr3 |-> cpu.cr3, ldt |-> cpu.ldt] \in TSS
      BY <3>1 DEF CPUType, TSS
    <3>3. process' = [process EXCEPT !.tss = [cr3 |-> cpu.cr3, ldt |-> cpu.ldt]]
      BY <1>8 DEF switch_to
    <3> HIDE DEF TSS, CPUType
    <3>4. process' \in Object
      BY <3>1, <3>2, <3>3 DEF Object
    <3>5. QED
      BY <3>4, BootAssumption
  <2>3. wild' \in BOOLEAN
    BY <1>8 DEF switch_to, BootTypeOK
  <2>4. /\ pm' \in [task : {NULL, FirstProcess}, used : {0, 1},
                     current : {NULL, FirstProcess}, p_counter : Nat,
                     que_used : BOOLEAN]
        /\ saved' \in {NULL, "boot"}
    BY <1>8 DEF switch_to, BootTypeOK
  <2>5. UNCHANGED <<i, pointers, sci, page_dir, content, memory_map, gdt, cpu>>
    BY <1>8 DEF switch_to
  <2>6. QED
    BY <2>1, <2>2, <2>3, <2>4, <2>5 DEF BootTypeOK
<1>9. ASSUME UNCHANGED bootVars PROVE TypesInv'
  BY <1>9 DEF bootVars, BootTypeOK
<1>10. QED
  BY <1>1, <1>2, <1>3, <1>4, <1>5, <1>6, <1>7, <1>8, <1>9 DEF BootNext

(* Given the types, what is known of a stage follows from the one before.  *)
LEMMA BootInvStep ==
  FrameForTable /\ BootInv /\ BootTypeOK' /\ [BootNext]_bootVars => BootInv'
<1> SUFFICES ASSUME FrameForTable, BootInv, BootTypeOK', [BootNext]_bootVars
             PROVE  Straight' /\ OneTable'
  BY DEF BootInv
<1> USE DEF BootInv
<1>1. ASSUME InitSCI PROVE Straight' /\ OneTable'
  <2>1. pc = 1 /\ pc' = 2
    BY <1>1, Stage, Steps DEF InitSCI, At
  <2>2. Straight'
    BY <1>1, <2>1 DEF InitSCI, Straight, PointersSet
  <2>3. OneTable'
    BY <1>1, <2>1 DEF InitSCI, OneTable
  <2>4. QED
    BY <2>2, <2>3
<1>2. ASSUME InitMM PROVE Straight' /\ OneTable'
  <2>1. pc = 2 /\ pc' = 3 /\ 0 \in Dir
    BY <1>2, Stage, Steps, KernelEntries DEF InitMM, At
  <2>2. page_dir[0] = NULL /\ i = 0
    BY <2>1 DEF OneTable, Straight
  <2>3. page_dir' = [d \in Dir |-> NULL] /\ i' = 0
    BY <1>2 DEF InitMM
  <2>4. cpu'.cr3 = "page_dir" /\ cpu'.gdt = "gdt"
    BY <1>2 DEF InitMM, BootTypeOK
  <2>5. Straight'
    BY <1>2, <2>1, <2>4 DEF InitMM, Straight, PointersSet
  <2>6. OneTable'
    BY <1>2, <2>1, <2>2, <2>3 DEF InitMM, OneTable
  <2>7. QED
    BY <2>5, <2>6
<1>3. ASSUME MapKernel PROVE Straight' /\ OneTable'
  <2>1. pc = 3
    BY <1>3, Steps DEF MapKernel, At, BootTypeOK
  <2>2. /\ ~wild'
        /\ UNCHANGED <<pointers, sci, gdt, pm, process, cpu, saved>>
    <3>1. ~wild /\ "MM" \in pointers
      BY <2>1 DEF Straight, PointersSet
    <3>2. QED
      BY <1>3, <3>1 DEF MapKernel, Uses
  <2>3. CASE i < KERNEL_PAGES
    <3>1. pc' = pc /\ i' = i + 1 /\ write_page_table(i, i)
      BY <1>3, <2>3 DEF MapKernel, MappedPages
    <3>2. OneTable'
      BY <2>1, <2>3, <3>1, LoopMapsPage
    <3>3. Straight'
      BY <2>1, <2>2, <3>1 DEF Straight, PointersSet
    <3>4. QED
      BY <3>2, <3>3
  <2>4. CASE ~(i < KERNEL_PAGES)
    <3>1. pc' = 4 /\ i = KERNEL_PAGES
      BY <1>3, <2>1, <2>4, BootAssumption DEF MapKernel, MappedPages, Done, BootTypeOK
    <3>2. UNCHANGED <<i, page_dir, content, memory_map>>
      BY <1>3, <2>4 DEF MapKernel, MappedPages
    <3>3. Straight'
      BY <2>1, <2>2, <3>1, <3>2 DEF Straight, PointersSet
    <3>4. OneTable'
      BY <2>1, <3>1, <3>2 DEF OneTable
    <3>5. QED
      BY <3>3, <3>4
  <2>5. QED
    BY <2>3, <2>4
<1>4. ASSUME SetTraps PROVE Straight' /\ OneTable'
  <2>1. pc = 4 /\ pc' = 5
    BY <1>4, Stage, Steps DEF SetTraps, At
  <2>2. sci'.page_fault = "on_page_fault"
    BY <1>4 DEF SetTraps, BootTypeOK
  <2>3. ~wild'
    <3>1. ~wild /\ "SCI" \in pointers
      BY <2>1 DEF Straight, PointersSet
    <3>2. QED
      BY <1>4, <3>1 DEF SetTraps, Uses
  <2>4. UNCHANGED <<i, pointers, page_dir, content, memory_map, gdt, pm, process,
                    cpu, saved>>
    BY <1>4 DEF SetTraps
  <2>5. Straight'
    BY <2>1, <2>2, <2>3, <2>4 DEF Straight, PointersSet
  <2>6. OneTable'
    BY <2>1, <2>4 DEF OneTable
  <2>7. QED
    BY <2>5, <2>6
<1>5. ASSUME InitPM PROVE Straight' /\ OneTable'
  <2>1. pc = 5 /\ pc' = 6
    BY <1>5, Stage, Steps DEF InitPM, At
  <2>2. pointers = {"SCI", "MM"} /\ pm.p_counter = 0
    BY <2>1 DEF Straight, PointersSet
  <2>3. process' = FirstObject
    BY <1>5, <2>2 DEF InitPM, FirstTSS, FirstObject
  <2>4. /\ pm'.task = FirstProcess /\ pm'.current = FirstProcess
        /\ pm'.used = 1 /\ pm'.p_counter = 1
    BY <1>5, <2>2 DEF InitPM, FirstPM, BootTypeOK
  <2>5. sci'.calls = Calls /\ sci'.page_fault = "on_page_fault"
    BY <1>5, <2>1 DEF InitPM, BootTypeOK, Straight, Calls
  <2>6. pointers' = {"SCI", "MM", "PM"} /\ ~wild'
    BY <1>5, <2>2 DEF InitPM, Straight
  <2>7. gdt'.tss = FirstProcess /\ gdt'.ldt
    BY <1>5 DEF InitPM
  <2>8. UNCHANGED <<i, page_dir, content, memory_map, cpu, saved>>
    BY <1>5 DEF InitPM
  <2>9. Straight'
    BY <2>1, <2>3, <2>4, <2>5, <2>6, <2>7, <2>8 DEF Straight, PointersSet
  <2>10. OneTable'
    BY <2>1, <2>8 DEF OneTable
  <2>11. QED
    BY <2>9, <2>10
<1>6. ASSUME ltr PROVE Straight' /\ OneTable'
  <2>1. pc = 6 /\ pc' = 7
    BY <1>6, Stage, Steps DEF ltr, At
  <2>2. line2physical_addr(FirstProcess) = FirstProcess
    <3>1. i = KERNEL_PAGES
      BY <2>1 DEF Straight
    <3>2. QED
      BY <3>1, MappedOntoItself, BootAssumption
  <2>3. /\ gdt.tss = FirstProcess /\ FirstProcess # NULL
        /\ process = FirstObject
    BY <2>1, BootAssumption DEF Straight
  <2>4. process # NULL
    BY <2>3, BootAssumption DEF FirstObject, Object, TSS
  <2>5. cpu' = [cpu EXCEPT !.tr = FirstProcess, !.cr3 = "page_dir", !.ldt = 0]
    BY <1>6, <2>2, <2>3, <2>4 DEF ltr, LoadedCPU, FirstObject
  <2>6. cpu'.tr = FirstProcess /\ cpu'.cr3 = "page_dir" /\ cpu'.ldt = 0
        /\ cpu'.gdt = cpu.gdt
    BY <2>5 DEF BootTypeOK
  <2>7. ~wild'
    <3>1. ~wild /\ cpu.gdt # NULL /\ cpu.cr3 # NULL
      BY <2>1, BootAssumption DEF Straight
    <3>2. QED
      BY <1>6, <3>1 DEF ltr
  <2>8. Straight'
    BY <1>6, <2>1, <2>6, <2>7 DEF ltr, Straight, PointersSet
  <2>9. OneTable'
    BY <1>6, <2>1 DEF ltr, OneTable
  <2>10. QED
    BY <2>8, <2>9
<1>7. ASSUME lldt PROVE Straight' /\ OneTable'
  <2>1. pc = 7 /\ pc' = 8
    BY <1>7, Stage, Steps DEF lldt, At
  <2>2. /\ cpu'.tr = cpu.tr /\ cpu'.cr3 = cpu.cr3 /\ cpu'.gdt = cpu.gdt
        /\ cpu'.ldt = 0
    BY <1>7 DEF lldt, BootTypeOK
  <2>3. Straight'
    BY <1>7, <2>1, <2>2 DEF lldt, Straight, PointersSet
  <2>4. OneTable'
    BY <1>7, <2>1 DEF lldt, OneTable
  <2>5. QED
    BY <2>3, <2>4
<1>8. ASSUME switch_to PROVE Straight' /\ OneTable'
  <2>1. pc = 8 /\ pc' = 9
    BY <1>8, Stage, Steps DEF switch_to, At
  <2>2. cpu.cr3 = "page_dir" /\ cpu.ldt = 0 /\ cpu.tr = FirstProcess
    BY <2>1 DEF Straight
  <2>3. process' = process
    <3>1. process = FirstObject
      BY <2>1 DEF Straight
    <3>2. QED
      BY <1>8, <2>2, <3>1 DEF switch_to, FirstObject
  <2>4. /\ pm'.task = pm.task /\ pm'.current = pm.current /\ pm'.used = pm.used
        /\ pm'.p_counter = pm.p_counter /\ pm'.que_used /\ saved' = "boot"
    BY <1>8 DEF switch_to, BootTypeOK
  <2>5. ~wild'
    BY <1>8, <2>1, <2>2, BootAssumption DEF switch_to, Straight
  <2>6. UNCHANGED <<i, pointers, sci, page_dir, content, memory_map, gdt, cpu>>
    BY <1>8 DEF switch_to
  <2>7. Straight'
    BY <2>1, <2>3, <2>4, <2>5, <2>6 DEF Straight, PointersSet
  <2>8. OneTable'
    BY <2>1, <2>6 DEF OneTable
  <2>9. QED
    BY <2>7, <2>8
<1>9. ASSUME UNCHANGED bootVars PROVE Straight' /\ OneTable'
  BY <1>9 DEF bootVars, Straight, OneTable, PointersSet
<1>10. QED
  BY <1>1, <1>2, <1>3, <1>4, <1>5, <1>6, <1>7, <1>8, <1>9 DEF BootNext

(***************************************************************************)
(* Theorems                                                                *)
(***************************************************************************)

(* Whatever the memory contained, every object the boot makes has the shape*)
(* that the structures of the code give it.                                *)
THEOREM BootTypes == BootSpec => []BootTypeOK
<1>1. BootInit => TypesInv
  <2>1. BootInit => pc = 1
    BY DEF BootInit
  <2>2. QED
    BY <2>1, BootInvInit DEF TypesInv
<1>2. TypesInv => BootTypeOK
  BY DEF TypesInv
<1>3. QED
  BY <1>1, <1>2, TypesStep, PTL DEF BootSpec

(* The invariant of the boot, which the theorems below read.               *)
LEMMA BootIsStraight == ASSUME FrameForTable PROVE BootSpec => []BootInv
<1>1. BootInit => BootInv
  BY BootInvInit DEF BootInv
<1>2. BootInv /\ BootTypeOK' /\ [BootNext]_bootVars => BootInv'
  BY BootInvStep
<1>3. QED
  BY <1>1, <1>2, BootTypes, PTL DEF BootSpec

(* No ...Init follows currentSCI, currentMM or currentPM before the Init   *)
(* that sets it, and the processor has a page directory when it translates.*)
THEOREM BootUsesWhatExists ==
  ASSUME FrameForTable PROVE BootSpec => []NothingIsUsedBeforeItExists
<1>1. BootInv => NothingIsUsedBeforeItExists
  BY DEF BootInv, Straight, NothingIsUsedBeforeItExists
<1>2. QED
  BY <1>1, BootIsStraight, PTL

(* The loop of MemoryManageInit maps the kernel's pages onto themselves, be*)
(* they as many as one table has entries.                                  *)
THEOREM BootMapsTheKernel ==
  ASSUME FrameForTable PROVE BootSpec => []KernelMapsOntoItself
<1>1. BootInv => KernelMapsOntoItself
  <2> SUFFICES ASSUME BootInv, NEW k \in 0 .. KERNEL_PAGES - 1, k < i \/ pc > 3
               PROVE  line2physical_addr(k) = k
    BY DEF KernelMapsOntoItself
  <2>1. k < i
    BY BootAssumption DEF BootInv, Straight
  <2>2. QED
    BY <2>1, MappedOntoItself
<1>2. QED
  BY <1>1, BootIsStraight, PTL

(* ltr reads the first task's tss where ProcessInit stored it.             *)
THEOREM BootLoadsFirstTask ==
  ASSUME FrameForTable PROVE BootSpec => []FirstTaskIsLoaded
<1>1. BootInv => FirstTaskIsLoaded
  BY Steps DEF BootInv, BootTypeOK, Straight, FirstTaskIsLoaded
<1>2. QED
  BY <1>1, BootIsStraight, PTL

(* What the invariant says of processor and process manager at the end.    *)
LEMMA EndIsInit ==
  ASSUME BootInv, Running
  PROVE  OS!Init /\ process = FirstObject
<1>1. pc = 9
  BY Steps DEF BootInv, BootTypeOK, Running, At
<1>2. /\ process = FirstObject /\ saved # NULL
      /\ gdt.tss = FirstProcess /\ gdt.ldt /\ gdt.tss # NULL
      /\ pm.task = FirstProcess /\ pm.task # NULL /\ pm.current = FirstProcess
      /\ pm.used = 1 /\ pm.p_counter = 1 /\ pm.que_used
      /\ cpu.tr = FirstProcess /\ cpu.ldt = 0 /\ saved = "boot"
      /\ FirstProcess - FirstProcess = 0
  BY <1>1, BootAssumption DEF BootInv, Straight
<1>3. OS!CPUInit
  BY <1>2 DEF OS!CPUInit, OS!Index, OS!Process, FirstObject, Running
<1>4. QED
  BY <1>2, <1>3 DEF OS!Init, OS!Index, OS!Process, FirstObject

(* What it says of all, where memory was clear, in the terms of MutixOS.   *)
LEMMA EndIsOSInit ==
  ASSUME BootInv, Running, FramesAreCounted, FramesAreZero
  PROVE  OS!OSInit
<1>1. pc = 9 /\ i = KERNEL_PAGES /\ 0 \in Dir /\ KERNEL_PAGES \in Nat \ {0}
  BY Steps, KernelEntries, BootAssumption
     DEF BootInv, BootTypeOK, Straight, Running, At
<1>2. page_dir[0] = 0 /\ 0 \in Frame
  <2>1. page_dir[0] # NULL /\ page_dir[0] \in Frame
    <3>1. page_dir[0] \in Frame \cup {NULL}
      BY <1>1 DEF BootInv, BootTypeOK
    <3>2. page_dir[0] # NULL
      BY <1>1 DEF BootInv, OneTable
    <3>3. QED
      BY <3>1, <3>2
  <2>2. \A f \in Frame : ~(f < page_dir[0])
    BY <2>1 DEF BootInv, OneTable, FramesAreCounted, Frame
  <2>3. 0 \in Frame /\ page_dir[0] \in Nat
    BY <2>1, BootAssumption DEF Frame
  <2>4. ~(0 < page_dir[0])
    BY <2>2, <2>3
  <2>5. QED
    BY <2>3, <2>4
<1>3. /\ process = FirstObject /\ ~wild /\ saved # NULL
      /\ gdt.tss = FirstProcess /\ gdt.ldt /\ gdt.tss # NULL
      /\ pm.task = FirstProcess /\ pm.task # NULL /\ pm.current = FirstProcess
      /\ pm.used = 1 /\ pm.p_counter = 1 /\ pm.que_used
      /\ cpu.tr = FirstProcess /\ cpu.ldt = 0 /\ saved = "boot"
      /\ FirstProcess - FirstProcess = 0
  BY <1>1, BootAssumption DEF BootInv, Straight
<1>5. OS!Init
  BY EndIsInit
<1>6. OS!MM!MMInit
  <2>1. page_dir = [d \in Dir |-> IF d = 0 THEN 0 ELSE NULL]
    BY <1>1, <1>2 DEF BootInv, BootTypeOK, OneTable
  <2>2. memory_map = [f \in Frame |-> IF f = 0 THEN 1 ELSE 0]
    BY <1>2 DEF BootInv, BootTypeOK, FramesAreCounted
  <2>3. ASSUME NEW f \in Frame, NEW e \in Entry
        PROVE  content[f][e] = IF f = 0 /\ e < KERNEL_PAGES THEN e ELSE NULL
    BY <1>1, <1>2 DEF BootInv, OneTable, FramesAreZero
  <2>4. \A e \in Entry : e \in Nat /\ e # NULL
    BY BootAssumption DEF Entry
  <2>5. [f \in Frame |-> [e \in Entry |->
           [page |-> OSPage(content[f][e]), write |-> content[f][e] # NULL]]]
        = [f \in Frame |-> [e \in Entry |->
             IF f = 0 /\ e < KERNEL_PAGES
               THEN [page |-> Kernel, write |-> TRUE]
               ELSE [page |-> NULL, write |-> FALSE]]]
    BY <2>3, <2>4 DEF OSPage
  <2>6. QED
    BY <1>3, <2>1, <2>2, <2>5
       DEF OS!MM!MMInit, OS!MM!Dir, OS!MM!Frame, OS!MM!Entry, OS!MM!Index,
           OS!MM!Absent, Dir, Frame, Entry
<1>7. QED
  BY <1>3, <1>5, <1>6 DEF OS!OSInit, OS!Process, FirstObject

(* Whatever the dirty frames contained, the boot leaves processor and      *)
(* process manager as MutixOS starts, in the call table the calls, at 14   *)
(* the page fault; and the memory manager too, if memory_map and the frames*)
(* are zero where no Init has cleared them.                                *)
THEOREM BootEndsInOSInit ==
  ASSUME FrameForTable PROVE BootSpec => []BootLeavesOSInit
<1>1. BootInv => BootLeavesOSInit
  <2> SUFFICES ASSUME BootInv, Running
               PROVE  /\ OS!Init
                      /\ process.start_code = 0
                      /\ FramesAreCounted /\ FramesAreZero => OS!OSInit
                      /\ sci = [page_fault |-> "on_page_fault", calls |-> Calls]
    BY DEF BootLeavesOSInit
  <2>1. pc = 9
    BY Steps DEF BootInv, BootTypeOK, Running, At
  <2>2. sci.page_fault = "on_page_fault" /\ sci.calls = Calls
    BY <2>1 DEF BootInv, Straight
  <2>3. sci = [page_fault |-> sci.page_fault, calls |-> sci.calls]
    BY DEF BootInv, BootTypeOK
  <2>4. process.start_code = 0
    BY EndIsInit DEF FirstObject
  <2>5. QED
    BY <2>2, <2>3, <2>4, EndIsInit, EndIsOSInit
<1>2. QED
  BY <1>1, BootIsStraight, PTL

(* In memory that new char[] happens to return cleared, with room for one  *)
(* table, the boot does end in the state from which MutixOS starts.        *)
THEOREM CleanMemoryBoots ==
  ASSUME DirtyFrames = {}, Frame # {} PROVE BootSpec => [](Running => OS!OSInit)
<1>1. FrameForTable
  BY DEF FrameForTable
<1>2. BootInv /\ Running => OS!OSInit
  <2>1. BootInv => FramesAreCounted
    BY DEF BootInv, OneTable, FramesAreCounted
  <2>2. ASSUME BootInv, Running PROVE FramesAreZero
    <3>1. pc = 9
      BY <2>2, Steps DEF BootInv, BootTypeOK, Running, At
    <3>2. i = KERNEL_PAGES
      BY <2>2, <3>1 DEF BootInv, Straight
    <3>3. QED
      BY <2>2, <3>2 DEF BootInv, OneTable, FramesAreZero
  <2>3. QED
    BY <2>1, <2>2, EndIsOSInit
<1>3. QED
  BY <1>1, <1>2, BootIsStraight, PTL

=============================================================================
