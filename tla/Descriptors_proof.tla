------------------------- MODULE Descriptors_proof -------------------------
(***************************************************************************)
(* The tables of Descriptors, for any sizes that the gdt and the array of  *)
(* tasks may have, those of the code included, where the entries of half   *)
(* of the tasks fall behind the gdt.                                       *)
(***************************************************************************)
EXTENDS Descriptors, TLAPS

(***************************************************************************)
(* Writing and reading                                                     *)
(***************************************************************************)

(* What is stored as the address of a TSS or an LDT is found again, and    *)
(* recognised as what it is.                                               *)
LEMMA SystemDescriptor ==
  ASSUME NEW w \in Word
  PROVE  /\ set_tssldt_desc(w, 137) \in Desc /\ set_tssldt_desc(w, 130) \in Desc
         /\ get_base_from_desc(set_tssldt_desc(w, 137)) = w
         /\ get_base_from_desc(set_tssldt_desc(w, 130)) = w
         /\ check_type(set_tssldt_desc(w, 137)) = "TSS"
         /\ check_type(set_tssldt_desc(w, 130)) = "LDT"
<1>1. set_tssldt_desc(w, 137) \in Desc /\ set_tssldt_desc(w, 130) \in Desc
  BY DEF set_tssldt_desc, Desc, Word, Byte
<1>2. /\ get_base_from_desc(set_tssldt_desc(w, 137)) = w
      /\ get_base_from_desc(set_tssldt_desc(w, 130)) = w
  BY DEF set_tssldt_desc, get_base_from_desc, Word, Byte
<1>3. check_type(set_tssldt_desc(w, 137)) = "TSS"
  BY DEF set_tssldt_desc, check_type
<1>4. check_type(set_tssldt_desc(w, 130)) = "LDT"
  BY DEF set_tssldt_desc, check_type
<1>5. QED
  BY <1>1, <1>2, <1>3, <1>4

(* Base and limit do not disturb each other, though they share the second  *)
(* word with each other and with the access rights.                        *)
LEMMA SegmentDescriptor ==
  ASSUME NEW d \in Desc, NEW base \in Word, NEW limit \in Word,
         limit = <<limit[1], limit[2], limit[3] % 16, 0>>
  PROVE  LET s == set_limit(set_base(d, base), limit)
         IN  /\ s \in Desc
             /\ get_base_from_desc(s) = base
             /\ get_limit_frome_desc(s) = limit
             /\ get_limit(s) = limit
<1> DEFINE s == set_limit(set_base(d, base), limit)
<1>1. /\ d.a \in Word /\ d.b \in Word
      /\ \A i \in 1 .. 4 : base[i] \in Byte /\ limit[i] \in Byte
                           /\ d.a[i] \in Byte /\ d.b[i] \in Byte
  BY DEF Desc, Word
<1>2. /\ s.a = <<limit[1], limit[2], base[1], base[2]>>
      /\ s.b = <<base[3], d.b[2],
                 (16 * (d.b[3] \div 16)) + (limit[3] % 16), base[4]>>
  BY DEF set_limit, set_base
<1>3. /\ (16 * (d.b[3] \div 16)) + (limit[3] % 16) \in Byte
      /\ ((16 * (d.b[3] \div 16)) + (limit[3] % 16)) % 16 = limit[3] % 16
  BY <1>1 DEF Byte
<1>4. s \in Desc
  <2>1. s.a \in Word /\ s.b \in Word
    BY <1>1, <1>2, <1>3 DEF Word
  <2>2. QED
    BY <2>1 DEF Desc, set_limit
<1>5. get_base_from_desc(s) = base
  BY <1>2 DEF get_base_from_desc, Word
<1>6. get_limit_frome_desc(s) = limit /\ get_limit(s) = limit
  BY <1>2, <1>3 DEF get_limit_frome_desc, get_limit
<1>7. QED
  BY <1>4, <1>5, <1>6

(* A gate is recognised by its type, and leads to its handler.             *)
LEMMA Gate ==
  ASSUME NEW addr \in Word, NEW dpl \in {0, 3}
  PROVE  /\ set_gate(14, dpl, addr) \in Desc /\ set_gate(15, dpl, addr) \in Desc
         /\ check_type(set_gate(14, dpl, addr)) = "INTER_GATE"
         /\ check_type(set_gate(15, dpl, addr)) = "TRAP_GATE"
         /\ get_offset_from_gate(set_gate(14, dpl, addr)) = addr
         /\ get_offset_from_gate(set_gate(15, dpl, addr)) = addr
<1>1. set_gate(14, dpl, addr) \in Desc /\ set_gate(15, dpl, addr) \in Desc
  BY DEF set_gate, Desc, Word, Byte
<1>2. /\ get_offset_from_gate(set_gate(14, dpl, addr)) = addr
      /\ get_offset_from_gate(set_gate(15, dpl, addr)) = addr
  BY DEF set_gate, get_offset_from_gate, Word, Byte
<1>3. check_type(set_gate(14, dpl, addr)) = "INTER_GATE"
  BY DEF set_gate, check_type
<1>4. check_type(set_gate(15, dpl, addr)) = "TRAP_GATE"
  BY DEF set_gate, check_type
<1>5. QED
  BY <1>1, <1>2, <1>3, <1>4

(***************************************************************************)
(* Where the descriptors lie                                               *)
(***************************************************************************)

(* The descriptors of a task.                                              *)
Places(i) == {TSSEntry(i), LDTEntry(i), Segment(i, 1), Segment(i, 2)}

(* They are four entries of the tables, and none of them is an entry that  *)
(* an earlier slot has for its TSS and LDT.                                *)
LEMMA PlacesAreApart ==
  ASSUME NEW i \in Index
  PROVE  /\ Places(i) \subseteq Slots
         /\ TSSEntry(i) # LDTEntry(i)
         /\ Segment(i, 1) # Segment(i, 2)
         /\ \A k \in {1, 2} : Segment(i, k) \notin {TSSEntry(i), LDTEntry(i)}
         /\ \A j \in Index : j < i =>
              TSSEntry(j) \notin Places(i) /\ LDTEntry(j) \notin Places(i)
<1>1. /\ i \in Nat /\ GDT_TABLE_MAX_SIZE \in Nat /\ GDT_TABLE_MAX_SIZE > 5
      /\ i < MAX_TASK_NUM /\ MAX_TASK_NUM \in Nat
      /\ \A j \in Index : j \in Nat
  BY DescriptorAssumption DEF Index, FIRST_LDT_ENTRY
<1>2. /\ TSSEntry(i) = 2 * i + 4 /\ LDTEntry(i) = 2 * i + 5
      /\ \A k \in {1, 2} : Segment(i, k) = GDT_TABLE_MAX_SIZE + 3 * i + k
      /\ \A j \in Index : TSSEntry(j) = 2 * j + 4 /\ LDTEntry(j) = 2 * j + 5
  BY DEF TSSEntry, LDTEntry, Segment, FIRST_TSS_ENTRY, FIRST_LDT_ENTRY
<1>3. Places(i) \subseteq Slots
  BY <1>1, <1>2 DEF Places, Slots
<1>4. QED
  BY <1>1, <1>2, <1>3 DEF Places

(* As long as a slot's entries lie in the gdt, they are no segment, and    *)
(* segments are apart anyway.                                              *)
LEMMA SegmentsAreApart ==
  ASSUME NEW i \in Index, LDTEntry(i) < GDT_TABLE_MAX_SIZE
  PROVE  /\ \A j \in Index : \A k \in {1, 2} :
              /\ Segment(j, k) \in Slots
              /\ Segment(j, k) \notin {TSSEntry(i), LDTEntry(i)}
         /\ \A j \in Index \ {i} : \A k \in {1, 2} :
              Segment(j, k) \notin Places(i)
BY DescriptorAssumption
   DEF Index, Places, Slots, TSSEntry, LDTEntry, Segment,
       FIRST_TSS_ENTRY, FIRST_LDT_ENTRY

(* The base of a segment is a word.                                        *)
LEMMA BaseIsWord ==
  ASSUME NEW i \in Index
  PROVE  SegmentBase(i) \in Word
<1>1. (4 * i) % 256 \in Byte
  BY DescriptorAssumption DEF Index, Byte
<1>2. QED
  BY <1>1 DEF SegmentBase, Word, Byte

(* Whatever is written into a segment descriptor, it stays one.            *)
LEMMA WrittenDescriptor ==
  ASSUME NEW d \in Desc, NEW e \in Desc, NEW base \in Word
  PROVE  set_limit(set_base(d, base), get_limit(e)) \in Desc
<1>1. /\ \A i \in 1 .. 4 : /\ base[i] \in Byte
                           /\ d.a[i] \in Byte /\ d.b[i] \in Byte
                           /\ e.a[i] \in Byte /\ e.b[i] \in Byte
  BY DEF Desc, Word
<1>2. set_limit(set_base(d, base), get_limit(e)) =
        [a |-> <<e.a[1], e.a[2], base[1], base[2]>>,
         b |-> <<base[3], d.b[2],
                 (16 * (d.b[3] \div 16)) + ((e.b[3] % 16) % 16), base[4]>>]
  BY DEF set_limit, set_base, get_limit
<1>3. (16 * (d.b[3] \div 16)) + ((e.b[3] % 16) % 16) \in Byte
  <2>1. /\ d.b[3] \div 16 \in 0 .. 15
        /\ e.b[3] % 16 \in 0 .. 15
    BY <1>1 DEF Byte
  <2>2. (e.b[3] % 16) % 16 = e.b[3] % 16
    BY <2>1
  <2>3. QED
    BY <2>1, <2>2 DEF Byte
<1>4. QED
  BY <1>1, <1>2, <1>3 DEF Desc, Word

(* The effect of a fork on the tables: four entries, and no other; and as  *)
(* long as entries fit, the segments get the limit of the father's.        *)
LEMMA DescribeEffect ==
  ASSUME DescTypeOK,
         NEW i \in Index, NEW c \in Index, NEW tss \in Address,
         Describe(i, c, tss)
  PROVE  /\ desc_array' \in [Slots -> Desc]
         /\ desc_array'[TSSEntry(i)] = set_tssldt_desc(tss, 137)
         /\ desc_array'[LDTEntry(i)] = set_tssldt_desc(LdtAddress[i], 130)
         /\ (/\ LDTEntry(i) < GDT_TABLE_MAX_SIZE
             /\ \A k \in {1, 2} :
                  get_limit(desc_array[Segment(c, k)]) = TaskLimit) =>
               \A k \in {1, 2} :
                 desc_array'[Segment(i, k)] =
                   set_limit(set_base(desc_array[Segment(i, k)], SegmentBase(i)),
                             TaskLimit)
         /\ \A s \in Slots \ Places(i) : desc_array'[s] = desc_array[s]
<1> DEFINE d1 == [desc_array EXCEPT ![TSSEntry(i)] = set_tssldt_desc(tss, 137)]
           New(k) == set_limit(set_base(d1[Segment(i, k)], SegmentBase(i)),
                               get_limit(d1[Segment(c, k)]))
           d2 == [d1 EXCEPT ![Segment(i, 1)] = New(1),
                            ![Segment(i, 2)] = New(2)]
           d3 == [d2 EXCEPT ![LDTEntry(i)] = set_tssldt_desc(LdtAddress[i], 130)]
<1>1. desc_array' = d3
  BY DEF Describe
<1>2. /\ desc_array \in [Slots -> Desc]
      /\ tss \in Word /\ LdtAddress[i] \in Word
  BY DescriptorAssumption DEF DescTypeOK
<1>3. /\ TSSEntry(i) \in Slots /\ LDTEntry(i) \in Slots
      /\ Segment(i, 1) \in Slots /\ Segment(i, 2) \in Slots
      /\ Segment(i, 1) # TSSEntry(i) /\ Segment(i, 2) # TSSEntry(i)
      /\ Segment(i, 1) # LDTEntry(i) /\ Segment(i, 2) # LDTEntry(i)
      /\ Segment(i, 1) # Segment(i, 2) /\ TSSEntry(i) # LDTEntry(i)
      /\ Segment(c, 1) \in Slots /\ Segment(c, 2) \in Slots
  BY PlacesAreApart DEF Places
<1>4. /\ set_tssldt_desc(tss, 137) \in Desc
      /\ set_tssldt_desc(LdtAddress[i], 130) \in Desc
  BY <1>2, SystemDescriptor
<1>5. d1 \in [Slots -> Desc]
  BY <1>2, <1>4
<1>6. ASSUME LDTEntry(i) < GDT_TABLE_MAX_SIZE, NEW k \in {1, 2},
             get_limit(desc_array[Segment(c, k)]) = TaskLimit
      PROVE  New(k) = set_limit(set_base(desc_array[Segment(i, k)], SegmentBase(i)),
                           TaskLimit)
  <2>1. /\ Segment(i, k) \in Slots /\ Segment(i, k) # TSSEntry(i)
        /\ Segment(c, k) \in Slots /\ Segment(c, k) # TSSEntry(i)
    BY <1>6, SegmentsAreApart
  <2>2. /\ d1[Segment(i, k)] = desc_array[Segment(i, k)]
        /\ d1[Segment(c, k)] = desc_array[Segment(c, k)]
    BY <1>2, <2>1
  <2>3. QED
    BY <1>6, <2>2
<1>7. New(1) \in Desc /\ New(2) \in Desc
  <2> HIDE DEF d1
  <2>1. QED
    BY <1>3, <1>5, BaseIsWord, WrittenDescriptor
<1>8. d2 \in [Slots -> Desc]
  <2> HIDE DEF d1, New
  <2>1. QED
    BY <1>5, <1>7
<1>9. desc_array' \in [Slots -> Desc]
  <2> HIDE DEF d2
  <2>1. QED
    BY <1>1, <1>4, <1>8
<1>10. /\ d2[TSSEntry(i)] = set_tssldt_desc(tss, 137)
       /\ d2[Segment(i, 1)] = New(1) /\ d2[Segment(i, 2)] = New(2)
       /\ \A s \in Slots \ Places(i) : d2[s] = desc_array[s]
  <2> HIDE DEF New
  <2>1. QED
    BY <1>2, <1>3, <1>5 DEF Places
<1>11. /\ desc_array'[TSSEntry(i)] = set_tssldt_desc(tss, 137)
       /\ desc_array'[LDTEntry(i)] = set_tssldt_desc(LdtAddress[i], 130)
       /\ desc_array'[Segment(i, 1)] = New(1)
       /\ desc_array'[Segment(i, 2)] = New(2)
       /\ \A s \in Slots \ Places(i) : desc_array'[s] = desc_array[s]
  <2> HIDE DEF d2, New
  <2>1. QED
    BY <1>1, <1>3, <1>8, <1>10 DEF Places
<1>12. QED
  <2> HIDE DEF New
  <2>1. QED
    BY <1>6, <1>9, <1>11

(***************************************************************************)
(* Types                                                                   *)
(***************************************************************************)

(* Every slot has its entries in the tables, though those of a late one    *)
(* need not be in the gdt.                                                 *)
LEMMA PlacesExist ==
  ASSUME NEW i \in Index
  PROVE  /\ TSSEntry(i) \in Slots /\ LDTEntry(i) \in Slots
         /\ Segment(i, 1) \in Slots /\ Segment(i, 2) \in Slots
BY DescriptorAssumption
   DEF Index, Slots, TSSEntry, LDTEntry, Segment, FIRST_TSS_ENTRY, FIRST_LDT_ENTRY

LEMMA DescribeTypes ==
  ASSUME desc_array \in [Slots -> Desc],
         NEW i \in Index, NEW c \in Index, NEW tss \in Address, Describe(i, c, tss)
  PROVE  desc_array' \in [Slots -> Desc]
<1> DEFINE d1 == [desc_array EXCEPT ![TSSEntry(i)] = set_tssldt_desc(tss, 137)]
           New(k) == set_limit(set_base(d1[Segment(i, k)], SegmentBase(i)),
                               get_limit(d1[Segment(c, k)]))
           d2 == [d1 EXCEPT ![Segment(i, 1)] = New(1),
                            ![Segment(i, 2)] = New(2)]
<1>1. desc_array' = [d2 EXCEPT ![LDTEntry(i)] = set_tssldt_desc(LdtAddress[i], 130)]
  BY DEF Describe
<1>2. /\ set_tssldt_desc(tss, 137) \in Desc
      /\ set_tssldt_desc(LdtAddress[i], 130) \in Desc
  BY DescriptorAssumption, SystemDescriptor
<1>3. d1 \in [Slots -> Desc]
  BY <1>2
<1> HIDE DEF d1
<1>4. New(1) \in Desc /\ New(2) \in Desc
  BY <1>3, PlacesExist, BaseIsWord, WrittenDescriptor
<1> HIDE DEF New
<1>5. d2 \in [Slots -> Desc]
  BY <1>3, <1>4
<1> HIDE DEF d2
<1>6. QED
  BY <1>1, <1>2, <1>5

LEMMA DescTypesInit == DescInit => DescTypeOK
<1> SUFFICES ASSUME DescInit
             PROVE  DescTypeOK
  OBVIOUS
<1>1. PICK tss \in Address :
        /\ tss_address = [i \in Index |-> IF i = 0 THEN tss ELSE NULL]
        /\ desc_array = [s \in Slots |->
             CASE s = 1 -> [a |-> <<0, 255, 15, 0>>, b |-> <<0, 154, 192, 0>>]
               [] s = 2 -> [a |-> <<255, 15, 0, 0>>, b |-> <<0, 146, 192, 0>>]
               [] s = TSSEntry(0)   -> set_tssldt_desc(tss, 137)
               [] s = LDTEntry(0)   -> set_tssldt_desc(LdtAddress[0], 130)
               [] s = Segment(0, 1) -> FirstCode
               [] s = Segment(0, 2) -> FirstData
               [] OTHER             -> Zero]
  BY DEF DescInit
<1>2. /\ handler = TrapFunction
      /\ idt = [v \in Vector |->
                  set_gate(GateType(v), GateDpl(v), TrapFunction[v])]
      /\ TrapFunction \in [Vector -> Word]
  BY DescriptorAssumption DEF DescInit
<1>3. 0 \in Index /\ tss \in Word /\ LdtAddress[0] \in Word
  BY DescriptorAssumption DEF Index
<1>4. FirstCode \in Desc /\ FirstData \in Desc /\ Zero \in Desc
  BY DEF FirstCode, FirstData, Zero, TaskLimit, Desc, Word, Byte
<1>5. /\ [a |-> <<0, 255, 15, 0>>, b |-> <<0, 154, 192, 0>>] \in Desc
      /\ [a |-> <<255, 15, 0, 0>>, b |-> <<0, 146, 192, 0>>] \in Desc
  BY DEF Desc, Word, Byte
<1>6. desc_array \in [Slots -> Desc]
  <2>1. set_tssldt_desc(tss, 137) \in Desc /\ set_tssldt_desc(LdtAddress[0], 130) \in Desc
    BY <1>3, SystemDescriptor
  <2>2. QED
    BY <1>1, <1>4, <1>5, <2>1
<1>7. idt \in [Vector -> Desc] /\ handler \in [Vector -> Word]
  BY <1>2, Gate DEF GateType, GateDpl
<1>8. QED
  BY <1>1, <1>3, <1>6, <1>7 DEF DescTypeOK

LEMMA DescTypesStep == DescTypeOK /\ [DescNext]_descVars => DescTypeOK'
<1> SUFFICES ASSUME DescTypeOK, [DescNext]_descVars
             PROVE  DescTypeOK'
  OBVIOUS
<1>1. ASSUME NEW i \in Index, NEW c \in Index, NEW tss \in Address,
             ForkDescriptors(i, c, tss)
      PROVE  DescTypeOK'
  <2>1. desc_array' \in [Slots -> Desc]
    BY <1>1, DescribeTypes DEF ForkDescriptors, DescTypeOK
  <2>2. tss \in Word
    BY DescriptorAssumption
  <2>3. QED
    BY <1>1, <2>1, <2>2 DEF ForkDescriptors, DescTypeOK
<1>2. ASSUME NEW addr \in Address, SetPageFaultTraps(addr)
      PROVE  DescTypeOK'
  <2>1. addr \in Word
    BY DescriptorAssumption
  <2>2. QED
    BY <1>2, <2>1, Gate DEF SetPageFaultTraps, DescTypeOK
<1>3. ASSUME UNCHANGED descVars PROVE DescTypeOK'
  BY <1>3 DEF descVars, DescTypeOK
<1>4. QED
  BY <1>1, <1>2, <1>3 DEF DescNext

(***************************************************************************)
(* The invariant                                                           *)
(***************************************************************************)

(* Tasks get the lowest slots first, and none gives one back: later forks  *)
(* are of higher slots.                                                    *)
SlotsInOrder == \A j \in Tasks : \A i \in Index : i < j => i \in Tasks

DescInv ==
  /\ DescTypeOK /\ SlotsInOrder
  /\ TasksAreFound /\ SegmentsAreInPlace /\ GatesLeadToHandlers

(* Booting leaves tables in which the first task is described.             *)
LEMMA DescInvInit == DescInit => DescInv
<1> SUFFICES ASSUME DescInit
             PROVE  DescInv
  OBVIOUS
<1>1. PICK tss \in Address :
        /\ tss_address = [i \in Index |-> IF i = 0 THEN tss ELSE NULL]
        /\ desc_array = [s \in Slots |->
             CASE s = 1 -> [a |-> <<0, 255, 15, 0>>, b |-> <<0, 154, 192, 0>>]
               [] s = 2 -> [a |-> <<255, 15, 0, 0>>, b |-> <<0, 146, 192, 0>>]
               [] s = TSSEntry(0)   -> set_tssldt_desc(tss, 137)
               [] s = LDTEntry(0)   -> set_tssldt_desc(LdtAddress[0], 130)
               [] s = Segment(0, 1) -> FirstCode
               [] s = Segment(0, 2) -> FirstData
               [] OTHER             -> Zero]
  BY DEF DescInit
<1>2. /\ handler = TrapFunction
      /\ idt = [v \in Vector |->
                  set_gate(GateType(v), GateDpl(v), TrapFunction[v])]
      /\ TrapFunction \in [Vector -> Word]
  BY DescriptorAssumption DEF DescInit
<1>3. /\ 0 \in Index /\ tss \in Word /\ LdtAddress[0] \in Word
      /\ TSSEntry(0) = 4 /\ LDTEntry(0) = 5
      /\ Segment(0, 1) = GDT_TABLE_MAX_SIZE + 1
      /\ Segment(0, 2) = GDT_TABLE_MAX_SIZE + 2
      /\ GDT_TABLE_MAX_SIZE \in Nat /\ GDT_TABLE_MAX_SIZE > 5
      /\ {4, 5, GDT_TABLE_MAX_SIZE + 1, GDT_TABLE_MAX_SIZE + 2} \subseteq Slots
  BY DescriptorAssumption
     DEF Index, TSSEntry, LDTEntry, Segment, FIRST_TSS_ENTRY, FIRST_LDT_ENTRY,
         Slots
<1>4. /\ desc_array[TSSEntry(0)] = set_tssldt_desc(tss, 137)
      /\ desc_array[LDTEntry(0)] = set_tssldt_desc(LdtAddress[0], 130)
      /\ desc_array[Segment(0, 1)] = FirstCode
      /\ desc_array[Segment(0, 2)] = FirstData
  BY <1>1, <1>3
<1>5. GatesLeadToHandlers
  BY <1>2, Gate DEF GatesLeadToHandlers, GateType, GateDpl
<1>6. DescTypeOK
  BY DescTypesInit
<1>7. Tasks = {0}
  BY <1>1, <1>3, DescriptorAssumption DEF Tasks
<1>8. TasksAreFound
  BY <1>1, <1>3, <1>4, <1>7, SystemDescriptor DEF TasksAreFound
<1>9. SegmentsAreInPlace
  <2>1. /\ get_base_from_desc(FirstCode) = SegmentBase(0)
        /\ get_base_from_desc(FirstData) = SegmentBase(0)
        /\ get_limit_frome_desc(FirstCode) = TaskLimit
        /\ get_limit_frome_desc(FirstData) = TaskLimit
    BY DEF FirstCode, FirstData, TaskLimit, SegmentBase, get_base_from_desc,
           get_limit_frome_desc
  <2>2. QED
    BY <1>4, <1>7, <2>1 DEF SegmentsAreInPlace
<1>10. SlotsInOrder
  BY <1>7, DescriptorAssumption DEF SlotsInOrder, Index
<1>11. QED
  BY <1>5, <1>6, <1>8, <1>9, <1>10 DEF DescInv

(* A fork describes its task and leaves the others described.              *)
LEMMA ForkKeepsInv ==
  ASSUME DescInv,
         NEW i \in Index, NEW c \in Index, NEW tss \in Address,
         ForkDescriptors(i, c, tss)
  PROVE  /\ DescInv'
         /\ \A j \in Tasks :
              /\ desc_array'[TSSEntry(j)] = desc_array[TSSEntry(j)]
              /\ desc_array'[LDTEntry(j)] = desc_array[LDTEntry(j)]
              /\ EntriesFit' => \A k \in {1, 2} :
                   desc_array'[Segment(j, k)] = desc_array[Segment(j, k)]
<1>1. /\ i \notin Tasks /\ c \in Tasks /\ Tasks \subseteq Index
      /\ tss \in Word /\ tss # NULL /\ LdtAddress[i] \in Word
      /\ tss_address' = [tss_address EXCEPT ![i] = tss]
      /\ tss_address \in [Index -> Word \cup {NULL}]
      /\ desc_array \in [Slots -> Desc]
      /\ \A j \in Index : j < i => j \in Tasks
  BY DescriptorAssumption DEF ForkDescriptors, Tasks, DescInv, DescTypeOK
<1>2. /\ Tasks' = Tasks \cup {i}
      /\ tss_address'[i] = tss
      /\ \A j \in Tasks : tss_address'[j] = tss_address[j]
  BY <1>1 DEF Tasks
<1>3. ASSUME EntriesFit'
      PROVE  /\ EntriesFit /\ LDTEntry(i) < GDT_TABLE_MAX_SIZE
             /\ \A k \in {1, 2} :
                  get_limit(desc_array[Segment(c, k)]) = TaskLimit
  <2>1. EntriesFit /\ LDTEntry(i) < GDT_TABLE_MAX_SIZE
    BY <1>2, <1>3 DEF EntriesFit
  <2>2. QED
    BY <1>1, <2>1
       DEF DescInv, SegmentsAreInPlace, get_limit, get_limit_frome_desc
<1>4. /\ desc_array' \in [Slots -> Desc]
      /\ desc_array'[TSSEntry(i)] = set_tssldt_desc(tss, 137)
      /\ desc_array'[LDTEntry(i)] = set_tssldt_desc(LdtAddress[i], 130)
      /\ EntriesFit' => \A k \in {1, 2} :
           desc_array'[Segment(i, k)] =
             set_limit(set_base(desc_array[Segment(i, k)], SegmentBase(i)),
                       TaskLimit)
      /\ \A s \in Slots \ Places(i) : desc_array'[s] = desc_array[s]
  BY <1>3, DescribeEffect DEF ForkDescriptors, DescInv
<1>5. ASSUME NEW j \in Tasks
      PROVE  /\ desc_array'[TSSEntry(j)] = desc_array[TSSEntry(j)]
             /\ desc_array'[LDTEntry(j)] = desc_array[LDTEntry(j)]
  <2>1. j \in Index /\ j < i
    <3>1. j \in Index /\ j # i /\ ~(i < j)
      BY <1>1 DEF DescInv, SlotsInOrder
    <3>2. QED
      BY <3>1 DEF Index
  <2>2. /\ TSSEntry(j) \in Slots \ Places(i)
        /\ LDTEntry(j) \in Slots \ Places(i)
    BY <2>1, PlacesAreApart DEF Places
  <2>3. QED
    BY <1>4, <2>2
<1>6. ASSUME EntriesFit', NEW j \in Tasks, NEW k \in {1, 2}
      PROVE  desc_array'[Segment(j, k)] = desc_array[Segment(j, k)]
  <2>1. j \in Index \ {i}
    BY <1>1
  <2>2. Segment(j, k) \in Slots \ Places(i)
    BY <1>3, <1>6, <2>1, SegmentsAreApart
  <2>3. QED
    BY <1>4, <2>2
<1>7. DescTypeOK'
  BY <1>1, <1>4 DEF ForkDescriptors, DescInv, DescTypeOK
<1>8. TasksAreFound'
  BY <1>1, <1>2, <1>4, <1>5, SystemDescriptor DEF DescInv, TasksAreFound
<1>9. ASSUME EntriesFit' PROVE SegmentsAreInPlace'
  <2>1. \A k \in {1, 2} :
          /\ get_base_from_desc(desc_array'[Segment(i, k)]) = SegmentBase(i)
          /\ get_limit_frome_desc(desc_array'[Segment(i, k)]) = TaskLimit
    <3>1. /\ TaskLimit \in Word
          /\ TaskLimit = <<TaskLimit[1], TaskLimit[2], TaskLimit[3] % 16, 0>>
      BY DEF TaskLimit, Word, Byte
    <3>2. \A k \in {1, 2} : desc_array[Segment(i, k)] \in Desc
      BY <1>1, PlacesAreApart DEF Places
    <3>3. QED
      BY <1>4, <1>9, <3>1, <3>2, BaseIsWord, SegmentDescriptor
  <2>2. QED
    BY <1>2, <1>3, <1>6, <1>9, <2>1 DEF DescInv, SegmentsAreInPlace
<1>10. GatesLeadToHandlers' /\ SlotsInOrder'
  BY <1>1, <1>2 DEF ForkDescriptors, DescInv, GatesLeadToHandlers, SlotsInOrder
<1>11. SegmentsAreInPlace'
  BY <1>9 DEF SegmentsAreInPlace
<1>12. QED
  BY <1>5, <1>6, <1>7, <1>8, <1>10, <1>11 DEF DescInv

(* Every step keeps the tables readable.                                   *)
LEMMA DescInvStep == DescInv /\ [DescNext]_descVars => DescInv'
<1> SUFFICES ASSUME DescInv, [DescNext]_descVars
             PROVE  DescInv'
  OBVIOUS
<1>1. ASSUME NEW i \in Index, NEW c \in Index, NEW tss \in Address,
             ForkDescriptors(i, c, tss)
      PROVE  DescInv'
  BY <1>1, ForkKeepsInv
<1>2. ASSUME NEW addr \in Address, SetPageFaultTraps(addr)
      PROVE  DescInv'
  <2>1. addr \in Word
    BY DescriptorAssumption
  <2>2. DescTypeOK'
    BY DescTypesStep DEF DescInv
  <2>3. GatesLeadToHandlers'
    BY <1>2, <2>1, Gate
       DEF SetPageFaultTraps, DescInv, DescTypeOK, GatesLeadToHandlers, PAGE_FAULT
  <2>4. TasksAreFound' /\ SegmentsAreInPlace' /\ SlotsInOrder'
    BY <1>2 DEF SetPageFaultTraps, DescInv, TasksAreFound, SegmentsAreInPlace,
                EntriesFit, SlotsInOrder, Tasks
  <2>5. QED
    BY <2>2, <2>3, <2>4 DEF DescInv
<1>3. ASSUME UNCHANGED descVars PROVE DescInv'
  BY <1>3 DEF descVars, DescInv, DescTypeOK, TasksAreFound, SegmentsAreInPlace,
              EntriesFit, SlotsInOrder, GatesLeadToHandlers, Tasks
<1>4. QED
  BY <1>1, <1>2, <1>3 DEF DescNext

(* Every entry is a descriptor, even where those of many tasks overlap:    *)
(* what set_TSS_desc and set_LDT_desc write past the end of gdt falls into *)
(* ldt_array, never beside both.                                           *)
THEOREM DescriptorTypes == DescSpec => []DescTypeOK
BY DescTypesInit, DescTypesStep, PTL DEF DescSpec

(* The processor finds every task's TSS and LDT, whatever their addresses, *)
(* for any number of tasks: also where they lie in the LDTs of earlier     *)
(* tasks, no later fork writes there.                                      *)
THEOREM TasksStayFound == DescSpec => []TasksAreFound
<1>1. DescInit => DescInv
  BY DescInvInit
<1>2. DescInv /\ [DescNext]_descVars => DescInv'
  BY DescInvStep
<1>3. DescInv => TasksAreFound
  BY DEF DescInv
<1>4. QED
  BY <1>1, <1>2, <1>3, PTL DEF DescSpec

(* Every segment is where its slot says and of the first task's limit: the *)
(* one directory entry per segment that MemoryManage takes for granted.    *)
(* With the 256 entries of the code this goes for the first 126 tasks.     *)
THEOREM SegmentsStayInPlace == DescSpec => []SegmentsAreInPlace
<1>1. DescInit => DescInv
  BY DescInvInit
<1>2. DescInv /\ [DescNext]_descVars => DescInv'
  BY DescInvStep
<1>3. DescInv => SegmentsAreInPlace
  BY DEF DescInv
<1>4. QED
  BY <1>1, <1>2, <1>3, PTL DEF DescSpec

(* Every gate that was ever bound leads to the function it was bound to;   *)
(* the interrupt table is apart, so this holds wherever the tasks are.     *)
THEOREM GatesStayBound == DescSpec => []GatesLeadToHandlers
<1> DEFINE Inv == /\ idt \in [Vector -> Desc] /\ handler \in [Vector -> Word]
                  /\ GatesLeadToHandlers
           Set(v) == set_gate(GateType(v), GateDpl(v), TrapFunction[v])
<1>1. ASSUME DescInit PROVE Inv
  <2>1. TrapFunction \in [Vector -> Word]
    BY DescriptorAssumption
  <2>2. handler = TrapFunction /\ idt = [v \in Vector |-> Set(v)]
    BY <1>1 DEF DescInit
  <2>3. QED
    BY <2>1, <2>2, Gate DEF GatesLeadToHandlers, GateType, GateDpl
<1>2. ASSUME Inv, [DescNext]_descVars PROVE Inv'
  <2>1. ASSUME NEW addr \in Address, SetPageFaultTraps(addr) PROVE Inv'
    <3>1. addr \in Word /\ PAGE_FAULT # 32
      BY DescriptorAssumption DEF PAGE_FAULT
    <3>2. QED
      BY <1>2, <2>1, <3>1, Gate DEF SetPageFaultTraps, GatesLeadToHandlers
  <2>2. ASSUME UNCHANGED <<idt, handler>> PROVE Inv'
    BY <1>2, <2>2 DEF GatesLeadToHandlers
  <2>3. QED
    BY <1>2, <2>1, <2>2 DEF DescNext, ForkDescriptors, descVars
<1>3. QED
  BY <1>1, <1>2, PTL DEF DescSpec

(* A fork never touches the entries of a task that exists, nor, as long as *)
(* its own fit, a segment of one.                                          *)
THEOREM ForksAreApart == DescSpec => ForksKeepDescriptors
<1> DEFINE Kept == \A i \in Tasks :
             /\ desc_array'[TSSEntry(i)] = desc_array[TSSEntry(i)]
             /\ desc_array'[LDTEntry(i)] = desc_array[LDTEntry(i)]
             /\ EntriesFit' => \A k \in {1, 2} :
                  desc_array'[Segment(i, k)] = desc_array[Segment(i, k)]
<1>1. DescInit => DescInv
  BY DescInvInit
<1>2. DescInv /\ [DescNext]_descVars => DescInv'
  BY DescInvStep
<1>3. DescInv /\ [DescNext]_descVars => [Kept]_descVars
  <2> SUFFICES ASSUME DescInv, DescNext
               PROVE  Kept
    OBVIOUS
  <2>1. CASE \E i, c \in Index, tss \in Address : ForkDescriptors(i, c, tss)
    BY <2>1, ForkKeepsInv
  <2>2. CASE \E addr \in Address : SetPageFaultTraps(addr)
    BY <2>2 DEF SetPageFaultTraps
  <2>3. QED
    BY <2>1, <2>2 DEF DescNext
<1>4. QED
  BY <1>1, <1>2, <1>3, PTL DEF DescSpec, ForksKeepDescriptors
=============================================================================
