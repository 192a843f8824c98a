---------------------------- MODULE Descriptors ----------------------------
(***************************************************************************)
(* The descriptor tables, as their bytes: the memory manager and the system*)
(* call interface write them (include/memorymanage.h, kernel/memorymanage  *)
(* .cpp, kernel/systemcall.cpp), the processor reads them (rescue/mutixcpu *)
(* .cpp).  The fields of a descriptor lie scattered over its two words, and*)
(* writer and reader must scatter and gather them the same way.            *)
(*                                                                         *)
(* A 32-bit word is <<bits 0-7, 8-15, 16-23, 24-31>>.  In the object of    *)
(* class MemoryManage ldt_array follows gdt, so here they are one array    *)
(* and an index past the end of gdt lands in ldt_array.                    *)
(***************************************************************************)
EXTENDS Integers

CONSTANTS
  MAX_TASK_NUM,
  GDT_TABLE_MAX_SIZE,   \* entries of the gdt       (256)
  Address,              \* the words that occur as addresses
  LdtAddress,           \* slot -> the address of its ldt_table
  Vector,               \* entries of the interrupt table that are modelled
  TrapFunction,         \* vector -> the on_... function it is first bound to
  NULL

Byte == 0 .. 255
Word == Byte \X Byte \X Byte \X Byte

FIRST_TSS_ENTRY == 4
FIRST_LDT_ENTRY == 5
PAGE_FAULT      == 14

Index == 0 .. MAX_TASK_NUM - 1

ASSUME DescriptorAssumption ==
  /\ MAX_TASK_NUM \in 1 .. 255
  /\ GDT_TABLE_MAX_SIZE \in Nat
  /\ GDT_TABLE_MAX_SIZE > FIRST_LDT_ENTRY
  /\ Address \subseteq Word
  /\ LdtAddress \in [Index -> Word]
  /\ Vector \subseteq 0 .. 255
  /\ TrapFunction \in [Vector -> Word]
  /\ NULL \notin Word

Desc == [a : Word, b : Word]

VARIABLES
  desc_array,   \* gdt, then the three descriptors of every ldt_table
  idt,          \* vector -> gate
  handler,      \* vector -> the address it was last bound to
  tss_address   \* slot -> the address of its tss, or NULL if it has no task

descVars == <<desc_array, idt, handler, tss_address>>

Slots == 0 .. GDT_TABLE_MAX_SIZE + 3 * MAX_TASK_NUM - 1

DescTypeOK ==
  /\ desc_array \in [Slots -> Desc]
  /\ idt \in [Vector -> Desc]
  /\ handler \in [Vector -> Word]
  /\ tss_address \in [Index -> Word \cup {NULL}]

(***************************************************************************)
(* Writing descriptors                                                     *)
(***************************************************************************)

Zero == [a |-> <<0, 0, 0, 0>>, b |-> <<0, 0, 0, 0>>]

(* A mutant of TSSEntry: entries follow each other without one for the LDT.*)
TSSEntry_Dense(index) == index + FIRST_TSS_ENTRY

TSSEntry(index) == 2 * index + FIRST_TSS_ENTRY
LDTEntry(index) == 2 * index + FIRST_LDT_ENTRY

(* ldt_array[index][k], where 1 is code and 2 is data.                     *)
Segment(index, k) == GDT_TABLE_MAX_SIZE + 3 * index + k

(* A mutant of set_base: bits 16-23 and 24-31 change places.               *)
set_base_Swapped(d, base) ==
  [a |-> <<d.a[1], d.a[2], base[1], base[2]>>,
   b |-> <<base[4], d.b[2], d.b[3], base[3]>>]

set_base(d, base) ==
  [a |-> <<d.a[1], d.a[2], base[1], base[2]>>,
   b |-> <<base[3], d.b[2], d.b[3], base[4]>>]

set_limit(d, limit) ==
  [a |-> <<limit[1], limit[2], d.a[3], d.a[4]>>,
   b |-> <<d.b[1], d.b[2], (16 * (d.b[3] \div 16)) + (limit[3] % 16), d.b[4]>>]

get_base(d) == <<d.a[3], d.a[4], d.b[1], d.b[4]>>

get_limit(d) == <<d.a[1], d.a[2], d.b[3] % 16, 0>>

(* A mutant of set_tssldt_desc: bits 16-23 of the address are left out.    *)
set_tssldt_desc_Short(aim_addr, type) ==
  [a |-> <<104, 0, aim_addr[1], aim_addr[2]>>,
   b |-> <<0, type, 0, aim_addr[4]>>]

(* A TSS (type 0x89) or LDT (0x82) descriptor.                             *)
set_tssldt_desc(aim_addr, type) ==
  [a |-> <<104, 0, aim_addr[1], aim_addr[2]>>,
   b |-> <<aim_addr[3], type, 0, aim_addr[4]>>]

(* Mutants of set_gate: the present bit is missing; the privilege is       *)
(* shifted one bit too far.                                                *)
set_gate_Wide(type, dpl, addr) ==
  [a |-> <<addr[1], addr[2], 8, 0>>,
   b |-> <<0, 128 + 64 * dpl + type, addr[3], addr[4]>>]

set_gate_Absent(type, dpl, addr) ==
  [a |-> <<addr[1], addr[2], 8, 0>>,
   b |-> <<0, 32 * dpl + type, addr[3], addr[4]>>]

(* A gate for a handler in the kernel's code segment, selector 8.          *)
set_gate(type, dpl, addr) ==
  [a |-> <<addr[1], addr[2], 8, 0>>,
   b |-> <<0, 128 + 32 * dpl + type, addr[3], addr[4]>>]

(* index * SEG_LENGTH, which is 4 in the highest byte, in 32 bits.         *)
SegmentBase(index) == <<0, 0, 0, (4 * index) % 256>>

(* What Init_LDT_desc writes: limit 0x9f, and the access rights of user    *)
(* code and data.                                                          *)
TaskLimit == <<159, 0, 0, 0>>
FirstCode == [a |-> TaskLimit, b |-> <<0, 250, 192, 0>>]
FirstData == [a |-> TaskLimit, b |-> <<0, 242, 192, 0>>]

(***************************************************************************)
(* Reading them, in the processor                                          *)
(***************************************************************************)

get_base_from_desc(d) == <<d.a[3], d.a[4], d.b[1], d.b[4]>>

get_limit_frome_desc(d) == <<d.a[1], d.a[2], d.b[3] % 16, 0>>

get_offset_from_gate(d) == <<d.a[1], d.a[2], d.b[3], d.b[4]>>

(* The access byte is bits 8-15 of the second word: present, privilege,    *)
(* segment or system, type.                                                *)
check_type(d) ==
  LET access  == d.b[2]
      present == access >= 128
      segment == (access \div 16) % 2 = 1
      type    == access % 16
  IN  CASE ~present                                    -> "NOT_IN_MEM"
        [] present /\ segment /\ type >= 8             -> "CODE_SEG"
        [] present /\ segment /\ type < 8              -> "DATA_SEG"
        [] present /\ ~segment /\ type \in {0, 8, 10, 13} -> "ILLEGAL"
        [] present /\ ~segment /\ type \in {1, 3, 9, 11}  -> "TSS"
        [] present /\ ~segment /\ type = 2             -> "LDT"
        [] present /\ ~segment /\ type \in {4, 12}     -> "CALL_GATE"
        [] present /\ ~segment /\ type = 5             -> "TASK_GATE"
        [] present /\ ~segment /\ type \in {6, 14}     -> "INTER_GATE"
        [] present /\ ~segment /\ type \in {7, 15}     -> "TRAP_GATE"

(* The selector of a gate.                                                 *)
get_choice_from_gate(d) == d.a[3] + 256 * d.a[4]

(* Bit 3, the lowest of the index, decides for the LDT (bit 2 would be the *)
(* one that says so); and the LDT is then looked for at the address that   *)
(* the LDT's own selector makes, where there is none.                      *)
get_desc_from_choice(choice) ==
  IF (choice \div 8) % 2 = 1 THEN NULL ELSE desc_array[choice \div 8]

Below(v, w) ==
  \E k \in 1 .. 4 : v[k] < w[k] /\ \A j \in k + 1 .. 4 : v[j] = w[j]

(* The base and offset of the function that deal_with_trap calls, or NULL: *)
(* where the type of the segment should be tested, it is the gate's again. *)
deal_with_trap(gate) ==
  LET offset   == get_offset_from_gate(gate)
      seg_desc == get_desc_from_choice(get_choice_from_gate(gate))
  IN  IF \/ check_type(gate) # "TRAP_GATE"
         \/ check_type(gate) # "CODE_SEG"
         \/ seg_desc = NULL
         \/ Below(get_limit_frome_desc(seg_desc), offset)
        THEN NULL
        ELSE <<get_base_from_desc(seg_desc), offset>>

(* Interrupt and call gates have empty functions; no gate is a task gate.  *)
deal_with_gate(gate) ==
  IF check_type(gate) = "TRAP_GATE" THEN deal_with_trap(gate) ELSE NULL

(***************************************************************************)
(* The operations                                                          *)
(***************************************************************************)

(* The gates SystemCallInit leaves: interrupt 0x20 alone is no trap; 3, 4, *)
(* 5 and the system call, 0x74, may be used by tasks.                      *)
GateType(vector) == IF vector = 32 THEN 14 ELSE 15
GateDpl(vector)  == IF vector \in {3, 4, 5, 116} THEN 3 ELSE 0

(* SystemCallInit and MemoryManageInit, then set_TSS_desc and Init_LDT_desc*)
(* for the first task in ProcessManageInit.                                *)
DescInit ==
  \E tss \in Address :
    /\ tss_address = [i \in Index |-> IF i = 0 THEN tss ELSE NULL]
    /\ desc_array = [s \in Slots |->
         CASE s = 1 -> [a |-> <<0, 255, 15, 0>>, b |-> <<0, 154, 192, 0>>]
           [] s = 2 -> [a |-> <<255, 15, 0, 0>>, b |-> <<0, 146, 192, 0>>]
           [] s = TSSEntry(0)   -> set_tssldt_desc(tss, 137)
           [] s = LDTEntry(0)   -> set_tssldt_desc(LdtAddress[0], 130)
           [] s = Segment(0, 1) -> FirstCode
           [] s = Segment(0, 2) -> FirstData
           [] OTHER             -> Zero]
    /\ handler = TrapFunction
    /\ idt = [v \in Vector |->
                set_gate(GateType(v), GateDpl(v), TrapFunction[v])]

(* The descriptors of a fork: set_TSS_desc, then set_LDT_desc, where       *)
(* ldt_copy_mem takes the limits from the parent and nothing else, and     *)
(* changes bases and limits of the child's descriptors and nothing else.   *)
Describe(index, current_index, tss) ==
  LET d1 == [desc_array EXCEPT ![TSSEntry(index)] = set_tssldt_desc(tss, 137)]
      New(k) == set_limit(set_base(d1[Segment(index, k)], SegmentBase(index)),
                          get_limit(d1[Segment(current_index, k)]))
      d2 == [d1 EXCEPT ![Segment(index, 1)] = New(1),
                       ![Segment(index, 2)] = New(2)]
  IN  desc_array' = [d2 EXCEPT ![LDTEntry(index)] =
                       set_tssldt_desc(LdtAddress[index], 130)]

ForkDescriptors(index, current_index, tss) ==
  /\ tss_address[index] = NULL
  /\ \A i \in Index : i < index => tss_address[i] # NULL
  /\ tss_address[current_index] # NULL
  /\ Describe(index, current_index, tss)
  /\ tss_address' = [tss_address EXCEPT ![index] = tss]
  /\ UNCHANGED <<idt, handler>>

(* SetPageFaultTraps: a trap gate of privilege 0.                          *)
SetPageFaultTraps(addr) ==
  /\ PAGE_FAULT \in Vector
  /\ idt' = [idt EXCEPT ![PAGE_FAULT] = set_gate(15, 0, addr)]
  /\ handler' = [handler EXCEPT ![PAGE_FAULT] = addr]
  /\ UNCHANGED <<desc_array, tss_address>>

DescNext ==
  \/ \E index, current_index \in Index, tss \in Address :
       ForkDescriptors(index, current_index, tss)
  \/ \E addr \in Address : SetPageFaultTraps(addr)

DescSpec == DescInit /\ [][DescNext]_descVars

(***************************************************************************)
(* Properties                                                              *)
(***************************************************************************)

Tasks == {i \in Index : tss_address[i] # NULL}

(* The two entries of every task lie in the gdt, not behind it in the LDTs.*)
EntriesFit == \A i \in Tasks : LDTEntry(i) < GDT_TABLE_MAX_SIZE

(* The processor finds what the kernel stored: the task's descriptor is a  *)
(* TSS at the address of the task's tss, and the next one an LDT at that of*)
(* its ldt_table, after any number of forks, be these entries in the gdt or*)
(* behind it: no later fork writes its segments over them.                 *)
TasksAreFound ==
  \A i \in Tasks :
    LET tss == desc_array[TSSEntry(i)]
        ldt == desc_array[LDTEntry(i)]
    IN  /\ check_type(tss) = "TSS" /\ get_base_from_desc(tss) = tss_address[i]
        /\ check_type(ldt) = "LDT" /\ get_base_from_desc(ldt) = LdtAddress[i]

(* Code and data of every task are one segment, at the place that belongs  *)
(* to its slot and of the limit of the first task's; up to the task that is*)
(* the first to have an entry behind the gdt, in the LDT of the first task.*)
SegmentsAreInPlace ==
  EntriesFit =>
    \A i \in Tasks : \A k \in {1, 2} :
      /\ get_base_from_desc(desc_array[Segment(i, k)]) = SegmentBase(i)
      /\ get_limit_frome_desc(desc_array[Segment(i, k)]) = TaskLimit

(* Every gate that was bound is of its kind and leads to its handler.      *)
GatesLeadToHandlers ==
  \A v \in Vector :
    /\ check_type(idt[v]) = IF v = 32 THEN "INTER_GATE" ELSE "TRAP_GATE"
    /\ get_offset_from_gate(idt[v]) = handler[v]

(* A fork leaves the descriptors of the tasks there are as they are: the   *)
(* entries for TSS and LDT always, the segments as long as entries fit.    *)
ForksKeepDescriptors ==
  [][\A i \in Tasks :
       /\ desc_array'[TSSEntry(i)] = desc_array[TSSEntry(i)]
       /\ desc_array'[LDTEntry(i)] = desc_array[LDTEntry(i)]
       /\ EntriesFit' => \A k \in {1, 2} :
            desc_array'[Segment(i, k)] = desc_array[Segment(i, k)]]_descVars

(* Every task's LDT holds a code and a data segment, as the first task's   *)
(* does.                                                                   *)
SegmentsHaveRights ==
  \A i \in Tasks :
    /\ check_type(desc_array[Segment(i, 1)]) = "CODE_SEG"
    /\ check_type(desc_array[Segment(i, 2)]) = "DATA_SEG"

(* A trap whose gate was bound reaches the function it was bound to, in the*)
(* kernel's code, wherever its descriptor has that start.                  *)
TrapsReachHandlers ==
  \A v \in Vector : check_type(idt[v]) = "TRAP_GATE" =>
    deal_with_gate(idt[v]) = <<get_base_from_desc(desc_array[1]), handler[v]>>
=============================================================================
