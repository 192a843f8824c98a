------------------------ MODULE MemoryManage_proof ------------------------
(***************************************************************************)
(* Frames, tables and use counts of MemoryManage, for any number of tasks, *)
(* frames and entries.                                                     *)
(***************************************************************************)
EXTENDS MemoryManage, FiniteSetTheorems, WellFoundedInduction, TLAPS

(***************************************************************************)
(* The inductive invariant                                                 *)
(***************************************************************************)

(* The two kinds of use of a frame that UsesOf counts.                     *)
AsTable(f) == {d \in Dir : page_dir[d] = f}
AsPage(f)  == {x \in Tables \X Entry : content[x[1]][x[2]].page = f}

(* What a frame holds that is no table, cleared, data or left over, cannot *)
(* be taken for the number of a frame.                                     *)
OnlyTablesPoint ==
  \A f \in Frame \ Tables : \A e \in Entry : content[f][e].page \notin Frame

(* NoEarlyReuse, TablesArePrivate and SharedIsReadOnly without their       *)
(* premise: a word of data counts as an entry that maps nothing.  While the*)
(* memory is "up" there is none in a table, so there they say the same.    *)
CountsCover == \A f \in Frame : memory_map[f] >= UsesOf(f)

TablesApart ==
  /\ \A c, d \in Dir : page_dir[c] = page_dir[d] /\ page_dir[c] # NULL => c = d
  /\ \A t \in Tables : \A e \in Entry : content[t][e].page \notin Tables

SharedProtected ==
  \A s, t \in Tables : \A e, g \in Entry :
    (content[s][e].page \in Frame /\ content[s][e].page = content[t][g].page
       /\ <<s, e>> # <<t, g>>)
      => ~content[s][e].write

TablesHoldEntries ==
  memory = "up" => \A t \in Tables : \A e \in Entry : content[t][e].page # Junk

IInv ==
  /\ MMTypeOK
  /\ CountsCover
  /\ TablesApart
  /\ OnlyTablesPoint
  /\ SharedProtected
  /\ TablesHoldEntries

(* What else the steps are shown to do, for the theorems at the end: change*)
(* at most what directory entry d maps, and keep the kernel's own map.     *)
OnlyChanges(d) == \A c \in Dir \ {d} : Mapping(c)' = Mapping(c)
KernelKept == KernelStaysMapped => KernelStaysMapped'

(***************************************************************************)
(* Counting                                                                *)
(***************************************************************************)

(* Every set of numbers but the empty one has a least element.             *)
LEMMA Least ==
  ASSUME NEW S \in SUBSET Nat, S # {}
  PROVE  \E n \in S : \A m \in S : n <= m
<1> DEFINE R == {p \in Nat \X Nat : p[1] < p[2]}
<1>1. IsWellFoundedOn(R, Nat)
  BY NatLessThanWellFounded DEF OpToRel
<1> HIDE DEF R
<1>2. PICK n \in S : \A m \in S : ~(<<m, n>> \in R)
  BY <1>1, WFMin
<1>3. \A m \in S : ~(m < n)
  BY <1>2 DEF R
<1>4. QED
  BY <1>3

(* What get_free_page finds is a frame, and free, or nothing.              *)
LEMMA FreeFrameIsFree ==
  ASSUME NEW map \in [Frame -> Nat]
  PROVE  /\ FreeFrame(map) \in Frame \cup {NULL}
         /\ FreeFrame(map) # NULL => map[FreeFrame(map)] = 0
<1> DEFINE S == {f \in Frame : map[f] = 0}
<1>1. CASE S = {}
  BY <1>1 DEF FreeFrame
<1>2. CASE S # {}
  <2>1. S \in SUBSET Nat
    BY DEF Frame
  <2>2. PICK f \in S : \A g \in S : f <= g
    BY <1>2, <2>1, Least
  <2>3. f \in Frame /\ map[f] = 0
    OBVIOUS
  <2>4. \A g \in Frame : g < f => map[g] # 0
    BY <2>2, MemoryAssumption DEF Frame
  <2>5. \E h \in Frame : map[h] = 0 /\ \A g \in Frame : g < h => map[g] # 0
    BY <2>3, <2>4
  <2>6. FreeFrame(map) =
          CHOOSE h \in Frame : map[h] = 0 /\ \A g \in Frame : g < h => map[g] # 0
    BY <2>3 DEF FreeFrame
  <2>7. FreeFrame(map) \in Frame /\ map[FreeFrame(map)] = 0
    BY <2>5, <2>6
  <2>8. QED
    BY <2>7, PageAssumption DEF Frame
<1>3. QED
  BY <1>1, <1>2

(* The sets that are counted are finite.                                   *)
LEMMA Finite ==
  ASSUME MMTypeOK
  PROVE  /\ Tables \subseteq Frame
         /\ IsFiniteSet(Entry) /\ IsFiniteSet(Frame) /\ IsFiniteSet(Dir)
         /\ \A f : IsFiniteSet(AsTable(f)) /\ IsFiniteSet(AsPage(f))
<1>1. Tables \subseteq Frame
  BY DEF MMTypeOK, Tables
<1>2. IsFiniteSet(Entry) /\ IsFiniteSet(Frame) /\ IsFiniteSet(Dir)
  BY FS_Interval, MemoryAssumption DEF Entry, Frame, Dir
<1>3. \A f : IsFiniteSet(AsTable(f))
  <2>1. \A f : AsTable(f) \in SUBSET Dir
    BY DEF AsTable
  <2>2. QED
    BY <1>2, <2>1, FS_Subset
<1>4. \A f : IsFiniteSet(AsPage(f))
  <2>1. IsFiniteSet(Frame \X Entry)
    BY <1>2, FS_Product
  <2>2. \A f : AsPage(f) \in SUBSET (Frame \X Entry)
    BY <1>1 DEF AsPage
  <2>3. QED
    BY <2>1, <2>2, FS_Subset
<1>5. QED
  BY <1>1, <1>2, <1>3, <1>4

LEMMA CardinalityBounds ==
  ASSUME NEW S, IsFiniteSet(S), NEW x, NEW T
  PROVE  /\ Cardinality(S) \in Nat
         /\ T \subseteq S => Cardinality(T) <= Cardinality(S)
         /\ x \in S /\ T \subseteq S \ {x} => Cardinality(T) <= Cardinality(S) - 1
         /\ T \subseteq {x} => Cardinality(T) <= 1
         /\ T = {} => Cardinality(T) = 0
         /\ T \subseteq S => Cardinality(T) \in Nat
<1>1. Cardinality(S) \in Nat
  BY FS_CardinalityType
<1>2. T \subseteq S => Cardinality(T) <= Cardinality(S) /\ IsFiniteSet(T)
  BY FS_Subset
<1>3. ASSUME x \in S, T \subseteq S \ {x}
      PROVE  Cardinality(T) <= Cardinality(S) - 1
  <2>1. IsFiniteSet(S \ {x}) /\ Cardinality(S \ {x}) = Cardinality(S) - 1
    BY <1>3, FS_RemoveElement
  <2>2. QED
    BY <1>3, <2>1, FS_Subset
<1>4. T \subseteq {x} => Cardinality(T) <= 1
  <2>1. IsFiniteSet({x}) /\ Cardinality({x}) = 1
    BY FS_Singleton
  <2>2. QED
    BY <2>1, FS_Subset
<1>5. T = {} => Cardinality(T) = 0
  BY FS_EmptySet
<1>6. T \subseteq S => Cardinality(T) \in Nat
  BY <1>2, FS_CardinalityType
<1>7. QED
  BY <1>1, <1>2, <1>3, <1>4, <1>5, <1>6

(* UsesOf counts AsTable and AsPage; a frame whose count is 0 is not used, *)
(* and one whose count is 1 in one place only.                             *)
LEMMA UsesAreCounted ==
  ASSUME IInv, NEW f \in Frame
  PROVE  /\ UsesOf(f) = Cardinality(AsTable(f)) + Cardinality(AsPage(f))
         /\ Cardinality(AsTable(f)) \in Nat /\ Cardinality(AsPage(f)) \in Nat
         /\ memory_map[f] \in Nat
         /\ Cardinality(AsTable(f)) + Cardinality(AsPage(f)) <= memory_map[f]
         /\ memory_map[f] = 0 => AsTable(f) = {} /\ AsPage(f) = {}
         /\ memory_map[f] = 1 => \A x, y \in AsPage(f) : x = y
<1>1. UsesOf(f) = Cardinality(AsTable(f)) + Cardinality(AsPage(f))
  BY DEF UsesOf, AsTable, AsPage
<1>2. IsFiniteSet(AsTable(f)) /\ IsFiniteSet(AsPage(f))
  BY Finite DEF IInv
<1>3. Cardinality(AsTable(f)) \in Nat /\ Cardinality(AsPage(f)) \in Nat
  BY <1>2, FS_CardinalityType
<1>4. memory_map[f] \in Nat
  BY DEF IInv, MMTypeOK
<1>5. Cardinality(AsTable(f)) + Cardinality(AsPage(f)) <= memory_map[f]
  BY <1>1, <1>3, <1>4 DEF IInv, CountsCover
<1>6. memory_map[f] = 0 => AsTable(f) = {} /\ AsPage(f) = {}
  <2>1. memory_map[f] = 0 => Cardinality(AsTable(f)) = 0 /\ Cardinality(AsPage(f)) = 0
    BY <1>3, <1>5
  <2>2. QED
    BY <1>2, <2>1, FS_EmptySet
<1>7. ASSUME memory_map[f] = 1, NEW x \in AsPage(f), NEW y \in AsPage(f), x # y
      PROVE  FALSE
  <2>1. Cardinality(AsPage(f) \ {x}) = Cardinality(AsPage(f)) - 1
    BY <1>2, <1>7, FS_RemoveElement
  <2>2. IsFiniteSet(AsPage(f) \ {x}) /\ AsPage(f) \ {x} # {}
    BY <1>2, <1>7, FS_RemoveElement
  <2>3. Cardinality(AsPage(f) \ {x}) # 0
    BY <2>2, FS_EmptySet
  <2>4. Cardinality(AsPage(f)) <= 1
    BY <1>3, <1>5, <1>7
  <2>5. QED
    BY <1>3, <2>1, <2>2, <2>3, <2>4, FS_CardinalityType
<1>8. QED
  BY <1>1, <1>3, <1>4, <1>5, <1>6, <1>7

(* The next state in terms of the counts: what CountsCover' comes to.     *)
LEMMA CountsSuffice ==
  ASSUME MMTypeOK', 
         \A f \in Frame : Cardinality(AsTable(f)') + Cardinality(AsPage(f)') <= memory_map'[f]
  PROVE  CountsCover'
<1>1. \A f \in Frame : /\ Cardinality(AsTable(f)') \in Nat
                       /\ Cardinality(AsPage(f)') \in Nat
                       /\ memory_map'[f] \in Nat
  <2>1. IsFiniteSet(Dir) /\ IsFiniteSet(Frame \X Entry)
    <3>1. IsFiniteSet(Dir) /\ IsFiniteSet(Frame) /\ IsFiniteSet(Entry)
      BY FS_Interval, MemoryAssumption DEF Entry, Frame, Dir
    <3>2. QED
      BY <3>1, FS_Product
  <2>2. Tables' \subseteq Frame
    BY DEF MMTypeOK, Tables
  <2>3. \A f : AsTable(f)' \in SUBSET Dir /\ AsPage(f)' \in SUBSET (Frame \X Entry)
    BY <2>2 DEF AsTable, AsPage
  <2>4. \A f : IsFiniteSet(AsTable(f)') /\ IsFiniteSet(AsPage(f)')
    BY <2>1, <2>3, FS_Subset
  <2>5. QED
    BY <2>4, FS_CardinalityType DEF MMTypeOK
<1>2. QED
  BY <1>1 DEF CountsCover, UsesOf, AsTable, AsPage

(***************************************************************************)
(* The invariant holds at boot                                             *)
(***************************************************************************)

LEMMA InitHolds == MMInit => IInv
<1> SUFFICES ASSUME MMInit PROVE IInv
  OBVIOUS
<1>1. 0 \in Frame /\ 0 \in Index /\ 0 \in Dir
  BY MemoryAssumption DEF Frame, Index, Dir
<1>2. MMTypeOK
  BY <1>1 DEF MMInit, MMTypeOK, Item, PageOrNull, Absent
<1>3. \A f \in Frame, e \in Entry : content[f][e].page \notin Frame
  BY PageAssumption DEF MMInit, Absent, Frame
<1>4. Tables = {0}
  BY <1>1, PageAssumption DEF MMInit, Tables
<1>5. \A f \in Frame : AsPage(f) = {} /\ AsTable(f) \subseteq (IF f = 0 THEN {0} ELSE {})
  BY <1>1, <1>3, <1>4, PageAssumption DEF AsPage, AsTable, MMInit, Frame
<1>6. CountsCover
  <2> SUFFICES ASSUME NEW f \in Frame PROVE memory_map[f] >= UsesOf(f)
    BY DEF CountsCover
  <2>1. Cardinality(AsPage(f)) = 0
    BY <1>5, FS_EmptySet
  <2>2. IsFiniteSet({0}) /\ IsFiniteSet({})
    BY FS_Singleton, FS_EmptySet
  <2>3. Cardinality(AsTable(f)) \in Nat /\ Cardinality(AsTable(f)) <= memory_map[f]
    <3>1. CASE f = 0
      <4>1. AsTable(f) \subseteq {0}
        BY <1>5, <3>1
      <4>2. Cardinality(AsTable(f)) \in Nat /\ Cardinality(AsTable(f)) <= 1
        BY <2>2, <4>1, CardinalityBounds
      <4>3. QED
        BY <1>1, <3>1, <4>2 DEF MMInit
    <3>2. CASE f # 0
      <4>1. AsTable(f) = {} /\ memory_map[f] = 0
        BY <1>5, <3>2 DEF MMInit
      <4>2. QED
        BY <4>1, FS_EmptySet
    <3>3. QED
      BY <3>1, <3>2
  <2>4. QED
    BY <2>1, <2>3 DEF UsesOf, AsTable, AsPage, MMInit
<1>7. TablesApart
  BY <1>1, <1>3, <1>4, PageAssumption DEF MMInit, TablesApart
<1>8. OnlyTablesPoint /\ SharedProtected
  BY <1>3, <1>4, <1>1 DEF OnlyTablesPoint, SharedProtected
<1>8a. TablesHoldEntries
  BY <1>1, <1>4, PageAssumption DEF TablesHoldEntries, MMInit, Absent
<1>9. QED
  BY <1>2, <1>6, <1>7, <1>8, <1>8a DEF IInv

(***************************************************************************)
(* put_page                                                                *)
(***************************************************************************)

(* A directory entry whose table is neither replaced nor remapped maps what*)
(* it did.                                                                 *)
LEMMA SameMapping ==
  ASSUME NEW c \in Dir, page_dir'[c] = page_dir[c],
         page_dir[c] # NULL => \A e \in Entry :
           content'[page_dir[c]][e].page = content[page_dir[c]][e].page
  PROVE  Mapping(c)' = Mapping(c)
  BY DEF Mapping

LEMMA PutPage ==
  ASSUME IInv, NEW index \in Index, NEW entry \in Entry, put_page(index, entry)
  PROVE  IInv' /\ OnlyChanges(ldt_base[index]) /\ KernelKept
<1> DEFINE dir == ldt_base[index]
           page == FreeFrame(memory_map)
           table == IF page_dir[dir] # NULL THEN page_dir[dir]
                    ELSE FreeFrame(Taken(memory_map, page))
           mapped == [page |-> IF page = NULL THEN Kernel ELSE page, write |-> TRUE]
<1>1. /\ MMTypeOK /\ dir \in Dir /\ NULL \notin Frame
      /\ Kernel \notin Frame /\ Junk \notin Frame
  BY PageAssumption DEF IInv, put_page, Alive, MMTypeOK, Frame
<1>2. /\ page \in Frame \cup {NULL}
      /\ page # NULL => memory_map[page] = 0
  BY <1>1, FreeFrameIsFree DEF MMTypeOK
<1>3. /\ Taken(memory_map, page) \in [Frame -> Nat]
      /\ \A f \in Frame : Taken(memory_map, page)[f] =
                            memory_map[f] + (IF f = page THEN 1 ELSE 0)
  BY <1>1, <1>2 DEF Taken, MMTypeOK
<1>4. /\ table \in Frame \cup {NULL}
      /\ page_dir[dir] = NULL /\ table # NULL =>
           /\ memory_map[table] = 0
           /\ table # page
  <2>1. CASE page_dir[dir] # NULL
    BY <1>1, <2>1 DEF MMTypeOK
  <2>2. CASE page_dir[dir] = NULL
    BY <1>1, <1>2, <1>3, <2>2, FreeFrameIsFree DEF MMTypeOK
  <2>3. QED
    BY <2>1, <2>2
<1>5. page # NULL => AsTable(page) = {} /\ AsPage(page) = {} /\ page \notin Tables
  BY <1>1, <1>2, UsesAreCounted DEF AsTable, Tables
<1>6. page_dir[dir] = NULL /\ table # NULL =>
        AsTable(table) = {} /\ AsPage(table) = {} /\ table \notin Tables
  BY <1>1, <1>4, UsesAreCounted DEF AsTable, Tables
<1>7. CASE table = NULL
  <2>1. /\ memory_map' = Taken(memory_map, page)
        /\ UNCHANGED <<page_dir, content, ldt_base, memory, gone>>
    BY <1>7 DEF put_page
  <2> HIDE DEF page, table
  <2>2. MMTypeOK'
    BY <1>1, <1>3, <2>1 DEF MMTypeOK
  <2>3. \A f \in Frame : AsTable(f)' = AsTable(f) /\ AsPage(f)' = AsPage(f)
    BY <2>1 DEF AsTable, AsPage, Tables
  <2>4. CountsCover'
    BY <1>3, <2>1, <2>2, <2>3, CountsSuffice, UsesAreCounted
  <2>5. OnlyChanges(dir) /\ KernelKept
    BY <2>1 DEF OnlyChanges, Mapping, KernelKept, KernelStaysMapped
  <2>6. QED
    BY <2>1, <2>2, <2>4, <2>5
       DEF IInv, TablesApart, OnlyTablesPoint, SharedProtected,
           TablesHoldEntries, Tables
<1>8. CASE table # NULL
  <2>1. /\ page_dir' = [page_dir EXCEPT ![dir] = table]
        /\ UNCHANGED <<ldt_base, gone>>
        /\ KeepLeftovers(table) /\ memory = "up"
        /\ memory_map' = IF page_dir[dir] # NULL
             THEN Taken(memory_map, page)
             ELSE Taken(Taken(memory_map, page), table)
        /\ content' =
             [[f \in Frame |-> IF f = page
                  THEN [e \in Entry |-> [page |-> Junk, write |-> TRUE]]
                  ELSE content[f]] EXCEPT ![table][entry] = mapped]
    BY <1>8 DEF put_page
  <2>2. page_dir[dir] # NULL => content[table][entry] = Absent
    BY DEF put_page
  <2>3. table \in Frame
    BY <1>4, <1>8
  <2>4. table # page
    BY <1>1, <1>4, <1>5, <1>8 DEF Tables
  <2>5. page_dir[dir] # NULL => table = page_dir[dir]
    OBVIOUS
  <2>6. mapped \in Item /\ mapped.page = (IF page = NULL THEN Kernel ELSE page)
    BY <1>2 DEF Item, PageOrNull
  <2> HIDE DEF page, table, mapped
  <2>7. \A f \in Frame : memory_map'[f] = memory_map[f]
            + (IF f = page THEN 1 ELSE 0)
            + (IF f = table /\ page_dir[dir] = NULL THEN 1 ELSE 0)
    BY <1>1, <1>3, <2>1, <2>3 DEF Taken, MMTypeOK
  <2>8. \A f \in Frame, e \in Entry : content'[f][e] =
            IF f = table /\ e = entry THEN mapped
            ELSE IF f = page THEN [page |-> Junk, write |-> TRUE]
            ELSE content[f][e]
    BY <1>1, <2>1, <2>3 DEF MMTypeOK
  <2>9. MMTypeOK'
    <3>1. page_dir' \in [Dir -> Frame \cup {NULL}]
      BY <1>1, <2>1, <2>3 DEF MMTypeOK
    <3>2. memory_map' \in [Frame -> Nat]
      BY <1>1, <1>3, <2>1, <2>3 DEF Taken, MMTypeOK
    <3>3. content' \in [Frame -> [Entry -> Item]]
      <4>1. [e \in Entry |-> [page |-> Junk, write |-> TRUE]] \in [Entry -> Item]
        BY DEF Item, PageOrNull
      <4>2. QED
        BY <1>1, <2>1, <2>3, <2>6, <4>1 DEF MMTypeOK
    <3>4. memory' \in {"up", "stray"}
      BY <2>1 DEF KeepLeftovers
    <3>5. QED
      BY <1>1, <2>1, <3>1, <3>2, <3>3, <3>4 DEF MMTypeOK
  <2>10. Tables' = Tables \cup {table}
    BY <1>1, <2>1, <2>3, <2>5 DEF Tables, MMTypeOK
  <2>11. /\ page # NULL => page \notin Tables'
         /\ \A t \in Tables' : t \in Frame
    BY <1>5, <2>3, <2>4, <2>10, <1>1, Finite
  <2>12. \A f \in Frame : AsTable(f)' \subseteq
            AsTable(f) \cup (IF f = table /\ page_dir[dir] = NULL THEN {dir} ELSE {})
    BY <1>1, <2>1, <2>3, <2>5 DEF AsTable, MMTypeOK
  <2>13. \A f \in Frame : AsPage(f)' \subseteq
            AsPage(f) \cup (IF f = page THEN {<<table, entry>>} ELSE {})
    <3> SUFFICES ASSUME NEW f \in Frame, NEW t \in Tables', NEW e \in Entry,
                        content'[t][e].page = f
                 PROVE  \/ t \in Tables /\ content[t][e].page = f
                        \/ f = page /\ t = table /\ e = entry
      BY DEF AsPage
    <3>1. CASE t = table /\ e = entry
      BY <1>1, <2>3, <2>6, <2>8, <3>1
    <3>2. CASE ~(t = table /\ e = entry)
      <4>1. t \in Frame /\ t # page
        BY <2>11, <1>1
      <4>2. content[t][e].page = f
        BY <2>8, <3>2, <4>1
      <4>3. t \in Tables
        BY <1>1, <4>1, <4>2 DEF IInv, OnlyTablesPoint
      <4>4. QED
        BY <4>2, <4>3
    <3>3. QED
      BY <3>1, <3>2
  <2>14. CountsCover'
    <3> SUFFICES ASSUME NEW f \in Frame
                 PROVE  Cardinality(AsTable(f)') + Cardinality(AsPage(f)')
                          <= memory_map'[f]
      BY <2>9, CountsSuffice
    <3>1. IsFiniteSet(AsTable(f)) /\ IsFiniteSet(AsPage(f))
      BY <1>1, Finite
    <3>2. CASE f = page
      <4>1. AsTable(f)' = {} /\ AsPage(f)' \subseteq {<<table, entry>>}
        BY <1>1, <1>5, <2>4, <2>12, <2>13, <3>2
      <4>2. Cardinality(AsTable(f)') = 0 /\ Cardinality(AsPage(f)') <= 1
        BY <3>1, <4>1, CardinalityBounds
      <4>3. Cardinality(AsPage(f)') \in Nat
        BY <2>9, Finite, FS_CardinalityType, <4>1, FS_Singleton, CardinalityBounds
      <4>4. QED
        BY <1>2, <1>1, <2>4, <2>7, <3>2, <4>2, <4>3
    <3>3. CASE f = table /\ page_dir[dir] = NULL
      <4>1. AsTable(f)' \subseteq {dir} /\ AsPage(f)' = {}
        BY <1>6, <1>8, <2>4, <2>12, <2>13, <3>3
      <4>2. Cardinality(AsTable(f)') <= 1 /\ Cardinality(AsPage(f)') = 0
        BY <3>1, <4>1, CardinalityBounds
      <4>3. Cardinality(AsTable(f)') \in Nat
        BY <4>1, FS_Singleton, CardinalityBounds
      <4>4. memory_map'[f] >= 1
        BY <1>1, <2>7, <3>3, <2>4 DEF MMTypeOK
      <4>5. QED
        BY <2>9, <4>2, <4>3, <4>4 DEF MMTypeOK
    <3>4. CASE f # page /\ ~(f = table /\ page_dir[dir] = NULL)
      <4>1. AsTable(f)' \subseteq AsTable(f) /\ AsPage(f)' \subseteq AsPage(f)
        BY <2>12, <2>13, <3>4
      <4>2. /\ Cardinality(AsTable(f)') \in Nat /\ Cardinality(AsPage(f)') \in Nat
            /\ Cardinality(AsTable(f)') <= Cardinality(AsTable(f))
            /\ Cardinality(AsPage(f)') <= Cardinality(AsPage(f))
        BY <3>1, <4>1, CardinalityBounds
      <4>3. memory_map'[f] = memory_map[f]
        BY <1>1, <2>7, <3>4 DEF MMTypeOK
      <4>4. QED
        BY <4>2, <4>3, UsesAreCounted
    <3>5. QED
      BY <3>2, <3>3, <3>4
  <2>15. TablesApart'
    <3>1. ASSUME NEW c \in Dir, NEW d \in Dir,
                 page_dir'[c] = page_dir'[d], page_dir'[c] # NULL
          PROVE  c = d
      <4>1. CASE page_dir[dir] # NULL
        BY <1>1, <2>1, <2>5, <3>1, <4>1 DEF IInv, TablesApart, MMTypeOK
      <4>2. CASE page_dir[dir] = NULL
        BY <1>1, <1>6, <1>8, <2>1, <3>1, <4>2
           DEF IInv, TablesApart, MMTypeOK, AsTable
      <4>3. QED
        BY <4>1, <4>2
    <3>2. ASSUME NEW t \in Tables', NEW e \in Entry, NEW f \in Tables',
                 content'[t][e].page = f
          PROVE  FALSE
      <4>1. f \in Frame /\ f # page /\ <<t, e>> \in AsPage(f)
        <5>1. f \in Frame
          BY <2>11, <3>2
        <5>2. f # page
          BY <1>1, <2>11, <3>2, <5>1
        <5>3. <<t, e>> \in AsPage(f)'
          BY <3>2 DEF AsPage
        <5>4. QED
          BY <2>13, <5>1, <5>2, <5>3
      <4>2. t \in Tables /\ content[t][e].page = f
        BY <4>1 DEF AsPage
      <4>3. f \notin Tables
        BY <4>2 DEF IInv, TablesApart
      <4>4. f = table /\ page_dir[dir] = NULL
        BY <1>1, <2>3, <2>5, <2>10, <3>2, <4>3 DEF Tables
      <4>5. QED
        BY <1>6, <1>8, <4>1, <4>4
    <3>3. QED
      BY <3>1, <3>2 DEF TablesApart
  <2>16. OnlyTablesPoint'
    BY <1>1, <2>8, <2>10 DEF IInv, OnlyTablesPoint
  <2>17. SharedProtected'
    <3> SUFFICES ASSUME NEW s \in Tables', NEW t \in Tables',
                        NEW e \in Entry, NEW g \in Entry,
                        NEW f \in Frame, content'[s][e].page = f,
                        content'[t][g].page = f, <<s, e>> # <<t, g>>
                 PROVE  ~content'[s][e].write
      BY DEF SharedProtected
    <3>1. <<s, e>> \in AsPage(f)' /\ <<t, g>> \in AsPage(f)'
      BY DEF AsPage
    <3>2. f # page
      BY <1>1, <1>5, <2>13, <3>1
    <3>3. <<s, e>> \in AsPage(f) /\ <<t, g>> \in AsPage(f)
      BY <2>13, <3>1, <3>2
    <3>4. ~content[s][e].write
      BY <3>3 DEF AsPage, IInv, SharedProtected
    <3>5. s \in Frame /\ s # page /\ ~(s = table /\ e = entry)
      BY <1>1, <2>3, <2>6, <2>8, <2>11, <3>2
    <3>6. QED
      BY <2>8, <3>4, <3>5
  <2>18. OnlyChanges(dir)
    <3> SUFFICES ASSUME NEW c \in Dir \ {dir} PROVE Mapping(c)' = Mapping(c)
      BY DEF OnlyChanges
    <3>1. page_dir'[c] = page_dir[c]
      BY <1>1, <2>1 DEF MMTypeOK
    <3>2. ASSUME page_dir[c] # NULL
          PROVE  page_dir[c] \in Tables /\ page_dir[c] # table
      <4>1. page_dir[c] \in Tables
        BY <3>2 DEF Tables
      <4>2. CASE page_dir[dir] # NULL
        <5>1. \A d \in Dir : page_dir[c] = page_dir[d] => c = d
          BY <3>2 DEF IInv, TablesApart
        <5>2. page_dir[c] # page_dir[dir]
          BY <1>1, <5>1
        <5>3. QED
          BY <2>5, <4>1, <4>2, <5>2
      <4>3. CASE page_dir[dir] = NULL
        BY <1>6, <1>8, <4>1, <4>3
      <4>4. QED
        BY <4>1, <4>2, <4>3
    <3>3. page_dir[c] # NULL => \A e \in Entry :
            content'[page_dir[c]][e].page = content[page_dir[c]][e].page
      BY <1>1, <2>8, <2>10, <2>11, <3>2
    <3>4. QED
      BY <3>1, <3>3, SameMapping
  <2>19. KernelKept
    <3> SUFFICES ASSUME KernelStaysMapped PROVE KernelStaysMapped'
      BY DEF KernelKept
    <3>1. 0 \in Dir /\ page_dir[0] \in Tables
      BY MemoryAssumption DEF KernelStaysMapped, Dir, Tables
    <3>2. page_dir'[0] = page_dir[0] /\ page_dir[0] \in Frame /\ page_dir[0] # page
      BY <1>1, <2>1, <2>5, <2>10, <2>11, <3>1 DEF KernelStaysMapped, MMTypeOK
    <3>3. ASSUME NEW e \in Entry, e < KERNEL_PAGES
          PROVE  ~(page_dir[0] = table /\ e = entry)
      <4>1. content[page_dir[0]][e].page # NULL
        BY <3>3, PageAssumption DEF KernelStaysMapped
      <4>2. CASE page_dir[dir] # NULL
        BY <2>2, <4>1, <4>2 DEF Absent
      <4>3. CASE page_dir[dir] = NULL
        BY <1>6, <1>8, <3>1, <4>3
      <4>4. QED
        BY <4>2, <4>3
    <3>4. QED
      BY <2>8, <3>2, <3>3 DEF KernelStaysMapped
  <2>20. TablesHoldEntries'
    <3> SUFFICES ASSUME memory' = "up", NEW t \in Tables', NEW e \in Entry
                 PROVE  content'[t][e].page # Junk
      BY DEF TablesHoldEntries
    <3>1. CASE t = table
      BY <2>1, <3>1 DEF KeepLeftovers
    <3>2. CASE t # table
      <4>1. t \in Tables /\ t \in Frame /\ t # page
        BY <1>1, <2>10, <2>11, <3>2
      <4>2. QED
        BY <2>1, <2>8, <3>2, <4>1 DEF IInv, TablesHoldEntries
    <3>3. QED
      BY <3>1, <3>2
  <2>21. QED
    BY <2>9, <2>14, <2>15, <2>16, <2>17, <2>18, <2>19, <2>20 DEF IInv
<1>9. QED
  BY <1>7, <1>8

(***************************************************************************)
(* un_wp_page                                                              *)
(***************************************************************************)

(* What un_wp_page is called for is an entry, and maps a page.             *)
LEMMA OldIsMapped ==
  ASSUME IInv, NEW index \in Index, NEW entry \in Entry, un_wp_page(index, entry)
  PROVE  /\ page_dir[ldt_base[index]] \in Frame /\ page_dir[ldt_base[index]] \in Tables
         /\ content[page_dir[ldt_base[index]]][entry].page \in Frame \cup {Kernel}
         /\ UNCHANGED <<page_dir, ldt_base, memory, gone>>
<1> DEFINE t == page_dir[ldt_base[index]]
<1>1. MMTypeOK /\ ldt_base[index] \in Dir
  BY DEF IInv, un_wp_page, Alive, MMTypeOK
<1>2. /\ t \in Frame /\ t \in Tables /\ memory = "up"
      /\ content[t][entry].page # NULL
      /\ UNCHANGED <<page_dir, ldt_base, memory, gone>>
  BY <1>1 DEF un_wp_page, MMTypeOK, Tables
<1>3. content[t][entry].page # Junk
  BY <1>2 DEF IInv, TablesHoldEntries
<1>4. content[t][entry].page \in PageOrNull
  BY <1>1, <1>2 DEF MMTypeOK, Item
<1>5. QED
  BY <1>2, <1>3, <1>4 DEF PageOrNull

LEMMA UnWpPage ==
  ASSUME IInv, NEW index \in Index, NEW entry \in Entry, un_wp_page(index, entry)
  PROVE  IInv' /\ OnlyChanges(ldt_base[index]) /\ KernelKept
<1> DEFINE t == page_dir[ldt_base[index]]
           old == content[t][entry].page
           page == FreeFrame(memory_map)
           mapped == [page |-> IF page = NULL THEN Kernel ELSE page, write |-> TRUE]
<1>1. /\ MMTypeOK /\ ldt_base[index] \in Dir /\ NULL \notin Frame
      /\ Kernel \notin Frame /\ Junk \notin Frame
  BY PageAssumption DEF IInv, un_wp_page, Alive, MMTypeOK, Frame
<1>2. /\ page \in Frame \cup {NULL}
      /\ page # NULL => memory_map[page] = 0
  BY <1>1, FreeFrameIsFree DEF MMTypeOK
<1>3. /\ t \in Frame /\ t \in Tables
      /\ old \in Frame \cup {Kernel}
      /\ UNCHANGED <<page_dir, ldt_base, memory, gone>>
  BY OldIsMapped
<1>4. old \in Frame => <<t, entry>> \in AsPage(old)
  BY <1>3 DEF AsPage
<1>5. Tables' = Tables /\ \A f \in Frame : AsTable(f)' = AsTable(f)
  BY <1>3 DEF Tables, AsTable
<1>6. page # NULL => AsTable(page) = {} /\ AsPage(page) = {} /\ page \notin Tables
  BY <1>1, <1>2, UsesAreCounted DEF AsTable, Tables
<1>6a. ASSUME NEW c \in Dir \ {ldt_base[index]}, page_dir[c] # NULL
      PROVE  page_dir[c] \in Tables /\ page_dir[c] # t
  BY <1>1, <1>3, <1>6a DEF Tables, IInv, TablesApart
<1>6b. ASSUME KernelStaysMapped
      PROVE  /\ 0 \in Dir /\ page_dir[0] \in Tables
             /\ \A e \in Entry : e < KERNEL_PAGES => ~(page_dir[0] = t /\ e = entry)
  <2>1. 0 \in Dir /\ page_dir[0] \in Tables
    BY <1>6b, MemoryAssumption DEF KernelStaysMapped, Dir, Tables
  <2>2. \A e \in Entry : e < KERNEL_PAGES => content[page_dir[0]][e].write
    BY <1>6b DEF KernelStaysMapped
  <2>3. ~content[t][entry].write
    BY DEF un_wp_page
  <2>4. QED
    BY <2>1, <2>2, <2>3
<1>7. CASE old \in Frame /\ memory_map[old] = 1
  <2>1. /\ content' = [content EXCEPT ![t][entry].write = TRUE]
        /\ UNCHANGED memory_map
    BY <1>7 DEF un_wp_page
  <2> HIDE DEF t, old, page, mapped
  <2>2. \A f \in Frame, e \in Entry :
          /\ content'[f][e].page = content[f][e].page
          /\ ~(f = t /\ e = entry) => content'[f][e] = content[f][e]
    BY <1>1, <1>3, <2>1 DEF MMTypeOK, Item
  <2>3. MMTypeOK'
    <3>1. content \in [Frame -> [Entry -> Item]]
      BY <1>1 DEF MMTypeOK
    <3>2. content[t][entry] \in Item
      BY <1>3, <3>1
    <3>3. [content[t][entry] EXCEPT !.write = TRUE] \in Item
      BY <3>2 DEF Item
    <3>4. content' \in [Frame -> [Entry -> Item]]
      BY <1>3, <2>1, <3>1, <3>3
    <3>5. QED
      BY <1>1, <1>3, <2>1, <3>4 DEF MMTypeOK
  <2>4. \A x \in Tables : x \in Frame
    BY <1>1, Finite
  <2>5. \A f \in Frame : AsPage(f)' = AsPage(f)
    BY <1>5, <2>2, <2>4 DEF AsPage
  <2>6. CountsCover'
    BY <1>5, <2>1, <2>3, <2>5, CountsSuffice, UsesAreCounted
  <2>7. TablesApart' /\ OnlyTablesPoint'
    BY <1>3, <1>5, <2>2, <2>4 DEF IInv, TablesApart, OnlyTablesPoint
  <2>8. SharedProtected'
    <3> SUFFICES ASSUME NEW r \in Tables, NEW s \in Tables,
                        NEW e \in Entry, NEW g \in Entry,
                        NEW f \in Frame, content[r][e].page = f,
                        content[s][g].page = f, <<r, e>> # <<s, g>>
                 PROVE  ~content'[r][e].write
      BY <1>5, <2>2, <2>4 DEF SharedProtected
    <3>1. <<r, e>> \in AsPage(f) /\ <<s, g>> \in AsPage(f)
      BY DEF AsPage
    <3>2. f # old
      BY <1>7, <3>1, UsesAreCounted
    <3>3. ~(r = t /\ e = entry)
      BY <3>2 DEF old
    <3>4. QED
      BY <2>2, <2>4, <3>3 DEF IInv, SharedProtected
  <2>9. OnlyChanges(ldt_base[index])
    <3> SUFFICES ASSUME NEW c \in Dir \ {ldt_base[index]}
                 PROVE  Mapping(c)' = Mapping(c)
      BY DEF OnlyChanges
    <3>1. page_dir[c] # NULL => page_dir[c] \in Frame
      BY <1>6a, <2>4
    <3>2. QED
      BY <1>3, <2>2, <3>1, SameMapping
  <2>10. KernelKept
    BY <1>3, <1>6b, <2>2, <2>4 DEF KernelKept, KernelStaysMapped
  <2>11. TablesHoldEntries'
    BY <1>3, <1>5, <2>2, <2>4 DEF IInv, TablesHoldEntries
  <2>12. QED
    BY <2>3, <2>6, <2>7, <2>8, <2>9, <2>10, <2>11 DEF IInv
<1>8. CASE ~(old \in Frame /\ memory_map[old] = 1)
  <2>1. /\ memory_map' = NewPage(memory_map, old, page)
        /\ content' =
             [[f \in Frame |-> IF f = page
                  THEN [e \in Entry |-> [page |-> Junk, write |-> TRUE]]
                  ELSE content[f]] EXCEPT ![t][entry] = mapped]
    BY <1>8 DEF un_wp_page
  <2>2. mapped \in Item /\ mapped.page = (IF page = NULL THEN Kernel ELSE page)
    BY <1>2 DEF Item, PageOrNull
  <2>3. t # page
    BY <1>1, <1>3, <1>6
  <2>4. old \in Frame => memory_map[old] \in Nat /\ memory_map[old] >= 2 /\ old # page
    <3> SUFFICES ASSUME old \in Frame
                 PROVE  memory_map[old] \in Nat /\ memory_map[old] >= 2 /\ old # page
      OBVIOUS
    <3>1. memory_map[old] \in Nat /\ memory_map[old] # 0 /\ memory_map[old] # 1
      BY <1>4, <1>8, UsesAreCounted
    <3>2. QED
      BY <1>1, <1>2, <3>1
  <2>5. content[t][entry].page = old
    OBVIOUS
  <2> HIDE DEF t, old, page, mapped
  <2>6. /\ memory_map' \in [Frame -> Nat]
        /\ \A f \in Frame : memory_map'[f] = memory_map[f]
             + (IF f = page THEN 1 ELSE 0) - (IF f = old THEN 1 ELSE 0)
    <3>1. /\ Taken(memory_map, page) \in [Frame -> Nat]
          /\ \A f \in Frame : Taken(memory_map, page)[f] =
                                memory_map[f] + (IF f = page THEN 1 ELSE 0)
      BY <1>1, <1>2 DEF Taken, MMTypeOK
    <3>2. CASE old = Kernel
      BY <1>1, <2>1, <3>1, <3>2 DEF NewPage, MMTypeOK
    <3>3. CASE old # Kernel
      BY <1>1, <1>3, <2>1, <2>4, <3>1, <3>3 DEF NewPage, MMTypeOK
    <3>4. QED
      BY <3>2, <3>3
  <2>7. \A f \in Frame, e \in Entry : content'[f][e] =
            IF f = t /\ e = entry THEN mapped
            ELSE IF f = page THEN [page |-> Junk, write |-> TRUE]
            ELSE content[f][e]
    BY <1>1, <1>3, <2>1 DEF MMTypeOK
  <2>8. MMTypeOK'
    <3>1. [e \in Entry |-> [page |-> Junk, write |-> TRUE]] \in [Entry -> Item]
      BY DEF Item, PageOrNull
    <3>2. content' \in [Frame -> [Entry -> Item]]
      BY <1>1, <1>3, <2>1, <2>2, <3>1 DEF MMTypeOK
    <3>3. QED
      BY <1>1, <1>3, <2>6, <3>2 DEF MMTypeOK
  <2>9. /\ page # NULL => page \notin Tables
        /\ \A x \in Tables : x \in Frame /\ x # page
    BY <1>1, <1>6, Finite
  <2>10. \A f \in Frame : AsPage(f)' \subseteq
            (AsPage(f) \ (IF f = old THEN {<<t, entry>>} ELSE {}))
              \cup (IF f = page THEN {<<t, entry>>} ELSE {})
    <3> SUFFICES ASSUME NEW f \in Frame, NEW x \in Tables, NEW e \in Entry,
                        content'[x][e].page = f
                 PROVE  \/ /\ content[x][e].page = f
                           /\ ~(f = old /\ x = t /\ e = entry)
                        \/ f = page /\ x = t /\ e = entry
      BY <1>5 DEF AsPage
    <3>1. CASE x = t /\ e = entry
      BY <1>1, <1>3, <2>2, <2>7, <3>1
    <3>2. CASE ~(x = t /\ e = entry)
      BY <2>7, <2>9, <3>2
    <3>3. QED
      BY <3>1, <3>2
  <2>11. CountsCover'
    <3> SUFFICES ASSUME NEW f \in Frame
                 PROVE  Cardinality(AsTable(f)') + Cardinality(AsPage(f)')
                          <= memory_map'[f]
      BY <2>8, CountsSuffice
    <3>1. IsFiniteSet(AsTable(f)) /\ IsFiniteSet(AsPage(f))
      BY <1>1, Finite
    <3>2. CASE f = page
      <4>1. AsTable(f)' = {} /\ AsPage(f)' \subseteq {<<t, entry>>}
        BY <1>1, <1>5, <1>6, <2>10, <3>2
      <4>2. Cardinality(AsTable(f)') = 0 /\ Cardinality(AsPage(f)') <= 1
        BY <3>1, <4>1, CardinalityBounds
      <4>3. Cardinality(AsPage(f)') \in Nat
        BY <4>1, FS_Singleton, CardinalityBounds
      <4>4. memory_map'[f] = 1
        BY <1>1, <1>2, <2>4, <2>6, <3>2
      <4>5. QED
        BY <4>2, <4>3, <4>4
    <3>3. CASE f = old
      <4>1. /\ AsTable(f)' = AsTable(f)
            /\ AsPage(f)' \subseteq AsPage(f) \ {<<t, entry>>}
            /\ AsPage(f)' \subseteq AsPage(f)
        BY <1>5, <2>4, <2>10, <3>3
      <4>2. /\ Cardinality(AsPage(f)') <= Cardinality(AsPage(f)) - 1
            /\ Cardinality(AsPage(f)') \in Nat
        BY <1>4, <3>1, <3>3, <4>1, CardinalityBounds
      <4>3. memory_map'[f] = memory_map[f] - 1
        BY <2>4, <2>6, <3>3
      <4>4. QED
        BY <4>1, <4>2, <4>3, UsesAreCounted
    <3>4. CASE f # page /\ f # old
      <4>1. AsTable(f)' = AsTable(f) /\ AsPage(f)' \subseteq AsPage(f)
        BY <1>5, <2>10, <3>4
      <4>2. /\ Cardinality(AsPage(f)') <= Cardinality(AsPage(f))
            /\ Cardinality(AsPage(f)') \in Nat
        BY <3>1, <4>1, CardinalityBounds
      <4>3. memory_map'[f] = memory_map[f]
        BY <1>1, <2>6, <3>4 DEF MMTypeOK
      <4>4. QED
        BY <4>1, <4>2, <4>3, UsesAreCounted
    <3>5. QED
      BY <3>2, <3>3, <3>4
  <2>12. TablesApart'
    <3>1. \A x \in Tables : \A e \in Entry : content'[x][e].page \notin Tables
      BY <1>1, <1>3, <2>2, <2>7, <2>9 DEF IInv, TablesApart
    <3>2. QED
      BY <1>3, <1>5, <3>1 DEF IInv, TablesApart
  <2>13. OnlyTablesPoint'
    BY <1>1, <1>3, <1>5, <2>7 DEF IInv, OnlyTablesPoint
  <2>14. SharedProtected'
    <3> SUFFICES ASSUME NEW r \in Tables, NEW s \in Tables,
                        NEW e \in Entry, NEW g \in Entry,
                        NEW f \in Frame, content'[r][e].page = f,
                        content'[s][g].page = f, <<r, e>> # <<s, g>>
                 PROVE  ~content'[r][e].write
      BY <1>5 DEF SharedProtected
    <3>1. <<r, e>> \in AsPage(f)' /\ <<s, g>> \in AsPage(f)'
      BY <1>5 DEF AsPage
    <3>2. f # page
      BY <1>1, <1>6, <2>10, <3>1
    <3>3. <<r, e>> \in AsPage(f) /\ <<s, g>> \in AsPage(f)
      BY <2>10, <3>1, <3>2
    <3>4. ~content[r][e].write
      BY <3>3 DEF AsPage, IInv, SharedProtected
    <3>5. ~(r = t /\ e = entry)
      BY <1>1, <1>3, <2>2, <2>7, <3>2
    <3>6. QED
      BY <2>7, <2>9, <3>4, <3>5
  <2>15. OnlyChanges(ldt_base[index])
    <3> SUFFICES ASSUME NEW c \in Dir \ {ldt_base[index]}
                 PROVE  Mapping(c)' = Mapping(c)
      BY DEF OnlyChanges
    <3>1. page_dir[c] # NULL =>
            page_dir[c] \in Frame /\ page_dir[c] # t /\ page_dir[c] # page
      BY <1>6a, <2>9
    <3>2. QED
      BY <1>3, <2>7, <3>1, SameMapping
  <2>16. KernelKept
    BY <1>3, <1>6b, <2>7, <2>9 DEF KernelKept, KernelStaysMapped
  <2>17. TablesHoldEntries'
    <3>1. mapped.page # Junk
      BY <1>1, <1>2, <2>2, PageAssumption
    <3>2. QED
      BY <1>3, <1>5, <2>7, <2>9, <3>1 DEF IInv, TablesHoldEntries
  <2>18. QED
    BY <2>8, <2>11, <2>12, <2>13, <2>14, <2>15, <2>16, <2>17 DEF IInv
<1>9. QED
  BY <1>7, <1>8

(***************************************************************************)
(* free_page_tables                                                        *)
(***************************************************************************)

(* One row of a table of pairs has as many pairs as it has columns.        *)
LEMMA OneRow ==
  ASSUME NEW E, IsFiniteSet(E), NEW x
  PROVE  /\ IsFiniteSet({x} \X E)
         /\ Cardinality({x} \X E) = Cardinality(E)
         /\ Cardinality(E) \in Nat
<1>1. IsFiniteSet({x}) /\ Cardinality({x}) = 1
  BY FS_Singleton
<1>2. Cardinality(E) \in Nat
  BY FS_CardinalityType
<1>3. IsFiniteSet({x} \X E) /\ Cardinality({x} \X E) = Cardinality({x}) * Cardinality(E)
  BY <1>1, FS_Product
<1>4. QED
  BY <1>1, <1>2, <1>3

LEMMA NothingMapped ==
  ASSUME IInv, MMTypeOK', UNCHANGED <<page_dir, content, memory_map>>,
         memory' \in {memory, "fault"}
  PROVE  IInv' /\ KernelKept /\ \A d \in Dir : OnlyChanges(d)
<1>1. Tables' = Tables
  BY DEF Tables
<1>2. \A f \in Frame : AsTable(f)' = AsTable(f) /\ AsPage(f)' = AsPage(f)
  BY <1>1 DEF AsTable, AsPage
<1>3. CountsCover'
  BY <1>2, CountsSuffice, UsesAreCounted
<1>4. KernelKept /\ \A d \in Dir : OnlyChanges(d)
  BY DEF OnlyChanges, Mapping, KernelKept, KernelStaysMapped
<1>5. QED
  BY <1>1, <1>3, <1>4
     DEF IInv, TablesApart, OnlyTablesPoint, SharedProtected, TablesHoldEntries

LEMMA FreePageTables ==
  ASSUME IInv, NEW dir \in Dir, free_page_tables(dir),
         ldt_base' \in [Index -> Dir \cup {NULL}], gone' \subseteq Index
  PROVE  IInv' /\ OnlyChanges(dir) /\ (dir # 0 => KernelKept)
<1> DEFINE t == page_dir[dir]
           lost(f) == Uses(f, content[t]) + (IF f = t THEN 1 ELSE 0)
           Row(f) == {t} \X {e \in Entry : content[t][e].page = f}
<1>1. /\ MMTypeOK /\ NULL \notin Frame /\ t \in Frame \cup {NULL}
  BY PageAssumption DEF IInv, MMTypeOK, Frame
<1>2. CASE t = NULL \/ UNCHANGED <<page_dir, content, memory_map>>
  <2>1. /\ UNCHANGED <<page_dir, content, memory_map>>
        /\ memory' \in {memory, "fault"}
    BY <1>1, <1>2 DEF free_page_tables, MMTypeOK
  <2>2. MMTypeOK'
    BY <1>1, <2>1 DEF MMTypeOK
  <2>3. QED
    BY <2>1, <2>2, NothingMapped
<1>3. CASE ~(t = NULL \/ UNCHANGED <<page_dir, content, memory_map>>)
  <2>1. /\ memory_map' = [f \in Frame |->
              IF memory_map[f] >= lost(f) THEN memory_map[f] - lost(f) ELSE 0]
        /\ content' = [content EXCEPT ![t] = [e \in Entry |-> Absent]]
        /\ page_dir' = [page_dir EXCEPT ![dir] = NULL]
        /\ UNCHANGED memory
    BY <1>3 DEF free_page_tables
  <2>2. t \in Frame /\ t \in Tables /\ page_dir[dir] = t
    <3>1. t # NULL
      BY <1>3
    <3>2. QED
      BY <1>1, <3>1 DEF Tables
  <2>3. \A f \in Frame :
          /\ IsFiniteSet(AsTable(f)) /\ IsFiniteSet(AsPage(f))
          /\ IsFiniteSet(Row(f)) /\ Row(f) \subseteq AsPage(f)
          /\ Cardinality(Row(f)) = Uses(f, content[t])
          /\ Uses(f, content[t]) \in Nat
    <3> SUFFICES ASSUME NEW f \in Frame
                 PROVE  /\ IsFiniteSet(AsTable(f)) /\ IsFiniteSet(AsPage(f))
                        /\ IsFiniteSet(Row(f)) /\ Row(f) \subseteq AsPage(f)
                        /\ Cardinality(Row(f)) = Uses(f, content[t])
                        /\ Uses(f, content[t]) \in Nat
      OBVIOUS
    <3>1. IsFiniteSet(AsTable(f)) /\ IsFiniteSet(AsPage(f)) /\ IsFiniteSet(Entry)
      BY <1>1, Finite
    <3>2. IsFiniteSet({e \in Entry : content[t][e].page = f})
      BY <3>1, FS_Subset
    <3>3. Row(f) \subseteq AsPage(f)
      BY <2>2 DEF AsPage
    <3>4. /\ IsFiniteSet(Row(f))
          /\ Cardinality(Row(f)) = Cardinality({e \in Entry : content[t][e].page = f})
          /\ Cardinality({e \in Entry : content[t][e].page = f}) \in Nat
      BY <3>2, OneRow
    <3>5. QED
      BY <3>1, <3>3, <3>4 DEF Uses
  <2> HIDE DEF t, lost
  <2>4. Tables' = Tables \ {t}
    <3>1. \A d \in Dir : page_dir'[d] = IF d = dir THEN NULL ELSE page_dir[d]
      BY <1>1, <2>1 DEF MMTypeOK
    <3>2. \A d \in Dir : d # dir => page_dir[d] # t
      BY <1>1, <2>2 DEF IInv, TablesApart
    <3>3. QED
      BY <1>1, <2>2, <3>1, <3>2 DEF Tables
  <2>5. \A f \in Frame : AsTable(f)' = AsTable(f) \ (IF f = t THEN {dir} ELSE {})
    BY <1>1, <2>1, <2>2 DEF AsTable, MMTypeOK
  <2>6. \A f \in Frame, e \in Entry :
          content'[f][e] = IF f = t THEN Absent ELSE content[f][e]
    BY <1>1, <2>1, <2>2 DEF MMTypeOK
  <2>7. \A x \in Tables : x \in Frame
    BY <1>1, Finite
  <2>8. \A f \in Frame : AsPage(f)' = AsPage(f) \ Row(f)
    BY <2>4, <2>6, <2>7 DEF AsPage
  <2>9. MMTypeOK'
    <3>1. Absent \in Item
      BY DEF Absent, Item, PageOrNull
    <3>2. content' \in [Frame -> [Entry -> Item]]
      BY <1>1, <2>1, <2>2, <3>1 DEF MMTypeOK
    <3>3. memory_map' \in [Frame -> Nat]
      <4>1. \A f \in Frame : lost(f) \in Nat /\ memory_map[f] \in Nat
        <5> HIDE DEF Row
        <5>1. QED
          BY <1>1, <2>3 DEF MMTypeOK, lost
      <4> HIDE DEF lost
      <4>2. QED
        BY <2>1, <4>1
    <3>4. QED
      BY <1>1, <2>1, <3>2, <3>3 DEF MMTypeOK
  <2>10. CountsCover'
    <3> SUFFICES ASSUME NEW f \in Frame
                 PROVE  Cardinality(AsTable(f)') + Cardinality(AsPage(f)')
                          <= memory_map'[f]
      BY <2>9, CountsSuffice
    <3>1. Cardinality(AsPage(f)') = Cardinality(AsPage(f)) - Uses(f, content[t])
      <4>1. Cardinality(AsPage(f) \ Row(f)) =
              Cardinality(AsPage(f)) - Cardinality(AsPage(f) \cap Row(f))
        BY <2>3, FS_Difference
      <4>2. AsPage(f) \cap Row(f) = Row(f)
        BY <2>3
      <4>3. QED
        BY <2>3, <2>8, <4>1, <4>2
    <3>2. Cardinality(AsTable(f)') =
            Cardinality(AsTable(f)) - (IF f = t THEN 1 ELSE 0)
      <4>1. CASE f = t
        <5>1. dir \in AsTable(f)
          BY <2>2, <4>1 DEF AsTable
        <5>2. QED
          BY <2>3, <2>5, <4>1, <5>1, FS_RemoveElement
      <4>2. CASE f # t
        <5>1. AsTable(f)' = AsTable(f)
          BY <2>5, <4>2
        <5>2. QED
          BY <4>2, <5>1, UsesAreCounted
      <4>3. QED
        BY <4>1, <4>2
    <3>3. /\ lost(f) = Uses(f, content[t]) + (IF f = t THEN 1 ELSE 0)
          /\ lost(f) \in Nat
      <4>1. Uses(f, content[t]) \in Nat
        BY <2>3
      <4>2. QED
        BY <4>1 DEF lost
    <3>4. /\ memory_map'[f] \in Nat
          /\ memory_map'[f] >= memory_map[f] - lost(f)
      <4> HIDE DEF lost
      <4>1. QED
        BY <2>1, <2>9, <3>3, UsesAreCounted DEF MMTypeOK
    <3>5. /\ Cardinality(AsTable(f)) \in Nat /\ Cardinality(AsPage(f)) \in Nat
          /\ memory_map[f] \in Nat /\ Uses(f, content[t]) \in Nat
          /\ Cardinality(AsTable(f)) + Cardinality(AsPage(f)) <= memory_map[f]
      BY <2>3, UsesAreCounted
    <3> HIDE DEF lost
    <3>6. QED
      BY <3>1, <3>2, <3>3, <3>4, <3>5
  <2>11. TablesApart'
    BY <1>1, <2>1, <2>2, <2>4, <2>6, <2>7 DEF IInv, TablesApart, MMTypeOK
  <2>12. OnlyTablesPoint'
    BY <1>1, <2>4, <2>6 DEF IInv, OnlyTablesPoint, Absent
  <2>13. SharedProtected'
    BY <2>4, <2>6, <2>7 DEF IInv, SharedProtected
  <2>14. ASSUME NEW c \in Dir \ {dir}
        PROVE  /\ page_dir'[c] = page_dir[c]
               /\ page_dir[c] # NULL => page_dir[c] \in Frame /\ page_dir[c] # t
    BY <1>1, <2>1, <2>2 DEF MMTypeOK, IInv, TablesApart
  <2>15. OnlyChanges(dir)
    <3> SUFFICES ASSUME NEW c \in Dir \ {dir} PROVE Mapping(c)' = Mapping(c)
      BY DEF OnlyChanges
    <3>1. QED
      BY <2>6, <2>14, SameMapping
  <2>16. dir # 0 => KernelKept
    <3>1. 0 \in Dir
      BY MemoryAssumption DEF Dir
    <3>2. QED
      BY <2>6, <2>14, <3>1 DEF KernelKept, KernelStaysMapped
  <2>17. TablesHoldEntries'
    BY <2>1, <2>4, <2>6, <2>7 DEF IInv, TablesHoldEntries
  <2>18. QED
    BY <2>9, <2>10, <2>11, <2>12, <2>13, <2>15, <2>16, <2>17 DEF IInv
<1>4. QED
  BY <1>2, <1>3

(***************************************************************************)
(* copy_page_tables                                                        *)
(***************************************************************************)

LEMMA CopyPageTables ==
  ASSUME IInv, NEW source \in Dir, NEW dest \in Dir, NEW from, NEW to,
         from = page_dir[source], to = FreeFrame(memory_map),
         from # NULL, to # NULL, page_dir[dest] = NULL,
         CopyTable(from, to, source, dest),
         ldt_base' \in [Index -> Dir \cup {NULL}], gone' \subseteq Index
  PROVE  IInv' /\ OnlyChanges(dest) /\ KernelKept
<1> DEFINE copied == Copied(from, source)
           shared == {e \in copied : content[from][e].page # Kernel}
           Row(f) == {to} \X {e \in copied : content[from][e].page = f}
<1>1. /\ MMTypeOK /\ NULL \notin Frame /\ Kernel \notin Frame
      /\ from \in Frame /\ from \in Tables
  BY PageAssumption DEF IInv, MMTypeOK, Frame, Tables
<1>2. to \in Frame /\ memory_map[to] = 0
  BY <1>1, FreeFrameIsFree DEF MMTypeOK
<1>3. AsTable(to) = {} /\ AsPage(to) = {} /\ to \notin Tables /\ to # from
  <2>1. AsTable(to) = {} /\ AsPage(to) = {}
    BY <1>2, UsesAreCounted
  <2>2. to \notin Tables
    BY <2>1 DEF AsTable, Tables
  <2>3. QED
    BY <1>1, <2>1, <2>2
<1>4. copied \subseteq Entry
  BY DEF Copied
<1>5. /\ page_dir' = [page_dir EXCEPT ![dest] = to]
      /\ content' = [content EXCEPT
           ![to]   = [e \in Entry |-> IF e \in copied
                        THEN ReadOnly(content[from][e]) ELSE @[e]],
           ![from] = [e \in Entry |-> IF e \in shared
                        THEN ReadOnly(content[from][e]) ELSE @[e]]]
      /\ memory_map' = [f \in Frame |->
           Taken(memory_map, to)[f] + NewUses(f, from, source)]
      /\ KeepLeftovers(to)
      /\ memory' \in {memory, "stray"}
  BY <1>1 DEF CopyTable, KeepLeftovers, MMTypeOK
<1>6. \A f \in Frame :
        /\ IsFiniteSet(AsTable(f)) /\ IsFiniteSet(AsPage(f))
        /\ IsFiniteSet(Row(f))
        /\ Cardinality(Row(f)) = NewUses(f, from, source)
        /\ NewUses(f, from, source) \in Nat
  <2> SUFFICES ASSUME NEW f \in Frame
               PROVE  /\ IsFiniteSet(AsTable(f)) /\ IsFiniteSet(AsPage(f))
                      /\ IsFiniteSet(Row(f))
                      /\ Cardinality(Row(f)) = NewUses(f, from, source)
                      /\ NewUses(f, from, source) \in Nat
    OBVIOUS
  <2>1. IsFiniteSet(AsTable(f)) /\ IsFiniteSet(AsPage(f)) /\ IsFiniteSet(Entry)
    BY <1>1, Finite
  <2>2. IsFiniteSet({e \in copied : content[from][e].page = f})
    BY <1>4, <2>1, FS_Subset
  <2>3. QED
    BY <2>1, <2>2, OneRow DEF NewUses
<1>6a. \A e \in Entry : /\ ReadOnly(content[from][e]).page = content[from][e].page
                        /\ ~ReadOnly(content[from][e]).write
  BY DEF ReadOnly
<1> HIDE DEF copied, shared
<1>7. \A f \in Frame, e \in Entry : content'[f][e] =
        IF (f = to /\ e \in copied) \/ (f = from /\ e \in shared)
          THEN ReadOnly(content[from][e]) ELSE content[f][e]
  <2>1. content \in [Frame -> [Entry -> Item]]
    BY <1>1 DEF MMTypeOK
  <2>2. \A e \in Entry : content'[to][e] =
          IF e \in copied THEN ReadOnly(content[from][e]) ELSE content[to][e]
    BY <1>1, <1>2, <1>3, <1>5, <2>1
  <2>3. \A e \in Entry : content'[from][e] =
          IF e \in shared THEN ReadOnly(content[from][e]) ELSE content[from][e]
    BY <1>1, <1>2, <1>3, <1>5, <2>1
  <2>4. \A f \in Frame : f # to /\ f # from => content'[f] = content[f]
    BY <1>1, <1>2, <1>3, <1>5, <2>1
  <2>5. QED
    BY <1>3, <2>2, <2>3, <2>4
<1>8. \A f \in Frame, e \in Entry : content'[f][e].page =
        IF f = to /\ e \in copied THEN content[from][e].page
                                  ELSE content[f][e].page
  BY <1>7, <1>6a
<1>9. Tables' = Tables \cup {to}
  <2>1. \A d \in Dir : page_dir'[d] = IF d = dest THEN to ELSE page_dir[d]
    BY <1>1, <1>5 DEF MMTypeOK
  <2>2. QED
    BY <1>1, <1>2, <2>1 DEF Tables
<1>10. \A x \in Tables : x \in Frame /\ x # to
  BY <1>1, <1>3, Finite
<1>11. \A f \in Frame : AsTable(f)' = AsTable(f) \cup (IF f = to THEN {dest} ELSE {})
  BY <1>1, <1>2, <1>5 DEF AsTable, MMTypeOK
<1>12. \A f \in Frame : AsPage(f)' \subseteq AsPage(f) \cup Row(f)
  <2> SUFFICES ASSUME NEW f \in Frame, NEW x \in Tables', NEW e \in Entry,
                      content'[x][e].page = f
               PROVE  <<x, e>> \in AsPage(f) \cup Row(f)
    BY DEF AsPage
  <2>1. CASE x \in Tables
    <3>1. content[x][e].page = f
      BY <1>8, <1>10, <2>1
    <3>2. QED
      BY <2>1, <3>1 DEF AsPage
  <2>2. CASE x = to
    <3>1. e \in copied
      BY <1>2, <1>3, <1>8, <2>2 DEF IInv, OnlyTablesPoint
    <3>2. QED
      BY <1>2, <1>8, <2>2, <3>1
  <2>3. QED
    BY <1>9, <2>1, <2>2
<1>13. MMTypeOK'
  <2>1. \A e \in Entry : ReadOnly(content[from][e]) \in Item
    BY <1>1 DEF MMTypeOK, Item, ReadOnly
  <2>2. content' \in [Frame -> [Entry -> Item]]
    BY <1>1, <1>2, <1>5, <2>1 DEF MMTypeOK
  <2>3. memory_map' \in [Frame -> Nat]
    <3>1. \A f \in Frame : Taken(memory_map, to)[f] \in Nat
      BY <1>1, <1>2 DEF MMTypeOK, Taken
    <3>2. \A f \in Frame : NewUses(f, from, source) \in Nat
      BY <1>6
    <3>3. QED
      BY <1>5, <3>1, <3>2
  <2>4. QED
    BY <1>1, <1>2, <1>5, <2>2, <2>3 DEF MMTypeOK
<1>14. CountsCover'
  <2> SUFFICES ASSUME NEW f \in Frame
               PROVE  Cardinality(AsTable(f)') + Cardinality(AsPage(f)')
                        <= memory_map'[f]
    BY <1>13, CountsSuffice
  <2>1. /\ Cardinality(AsPage(f)') \in Nat
        /\ Cardinality(AsPage(f)') <= Cardinality(AsPage(f)) + NewUses(f, from, source)
    <3>1. /\ IsFiniteSet(AsPage(f) \cup Row(f))
          /\ Cardinality(AsPage(f) \cup Row(f)) =
               Cardinality(AsPage(f)) + Cardinality(Row(f))
                 - Cardinality(AsPage(f) \cap Row(f))
      BY <1>6, FS_Union
    <3>2. Cardinality(AsPage(f) \cap Row(f)) \in Nat
      BY <1>6, FS_Intersection, FS_CardinalityType
    <3>3. /\ Cardinality(AsPage(f)') \in Nat
          /\ Cardinality(AsPage(f)') <= Cardinality(AsPage(f) \cup Row(f))
      BY <1>12, <3>1, CardinalityBounds
    <3>4. Cardinality(AsPage(f)) \in Nat
      BY UsesAreCounted
    <3> HIDE DEF Row
    <3>5. QED
      BY <1>6, <3>1, <3>2, <3>3, <3>4
  <2>2. /\ Cardinality(AsTable(f)') \in Nat
        /\ Cardinality(AsTable(f)') <= Cardinality(AsTable(f)) + (IF f = to THEN 1 ELSE 0)
    <3>1. CASE f = to
      <4>1. AsTable(f)' = {dest}
        BY <1>3, <1>11, <3>1
      <4>2. Cardinality(AsTable(f)') = 1 /\ Cardinality(AsTable(f)) = 0
        BY <1>3, <3>1, <4>1, FS_Singleton, FS_EmptySet
      <4>3. QED
        BY <3>1, <4>2
    <3>2. CASE f # to
      <4>1. AsTable(f)' = AsTable(f) /\ Cardinality(AsTable(f)) \in Nat
        BY <1>11, <3>2, UsesAreCounted
      <4>2. QED
        BY <3>2, <4>1
    <3>3. QED
      BY <3>1, <3>2
  <2>3. memory_map'[f] = memory_map[f] + (IF f = to THEN 1 ELSE 0)
                           + NewUses(f, from, source)
    BY <1>1, <1>2, <1>5, <1>6 DEF Taken, MMTypeOK
  <2>4. /\ Cardinality(AsTable(f)) \in Nat /\ Cardinality(AsPage(f)) \in Nat
        /\ memory_map[f] \in Nat /\ NewUses(f, from, source) \in Nat
        /\ Cardinality(AsTable(f)) + Cardinality(AsPage(f)) <= memory_map[f]
    BY <1>6, UsesAreCounted
  <2>5. QED
    BY <2>1, <2>2, <2>3, <2>4
<1>15. TablesApart'
  <2>1. \A c, d \in Dir : page_dir'[c] = page_dir'[d] /\ page_dir'[c] # NULL => c = d
    BY <1>1, <1>2, <1>3, <1>5 DEF IInv, TablesApart, MMTypeOK, AsTable
  <2>2. ASSUME NEW x \in Tables', NEW e \in Entry, NEW f \in Tables',
               content'[x][e].page = f
        PROVE  FALSE
    <3>1. f \in Frame /\ <<x, e>> \in AsPage(f)'
      BY <1>2, <1>9, <1>10, <2>2 DEF AsPage
    <3>2. CASE <<x, e>> \in AsPage(f)
      <4>1. f \notin Tables
        BY <3>2 DEF AsPage, IInv, TablesApart
      <4>2. QED
        BY <1>3, <1>9, <3>2, <4>1
    <3>3. CASE <<x, e>> \in Row(f)
      <4>1. content[from][e].page = f
        BY <3>3
      <4>2. <<from, e>> \in AsPage(f) /\ f \notin Tables
        BY <1>1, <4>1 DEF AsPage, IInv, TablesApart
      <4>3. QED
        BY <1>3, <1>9, <4>2
    <3>4. QED
      BY <1>12, <3>1, <3>2, <3>3
  <2>3. QED
    BY <2>1, <2>2 DEF TablesApart
<1>16. OnlyTablesPoint'
  BY <1>2, <1>8, <1>9 DEF IInv, OnlyTablesPoint
<1>17. SharedProtected'
  <2> SUFFICES ASSUME NEW r \in Tables', NEW s \in Tables',
                      NEW e \in Entry, NEW g \in Entry,
                      NEW f \in Frame, content'[r][e].page = f,
                      content'[s][g].page = f, <<r, e>> # <<s, g>>
               PROVE  ~content'[r][e].write
    BY DEF SharedProtected
  <2>1. <<r, e>> \in AsPage(f)' /\ <<s, g>> \in AsPage(f)'
    BY DEF AsPage
  <2>2. CASE <<r, e>> \in Row(f)
    <3>1. r = to /\ e \in copied
      BY <2>2
    <3>2. content'[r][e] = ReadOnly(content[from][e])
      BY <1>2, <1>7, <3>1
    <3>3. QED
      BY <1>6a, <3>2
  <2>3. CASE <<r, e>> \in AsPage(f) /\ <<s, g>> \in AsPage(f)
    <3>1. ~content[r][e].write
      BY <2>3 DEF AsPage, IInv, SharedProtected
    <3>2. r \in Frame
      BY <1>10, <2>3 DEF AsPage
    <3>3. QED
      BY <1>7, <1>6a, <3>1, <3>2
  <2>4. CASE <<r, e>> \in AsPage(f) /\ <<s, g>> \in Row(f)
    <3>1. r \in Tables /\ r \in Frame /\ content[r][e].page = f
      BY <1>10, <2>4 DEF AsPage
    <3>2. g \in copied /\ content[from][g].page = f
      BY <2>4
    <3>3. CASE r = from /\ e = g
      <4>1. e \in shared
        BY <1>1, <3>2, <3>3 DEF shared
      <4>2. content'[r][e] = ReadOnly(content[from][e])
        BY <1>1, <1>7, <3>3, <4>1
      <4>3. QED
        BY <1>6a, <4>2
    <3>4. CASE ~(r = from /\ e = g)
      <4>1. ~content[r][e].write
        BY <1>1, <3>1, <3>2, <3>4 DEF IInv, SharedProtected
      <4>2. QED
        BY <1>7, <1>6a, <3>1, <4>1
    <3>5. QED
      BY <3>3, <3>4
  <2>5. QED
    BY <1>12, <2>1, <2>2, <2>3, <2>4
<1>18. ASSUME NEW c \in Dir, page_dir[c] # NULL
       PROVE  page_dir'[c] = page_dir[c] /\ page_dir[c] \in Frame /\ page_dir[c] # to
  <2>1. page_dir[c] \in Tables /\ c # dest
    BY <1>18 DEF Tables
  <2>2. QED
    BY <1>1, <1>5, <1>10, <2>1 DEF MMTypeOK
<1>19. OnlyChanges(dest)
  <2> SUFFICES ASSUME NEW c \in Dir \ {dest} PROVE Mapping(c)' = Mapping(c)
    BY DEF OnlyChanges
  <2>1. page_dir'[c] = page_dir[c]
    BY <1>1, <1>5 DEF MMTypeOK
  <2>2. QED
    BY <1>8, <1>18, <2>1, SameMapping
<1>20. KernelKept
  <2> SUFFICES ASSUME KernelStaysMapped PROVE KernelStaysMapped'
    BY DEF KernelKept
  <2>1. 0 \in Dir /\ page_dir[0] # NULL
    BY MemoryAssumption DEF Dir, KernelStaysMapped
  <2>2. page_dir'[0] = page_dir[0] /\ page_dir[0] \in Frame /\ page_dir[0] # to
    BY <1>18, <2>1
  <2>3. ASSUME NEW e \in Entry, e < KERNEL_PAGES
        PROVE  content'[page_dir[0]][e] = content[page_dir[0]][e]
    <3>1. content[page_dir[0]][e].page = Kernel
      BY <2>3 DEF KernelStaysMapped
    <3>2. ~(page_dir[0] = from /\ e \in shared)
      BY <3>1 DEF shared
    <3>3. QED
      BY <1>7, <2>2, <3>2
  <2>4. QED
    BY <2>1, <2>2, <2>3 DEF KernelStaysMapped
<1>21. TablesHoldEntries'
  <2> SUFFICES ASSUME memory' = "up", NEW x \in Tables', NEW e \in Entry
               PROVE  content'[x][e].page # Junk
    BY DEF TablesHoldEntries
  <2>1. CASE x = to
    BY <1>5, <2>1 DEF KeepLeftovers
  <2>2. CASE x # to
    <3>1. x \in Tables /\ x \in Frame /\ memory = "up"
      BY <1>5, <1>9, <1>10, <2>2
    <3>2. QED
      BY <1>8, <2>2, <3>1 DEF IInv, TablesHoldEntries
  <2>3. QED
    BY <2>1, <2>2
<1>22. QED
  BY <1>13, <1>14, <1>15, <1>16, <1>17, <1>19, <1>20, <1>21 DEF IInv

(***************************************************************************)
(* Every step                                                              *)
(***************************************************************************)

(* A segment lies in the directory; the product that wraps around puts some*)
(* slot's segment over the kernel's, but none of a slot in range.          *)
LEMMA SegmentsAreDirs ==
  ASSUME NEW index \in Index
  PROVE  /\ SegmentOf(index) \in Dir
         /\ (index # 0 /\ index * SEG_DIRS < PAGE_DIR_SIZE) => SegmentOf(index) # 0
<1>1. index \in Nat /\ index * SEG_DIRS \in Nat
  BY MemoryAssumption DEF Index
<1>2. \A n \in Nat : /\ n % PAGE_DIR_SIZE \in Nat /\ n % PAGE_DIR_SIZE < PAGE_DIR_SIZE
                     /\ n < PAGE_DIR_SIZE => n % PAGE_DIR_SIZE = n
  BY MemoryAssumption
<1>3. index # 0 => index * SEG_DIRS # 0
  BY <1>1, MemoryAssumption
<1>4. QED
  BY <1>1, <1>2, <1>3, MemoryAssumption DEF SegmentOf, Dir

(* Only slots below the 64th, whose segments the directory has room for,   *)
(* have been given one.                                                    *)
SegmentsInRange ==
  \A i \in Index : ldt_base[i] # NULL => i * SEG_DIRS < PAGE_DIR_SIZE

(* Segments are where their slots say, and only the segments of tasks have *)
(* tables.                                                                 *)
Bases ==
  /\ ldt_base[0] = 0
  /\ \A i \in Index : ldt_base[i] \in {NULL, SegmentOf(i)}

TablesInUse == \A d \in Dir : page_dir[d] # NULL => \E i \in Index : ldt_base[i] = d

(* Segments in range do not overlap.                                       *)
LEMMA SegmentsDiffer ==
  ASSUME NEW i \in Index, NEW j \in Index, i # j,
         i * SEG_DIRS < PAGE_DIR_SIZE, j * SEG_DIRS < PAGE_DIR_SIZE
  PROVE  SegmentOf(i) # SegmentOf(j)
<1>1. \A n \in Nat : n < PAGE_DIR_SIZE => n % PAGE_DIR_SIZE = n
  BY MemoryAssumption
<1>2. i \in Nat /\ j \in Nat /\ SEG_DIRS \in Nat /\ SEG_DIRS >= 1
  BY MemoryAssumption DEF Index
<1>3. i * SEG_DIRS \in Nat /\ j * SEG_DIRS \in Nat
  BY <1>2
<1>4. SegmentOf(i) = i * SEG_DIRS /\ SegmentOf(j) = j * SEG_DIRS
  BY <1>1, <1>3 DEF SegmentOf
<1>5. \A a, b, s \in Nat : a < b /\ s >= 1 => a * s # b * s
  <2> SUFFICES ASSUME NEW a \in Nat, NEW b \in Nat, NEW s \in Nat, a < b, s >= 1
               PROVE  a * s # b * s
    OBVIOUS
  <2>1. PICK c \in Nat : b = a + c /\ c >= 1
    <3>1. b - a \in Nat /\ b = a + (b - a) /\ b - a >= 1
      OBVIOUS
    <3>2. QED
      BY <3>1
  <2>2. b * s = a * s + c * s
    BY <2>1
  <2>3. c * s >= 1 /\ a * s \in Nat /\ c * s \in Nat
    BY <2>1
  <2>4. QED
    BY <2>2, <2>3
<1>6. QED
  <2>1. CASE i < j
    BY <1>2, <1>4, <1>5, <2>1
  <2>2. CASE j < i
    BY <1>2, <1>4, <1>5, <2>2
  <2>3. QED
    BY <1>2, <2>1, <2>2

KernelIInv ==
  /\ ldt_base[0] # NULL
  /\ \A i \in Index \ {0} : ldt_base[i] \in {NULL, SegmentOf(i)}
  /\ SegmentsInRange => KernelStaysMapped

LEMMA Fork ==
  ASSUME IInv, NEW index \in Index, NEW current_index \in Index,
         ForkSegment(index, current_index)
  PROVE  /\ IInv' /\ OnlyChanges(SegmentOf(index))
         /\ ldt_base' = [ldt_base EXCEPT ![index] = SegmentOf(index)]
         /\ SegmentOf(index) # 0 => KernelKept
<1> DEFINE source == ldt_base[current_index]
           dest == SegmentOf(index)
           to == FreeFrame(memory_map)
<1>1. /\ MMTypeOK /\ source \in Dir /\ dest \in Dir
  BY SegmentsAreDirs DEF IInv, ForkSegment, Alive, MMTypeOK
<1>2. /\ ldt_base' = [ldt_base EXCEPT ![index] = dest]
      /\ ldt_base' \in [Index -> Dir \cup {NULL}]
      /\ gone' \subseteq Index
  BY <1>1 DEF ForkSegment, set_LDT_desc, MMTypeOK
<1>3. CASE page_dir[dest] # NULL
  <2>1. free_page_tables(dest)
    BY <1>3 DEF ForkSegment, set_LDT_desc
  <2>2. QED
    BY <1>1, <1>2, <2>1, FreePageTables
<1>4. CASE page_dir[dest] = NULL /\ (page_dir[source] = NULL \/ to = NULL)
  <2>1. UNCHANGED <<page_dir, content, memory_map, memory>>
    BY <1>4 DEF ForkSegment, set_LDT_desc
  <2>2. MMTypeOK'
    BY <1>1, <1>2, <2>1 DEF MMTypeOK
  <2>3. QED
    BY <1>1, <1>2, <2>1, <2>2, NothingMapped
<1>5. CASE page_dir[dest] = NULL /\ page_dir[source] # NULL /\ to # NULL
  <2>1. CopyTable(page_dir[source], to, source, dest)
    BY <1>5 DEF ForkSegment, set_LDT_desc
  <2>2. QED
    BY <1>1, <1>2, <1>5, <2>1, CopyPageTables
<1>6. QED
  BY <1>3, <1>4, <1>5

LEMMA Die ==
  ASSUME IInv, NEW index \in Index, on_process_die(index)
  PROVE  /\ IInv' /\ OnlyChanges(ldt_base[index]) /\ UNCHANGED ldt_base
         /\ ldt_base[index] \in Dir /\ index # 0
         /\ ldt_base[index] # 0 => KernelKept
<1>1. /\ MMTypeOK /\ ldt_base[index] \in Dir /\ index # 0
      /\ UNCHANGED ldt_base /\ gone' \subseteq Index
      /\ ldt_base' \in [Index -> Dir \cup {NULL}]
      /\ free_page_tables(ldt_base[index])
  BY DEF IInv, on_process_die, Alive, MMTypeOK
<1>2. QED
  BY <1>1, FreePageTables

LEMMA StepKeepsInv == IInv /\ [MMNext]_mmVars => IInv'
<1> SUFFICES ASSUME IInv, [MMNext]_mmVars PROVE IInv'
  OBVIOUS
<1>1. ASSUME NEW index \in Index, NEW current_index \in Index,
             ForkSegment(index, current_index)
      PROVE  IInv'
  BY <1>1, Fork
<1>2. ASSUME NEW index \in Index, NEW entry \in Entry, put_page(index, entry)
      PROVE  IInv'
  BY <1>2, PutPage
<1>3. ASSUME NEW index \in Index, NEW entry \in Entry, un_wp_page(index, entry)
      PROVE  IInv'
  BY <1>3, UnWpPage
<1>4. ASSUME NEW index \in Index, on_process_die(index)
      PROVE  IInv'
  BY <1>4, Die
<1>5. CASE UNCHANGED mmVars
  <2>1. UNCHANGED <<page_dir, content, memory_map, memory>> /\ MMTypeOK'
    BY <1>5 DEF mmVars, IInv, MMTypeOK
  <2>2. QED
    BY <2>1, NothingMapped
<1>6. QED
  BY <1>1, <1>2, <1>3, <1>4, <1>5 DEF MMNext

LEMMA StepMapsOne ==
  ASSUME IInv, MMNext
  PROVE  \E d \in Dir : OnlyChanges(d)
<1>1. ASSUME NEW index \in Index, NEW current_index \in Index,
             ForkSegment(index, current_index)
      PROVE  \E d \in Dir : OnlyChanges(d)
  BY <1>1, Fork, SegmentsAreDirs
<1>2. ASSUME NEW index \in Index, NEW entry \in Entry, put_page(index, entry)
      PROVE  \E d \in Dir : OnlyChanges(d)
  <2>1. ldt_base[index] \in Dir
    BY <1>2 DEF put_page, Alive, IInv, MMTypeOK
  <2>2. QED
    BY <1>2, <2>1, PutPage
<1>3. ASSUME NEW index \in Index, NEW entry \in Entry, un_wp_page(index, entry)
      PROVE  \E d \in Dir : OnlyChanges(d)
  <2>1. ldt_base[index] \in Dir
    BY <1>3 DEF un_wp_page, Alive, IInv, MMTypeOK
  <2>2. QED
    BY <1>3, <2>1, UnWpPage
<1>4. ASSUME NEW index \in Index, on_process_die(index)
      PROVE  \E d \in Dir : OnlyChanges(d)
  BY <1>4, Die
<1>5. QED
  BY <1>1, <1>2, <1>3, <1>4 DEF MMNext

LEMMA StepKeepsKernel == IInv /\ KernelIInv /\ [MMNext]_mmVars => KernelIInv'
<1> SUFFICES ASSUME IInv, KernelIInv, [MMNext]_mmVars PROVE KernelIInv'
  OBVIOUS
<1>1. ASSUME UNCHANGED ldt_base, KernelKept PROVE KernelIInv'
  BY <1>1 DEF KernelIInv, KernelKept, SegmentsInRange
<1>2. ASSUME NEW index \in Index, NEW current_index \in Index,
             ForkSegment(index, current_index)
      PROVE  KernelIInv'
  <2>1. /\ ldt_base' = [ldt_base EXCEPT ![index] = SegmentOf(index)]
        /\ SegmentOf(index) # 0 => KernelKept
    BY <1>2, Fork
  <2>2. ldt_base[index] = NULL /\ ldt_base \in [Index -> Dir \cup {NULL}]
    BY <1>2 DEF ForkSegment, IInv, MMTypeOK
  <2>3. \A i \in Index \ {0} : ldt_base'[i] \in {NULL, SegmentOf(i)}
    BY <2>1, <2>2 DEF KernelIInv
  <2>4. ASSUME SegmentsInRange' PROVE KernelStaysMapped'
    <3>1. SegmentsInRange
      BY <2>1, <2>2, <2>4 DEF SegmentsInRange
    <3>2. index # 0
      BY <2>2 DEF KernelIInv
    <3>3. index * SEG_DIRS < PAGE_DIR_SIZE
      <4>1. ldt_base'[index] # NULL
        BY <2>1, <2>2, SegmentsAreDirs, PageAssumption DEF Dir
      <4>2. QED
        BY <2>4, <4>1 DEF SegmentsInRange
    <3>4. SegmentOf(index) # 0
      BY <3>2, <3>3, SegmentsAreDirs
    <3>5. QED
      BY <2>1, <3>1, <3>4 DEF KernelIInv, KernelKept
  <2>5. ldt_base'[0] # NULL
    BY <2>1, <2>2, MemoryAssumption DEF KernelIInv, Index
  <2>6. QED
    BY <2>3, <2>4, <2>5 DEF KernelIInv
<1>3. ASSUME NEW index \in Index, NEW entry \in Entry, put_page(index, entry)
      PROVE  KernelIInv'
  <2>1. UNCHANGED ldt_base
    BY <1>3 DEF put_page
  <2>2. QED
    BY <1>1, <1>3, <2>1, PutPage
<1>4. ASSUME NEW index \in Index, NEW entry \in Entry, un_wp_page(index, entry)
      PROVE  KernelIInv'
  <2>1. UNCHANGED ldt_base
    BY <1>4 DEF un_wp_page
  <2>2. QED
    BY <1>1, <1>4, <2>1, UnWpPage
<1>5. ASSUME NEW index \in Index, on_process_die(index)
      PROVE  KernelIInv'
  <2>1. /\ UNCHANGED ldt_base /\ ldt_base[index] \in Dir /\ index # 0
        /\ ldt_base[index] # 0 => KernelKept
    BY <1>5, Die
  <2>2. CASE ~SegmentsInRange
    BY <2>1, <2>2 DEF KernelIInv, SegmentsInRange
  <2>3. CASE SegmentsInRange
    <3>1. ldt_base[index] = SegmentOf(index)
      BY <2>1, PageAssumption DEF KernelIInv, Dir
    <3>2. index * SEG_DIRS < PAGE_DIR_SIZE
      BY <2>1, <2>3, PageAssumption DEF SegmentsInRange, Dir
    <3>3. ldt_base[index] # 0
      BY <2>1, <3>1, <3>2, SegmentsAreDirs
    <3>4. QED
      BY <1>1, <2>1, <3>3
  <2>4. QED
    BY <2>2, <2>3
<1>6. CASE UNCHANGED mmVars
  BY <1>1, <1>6 DEF mmVars, KernelKept, KernelStaysMapped
<1>7. QED
  BY <1>2, <1>3, <1>4, <1>5, <1>6 DEF MMNext

LEMMA InitKeepsKernel == MMInit => KernelIInv
<1>1. 0 \in Frame /\ 0 \in Index /\ 0 \in Dir
  BY MemoryAssumption DEF Frame, Index, Dir
<1>2. QED
  BY <1>1, PageAssumption DEF MMInit, KernelIInv, KernelStaysMapped

(***************************************************************************)
(* Theorems                                                                *)
(***************************************************************************)

LEMMA Invariance == MMSpec => []IInv
<1>1. QED
  BY InitHolds, StepKeepsInv, PTL DEF MMSpec

(* The state has the types that MMTypeOK gives it: no directory entry, page*)
(* or count leaves its range.                                              *)
THEOREM TypeCorrectness == MMSpec => []MMTypeOK
<1>1. IInv => MMTypeOK
  BY DEF IInv
<1>2. QED
  BY <1>1, Invariance, PTL

(* No frame is handed out while a table or a page still uses it: fork,     *)
(* put_page, un_wp_page and on_process_die keep every count in memory_map  *)
(* at or above the uses there are, until a table holds leftover words.     *)
THEOREM FramesAreNotReused == MMSpec => []NoEarlyReuse
<1>1. IInv => NoEarlyReuse
  BY DEF IInv, CountsCover, NoEarlyReuse
<1>2. QED
  BY <1>1, Invariance, PTL

(* No two directory entries share a table, and no table is mapped, until a *)
(* table holds leftover words.                                             *)
THEOREM TablesStayPrivate == MMSpec => []TablesArePrivate
<1>1. IInv => TablesArePrivate
  BY DEF IInv, TablesApart, TablesArePrivate
<1>2. QED
  BY <1>1, Invariance, PTL

(* Copy on write: a frame that copy_page_tables left mapped in two places  *)
(* can be written through neither, until un_wp_page gives one its own or a *)
(* table holds leftover words.                                             *)
THEOREM SharedFramesAreReadOnly == MMSpec => []SharedIsReadOnly
<1>1. IInv => SharedIsReadOnly
  BY DEF IInv, SharedProtected, SharedIsReadOnly
<1>2. QED
  BY <1>1, Invariance, PTL

(* A step of the memory manager remaps one task only, the step that leaves *)
(* a table with leftover words included; after it there is no other.       *)
THEOREM StepsRemapOneTask == MMSpec => OneTaskAtATime
<1>1. IInv /\ [MMNext]_mmVars =>
        [\A c, d \in Dir : Mapping(c)' # Mapping(c) /\ Mapping(d)' # Mapping(d)
           => c = d]_mmVars
  <2> SUFFICES ASSUME IInv, MMNext, NEW c \in Dir, NEW d \in Dir,
                      Mapping(c)' # Mapping(c), Mapping(d)' # Mapping(d)
               PROVE  c = d
    OBVIOUS
  <2>1. PICK x \in Dir : OnlyChanges(x)
    BY StepMapsOne
  <2>2. QED
    BY <2>1 DEF OnlyChanges
<1>2. QED
  BY <1>1, Invariance, PTL DEF MMSpec, OneTaskAtATime

(* Until a slot whose segment the 32-bit product wraps around is used, the *)
(* kernel stays mapped onto itself, writable, whatever the tasks do.       *)
THEOREM KernelSurvives == MMSpec => [](SegmentsInRange => KernelStaysMapped)
<1>1. KernelIInv => (SegmentsInRange => KernelStaysMapped)
  BY DEF KernelIInv
<1>2. QED
  BY <1>1, Invariance, InitKeepsKernel, StepKeepsKernel, PTL DEF MMSpec

=============================================================================
