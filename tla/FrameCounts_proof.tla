------------------------- MODULE FrameCounts_proof -------------------------
(***************************************************************************)
(* The use counts of MemoryManage are exact while no task dies, tables hold*)
(* entries only, and the kernel's pages are never made writable while a    *)
(* frame is free, for any number of tasks, frames and entries.             *)
(***************************************************************************)
EXTENDS MemoryManage_proof

(***************************************************************************)
(* The inductive invariants                                                *)
(***************************************************************************)

Exact == \A f \in Frame :
  memory_map[f] = Cardinality(AsTable(f)) + Cardinality(AsPage(f))

(* A task is without a table only once its fork, or that of the task it    *)
(* was forked from, found no frame.  While no task dies no frame comes     *)
(* back, so put_page never takes a page and then misses a table for it.    *)
AllInUse ==
  (\E i \in Index : ldt_base[i] # NULL /\ page_dir[ldt_base[i]] = NULL)
    => \A f \in Frame : memory_map[f] # 0

(* No words of a task's data in tables or where the next table may go.     *)
NoData ==
  \A f \in Frame : f \in Tables \/ memory_map[f] = 0 =>
    \A e \in Entry : content[f][e].page # Junk

History == Bases /\ TablesInUse /\ AllInUse /\ Exact /\ NoData

Orderly == SegmentsInRange /\ gone = {}

(* Only tables have entries for the kernel's pages.                        *)
KernelInTables ==
  \A f \in Frame \ Tables : \A e \in Entry : content[f][e].page # Kernel

(***************************************************************************)
(* What the lemmas below have in common                                    *)
(***************************************************************************)

(* get_free_page finds nothing only if there is nothing.                   *)
LEMMA NothingFree ==
  ASSUME IInv, FreeFrame(memory_map) = NULL
  PROVE  \A f \in Frame : memory_map[f] # 0
<1> SUFFICES ASSUME NEW f \in Frame, memory_map[f] = 0 PROVE FALSE
  OBVIOUS
<1> DEFINE S == {g \in Frame : memory_map[g] = 0}
<1>1. PICK h \in S : \A g \in S : h <= g
  <2>1. S \in SUBSET Nat /\ S # {}
    BY DEF Frame
  <2>2. QED
    BY <2>1, Least
<1>2. h \in Frame /\ memory_map[h] = 0 /\ \A g \in Frame : g < h => memory_map[g] # 0
  BY <1>1, MemoryAssumption DEF Frame
<1>3. FreeFrame(memory_map) \in Frame
  BY <1>2 DEF FreeFrame
<1>4. QED
  BY <1>3, PageAssumption DEF Frame

(* The frame that get_free_page finds is used nowhere.                     *)
LEMMA FreeIsUnused ==
  ASSUME IInv, NEW page, page = FreeFrame(memory_map)
  PROVE  /\ page \in Frame \cup {NULL}
         /\ page # NULL => /\ memory_map[page] = 0 /\ page \notin Tables
                           /\ AsTable(page) = {} /\ AsPage(page) = {}
<1>1. memory_map \in [Frame -> Nat]
  BY DEF IInv, MMTypeOK
<1>2. page \in Frame \cup {NULL} /\ (page # NULL => memory_map[page] = 0)
  BY <1>1, FreeFrameIsFree
<1>3. page # NULL => AsTable(page) = {} /\ AsPage(page) = {}
  BY <1>2, UsesAreCounted
<1>4. QED
  BY <1>2, <1>3 DEF AsTable, Tables

LEMMA Data ==
  /\ NULL \notin Frame /\ Kernel \notin Frame /\ Junk \notin Frame
  /\ Kernel # NULL /\ Junk # NULL /\ Junk # Kernel
  BY PageAssumption DEF Frame

(***************************************************************************)
(* put_page                                                                *)
(***************************************************************************)

(* While the history is orderly put_page puts its page into a table that   *)
(* is there, or does nothing.                                              *)
LEMMA PutPageHistory ==
  ASSUME IInv, History, NEW index \in Index, NEW entry \in Entry,
         put_page(index, entry)
  PROVE  History'
<1> DEFINE dir == ldt_base[index]
           page == FreeFrame(memory_map)
           t == page_dir[dir]
           mapped == [page |-> IF page = NULL THEN Kernel ELSE page, write |-> TRUE]
           filled == [f \in Frame |-> IF f = page
                  THEN [e \in Entry |-> [page |-> Junk, write |-> TRUE]]
                  ELSE content[f]]
<1>1. MMTypeOK /\ dir \in Dir /\ dir # NULL
  BY DEF IInv, put_page, Alive, MMTypeOK
<1>2. /\ page \in Frame \cup {NULL}
      /\ page # NULL => /\ memory_map[page] = 0 /\ page \notin Tables
                        /\ AsTable(page) = {} /\ AsPage(page) = {}
  BY FreeIsUnused
<1>3. CASE t = NULL
  <2>1. \A f \in Frame : memory_map[f] # 0
    BY <1>1, <1>3 DEF History, AllInUse
  <2>2. page = NULL
    BY <1>2, <2>1
  <2>3. FreeFrame(Taken(memory_map, page)) = NULL
    BY <2>2 DEF Taken
  <2>4. UNCHANGED <<page_dir, content, memory_map, ldt_base>>
    BY <1>3, <2>2, <2>3 DEF put_page, Taken
  <2>5. QED
    BY <2>4 DEF History, Bases, TablesInUse, AllInUse, Exact, NoData,
                AsTable, AsPage, Tables
<1>4. CASE t # NULL
  <2>1. t \in Frame /\ t \in Tables /\ t # page
    BY <1>1, <1>2, <1>4 DEF MMTypeOK, Tables
  <2>2. /\ memory_map' = Taken(memory_map, page)
        /\ page_dir' = [page_dir EXCEPT ![dir] = t]
        /\ content' = [filled EXCEPT ![t][entry] = mapped]
        /\ UNCHANGED ldt_base
        /\ content[t][entry] = Absent
    BY <1>4 DEF put_page
  <2>3. mapped.page = (IF page = NULL THEN Kernel ELSE page)
    OBVIOUS
  <2>4. page_dir' = page_dir
    BY <1>1, <2>2 DEF MMTypeOK
  <2> HIDE DEF page, t, mapped
  <2>5. \A f \in Frame : memory_map'[f] = memory_map[f] + (IF f = page THEN 1 ELSE 0)
    BY <1>1, <1>2, <2>2, Data DEF Taken, MMTypeOK
  <2>6. \A f \in Frame, e \in Entry : content'[f][e] =
          IF f = t /\ e = entry THEN mapped
          ELSE IF f = page THEN [page |-> Junk, write |-> TRUE]
          ELSE content[f][e]
    BY <1>1, <2>1, <2>2 DEF MMTypeOK
  <2>7. Tables' = Tables /\ \A x \in Tables : x \in Frame /\ x # page
    BY <1>1, <1>2, <2>4, Finite, Data DEF Tables
  <2>8. \A f \in Frame : AsTable(f)' = AsTable(f)
    BY <2>4 DEF AsTable
  <2>9. \A f \in Frame : AsPage(f)' =
          AsPage(f) \cup (IF f = page THEN {<<t, entry>>} ELSE {})
    <3> SUFFICES ASSUME NEW f \in Frame, NEW x \in Tables, NEW e \in Entry
                 PROVE  content'[x][e].page = f <=>
                          \/ content[x][e].page = f
                          \/ f = page /\ x = t /\ e = entry
      BY <2>1, <2>7 DEF AsPage
    <3>1. CASE x = t /\ e = entry
      <4>1. content'[x][e].page = (IF page = NULL THEN Kernel ELSE page)
        BY <2>1, <2>3, <2>6, <3>1
      <4>2. content[x][e].page = NULL
        BY <2>2, <3>1 DEF Absent
      <4>3. QED
        BY <3>1, <4>1, <4>2, Data
    <3>2. CASE ~(x = t /\ e = entry)
      BY <2>6, <2>7, <3>2
    <3>3. QED
      BY <3>1, <3>2
  <2>10. Exact'
    <3> SUFFICES ASSUME NEW f \in Frame
                 PROVE  memory_map'[f] = Cardinality(AsTable(f)') + Cardinality(AsPage(f)')
      BY DEF Exact
    <3>1. memory_map[f] = Cardinality(AsTable(f)) + Cardinality(AsPage(f))
      BY DEF History, Exact
    <3>2. CASE f = page
      <4>1. AsTable(f)' = {} /\ AsPage(f)' = {<<t, entry>>}
        BY <1>2, <2>8, <2>9, <3>2, Data
      <4>2. Cardinality(AsTable(f)') = 0 /\ Cardinality(AsPage(f)') = 1
        BY <4>1, FS_EmptySet, FS_Singleton
      <4>3. memory_map'[f] = 1
        BY <1>2, <2>5, <3>2, Data
      <4>4. QED
        BY <4>2, <4>3
    <3>3. CASE f # page
      <4>1. AsPage(f)' = AsPage(f)
        BY <2>9, <3>3
      <4>2. memory_map'[f] = memory_map[f]
        BY <2>5, <3>3, UsesAreCounted
      <4>3. QED
        BY <2>8, <3>1, <4>1, <4>2
    <3>4. QED
      BY <3>2, <3>3
  <2>11. AllInUse'
    BY <1>1, <2>2, <2>4, <2>5 DEF History, AllInUse, MMTypeOK
  <2>12. NoData'
    <3> SUFFICES ASSUME NEW f \in Frame, f \in Tables \/ memory_map'[f] = 0,
                        NEW e \in Entry
                 PROVE  content'[f][e].page # Junk
      BY <2>7 DEF NoData
    <3>1. f # page /\ (f \in Tables \/ memory_map[f] = 0)
      BY <1>1, <1>2, <2>5, <2>7 DEF MMTypeOK
    <3>2. content[f][e].page # Junk
      BY <3>1 DEF History, NoData
    <3>3. QED
      BY <1>2, <2>3, <2>6, <3>1, <3>2, Data
  <2>13. QED
    BY <2>2, <2>4, <2>10, <2>11, <2>12 DEF History, Bases, TablesInUse
<1>5. QED
  BY <1>3, <1>4

(***************************************************************************)
(* un_wp_page                                                              *)
(***************************************************************************)

(* A copy on write moves one use from the old page to the new.             *)
LEMMA UnWpPageHistory ==
  ASSUME IInv, History, NEW index \in Index, NEW entry \in Entry,
         un_wp_page(index, entry)
  PROVE  History'
<1> DEFINE t == page_dir[ldt_base[index]]
           old == content[t][entry].page
           page == FreeFrame(memory_map)
           mapped == [page |-> IF page = NULL THEN Kernel ELSE page, write |-> TRUE]
<1>1. MMTypeOK /\ ldt_base[index] \in Dir
  BY DEF IInv, un_wp_page, Alive, MMTypeOK
<1>2. /\ page \in Frame \cup {NULL}
      /\ page # NULL => /\ memory_map[page] = 0 /\ page \notin Tables
                        /\ AsTable(page) = {} /\ AsPage(page) = {}
  BY FreeIsUnused
<1>3. /\ t \in Frame /\ t \in Tables
      /\ old \in Frame \cup {Kernel}
      /\ UNCHANGED <<page_dir, ldt_base>>
  BY OldIsMapped
<1>4. content[t][entry].page = old
  OBVIOUS
<1>5. old \in Frame => <<t, entry>> \in AsPage(old) /\ memory_map[old] # 0
  <2>1. <<t, entry>> \in AsPage(old)
    BY <1>3 DEF AsPage
  <2> HIDE DEF t, old
  <2>2. QED
    BY <2>1, UsesAreCounted
<1>6. /\ Tables' = Tables
      /\ \A f \in Frame : AsTable(f)' = AsTable(f)
      /\ \A x \in Tables : x \in Frame /\ x # page
  BY <1>1, <1>2, <1>3, Finite, Data DEF Tables, AsTable
<1>7. CASE old \in Frame /\ memory_map[old] = 1
  <2>1. /\ content' = [content EXCEPT ![t][entry].write = TRUE]
        /\ UNCHANGED memory_map
    BY <1>7 DEF un_wp_page
  <2> HIDE DEF t, old, page, mapped
  <2>2. \A f \in Frame, e \in Entry : content'[f][e].page = content[f][e].page
    BY <1>1, <1>3, <2>1 DEF MMTypeOK, Item
  <2>3. \A f \in Frame : AsPage(f)' = AsPage(f)
    BY <1>6, <2>2 DEF AsPage
  <2>4. Exact'
    BY <1>6, <2>1, <2>3 DEF History, Exact
  <2>5. NoData'
    BY <1>6, <2>1, <2>2 DEF History, NoData
  <2>6. QED
    BY <1>3, <2>1, <2>4, <2>5 DEF History, Bases, TablesInUse, AllInUse
<1>8. CASE ~(old \in Frame /\ memory_map[old] = 1)
  <2>1. /\ memory_map' = NewPage(memory_map, old, page)
        /\ content' =
             [[f \in Frame |-> IF f = page
                  THEN [e \in Entry |-> [page |-> Junk, write |-> TRUE]]
                  ELSE content[f]] EXCEPT ![t][entry] = mapped]
    BY <1>8 DEF un_wp_page
  <2>2. mapped.page = (IF page = NULL THEN Kernel ELSE page)
    OBVIOUS
  <2>3. t # page
    BY <1>3, <1>6
  <2>4. old \in Frame => memory_map[old] \in Nat /\ memory_map[old] >= 2 /\ old # page
    <3> SUFFICES ASSUME old \in Frame
                 PROVE  memory_map[old] \in Nat /\ memory_map[old] >= 2 /\ old # page
      OBVIOUS
    <3>1. memory_map[old] \in Nat /\ memory_map[old] # 0 /\ memory_map[old] # 1
      BY <1>5, <1>8, UsesAreCounted
    <3>2. QED
      BY <1>2, <3>1, Data
  <2> HIDE DEF t, old, page, mapped
  <2>5. \A f \in Frame : memory_map'[f] = memory_map[f]
             + (IF f = page THEN 1 ELSE 0) - (IF f = old THEN 1 ELSE 0)
    <3>1. /\ Taken(memory_map, page) \in [Frame -> Nat]
          /\ \A f \in Frame : Taken(memory_map, page)[f] =
                                memory_map[f] + (IF f = page THEN 1 ELSE 0)
      BY <1>1, <1>2, Data DEF Taken, MMTypeOK
    <3>2. CASE old = Kernel
      BY <1>1, <2>1, <3>1, <3>2, Data DEF NewPage, MMTypeOK
    <3>3. CASE old # Kernel
      BY <1>1, <1>3, <2>1, <2>4, <3>1, <3>3 DEF NewPage, MMTypeOK
    <3>4. QED
      BY <3>2, <3>3
  <2>6. \A f \in Frame, e \in Entry : content'[f][e] =
            IF f = t /\ e = entry THEN mapped
            ELSE IF f = page THEN [page |-> Junk, write |-> TRUE]
            ELSE content[f][e]
    BY <1>1, <1>3, <2>1 DEF MMTypeOK
  <2>7. \A f \in Frame : AsPage(f)' =
            (AsPage(f) \ (IF f = old THEN {<<t, entry>>} ELSE {}))
              \cup (IF f = page THEN {<<t, entry>>} ELSE {})
    <3> SUFFICES ASSUME NEW f \in Frame, NEW x \in Tables, NEW e \in Entry
                 PROVE  content'[x][e].page = f <=>
                          \/ content[x][e].page = f /\ ~(f = old /\ x = t /\ e = entry)
                          \/ f = page /\ x = t /\ e = entry
      BY <1>3, <1>6 DEF AsPage
    <3>1. CASE x = t /\ e = entry
      <4>1. content'[x][e].page = (IF page = NULL THEN Kernel ELSE page)
        BY <1>3, <2>2, <2>6, <3>1
      <4>2. QED
        BY <1>4, <3>1, <4>1, Data
    <3>2. CASE ~(x = t /\ e = entry)
      BY <1>6, <2>6, <3>2
    <3>3. QED
      BY <3>1, <3>2
  <2>8. Exact'
    <3> SUFFICES ASSUME NEW f \in Frame
                 PROVE  memory_map'[f] = Cardinality(AsTable(f)') + Cardinality(AsPage(f)')
      BY DEF Exact
    <3>1. /\ memory_map[f] = Cardinality(AsTable(f)) + Cardinality(AsPage(f))
          /\ Cardinality(AsTable(f)) \in Nat /\ Cardinality(AsPage(f)) \in Nat
      BY UsesAreCounted DEF History, Exact
    <3>2. CASE f = page
      <4>1. AsTable(f)' = {} /\ AsPage(f)' = {<<t, entry>>}
        BY <1>2, <1>6, <2>7, <3>2, Data
      <4>2. Cardinality(AsTable(f)') = 0 /\ Cardinality(AsPage(f)') = 1
        BY <4>1, FS_EmptySet, FS_Singleton
      <4>3. memory_map'[f] = 1
        BY <1>2, <2>4, <2>5, <3>2, Data
      <4>4. QED
        BY <4>2, <4>3
    <3>3. CASE f = old
      <4>1. AsPage(f)' = AsPage(f) \ {<<t, entry>>} /\ f # page
        BY <2>4, <2>7, <3>3
      <4>2. IsFiniteSet(AsPage(f))
        BY <1>1, Finite
      <4>3. Cardinality(AsPage(f)') = Cardinality(AsPage(f)) - 1
        BY <1>5, <3>3, <4>1, <4>2, FS_RemoveElement
      <4>4. memory_map'[f] = memory_map[f] - 1
        BY <2>4, <2>5, <3>3
      <4>5. QED
        BY <1>6, <3>1, <4>3, <4>4
    <3>4. CASE f # page /\ f # old
      <4>1. AsPage(f)' = AsPage(f)
        BY <2>7, <3>4
      <4>2. memory_map'[f] = memory_map[f]
        BY <2>5, <3>4, UsesAreCounted
      <4>3. QED
        BY <1>6, <3>1, <4>1, <4>2
    <3>5. QED
      BY <3>2, <3>3, <3>4
  <2>9. \A f \in Frame : memory_map'[f] = 0 => memory_map[f] = 0 /\ f # page
    <3> SUFFICES ASSUME NEW f \in Frame, memory_map'[f] = 0
                 PROVE  memory_map[f] = 0 /\ f # page
      OBVIOUS
    <3>1. memory_map[f] \in Nat
      BY UsesAreCounted
    <3>2. QED
      BY <1>2, <2>4, <2>5, <3>1
  <2>10. AllInUse'
    BY <1>3, <2>9 DEF History, AllInUse
  <2>11. NoData'
    <3> SUFFICES ASSUME NEW f \in Frame, f \in Tables \/ memory_map'[f] = 0,
                        NEW e \in Entry
                 PROVE  content'[f][e].page # Junk
      BY <1>6 DEF NoData
    <3>1. f # page /\ (f \in Tables \/ memory_map[f] = 0)
      BY <1>6, <2>9
    <3>2. content[f][e].page # Junk
      BY <3>1 DEF History, NoData
    <3>3. QED
      BY <1>2, <2>2, <2>6, <3>1, <3>2, Data
  <2>12. QED
    BY <1>3, <2>8, <2>10, <2>11 DEF History, Bases, TablesInUse
<1>9. QED
  BY <1>7, <1>8

(***************************************************************************)
(* set_LDT_desc                                                            *)
(***************************************************************************)

(* In range a new segment is nobody else's, so no table is found there.    *)
LEMMA SegmentIsFree ==
  ASSUME Bases, TablesInUse, NEW index \in Index, ldt_base[index] = NULL,
         SegmentsInRange, index * SEG_DIRS < PAGE_DIR_SIZE
  PROVE  page_dir[SegmentOf(index)] = NULL
<1> SUFFICES ASSUME page_dir[SegmentOf(index)] # NULL PROVE FALSE
  OBVIOUS
<1>1. SegmentOf(index) \in Dir
  BY SegmentsAreDirs
<1>2. PICK i \in Index : ldt_base[i] = SegmentOf(index)
  BY <1>1 DEF TablesInUse
<1>3. ldt_base[i] # NULL
  BY <1>1, <1>2, PageAssumption, MemoryAssumption DEF Dir
<1>4. i # index /\ i * SEG_DIRS < PAGE_DIR_SIZE /\ SegmentOf(i) = SegmentOf(index)
  BY <1>2, <1>3 DEF SegmentsInRange, Bases
<1>5. QED
  BY <1>4, SegmentsDiffer

(* The new table's entries are as many uses as are counted.                *)
LEMMA CopyExact ==
  ASSUME IInv, Exact, NoData, NEW source \in Dir, NEW dest \in Dir,
         NEW from, NEW to,
         from = page_dir[source], to = FreeFrame(memory_map),
         from # NULL, to # NULL, page_dir[dest] = NULL,
         CopyTable(from, to, source, dest)
  PROVE  Exact' /\ NoData'
<1> DEFINE copied == Copied(from, source)
           shared == {e \in copied : content[from][e].page # Kernel}
           Row(f) == {to} \X {e \in copied : content[from][e].page = f}
<1>1. MMTypeOK /\ from \in Frame /\ from \in Tables
  BY DEF IInv, MMTypeOK, Tables
<1>2. /\ to \in Frame /\ memory_map[to] = 0 /\ to \notin Tables
      /\ AsTable(to) = {} /\ AsPage(to) = {} /\ to # from
  BY <1>1, FreeIsUnused
<1>3. copied \subseteq Entry
  BY DEF Copied
<1>4. /\ page_dir' = [page_dir EXCEPT ![dest] = to]
      /\ content' = [content EXCEPT
           ![to]   = [e \in Entry |-> IF e \in copied
                        THEN ReadOnly(content[from][e]) ELSE @[e]],
           ![from] = [e \in Entry |-> IF e \in shared
                        THEN ReadOnly(content[from][e]) ELSE @[e]]]
      /\ memory_map' = [f \in Frame |->
           Taken(memory_map, to)[f] + NewUses(f, from, source)]
  BY DEF CopyTable
<1>5. \A f \in Frame :
        /\ IsFiniteSet(AsTable(f)) /\ IsFiniteSet(AsPage(f))
        /\ IsFiniteSet(Row(f))
        /\ Cardinality(Row(f)) = NewUses(f, from, source)
        /\ NewUses(f, from, source) \in Nat
  <2> SUFFICES ASSUME NEW f \in Frame
               PROVE  /\ IsFiniteSet(AsTable(f)) /\ IsFiniteSet(AsPage(f))
                      /\ IsFiniteSet(Row(f))
                      /\ Cardinality(Row(f)) = NewUses(f, from, source)
                      /\ NewUses(f, from, source) \in Nat
    OBVIOUS
  <2>1. IsFiniteSet(AsTable(f)) /\ IsFiniteSet(AsPage(f)) /\ IsFiniteSet(Entry)
    BY <1>1, Finite
  <2>2. IsFiniteSet({e \in copied : content[from][e].page = f})
    BY <1>3, <2>1, FS_Subset
  <2>3. QED
    BY <2>1, <2>2, OneRow DEF NewUses
<1> HIDE DEF copied, shared
<1>6. \A f \in Frame, e \in Entry : content'[f][e].page =
        IF f = to /\ e \in copied THEN content[from][e].page
                                  ELSE content[f][e].page
  <2>1. content \in [Frame -> [Entry -> Item]]
    BY <1>1 DEF MMTypeOK
  <2>2. \A e \in Entry : content'[to][e] =
          IF e \in copied THEN ReadOnly(content[from][e]) ELSE content[to][e]
    BY <1>1, <1>2, <1>4, <2>1
  <2>3. \A e \in Entry : content'[from][e] =
          IF e \in shared THEN ReadOnly(content[from][e]) ELSE content[from][e]
    BY <1>1, <1>2, <1>4, <2>1
  <2>4. \A f \in Frame : f # to /\ f # from => content'[f] = content[f]
    BY <1>1, <1>2, <1>4, <2>1
  <2>5. \A e \in Entry : ReadOnly(content[from][e]).page = content[from][e].page
    BY DEF ReadOnly
  <2>6. QED
    BY <1>2, <2>2, <2>3, <2>4, <2>5
<1>7. Tables' = Tables \cup {to}
  <2>1. \A d \in Dir : page_dir'[d] = IF d = dest THEN to ELSE page_dir[d]
    BY <1>1, <1>4 DEF MMTypeOK
  <2>2. QED
    BY <1>1, <1>2, <2>1, Data DEF Tables
<1>8. \A x \in Tables : x \in Frame /\ x # to
  BY <1>1, <1>2, Finite
<1>9. \A f \in Frame : AsTable(f)' = AsTable(f) \cup (IF f = to THEN {dest} ELSE {})
  BY <1>1, <1>2, <1>4, Data DEF AsTable, MMTypeOK
<1>10. ASSUME NEW f \in Frame PROVE AsPage(f)' = AsPage(f) \cup Row(f)
  <2>1. ASSUME NEW x \in Tables', NEW e \in Entry
        PROVE  content'[x][e].page = f <=> <<x, e>> \in AsPage(f) \cup Row(f)
    <3>1. CASE x \in Tables
      <4>1. content'[x][e].page = content[x][e].page
        BY <1>6, <1>8, <3>1
      <4>2. <<x, e>> \notin Row(f)
        BY <1>8, <3>1
      <4>3. QED
        BY <3>1, <4>1, <4>2 DEF AsPage
    <3>2. CASE x = to
      <4>1. <<x, e>> \notin AsPage(f)
        BY <1>2, <3>2 DEF AsPage
      <4>2. <<x, e>> \in Row(f) <=> e \in copied /\ content[from][e].page = f
        BY <1>3, <3>2
      <4>3. content[to][e].page \notin Frame
        BY <1>2 DEF IInv, OnlyTablesPoint
      <4>4. QED
        BY <1>2, <1>6, <1>10, <3>2, <4>1, <4>2, <4>3
    <3>3. QED
      BY <1>7, <3>1, <3>2
  <2>2. AsPage(f) \cup Row(f) \subseteq Tables' \X Entry
    BY <1>3, <1>7 DEF AsPage
  <2>3. AsPage(f)' = {y \in Tables' \X Entry : content'[y[1]][y[2]].page = f}
    BY DEF AsPage
  <2> HIDE DEF Row
  <2>4. QED
    BY <2>1, <2>2, <2>3
<1>11. Exact'
  <2> SUFFICES ASSUME NEW f \in Frame
               PROVE  memory_map'[f] = Cardinality(AsTable(f)') + Cardinality(AsPage(f)')
    BY DEF Exact
  <2>1. Cardinality(AsPage(f)') = Cardinality(AsPage(f)) + NewUses(f, from, source)
    <3>1. AsPage(f) \cap Row(f) = {}
      BY <1>2 DEF AsPage
    <3>2. Cardinality(AsPage(f) \cup Row(f)) =
            Cardinality(AsPage(f)) + Cardinality(Row(f))
              - Cardinality(AsPage(f) \cap Row(f))
      BY <1>5, FS_Union
    <3>3. Cardinality(AsPage(f) \cap Row(f)) = 0
      BY <3>1, FS_EmptySet
    <3>4. Cardinality(AsPage(f)) \in Nat /\ NewUses(f, from, source) \in Nat
      BY <1>5, UsesAreCounted
    <3>5. AsPage(f)' = AsPage(f) \cup Row(f) /\ Cardinality(Row(f)) = NewUses(f, from, source)
      BY <1>5, <1>10
    <3> HIDE DEF Row
    <3>6. QED
      BY <3>2, <3>3, <3>4, <3>5
  <2>2. Cardinality(AsTable(f)') = Cardinality(AsTable(f)) + (IF f = to THEN 1 ELSE 0)
    <3>1. CASE f = to
      <4>1. AsTable(f)' = {dest} /\ AsTable(f) = {}
        BY <1>2, <1>9, <3>1
      <4>2. QED
        BY <3>1, <4>1, FS_Singleton, FS_EmptySet
    <3>2. CASE f # to
      <4>1. AsTable(f)' = AsTable(f) /\ Cardinality(AsTable(f)) \in Nat
        BY <1>9, <3>2, UsesAreCounted
      <4>2. QED
        BY <3>2, <4>1
    <3>3. QED
      BY <3>1, <3>2
  <2>3. memory_map'[f] = memory_map[f] + (IF f = to THEN 1 ELSE 0)
                           + NewUses(f, from, source)
    BY <1>1, <1>2, <1>4, <1>5, Data DEF Taken, MMTypeOK
  <2>4. memory_map[f] = Cardinality(AsTable(f)) + Cardinality(AsPage(f))
    BY DEF Exact
  <2>5. /\ Cardinality(AsTable(f)) \in Nat /\ Cardinality(AsPage(f)) \in Nat
        /\ NewUses(f, from, source) \in Nat
    BY <1>5, UsesAreCounted
  <2>6. QED
    BY <2>1, <2>2, <2>3, <2>4, <2>5
<1>12. NoData'
  <2> SUFFICES ASSUME NEW f \in Frame, f \in Tables' \/ memory_map'[f] = 0,
                      NEW e \in Entry
               PROVE  content'[f][e].page # Junk
    BY DEF NoData
  <2>1. content[from][e].page # Junk
    BY <1>1 DEF NoData
  <2>2. f \in Tables \/ memory_map[f] = 0
    <3>1. CASE f \in Tables'
      BY <1>2, <1>7, <3>1
    <3>2. CASE memory_map'[f] = 0
      <4>1. memory_map'[f] = memory_map[f] + (IF f = to THEN 1 ELSE 0)
                               + NewUses(f, from, source)
        BY <1>1, <1>2, <1>4, <1>5, Data DEF Taken, MMTypeOK
      <4>2. memory_map[f] \in Nat /\ NewUses(f, from, source) \in Nat
        BY <1>5, UsesAreCounted
      <4>3. QED
        BY <3>2, <4>1, <4>2
    <3>3. QED
      BY <3>1, <3>2
  <2>3. content[f][e].page # Junk
    BY <2>2 DEF NoData
  <2>4. QED
    BY <1>6, <2>1, <2>3
<1>13. QED
  BY <1>11, <1>12

LEMMA ForkHistory ==
  ASSUME IInv, History, SegmentsInRange, SegmentsInRange',
         NEW index \in Index, NEW current_index \in Index,
         ForkSegment(index, current_index)
  PROVE  History'
<1> DEFINE source == ldt_base[current_index]
           dest == SegmentOf(index)
           to == FreeFrame(memory_map)
<1>1. /\ MMTypeOK /\ source \in Dir /\ source # NULL /\ dest \in Dir
      /\ ldt_base[index] = NULL
      /\ ldt_base' = [ldt_base EXCEPT ![index] = dest]
  BY SegmentsAreDirs DEF IInv, ForkSegment, Alive, MMTypeOK, set_LDT_desc
<1>2. \A i \in Index : ldt_base'[i] = IF i = index THEN dest ELSE ldt_base[i]
  BY <1>1 DEF MMTypeOK
<1>3. dest # NULL
  BY <1>1, PageAssumption, MemoryAssumption DEF Dir
<1>4. page_dir[dest] = NULL
  <2>1. index * SEG_DIRS < PAGE_DIR_SIZE
    BY <1>2, <1>3 DEF SegmentsInRange
  <2>2. QED
    BY <1>1, <2>1, SegmentIsFree DEF History
<1>5. Bases'
  <2>1. 0 \in Index /\ ldt_base[0] # NULL
    BY MemoryAssumption, PageAssumption DEF Index, History, Bases
  <2>2. QED
    BY <1>1, <1>2, <2>1 DEF History, Bases
<1>6. CASE page_dir[source] = NULL \/ to = NULL
  <2>1. UNCHANGED <<page_dir, content, memory_map>>
    BY <1>4, <1>6 DEF ForkSegment, set_LDT_desc
  <2>2. \A f \in Frame : memory_map[f] # 0
    <3>1. CASE page_dir[source] = NULL
      BY <1>1, <3>1 DEF History, AllInUse
    <3>2. CASE to = NULL
      BY <3>2, NothingFree
    <3>3. QED
      BY <1>6, <3>1, <3>2
  <2>3. AllInUse'
    BY <2>1, <2>2 DEF AllInUse
  <2>4. TablesInUse'
    <3> SUFFICES ASSUME NEW d \in Dir, page_dir[d] # NULL
                 PROVE  \E i \in Index : ldt_base'[i] = d
      BY <2>1 DEF TablesInUse
    <3>1. PICK i \in Index : ldt_base[i] = d
      BY DEF History, TablesInUse
    <3>2. i # index
      BY <1>1, <3>1, PageAssumption, MemoryAssumption DEF Dir
    <3>3. QED
      BY <1>2, <3>1, <3>2
  <2>5. Tables' = Tables
    BY <2>1 DEF Tables
  <2>6. \A f \in Frame : AsTable(f)' = AsTable(f) /\ AsPage(f)' = AsPage(f)
    BY <2>1, <2>5 DEF AsTable, AsPage
  <2>7. Exact' /\ NoData'
    BY <2>1, <2>5, <2>6 DEF History, Exact, NoData
  <2>8. QED
    BY <1>5, <2>3, <2>4, <2>7 DEF History
<1>7. CASE page_dir[source] # NULL /\ to # NULL
  <2>1. CopyTable(page_dir[source], to, source, dest)
    BY <1>4, <1>7 DEF ForkSegment, set_LDT_desc
  <2>2. Exact' /\ NoData'
    BY <1>1, <1>4, <1>7, <2>1, CopyExact DEF History
  <2>3. to \in Frame /\ memory_map[to] = 0
    BY <1>7, FreeIsUnused
  <2>4. \A d \in Dir : page_dir'[d] = IF d = dest THEN to ELSE page_dir[d]
    BY <1>1, <2>1 DEF CopyTable, MMTypeOK
  <2>5. AllInUse'
    <3> SUFFICES ASSUME NEW i \in Index, ldt_base'[i] # NULL,
                        page_dir'[ldt_base'[i]] = NULL
                 PROVE  FALSE
      BY DEF AllInUse
    <3>1. ldt_base'[i] # dest
      BY <1>1, <2>3, <2>4, Data
    <3>2. ldt_base'[i] = ldt_base[i] /\ ldt_base[i] \in Dir
      BY <1>1, <1>2, <3>1 DEF MMTypeOK
    <3>3. page_dir[ldt_base[i]] = NULL /\ ldt_base[i] # NULL
      BY <2>4, <3>1, <3>2
    <3>4. QED
      BY <2>3, <3>3 DEF History, AllInUse
  <2>6. TablesInUse'
    <3> SUFFICES ASSUME NEW d \in Dir, page_dir'[d] # NULL
                 PROVE  \E i \in Index : ldt_base'[i] = d
      BY DEF TablesInUse
    <3>1. CASE d = dest
      BY <1>2, <3>1
    <3>2. CASE d # dest
      <4>1. PICK i \in Index : ldt_base[i] = d
        BY <2>4, <3>2 DEF History, TablesInUse
      <4>2. i # index
        BY <1>1, <4>1, PageAssumption, MemoryAssumption DEF Dir
      <4>3. QED
        BY <1>2, <4>1, <4>2
    <3>3. QED
      BY <3>1, <3>2
  <2>7. QED
    BY <1>5, <2>2, <2>5, <2>6 DEF History
<1>8. QED
  BY <1>6, <1>7

(***************************************************************************)
(* The counts are exact and tables clean                                   *)
(***************************************************************************)

LEMMA HistoryInit == MMInit => History
<1> SUFFICES ASSUME MMInit PROVE History
  OBVIOUS
<1>1. 0 \in Frame /\ 0 \in Index /\ 0 \in Dir /\ NULL \notin Dir
  BY MemoryAssumption, PageAssumption DEF Frame, Index, Dir
<1>2. IInv
  BY InitHolds
<1>3. Bases
  <2>1. SegmentOf(0) = 0
    BY MemoryAssumption DEF SegmentOf
  <2>2. QED
    BY <1>1, <2>1 DEF MMInit, Bases
<1>4. TablesInUse /\ AllInUse
  BY <1>1, Data DEF MMInit, TablesInUse, AllInUse
<1>5. NoData
  <2>1. \A f \in Frame, e \in Entry : content[f][e].page \in {Kernel, NULL}
    BY DEF MMInit, Absent
  <2>2. QED
    BY <2>1, Data DEF NoData
<1>6. Exact
  <2> SUFFICES ASSUME NEW f \in Frame
               PROVE  memory_map[f] = Cardinality(AsTable(f)) + Cardinality(AsPage(f))
    BY DEF Exact
  <2>1. AsPage(f) = {}
    <3>1. \A g \in Frame, e \in Entry : content[g][e].page \in {Kernel, NULL}
      BY DEF MMInit, Absent
    <3>2. Tables \subseteq Frame
      BY <1>2, Finite DEF IInv
    <3>3. QED
      BY <3>1, <3>2, Data DEF AsPage
  <2>2. AsTable(f) = IF f = 0 THEN {0} ELSE {}
    BY <1>1, Data DEF MMInit, AsTable
  <2>3. Cardinality(AsPage(f)) = 0
    BY <2>1, FS_EmptySet
  <2>4. Cardinality(AsTable(f)) = IF f = 0 THEN 1 ELSE 0
    BY <2>2, FS_EmptySet, FS_Singleton
  <2>5. memory_map[f] = IF f = 0 THEN 1 ELSE 0
    BY DEF MMInit
  <2>6. QED
    BY <2>3, <2>4, <2>5
<1>7. QED
  BY <1>3, <1>4, <1>5, <1>6 DEF History

(* Slots are not given back, and the dead stay dead.                       *)
LEMMA OrderlyBefore ==
  ASSUME IInv, [MMNext]_mmVars, Orderly'
  PROVE  Orderly /\ ~\E index \in Index : on_process_die(index)
<1>1. ASSUME NEW index \in Index, on_process_die(index) PROVE FALSE
  BY <1>1 DEF on_process_die, Orderly
<1>2. ASSUME NEW index \in Index, NEW current_index \in Index,
             ForkSegment(index, current_index)
      PROVE  Orderly
  <2>1. ldt_base' = [ldt_base EXCEPT ![index] = SegmentOf(index)] /\ gone' = gone
    BY <1>2, Fork DEF ForkSegment
  <2>2. \A i \in Index : ldt_base[i] # NULL => ldt_base'[i] # NULL
    BY <1>2, <2>1 DEF IInv, MMTypeOK, ForkSegment
  <2>3. QED
    BY <2>1, <2>2 DEF Orderly, SegmentsInRange
<1>3. UNCHANGED <<ldt_base, gone>> => Orderly
  BY DEF Orderly, SegmentsInRange
<1>4. QED
  BY <1>1, <1>2, <1>3 DEF MMNext, mmVars, put_page, un_wp_page

LEMMA HistoryStep ==
  IInv /\ (Orderly => History) /\ [MMNext]_mmVars => (Orderly => History)'
<1> SUFFICES ASSUME IInv, Orderly => History, [MMNext]_mmVars, Orderly'
             PROVE  History'
  OBVIOUS
<1>1. Orderly /\ History /\ ~\E index \in Index : on_process_die(index)
  BY OrderlyBefore
<1>2. ASSUME NEW index \in Index, NEW current_index \in Index,
             ForkSegment(index, current_index)
      PROVE  History'
  BY <1>1, <1>2, ForkHistory DEF Orderly
<1>3. ASSUME NEW index \in Index, NEW entry \in Entry, put_page(index, entry)
      PROVE  History'
  BY <1>1, <1>3, PutPageHistory
<1>4. ASSUME NEW index \in Index, NEW entry \in Entry, un_wp_page(index, entry)
      PROVE  History'
  BY <1>1, <1>4, UnWpPageHistory
<1>5. CASE UNCHANGED mmVars
  <2>1. UNCHANGED <<page_dir, content, memory_map, ldt_base>>
    BY <1>5 DEF mmVars
  <2>2. Tables' = Tables
    BY <2>1 DEF Tables
  <2>3. \A f \in Frame : AsTable(f)' = AsTable(f) /\ AsPage(f)' = AsPage(f)
    BY <2>1, <2>2 DEF AsTable, AsPage
  <2>4. Exact' /\ NoData'
    BY <1>1, <2>1, <2>2, <2>3 DEF History, Exact, NoData
  <2>5. QED
    BY <1>1, <2>1, <2>4 DEF History, Bases, TablesInUse, AllInUse
<1>6. QED
  BY <1>1, <1>2, <1>3, <1>4, <1>5 DEF MMNext

(* Words of data get into a table only where a table is made over them.    *)
LEMMA StrayNeedsData ==
  ASSUME IInv, [MMNext]_mmVars, memory # "stray", NoData'
  PROVE  memory' # "stray"
<1>1. ASSUME NEW t \in Frame, t \in Tables', KeepLeftovers(t)
      PROVE  memory' # "stray"
  BY <1>1 DEF NoData, KeepLeftovers
<1>2. ASSUME NEW index \in Index, NEW current_index \in Index,
             ForkSegment(index, current_index)
      PROVE  memory' # "stray"
  <2> DEFINE source == ldt_base[current_index]
             dest == SegmentOf(index)
             to == FreeFrame(memory_map)
  <2>1. CASE page_dir[dest] # NULL \/ page_dir[source] = NULL \/ to = NULL
    BY <1>2, <2>1 DEF ForkSegment, set_LDT_desc, free_page_tables
  <2>2. CASE page_dir[dest] = NULL /\ page_dir[source] # NULL /\ to # NULL
    <3>1. /\ page_dir' = [page_dir EXCEPT ![dest] = to]
          /\ KeepLeftovers(to)
      BY <1>2, <2>2 DEF ForkSegment, set_LDT_desc, CopyTable
    <3>2. to \in Frame /\ dest \in Dir /\ page_dir \in [Dir -> Frame \cup {NULL}]
      BY <2>2, FreeIsUnused, SegmentsAreDirs DEF IInv, MMTypeOK
    <3> HIDE DEF to, dest
    <3>3. to \in Tables'
      BY <3>1, <3>2, Data DEF Tables
    <3>4. QED
      BY <1>1, <3>1, <3>2, <3>3
  <2>3. QED
    BY <2>1, <2>2
<1>3. ASSUME NEW index \in Index, NEW entry \in Entry, put_page(index, entry)
      PROVE  memory' # "stray"
  <2> DEFINE dir == ldt_base[index]
             page == FreeFrame(memory_map)
             table == IF page_dir[dir] # NULL THEN page_dir[dir]
                      ELSE FreeFrame(Taken(memory_map, page))
  <2>1. CASE table = NULL
    BY <1>3, <2>1 DEF put_page
  <2>2. CASE table # NULL
    <3>1. /\ page_dir' = [page_dir EXCEPT ![dir] = table]
          /\ KeepLeftovers(table)
      BY <1>3, <2>2 DEF put_page
    <3>2. dir \in Dir /\ page_dir \in [Dir -> Frame \cup {NULL}]
      BY <1>3 DEF IInv, put_page, Alive, MMTypeOK
    <3>3. Taken(memory_map, page) \in [Frame -> Nat]
      BY FreeIsUnused DEF IInv, MMTypeOK, Taken
    <3>4. table \in Frame
      BY <2>2, <3>2, <3>3, FreeFrameIsFree
    <3> HIDE DEF table, dir
    <3>5. table \in Tables'
      BY <3>1, <3>2, <3>4, Data DEF Tables
    <3>6. QED
      BY <1>1, <3>1, <3>4, <3>5
  <2>3. QED
    BY <2>1, <2>2
<1>4. ASSUME NEW index \in Index, NEW entry \in Entry, un_wp_page(index, entry)
      PROVE  memory' # "stray"
  BY <1>4 DEF un_wp_page
<1>5. ASSUME NEW index \in Index, on_process_die(index)
      PROVE  memory' # "stray"
  BY <1>5 DEF on_process_die, free_page_tables
<1>6. QED
  BY <1>2, <1>3, <1>4, <1>5 DEF MMNext, mmVars

OrderlyHistory == Orderly => History /\ memory # "stray"

LEMMA HistoryAlways == MMSpec => []OrderlyHistory
<1>1. MMInit => OrderlyHistory
  BY HistoryInit DEF OrderlyHistory, MMInit
<1>2. IInv /\ OrderlyHistory /\ [MMNext]_mmVars => OrderlyHistory'
  <2> SUFFICES ASSUME IInv, OrderlyHistory, [MMNext]_mmVars, Orderly'
               PROVE  History' /\ memory' # "stray"
    BY DEF OrderlyHistory
  <2>1. Orderly
    BY OrderlyBefore
  <2>2. History'
    BY <2>1, HistoryStep DEF OrderlyHistory
  <2>3. QED
    BY <2>1, <2>2, StrayNeedsData DEF OrderlyHistory, History
<1>3. QED
  BY <1>1, <1>2, Invariance, PTL DEF MMSpec

(* While no task dies and slots are in range, fork, page faults and copies *)
(* on write neither lose a frame nor count one too often, whether they     *)
(* find memory or not.                                                     *)
THEOREM CountsAreExact == MMSpec => [](SegmentsInRange => CountsMatch)
<1>1. OrderlyHistory => (SegmentsInRange => CountsMatch)
  BY DEF OrderlyHistory, Orderly, History, Exact, CountsMatch, UsesOf, AsTable, AsPage
<1>2. QED
  BY <1>1, HistoryAlways, PTL

(* While slots are in range, no table holds words of a task's data before  *)
(* the first death, though get_free_page clears nothing; and as long as no *)
(* table was made over such words, none holds any.                         *)
THEOREM TablesStayClean == MMSpec => [](SegmentsInRange => TablesAreClean)
<1>1. ASSUME IInv, OrderlyHistory, SegmentsInRange PROVE TablesAreClean
  BY <1>1 DEF IInv, OrderlyHistory, Orderly, TablesHoldEntries, TablesAreClean
<1>2. QED
  BY <1>1, HistoryAlways, Invariance, PTL

(***************************************************************************)
(* The kernel's pages stay read-only                                       *)
(***************************************************************************)

KernelReadOnlyKept == KernelIsReadOnly => KernelIsReadOnly'

LEMMA PutPageKernel ==
  ASSUME IInv, KernelInTables, NEW index \in Index, NEW entry \in Entry,
         put_page(index, entry)
  PROVE  KernelInTables' /\ (FreeFrame(memory_map) # NULL => KernelReadOnlyKept)
<1> DEFINE dir == ldt_base[index]
           page == FreeFrame(memory_map)
           table == IF page_dir[dir] # NULL THEN page_dir[dir]
                    ELSE FreeFrame(Taken(memory_map, page))
           mapped == [page |-> IF page = NULL THEN Kernel ELSE page, write |-> TRUE]
<1>1. MMTypeOK /\ dir \in Dir
  BY DEF IInv, put_page, Alive, MMTypeOK
<1>2. page \in Frame \cup {NULL} /\ (page # NULL => page \notin Tables)
  BY FreeIsUnused
<1>3. Taken(memory_map, page) \in [Frame -> Nat]
  BY <1>1, <1>2 DEF Taken, MMTypeOK
<1>4. CASE table = NULL
  <2>1. UNCHANGED <<page_dir, content>>
    BY <1>4 DEF put_page
  <2>2. QED
    BY <2>1 DEF KernelInTables, KernelReadOnlyKept, KernelIsReadOnly, Tables
<1>5. CASE table # NULL
  <2>1. /\ page_dir' = [page_dir EXCEPT ![dir] = table]
        /\ content' =
             [[f \in Frame |-> IF f = page
                  THEN [e \in Entry |-> [page |-> Junk, write |-> TRUE]]
                  ELSE content[f]] EXCEPT ![table][entry] = mapped]
    BY <1>5 DEF put_page
  <2>2. table \in Frame /\ (page_dir[dir] # NULL => table = page_dir[dir])
    BY <1>1, <1>3, <1>5, FreeFrameIsFree DEF MMTypeOK
  <2>3. page_dir[dir] = NULL => table \notin Tables /\ table # page
    <3> SUFFICES ASSUME page_dir[dir] = NULL
                 PROVE  table \notin Tables /\ table # page
      OBVIOUS
    <3>1. Taken(memory_map, page)[table] = 0
      BY <1>3, <1>5, FreeFrameIsFree
    <3>2. memory_map[table] = 0 /\ table # page
      BY <1>1, <1>2, <2>2, <3>1, Data DEF Taken, MMTypeOK
    <3> HIDE DEF table
    <3>3. AsTable(table) = {}
      BY <2>2, <3>2, UsesAreCounted
    <3>4. QED
      BY <3>2, <3>3 DEF AsTable, Tables
  <2>4. mapped.page = (IF page = NULL THEN Kernel ELSE page)
    OBVIOUS
  <2> HIDE DEF page, table, mapped
  <2>5. \A f \in Frame, e \in Entry : content'[f][e] =
            IF f = table /\ e = entry THEN mapped
            ELSE IF f = page THEN [page |-> Junk, write |-> TRUE]
            ELSE content[f][e]
    BY <1>1, <2>1, <2>2 DEF MMTypeOK
  <2>6. \A d \in Dir : page_dir'[d] = IF d = dir THEN table ELSE page_dir[d]
    BY <1>1, <2>1 DEF MMTypeOK
  <2>7. Tables' = Tables \cup {table}
    BY <1>1, <2>2, <2>6, Data DEF Tables
  <2>8. KernelInTables'
    <3> SUFFICES ASSUME NEW f \in Frame, f \notin Tables', NEW e \in Entry
                 PROVE  content'[f][e].page # Kernel
      BY DEF KernelInTables
    <3>1. f # table /\ content[f][e].page # Kernel
      BY <2>7 DEF KernelInTables
    <3>2. QED
      BY <2>5, <3>1, Data
  <2>9. ASSUME KernelIsReadOnly, page # NULL PROVE KernelIsReadOnly'
    <3> SUFFICES ASSUME NEW d \in Dir \ {0}, page_dir'[d] # NULL, NEW e \in Entry,
                        content'[page_dir'[d]][e].page = Kernel
                 PROVE  ~content'[page_dir'[d]][e].write
      BY DEF KernelIsReadOnly
    <3> DEFINE x == page_dir'[d]
    <3>1. x \in Frame
      BY <1>1, <2>2, <2>6 DEF MMTypeOK
    <3>2. ~(x = table /\ e = entry)
      BY <1>2, <2>4, <2>5, <2>9, <3>1, Data
    <3>3. CASE page_dir[d] = x
      <4>1. x # page
        BY <1>2, <3>3 DEF Tables
      <4>2. content'[x][e] = content[x][e]
        BY <2>5, <3>1, <3>2, <4>1
      <4>3. QED
        BY <2>9, <3>3, <4>2 DEF KernelIsReadOnly
    <3>4. CASE page_dir[d] # x
      <4>1. x = table /\ page_dir[dir] = NULL
        BY <2>2, <2>6, <3>4
      <4>2. content'[x][e] = content[x][e]
        BY <2>3, <2>5, <3>1, <3>2, <4>1
      <4>3. QED
        BY <2>3, <3>1, <4>1, <4>2 DEF KernelInTables
    <3>5. QED
      BY <3>3, <3>4
  <2>10. QED
    BY <2>8, <2>9 DEF KernelReadOnlyKept, page
<1>6. QED
  BY <1>4, <1>5

LEMMA UnWpPageKernel ==
  ASSUME IInv, KernelInTables, NEW index \in Index, NEW entry \in Entry,
         un_wp_page(index, entry)
  PROVE  KernelInTables' /\ (FreeFrame(memory_map) # NULL => KernelReadOnlyKept)
<1> DEFINE t == page_dir[ldt_base[index]]
           old == content[t][entry].page
           page == FreeFrame(memory_map)
           mapped == [page |-> IF page = NULL THEN Kernel ELSE page, write |-> TRUE]
<1>1. MMTypeOK /\ ldt_base[index] \in Dir
  BY DEF IInv, un_wp_page, Alive, MMTypeOK
<1>2. page \in Frame \cup {NULL} /\ (page # NULL => page \notin Tables)
  BY FreeIsUnused
<1>3. t \in Frame /\ t \in Tables /\ page_dir' = page_dir
  BY <1>1 DEF un_wp_page, MMTypeOK, Tables
<1>4. Tables' = Tables /\ \A x \in Tables : x \in Frame /\ x # page
  BY <1>1, <1>2, <1>3, Finite, Data DEF Tables
<1>5. mapped.page = (IF page = NULL THEN Kernel ELSE page)
  OBVIOUS
<1>6. \A f \in Frame, e \in Entry :
        \/ content'[f][e] = content[f][e]
        \/ f = page /\ content'[f][e].page = Junk
        \/ f = t /\ content'[f][e].page # Kernel
        \/ f = t /\ page = NULL
  <2>1. CASE old \in Frame /\ memory_map[old] = 1
    <3>1. content' = [content EXCEPT ![t][entry].write = TRUE]
      BY <2>1 DEF un_wp_page
    <3>2. content[t][entry].page # Kernel
      BY <2>1, Data
    <3> HIDE DEF t, old, page, mapped
    <3>3. QED
      BY <1>1, <1>3, <3>1, <3>2 DEF MMTypeOK, Item
  <2>2. CASE ~(old \in Frame /\ memory_map[old] = 1)
    <3>1. content' =
             [[f \in Frame |-> IF f = page
                  THEN [e \in Entry |-> [page |-> Junk, write |-> TRUE]]
                  ELSE content[f]] EXCEPT ![t][entry] = mapped]
      BY <2>2 DEF un_wp_page
    <3> HIDE DEF t, old, page, mapped
    <3>2. \A f \in Frame, e \in Entry : content'[f][e] =
            IF f = t /\ e = entry THEN mapped
            ELSE IF f = page THEN [page |-> Junk, write |-> TRUE]
            ELSE content[f][e]
      BY <1>1, <1>3, <3>1 DEF MMTypeOK
    <3>3. page # NULL => mapped.page # Kernel
      BY <1>2, <1>5, Data
    <3>4. QED
      BY <3>2, <3>3
  <2>3. QED
    BY <2>1, <2>2
<1> HIDE DEF t, old, page, mapped
<1>7. KernelInTables'
  <2> SUFFICES ASSUME NEW f \in Frame, f \notin Tables, NEW e \in Entry
               PROVE  content'[f][e].page # Kernel
    BY <1>4 DEF KernelInTables
  <2>1. f # t /\ content[f][e].page # Kernel
    BY <1>3 DEF KernelInTables
  <2>2. QED
    BY <1>6, <2>1, Data
<1>8. ASSUME KernelIsReadOnly, page # NULL PROVE KernelIsReadOnly'
  <2> SUFFICES ASSUME NEW d \in Dir \ {0}, page_dir[d] # NULL, NEW e \in Entry,
                      content'[page_dir[d]][e].page = Kernel
               PROVE  ~content'[page_dir[d]][e].write
    BY <1>3 DEF KernelIsReadOnly
  <2>1. page_dir[d] \in Frame /\ page_dir[d] # page
    BY <1>4 DEF Tables
  <2>2. content'[page_dir[d]][e] = content[page_dir[d]][e]
    BY <1>6, <1>8, <2>1
  <2>3. QED
    BY <1>8, <2>2 DEF KernelIsReadOnly
<1>9. QED
  BY <1>7, <1>8 DEF KernelReadOnlyKept, page

LEMMA FreeKernel ==
  ASSUME IInv, KernelInTables, NEW dir \in Dir, free_page_tables(dir)
  PROVE  KernelInTables' /\ KernelReadOnlyKept
<1> DEFINE t == page_dir[dir]
<1>1. MMTypeOK /\ t \in Frame \cup {NULL}
  BY DEF IInv, MMTypeOK
<1>2. CASE UNCHANGED <<page_dir, content>>
  BY <1>2 DEF KernelInTables, KernelReadOnlyKept, KernelIsReadOnly, Tables
<1>3. CASE ~UNCHANGED <<page_dir, content>>
  <2>1. /\ content' = [content EXCEPT ![t] = [e \in Entry |-> Absent]]
        /\ page_dir' = [page_dir EXCEPT ![dir] = NULL]
        /\ t # NULL
    BY <1>3 DEF free_page_tables
  <2> HIDE DEF t
  <2>2. \A f \in Frame, e \in Entry :
          content'[f][e] = IF f = t THEN Absent ELSE content[f][e]
    BY <1>1, <2>1 DEF MMTypeOK
  <2>3. \A d \in Dir : page_dir'[d] = IF d = dir THEN NULL ELSE page_dir[d]
    BY <1>1, <2>1 DEF MMTypeOK
  <2>4. Absent.page = NULL
    BY DEF Absent
  <2>5. KernelInTables'
    <3> SUFFICES ASSUME NEW f \in Frame, f \notin Tables', NEW e \in Entry
                 PROVE  content'[f][e].page # Kernel
      BY DEF KernelInTables
    <3>1. f = t \/ f \notin Tables
      BY <2>3, Data DEF Tables, t
    <3>2. QED
      BY <2>2, <2>4, <3>1, Data DEF KernelInTables
  <2>6. ASSUME KernelIsReadOnly PROVE KernelIsReadOnly'
    <3> SUFFICES ASSUME NEW d \in Dir \ {0}, page_dir'[d] # NULL, NEW e \in Entry,
                        content'[page_dir'[d]][e].page = Kernel
                 PROVE  ~content'[page_dir'[d]][e].write
      BY DEF KernelIsReadOnly
    <3>1. page_dir'[d] = page_dir[d] /\ page_dir[d] \in Frame
      BY <1>1, <2>3 DEF MMTypeOK
    <3>2. content'[page_dir[d]][e] = content[page_dir[d]][e]
      BY <2>2, <2>4, <3>1, Data
    <3>3. QED
      BY <2>6, <3>1, <3>2 DEF KernelIsReadOnly
  <2>7. QED
    BY <2>5, <2>6 DEF KernelReadOnlyKept
<1>4. QED
  BY <1>2, <1>3

LEMMA CopyKernel ==
  ASSUME IInv, KernelInTables, NEW source \in Dir, NEW dest \in Dir,
         NEW from, NEW to,
         from = page_dir[source], to = FreeFrame(memory_map),
         from # NULL, to # NULL, page_dir[dest] = NULL,
         CopyTable(from, to, source, dest)
  PROVE  KernelInTables' /\ KernelReadOnlyKept
<1> DEFINE copied == Copied(from, source)
           shared == {e \in copied : content[from][e].page # Kernel}
<1>1. MMTypeOK /\ from \in Frame /\ from \in Tables
  BY DEF IInv, MMTypeOK, Tables
<1>2. to \in Frame /\ to \notin Tables /\ to # from
  BY <1>1, FreeIsUnused
<1>3. /\ page_dir' = [page_dir EXCEPT ![dest] = to]
      /\ content' = [content EXCEPT
           ![to]   = [e \in Entry |-> IF e \in copied
                        THEN ReadOnly(content[from][e]) ELSE @[e]],
           ![from] = [e \in Entry |-> IF e \in shared
                        THEN ReadOnly(content[from][e]) ELSE @[e]]]
  BY DEF CopyTable
<1> HIDE DEF copied, shared
<1>4. \A f \in Frame, e \in Entry :
        \/ content'[f][e] = content[f][e]
        \/ f \in {to, from} /\ ~content'[f][e].write
  <2>1. content \in [Frame -> [Entry -> Item]]
    BY <1>1 DEF MMTypeOK
  <2>2. \A e \in Entry : content'[to][e] =
          IF e \in copied THEN ReadOnly(content[from][e]) ELSE content[to][e]
    BY <1>1, <1>2, <1>3, <2>1
  <2>3. \A e \in Entry : content'[from][e] =
          IF e \in shared THEN ReadOnly(content[from][e]) ELSE content[from][e]
    BY <1>1, <1>2, <1>3, <2>1
  <2>4. \A f \in Frame : f # to /\ f # from => content'[f] = content[f]
    BY <1>1, <1>2, <1>3, <2>1
  <2>5. \A e \in Entry : ~ReadOnly(content[from][e]).write
    BY DEF ReadOnly
  <2>6. QED
    BY <2>2, <2>3, <2>4, <2>5
<1>5. \A d \in Dir : page_dir'[d] = IF d = dest THEN to ELSE page_dir[d]
  BY <1>1, <1>3 DEF MMTypeOK
<1>6. Tables' = Tables \cup {to}
  BY <1>1, <1>2, <1>5, Data DEF Tables
<1>7. KernelInTables'
  <2> SUFFICES ASSUME NEW f \in Frame, f \notin Tables', NEW e \in Entry
               PROVE  content'[f][e].page # Kernel
    BY DEF KernelInTables
  <2>1. f \notin {to, from} /\ f \notin Tables
    BY <1>1, <1>6
  <2>2. QED
    BY <1>4, <2>1 DEF KernelInTables
<1>8. ASSUME KernelIsReadOnly PROVE KernelIsReadOnly'
  <2> SUFFICES ASSUME NEW d \in Dir \ {0}, page_dir'[d] # NULL, NEW e \in Entry,
                      content'[page_dir'[d]][e].page = Kernel,
                      content'[page_dir'[d]][e].write
               PROVE  FALSE
    BY DEF KernelIsReadOnly
  <2>1. CASE d = dest
    <3>1. content'[to][e] = content[to][e]
      BY <1>2, <1>4, <1>5, <2>1
    <3>2. QED
      BY <1>2, <1>5, <2>1, <3>1 DEF KernelInTables
  <2>2. CASE d # dest
    <3>1. page_dir'[d] = page_dir[d] /\ page_dir[d] \in Frame
      BY <1>1, <1>5, <2>2 DEF MMTypeOK
    <3>2. content'[page_dir[d]][e] = content[page_dir[d]][e]
      BY <1>4, <3>1
    <3>3. QED
      BY <1>8, <3>1, <3>2 DEF KernelIsReadOnly
  <2>3. QED
    BY <2>1, <2>2
<1>9. QED
  BY <1>7, <1>8 DEF KernelReadOnlyKept

LEMMA StepKernel ==
  ASSUME IInv, KernelInTables, [MMNext]_mmVars
  PROVE  KernelInTables' /\ (FreeFrame(memory_map) # NULL => KernelReadOnlyKept)
<1>1. ASSUME NEW index \in Index, NEW current_index \in Index,
             ForkSegment(index, current_index)
      PROVE  KernelInTables' /\ KernelReadOnlyKept
  <2> DEFINE source == ldt_base[current_index]
             dest == SegmentOf(index)
             to == FreeFrame(memory_map)
  <2>1. source \in Dir /\ dest \in Dir
    BY <1>1, SegmentsAreDirs DEF IInv, ForkSegment, Alive, MMTypeOK
  <2>2. CASE page_dir[dest] # NULL
    <3>1. free_page_tables(dest)
      BY <1>1, <2>2 DEF ForkSegment, set_LDT_desc
    <3>2. QED
      BY <2>1, <3>1, FreeKernel
  <2>3. CASE page_dir[dest] = NULL /\ (page_dir[source] = NULL \/ to = NULL)
    <3>1. UNCHANGED <<page_dir, content>>
      BY <1>1, <2>3 DEF ForkSegment, set_LDT_desc
    <3>2. QED
      BY <3>1 DEF KernelInTables, KernelReadOnlyKept, KernelIsReadOnly, Tables
  <2>4. CASE page_dir[dest] = NULL /\ page_dir[source] # NULL /\ to # NULL
    <3>1. CopyTable(page_dir[source], to, source, dest)
      BY <1>1, <2>4 DEF ForkSegment, set_LDT_desc
    <3>2. QED
      BY <2>1, <2>4, <3>1, CopyKernel
  <2>5. QED
    BY <2>2, <2>3, <2>4
<1>2. ASSUME NEW index \in Index, on_process_die(index)
      PROVE  KernelInTables' /\ KernelReadOnlyKept
  <2>1. ldt_base[index] \in Dir /\ free_page_tables(ldt_base[index])
    BY <1>2 DEF IInv, on_process_die, Alive, MMTypeOK
  <2>2. QED
    BY <2>1, FreeKernel
<1>3. CASE UNCHANGED mmVars
  BY <1>3 DEF mmVars, KernelInTables, KernelReadOnlyKept, KernelIsReadOnly, Tables
<1>4. QED
  BY <1>1, <1>2, <1>3, PutPageKernel, UnWpPageKernel DEF MMNext

LEMMA KernelInit == MMInit => KernelInTables
<1> SUFFICES ASSUME MMInit, NEW f \in Frame \ Tables, NEW e \in Entry
             PROVE  content[f][e].page # Kernel
  BY DEF KernelInTables
<1>1. 0 \in Dir
  BY MemoryAssumption DEF Dir
<1>2. f # 0
  BY <1>1, Data DEF MMInit, Tables, Frame
<1>3. QED
  BY <1>2, Data DEF MMInit, Absent

(* No step makes the kernel's pages writable through a task's segment      *)
(* unless it asks for a frame when none is left: a fork hands them on      *)
(* read-only, and the table a new segment gets holds none by accident.  The*)
(* step that makes a table over words of data is not claimed about.        *)
THEOREM KernelStaysProtected == MMSpec => KernelStaysReadOnly
<1>1. IInv /\ KernelInTables /\ [MMNext]_mmVars => KernelInTables'
  BY StepKernel
<1>2. IInv /\ KernelInTables /\ [MMNext]_mmVars =>
        [KernelIsReadOnly /\ FreeFrame(memory_map) # NULL /\ memory' = "up"
           => KernelIsReadOnly']_mmVars
  BY StepKernel DEF KernelReadOnlyKept
<1>3. QED
  BY <1>1, <1>2, KernelInit, Invariance, PTL DEF MMSpec, KernelStaysReadOnly

=============================================================================
