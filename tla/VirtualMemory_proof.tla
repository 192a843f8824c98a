------------------------ MODULE VirtualMemory_proof ------------------------
(***************************************************************************)
(* VirtualMemory implements AddressSpace, for any number of tasks, pages   *)
(* and frames, as long as frames are left and segments lie in the page     *)
(* directory.                                                              *)
(***************************************************************************)
EXTENDS VirtualMemory, MemoryManage_proof

(* put_page takes two frames where there is no table yet.                  *)
FramesLeft ==
  /\ FreeFrame(memory_map) # NULL
  /\ FreeFrame(Taken(memory_map, FreeFrame(memory_map))) # NULL

(* Nothing is ever given back, so unused frames are as they were at first. *)
Clean == \A f \in Frame : memory_map[f] = 0 => \A e \in Entry : content[f][e].page = NULL

VInv ==
  /\ IInv
  /\ data \in [Frame -> Value]
  /\ Clean /\ Bases /\ TablesInUse

(***************************************************************************)
(* What tasks see                                                          *)
(***************************************************************************)

Seen(d, e) == IF Mapping(d)[e] \in Frame THEN data[Mapping(d)[e]] ELSE Mapping(d)[e]

LEMMA SeesIs ==
  MMTypeOK => \A i \in Index :
    /\ Sees(i) = [e \in Entry |-> IF ldt_base[i] = NULL THEN NULL
                                                        ELSE Seen(ldt_base[i], e)]
    /\ ldt_base[i] # NULL => ldt_base[i] \in Dir
<1> SUFFICES ASSUME MMTypeOK, NEW i \in Index
             PROVE  /\ Sees(i) = [e \in Entry |->
                         IF ldt_base[i] = NULL THEN NULL ELSE Seen(ldt_base[i], e)]
                    /\ ldt_base[i] # NULL => ldt_base[i] \in Dir
  OBVIOUS
<1>1. NULL \notin Frame
  BY PageAssumption DEF Frame
<1>2. CASE ldt_base[i] = NULL
  BY <1>2 DEF Sees
<1>3. CASE ldt_base[i] # NULL
  <2>1. ldt_base[i] \in Dir
    BY <1>3 DEF MMTypeOK
  <2>2. CASE page_dir[ldt_base[i]] = NULL
    BY <1>1, <1>3, <2>1, <2>2 DEF Sees, Seen, Mapping
  <2>3. CASE page_dir[ldt_base[i]] # NULL
    BY <1>3, <2>1, <2>3 DEF Sees, Seen, Mapping
  <2>4. QED
    BY <2>1, <2>2, <2>3
<1>4. QED
  BY <1>2, <1>3

LEMMA SeesIsNext ==
  (MMTypeOK => \A i \in Index :
    /\ Sees(i) = [e \in Entry |-> IF ldt_base[i] = NULL THEN NULL
                                                        ELSE Seen(ldt_base[i], e)]
    /\ ldt_base[i] # NULL => ldt_base[i] \in Dir)'
BY SeesIs, PTL

(* A frame that nobody counts is in nobody's map,                          *)
LEMMA FreeIsUnmapped ==
  ASSUME IInv, NEW f \in Frame, memory_map[f] = 0
  PROVE  \A d \in Dir : page_dir[d] # f /\ \A e \in Entry : Mapping(d)[e] # f
<1>1. AsTable(f) = {} /\ AsPage(f) = {}
  BY UsesAreCounted
<1>2. ASSUME NEW d \in Dir PROVE page_dir[d] # f
  BY <1>1 DEF AsTable
<1>3. ASSUME NEW d \in Dir, NEW e \in Entry PROVE Mapping(d)[e] # f
  <2>1. CASE page_dir[d] = NULL
    BY <2>1, PageAssumption DEF Mapping, Frame
  <2>2. CASE page_dir[d] # NULL
    <3>1. <<page_dir[d], e>> \in Tables \X Entry
      BY <2>2 DEF Tables
    <3>2. content[page_dir[d]][e].page # f
      BY <1>1, <3>1 DEF AsPage
    <3>3. QED
      BY <2>2, <3>2 DEF Mapping
  <2>3. QED
    BY <2>1, <2>2
<1>4. QED
  BY <1>2, <1>3

(* and one that can be written to is in one place of one map.              *)
LEMMA WritableIsOwn ==
  ASSUME IInv, NEW d \in Dir, NEW e \in Entry, page_dir[d] # NULL,
         content[page_dir[d]][e].page \in Frame, content[page_dir[d]][e].write
  PROVE  \A c \in Dir, g \in Entry :
           (c # d \/ g # e) => Mapping(c)[g] # content[page_dir[d]][e].page
<1> SUFFICES ASSUME NEW c \in Dir, NEW g \in Entry, c # d \/ g # e
             PROVE  Mapping(c)[g] # content[page_dir[d]][e].page
  OBVIOUS
<1>1. CASE page_dir[c] = NULL
  BY <1>1, PageAssumption DEF Mapping, Frame
<1>2. CASE page_dir[c] # NULL
  <2>1. page_dir[c] \in Tables /\ page_dir[d] \in Tables
    BY <1>2 DEF Tables
  <2>2. page_dir[c] # page_dir[d] \/ g # e
    BY <1>2 DEF IInv, TablesApart
  <2>3. content[page_dir[c]][g].page # content[page_dir[d]][e].page
    BY <2>1, <2>2 DEF IInv, SharedProtected
  <2>4. QED
    BY <1>2, <2>3 DEF Mapping
<1>3. QED
  BY <1>1, <1>2

LEMMA TasksAreApart ==
  ASSUME Bases, SegmentsInRange
  PROVE  \A i, j \in Index :
           ldt_base[i] # NULL /\ ldt_base[i] = ldt_base[j] => i = j
<1> SUFFICES ASSUME NEW i \in Index, NEW j \in Index, ldt_base[i] # NULL,
                    ldt_base[i] = ldt_base[j], i # j
             PROVE  FALSE
  OBVIOUS
<1>1. SegmentOf(i) = SegmentOf(j)
  BY DEF Bases
<1>2. QED
  BY <1>1, SegmentsDiffer DEF SegmentsInRange

(***************************************************************************)
(* What the operations map                                                 *)
(***************************************************************************)

(* put_page maps a frame of nobody's where there was nothing.              *)
LEMMA PutPageMaps ==
  ASSUME VInv, FramesLeft, NEW index \in Index, NEW entry \in Entry,
         put_page(index, entry), NEW d, d = ldt_base[index]
  PROVE  /\ d \in Dir /\ Clean' /\ TablesInUse'
         /\ Mapping(d)[entry] = NULL
         /\ \E page \in Frame :
              /\ memory_map[page] = 0
              /\ \A g \in Entry :
                   Mapping(d)'[g] = IF g = entry THEN page ELSE Mapping(d)[g]
<1>1. /\ MMTypeOK /\ d \in Dir /\ NULL \notin Frame
  BY PageAssumption DEF VInv, IInv, MMTypeOK, put_page, Alive, Frame
<1>2. PICK page, table :
        /\ page = FreeFrame(memory_map)
        /\ table = IF page_dir[d] # NULL THEN page_dir[d]
                   ELSE FreeFrame(Taken(memory_map, page))
  OBVIOUS
<1>3. memory_map \in [Frame -> Nat] /\ content \in [Frame -> [Entry -> Item]]
      /\ page_dir \in [Dir -> Frame \cup {NULL}]
  BY <1>1 DEF MMTypeOK
<1>4. page \in Frame /\ memory_map[page] = 0
  BY <1>2, <1>3, FreeFrameIsFree DEF FramesLeft
<1>5. /\ Taken(memory_map, page) = [memory_map EXCEPT ![page] = @ + 1]
      /\ Taken(memory_map, page) \in [Frame -> Nat]
  BY <1>1, <1>3, <1>4 DEF Taken
<1>6. CASE page_dir[d] # NULL
  <2>1. table = page_dir[d] /\ table \in Frame /\ table # page
    <3>1. table = page_dir[d] /\ table \in Frame
      BY <1>1, <1>2, <1>3, <1>6
    <3>2. table # page
      BY <1>1, <1>4, <3>1, FreeIsUnmapped DEF VInv
    <3>3. QED
      BY <3>1, <3>2
  <2>2. /\ memory_map' = Taken(memory_map, page)
        /\ page_dir' = [page_dir EXCEPT ![d] = table]
        /\ content' = [[f \in Frame |-> IF f = page
               THEN [e \in Entry |-> [page |-> Junk, write |-> TRUE]]
               ELSE content[f]] EXCEPT ![table][entry] =
               [page |-> page, write |-> TRUE]]
        /\ content[table][entry] = Absent /\ ldt_base' = ldt_base
    BY <1>1, <1>2, <1>4, <1>6, <2>1 DEF put_page
  <2>3. /\ page_dir' = page_dir
        /\ \A f \in Frame \ {page, table} : content'[f] = content[f]
        /\ \A g \in Entry : content'[table][g].page =
             IF g = entry THEN page ELSE content[table][g].page
    BY <1>1, <1>3, <2>1, <2>2
  <2>4. Mapping(d)[entry] = NULL
    BY <1>6, <2>1, <2>2 DEF Mapping, Absent
  <2>5. \A g \in Entry : Mapping(d)'[g] = IF g = entry THEN page ELSE Mapping(d)[g]
    BY <1>6, <2>1, <2>3 DEF Mapping
  <2>6. TablesInUse'
    BY <2>2, <2>3 DEF TablesInUse, VInv
  <2>7. memory_map[table] # 0
    BY <1>1, <1>6, <2>1, FreeIsUnmapped DEF VInv
  <2>8. Clean'
    <3> SUFFICES ASSUME NEW f \in Frame, memory_map'[f] = 0, NEW e \in Entry
                 PROVE  content'[f][e].page = NULL
      BY DEF Clean
    <3>1. f # page /\ memory_map[f] = 0
      BY <1>3, <1>4, <1>5, <2>2
    <3>2. f # table
      BY <2>7, <3>1
    <3>3. content[f][e].page = NULL
      BY <3>1 DEF VInv, Clean
    <3>4. QED
      BY <2>3, <3>1, <3>2, <3>3
  <2>9. QED
    BY <1>1, <1>4, <2>4, <2>5, <2>6, <2>8
<1>7. CASE page_dir[d] = NULL
  <2>1. table = FreeFrame(Taken(memory_map, page))
    BY <1>2, <1>7
  <2>2. table \in Frame /\ Taken(memory_map, page)[table] = 0
    <3>1. table # NULL
      BY <1>2, <2>1 DEF FramesLeft
    <3>2. QED
      BY <1>5, <2>1, <3>1, FreeFrameIsFree
  <2>3. table # page /\ memory_map[table] = 0
    BY <1>3, <1>4, <1>5, <2>2
  <2>4. /\ memory_map' = Taken(Taken(memory_map, page), table)
        /\ page_dir' = [page_dir EXCEPT ![d] = table]
        /\ content' = [[f \in Frame |-> IF f = page
               THEN [e \in Entry |-> [page |-> Junk, write |-> TRUE]]
               ELSE content[f]] EXCEPT ![table][entry] =
               [page |-> page, write |-> TRUE]]
        /\ ldt_base' = ldt_base
    BY <1>1, <1>2, <1>4, <1>7, <2>1, <2>2 DEF put_page
  <2>5. /\ \A f \in Frame \ {page, table} : content'[f] = content[f]
        /\ \A g \in Entry : content'[table][g].page =
             IF g = entry THEN page ELSE content[table][g].page
        /\ page_dir'[d] = table
    BY <1>1, <1>3, <2>2, <2>3, <2>4
  <2>6. Mapping(d) = [e \in Entry |-> NULL]
    BY <1>7 DEF Mapping
  <2>7. \A g \in Entry : content[table][g].page = NULL
    BY <2>2, <2>3 DEF VInv, Clean
  <2>8. Mapping(d)' = [e \in Entry |-> content'[table][e].page]
    BY <1>1, <2>2, <2>5 DEF Mapping
  <2>9. \A g \in Entry : Mapping(d)'[g] = IF g = entry THEN page ELSE Mapping(d)[g]
    BY <2>5, <2>6, <2>7, <2>8
  <2>10. TablesInUse'
    BY <1>3, <2>4 DEF TablesInUse, VInv
  <2>11. Clean'
    <3> SUFFICES ASSUME NEW f \in Frame, memory_map'[f] = 0, NEW e \in Entry
                 PROVE  content'[f][e].page = NULL
      BY DEF Clean
    <3>1. memory_map' = [Taken(memory_map, page) EXCEPT ![table] = @ + 1]
      BY <1>1, <2>2, <2>4 DEF Taken
    <3>2. f # page /\ f # table /\ memory_map[f] = 0
      BY <1>3, <1>4, <1>5, <2>2, <3>1
    <3>3. content[f][e].page = NULL
      BY <3>2 DEF VInv, Clean
    <3>4. QED
      BY <2>5, <3>2, <3>3
  <2>12. QED
    BY <1>1, <1>4, <2>6, <2>9, <2>10, <2>11
<1>8. QED
  BY <1>6, <1>7

(* un_wp_page gives a task back the page that it alone uses, or maps a copy*)
(* in a frame of nobody's.                                                 *)
LEMMA WriteFaultMaps ==
  ASSUME VInv, FramesLeft, NEW index \in Index, NEW entry \in Entry,
         WriteFault(index, entry), NEW d, d = ldt_base[index]
  PROVE  /\ d \in Dir /\ Clean' /\ TablesInUse'
         /\ Mapping(d)[entry] \in Frame \cup {Kernel}
         /\ \/ Mapping(d)' = Mapping(d) /\ data' = data
            \/ \E page \in Frame, v \in Value :
                 /\ memory_map[page] = 0
                 /\ Mapping(d)[entry] # Kernel => v = data[Mapping(d)[entry]]
                 /\ data' = [data EXCEPT ![page] = v]
                 /\ \A g \in Entry :
                      Mapping(d)'[g] = IF g = entry THEN page ELSE Mapping(d)[g]
<1>1. /\ MMTypeOK /\ d \in Dir /\ NULL \notin Frame /\ Kernel \notin Frame
      /\ page_dir[d] # NULL
  BY PageAssumption DEF VInv, IInv, MMTypeOK, WriteFault, un_wp_page, Alive, Frame
<1>2. PICK t, old, page : /\ t = page_dir[d] /\ old = content[t][entry].page
                          /\ page = FreeFrame(memory_map)
  OBVIOUS
<1>3. memory_map \in [Frame -> Nat] /\ content \in [Frame -> [Entry -> Item]]
      /\ page_dir \in [Dir -> Frame \cup {NULL}]
  BY <1>1 DEF MMTypeOK
<1>4. page \in Frame /\ memory_map[page] = 0
  BY <1>2, <1>3, FreeFrameIsFree DEF FramesLeft
<1>5. t \in Frame /\ t # page /\ memory_map[t] # 0
  BY <1>1, <1>2, <1>3, <1>4, FreeIsUnmapped DEF VInv
<1>6. /\ old = Mapping(d)[entry] /\ old \in Frame \cup {Kernel}
      /\ UNCHANGED <<page_dir, ldt_base>>
  BY <1>1, <1>2, OldIsMapped DEF VInv, WriteFault, Mapping
<1>7. TablesInUse'
  BY <1>6 DEF VInv, TablesInUse
<1>8. CASE old \in Frame /\ memory_map[old] = 1
  <2>1. /\ content' = [content EXCEPT ![t][entry].write = TRUE]
        /\ memory_map' = memory_map /\ data' = data
    BY <1>2, <1>8 DEF WriteFault, un_wp_page
  <2>2. \A f \in Frame, e \in Entry : content'[f][e].page = content[f][e].page
    BY <1>3, <1>5, <2>1 DEF Item
  <2>3. Mapping(d)' = Mapping(d)
    BY <1>1, <1>2, <1>5, <1>6, <2>2 DEF Mapping
  <2>4. Clean'
    BY <2>1, <2>2 DEF VInv, Clean
  <2>5. QED
    BY <1>1, <1>6, <1>7, <2>1, <2>3, <2>4
<1>9. CASE ~(old \in Frame /\ memory_map[old] = 1)
  <2>1. /\ memory_map' = NewPage(memory_map, old, page)
        /\ content' = [[f \in Frame |-> IF f = page
               THEN [e \in Entry |-> [page |-> Junk, write |-> TRUE]]
               ELSE content[f]] EXCEPT ![t][entry] = [page |-> page, write |-> TRUE]]
        /\ CopyPage(old, page)
    BY <1>1, <1>2, <1>4, <1>9 DEF WriteFault, un_wp_page
  <2>2. /\ \A f \in Frame \ {page, t} : content'[f] = content[f]
        /\ \A g \in Entry : content'[t][g].page =
             IF g = entry THEN page ELSE content[t][g].page
    BY <1>3, <1>5, <2>1
  <2>3. \A g \in Entry : Mapping(d)'[g] = IF g = entry THEN page ELSE Mapping(d)[g]
    BY <1>1, <1>2, <1>5, <1>6, <2>2 DEF Mapping
  <2>4. \E v \in Value : /\ old # Kernel => v = data[old]
                         /\ data' = [data EXCEPT ![page] = v]
    <3>1. PICK v \in IF old = Kernel THEN Value ELSE {data[old]} :
            data' = [data EXCEPT ![page] = v]
      BY <1>1, <1>4, <2>1 DEF CopyPage
    <3>2. v \in Value /\ (old # Kernel => v = data[old])
      BY <1>6, <3>1 DEF VInv
    <3>3. QED
      BY <3>1, <3>2
  <2>5. \A f \in Frame : memory_map'[f] = 0 => f # page /\ memory_map[f] = 0
    <3>1. Taken(memory_map, page) = [memory_map EXCEPT ![page] = @ + 1]
      BY <1>1, <1>4 DEF Taken
    <3>2. CASE old = Kernel
      BY <1>3, <1>4, <2>1, <3>1, <3>2 DEF NewPage
    <3>3. CASE old # Kernel
      <4>1. old \in Frame /\ memory_map[old] # 0
        BY <1>1, <1>6, <3>3, FreeIsUnmapped DEF VInv
      <4>2. memory_map[old] \in Nat /\ memory_map[old] >= 2 /\ old # page
        <5>1. memory_map[old] \in Nat /\ memory_map[old] # 1
          BY <1>3, <1>9, <4>1
        <5>2. \A n \in Nat : n # 0 /\ n # 1 => n >= 2
          OBVIOUS
        <5>3. QED
          BY <1>4, <4>1, <5>1, <5>2
      <4>3. memory_map' = [[memory_map EXCEPT ![page] = @ + 1] EXCEPT ![old] = @ - 1]
        BY <2>1, <3>1, <3>3 DEF NewPage
      <4>4. QED
        BY <1>3, <1>4, <4>1, <4>2, <4>3
    <3>4. QED
      BY <3>2, <3>3
  <2>6. Clean'
    <3> SUFFICES ASSUME NEW f \in Frame, memory_map'[f] = 0, NEW e \in Entry
                 PROVE  content'[f][e].page = NULL
      BY DEF Clean
    <3>1. f # page /\ memory_map[f] = 0 /\ f # t
      BY <1>5, <2>5
    <3>2. content[f][e].page = NULL
      BY <3>1 DEF VInv, Clean
    <3>3. QED
      BY <2>2, <3>1, <3>2
  <2>7. QED
    BY <1>1, <1>4, <1>6, <1>7, <2>3, <2>4, <2>6
<1>10. QED
  BY <1>8, <1>9

(* A fork maps for the child what the father has there.                    *)
LEMMA ForkMaps ==
  ASSUME VInv, FramesLeft, SegmentsInRange',
         NEW index \in Index, NEW current_index \in Index,
         ForkSegment(index, current_index),
         NEW s, s = ldt_base[current_index], NEW d, d = SegmentOf(index)
  PROVE  /\ s \in Dir /\ d \in Dir /\ s # d
         /\ \A i \in Index : ldt_base[i] # d
         /\ ldt_base[index] = NULL /\ ldt_base' = [ldt_base EXCEPT ![index] = d]
         /\ Clean' /\ Bases' /\ TablesInUse'
         /\ \A e \in Entry : Mapping(d)'[e] =
              IF s = 0 => e < COPY_PAGES THEN Mapping(s)[e] ELSE NULL
<1>1. /\ MMTypeOK /\ s \in Dir /\ d \in Dir /\ NULL \notin Frame /\ NULL \notin Dir
      /\ ldt_base[index] = NULL /\ ldt_base[current_index] # NULL
      /\ ldt_base' = [ldt_base EXCEPT ![index] = d]
  BY SegmentsAreDirs, PageAssumption
     DEF VInv, IInv, MMTypeOK, ForkSegment, Alive, set_LDT_desc, Frame, Dir
<1>2. memory_map \in [Frame -> Nat] /\ content \in [Frame -> [Entry -> Item]]
      /\ page_dir \in [Dir -> Frame \cup {NULL}]
      /\ ldt_base \in [Index -> Dir \cup {NULL}]
  BY <1>1 DEF MMTypeOK
<1>3. Bases'
  <2>1. index # 0
    BY <1>1, PageAssumption DEF VInv, Bases
  <2>2. \A i \in Index : ldt_base'[i] = IF i = index THEN d ELSE ldt_base[i]
    BY <1>1, <1>2
  <2>3. 0 \in Index
    BY MemoryAssumption DEF Index
  <2>4. QED
    BY <2>1, <2>2, <2>3 DEF VInv, Bases
<1>4. \A i \in Index : ldt_base[i] # d
  <2> SUFFICES ASSUME NEW i \in Index, ldt_base[i] = d PROVE FALSE
    OBVIOUS
  <2>1. i # index /\ SegmentOf(i) = SegmentOf(index)
    BY <1>1 DEF VInv, Bases
  <2>2. ldt_base'[i] # NULL /\ ldt_base'[index] # NULL
    BY <1>1, <1>2, <2>1
  <2>3. i * SEG_DIRS < PAGE_DIR_SIZE /\ index * SEG_DIRS < PAGE_DIR_SIZE
    BY <2>2 DEF SegmentsInRange
  <2>4. QED
    BY <2>1, <2>3, SegmentsDiffer
<1>5. s # d
  BY <1>4
<1>6. page_dir[d] = NULL
  BY <1>1, <1>4 DEF VInv, TablesInUse
<1>7. PICK from, to : from = page_dir[s] /\ to = FreeFrame(memory_map)
  OBVIOUS
<1>8. to \in Frame /\ memory_map[to] = 0
  BY <1>2, <1>7, FreeFrameIsFree DEF FramesLeft
<1>9. CASE from = NULL
  <2>1. UNCHANGED <<page_dir, content, memory_map>>
    BY <1>6, <1>7, <1>9 DEF ForkSegment, set_LDT_desc
  <2>2. Clean'
    BY <2>1 DEF VInv, Clean
  <2>3. TablesInUse'
    <3> SUFFICES ASSUME NEW c \in Dir, page_dir'[c] # NULL
                 PROVE  \E i \in Index : ldt_base'[i] = c
      BY DEF TablesInUse
    <3>1. PICK i \in Index : ldt_base[i] = c
      BY <2>1 DEF VInv, TablesInUse
    <3>2. i # index
      BY <1>1, <3>1
    <3>3. ldt_base'[i] = c
      BY <1>1, <1>2, <3>1, <3>2
    <3>4. QED
      BY <3>3
  <2>4. Mapping(d)' = [e \in Entry |-> NULL] /\ Mapping(s) = [e \in Entry |-> NULL]
    BY <1>6, <1>7, <1>9, <2>1 DEF Mapping
  <2>5. QED
    BY <1>1, <1>3, <1>4, <1>5, <2>2, <2>3, <2>4
<1>10. CASE from # NULL
  <2>1. CopyTable(from, to, s, d)
    BY <1>1, <1>6, <1>7, <1>8, <1>10 DEF ForkSegment, set_LDT_desc
  <2>2. PICK copied, shared :
          /\ copied = Copied(from, s)
          /\ shared = {e \in copied : content[from][e].page # Kernel}
    OBVIOUS
  <2>3. from \in Frame /\ from # to /\ memory_map[from] # 0
    <3>1. from \in Frame
      BY <1>1, <1>2, <1>7, <1>10
    <3>2. from # to /\ memory_map[from] # 0
      BY <1>1, <1>7, <1>8, <3>1, FreeIsUnmapped DEF VInv
    <3>3. QED
      BY <3>1, <3>2
  <2>4. /\ page_dir' = [page_dir EXCEPT ![d] = to]
        /\ content' = [content EXCEPT
             ![to]   = [e \in Entry |-> IF e \in copied THEN ReadOnly(content[from][e])
                                                       ELSE content[to][e]],
             ![from] = [e \in Entry |-> IF e \in shared THEN ReadOnly(content[from][e])
                                                       ELSE content[from][e]]]
        /\ memory_map' = [f \in Frame |->
             Taken(memory_map, to)[f] + NewUses(f, from, s)]
    BY <2>1, <2>2, <2>3 DEF CopyTable
  <2>5. /\ \A f \in Frame \ {from, to} : content'[f] = content[f]
        /\ \A e \in Entry : content'[to][e].page =
             IF e \in copied THEN content[from][e].page ELSE content[to][e].page
    BY <1>2, <1>8, <2>3, <2>4 DEF ReadOnly
  <2>6. \A e \in Entry : content[to][e].page = NULL
    BY <1>8 DEF VInv, Clean
  <2>7. /\ Mapping(d)' = [e \in Entry |-> content'[to][e].page]
        /\ Mapping(s) = [e \in Entry |-> content[from][e].page]
    BY <1>1, <1>2, <1>7, <1>8, <1>10, <2>4 DEF Mapping
  <2>8. \A e \in Entry : Mapping(d)'[e] =
          IF s = 0 => e < COPY_PAGES THEN Mapping(s)[e] ELSE NULL
    BY <2>2, <2>5, <2>6, <2>7 DEF Copied
  <2>9. TablesInUse'
    <3> SUFFICES ASSUME NEW c \in Dir, page_dir'[c] # NULL
                 PROVE  \E i \in Index : ldt_base'[i] = c
      BY DEF TablesInUse
    <3>1. CASE c = d
      BY <1>1, <1>2, <3>1
    <3>2. CASE c # d
      <4>1. page_dir[c] # NULL
        BY <1>2, <2>4, <3>2
      <4>2. PICK i \in Index : ldt_base[i] = c
        BY <4>1 DEF VInv, TablesInUse
      <4>3. ldt_base'[i] = c
        BY <1>1, <1>2, <4>2
      <4>4. QED
        BY <4>3
    <3>3. QED
      BY <3>1, <3>2
  <2>10. \A f \in Frame : memory_map'[f] = 0 => f # to /\ memory_map[f] = 0
    <3> SUFFICES ASSUME NEW f \in Frame, memory_map'[f] = 0
                 PROVE  f # to /\ memory_map[f] = 0
      OBVIOUS
    <3>1. Taken(memory_map, to) = [memory_map EXCEPT ![to] = @ + 1]
      BY <1>1, <1>8 DEF Taken
    <3>2. NewUses(f, from, s) \in Nat
      <4>1. IsFiniteSet(Entry)
        BY <1>1, Finite
      <4>2. {e \in Copied(from, s) : content[from][e].page = f} \subseteq Entry
        BY DEF Copied
      <4>3. QED
        BY <4>1, <4>2, FS_Subset, FS_CardinalityType DEF NewUses
    <3>3. Taken(memory_map, to)[f] = 0
      <4>1. Taken(memory_map, to)[f] \in Nat
        BY <1>2, <1>8, <3>1
      <4>2. Taken(memory_map, to)[f] + NewUses(f, from, s) = 0
        BY <2>4
      <4>3. \A a, b \in Nat : a + b = 0 => a = 0
        OBVIOUS
      <4>4. QED
        BY <3>2, <4>1, <4>2, <4>3
    <3>4. QED
      BY <1>2, <1>8, <3>1, <3>3
  <2>11. Clean'
    <3> SUFFICES ASSUME NEW f \in Frame, memory_map'[f] = 0, NEW e \in Entry
                 PROVE  content'[f][e].page = NULL
      BY DEF Clean
    <3>1. f # to /\ memory_map[f] = 0 /\ f # from
      BY <2>3, <2>10
    <3>2. content[f][e].page = NULL
      BY <3>1 DEF VInv, Clean
    <3>3. QED
      BY <2>5, <3>1, <3>2
  <2>12. QED
    BY <1>1, <1>3, <1>4, <1>5, <2>8, <2>9, <2>11
<1>11. QED
  BY <1>9, <1>10

(***************************************************************************)
(* What the tasks see of it                                                *)
(***************************************************************************)

View == [i \in Index |-> Sees(i)]

(* Steps that keep maps and contents cannot be seen.                       *)
LEMMA ViewKept ==
  ASSUME MMTypeOK, MMTypeOK', UNCHANGED <<ldt_base, data>>,
         \A c \in Dir : Mapping(c)' = Mapping(c)
  PROVE  View' = View
<1>1. \A c \in Dir, e \in Entry : Seen(c, e)' = Seen(c, e)
  BY DEF Seen
<1>2. ASSUME NEW i \in Index PROVE Sees(i)' = Sees(i)
  BY <1>1, SeesIs, SeesIsNext
<1>3. QED
  BY <1>2 DEF View

(* If the frame that is written to is mapped, afterwards, in one place, and*)
(* was mapped nowhere else, one task sees it, in one page.                 *)
CellWritten(index, entry, d, page, v) ==
  /\ d = ldt_base[index] /\ UNCHANGED ldt_base
  /\ data' = [data EXCEPT ![page] = v]
  /\ Mapping(d)'[entry] = page
  /\ \A c \in Dir, g \in Entry : (c # d \/ g # entry) =>
       /\ Mapping(c)[g] # page
       /\ Mapping(c)'[g] = Mapping(c)[g]

LEMMA OneCell ==
  ASSUME VInv, VInv', SegmentsInRange,
         NEW index \in Index, NEW entry \in Entry, NEW d \in Dir,
         NEW page \in Frame, NEW v \in Value,
         CellWritten(index, entry, d, page, v)
  PROVE  View' = [View EXCEPT ![index][entry] = v]
<1> USE DEF CellWritten
<1>1. MMTypeOK /\ data \in [Frame -> Value] /\ MMTypeOK'
  BY DEF VInv, IInv
<1>2. d # NULL /\ NULL \notin Dir
  BY PageAssumption DEF Dir
<1>3. Seen(d, entry)' = v
  BY <1>1 DEF Seen
<1>4. \A c \in Dir, g \in Entry : (c # d \/ g # entry) => Seen(c, g)' = Seen(c, g)
  <2> SUFFICES ASSUME NEW c \in Dir, NEW g \in Entry, c # d \/ g # entry
               PROVE  Seen(c, g)' = Seen(c, g)
    OBVIOUS
  <2>1. Mapping(c)[g] # page /\ Mapping(c)'[g] = Mapping(c)[g]
    OBVIOUS
  <2>2. Mapping(c)[g] \in Frame => data'[Mapping(c)[g]] = data[Mapping(c)[g]]
    BY <1>1, <2>1
  <2>3. QED
    BY <2>1, <2>2 DEF Seen
<1>5. ASSUME NEW i \in Index, i # index PROVE Sees(i)' = Sees(i)
  <2>1. CASE ldt_base[i] = NULL
    BY <1>1, <2>1, SeesIs, SeesIsNext
  <2>2. CASE ldt_base[i] # NULL
    <3>1. ldt_base[i] # d /\ ldt_base[i] \in Dir
      BY <1>1, <1>5, <2>2, SeesIs, TasksAreApart DEF VInv
    <3>2. PICK c \in Dir : c = ldt_base[i] /\ c # d /\ c # NULL
      BY <2>2, <3>1
    <3>3. \A g \in Entry : Seen(c, g)' = Seen(c, g)
      BY <1>4, <3>2
    <3>4. Sees(i) = [g \in Entry |-> Seen(c, g)]
      BY <1>1, <3>2, SeesIs
    <3>5. Sees(i)' = [g \in Entry |-> Seen(c, g)']
      BY <1>1, <3>2, SeesIsNext
    <3>6. QED
      BY <3>3, <3>4, <3>5
  <2>3. QED
    BY <2>1, <2>2
<1>6. Sees(index)' = [Sees(index) EXCEPT ![entry] = v]
  <2>1. Sees(index) = [g \in Entry |-> Seen(d, g)]
    BY <1>1, <1>2, SeesIs
  <2>2. Sees(index)' = [g \in Entry |-> Seen(d, g)']
    BY <1>1, <1>2, SeesIsNext
  <2>3. QED
    BY <1>3, <1>4, <2>1, <2>2
<1>7. View' = [i \in Index |-> IF i = index THEN [Sees(index) EXCEPT ![entry] = v]
                                            ELSE Sees(i)]
  BY <1>5, <1>6 DEF View
<1>8. QED
  BY <1>7 DEF View

LEMMA PutPageIsNewPage ==
  ASSUME VInv, VInv', SegmentsInRange, FramesLeft,
         NEW index \in Index, NEW entry \in Entry, do_no_page(index, entry)
  PROVE  Space!NewPageOf(index, entry)
<1>1. PICK d : d = ldt_base[index]
  OBVIOUS
<1>2. put_page(index, entry) /\ data' = data
  BY DEF do_no_page
<1>3. d # NULL /\ UNCHANGED ldt_base
  BY <1>1, <1>2 DEF put_page, Alive
<1>4. d \in Dir /\ Mapping(d)[entry] = NULL
  BY <1>1, <1>2, PutPageMaps
<1>5. PICK page \in Frame :
        /\ memory_map[page] = 0
        /\ \A g \in Entry : Mapping(d)'[g] = IF g = entry THEN page ELSE Mapping(d)[g]
  BY <1>1, <1>2, PutPageMaps
<1>6. PICK v \in Value : v = data[page]
  BY DEF VInv
<1>7. data' = [data EXCEPT ![page] = v]
  BY <1>2, <1>6 DEF VInv
<1>8. \A c \in Dir, g \in Entry : (c # d \/ g # entry) =>
        /\ Mapping(c)[g] # page
        /\ Mapping(c)'[g] = Mapping(c)[g]
  <2>1. OnlyChanges(d)
    BY <1>1, <1>2, PutPage DEF VInv
  <2>2. \A c \in Dir, g \in Entry : Mapping(c)[g] # page
    BY <1>5, FreeIsUnmapped DEF VInv
  <2>3. QED
    BY <1>5, <2>1, <2>2 DEF OnlyChanges
<1>9. View' = [View EXCEPT ![index][entry] = v]
  <2>1. CellWritten(index, entry, d, page, v)
    BY <1>1, <1>3, <1>5, <1>7, <1>8 DEF CellWritten
  <2>2. QED
    BY <1>4, <2>1, OneCell
<1>10. Sees(index)[entry] = NULL
  <2>1. Seen(d, entry) = NULL
    BY <1>4, PageAssumption DEF Seen, Frame
  <2>2. QED
    BY <1>1, <1>3, <2>1, SeesIs DEF VInv, IInv
<1>11. QED
  BY <1>1, <1>3, <1>9, <1>10 DEF Space!NewPageOf, View

LEMMA WriteFaultIsUnseen ==
  ASSUME VInv, VInv', SegmentsInRange, FramesLeft,
         NEW index \in Index, NEW entry \in Entry, WriteFault(index, entry)
  PROVE  \/ Space!NewPageOf(index, entry)
         \/ View' = View /\ ldt_base' = ldt_base
<1>1. PICK d : d = ldt_base[index]
  OBVIOUS
<1>2. un_wp_page(index, entry)
  BY DEF WriteFault
<1>3. d # NULL /\ UNCHANGED ldt_base
  BY <1>1, <1>2 DEF un_wp_page, Alive
<1>4. d \in Dir /\ Mapping(d)[entry] \in Frame \cup {Kernel}
  BY <1>1, WriteFaultMaps
<1>5. OnlyChanges(d)
  BY <1>1, <1>2, UnWpPage DEF VInv
<1>6. Sees(index) = [g \in Entry |-> Seen(d, g)]
  BY <1>1, <1>3, SeesIs DEF VInv, IInv
<1>7. CASE Mapping(d)' = Mapping(d) /\ data' = data
  <2>1. \A c \in Dir : Mapping(c)' = Mapping(c)
    BY <1>5, <1>7 DEF OnlyChanges
  <2>2. QED
    BY <1>3, <1>7, <2>1, ViewKept DEF VInv, IInv
<1>8. CASE ~(Mapping(d)' = Mapping(d) /\ data' = data)
  <2>1. PICK page \in Frame, v \in Value :
          /\ memory_map[page] = 0
          /\ Mapping(d)[entry] # Kernel => v = data[Mapping(d)[entry]]
          /\ data' = [data EXCEPT ![page] = v]
          /\ \A g \in Entry :
               Mapping(d)'[g] = IF g = entry THEN page ELSE Mapping(d)[g]
    BY <1>1, <1>8, WriteFaultMaps
  <2>2. \A c \in Dir, g \in Entry : (c # d \/ g # entry) =>
          /\ Mapping(c)[g] # page
          /\ Mapping(c)'[g] = Mapping(c)[g]
    <3>1. \A c \in Dir, g \in Entry : Mapping(c)[g] # page
      BY <2>1, FreeIsUnmapped DEF VInv
    <3>2. QED
      BY <1>5, <2>1, <3>1 DEF OnlyChanges
  <2>3. View' = [View EXCEPT ![index][entry] = v]
    <3>1. CellWritten(index, entry, d, page, v)
      BY <1>1, <1>3, <2>1, <2>2 DEF CellWritten
    <3>2. QED
      BY <1>4, <3>1, OneCell
  <2>4. CASE Mapping(d)[entry] = Kernel
    <3>1. Sees(index)[entry] = Kernel
      BY <1>6, <2>4, PageAssumption DEF Seen, Frame
    <3>2. QED
      BY <1>1, <1>3, <2>3, <3>1 DEF Space!NewPageOf, View
  <2>5. CASE Mapping(d)[entry] # Kernel
    <3>1. Sees(index)[entry] = v
      BY <1>4, <1>6, <2>1, <2>5 DEF Seen
    <3>2. View[index] = Sees(index)
      BY DEF View
    <3>3. [View[index] EXCEPT ![entry] = v] = View[index]
      BY <1>6, <3>1, <3>2
    <3>4. View' = View
      BY <2>3, <3>3 DEF View
    <3>5. QED
      BY <1>3, <3>4
  <2>6. QED
    BY <2>4, <2>5
<1>9. QED
  BY <1>7, <1>8

LEMMA WriteIsWrite ==
  ASSUME VInv, VInv', SegmentsInRange,
         NEW index \in Index, NEW entry \in Entry, NEW v \in Value,
         Write(index, entry, v)
  PROVE  Space!WritePage(index, entry, v)
<1>1. PICK d, page : d = ldt_base[index] /\ page = content[page_dir[d]][entry].page
  OBVIOUS
<1>2. /\ d # NULL /\ UNCHANGED mmVars
      /\ page_dir[d] # NULL /\ page \in Frame /\ content[page_dir[d]][entry].write
      /\ data' = [data EXCEPT ![page] = v]
  BY <1>1 DEF Write, Alive
<1>3. d \in Dir
  BY <1>1, <1>2, SeesIs DEF VInv, IInv
<1>4. UNCHANGED <<page_dir, content, ldt_base>>
  BY <1>2 DEF mmVars
<1>5. \A c \in Dir : Mapping(c)' = Mapping(c)
  BY <1>4 DEF Mapping
<1>6. Mapping(d)[entry] = page
  BY <1>1, <1>2 DEF Mapping
<1>7. Mapping(d)'[entry] = page
  BY <1>3, <1>5, <1>6
<1>8. \A c \in Dir, g \in Entry : (c # d \/ g # entry) =>
        /\ Mapping(c)[g] # page
        /\ Mapping(c)'[g] = Mapping(c)[g]
  BY <1>1, <1>2, <1>3, <1>5, WritableIsOwn DEF VInv
<1>9. View' = [View EXCEPT ![index][entry] = v]
  <2>1. CellWritten(index, entry, d, page, v)
    BY <1>1, <1>2, <1>4, <1>7, <1>8 DEF CellWritten
  <2>2. QED
    BY <1>2, <1>3, <2>1, OneCell
<1>10. Sees(index)[entry] \in Value
  <2>1. Seen(d, entry) \in Value
    BY <1>2, <1>6 DEF Seen, VInv
  <2>2. QED
    BY <1>1, <1>2, <2>1, SeesIs DEF VInv, IInv
<1>11. QED
  BY <1>1, <1>2, <1>4, <1>9, <1>10 DEF Space!WritePage, View

LEMMA ForkIsFork ==
  ASSUME VInv, VInv', SegmentsInRange', FramesLeft,
         NEW index \in Index, NEW current_index \in Index,
         ForkSegment(index, current_index), data' = data
  PROVE  Space!ForkSpace(index, current_index)
<1>1. PICK s, d : s = ldt_base[current_index] /\ d = SegmentOf(index)
  OBVIOUS
<1>2. /\ s \in Dir /\ d \in Dir /\ s # d
      /\ \A i \in Index : ldt_base[i] # d
      /\ ldt_base[index] = NULL /\ ldt_base' = [ldt_base EXCEPT ![index] = d]
      /\ \A e \in Entry : Mapping(d)'[e] =
           IF s = 0 => e < COPY_PAGES THEN Mapping(s)[e] ELSE NULL
  BY <1>1, ForkMaps
<1>3. /\ MMTypeOK /\ MMTypeOK' /\ s # NULL /\ d # NULL
      /\ NULL \notin Dir /\ NULL \notin Frame
  BY <1>2, PageAssumption DEF VInv, IInv, Dir, Frame
<1>4. \A i \in Index : ldt_base'[i] = IF i = index THEN d ELSE ldt_base[i]
  BY <1>2, <1>3 DEF MMTypeOK
<1>5. \A c \in Dir \ {d} : Mapping(c)' = Mapping(c)
  BY <1>1, Fork DEF VInv, OnlyChanges
<1>6. \A c \in Dir \ {d}, e \in Entry : Seen(c, e)' = Seen(c, e)
  BY <1>5 DEF Seen
<1>7. ASSUME NEW i \in Index, i # index PROVE Sees(i)' = Sees(i)
  <2>1. ldt_base'[i] = ldt_base[i]
    BY <1>4, <1>7
  <2>2. CASE ldt_base[i] = NULL
    BY <1>3, <2>1, <2>2, SeesIs, SeesIsNext
  <2>3. CASE ldt_base[i] # NULL
    <3>1. PICK c \in Dir : c = ldt_base[i] /\ c # d /\ c # NULL
      BY <1>2, <1>3, <2>3, SeesIs
    <3>2. Sees(i) = [e \in Entry |-> Seen(c, e)]
      BY <1>3, <3>1, SeesIs
    <3>3. Sees(i)' = [e \in Entry |-> Seen(c, e)']
      BY <1>3, <2>1, <3>1, SeesIsNext
    <3>4. QED
      BY <1>6, <3>1, <3>2, <3>3
  <2>4. QED
    BY <2>2, <2>3
<1>8. Sees(current_index) = [e \in Entry |-> Seen(s, e)]
  BY <1>1, <1>3, SeesIs
<1>9. Sees(index)' = [e \in Entry |-> Seen(d, e)']
  BY <1>3, <1>4, SeesIsNext
<1>10. \A e \in Entry : Seen(d, e)' = IF s = 0 => e < COPY_PAGES THEN Seen(s, e) ELSE NULL
  BY <1>2, <1>3 DEF Seen
<1> DEFINE Inh == [i \in Index |-> IF i = 0 THEN 0 .. COPY_PAGES - 1 ELSE Entry]
<1>11. \A e \in Entry : e \in Inh[current_index] <=> (s = 0 => e < COPY_PAGES)
  <2>1. 0 \in Index /\ SegmentOf(0) = 0 /\ 0 * SEG_DIRS < PAGE_DIR_SIZE
    BY MemoryAssumption DEF Index, SegmentOf
  <2>2. s = 0 <=> current_index = 0
    <3>1. ASSUME current_index # 0 PROVE s # 0
      <4>1. s = SegmentOf(current_index) /\ ldt_base'[current_index] # NULL
        BY <1>1, <1>2, <1>3, <1>4 DEF VInv, Bases
      <4>2. current_index * SEG_DIRS < PAGE_DIR_SIZE
        BY <4>1 DEF SegmentsInRange
      <4>3. QED
        BY <2>1, <3>1, <4>1, <4>2, SegmentsDiffer
    <3>2. QED
      BY <1>1, <3>1 DEF VInv, Bases
  <2>3. \A e \in Entry : e \in 0 .. COPY_PAGES - 1 <=> e < COPY_PAGES
    BY MemoryAssumption DEF Entry
  <2>4. QED
    BY <2>2, <2>3
<1>12. Sees(index)' = [e \in Entry |-> IF e \in Inh[current_index]
                                         THEN View[current_index][e] ELSE NULL]
  BY <1>8, <1>9, <1>10, <1>11 DEF View
<1> HIDE DEF Inh
<1>13. View' = [View EXCEPT ![index] =
                  [e \in Entry |-> IF e \in Inh[current_index]
                                     THEN View[current_index][e] ELSE NULL]]
  BY <1>7, <1>12 DEF View
<1>14. {i \in Index : ldt_base[i] # NULL}' = {i \in Index : ldt_base[i] # NULL} \cup {index}
  BY <1>3, <1>4
<1>15. index \notin {i \in Index : ldt_base[i] # NULL}
       /\ current_index \in {i \in Index : ldt_base[i] # NULL}
  BY <1>1, <1>2, <1>3
<1>16. QED
  BY <1>13, <1>14, <1>15 DEF Space!ForkSpace, View, Inh

(***************************************************************************)
(* The steps                                                               *)
(***************************************************************************)

Guarded == SegmentsInRange /\ FramesLeft

LEMMA VInvInit == VMInit => VInv
<1> SUFFICES ASSUME VMInit PROVE VInv
  OBVIOUS
<1>1. MMInit /\ data = [f \in Frame |-> Zero]
  BY DEF VMInit
<1>2. 0 \in Index /\ 0 \in Dir /\ 0 \in Frame /\ SegmentOf(0) = 0
  BY MemoryAssumption DEF Index, Dir, Frame, SegmentOf
<1>3. IInv
  BY <1>1, InitHolds
<1>4. data \in [Frame -> Value]
  BY <1>1, ValueAssumption
<1>5. Clean
  BY <1>1 DEF MMInit, Clean, Absent
<1>6. Bases
  BY <1>1, <1>2 DEF MMInit, Bases
<1>7. TablesInUse
  BY <1>1, <1>2 DEF MMInit, TablesInUse
<1>8. QED
  BY <1>3, <1>4, <1>5, <1>6, <1>7 DEF VInv

LEMMA VInvStep == VInv /\ Guarded /\ Guarded' /\ [VMNext]_vmVars => VInv'
<1> SUFFICES ASSUME VInv, FramesLeft, SegmentsInRange', [VMNext]_vmVars PROVE VInv'
  BY DEF Guarded
<1>1. ASSUME NEW index \in Index, NEW current_index \in Index,
             ForkSegment(index, current_index), data' = data
      PROVE  VInv'
  <2>1. Clean' /\ Bases' /\ TablesInUse'
    BY <1>1, ForkMaps
  <2>2. QED
    BY <1>1, <2>1, Fork DEF VInv
<1>2. ASSUME NEW index \in Index, NEW entry \in Entry, do_no_page(index, entry)
      PROVE  VInv'
  <2>1. put_page(index, entry) /\ data' = data
    BY <1>2 DEF do_no_page
  <2>2. Clean' /\ TablesInUse'
    BY <2>1, PutPageMaps
  <2>3. Bases'
    BY <2>1 DEF put_page, VInv, Bases
  <2>4. QED
    BY <2>1, <2>2, <2>3, PutPage DEF VInv
<1>3. ASSUME NEW index \in Index, NEW entry \in Entry, WriteFault(index, entry)
      PROVE  VInv'
  <2>1. un_wp_page(index, entry)
    BY <1>3 DEF WriteFault
  <2>2. Clean' /\ TablesInUse'
    BY <1>3, WriteFaultMaps
  <2>3. Bases'
    BY <2>1 DEF un_wp_page, VInv, Bases
  <2>4. data' \in [Frame -> Value]
    BY <1>3, WriteFaultMaps DEF VInv
  <2>5. QED
    BY <2>1, <2>2, <2>3, <2>4, UnWpPage DEF VInv
<1>4. ASSUME UNCHANGED mmVars, data' \in [Frame -> Value] PROVE VInv'
  <2>1. IInv'
    BY <1>4, StepKeepsInv DEF VInv
  <2>2. UNCHANGED <<page_dir, content, memory_map, ldt_base>>
    BY <1>4 DEF mmVars
  <2>3. QED
    BY <1>4, <2>1, <2>2 DEF VInv, Clean, Bases, TablesInUse
<1>5. ASSUME NEW index \in Index, NEW entry \in Entry, NEW v \in Value,
             Write(index, entry, v)
      PROVE  VInv'
  <2>1. data' \in [Frame -> Value] /\ UNCHANGED mmVars
    BY <1>5 DEF Write, VInv
  <2>2. QED
    BY <1>4, <2>1
<1>6. CASE UNCHANGED vmVars
  BY <1>4, <1>6 DEF vmVars, VInv
<1>7. QED
  BY <1>1, <1>2, <1>3, <1>5, <1>6 DEF VMNext

LEMMA InitIsInit == VMInit => Space!SpaceInit
<1> SUFFICES ASSUME VMInit PROVE Space!SpaceInit
  OBVIOUS
<1>1. MMInit /\ MMTypeOK
  BY VInvInit DEF VMInit, VInv, IInv
<1>2. 0 \in Index /\ 0 \in Dir /\ 0 \in Frame
  BY MemoryAssumption DEF Index, Dir, Frame
<1>3. 0 # NULL /\ NULL \notin Frame /\ Kernel \notin Frame
  BY PageAssumption DEF Frame
<1>4. {i \in Index : ldt_base[i] # NULL} = {0}
  BY <1>1, <1>2, <1>3 DEF MMInit
<1>5. \A e \in Entry : e \in 0 .. KERNEL_PAGES - 1 <=> e < KERNEL_PAGES
  BY MemoryAssumption DEF Entry
<1>6. \A e \in Entry : Mapping(0)[e] = IF e < KERNEL_PAGES THEN Kernel ELSE NULL
  BY <1>1, <1>2, <1>3 DEF MMInit, Mapping, Absent
<1>7. \A e \in Entry : Seen(0, e) = IF e < KERNEL_PAGES THEN Kernel ELSE NULL
  BY <1>3, <1>6 DEF Seen
<1>8. ASSUME NEW i \in Index
      PROVE  Sees(i) = [e \in Entry |->
               IF i = 0 /\ e \in 0 .. KERNEL_PAGES - 1 THEN Kernel ELSE NULL]
  <2>1. ldt_base[i] = IF i = 0 THEN 0 ELSE NULL
    BY <1>1 DEF MMInit
  <2>2. QED
    BY <1>1, <1>3, <1>5, <1>7, <2>1, SeesIs
<1>9. QED
  BY <1>4, <1>8 DEF Space!SpaceInit

(* What a step looks like from inside the tasks.                           *)
LEMMA StepIsSeen ==
  ASSUME VInv, VInv', Guarded, Guarded', [VMNext]_vmVars
  PROVE  \/ \E index, current_index \in Index : Space!ForkSpace(index, current_index)
         \/ \E index \in Index, entry \in Entry : Space!NewPageOf(index, entry)
         \/ /\ UNCHANGED mmVars
            /\ \E index \in Index, entry \in Entry, v \in Value :
                 Space!WritePage(index, entry, v)
         \/ View' = View /\ ldt_base' = ldt_base
<1>1. SegmentsInRange /\ SegmentsInRange' /\ FramesLeft
  BY DEF Guarded
<1>2. ASSUME NEW index \in Index, NEW current_index \in Index,
             ForkSegment(index, current_index), data' = data
      PROVE  Space!ForkSpace(index, current_index)
  BY <1>1, <1>2, ForkIsFork
<1>3. ASSUME NEW index \in Index, NEW entry \in Entry, do_no_page(index, entry)
      PROVE  Space!NewPageOf(index, entry)
  BY <1>1, <1>3, PutPageIsNewPage
<1>4. ASSUME NEW index \in Index, NEW entry \in Entry, WriteFault(index, entry)
      PROVE  \/ Space!NewPageOf(index, entry)
             \/ View' = View /\ ldt_base' = ldt_base
  BY <1>1, <1>4, WriteFaultIsUnseen
<1>5. ASSUME NEW index \in Index, NEW entry \in Entry, NEW v \in Value,
             Write(index, entry, v)
      PROVE  Space!WritePage(index, entry, v) /\ UNCHANGED mmVars
  BY <1>1, <1>5, WriteIsWrite DEF Write
<1>6. CASE UNCHANGED vmVars
  <2>1. UNCHANGED <<page_dir, content, ldt_base, data>>
    BY <1>6 DEF vmVars, mmVars
  <2>2. \A c \in Dir : Mapping(c)' = Mapping(c)
    BY <2>1 DEF Mapping
  <2>3. MMTypeOK /\ MMTypeOK'
    BY DEF VInv, IInv
  <2>4. QED
    BY <2>1, <2>2, <2>3, ViewKept
<1>7. CASE VMNext
  BY <1>2, <1>3, <1>4, <1>5, <1>7 DEF VMNext
<1>8. QED
  BY <1>6, <1>7

LEMMA VInvAlways == VMSpec /\ []Guarded => []VInv
<1>1. QED
  BY VInvInit, VInvStep, PTL DEF VMSpec

(***************************************************************************)
(* Theorems                                                                *)
(***************************************************************************)

(* As long as frames are left for what is asked for, and only slots whose  *)
(* segment lies in the directory are used, tasks cannot tell copy on write *)
(* from the copying of every page in every fork.                           *)
THEOREM CopyOnWriteIsCopying ==
  VMSpec /\ [](SegmentsInRange /\ FramesLeft) => ImplementsAddressSpace
<1>1. VInv /\ VInv' /\ Guarded /\ Guarded' /\ [VMNext]_vmVars
        => [Space!SpaceNext]_Space!asVars
  <2> SUFFICES ASSUME VInv, VInv', Guarded, Guarded', [VMNext]_vmVars
               PROVE  [Space!SpaceNext]_Space!asVars
    OBVIOUS
  <2>1. CASE View' = View /\ ldt_base' = ldt_base
    BY <2>1 DEF Space!asVars, View
  <2>2. QED
    BY <2>1, StepIsSeen DEF Space!SpaceNext
<1>2. (SegmentsInRange /\ FramesLeft) <=> Guarded
  BY DEF Guarded
<1>3. QED
  BY <1>1, <1>2, InitIsInit, VInvAlways, PTL
     DEF VMSpec, ImplementsAddressSpace, Space!SpaceSpec

(* Under the same conditions forks, page faults and the copies that the    *)
(* manager makes change nothing in what any task has in its pages.         *)
THEOREM OnlyWritesWrite ==
  VMSpec /\ [](SegmentsInRange /\ FramesLeft) => ManagerKeepsContents
<1>1. VInv /\ VInv' /\ Guarded /\ Guarded' /\ [VMNext]_vmVars
        => [mmVars' # mmVars =>
              \A i \in Index, e \in Entry :
                Sees(i)[e] \in Value => Sees(i)'[e] = Sees(i)[e]]_vmVars
  <2> SUFFICES ASSUME VInv, VInv', Guarded, Guarded', [VMNext]_vmVars,
                      mmVars' # mmVars, NEW i \in Index, NEW e \in Entry,
                      Sees(i)[e] \in Value
               PROVE  Sees(i)'[e] = Sees(i)[e]
    OBVIOUS
  <2>1. View[i] = Sees(i) /\ View'[i] = Sees(i)'
    BY DEF View
  <2>2. MMTypeOK /\ View[i][e] # NULL /\ View[i][e] # Kernel
    BY <2>1, ValueAssumption DEF VInv, IInv
  <2>3. CASE View' = View
    BY <2>1, <2>3
  <2>4. ASSUME NEW index \in Index, NEW current_index \in Index,
               Space!ForkSpace(index, current_index)
        PROVE  Sees(i)'[e] = Sees(i)[e]
    <3>1. i # index
      <4>1. ASSUME i = index PROVE FALSE
        <5>1. ldt_base[i] = NULL
          BY <2>4, <4>1 DEF Space!ForkSpace
        <5>2. QED
          BY <2>1, <2>2, <5>1, SeesIs
      <4>2. QED
        BY <4>1
    <3>2. \E x : View' = [View EXCEPT ![index] = x]
      BY <2>4 DEF Space!ForkSpace, View
    <3>3. View'[i] = View[i]
      BY <3>1, <3>2 DEF View
    <3>4. QED
      BY <2>1, <3>3
  <2>5. ASSUME NEW index \in Index, NEW entry \in Entry,
               Space!NewPageOf(index, entry)
        PROVE  Sees(i)'[e] = Sees(i)[e]
    <3>1. View[index][entry] \in {NULL, Kernel}
          /\ \E v \in Value : View' = [View EXCEPT ![index][entry] = v]
      BY <2>5 DEF Space!NewPageOf, View
    <3>2. i # index \/ e # entry
      BY <2>2, <3>1
    <3>3. PICK v \in Value : View' = [View EXCEPT ![index][entry] = v]
      BY <3>1
    <3>4. PICK w : w = View
      OBVIOUS
    <3>5. w = [j \in Index |-> w[j]] /\ w[i] = [g \in Entry |-> w[i][g]]
      BY <2>2, <3>4, SeesIs DEF View
    <3>6. [w EXCEPT ![index][entry] = v][i][e] = w[i][e]
      BY <3>2, <3>5
    <3>7. QED
      BY <2>1, <3>3, <3>4, <3>6
  <2>6. QED
    BY <2>3, <2>4, <2>5, StepIsSeen
<1>2. (SegmentsInRange /\ FramesLeft) <=> Guarded
  BY DEF Guarded
<1>3. QED
  BY <1>1, <1>2, VInvAlways, PTL DEF VMSpec, ManagerKeepsContents
=============================================================================
