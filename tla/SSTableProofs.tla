---------------------------- MODULE SSTableProofs ----------------------------
(***************************************************************************)
(* SSTableReader answers exactly, for every sorted table, every interval   *)
(* of the sparse index and every pair of hash functions.                   *)
(***************************************************************************)
EXTENDS SSTable, TLAPS

\* What the types say about the table.
LEMMA TableType ==
    ASSUME TypeOK
    PROVE  /\ table \in Seq(DataEntry) /\ Len(table) \in Nat \ {0} /\ DOMAIN table = 1..Len(table)
           /\ \A p \in DOMAIN table : table[p] \in DataEntry /\ table[p].key \in Key
                                     /\ table[p].key \in Int
           /\ \A p, q \in DOMAIN table : p < q => table[p].key < table[q].key
<1>1. table \in Seq(DataEntry) /\ table # <<>> /\ Sorted(table)
  BY SSTableConstants DEF TypeOK
<1>2. Len(table) \in Nat /\ DOMAIN table = 1..Len(table) /\ Len(table) # 0
  BY <1>1
<1>3. ASSUME NEW p \in DOMAIN table
      PROVE  table[p] \in DataEntry /\ table[p].key \in Key /\ table[p].key \in Int
  <2>1. table[p] \in DataEntry
    BY <1>1
  <2> QED
    BY <2>1, SSTableConstants DEF DataEntry
<1> QED
  BY <1>1, <1>2, <1>3 DEF Sorted

\* Probes are bit numbers of the filter.
LEMMA ProbesType ==
    ASSUME TypeOK, NEW k \in Key
    PROVE  Probes(k) \subseteq Nat
<1>1. Len(table) \in Nat
  BY TableType
<1>2. NumBits \in Nat \ {0}
  BY <1>1, SSTableConstants DEF NumBits
<1>3. H1[k] \in Nat /\ H2[k] \in Nat /\ Word \in Nat \ {0} /\ NumHashes \in Nat
  BY SSTableConstants
<1>4. \A i \in 0..(NumHashes - 1) : H1[k] + i * H2[k] \in Nat
  BY <1>3
<1>5. \A n \in Nat : n % Word \in Nat
  BY <1>3
<1>6. \A n \in Nat : n % NumBits \in Nat
  BY <1>2
<1> QED
  BY <1>4, <1>5, <1>6 DEF Probes

\* A longer sequence keeps its elements.
LEMMA AppendElements ==
    ASSUME NEW S, NEW s \in Seq(S), NEW e \in S
    PROVE  /\ Append(s, e) \in Seq(S) /\ Len(s) \in Nat
           /\ DOMAIN s = 1..Len(s) /\ DOMAIN Append(s, e) = 1..(Len(s) + 1)
           /\ Append(s, e)[Len(s) + 1] = e
           /\ \A i \in DOMAIN s : Append(s, e)[i] = s[i]
OBVIOUS

\* What the types and IndexInv say about the index of an open file.
LEMMA IndexType ==
    ASSUME TypeOK, IndexInv, pc # "build"
    PROVE  /\ Len(index) \in Nat \ {0} /\ DOMAIN index = 1..Len(index)
           /\ MinKey = table[1].key
           /\ \A i \in DOMAIN index : /\ index[i].pos \in DOMAIN table
                                      /\ index[i].key = table[index[i].pos].key
                                      /\ index[i].key \in Int
           /\ \A i, j \in DOMAIN index : i < j => index[i].pos < index[j].pos
<1>1. index \in Seq([key : Key, pos : Nat \ {0}])
  BY DEF TypeOK
<1>2. written = Len(table) /\ Len(table) \in Nat \ {0} /\ DOMAIN table = 1..Len(table)
  BY TableType DEF IndexInv
<1>3. index # <<>> /\ index[1].pos = 1 /\ Len(index) \in Nat /\ DOMAIN index = 1..Len(index)
  BY <1>1, <1>2 DEF IndexInv
<1>4. Len(index) # 0
  BY <1>1, <1>3
<1>5. 1 \in DOMAIN index
  BY <1>3, <1>4
<1>6. index[1].key = table[1].key
  BY <1>3, <1>5 DEF IndexInv
<1>7. \A i \in DOMAIN index : index[i].pos \in DOMAIN table
                             /\ index[i].key = table[index[i].pos].key
  BY <1>2 DEF IndexInv
<1>8. \A i \in DOMAIN index : index[i].key \in Int
  BY <1>7, TableType
<1> QED
  BY <1>3, <1>4, <1>6, <1>7, <1>8 DEF MinKey, IndexInv

-----------------------------------------------------------------------------
(* Type correctness.                                                       *)

\* The operands of the search have the types of the code's size_t: no difference is negative.
LEMMA TypeStep == TypeOK /\ IndexInv /\ SearchInv /\ BlockInv /\ [Next]_vars => TypeOK'
<1> SUFFICES ASSUME TypeOK, IndexInv, SearchInv, BlockInv, [Next]_vars PROVE TypeOK'
  OBVIOUS
<1> USE DEF file, request, search
<1>1. /\ Len(table) \in Nat \ {0} /\ DOMAIN table = 1..Len(table)
      /\ \A p \in DOMAIN table : table[p] \in DataEntry /\ table[p].key \in Key
                                /\ table[p].key \in Int
  BY TableType
<1>2. Key \subseteq Int
  BY SSTableConstants
<1>3. ASSUME NEW i \in 0..(Len(index) - 1), pc = "search", EnterBlock(i),
             UNCHANGED <<file, request, out>>, lo' \in Nat, hi' \in Nat, idx' \in Nat
      PROVE  TypeOK'
  <2>1. pos' = index[i + 1].pos /\ pc' = "block"
        /\ (end' = Len(table) + 1 \/ (i + 2 <= Len(index) /\ end' = index[i + 2].pos))
    BY <1>3, IndexType DEF EnterBlock
  <2>2. Len(index) \in Nat /\ \A j \in 1..Len(index) : index[j].pos \in 1..Len(table)
    BY <1>1, <1>3, IndexType
  <2>3. i + 1 \in 1..Len(index) /\ (i + 2 <= Len(index) => i + 2 \in 1..Len(index))
    BY <2>2
  <2>4. pos' \in Nat \ {0} /\ end' \in Nat \ {0}
    BY <1>1, <2>1, <2>2, <2>3
  <2> QED
    BY <1>3, <2>1, <2>4 DEF TypeOK
<1>4. CASE WriteEntry
  <2>1. written' \in 1..Len(table) /\ table' = table
    BY <1>1, <1>4 DEF WriteEntry, TypeOK
  <2>2. [key |-> table[written'].key, pos |-> written'] \in [key : Key, pos : Nat \ {0}]
    BY <1>1, <2>1
  <2>3. index' \in Seq([key : Key, pos : Nat \ {0}])
    BY <1>4, <2>2, AppendElements DEF WriteEntry, TypeOK
  <2>4. bits' \subseteq Nat
    BY <1>1, <1>4, <2>1, ProbesType DEF WriteEntry, TypeOK
  <2> QED
    BY <1>4, <2>1, <2>3, <2>4 DEF WriteEntry, TypeOK
<1>5. CASE OpenReader
  BY <1>5 DEF OpenReader, TypeOK
<1>6. ASSUME NEW m \in {"get", "scan"}, NEW l \in Key, NEW h \in Key, Ask(m, l, h),
             \/ pc' = "done" /\ UNCHANGED <<search, pos, end>>
             \/ StartSearch
      PROVE  TypeOK'
  <2>1. CASE pc' = "done" /\ UNCHANGED <<search, pos, end>>
    BY <1>2, <1>6, <2>1 DEF Ask, TypeOK
  <2>2. CASE StartSearch
    <3>1. Len(index) - 1 \in Nat
      BY <1>6, IndexType DEF Ask
    <3> QED
      BY <1>2, <1>6, <2>2, <3>1 DEF Ask, StartSearch, TypeOK
  <2> QED
    BY <1>6, <2>1, <2>2
<1>7. ASSUME NEW k \in Key, Get(k) PROVE TypeOK'
  BY <1>6, <1>7 DEF Get
<1>8. ASSUME NEW l \in Key, NEW h \in Key, Scan(l, h) PROVE TypeOK'
  BY <1>6, <1>8 DEF Scan
<1>9. CASE ReadAllEntries
  <2>1. MinKey \in Int /\ MaxKey \in Int
    BY <1>1, <1>9, IndexType DEF ReadAllEntries, Ask, MaxKey
  <2> QED
    BY <1>1, <1>9, <2>1 DEF ReadAllEntries, Ask, TypeOK
<1>10. CASE SearchStep
  <2> DEFINE mid == lo + (hi - lo) \div 2
  <2>1. /\ pc = "search" /\ lo <= hi /\ UNCHANGED <<file, request, out>>
        /\ lo \in Nat /\ hi \in 0..(Len(index) - 1) /\ idx \in 0..(Len(index) - 1)
    BY <1>10, IndexType DEF SearchStep, SearchInv, TypeOK
  <2>2. mid \in lo..hi
    BY <2>1
  <2>3. CASE idx' = mid /\ IF mid = hi THEN UNCHANGED <<lo, hi>> /\ EnterBlock(mid)
                                      ELSE lo' = mid + 1 /\ UNCHANGED <<hi, pc, pos, end>>
    <3> HIDE DEF mid
    <3>1. CASE mid = hi
      BY <1>3, <2>1, <2>2, <2>3, <3>1
    <3>2. CASE mid # hi
      BY <2>1, <2>2, <2>3, <3>2 DEF TypeOK
    <3> QED
      BY <3>1, <3>2
  <2>4. CASE /\ IF mid = 0 THEN UNCHANGED hi /\ EnterBlock(idx)
                           ELSE hi' = mid - 1 /\ UNCHANGED <<pc, pos, end>>
             /\ UNCHANGED <<lo, idx>>
    <3> HIDE DEF mid
    <3>1. CASE mid = 0
      BY <1>3, <2>1, <2>2, <2>4, <3>1
    <3>2. CASE mid # 0
      BY <2>1, <2>2, <2>4, <3>2 DEF TypeOK
    <3> QED
      BY <3>1, <3>2
  <2> QED
    BY <1>10, <2>3, <2>4 DEF SearchStep
<1>11. CASE SearchExhausted
  <2>1. pc = "search" /\ idx \in 0..(Len(index) - 1)
    BY <1>11, IndexType DEF SearchExhausted, SearchInv, TypeOK
  <2> QED
    BY <1>3, <1>11, <2>1 DEF SearchExhausted, TypeOK
<1>12. CASE ReadEntry
  <2>1. pos \in DOMAIN table /\ UNCHANGED <<file, request, search, end>>
        /\ pc' \in {"block", "done"} /\ pos' \in Nat \ {0}
    BY <1>1, <1>12 DEF ReadEntry, BlockInv, TypeOK
  <2>2. out' \in Seq(DataEntry)
    BY <1>1, <1>12, <2>1, AppendElements DEF ReadEntry, TypeOK
  <2> QED
    BY <2>1, <2>2 DEF TypeOK
<1>13. CASE BlockEnd
  BY <1>13 DEF BlockEnd, TypeOK
<1>14. CASE Return
  BY <1>14 DEF Return, TypeOK
<1>15. CASE UNCHANGED vars
  BY <1>15 DEF vars, TypeOK
<1> QED
  BY <1>4, <1>5, <1>7, <1>8, <1>9, <1>10, <1>11, <1>12, <1>13, <1>14, <1>15 DEF Next, Work

-----------------------------------------------------------------------------
(* The writer.                                                             *)

\* build() indexes the first entry and, after it, entries in file order.
LEMMA IndexStep == TypeOK /\ IndexInv /\ [Next]_vars => IndexInv'
<1> SUFFICES ASSUME TypeOK, IndexInv, [Next]_vars PROVE IndexInv'
  OBVIOUS
<1> USE DEF file, request, search
<1>1. CASE WriteEntry
  <2>1. /\ written \in Nat /\ written < Len(table) /\ written' = written + 1 /\ table' = table
        /\ pc = "build" /\ pc' = "build" /\ index \in Seq([key : Key, pos : Nat \ {0}])
        /\ Len(table) \in Nat /\ table[written'].key \in Key
    BY <1>1, TableType DEF WriteEntry, TypeOK
  <2>2. CASE index' = index /\ written % Interval # 0
    <3>1. 0 % Interval = 0
      BY SSTableConstants
    <3>2. written # 0
      BY <2>2, <3>1
    <3>3. written > 0
      BY <2>1, <3>2
    <3> QED
      BY <2>1, <2>2, <3>3 DEF IndexInv
  <2>3. CASE index' = Append(index, [key |-> table[written'].key, pos |-> written'])
    <3> DEFINE e == [key |-> table[written'].key, pos |-> written']
               n == Len(index) + 1
    <3>1. e \in [key : Key, pos : Nat \ {0}] /\ e.key = table[written'].key /\ e.pos = written + 1
      BY <2>1
    <3> HIDE DEF e
    <3>2. /\ Len(index) \in Nat /\ DOMAIN index = 1..Len(index) /\ DOMAIN index' = 1..n
          /\ index'[n] = e /\ \A i \in DOMAIN index : index'[i] = index[i]
      BY <2>1, <2>3, <3>1, AppendElements DEF e
    <3>3. \A i \in DOMAIN index' : i = n \/ i \in DOMAIN index
      BY <3>2
    <3>4. \A i \in DOMAIN index : index[i].pos \in 1..written /\ index[i].key = table[index[i].pos].key
      BY DEF IndexInv
    <3>5. \A i \in DOMAIN index' : /\ index'[i].pos \in 1..written'
                                   /\ index'[i].key = table'[index'[i].pos].key
      BY <2>1, <3>1, <3>2, <3>3, <3>4
    <3>6. \A i, j \in DOMAIN index' : i < j => index'[i].pos < index'[j].pos
      <4> SUFFICES ASSUME NEW i \in DOMAIN index', NEW j \in DOMAIN index', i < j
                   PROVE  index'[i].pos < index'[j].pos
        OBVIOUS
      <4>1. i \in DOMAIN index
        BY <3>2
      <4> QED
        BY <2>1, <3>1, <3>2, <3>3, <3>4, <4>1 DEF IndexInv
    <3>7. index' # <<>> /\ index'[1].pos = 1
      <4>1. CASE written = 0
        <5>1. DOMAIN index = {}
          BY <3>4, <4>1
        <5>2. n = 1
          BY <3>2, <5>1
        <5> QED
          BY <2>1, <3>1, <3>2, <4>1, <5>2
      <4>2. CASE written > 0
        <5>1. index # <<>> /\ index[1].pos = 1
          BY <4>2 DEF IndexInv
        <5>2. 1 \in DOMAIN index
          BY <2>1, <5>1
        <5> QED
          BY <3>2, <5>1, <5>2
      <4> QED
        BY <2>1, <4>1, <4>2
    <3> QED
      BY <2>1, <3>5, <3>6, <3>7 DEF IndexInv
  <2> QED
    BY <1>1, <2>2, <2>3 DEF WriteEntry
<1>2. CASE OpenReader
  BY <1>2 DEF OpenReader, IndexInv
<1>3. ASSUME UNCHANGED file, pc = "build" => pc' = "build" PROVE IndexInv'
  BY <1>3 DEF IndexInv
<1>4. CASE SearchStep \/ SearchExhausted \/ ReadEntry \/ BlockEnd \/ ReadAllEntries \/ Return
  BY <1>3, <1>4 DEF SearchStep, SearchExhausted, ReadEntry, BlockEnd, ReadAllEntries, Return, Ask
<1>5. ASSUME NEW k \in Key, Get(k) PROVE IndexInv'
  BY <1>3, <1>5 DEF Get, Ask
<1>6. ASSUME NEW l \in Key, NEW h \in Key, Scan(l, h) PROVE IndexInv'
  BY <1>3, <1>6 DEF Scan, Ask
<1>7. CASE UNCHANGED vars
  BY <1>3, <1>7 DEF vars
<1> QED
  BY <1>1, <1>2, <1>4, <1>5, <1>6, <1>7 DEF Next, Work

\* The filter keeps the bits of every key that build() has added.
LEMMA FilterStep == TypeOK /\ FilterInv /\ [Next]_vars => FilterInv'
<1> SUFFICES ASSUME TypeOK, FilterInv, [Next]_vars PROVE FilterInv'
  OBVIOUS
<1> USE DEF file, request, search
<1>1. ASSUME table' = table PROVE \A k : Probes(k)' = Probes(k)
  BY <1>1 DEF Probes, NumBits
<1>2. CASE WriteEntry
  <2>1. /\ table' = table /\ written \in Nat /\ written' = written + 1
        /\ bits' = bits \cup Probes(table[written'].key)
    BY <1>2 DEF WriteEntry, TypeOK
  <2>2. \A p \in 1..written' : p \in 1..written \/ p = written'
    BY <2>1
  <2> QED
    BY <1>1, <2>1, <2>2 DEF FilterInv
<1>3. ASSUME UNCHANGED file PROVE FilterInv'
  BY <1>1, <1>3 DEF FilterInv
<1>4. CASE OpenReader \/ SearchStep \/ SearchExhausted \/ ReadEntry \/ BlockEnd
           \/ ReadAllEntries \/ Return
  BY <1>3, <1>4 DEF OpenReader, SearchStep, SearchExhausted, ReadEntry, BlockEnd,
     ReadAllEntries, Return, Ask
<1>5. ASSUME NEW k \in Key, Get(k) PROVE FilterInv'
  BY <1>3, <1>5 DEF Get, Ask
<1>6. ASSUME NEW l \in Key, NEW h \in Key, Scan(l, h) PROVE FilterInv'
  BY <1>3, <1>6 DEF Scan, Ask
<1>7. CASE UNCHANGED vars
  BY <1>3, <1>7 DEF vars
<1> QED
  BY <1>2, <1>4, <1>5, <1>6, <1>7 DEF Next, Work

-----------------------------------------------------------------------------
(* The reader.                                                             *)

\* The block of index entry i (counted from 0) is the one to read: no later one starts at or
\* below low, and it does so itself unless it is the first.
LastAtOrBelow(i) ==
    /\ i \in 0..(Len(index) - 1)
    /\ i = 0 \/ index[i + 1].key <= low
    /\ \A j \in DOMAIN index : j > i + 1 => index[j].key > low

\* The loop of the search keeps its invariant, and leaves at the right block.
LEMMA SearchStepKeeps ==
    ASSUME TypeOK, IndexInv, SearchInv, SearchStep
    PROVE  \/ pc' = "search" /\ SearchInv'
           \/ \E i \in Nat : LastAtOrBelow(i) /\ EnterBlock(i) /\ UNCHANGED <<file, request, out>>
<1> DEFINE mid == lo + (hi - lo) \div 2
<1>1. /\ pc = "search" /\ lo <= hi /\ UNCHANGED <<file, request, out>>
      /\ lo \in Nat /\ hi \in 0..(Len(index) - 1) /\ idx = (IF lo = 0 THEN 0 ELSE lo - 1)
      /\ low \in Int
      /\ lo > 0 => index[idx + 1].key <= low
      /\ \A j \in DOMAIN index : j > hi + 1 => index[j].key > low
      /\ mode = "get" => low = high
      /\ out = <<>>
  BY DEF SearchStep, SearchInv, TypeOK
<1>2. /\ Len(index) \in Nat \ {0} /\ DOMAIN index = 1..Len(index)
      /\ \A i \in DOMAIN index : index[i].key \in Int
      /\ \A i, j \in DOMAIN index : i < j => index[i].key < index[j].key
  <2>1. \A i, j \in DOMAIN index : i < j => index[i].key < index[j].key
    BY <1>1, IndexType, TableType
  <2> QED
    BY <1>1, <2>1, IndexType
<1>3. mid \in lo..hi /\ mid + 1 \in DOMAIN index
  BY <1>1, <1>2
<1>4. ASSUME index[mid + 1].key <= low, idx' = mid,
             IF mid = hi THEN UNCHANGED <<lo, hi>> /\ EnterBlock(mid)
                         ELSE lo' = mid + 1 /\ UNCHANGED <<hi, pc, pos, end>>
      PROVE  \/ pc' = "search" /\ SearchInv'
             \/ \E i \in Nat : LastAtOrBelow(i) /\ EnterBlock(i) /\ UNCHANGED <<file, request, out>>
  <2> HIDE DEF mid
  <2>1. CASE mid = hi
    <3>1. LastAtOrBelow(mid) /\ mid \in Nat
      BY <1>1, <1>2, <1>3, <1>4, <2>1 DEF LastAtOrBelow
    <3> QED
      BY <1>1, <1>4, <2>1, <3>1
  <2>2. CASE mid # hi
    <3>1. /\ lo' \in 0..Len(index) /\ idx' = (IF lo' = 0 THEN 0 ELSE lo' - 1)
      BY <1>1, <1>2, <1>3, <1>4, <2>2
    <3> QED
      BY <1>1, <1>4, <2>2, <3>1 DEF SearchInv, file, request
  <2> QED
    BY <2>1, <2>2
<1>5. ASSUME index[mid + 1].key > low, UNCHANGED <<lo, idx>>,
             IF mid = 0 THEN UNCHANGED hi /\ EnterBlock(idx)
                        ELSE hi' = mid - 1 /\ UNCHANGED <<pc, pos, end>>
      PROVE  \/ pc' = "search" /\ SearchInv'
             \/ \E i \in Nat : LastAtOrBelow(i) /\ EnterBlock(i) /\ UNCHANGED <<file, request, out>>
  <2> HIDE DEF mid
  <2>1. \A j \in DOMAIN index : j > mid => index[j].key > low
    BY <1>1, <1>2, <1>3, <1>5
  <2>2. CASE mid = 0
    <3>1. lo = 0 /\ idx = 0
      BY <1>1, <1>3, <2>2
    <3>2. LastAtOrBelow(idx)
      BY <1>2, <2>1, <2>2, <3>1 DEF LastAtOrBelow
    <3> QED
      BY <1>1, <1>5, <2>2, <3>1, <3>2
  <2>3. CASE mid # 0
    <3>1. hi' \in 0..(Len(index) - 1) /\ hi' + 1 = mid
      BY <1>1, <1>2, <1>3, <1>5, <2>3
    <3>2. lo \in 0..Len(index)
      BY <1>1, <1>2
    <3> QED
      BY <1>1, <1>5, <2>1, <2>3, <3>1, <3>2, IndexType DEF SearchInv, file, request
  <2> QED
    BY <2>2, <2>3
<1> QED
  BY <1>4, <1>5 DEF SearchStep

\* A search whose bounds have crossed has found the block too.
LEMMA ExhaustedFinds ==
    ASSUME TypeOK, IndexInv, SearchInv, SearchExhausted
    PROVE  LastAtOrBelow(idx)
<1>1. /\ pc = "search" /\ lo > hi /\ lo \in 0..Len(index) /\ hi \in 0..(Len(index) - 1)
      /\ idx = (IF lo = 0 THEN 0 ELSE lo - 1)
      /\ lo > 0 => index[idx + 1].key <= low
      /\ \A j \in DOMAIN index : j > hi + 1 => index[j].key > low
  BY DEF SearchExhausted, SearchInv
<1>2. Len(index) \in Nat \ {0} /\ DOMAIN index = 1..Len(index)
  BY <1>1, IndexType
<1>3. lo > 0 /\ idx = lo - 1 /\ idx >= hi
  BY <1>1, <1>2
<1> QED
  BY <1>1, <1>2, <1>3 DEF LastAtOrBelow

\* Entering the block of the right index entry skips nothing within the bounds.
LEMMA EnterBlockSkipsNothing ==
    ASSUME TypeOK, IndexInv, SearchInv, pc = "search",
           NEW i \in Nat, LastAtOrBelow(i), EnterBlock(i), UNCHANGED <<file, request, out>>
    PROVE  BlockInv'
<1>1. /\ Len(index) \in Nat \ {0} /\ DOMAIN index = 1..Len(index)
      /\ \A j \in DOMAIN index : /\ index[j].pos \in DOMAIN table
                                 /\ index[j].key = table[index[j].pos].key
      /\ \A j, n \in DOMAIN index : j < n => index[j].pos < index[n].pos
      /\ index[1].pos = 1
  BY IndexType, TableType DEF IndexInv
<1>2. /\ Len(table) \in Nat \ {0} /\ DOMAIN table = 1..Len(table)
      /\ \A p \in DOMAIN table : table[p].key \in Int
      /\ \A p, q \in DOMAIN table : p < q => table[p].key < table[q].key
      /\ low \in Int /\ high \in Int
  BY TableType DEF TypeOK
<1>3. i + 1 \in DOMAIN index /\ (i = 0 \/ index[i + 1].key <= low)
      /\ \A j \in DOMAIN index : j > i + 1 => index[j].key > low
  BY <1>1 DEF LastAtOrBelow
<1>4. pos' = index[i + 1].pos /\ pos' \in DOMAIN table /\ pc' = "block"
  BY <1>1, <1>3 DEF EnterBlock
<1>5. /\ pos' <= end' /\ end' <= Len(table) + 1
      /\ \A p \in DOMAIN table : p >= end' => ~InBounds(table[p])
  <2>1. CASE mode = "get" /\ i + 1 < Len(index)
    <3>1. i + 2 \in DOMAIN index /\ end' = index[i + 2].pos
      BY <1>1, <1>3, <2>1 DEF EnterBlock
    <3>2. end' \in DOMAIN table /\ pos' < end' /\ table[end'].key > low
      BY <1>1, <1>3, <1>4, <3>1
    <3>3. low = high
      BY <2>1 DEF SearchInv
    <3>4. \A p \in DOMAIN table : p >= end' => table[p].key > high
      BY <1>2, <3>2, <3>3
    <3> QED
      BY <1>2, <1>4, <3>2, <3>4 DEF InBounds
  <2>2. CASE ~(mode = "get" /\ i + 1 < Len(index))
    <3>1. end' = Len(table) + 1
      BY <2>2 DEF EnterBlock
    <3> QED
      BY <1>2, <1>4, <3>1
  <2> QED
    BY <2>1, <2>2
<1>6. \A p \in 1..(pos' - 1) : ~InBounds(table[p])
  <2> SUFFICES ASSUME NEW p \in 1..(pos' - 1) PROVE ~InBounds(table[p])
    OBVIOUS
  <2>1. i # 0
    BY <1>1, <1>4
  <2>2. table[pos'].key <= low
    BY <1>1, <1>3, <1>4, <2>1
  <2>3. p \in DOMAIN table /\ p < pos'
    BY <1>2, <1>4
  <2>4. table[p].key < table[pos'].key
    BY <1>2, <1>4, <2>3
  <2> QED
    BY <1>2, <1>4, <2>2, <2>3, <2>4 DEF InBounds
<1>7. \A p : InBounds(table[p])' <=> InBounds(table[p])
  BY DEF InBounds, file, request
<1>8. /\ \A j \in DOMAIN out' : \E p \in 1..(pos' - 1) : out'[j] = table'[p] /\ InBounds(table[p])'
      /\ \A p \in 1..(pos' - 1) : InBounds(table[p])' => \E j \in DOMAIN out' : out'[j] = table'[p]
      /\ Sorted(out')
  BY <1>6, <1>7 DEF Sorted, SearchInv
<1> QED
  BY <1>2, <1>5, <1>7, <1>8 DEF BlockInv, Collected, SearchInv, file, request

\* Where nothing more lies within the bounds, what was collected is the answer.
LEMMA CollectedIsExact ==
    ASSUME TypeOK, NEW s, NEW n \in 0..Len(table), Collected(s, n),
           \A p \in DOMAIN table : p > n => ~InBounds(table[p])
    PROVE  Range(s) = {e \in Range(table) : low <= e.key /\ e.key <= high} /\ Sorted(s)
<1>1. Len(table) \in Nat /\ DOMAIN table = 1..Len(table)
  BY TableType
<1>2. ASSUME NEW e \in Range(s) PROVE e \in Range(table) /\ low <= e.key /\ e.key <= high
  BY <1>1 DEF Collected, Range, InBounds
<1>3. ASSUME NEW e \in Range(table), low <= e.key, e.key <= high PROVE e \in Range(s)
  <2>1. PICK p \in DOMAIN table : table[p] = e
    BY DEF Range
  <2>2. InBounds(table[p]) /\ p \in 1..n
    BY <1>1, <1>3, <2>1 DEF InBounds
  <2> QED
    BY <2>1, <2>2 DEF Collected, Range
<1> QED
  BY <1>2, <1>3 DEF Collected

\* One more entry is read.
LEMMA CollectOne ==
    ASSUME TypeOK, NEW s \in Seq(DataEntry), NEW n \in DOMAIN table, Collected(s, n - 1), NEW t,
           t = IF InBounds(table[n]) THEN Append(s, table[n]) ELSE s
    PROVE  Collected(t, n)
<1>1. /\ Len(table) \in Nat \ {0} /\ DOMAIN table = 1..Len(table)
      /\ \A p \in DOMAIN table : table[p] \in DataEntry /\ table[p].key \in Int
      /\ \A p, q \in DOMAIN table : p < q => table[p].key < table[q].key
  BY TableType
<1>2. \A p \in 1..n : p = n \/ p \in 1..(n - 1)
  BY <1>1
<1>3. \A p \in 1..(n - 1) : p \in 1..n /\ p \in DOMAIN table /\ p < n
  BY <1>1
<1>4. CASE ~InBounds(table[n])
  BY <1>1, <1>2, <1>3, <1>4 DEF Collected
<1>5. CASE InBounds(table[n])
  <2> DEFINE m == Len(s) + 1
  <2>1. /\ t = Append(s, table[n]) /\ Len(s) \in Nat /\ DOMAIN s = 1..Len(s) /\ DOMAIN t = 1..m
        /\ t[m] = table[n] /\ \A j \in DOMAIN s : t[j] = s[j]
    BY <1>1, <1>5, AppendElements
  <2>2. \A j \in DOMAIN t : j = m \/ j \in DOMAIN s
    BY <2>1
  <2>3. m \in DOMAIN t /\ \A j \in DOMAIN s : j \in DOMAIN t
    BY <2>1
  <2> HIDE DEF m
  <2>4. ASSUME NEW j \in DOMAIN s PROVE \E p \in 1..(n - 1) : s[j] = table[p] /\ InBounds(table[p])
    BY DEF Collected
  <2>5. ASSUME NEW j \in DOMAIN t PROVE \E p \in 1..n : t[j] = table[p] /\ InBounds(table[p])
    <3>1. CASE j = m
      BY <1>1, <1>5, <2>1, <3>1
    <3>2. CASE j \in DOMAIN s
      BY <1>3, <2>1, <2>4, <3>2
    <3> QED
      BY <2>2, <3>1, <3>2
  <2>6. ASSUME NEW p \in 1..n, InBounds(table[p]) PROVE \E j \in DOMAIN t : t[j] = table[p]
    <3>1. CASE p = n
      BY <2>1, <2>3, <3>1
    <3>2. CASE p \in 1..(n - 1)
      <4>1. PICK j \in DOMAIN s : s[j] = table[p]
        BY <2>6, <3>2 DEF Collected
      <4> QED
        BY <2>1, <2>3, <4>1
    <3> QED
      BY <1>2, <3>1, <3>2
  <2>7. ASSUME NEW i \in DOMAIN t, NEW j \in DOMAIN t, i < j PROVE t[i].key < t[j].key
    <3>1. i \in DOMAIN s
      BY <2>1, <2>2, <2>7 DEF m
    <3>2. CASE j = m
      <4>1. PICK p \in 1..(n - 1) : s[i] = table[p]
        BY <2>4, <3>1
      <4> QED
        BY <1>1, <1>3, <2>1, <3>1, <3>2, <4>1
    <3>3. CASE j \in DOMAIN s
      BY <2>1, <2>7, <3>1, <3>3 DEF Collected, Sorted
    <3> QED
      BY <2>2, <3>2, <3>3
  <2> QED
    BY <2>5, <2>6, <2>7 DEF Collected, Sorted
<1> QED
  BY <1>4, <1>5

\* One turn of the loop over the block collects one entry; it stops where no more can follow.
LEMMA ReadEntryKeeps ==
    ASSUME TypeOK, BlockInv, ReadEntry
    PROVE  BlockInv' /\ LookupExact'
<1>1. /\ Len(table) \in Nat \ {0} /\ DOMAIN table = 1..Len(table)
      /\ \A p \in DOMAIN table : table[p].key \in Int
      /\ \A p, q \in DOMAIN table : p < q => table[p].key < table[q].key
      /\ low \in Int /\ high \in Int /\ pos \in Nat \ {0} /\ end \in Nat /\ out \in Seq(DataEntry)
  BY TableType DEF TypeOK
<1>2. /\ pc = "block" /\ pos < end /\ end <= Len(table) + 1 /\ pos \in DOMAIN table
      /\ UNCHANGED <<table, mode, low, high, end>>
      /\ Collected(out, pos - 1)
      /\ \A p \in DOMAIN table : p >= end => ~InBounds(table[p])
      /\ mode = "get" => low = high
  BY <1>1 DEF ReadEntry, BlockInv, file, request
<1>3. Collected(out', pos)
  <2>1. out' = IF InBounds(table[pos]) THEN Append(out, table[pos]) ELSE out
    BY DEF ReadEntry, InBounds
  <2> QED
    BY <1>1, <1>2, <2>1, CollectOne
<1>4. CASE table[pos].key > high \/ (mode = "get" /\ table[pos].key = low)
  <2>1. pc' = "done"
    BY <1>4 DEF ReadEntry
  <2>2. \A p \in DOMAIN table : p > pos => ~InBounds(table[p])
    BY <1>1, <1>2, <1>4 DEF InBounds
  <2>3. Range(out') = {e \in Range(table) : low <= e.key /\ e.key <= high} /\ Sorted(out')
    <3>1. pos \in 0..Len(table)
      BY <1>1, <1>2
    <3> QED
      BY <1>3, <2>2, <3>1, CollectedIsExact
  <2> QED
    BY <1>2, <2>1, <2>3 DEF BlockInv, LookupExact
<1>5. CASE ~(table[pos].key > high \/ (mode = "get" /\ table[pos].key = low))
  <2>1. pc' = "block" /\ pos' = pos + 1 /\ pos' - 1 = pos
    BY <1>1, <1>2, <1>5 DEF ReadEntry
  <2>2. \A p : InBounds(table[p])' <=> InBounds(table[p])
    BY <1>2 DEF InBounds
  <2>3. Collected(out, pos - 1)'
    BY <1>2, <1>3, <2>1, <2>2 DEF Collected
  <2>4. pos' <= end'
    BY <1>1, <1>2, <2>1
  <2> QED
    BY <1>2, <2>1, <2>2, <2>3, <2>4 DEF BlockInv, LookupExact
<1> QED
  BY <1>4, <1>5

\* The early answers of get() and scan(): no entry can lie within the bounds.
LEMMA EarlyAnswers ==
    ASSUME TypeOK, IndexInv, FilterInv, pc = "idle", NEW l \in Key, NEW h \in Key,
           \/ h < MinKey \/ l > MaxKey
           \/ l = h /\ ~PossiblyContains(l),
           NEW e \in Range(table)
    PROVE  ~(l <= e.key /\ e.key <= h)
<1>1. /\ Len(table) \in Nat \ {0} /\ DOMAIN table = 1..Len(table)
      /\ \A p \in DOMAIN table : table[p].key \in Int
      /\ \A p, q \in DOMAIN table : p < q => table[p].key < table[q].key
      /\ l \in Int /\ h \in Int /\ MinKey = table[1].key
  BY TableType, IndexType, SSTableConstants
<1>2. PICK p \in DOMAIN table : table[p] = e
  BY DEF Range
<1>3. table[1].key <= e.key /\ e.key <= MaxKey /\ e.key \in Int
  <2>1. p = 1 \/ (1 \in DOMAIN table /\ 1 < p)
    BY <1>1
  <2>2. p = Len(table) \/ (Len(table) \in DOMAIN table /\ p < Len(table))
    BY <1>1
  <2> QED
    BY <1>1, <1>2, <2>1, <2>2 DEF MaxKey
<1>4. MaxKey \in Int
  BY <1>1 DEF MaxKey
<1>5. PossiblyContains(e.key)
  BY <1>1, <1>2 DEF PossiblyContains, FilterInv, IndexInv
<1>6. CASE h < MinKey \/ l > MaxKey
  BY <1>1, <1>3, <1>4, <1>6
<1>7. CASE l = h /\ ~PossiblyContains(l)
  <2>1. e.key # l
    BY <1>5, <1>7
  <2> QED
    BY <1>1, <1>3, <1>7, <2>1
<1> QED
  BY <1>6, <1>7

\* A request starts with nothing collected, at the whole index.
LEMMA AskStarts ==
    ASSUME TypeOK, IndexInv, NEW m \in {"get", "scan"}, NEW l \in Key, NEW h \in Key, Ask(m, l, h),
           m = "get" => l = h,
           \/ /\ pc' = "done"
              /\ \A e \in Range(table) : ~(l <= e.key /\ e.key <= h)
           \/ StartSearch
    PROVE  SearchInv' /\ BlockInv' /\ LookupExact'
<1>1. /\ Len(index) \in Nat \ {0} /\ DOMAIN index = 1..Len(index) /\ index # <<>>
      /\ pc = "idle" /\ UNCHANGED <<table, index>>
      /\ out' = <<>> /\ mode' = m /\ low' = l /\ high' = h
  BY IndexType DEF Ask, file
<1>2. CASE pc' = "done" /\ \A e \in Range(table) : ~(l <= e.key /\ e.key <= h)
  <2>1. Range(out') = {} /\ Sorted(out')
    BY <1>1 DEF Range, Sorted
  <2> QED
    BY <1>1, <1>2, <2>1 DEF SearchInv, BlockInv, LookupExact
<1>3. CASE StartSearch
  <2>1. pc' = "search" /\ lo' = 0 /\ idx' = 0 /\ hi' = Len(index) - 1
    BY <1>3 DEF StartSearch
  <2> QED
    BY <1>1, <2>1 DEF SearchInv, BlockInv, LookupExact
<1> QED
  BY <1>2, <1>3

\* Search, block and answer keep their invariants through every step.
LEMMA LookupStep ==
    ASSUME TypeOK, TypeOK', LookupInv, [Next]_vars
    PROVE  SearchInv' /\ BlockInv' /\ LookupExact'
<1> USE DEF LookupInv
<1>1. CASE WriteEntry \/ OpenReader
  BY <1>1 DEF WriteEntry, OpenReader, SearchInv, BlockInv, LookupExact
<1>2. ASSUME NEW k \in Key, Get(k) PROVE SearchInv' /\ BlockInv' /\ LookupExact'
  <2>1. pc = "idle"
    BY <1>2 DEF Get, Ask
  <2>2. \/ pc' = "done" /\ \A e \in Range(table) : ~(k <= e.key /\ e.key <= k)
        \/ StartSearch
    BY <1>2, <2>1, EarlyAnswers DEF Get
  <2> QED
    BY <1>2, <2>2, AskStarts DEF Get
<1>3. ASSUME NEW l \in Key, NEW h \in Key, Scan(l, h) PROVE SearchInv' /\ BlockInv' /\ LookupExact'
  <2>1. pc = "idle"
    BY <1>3 DEF Scan, Ask
  <2>2. Len(table) \in DOMAIN table /\ 1 \in DOMAIN table /\ l \in Int /\ h \in Int
    BY TableType, SSTableConstants
  <2>3. MinKey \in Int /\ MaxKey \in Int
    BY <2>1, <2>2, IndexType, TableType DEF MaxKey
  <2>4. MinKey > h \/ MaxKey < l => h < MinKey \/ l > MaxKey
    BY <2>2, <2>3
  <2>5. \/ pc' = "done" /\ \A e \in Range(table) : ~(l <= e.key /\ e.key <= h)
        \/ StartSearch
    BY <1>3, <2>1, <2>4, EarlyAnswers DEF Scan
  <2> QED
    BY <1>3, <2>5, AskStarts DEF Scan
<1>4. CASE ReadAllEntries
  <2>1. pc' = "block" /\ pos' = 1 /\ end' = Len(table) + 1 /\ out' = <<>> /\ mode' = "all"
        /\ table' = table
    BY <1>4 DEF ReadAllEntries, Ask, file
  <2>2. Len(table) \in Nat /\ DOMAIN table = 1..Len(table)
    BY TableType
  <2> QED
    BY <2>1, <2>2 DEF SearchInv, BlockInv, LookupExact, Collected, Sorted
<1>5. CASE SearchStep
  <2>1. CASE pc' = "search" /\ SearchInv'
    BY <2>1 DEF BlockInv, LookupExact
  <2>2. ASSUME NEW i \in Nat, LastAtOrBelow(i), EnterBlock(i), UNCHANGED <<file, request, out>>
        PROVE  SearchInv' /\ BlockInv' /\ LookupExact'
    <3>1. BlockInv'
      BY <1>5, <2>2, EnterBlockSkipsNothing DEF SearchStep
    <3> QED
      BY <2>2, <3>1 DEF EnterBlock, SearchInv, LookupExact
  <2> QED
    BY <1>5, <2>1, <2>2, SearchStepKeeps
<1>6. CASE SearchExhausted
  <2>1. LastAtOrBelow(idx) /\ EnterBlock(idx) /\ idx \in Nat /\ UNCHANGED <<file, request, out>>
        /\ pc = "search"
    BY <1>6, ExhaustedFinds DEF SearchExhausted, TypeOK
  <2>2. BlockInv'
    BY <2>1, EnterBlockSkipsNothing
  <2> QED
    BY <2>1, <2>2 DEF EnterBlock, SearchInv, LookupExact
<1>7. CASE ReadEntry
  <2>1. BlockInv' /\ LookupExact'
    BY <1>7, ReadEntryKeeps
  <2>2. pc' # "search"
    BY <1>7 DEF ReadEntry
  <2> QED
    BY <2>1, <2>2 DEF SearchInv
<1>8. CASE BlockEnd
  <2>1. /\ pc = "block" /\ pos >= end /\ pc' = "done" /\ UNCHANGED <<table, low, high, out>>
    BY <1>8 DEF BlockEnd, file, request
  <2>2. /\ Len(table) \in Nat /\ DOMAIN table = 1..Len(table) /\ pos \in Nat \ {0} /\ end \in Nat
        /\ pos <= end /\ end <= Len(table) + 1 /\ Collected(out, pos - 1)
        /\ \A p \in DOMAIN table : p >= end => ~InBounds(table[p])
    BY <2>1, TableType DEF BlockInv, TypeOK
  <2>3. pos - 1 \in 0..Len(table) /\ \A p \in DOMAIN table : p > pos - 1 => ~InBounds(table[p])
    BY <2>1, <2>2
  <2>4. Range(out) = {e \in Range(table) : low <= e.key /\ e.key <= high} /\ Sorted(out)
    BY <2>2, <2>3, CollectedIsExact
  <2> QED
    BY <2>1, <2>4 DEF SearchInv, BlockInv, LookupExact
<1>9. CASE Return
  BY <1>9 DEF Return, SearchInv, BlockInv, LookupExact
<1>10. CASE UNCHANGED vars
  BY <1>10 DEF vars, SearchInv, BlockInv, LookupExact, Collected, InBounds
<1> QED
  BY <1>1, <1>2, <1>3, <1>4, <1>5, <1>6, <1>7, <1>8, <1>9, <1>10 DEF Next, Work

-----------------------------------------------------------------------------
\* Before anything is written, and after every step, the invariant holds.
THEOREM LookupInvariant == Spec => [](TypeOK /\ LookupInv)
<1>1. Init => TypeOK /\ LookupInv
  <2> SUFFICES ASSUME Init PROVE TypeOK /\ LookupInv
    OBVIOUS
  <2>1. table \in Seq(DataEntry) /\ Len(table) \in Nat
    BY SSTableConstants DEF Init
  <2> QED
    BY <2>1 DEF Init, TypeOK, LookupInv, IndexInv, FilterInv, SearchInv, BlockInv, LookupExact
<1>2. TypeOK /\ LookupInv /\ [Next]_vars => (TypeOK /\ LookupInv)'
  <2> SUFFICES ASSUME TypeOK, LookupInv, [Next]_vars PROVE TypeOK' /\ LookupInv'
    OBVIOUS
  <2>1. TypeOK'
    BY TypeStep DEF LookupInv
  <2> QED
    BY <2>1, IndexStep, FilterStep, LookupStep DEF LookupInv
<1> QED
  BY <1>1, <1>2, PTL DEF Spec

\* The reader's and the writer's variables keep their types; no size_t goes below zero.
THEOREM SSTableTypeCorrect == Spec => []TypeOK
BY LookupInvariant, PTL

\* BloomFilter has no false negatives, for any pair of hash functions and any sizes.
THEOREM BloomHasNoFalseNegatives == Spec => []NoFalseNegatives
<1>1. TypeOK /\ LookupInv => NoFalseNegatives
  BY TableType DEF LookupInv, IndexInv, FilterInv, NoFalseNegatives, PossiblyContains
<1> QED
  BY LookupInvariant, <1>1, PTL

\* The binary search never leaves the index.
THEOREM SearchStaysInBounds == Spec => []SearchInBounds
<1>1. TypeOK /\ LookupInv => SearchInBounds
  <2> SUFFICES ASSUME TypeOK, LookupInv, pc = "search" PROVE SearchInBounds
    BY DEF SearchInBounds
  <2>1. Len(index) \in Nat \ {0}
    BY IndexType DEF LookupInv
  <2> QED
    BY <2>1 DEF LookupInv, SearchInv, SearchInBounds
<1> QED
  BY LookupInvariant, <1>1, PTL

\* get(), scan() and read_all_entries() return exactly the entries within the bounds, in order.
THEOREM LookupsAreExact == Spec => []LookupExact
<1>1. LookupInv => LookupExact
  BY DEF LookupInv
<1> QED
  BY LookupInvariant, <1>1, PTL
=============================================================================
