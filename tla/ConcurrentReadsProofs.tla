------------------------ MODULE ConcurrentReadsProofs ------------------------
(***************************************************************************)
(* Reads beside the writer, for any number of reading threads, any keys,   *)
(* values and thresholds, and any number of writes.                        *)
(***************************************************************************)
EXTENDS ConcurrentReads, FiniteSetTheorems, WellFoundedInduction, TLAPS

\* A tombstone and a missing entry look the same to the caller.
LEMMA VisibleType ==
    ASSUME NEW e \in Entry \cup {Absent}
    PROVE  /\ Visible(e) \in Value \cup {Absent}
           /\ Visible(Visible(e)) = Visible(e)
BY ReadConstants DEF Visible, Entry

\* The newest entry, from any witness of it.
LEMMA NewestUnique ==
    ASSUME NEW s \in Seq(Table), NEW n \in Nat, NEW i \in DOMAIN s, NEW k, IsNewest(s, n, i, k)
    PROVE  NewestEntry(s, n, k) = s[i][k]
<1> DEFINE m == CHOOSE j \in DOMAIN s : IsNewest(s, n, j, k)
<1>1. m \in DOMAIN s /\ IsNewest(s, n, m, k)
  OBVIOUS
<1>2. m = i
  BY <1>1 DEF IsNewest
<1> QED
  BY <1>2 DEF NewestEntry

\* The newest entry is an entry of a table, or Absent.
LEMMA NewestType ==
    ASSUME NEW s \in Seq(Table), NEW n \in Nat, NEW k \in Key
    PROVE  NewestEntry(s, n, k) \in Entry \cup {Absent}
<1>1. CASE \E i \in DOMAIN s : IsNewest(s, n, i, k)
  <2>1. PICK i \in DOMAIN s : IsNewest(s, n, i, k)
    BY <1>1
  <2>2. s[i] \in Table
    OBVIOUS
  <2> QED
    BY <2>1, <2>2, NewestUnique DEF Table
<1>2. CASE ~ \E i \in DOMAIN s : IsNewest(s, n, i, k)
  BY <1>2 DEF NewestEntry
<1> QED
  BY <1>1, <1>2

\* Without an entry in the tables behind the first n there is no newest one.
LEMMA NoNewest ==
    ASSUME NEW s \in Seq(Table), NEW n \in Nat, NEW k,
           \A j \in DOMAIN s : j > n => s[j][k] = Absent
    PROVE  NewestEntry(s, n, k) = Absent
BY DEF NewestEntry, IsNewest

\* One table more, at its front.
LEMMA NewestDown ==
    ASSUME NEW s \in Seq(Table), NEW n \in DOMAIN s, NEW k
    PROVE  NewestEntry(s, n - 1, k) = IF s[n][k] # Absent THEN s[n][k] ELSE NewestEntry(s, n, k)
<1>1. n \in Nat /\ n - 1 \in Nat
  OBVIOUS
<1>2. CASE s[n][k] # Absent
  <2>1. IsNewest(s, n - 1, n, k)
    BY <1>2 DEF IsNewest
  <2> QED
    BY <1>1, <1>2, <2>1, NewestUnique
<1>3. CASE s[n][k] = Absent
  <2>1. \A i \in DOMAIN s : IsNewest(s, n - 1, i, k) <=> IsNewest(s, n, i, k)
    <3> SUFFICES ASSUME NEW i \in DOMAIN s PROVE IsNewest(s, n - 1, i, k) <=> IsNewest(s, n, i, k)
      OBVIOUS
    <3>1. \A j \in DOMAIN s : n - 1 < j <=> n < j \/ j = n
      BY <1>1
    <3> QED
      BY <1>1, <1>3, <3>1 DEF IsNewest
  <2>2. CASE \E i \in DOMAIN s : IsNewest(s, n, i, k)
    <3>1. PICK i \in DOMAIN s : IsNewest(s, n, i, k)
      BY <2>2
    <3> QED
      BY <1>1, <1>3, <2>1, <3>1, NewestUnique
  <2>3. CASE ~ \E i \in DOMAIN s : IsNewest(s, n, i, k)
    BY <1>3, <2>1, <2>3 DEF NewestEntry
  <2> QED
    BY <2>2, <2>3
<1> QED
  BY <1>2, <1>3

\* A table is put in front of the others.
LEMMA NewestPush ==
    ASSUME NEW s \in Seq(Table), NEW t \in Table, NEW k
    PROVE  NewestEntry(<<t>> \o s, 0, k) = IF t[k] # Absent THEN t[k] ELSE NewestEntry(s, 0, k)
<1> DEFINE u == <<t>> \o s
<1>1. /\ u \in Seq(Table) /\ 1 \in DOMAIN u /\ u[1] = t
      /\ \A i \in DOMAIN s : i + 1 \in DOMAIN u /\ u[i + 1] = s[i]
      /\ \A i \in DOMAIN u : i # 1 => i - 1 \in DOMAIN s /\ u[i] = s[i - 1]
  OBVIOUS
<1> HIDE DEF u
<1>2. NewestEntry(u, 0, k) = IF t[k] # Absent THEN t[k] ELSE NewestEntry(u, 1, k)
  BY <1>1, NewestDown
<1>3. NewestEntry(u, 1, k) = NewestEntry(s, 0, k)
  <2>1. CASE \E i \in DOMAIN s : IsNewest(s, 0, i, k)
    <3>1. PICK i \in DOMAIN s : IsNewest(s, 0, i, k)
      BY <2>1
    <3>2. IsNewest(u, 1, i + 1, k)
      <4>1. ASSUME NEW j \in DOMAIN u, 1 < j, j < i + 1 PROVE u[j][k] = Absent
        <5>1. j - 1 \in DOMAIN s /\ u[j] = s[j - 1] /\ 0 < j - 1 /\ j - 1 < i
          BY <1>1, <4>1
        <5> QED
          BY <3>1, <5>1 DEF IsNewest
      <4> QED
        BY <1>1, <3>1, <4>1 DEF IsNewest
    <3>3. NewestEntry(u, 1, k) = u[i + 1][k]
      BY <1>1, <3>2, NewestUnique
    <3>4. NewestEntry(s, 0, k) = s[i][k]
      BY <3>1, NewestUnique
    <3> QED
      BY <1>1, <3>3, <3>4
  <2>2. CASE ~ \E i \in DOMAIN s : IsNewest(s, 0, i, k)
    <3>1. ASSUME NEW i \in DOMAIN u, IsNewest(u, 1, i, k) PROVE FALSE
      <4>1. i - 1 \in DOMAIN s /\ u[i] = s[i - 1] /\ i \in Nat
        BY <1>1, <3>1 DEF IsNewest
      <4>2. IsNewest(s, 0, i - 1, k)
        <5>1. ASSUME NEW j \in DOMAIN s, 0 < j, j < i - 1 PROVE s[j][k] = Absent
          <6>1. j + 1 \in DOMAIN u /\ u[j + 1] = s[j] /\ 1 < j + 1 /\ j + 1 < i
            BY <1>1, <4>1, <5>1
          <6> QED
            BY <3>1, <6>1 DEF IsNewest
        <5> QED
          BY <3>1, <4>1, <5>1 DEF IsNewest
      <4> QED
        BY <2>2, <4>1, <4>2
    <3> QED
      BY <2>2, <3>1 DEF NewestEntry
  <2> QED
    BY <2>1, <2>2
<1> QED
  BY <1>2, <1>3 DEF u

\* Overlaying tables gives tables.
LEMMA OverlayType ==
    ASSUME NEW old \in Table, NEW new \in Table
    PROVE  Overlay(old, new) \in Table
BY DEF Overlay, Table

\* current_size_ stays within its width, whatever is added and taken back.
LEMMA ResizedType ==
    ASSUME TypeOK, NEW k \in Key, NEW e \in Entry
    PROVE  Resized(memtable[k], e) \in 0..(SIZE_RANGE - 1)
<1>1. /\ \A d \in Entry : EntrySize(d) \in Nat
      /\ memtable[k] \in Entry \cup {Absent} /\ current_size \in Nat /\ SIZE_RANGE \in Nat \ {0}
  BY ReadConstants DEF EntrySize, Entry, TypeOK, Table
<1>2. current_size + EntrySize(e) - (IF memtable[k] = Absent THEN 0 ELSE EntrySize(memtable[k])) \in Int
  BY <1>1
<1>3. \A n \in Int : n % SIZE_RANGE \in 0..(SIZE_RANGE - 1)
  BY <1>1
<1> QED
  BY <1>2, <1>3 DEF Resized

-----------------------------------------------------------------------------
(* Type correctness.                                                       *)

LEMMA TypeStep == TypeOK /\ MergeInv /\ (\A r \in Reader : CursorInv(r)) /\ [Next]_vars => TypeOK'
<1> SUFFICES ASSUME TypeOK, MergeInv, \A r \in Reader : CursorInv(r), [Next]_vars PROVE TypeOK'
  OBVIOUS
<1> USE DEF writer, merge
<1>1. EmptyTable \in Table
  BY DEF EmptyTable, Table
<1>2. memtable \in Table /\ sstables \in Seq(Table)
  BY DEF TypeOK
<1>3. ASSUME NEW k \in Key, NEW e \in Entry, Write(k, e) PROVE TypeOK'
  <2>1. memtable' \in Table
    BY <1>3 DEF Write, TypeOK, Table
  <2>2. current_size' \in 0..(SIZE_RANGE - 1)
    BY <1>3, ResizedType DEF Write
  <2>3. Visible(e) \in Value \cup {Absent}
    BY VisibleType
  <2>4. current' \in [Key -> Value \cup {Absent}]
        /\ allowed' \in [Reader -> [Key -> SUBSET (Value \cup {Absent})]]
    BY <1>3, <2>3 DEF Write, TypeOK
  <2>5. writes' \in 0..MaxWrites /\ put' \in BOOLEAN /\ wpc' \in {"install", "idle"} /\ lost' \subseteq Key
    BY <1>3, ReadConstants DEF Write, TypeOK
  <2> QED
    BY <1>3, <2>1, <2>2, <2>4, <2>5 DEF Write, TypeOK
<1>4. CASE Install
  <2>1. <<memtable>> \o sstables \in Seq(Table)
    BY <1>2
  <2>2. broken' \in [Reader -> BOOLEAN]
    BY <1>4 DEF Install, VectorChanges, TypeOK
  <2> QED
    BY <1>4, <2>1, <2>2 DEF Install, TypeOK
<1>5. CASE ClearMemTable
  <2>1. overtaken' \in [Reader -> BOOLEAN]
    BY <1>5 DEF ClearMemTable, Overtake, TypeOK
  <2>2. wpc' \in {"compact", "idle"} /\ 0 \in 0..(SIZE_RANGE - 1)
    BY <1>5, ReadConstants DEF ClearMemTable
  <2>3. mcursor' \in Nat
    <3>1. Len(sstables) \in Nat
      BY <1>2
    <3> QED
      BY <1>5, <3>1 DEF ClearMemTable, TypeOK
  <2> QED
    BY <1>1, <1>5, <2>1, <2>2, <2>3 DEF ClearMemTable, TypeOK
<1>6. CASE CompactClear \/ CompactPush
  <2>1. overtaken' \in [Reader -> BOOLEAN] /\ broken' \in [Reader -> BOOLEAN]
    BY <1>6 DEF CompactClear, CompactPush, Overtake, VectorChanges, TypeOK
  <2>2. merged' \in Table /\ sstables' \in Seq(Table)
    <3>1. merged \in Table
      BY DEF TypeOK
    <3>2. merged' \in {[k \in Key |-> Visible(merged[k])], EmptyTable} /\ sstables' \in {<<>>, <<merged>>}
      BY <1>6 DEF CompactClear, CompactPush
    <3>3. <<>> \in Seq(Table) /\ <<merged>> \in Seq(Table)
      BY <3>1
    <3>4. [k \in Key |-> Visible(merged[k])] \in Table
      BY <3>1, VisibleType DEF Table, Entry
    <3> QED
      BY <1>1, <3>2, <3>3, <3>4
  <2>3. /\ UNCHANGED <<memtable, current_size, put, mcursor, raced, writes, current, rpc, call, cursor, found, allowed>>
        /\ wpc' \in {"push", "idle"}
        /\ lost' \subseteq Key /\ astray' \subseteq Key
    BY <1>6 DEF CompactClear, CompactPush, TypeOK
  <2> QED
    BY <2>1, <2>2, <2>3 DEF TypeOK
<1>16. CASE EnterMerge
  <2>1. raced' \in BOOLEAN
    BY <1>16 DEF EnterMerge
  <2>2. broken' \in [Reader -> BOOLEAN]
    BY <1>16 DEF EnterMerge, TypeOK
  <2> QED
    BY <1>16, <2>1, <2>2 DEF EnterMerge, TypeOK
<1>17. CASE MergeTable
  <2>1. mcursor \in DOMAIN sstables
    BY <1>17 DEF MergeTable, MergeInv
  <2>2. mcursor - 1 \in Nat /\ sstables[mcursor] \in Table
    BY <1>2, <2>1
  <2>3. PICK t \in Readable(sstables[mcursor]) :
           /\ merged' = Overlay(merged, t)
           /\ astray' = IF raced THEN Key ELSE astray \ {k \in Key : t[k] # Absent}
    BY <1>17 DEF MergeTable
  <2>4. t \in Table
    BY <2>2, <2>3 DEF Readable
  <2>5. merged' \in Table /\ astray' \subseteq Key
    BY <2>3, <2>4, OverlayType DEF TypeOK
  <2>6. /\ mcursor' = mcursor - 1 /\ raced' = FALSE /\ wpc' = "compact"
        /\ UNCHANGED <<memtable, current_size, sstables, put, lost, writes, current,
                       rpc, call, cursor, found, broken, overtaken, allowed>>
    BY <1>17 DEF MergeTable
  <2> QED
    BY <2>2, <2>5, <2>6 DEF TypeOK
<1>18. CASE MergeThrows
  BY <1>1, <1>18 DEF MergeThrows, TypeOK
<1>7. ASSUME NEW r \in Reader, NEW kind \in {"get", "scan"}, NEW keys \in SUBSET Key,
             Start(r, kind, keys)
      PROVE  /\ call' \in [Reader -> [kind : {"get", "scan"}, keys : SUBSET Key]]
             /\ found' \in [Reader -> Table]
             /\ broken' \in [Reader -> BOOLEAN] /\ overtaken' \in [Reader -> BOOLEAN]
             /\ allowed' \in [Reader -> [Key -> SUBSET (Value \cup {Absent})]]
             /\ UNCHANGED <<writer, raced>>
  <2>1. /\ call' = [call EXCEPT ![r] = [kind |-> kind, keys |-> keys]]
        /\ found' = [found EXCEPT ![r] = EmptyTable]
        /\ broken' = [broken EXCEPT ![r] = FALSE]
        /\ overtaken' = [overtaken EXCEPT ![r] = (wpc = "push")]
        /\ UNCHANGED <<writer, raced>>
    BY <1>7 DEF Start
  <2>2. [k \in Key |-> IF k \in lost THEN Value \cup {Absent} ELSE {current[k]}]
           \in [Key -> SUBSET (Value \cup {Absent})]
    BY DEF TypeOK
  <2>3. allowed' \in [Reader -> [Key -> SUBSET (Value \cup {Absent})]]
    BY <1>7, <2>2 DEF Start, TypeOK
  <2> QED
    BY <1>1, <2>1, <2>3 DEF TypeOK
<1>8. ASSUME NEW r \in Reader, NEW k \in Key, Get(r, k) PROVE TypeOK'
  BY <1>7, <1>8 DEF Get, TypeOK
<1>9. ASSUME NEW r \in Reader, Scan(r) PROVE TypeOK'
  <2>1. Len(sstables) \in Nat
    BY <1>2
  <2> QED
    BY <1>7, <1>9, <2>1 DEF Scan, TypeOK
<1>10. ASSUME NEW r \in Reader, ReadMemTable(r) PROVE TypeOK'
  <2>1. found' \in [Reader -> Table]
    BY <1>2, <1>10, OverlayType DEF ReadMemTable, TypeOK
  <2>2. /\ rpc' \in [Reader -> {"idle", "mem", "walk", "inside", "done"}]
        /\ cursor' \in [Reader -> Nat]
    <3>1. cursor' = cursor \/ cursor' = [cursor EXCEPT ![r] = 1]
      BY <1>10 DEF ReadMemTable
    <3>2. rpc' = [rpc EXCEPT ![r] = "done"] \/ rpc' = [rpc EXCEPT ![r] = "walk"]
      BY <1>10 DEF ReadMemTable
    <3>3. cursor' \in [Reader -> Nat]
      <4>1. cursor \in [Reader -> Nat] /\ [cursor EXCEPT ![r] = 1] \in [Reader -> Nat]
        BY DEF TypeOK
      <4> QED
        BY <3>1, <4>1
    <3>4. rpc' \in [Reader -> {"idle", "mem", "walk", "inside", "done"}]
      BY <3>2 DEF TypeOK
    <3> QED
      BY <3>3, <3>4
  <2>3. UNCHANGED <<writer, raced, call, broken, overtaken, allowed>>
    BY <1>10 DEF ReadMemTable
  <2> QED
    BY <2>1, <2>2, <2>3 DEF TypeOK
<1>11. ASSUME NEW r \in Reader, EnterTable(r) PROVE TypeOK'
  <2>1. broken' \in [Reader -> BOOLEAN] /\ raced' \in BOOLEAN
    BY <1>11 DEF EnterTable, TypeOK
  <2> QED
    BY <1>11, <2>1 DEF EnterTable, TypeOK
<1>19. ASSUME NEW r \in Reader, StrayMeets(r) PROVE TypeOK'
  <2>1. broken' \in [Reader -> BOOLEAN] /\ raced' \in BOOLEAN
    BY <1>19 DEF StrayMeets, TypeOK
  <2> QED
    BY <1>19, <2>1 DEF StrayMeets, TypeOK
<1>12. ASSUME NEW r \in Reader, LeaveTable(r) PROVE TypeOK'
  <2>1. cursor[r] \in DOMAIN sstables /\ ~broken[r] /\ rpc[r] = "inside"
    BY <1>12 DEF LeaveTable, CursorInv, Walking
  <2>2. sstables[cursor[r]] \in Table /\ cursor[r] - 1 \in Nat /\ cursor[r] + 1 \in Nat
    BY <1>2, <2>1
  <2>3. found' \in [Reader -> Table]
    <3>1. TakeEntries(r, sstables[cursor[r]]) \in Table
      BY <2>2, OverlayType DEF TakeEntries, TypeOK
    <3> QED
      BY <1>12, <3>1 DEF LeaveTable, TypeOK
  <2>4. cursor' \in [Reader -> Nat] /\ rpc' \in [Reader -> {"idle", "mem", "walk", "inside", "done"}]
    BY <1>12, <2>2 DEF LeaveTable, TypeOK
  <2> QED
    BY <1>12, <2>3, <2>4 DEF LeaveTable, TypeOK
<1>13. ASSUME NEW r \in Reader, WalkEnds(r) \/ BrokenEnds(r) PROVE TypeOK'
  BY <1>13 DEF WalkEnds, BrokenEnds, TypeOK
<1>14. ASSUME NEW r \in Reader, Return(r) PROVE TypeOK'
  BY <1>1, <1>14 DEF Return, NoCall, TypeOK
<1>15. CASE UNCHANGED vars
  BY <1>15 DEF vars, TypeOK
<1> QED
  BY <1>3, <1>4, <1>5, <1>6, <1>8, <1>9, <1>10, <1>11, <1>12, <1>13, <1>14, <1>15,
     <1>16, <1>17, <1>18, <1>19
     DEF Next, WriterStep, ReaderStep

-----------------------------------------------------------------------------
(* What the writer shares.                                                 *)

\* Flush and compaction move entries without hiding or reviving one.
LEMMA SharedStep == TypeOK /\ SharedInv /\ MergeInv /\ [Next]_vars => SharedInv'
<1> SUFFICES ASSUME TypeOK, SharedInv, MergeInv, [Next]_vars PROVE SharedInv'
  OBVIOUS
<1> USE DEF writer
<1>1. memtable \in Table /\ merged \in Table /\ sstables \in Seq(Table)
      /\ current \in [Key -> Value \cup {Absent}]
  BY DEF TypeOK
<1>2. ASSUME NEW k \in Key, NEW e \in Entry, Write(k, e) PROVE SharedInv'
  <2>1. /\ wpc = "idle" /\ wpc' \in {"install", "idle"} /\ sstables' = sstables
        /\ memtable' = [memtable EXCEPT ![k] = e]
        /\ current' = [current EXCEPT ![k] = Visible(e)] /\ e # Absent
        /\ lost' = lost \ {k}
    BY <1>2, ReadConstants DEF Write
  <2> QED
    BY <1>1, <2>1 DEF SharedInv, Table
<1>3. CASE Install
  <2>1. /\ wpc = "install" /\ wpc' = "clear" /\ sstables' = <<memtable>> \o sstables
        /\ UNCHANGED <<memtable, current, lost>>
    BY <1>3 DEF Install
  <2>2. sstables' # <<>> /\ sstables'[1] = memtable
    BY <1>1, <2>1
  <2>3. \A k \in Key : memtable[k] = Absent => NewestEntry(sstables', 0, k) = NewestEntry(sstables, 0, k)
    BY <1>1, <2>1, NewestPush
  <2> QED
    BY <2>1, <2>2, <2>3 DEF SharedInv
<1>4. CASE ClearMemTable
  <2>1. /\ wpc = "clear" /\ wpc' \in {"compact", "idle"} /\ UNCHANGED <<sstables, current, lost>>
        /\ \A k \in Key : memtable'[k] = Absent
    BY <1>4 DEF ClearMemTable, EmptyTable
  <2>2. 1 \in DOMAIN sstables /\ sstables[1] = memtable
    BY <1>1, <2>1 DEF SharedInv
  <2>3. \A k \in Key : memtable[k] # Absent => NewestEntry(sstables, 0, k) = memtable[k]
    BY <1>1, <2>2, NewestDown
  <2> QED
    BY <2>1, <2>3 DEF SharedInv
<1>5. CASE CompactClear
  <2>1. /\ wpc = "compact" /\ mcursor = 0 /\ wpc' = "push" /\ UNCHANGED <<memtable, current>>
        /\ merged' = [k \in Key |-> Visible(merged[k])] /\ lost' = lost \cup astray
    BY <1>5 DEF CompactClear
  <2>2. \A k \in Key \ astray : merged[k] = NewestEntry(sstables, 0, k)
    BY <2>1 DEF MergeInv
  <2> QED
    BY <2>1, <2>2 DEF SharedInv
<1>6. CASE CompactPush
  <2>1. wpc = "push" /\ wpc' = "idle" /\ sstables' = <<merged>> /\ UNCHANGED <<memtable, current, lost>>
    BY <1>6 DEF CompactPush
  <2>2. ASSUME NEW k \in Key PROVE NewestEntry(<<merged>>, 0, k) = merged[k]
    <3>1. <<merged>> = <<merged>> \o <<>> /\ <<>> \in Seq(Table) /\ DOMAIN <<>> = {}
      BY <1>1
    <3>2. NewestEntry(<<>>, 0, k) = Absent
      BY <3>1, NoNewest
    <3>3. NewestEntry(<<merged>> \o <<>>, 0, k) = IF merged[k] # Absent THEN merged[k] ELSE Absent
      BY <1>1, <3>1, <3>2, NewestPush
    <3> QED
      BY <3>1, <3>3
  <2>3. \A k \in Key : merged[k] = current[k] => Visible(merged[k]) = merged[k]
    BY <1>1, ReadConstants DEF Visible
  <2> QED
    BY <2>1, <2>2, <2>3 DEF SharedInv
<1>7. ASSUME UNCHANGED <<memtable, sstables, wpc, merged, current, lost>> PROVE SharedInv'
  BY <1>7 DEF SharedInv
<1>10. CASE EnterMerge \/ MergeTable \/ MergeThrows
  <2>1. /\ wpc \in {"compact", "merge"} /\ wpc' \in {"compact", "merge", "idle"}
        /\ UNCHANGED <<memtable, sstables, current, lost>>
    BY <1>10 DEF EnterMerge, MergeTable, MergeThrows
  <2> QED
    BY <2>1 DEF SharedInv
<1>8. ASSUME NEW r \in Reader, (\E k \in Key : Get(r, k)) \/ Scan(r) \/ ReaderStep(r) PROVE SharedInv'
  BY <1>7, <1>8 DEF Get, Scan, Start, ReaderStep, ReadMemTable, EnterTable, LeaveTable, WalkEnds,
     StrayMeets, BrokenEnds, Return
<1>9. CASE UNCHANGED vars
  BY <1>7, <1>9 DEF vars
<1> QED
  BY <1>2, <1>3, <1>4, <1>5, <1>6, <1>8, <1>9, <1>10 DEF Next, WriterStep

\* compact() merges what it reads alone exactly, table by table.
LEMMA MergeStep == TypeOK /\ MergeInv /\ [Next]_vars => MergeInv'
<1> SUFFICES ASSUME TypeOK, MergeInv, [Next]_vars PROVE MergeInv'
  OBVIOUS
<1> USE DEF writer, merge
<1>1. /\ merged \in Table /\ sstables \in Seq(Table) /\ mcursor \in Nat
      /\ Len(sstables) \in Nat /\ DOMAIN sstables = 1..Len(sstables)
  BY DEF TypeOK
<1>2. ASSUME NEW k \in Key, NEW e \in Entry, Write(k, e) PROVE MergeInv'
  BY <1>2 DEF Write, MergeInv
<1>3. CASE Install
  BY <1>3 DEF Install, MergeInv
<1>4. CASE ClearMemTable
  <2>1. /\ wpc = "clear" /\ astray = {} /\ merged = EmptyTable
        /\ UNCHANGED <<sstables, merged, astray>>
    BY <1>4 DEF ClearMemTable, MergeInv
  <2>2. CASE wpc' = "compact"
    <3>1. mcursor' = Len(sstables)
      BY <1>4, <2>2 DEF ClearMemTable
    <3>2. \A k \in Key : NewestEntry(sstables, Len(sstables), k) = Absent
      BY <1>1, NoNewest
    <3> QED
      BY <1>1, <2>1, <2>2, <3>1, <3>2 DEF MergeInv, EmptyTable
  <2>3. CASE wpc' = "idle"
    BY <1>4, <2>1, <2>3 DEF ClearMemTable, MergeInv
  <2> QED
    BY <1>4, <2>2, <2>3 DEF ClearMemTable
<1>5. CASE EnterMerge
  <2>1. /\ wpc = "compact" /\ mcursor > 0 /\ wpc' = "merge"
        /\ UNCHANGED <<sstables, mcursor, merged, astray>>
    BY <1>5 DEF EnterMerge
  <2> QED
    BY <1>1, <2>1 DEF MergeInv
<1>6. CASE MergeTable
  <2>1. PICK t \in Readable(sstables[mcursor]) :
           /\ merged' = Overlay(merged, t)
           /\ astray' = IF raced THEN Key ELSE astray \ {k \in Key : t[k] # Absent}
    BY <1>6 DEF MergeTable
  <2>2. /\ wpc = "merge" /\ wpc' = "compact" /\ mcursor' = mcursor - 1 /\ UNCHANGED sstables
        /\ mcursor \in DOMAIN sstables
    BY <1>6 DEF MergeTable, MergeInv
  <2>3. ASSUME NEW k \in Key \ astray' PROVE merged'[k] = NewestEntry(sstables, mcursor - 1, k)
    <3>1. ~raced /\ t = sstables[mcursor]
      BY <2>1, <2>3 DEF Readable
    <3>2. merged'[k] = IF t[k] # Absent THEN t[k] ELSE merged[k]
      BY <2>1 DEF Overlay
    <3>3. t[k] = Absent => merged[k] = NewestEntry(sstables, mcursor, k)
      BY <2>1, <2>2, <3>1 DEF MergeInv
    <3>4. NewestEntry(sstables, mcursor - 1, k)
             = IF t[k] # Absent THEN t[k] ELSE NewestEntry(sstables, mcursor, k)
      BY <1>1, <2>2, <3>1, NewestDown
    <3> QED
      BY <3>2, <3>3, <3>4
  <2>4. mcursor' <= Len(sstables')
    BY <1>1, <2>2
  <2> QED
    BY <2>2, <2>3, <2>4 DEF MergeInv
<1>7. CASE MergeThrows
  BY <1>7 DEF MergeThrows, MergeInv
<1>8. CASE CompactClear \/ CompactPush
  <2>1. CASE CompactClear
    BY <2>1 DEF CompactClear, MergeInv
  <2>2. CASE CompactPush
    <3>1. wpc = "push" /\ wpc' = "idle" /\ merged' = EmptyTable /\ UNCHANGED <<mcursor, astray>>
      BY <2>2 DEF CompactPush
    <3> QED
      BY <3>1 DEF MergeInv
  <2> QED
    BY <1>8, <2>1, <2>2
<1>9. ASSUME UNCHANGED <<sstables, wpc, mcursor, merged, astray>> PROVE MergeInv'
  BY <1>9 DEF MergeInv
<1>10. ASSUME NEW r \in Reader, (\E k \in Key : Get(r, k)) \/ Scan(r) \/ ReaderStep(r) PROVE MergeInv'
  BY <1>9, <1>10 DEF Get, Scan, Start, ReaderStep, ReadMemTable, EnterTable, LeaveTable, WalkEnds,
     StrayMeets, BrokenEnds, Return
<1>11. CASE UNCHANGED vars
  BY <1>9, <1>11 DEF vars
<1> QED
  BY <1>2, <1>3, <1>4, <1>5, <1>6, <1>7, <1>8, <1>10, <1>11 DEF Next, WriterStep

-----------------------------------------------------------------------------
(* One reader, and everything that can happen beside it.                   *)

AnswerInv(r) == rpc[r] = "done" /\ ~broken[r] /\ ~overtaken[r] => Regular(r)

ReadInv(r) == CursorInv(r) /\ CallInv(r) /\ GetInv(r) /\ ScanInv(r) /\ AnswerInv(r)

\* What another reader does leaves a read alone, or breaks it.
LEMMA OtherReader ==
    ASSUME TypeOK, NEW r \in Reader, ReadInv(r), UNCHANGED writer,
           rpc'[r] = rpc[r], call'[r] = call[r], cursor'[r] = cursor[r], found'[r] = found[r],
           overtaken'[r] = overtaken[r], allowed'[r] = allowed[r], ~broken'[r] => ~broken[r]
    PROVE  ReadInv(r)'
<1> USE DEF writer, Walking, Active
<1>1. CursorInv(r)' /\ CallInv(r)'
  BY DEF ReadInv, CursorInv, CallInv
<1>2. GetInv(r)' /\ ScanInv(r)'
  BY DEF ReadInv, GetInv, ScanInv
<1>3. AnswerInv(r)'
  BY DEF ReadInv, AnswerInv, Regular
<1> QED
  BY <1>1, <1>2, <1>3 DEF ReadInv

\* A write adds its value to what the reads under way may answer.
LEMMA WriteKeepsRead ==
    ASSUME TypeOK, NEW r \in Reader, ReadInv(r), NEW k \in Key, NEW e \in Entry, Write(k, e)
    PROVE  ReadInv(r)'
<1> USE DEF Walking, Active
<1>1. /\ wpc = "idle" /\ wpc' # "push" /\ e # Absent
      /\ memtable' = [memtable EXCEPT ![k] = e]
      /\ current' = [current EXCEPT ![k] = Visible(e)] /\ lost' \subseteq lost
      /\ UNCHANGED <<sstables, rpc, call, cursor, found, broken, overtaken>>
  BY ReadConstants DEF Write
<1>2. /\ allowed[r] \in [Key -> SUBSET (Value \cup {Absent})]
      /\ allowed'[r] = IF Active(r) THEN [allowed[r] EXCEPT ![k] = @ \cup {Visible(e)}] ELSE allowed[r]
  BY DEF Write, TypeOK
<1>3. \A j \in Key : allowed[r][j] \subseteq allowed'[r][j]
  BY <1>2
<1>4. Active(r) => Visible(e) \in allowed'[r][k]
  BY <1>2
<1>5. memtable \in Table /\ current \in [Key -> Value \cup {Absent}] /\ call[r].keys \in SUBSET Key
      /\ lost \subseteq Key
  BY DEF TypeOK
<1>10. \A j \in Key : allowed[r][j] = Value \cup {Absent} => allowed'[r][j] = Value \cup {Absent}
  <2>1. Visible(e) \in Value \cup {Absent}
    BY VisibleType
  <2> QED
    BY <1>2, <2>1
<1>6. CursorInv(r)' /\ CallInv(r)'
  <2>1. CursorInv(r)'
    BY <1>1 DEF ReadInv, CursorInv
  <2>2. CASE Active(r)
    <3>1. \A j \in Key : current'[j] \in allowed'[r][j]
      BY <1>1, <1>3, <1>4, <1>5, <2>2 DEF ReadInv, CallInv
    <3>2. overtaken'[r] \/ \A j \in lost' : allowed'[r][j] = Value \cup {Absent}
      BY <1>1, <1>5, <1>10, <2>2 DEF ReadInv, CallInv
    <3> QED
      BY <1>1, <2>1, <3>1, <3>2 DEF ReadInv, CallInv
  <2>3. CASE ~Active(r)
    BY <1>1, <2>1, <2>3 DEF ReadInv, CallInv
  <2> QED
    BY <2>1, <2>2, <2>3
<1>7. GetInv(r)'
  BY <1>1, <1>3, <1>5 DEF ReadInv, GetInv
<1>8. ScanInv(r)'
  BY <1>1, <1>3, <1>5 DEF ReadInv, ScanInv, Table
<1>9. AnswerInv(r)'
  BY <1>1, <1>2 DEF ReadInv, AnswerInv, Regular
<1> QED
  BY <1>6, <1>7, <1>8, <1>9 DEF ReadInv

\* The vector changes: whoever walks is broken, whoever reads the MemTable is not affected.
LEMMA VectorKeepsRead ==
    ASSUME TypeOK, NEW r \in Reader, ReadInv(r), VectorChanges,
           UNCHANGED <<memtable, current, rpc, call, cursor, found, allowed>>,
           Active(r) /\ (wpc' = "push" \/ lost' # lost) => overtaken'[r],
           ~overtaken'[r] => ~overtaken[r]
    PROVE  ReadInv(r)'
<1> USE DEF Walking, Active
<1>1. broken'[r] = (broken[r] \/ Walking(r)) /\ broken[r] \in BOOLEAN
  BY DEF VectorChanges, TypeOK
<1>2. ~broken'[r] => ~broken[r] /\ ~Walking(r)'
  BY <1>1
<1>3. CursorInv(r)' /\ CallInv(r)'
  BY <1>2 DEF ReadInv, CursorInv, CallInv
<1>4. GetInv(r)' /\ ScanInv(r)'
  BY <1>2 DEF ReadInv, GetInv, ScanInv
<1>5. AnswerInv(r)'
  BY <1>2 DEF ReadInv, AnswerInv, Regular
<1> QED
  BY <1>3, <1>4, <1>5 DEF ReadInv

\* The MemTable is cleared: a scan() under way is overtaken, a get() is not affected.
LEMMA ClearKeepsRead ==
    ASSUME TypeOK, NEW r \in Reader, ReadInv(r), ClearMemTable
    PROVE  ReadInv(r)'
<1> USE DEF Walking, Active
<1>1. /\ wpc' # "push" /\ UNCHANGED <<sstables, current, lost, rpc, call, cursor, found, broken, allowed>>
  BY DEF ClearMemTable
<1>2. /\ overtaken'[r] = (overtaken[r] \/ (Active(r) /\ call[r].kind = "scan"))
      /\ overtaken[r] \in BOOLEAN
  BY DEF ClearMemTable, Overtake, TypeOK
<1>3. CursorInv(r)' /\ CallInv(r)'
  BY <1>1, <1>2 DEF ReadInv, CursorInv, CallInv
<1>4. GetInv(r)' /\ ScanInv(r)'
  BY <1>1, <1>2 DEF ReadInv, GetInv, ScanInv
<1>5. AnswerInv(r)'
  BY <1>1, <1>2 DEF ReadInv, AnswerInv, Regular
<1> QED
  BY <1>3, <1>4, <1>5 DEF ReadInv

\* compact() reads a table: whoever is inside it is broken, the others are not affected.
LEMMA MergeKeepsRead ==
    ASSUME TypeOK, NEW r \in Reader, ReadInv(r), EnterMerge \/ MergeTable \/ MergeThrows
    PROVE  ReadInv(r)'
<1> USE DEF Walking, Active
<1>1. /\ wpc' # "push"
      /\ ~broken'[r] => ~broken[r]
      /\ UNCHANGED <<memtable, sstables, current, lost, rpc, call, cursor, found, overtaken, allowed>>
  BY DEF EnterMerge, MergeTable, MergeThrows, TypeOK
<1>2. CursorInv(r)' /\ CallInv(r)'
  BY <1>1 DEF ReadInv, CursorInv, CallInv
<1>3. GetInv(r)' /\ ScanInv(r)'
  BY <1>1 DEF ReadInv, GetInv, ScanInv
<1>4. AnswerInv(r)'
  BY <1>1 DEF ReadInv, AnswerInv, Regular
<1> QED
  BY <1>2, <1>3, <1>4 DEF ReadInv

\* A call starts with what is current.
LEMMA StartsRead ==
    ASSUME TypeOK, NEW r \in Reader, (\E k \in Key : Get(r, k)) \/ Scan(r)
    PROVE  ReadInv(r)'
<1> USE DEF Walking, Active, writer
<1>1. /\ sstables \in Seq(Table) /\ Len(sstables) \in Nat
      /\ UNCHANGED <<memtable, sstables, wpc, current, lost>>
      /\ current \in [Key -> Value \cup {Absent}] /\ lost \subseteq Key
  BY DEF TypeOK, Get, Scan, Start
<1>2. /\ found'[r] = EmptyTable /\ broken'[r] = FALSE /\ overtaken'[r] = (wpc = "push")
      /\ \A k \in Key : allowed'[r][k] = IF k \in lost THEN Value \cup {Absent} ELSE {current[k]}
  <2>1. /\ found' = [found EXCEPT ![r] = EmptyTable] /\ broken' = [broken EXCEPT ![r] = FALSE]
        /\ overtaken' = [overtaken EXCEPT ![r] = (wpc = "push")]
        /\ allowed' = [allowed EXCEPT ![r] = [k \in Key |-> IF k \in lost THEN Value \cup {Absent}
                                                                       ELSE {current[k]}]]
    BY Zenon DEF Get, Scan, Start
  <2>2. /\ found \in [Reader -> Table] /\ broken \in [Reader -> BOOLEAN] /\ overtaken \in [Reader -> BOOLEAN]
        /\ DOMAIN allowed = Reader
    BY DEF TypeOK
  <2>3. allowed'[r] = [k \in Key |-> IF k \in lost THEN Value \cup {Absent} ELSE {current[k]}]
    BY <2>1, <2>2, Zenon
  <2> QED
    BY <2>1, <2>2, <2>3
<1>3. ASSUME NEW k \in Key, Get(r, k) PROVE ReadInv(r)'
  <2>1. rpc'[r] = "mem" /\ call'[r].kind = "get" /\ call'[r].keys = {k}
    BY <1>3 DEF TypeOK, Get, Start
  <2> QED
    <3>1. \A j \in Key : current'[j] \in allowed'[r][j]
      BY <1>1, <1>2
    <3>2. \A j \in lost' : allowed'[r][j] = Value \cup {Absent}
      BY <1>1, <1>2
    <3> QED
      BY <1>1, <1>2, <2>1, <3>1, <3>2 DEF ReadInv, CursorInv, CallInv, GetInv, ScanInv, AnswerInv
<1>4. CASE Scan(r)
  <2>1. rpc'[r] = "walk" /\ call'[r].kind = "scan" /\ cursor'[r] = Len(sstables)
    BY <1>4 DEF TypeOK, Scan, Start
  <2>2. ASSUME NEW k \in Key PROVE found'[r][k] = NewestEntry(sstables', cursor'[r], k)
    <3>1. \A j \in DOMAIN sstables : ~(j > Len(sstables))
      BY <1>1
    <3>2. NewestEntry(sstables, Len(sstables), k) = Absent
      BY <1>1, <3>1, NoNewest
    <3> QED
      BY <1>1, <1>2, <2>1, <3>2 DEF EmptyTable
  <2>3. CursorInv(r)' /\ CallInv(r)'
    <3>1. cursor'[r] <= Len(sstables') /\ rpc'[r] # "inside" /\ call'[r].kind # "get"
      BY <1>1, <2>1
    <3>2. \A k \in Key : current'[k] \in allowed'[r][k]
      BY <1>1, <1>2
    <3>3. wpc' = "push" => overtaken'[r]
      BY <1>1, <1>2
    <3>4. \A k \in lost' : allowed'[r][k] = Value \cup {Absent}
      BY <1>1, <1>2
    <3> QED
      BY <3>1, <3>2, <3>3, <3>4 DEF CursorInv, CallInv
  <2>4. GetInv(r)' /\ ScanInv(r)' /\ AnswerInv(r)'
    BY <1>2, <2>1, <2>2 DEF GetInv, ScanInv, AnswerInv
  <2> QED
    BY <2>3, <2>4 DEF ReadInv
<1> QED
  BY <1>3, <1>4

\* The MemTable answers with what is current; a get() that misses there finds the newest entry
\* of its key in the tables.
LEMMA ReadMemTableKeeps ==
    ASSUME TypeOK, SharedInv, NEW r \in Reader, ReadInv(r), ReadMemTable(r)
    PROVE  ReadInv(r)'
<1> USE DEF Walking, Active, writer
<1>1. /\ rpc[r] = "mem" /\ UNCHANGED <<memtable, sstables, wpc, merged, current, lost, call, broken, overtaken, allowed>>
      /\ call[r].kind \in {"get", "scan"} /\ call[r].keys \in SUBSET Key
      /\ memtable \in Table /\ found[r] \in Table /\ sstables \in Seq(Table)
  BY DEF ReadMemTable, TypeOK
<1>2. \A k \in Key : found'[r][k] = IF memtable[k] # Absent THEN memtable[k] ELSE found[r][k]
  BY DEF ReadMemTable, TypeOK, Overlay
<1>3. \A k \in Key : current[k] \in allowed[r][k]
  BY <1>1 DEF ReadInv, CallInv
<1>4. /\ wpc = "push" => overtaken[r]
      /\ overtaken[r] \/ \A k \in lost : allowed[r][k] = Value \cup {Absent}
  BY <1>1 DEF ReadInv, CallInv
<1>7. \A k \in Key : /\ NewestEntry(sstables, 0, k) \in Entry \cup {Absent}
                     /\ Visible(NewestEntry(sstables, 0, k)) \in Value \cup {Absent}
                     /\ memtable[k] \in Entry \cup {Absent}
                     /\ Visible(memtable[k]) \in Value \cup {Absent}
  BY <1>1, NewestType, VisibleType DEF Table
<1>5. CASE call[r].kind = "scan"
  <2>1. rpc'[r] = "done"
    BY <1>1, <1>5 DEF ReadMemTable, TypeOK
  <2>2. ~broken[r] /\ ~overtaken[r] => \A k \in Key : Visible(found'[r][k]) \in allowed[r][k]
    <3> SUFFICES ASSUME ~broken[r], ~overtaken[r], NEW k \in Key PROVE Visible(found'[r][k]) \in allowed[r][k]
      OBVIOUS
    <3>1. CASE memtable[k] = Absent
      BY <1>1, <1>2, <1>5, <3>1 DEF ReadInv, ScanInv
    <3>2. CASE memtable[k] # Absent
      <4>1. k \notin lost => Visible(memtable[k]) = current[k]
        BY <3>2 DEF SharedInv
      <4> QED
        BY <1>2, <1>3, <1>4, <1>7, <3>2, <4>1
    <3> QED
      BY <3>1, <3>2
  <2>3. AnswerInv(r)'
    BY <1>1, <1>3, <2>2 DEF AnswerInv, Regular
  <2> QED
    BY <1>1, <1>5, <2>1, <2>3 DEF ReadInv, CursorInv, CallInv, GetInv, ScanInv
<1>6. CASE call[r].kind = "get"
  <2>1. PICK k \in Key : call[r].keys = {k}
    BY <1>1, <1>6 DEF ReadInv, CallInv
  <2>2. CASE memtable[k] # Absent
    <3>1. rpc'[r] = "done"
      BY <1>1, <2>1, <2>2 DEF ReadMemTable, TypeOK, Hit
    <3>2. ~overtaken[r] => Visible(found'[r][k]) \in allowed[r][k]
      <4>1. k \notin lost => Visible(memtable[k]) = current[k]
        BY <2>2 DEF SharedInv
      <4> QED
        BY <1>2, <1>3, <1>4, <1>7, <2>2, <4>1
    <3>3. AnswerInv(r)'
      BY <1>1, <2>1, <3>2 DEF AnswerInv, Regular
    <3> QED
      BY <1>1, <1>6, <2>1, <3>1, <3>3 DEF ReadInv, CursorInv, CallInv, GetInv, ScanInv
  <2>3. CASE memtable[k] = Absent
    <3>1. rpc'[r] = "walk" /\ cursor'[r] = 1
      BY <1>1, <1>6, <2>1, <2>3 DEF ReadMemTable, TypeOK, Hit
    <3>2. ~overtaken[r] => Visible(NewestEntry(sstables, 0, k)) \in allowed[r][k]
      <4>1. ~overtaken[r] /\ k \notin lost => Visible(NewestEntry(sstables, 0, k)) = current[k]
        BY <1>4, <2>3 DEF SharedInv
      <4> QED
        BY <1>3, <1>4, <1>7, <4>1
    <3>3. \A j \in DOMAIN sstables : ~(j < 1)
      BY <1>1
    <3>4. ~overtaken[r] /\ ~broken[r] => found'[r][k] = Absent
      BY <1>1, <1>2, <1>6, <2>3 DEF ReadInv, GetInv, EmptyTable
    <3>5. CursorInv(r)' /\ CallInv(r)' /\ ScanInv(r)' /\ AnswerInv(r)'
      BY <1>1, <1>3, <1>4, <1>6, <2>1, <3>1 DEF CursorInv, CallInv, ScanInv, AnswerInv
    <3>6. GetInv(r)'
      BY <1>1, <1>3, <2>1, <3>1, <3>2, <3>3, <3>4 DEF GetInv
    <3> QED
      BY <3>5, <3>6 DEF ReadInv
  <2> QED
    BY <2>2, <2>3
<1> QED
  BY <1>1, <1>5, <1>6

\* A read reaches a table; it and those inside are broken if it is not alone.
LEMMA EnterKeepsReads ==
    ASSUME TypeOK, NEW q \in Reader, EnterTable(q), NEW r \in Reader, ReadInv(r)
    PROVE  ReadInv(r)'
<1>1. /\ UNCHANGED <<writer, call, cursor, found, overtaken, allowed>>
      /\ rpc[q] = "walk" /\ cursor[q] \in DOMAIN sstables /\ rpc' = [rpc EXCEPT ![q] = "inside"]
  BY DEF EnterTable
<1>2. ~broken'[r] => ~broken[r]
  BY DEF EnterTable, TypeOK
<1>3. CASE r # q
  <2>1. rpc'[r] = rpc[r]
    BY <1>1, <1>3 DEF TypeOK
  <2> QED
    BY <1>1, <1>2, <2>1, OtherReader
<1>4. CASE r = q
  <2> USE DEF Walking, Active, writer
  <2>1. rpc[r] = "walk" /\ rpc'[r] = "inside" /\ cursor[r] \in DOMAIN sstables
    BY <1>1, <1>4 DEF TypeOK
  <2>2. CursorInv(r)' /\ CallInv(r)'
    BY <1>1, <1>2, <2>1 DEF ReadInv, CursorInv, CallInv
  <2>3. GetInv(r)' /\ ScanInv(r)' /\ AnswerInv(r)'
    BY <1>1, <1>2, <2>1 DEF ReadInv, GetInv, ScanInv, AnswerInv
  <2> QED
    BY <2>2, <2>3 DEF ReadInv
<1> QED
  BY <1>3, <1>4

\* A read leaves a table with the newest entries of the tables it has seen.
LEMMA LeaveTableKeeps ==
    ASSUME TypeOK, NEW r \in Reader, ReadInv(r), LeaveTable(r)
    PROVE  ReadInv(r)'
<1> USE DEF Walking, Active, writer
<1> DEFINE c == cursor[r]
           t == sstables[c]
<1>1. /\ rpc[r] = "inside" /\ ~broken[r] /\ c \in DOMAIN sstables /\ c \in Nat
      /\ UNCHANGED <<memtable, sstables, wpc, merged, current, lost, call, broken, overtaken, allowed>>
      /\ call[r].kind \in {"get", "scan"} /\ call[r].keys \in SUBSET Key
      /\ sstables \in Seq(Table) /\ found[r] \in Table
  BY DEF LeaveTable, TypeOK, ReadInv, CursorInv
<1>2. t \in Table /\ Len(sstables) \in Nat /\ DOMAIN sstables = 1..Len(sstables)
  BY <1>1
<1>3. CASE call[r].kind = "get"
  <2>1. PICK k \in Key : call[r].keys = {k}
    BY <1>1, <1>3 DEF ReadInv, CallInv
  <2>2. found'[r] = t /\ cursor'[r] = c + 1
    BY <1>3 DEF LeaveTable, TypeOK, TakeEntries
  <2>3. /\ Visible(NewestEntry(sstables, 0, k)) \in allowed[r][k] \/ overtaken[r]
        /\ overtaken[r] \/ \A j \in DOMAIN sstables : j < c => sstables[j][k] = Absent
    BY <1>1, <1>3, <2>1 DEF ReadInv, GetInv
  <2>4. CASE t[k] # Absent
    <3>1. rpc'[r] = "done"
      BY <1>1, <1>3, <2>1, <2>4 DEF LeaveTable, TypeOK, Hit
    <3>2. overtaken[r] \/ NewestEntry(sstables, 0, k) = t[k]
      <4> HIDE DEF c
      <4>1. ~overtaken[r] => IsNewest(sstables, 0, c, k)
        BY <1>1, <1>2, <2>3, <2>4 DEF IsNewest
      <4>2. sstables \in Seq(Table) /\ c \in DOMAIN sstables /\ 0 \in Nat
        BY <1>1
      <4>3. IsNewest(sstables, 0, c, k) => NewestEntry(sstables, 0, k) = sstables[c][k]
        BY <4>2, NewestUnique, Zenon
      <4> QED
        BY <4>1, <4>3
    <3>3. AnswerInv(r)'
      BY <1>1, <2>1, <2>2, <2>3, <3>2 DEF AnswerInv, Regular
    <3>4. CursorInv(r)' /\ CallInv(r)' /\ GetInv(r)' /\ ScanInv(r)'
      BY <1>1, <1>3, <2>1, <3>1 DEF CursorInv, CallInv, GetInv, ScanInv
    <3> QED
      BY <3>3, <3>4 DEF ReadInv
  <2>5. CASE t[k] = Absent
    <3>1. rpc'[r] = "walk"
      BY <1>1, <1>3, <2>1, <2>5 DEF LeaveTable, TypeOK, Hit
    <3>2. overtaken[r] \/ \A j \in DOMAIN sstables : j < c + 1 => sstables[j][k] = Absent
      <4>1. \A j \in DOMAIN sstables : j < c + 1 => j < c \/ j = c
        BY <1>1, <1>2
      <4> QED
        BY <2>3, <2>5, <4>1
    <3>3. CursorInv(r)' /\ CallInv(r)' /\ ScanInv(r)' /\ AnswerInv(r)'
      BY <1>1, <1>3, <2>1, <2>2, <3>1 DEF ReadInv, CursorInv, CallInv, ScanInv, AnswerInv
    <3>4. GetInv(r)'
      BY <1>1, <2>1, <2>2, <2>3, <2>5, <3>1, <3>2 DEF GetInv
    <3> QED
      BY <3>3, <3>4 DEF ReadInv
  <2> QED
    BY <2>4, <2>5
<1>4. CASE call[r].kind = "scan"
  <2>1. rpc'[r] = "walk" /\ cursor'[r] = c - 1 /\ found'[r] = Overlay(found[r], t)
    BY <1>1, <1>4 DEF LeaveTable, TypeOK, TakeEntries
  <2>2. ASSUME NEW k \in Key PROVE found'[r][k] = NewestEntry(sstables, c - 1, k)
    <3>1. found[r][k] = NewestEntry(sstables, c, k)
      BY <1>1, <1>4 DEF ReadInv, ScanInv
    <3>2. NewestEntry(sstables, c - 1, k) = IF t[k] # Absent THEN t[k] ELSE NewestEntry(sstables, c, k)
      BY <1>1, NewestDown
    <3> QED
      BY <2>1, <3>1, <3>2 DEF Overlay
  <2>3. CursorInv(r)' /\ CallInv(r)' /\ GetInv(r)' /\ AnswerInv(r)'
    BY <1>1, <1>2, <1>4, <2>1 DEF ReadInv, CursorInv, CallInv, GetInv, AnswerInv
  <2>4. ScanInv(r)'
    BY <1>1, <2>1, <2>2 DEF ScanInv
  <2> QED
    BY <2>3, <2>4 DEF ReadInv
<1> QED
  BY <1>1, <1>3, <1>4

\* The walk ends behind the last table for get(), before the first one for scan().
LEMMA WalkEndsKeeps ==
    ASSUME TypeOK, SharedInv, NEW r \in Reader, ReadInv(r), WalkEnds(r)
    PROVE  ReadInv(r)'
<1> USE DEF Walking, Active, writer
<1>1. /\ rpc[r] = "walk" /\ ~broken[r] /\ cursor[r] \notin DOMAIN sstables /\ cursor[r] \in Nat
      /\ UNCHANGED <<memtable, sstables, wpc, merged, current, lost, call, cursor, found, broken, overtaken, allowed>>
      /\ call[r].kind \in {"get", "scan"} /\ call[r].keys \in SUBSET Key
      /\ sstables \in Seq(Table) /\ found[r] \in Table
  BY DEF WalkEnds, TypeOK
<1>2. Len(sstables) \in Nat /\ DOMAIN sstables = 1..Len(sstables)
  BY <1>1
<1>3. CASE call[r].kind = "get"
  <2>1. PICK k \in Key : call[r].keys = {k}
    BY <1>1, <1>3 DEF ReadInv, CallInv
  <2>2. rpc'[r] = "done"
    BY <1>3 DEF WalkEnds, TypeOK
  <2>3. \A j \in DOMAIN sstables : j < cursor[r]
    BY <1>1, <1>2, <1>3 DEF ReadInv, CursorInv
  <2>4. ~overtaken[r] => /\ Visible(NewestEntry(sstables, 0, k)) \in allowed[r][k]
                         /\ found[r][k] = Absent
                         /\ \A j \in DOMAIN sstables : sstables[j][k] = Absent
    BY <1>1, <1>3, <2>1, <2>3 DEF ReadInv, GetInv
  <2>5. ~overtaken[r] => NewestEntry(sstables, 0, k) = Absent
    BY <1>1, <2>4, NoNewest
  <2>6. AnswerInv(r)'
    BY <1>1, <2>1, <2>4, <2>5 DEF AnswerInv, Regular
  <2>7. CursorInv(r)' /\ CallInv(r)' /\ GetInv(r)' /\ ScanInv(r)'
    BY <1>1, <1>3, <2>1, <2>2 DEF CursorInv, CallInv, GetInv, ScanInv
  <2> QED
    BY <2>6, <2>7 DEF ReadInv
<1>4. CASE call[r].kind = "scan"
  <2>1. rpc'[r] = "mem" /\ cursor[r] = 0
    BY <1>1, <1>2, <1>4 DEF WalkEnds, TypeOK, ReadInv, CursorInv
  <2>2. /\ wpc = "push" => overtaken[r]
        /\ \A k \in Key : current[k] \in allowed[r][k]
        /\ overtaken[r] \/ \A k \in lost : allowed[r][k] = Value \cup {Absent}
    BY <1>1 DEF ReadInv, CallInv
  <2>3. ~overtaken[r] => \A k \in Key : memtable[k] = Absent => Visible(found[r][k]) \in allowed[r][k]
    <3> SUFFICES ASSUME ~overtaken[r], NEW k \in Key, memtable[k] = Absent
                 PROVE  Visible(found[r][k]) \in allowed[r][k]
      OBVIOUS
    <3>1. found[r][k] = NewestEntry(sstables, 0, k)
      BY <1>1, <1>4, <2>1 DEF ReadInv, ScanInv
    <3>2. Visible(found[r][k]) \in Value \cup {Absent}
      BY <1>1, <3>1, NewestType, VisibleType
    <3>3. k \notin lost => Visible(found[r][k]) = current[k]
      BY <2>2, <3>1 DEF SharedInv
    <3> QED
      BY <2>2, <3>2, <3>3
  <2>4. CursorInv(r)' /\ CallInv(r)' /\ GetInv(r)' /\ AnswerInv(r)'
    BY <1>1, <1>4, <2>1 DEF ReadInv, CursorInv, CallInv, GetInv, AnswerInv
  <2>5. ScanInv(r)'
    BY <1>1, <2>1, <2>3 DEF ScanInv
  <2> QED
    BY <2>4, <2>5 DEF ReadInv
<1> QED
  BY <1>1, <1>3, <1>4

\* A read in a data race ends, or the caller takes the answer: nothing is promised of it.
LEMMA EndsRead ==
    ASSUME TypeOK, NEW r \in Reader, ReadInv(r), BrokenEnds(r) \/ Return(r)
    PROVE  ReadInv(r)'
<1> USE DEF Walking, Active, writer
<1>1. CASE BrokenEnds(r)
  <2>1. /\ rpc[r] \in {"walk", "inside"} /\ broken[r] /\ rpc'[r] = "done" /\ UNCHANGED <<call, broken>>
    BY <1>1 DEF BrokenEnds, TypeOK
  <2> QED
    BY <2>1 DEF ReadInv, CursorInv, CallInv, GetInv, ScanInv, AnswerInv
<1>2. CASE Return(r)
  <2>1. rpc'[r] = "idle"
    BY <1>2 DEF Return, TypeOK
  <2> QED
    BY <2>1 DEF ReadInv, CursorInv, CallInv, GetInv, ScanInv, AnswerInv
<1> QED
  BY <1>1, <1>2

\* Every step of the writer and of any reader keeps the invariant of every read.
LEMMA ReadStep ==
    TypeOK /\ SharedInv /\ (\A r \in Reader : ReadInv(r)) /\ [Next]_vars
        => \A r \in Reader : ReadInv(r)'
<1> SUFFICES ASSUME TypeOK, SharedInv, \A p \in Reader : ReadInv(p), [Next]_vars, NEW r \in Reader
             PROVE  ReadInv(r)'
  OBVIOUS
<1>1. ASSUME NEW k \in Key, NEW e \in Entry, Write(k, e) PROVE ReadInv(r)'
  BY <1>1, WriteKeepsRead
<1>2. CASE Install
  BY <1>2, VectorKeepsRead DEF Install
<1>3. CASE ClearMemTable
  BY <1>3, ClearKeepsRead
<1>10. CASE EnterMerge \/ MergeTable \/ MergeThrows
  BY <1>10, MergeKeepsRead
<1>4. CASE CompactClear \/ CompactPush
  <2>1. call[r].kind \in {"get", "scan"}
    BY DEF TypeOK
  <2>2. /\ Active(r) => overtaken'[r]
        /\ ~overtaken'[r] => ~overtaken[r]
    BY <1>4, <2>1 DEF CompactClear, CompactPush, Overtake
  <2> QED
    BY <1>4, <2>2, VectorKeepsRead DEF CompactClear, CompactPush
<1>5. ASSUME NEW q \in Reader, r # q,
             \/ \E k \in Key : Get(q, k)
             \/ Scan(q) \/ ReadMemTable(q) \/ LeaveTable(q) \/ WalkEnds(q) \/ BrokenEnds(q) \/ Return(q)
      PROVE  ReadInv(r)'
  <2>1. UNCHANGED writer
    BY <1>5 DEF Get, Scan, Start, ReadMemTable, LeaveTable, WalkEnds, BrokenEnds, Return
  <2>2. rpc'[r] = rpc[r] /\ call'[r] = call[r] /\ cursor'[r] = cursor[r] /\ found'[r] = found[r]
    BY <1>5 DEF TypeOK, Get, Scan, Start, ReadMemTable, LeaveTable, WalkEnds, BrokenEnds, Return
  <2>3. broken'[r] = broken[r] /\ overtaken'[r] = overtaken[r] /\ allowed'[r] = allowed[r]
    BY <1>5 DEF TypeOK, Get, Scan, Start, ReadMemTable, LeaveTable, WalkEnds, BrokenEnds, Return
  <2> QED
    BY <2>1, <2>2, <2>3, OtherReader
<1>6. ASSUME NEW q \in Reader, EnterTable(q) PROVE ReadInv(r)'
  BY <1>6, EnterKeepsReads
<1>11. ASSUME NEW q \in Reader, StrayMeets(q) PROVE ReadInv(r)'
  <2>1. ~broken'[r] => ~broken[r]
    BY <1>11 DEF StrayMeets, TypeOK
  <2> QED
    BY <1>11, <2>1, OtherReader DEF StrayMeets
<1>7. CASE (\E k \in Key : Get(r, k)) \/ Scan(r)
  BY <1>7, StartsRead
<1>8. CASE ReadMemTable(r) \/ LeaveTable(r) \/ WalkEnds(r) \/ BrokenEnds(r) \/ Return(r)
  BY <1>8, ReadMemTableKeeps, LeaveTableKeeps, WalkEndsKeeps, EndsRead
<1>9. CASE UNCHANGED vars
  BY <1>9, OtherReader DEF vars, writer
<1> QED
  BY <1>1, <1>2, <1>3, <1>4, <1>5, <1>6, <1>7, <1>8, <1>9, <1>10, <1>11 DEF Next, WriterStep, ReaderStep

-----------------------------------------------------------------------------
(* The size of the MemTable.                                               *)

\* A non-empty set of naturals has a least member.
LEMMA LeastOf ==
    ASSUME NEW D \in SUBSET Nat, D # {}
    PROVE  \E k \in D : \A j \in D : k <= j
<1>1. PICK k \in D : \A j \in D : ~(<<j, k>> \in OpToRel(<, Nat))
  BY NatLessThanWellFounded, WFMin
<1>2. \A j \in D : ~(j < k)
  BY <1>1 DEF OpToRel
<1> QED
  BY <1>2

\* g gives every subset of S the sum of the weights f of its members.
Sums(g, S, f) ==
    /\ g \in [SUBSET S -> Nat] /\ g[{}] = 0
    /\ \A T \in SUBSET S : \A x \in T : g[T] = f[x] + g[T \ {x}]

\* The sums of a set with one member more.
LEMMA SumsExtend ==
    ASSUME NEW S, NEW f, NEW g, Sums(g, S, f), NEW x, x \notin S, f[x] \in Nat,
           \A y \in S : f[y] \in Nat
    PROVE  \E h : Sums(h, S \cup {x}, f) /\ h[S \cup {x}] = f[x] + g[S] /\ h[S] = g[S]
<1> DEFINE V == S \cup {x}
           h == [T \in SUBSET V |-> IF x \in T THEN f[x] + g[T \ {x}] ELSE g[T]]
<1>1. \A T \in SUBSET V : T \ {x} \in SUBSET S /\ (x \notin T => T \in SUBSET S)
  OBVIOUS
<1>2. \A T \in SUBSET S : g[T] \in Nat
  BY DEF Sums
<1>3. h \in [SUBSET V -> Nat]
  BY <1>1, <1>2
<1>4. h[{}] = 0
  BY DEF Sums
<1>5. ASSUME NEW T \in SUBSET V, NEW y \in T PROVE h[T] = f[y] + h[T \ {y}]
  <2>0. T \ {y} \in SUBSET V
    OBVIOUS
  <2>1. CASE x \notin T
    <3>1. h[T] = g[T] /\ h[T \ {y}] = g[T \ {y}] /\ T \in SUBSET S
      BY <2>0, <2>1, <1>1
    <3> QED
      BY <3>1 DEF Sums
  <2>2. CASE x \in T /\ y = x
    <3>1. h[T] = f[x] + g[T \ {x}] /\ h[T \ {x}] = g[T \ {x}]
      BY <2>0, <2>2, <1>1
    <3> QED
      BY <3>1, <2>2
  <2>3. CASE x \in T /\ y # x
    <3>1. h[T] = f[x] + g[T \ {x}] /\ h[T \ {y}] = f[x] + g[(T \ {y}) \ {x}]
      BY <2>0, <2>3, <1>1
    <3>2. T \ {x} \in SUBSET S /\ y \in T \ {x} /\ (T \ {y}) \ {x} = (T \ {x}) \ {y}
      BY <2>3, <1>1
    <3>3. g[T \ {x}] = f[y] + g[(T \ {x}) \ {y}]
      BY <3>2 DEF Sums
    <3>4. y \in S /\ (T \ {x}) \ {y} \in SUBSET S
      BY <3>2
    <3> DEFINE c == g[(T \ {x}) \ {y}]
    <3>5. f[x] \in Nat /\ f[y] \in Nat /\ c \in Nat
      BY <3>4, <1>2
    <3>6. h[T] = f[x] + (f[y] + c) /\ h[T \ {y}] = f[x] + c
      BY <3>1, <3>2, <3>3, Zenon
    <3> HIDE DEF h, c
    <3>7. f[x] + (f[y] + c) = f[y] + (f[x] + c)
      BY <3>5
    <3> QED
      BY <3>6, <3>7, Zenon
  <2> QED
    BY <2>1, <2>2, <2>3
<1>6. h[V] = f[x] + g[S] /\ h[S] = g[S]
  <2>1. V \in SUBSET V /\ S \in SUBSET V /\ V \ {x} = S /\ x \in V
    OBVIOUS
  <2> QED
    BY <2>1
<1>7. Sums(h, V, f)
  BY <1>3, <1>4, <1>5 DEF Sums
<1> QED
  BY <1>6, <1>7

\* A finite set has sums.
LEMMA SumsExist ==
    ASSUME NEW S, IsFiniteSet(S), NEW f, \A y \in S : f[y] \in Nat
    PROVE  \E g : Sums(g, S, f)
<1> DEFINE Bad == {n \in Nat : \E T \in SUBSET S : Cardinality(T) = n /\ ~ \E g : Sums(g, T, f)}
<1>1. \A T \in SUBSET S : IsFiniteSet(T) /\ Cardinality(T) \in Nat
  BY FS_Subset, FS_CardinalityType
<1>2. SUFFICES ASSUME Bad # {} PROVE FALSE
  BY <1>1
<1>3. PICK n \in Bad : \A m \in Bad : n <= m
  BY <1>2, LeastOf
<1>4. PICK T \in SUBSET S : Cardinality(T) = n /\ ~ \E g : Sums(g, T, f)
  BY <1>3
<1>5. CASE T = {}
  <2>1. Sums([U \in SUBSET {} |-> 0], {}, f)
    BY DEF Sums
  <2> QED
    BY <2>1, <1>4, <1>5
<1>6. CASE T # {}
  <2>1. PICK x \in T : TRUE
    BY <1>6
  <2> DEFINE U == T \ {x}
  <2>2. U \in SUBSET S /\ x \notin U /\ U \cup {x} = T
    OBVIOUS
  <2>3. Cardinality(U) = n - 1 /\ Cardinality(U) \in Nat /\ n \in Nat
    BY <1>1, <1>4, <2>2, FS_RemoveElement
  <2>4. Cardinality(U) \notin Bad
    <3> HIDE DEF U, Bad
    <3> QED
      BY <1>3, <2>3
  <2>5. PICK g : Sums(g, U, f)
    BY <2>2, <2>3, <2>4
  <2>6. f[x] \in Nat /\ \A y \in U : f[y] \in Nat
    BY <2>2
  <2>7. \E h : Sums(h, U \cup {x}, f)
    BY <2>2, <2>5, <2>6, SumsExtend
  <2> QED
    BY <1>4, <2>2, <2>7
<1> QED
  BY <1>5, <1>6

\* h folds the weights by choosing a member of every subset.
FoldsOver(h, S, f) ==
    h = [T \in SUBSET S |-> IF T = {} THEN 0
                            ELSE f[CHOOSE x \in T : TRUE] + h[T \ {CHOOSE x \in T : TRUE}]]

\* The fold over the choice of a member gives the sum.
LEMMA FoldSums ==
    ASSUME NEW S, IsFiniteSet(S), NEW f, NEW g, Sums(g, S, f), NEW h,
           FoldsOver(h, S, f)
    PROVE  h[S] = g[S]
<1> DEFINE Bad == {n \in Nat : \E T \in SUBSET S : Cardinality(T) = n /\ h[T] # g[T]}
<1>1. \A T \in SUBSET S : IsFiniteSet(T) /\ Cardinality(T) \in Nat
  BY FS_Subset, FS_CardinalityType
<1>2. SUFFICES ASSUME Bad # {} PROVE FALSE
  BY <1>1
<1>3. PICK n \in Bad : \A m \in Bad : n <= m
  BY <1>2, LeastOf
<1>4. PICK T \in SUBSET S : Cardinality(T) = n /\ h[T] # g[T]
  BY <1>3
<1>5. CASE T = {}
  BY <1>4, <1>5 DEF Sums, FoldsOver
<1>6. CASE T # {}
  <2> DEFINE x == CHOOSE y \in T : TRUE
             U == T \ {x}
  <2>1. x \in T /\ U \in SUBSET S
    BY <1>6
  <2>2. Cardinality(U) = n - 1 /\ Cardinality(U) \in Nat /\ n \in Nat
    BY <1>1, <1>4, <2>1, FS_RemoveElement
  <2>3. h[U] = g[U]
    <3>1. Cardinality(U) \notin Bad
      <4> HIDE DEF U, Bad
      <4> QED
        BY <1>3, <2>2
    <3> QED
      BY <2>1, <2>2, <3>1
  <2>4. h[T] = f[x] + h[U]
    BY <1>6 DEF FoldsOver
  <2>5. g[T] = f[x] + g[U]
    BY <2>1 DEF Sums
  <2> QED
    BY <1>4, <2>3, <2>4, <2>5
<1> QED
  BY <1>5, <1>6

\* The bytes of each key with its entry.
Weights(t) == [k \in Key |-> EntrySize(t[k])]

LEMMA WeightsType ==
    ASSUME NEW t \in Table
    PROVE  \A k \in Used(t) : Weights(t)[k] \in Nat
<1>1. \A d \in Entry : EntrySize(d) \in Nat
  BY ReadConstants DEF EntrySize, Entry
<1> QED
  BY <1>1 DEF Weights, Used, Table

\* The bytes of a table are the sum of the weights of its keys.
LEMMA TableSizeSums ==
    ASSUME NEW t \in Table, IsFiniteSet(Used(t)), NEW g, Sums(g, Used(t), Weights(t))
    PROVE  TableSize(t) = g[Used(t)]
<1> DEFINE S == Used(t)
           f == Weights(t)
           Eq(h) == h = [T \in SUBSET S |-> IF T = {} THEN 0
                            ELSE EntrySize(t[CHOOSE x \in T : TRUE]) + h[T \ {CHOOSE x \in T : TRUE}]]
           iter == CHOOSE h : Eq(h)
<1>1. \A T \in SUBSET S : T # {} => (CHOOSE x \in T : TRUE) \in T
  OBVIOUS
<1>2. \A k \in S : f[k] = EntrySize(t[k])
  BY DEF Weights, Used
<1>3. Eq(g)
  <2>1. g = [T \in SUBSET S |-> g[T]]
    BY DEF Sums
  <2>2. \A T \in SUBSET S : g[T] = IF T = {} THEN 0
                            ELSE EntrySize(t[CHOOSE x \in T : TRUE]) + g[T \ {CHOOSE x \in T : TRUE}]
    <3> SUFFICES ASSUME NEW T \in SUBSET S, T # {}
                 PROVE  g[T] = EntrySize(t[CHOOSE x \in T : TRUE]) + g[T \ {CHOOSE x \in T : TRUE}]
      BY DEF Sums
    <3>1. (CHOOSE x \in T : TRUE) \in T
      BY <1>1
    <3> HIDE DEF S, f
    <3>2. g[T] = f[CHOOSE x \in T : TRUE] + g[T \ {CHOOSE x \in T : TRUE}]
      BY <3>1 DEF Sums, S, f
    <3> QED
      BY <3>1, <3>2, <1>2
  <2> QED
    BY <2>1, <2>2, Zenon
<1>4. Eq(iter)
  BY <1>3, Zenon
<1>5. FoldsOver(iter, S, f)
  <2> HIDE DEF iter
  <2>1. \A T \in SUBSET S : (IF T = {} THEN 0
            ELSE EntrySize(t[CHOOSE x \in T : TRUE]) + iter[T \ {CHOOSE x \in T : TRUE}])
          = (IF T = {} THEN 0 ELSE f[CHOOSE x \in T : TRUE] + iter[T \ {CHOOSE x \in T : TRUE}])
    BY <1>1, <1>2
  <2> QED
    BY <1>4, <2>1, Zenon DEF FoldsOver
<1>6. iter[S] = g[S]
  <2> HIDE DEF iter, S, f
  <2>1. IsFiniteSet(S) /\ Sums(g, S, f)
    BY DEF S, f
  <2> QED
    BY <1>5, <2>1, FoldSums, Zenon
<1>7. TableSize(t) = iter[S]
  BY DEF TableSize, MapThenSumSet, MapThenFoldSet
<1> QED
  BY <1>6, <1>7

\* An entry takes the place of an old one: its bytes come, those of the old one go.
LEMMA TableSizeStep ==
    ASSUME NEW t \in Table, IsFiniteSet(Used(t)), NEW k \in Key, NEW e \in Entry
    PROVE  LET u == [t EXCEPT ![k] = e]
               old == IF t[k] = Absent THEN 0 ELSE EntrySize(t[k])
           IN  /\ IsFiniteSet(Used(u))
               /\ \E rest \in Nat : TableSize(t) = old + rest /\ TableSize(u) = EntrySize(e) + rest
<1> DEFINE u == [t EXCEPT ![k] = e]
           R == Used(t) \ {k}
<1>1. u \in Table /\ u[k] = e /\ e # Absent /\ \A j \in Key : j # k => u[j] = t[j]
  BY ReadConstants DEF Table
<1> HIDE DEF u
<1>2. Used(u) = R \cup {k} /\ (t[k] # Absent => Used(t) = R \cup {k}) /\ (t[k] = Absent => Used(t) = R)
  BY <1>1 DEF Used
<1>3. IsFiniteSet(R) /\ IsFiniteSet(Used(u))
  BY <1>2, FS_RemoveElement, FS_AddElement
<1>4. /\ \A j \in R : Weights(t)[j] \in Nat /\ Weights(u)[j] = Weights(t)[j]
      /\ Weights(u)[k] = EntrySize(e) /\ Weights(t)[k] = EntrySize(t[k])
      /\ EntrySize(e) \in Nat /\ (t[k] # Absent => EntrySize(t[k]) \in Nat)
  <2>1. \A d \in Entry : EntrySize(d) \in Nat
    BY ReadConstants DEF EntrySize, Entry
  <2> QED
    BY <2>1, <1>1, WeightsType DEF Weights, Used, Table
<1>5. PICK g : Sums(g, R, Weights(t))
  BY <1>3, <1>4, SumsExist
<1>6. Sums(g, R, Weights(u))
  <2>1. \A T \in SUBSET R : \A x \in T : g[T] = Weights(u)[x] + g[T \ {x}]
    BY <1>4, <1>5 DEF Sums
  <2> QED
    BY <1>5, <2>1 DEF Sums
<1>7. k \notin R /\ g[R] \in Nat
  BY <1>5 DEF Sums
<1>8. TableSize(u) = EntrySize(e) + g[R]
  <2>0. Weights(u)[k] \in Nat /\ \A j \in R : Weights(u)[j] \in Nat
    BY <1>4
  <2>1. PICK h : Sums(h, R \cup {k}, Weights(u)) /\ h[R \cup {k}] = Weights(u)[k] + g[R]
    <3> HIDE DEF R
    <3> QED
      BY <2>0, <1>6, <1>7, SumsExtend
  <2> QED
    BY <1>1, <1>2, <1>3, <1>4, <2>1, TableSizeSums
<1>9. TableSize(t) = (IF t[k] = Absent THEN 0 ELSE EntrySize(t[k])) + g[R]
  <2>1. CASE t[k] = Absent
    <3>1. TableSize(t) = g[R]
      BY <1>2, <1>5, <2>1, TableSizeSums
    <3> QED
      BY <1>7, <2>1, <3>1
  <2>2. CASE t[k] # Absent
    <3>1. PICK h : Sums(h, R \cup {k}, Weights(t)) /\ h[R \cup {k}] = Weights(t)[k] + g[R]
      BY <1>4, <1>5, <1>7, <2>2, SumsExtend
    <3> QED
      BY <1>2, <1>4, <2>2, <3>1, TableSizeSums
  <2> QED
    BY <2>1, <2>2
<1> QED
  BY <1>3, <1>7, <1>8, <1>9 DEF u

LEMMA EmptyTableSize == IsFiniteSet(Used(EmptyTable)) /\ TableSize(EmptyTable) = 0
<1>1. EmptyTable \in Table /\ Used(EmptyTable) = {}
  BY DEF EmptyTable, Table, Used
<1>2. IsFiniteSet(Used(EmptyTable))
  BY <1>1, FS_EmptySet
<1>3. PICK g : Sums(g, Used(EmptyTable), Weights(EmptyTable))
  BY <1>1, <1>2, SumsExist
<1>4. g[{}] = 0
  BY <1>3 DEF Sums
<1> QED
  BY <1>1, <1>2, <1>3, <1>4, TableSizeSums

\* What SizeExact needs to be kept: the MemTable has finitely many entries, and the size counts
\* them all; from the write that reaches the threshold the writer goes on to clear the MemTable.
SizeInv ==
    /\ IsFiniteSet(Used(memtable)) /\ current_size = TableSize(memtable)
    /\ wpc \notin {"install", "clear"} => current_size < FlushThreshold

LEMMA SizeStep == TypeOK /\ SizeInv /\ [Next]_vars => SizeInv'
<1> SUFFICES ASSUME TypeOK, SizeInv, [Next]_vars PROVE SizeInv'
  OBVIOUS
<1>0. /\ SizeInv <=> /\ IsFiniteSet(Used(memtable)) /\ current_size = TableSize(memtable)
                     /\ wpc \notin {"install", "clear"} => current_size < FlushThreshold
      /\ SizeInv' <=> /\ IsFiniteSet(Used(memtable')) /\ current_size' = TableSize(memtable')
                      /\ wpc' \notin {"install", "clear"} => current_size' < FlushThreshold
  BY DEF SizeInv
<1>1. ASSUME NEW k \in Key, NEW e \in Entry, Write(k, e) PROVE SizeInv'
  <2> DEFINE old == IF memtable[k] = Absent THEN 0 ELSE EntrySize(memtable[k])
  <2>1. memtable \in Table /\ memtable' = [memtable EXCEPT ![k] = e] /\ wpc = "idle"
    BY <1>1 DEF Write, TypeOK
  <2>2. PICK rest \in Nat : /\ TableSize(memtable) = old + rest
                            /\ TableSize(memtable') = EntrySize(e) + rest
    BY <1>0, <2>1, TableSizeStep
  <2>3. IsFiniteSet(Used(memtable'))
    BY <1>0, <2>1, TableSizeStep
  <2>4. old \in Nat /\ EntrySize(e) \in Nat
    <3>1. \A d \in Entry : EntrySize(d) \in Nat
      BY ReadConstants DEF EntrySize, Entry
    <3> QED
      BY <2>1, <3>1 DEF Table
  <2>5. current_size' = (current_size + EntrySize(e) - old) % SIZE_RANGE
    BY <1>1 DEF Write, Resized
  <2>6. FlushThreshold + EntrySize(e) <= SIZE_RANGE /\ FlushThreshold \in Nat /\ SIZE_RANGE \in Nat \ {0}
    BY SizesFit, ReadConstants
  <2>7. current_size = old + rest /\ current_size < FlushThreshold
    BY <1>0, <2>1, <2>2
  <2>8. wpc' # "install" => ~(current_size' >= FlushThreshold)
    BY <1>1 DEF Write
  <2> HIDE DEF old
  <2>9. current_size + EntrySize(e) - old = EntrySize(e) + rest /\ EntrySize(e) + rest \in 0..(SIZE_RANGE - 1)
    BY <2>4, <2>6, <2>7
  <2>10. \A n \in 0..(SIZE_RANGE - 1) : n % SIZE_RANGE = n
    BY <2>6
  <2>11. current_size' = EntrySize(e) + rest
    BY <2>5, <2>9, <2>10
  <2>12. wpc' # "install" => current_size' < FlushThreshold
    BY <2>4, <2>6, <2>8, <2>11
  <2> QED
    BY <1>0, <2>2, <2>3, <2>11, <2>12
<1>2. CASE ClearMemTable
  BY <1>0, <1>2, EmptyTableSize, ReadConstants DEF ClearMemTable
<1>3. CASE Install \/ EnterMerge \/ MergeTable \/ MergeThrows \/ CompactClear
  BY <1>0, <1>3 DEF Install, EnterMerge, MergeTable, MergeThrows, CompactClear
<1>4. CASE CompactPush
  BY <1>0, <1>4 DEF CompactPush
<1>5. CASE UNCHANGED writer
  BY <1>0, <1>5 DEF writer
<1>6. (\E r \in Reader : (\E k \in Key : Get(r, k)) \/ Scan(r) \/ ReaderStep(r)) => UNCHANGED writer
  BY DEF Get, Scan, Start, ReaderStep, ReadMemTable, EnterTable, LeaveTable, WalkEnds, StrayMeets, BrokenEnds, Return
<1>7. UNCHANGED vars => UNCHANGED writer
  BY DEF vars, writer
<1> QED
  BY <1>1, <1>2, <1>3, <1>4, <1>5, <1>6, <1>7 DEF Next, WriterStep

-----------------------------------------------------------------------------
\* The invariant of the writer and of every read holds at every interleaving.
THEOREM ConcurrencyInvariant == Spec => [](TypeOK /\ ConcurrencyInv)
<1> DEFINE Inv == TypeOK /\ SharedInv /\ MergeInv /\ \A r \in Reader : ReadInv(r)
<1>1. Init => Inv
  <2> SUFFICES ASSUME Init PROVE Inv
    OBVIOUS
  <2>1. EmptyTable \in Table /\ <<>> \in Seq(Table) /\ 0 \in 0..(SIZE_RANGE - 1) /\ 0 \in 0..MaxWrites
    BY ReadConstants DEF EmptyTable, Table
  <2>2. TypeOK
    BY <2>1 DEF Init, TypeOK, NoCall, EmptyTable
  <2>3. SharedInv
    <3>1. \A k \in Key : NewestEntry(sstables, 0, k) = Absent
      <4>1. sstables = <<>> /\ DOMAIN <<>> = {}
        BY DEF Init
      <4>2. \A k \in Key : NewestEntry(<<>>, 0, k) = Absent
        BY <2>1, <4>1, NoNewest
      <4> QED
        BY <4>1, <4>2
    <3> QED
      BY <3>1, ReadConstants DEF Init, SharedInv, EmptyTable, Visible, Entry
  <2>5. MergeInv
    BY DEF Init, MergeInv
  <2>4. \A r \in Reader : ReadInv(r)
    BY DEF Init, ReadInv, CursorInv, CallInv, GetInv, ScanInv, AnswerInv, Walking, Active
  <2> QED
    BY <2>2, <2>3, <2>4, <2>5
<1>2. Inv /\ [Next]_vars => Inv'
  <2> SUFFICES ASSUME Inv, [Next]_vars PROVE Inv'
    OBVIOUS
  <2>1. TypeOK'
    BY TypeStep DEF ReadInv
  <2>2. SharedInv' /\ MergeInv' /\ \A r \in Reader : ReadInv(r)'
    BY SharedStep, MergeStep, ReadStep
  <2> QED
    BY <2>1, <2>2
<1>3. Inv => TypeOK /\ ConcurrencyInv
  BY DEF ConcurrencyInv, ReaderInv, ReadInv, GetsAtomic, ScansRegular, AnswerInv, Finished
<1> QED
  BY <1>1, <1>2, <1>3, PTL DEF Spec

\* The threads' variables keep their types; current_size_ stays within its width.
THEOREM ReadsTypeCorrect == Spec => []TypeOK
BY ConcurrencyInvariant, PTL

\* get() answers what was current at some time during the call, beside any writes and flushes,
\* unless a compaction swaps the tables under it or it is in a data race.
THEOREM GetsAreAtomic == Spec => []GetsAtomic
<1>1. ConcurrencyInv => GetsAtomic
  BY DEF ConcurrencyInv
<1> QED
  BY ConcurrencyInvariant, <1>1, PTL

\* So does scan() for each of its keys, unless a flush too moves entries under it.
THEOREM ScansAreRegular == Spec => []ScansRegular
<1>1. ConcurrencyInv => ScansRegular
  BY DEF ConcurrencyInv
<1> QED
  BY ConcurrencyInvariant, <1>1, PTL

\* MemTable and tables together hold the last write of every key at every step of flush and
\* compaction, except between the clearing of the vector and the opening of the merged table.
THEOREM NothingIsHidden == Spec => []NothingHidden
<1>1. TypeOK /\ ConcurrencyInv => NothingHidden
  <2> SUFFICES ASSUME TypeOK, SharedInv, wpc # "push", NEW k \in Key \ lost
               PROVE  current[k] = Visible(Overlay(Merge(sstables), memtable)[k])
    BY DEF NothingHidden, ConcurrencyInv
  <2>1. NewestEntry(sstables, 0, k) \in Entry \cup {Absent}
    BY NewestType DEF TypeOK
  <2>2. Visible(Visible(NewestEntry(sstables, 0, k))) = Visible(NewestEntry(sstables, 0, k))
    BY <2>1, VisibleType
  <2> QED
    BY <2>2 DEF SharedInv, Overlay, Merge
<1> QED
  BY ConcurrencyInvariant, <1>1, PTL

\* current_size_ is the size of the entries in the MemTable, whatever is put, overwritten, removed
\* and flushed, and below the threshold whenever no write is under way: no addition or subtraction
\* wraps.
THEOREM SizeStaysExact == Spec => []SizeExact
<1>1. Init => SizeInv
  <2>1. Init => current_size = 0 /\ memtable = EmptyTable
    BY DEF Init
  <2> QED
    BY <2>1, EmptyTableSize, ReadConstants DEF SizeInv
<1>2. TypeOK /\ SizeInv /\ [Next]_vars => SizeInv'
  BY SizeStep
<1>3. SizeInv => SizeExact
  BY DEF SizeInv, SizeExact
<1> QED
  BY <1>1, <1>2, <1>3, ReadsTypeCorrect, PTL DEF Spec
=============================================================================
