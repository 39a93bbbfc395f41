------------------------ MODULE EngineServingProofs ------------------------
(***************************************************************************)
(* What the running engine answers and what a restart serves: deletes,     *)
(* read-your-writes, the immutability of open tables, the promises of a    *)
(* restart and the absence of the placeholder file, for every set of keys  *)
(* and values, every threshold and every combination of failures.          *)
(***************************************************************************)
EXTENDS StorageEngineProofs

-----------------------------------------------------------------------------
(* TableInv and InFlightInv from state to state.                           *)

\* A step that leaves the memtable, the open tables and the dropped ones alone keeps what the
\* readers answer for k.
LEMMA TableInvKept ==
    ASSUME TypeOK, SSTablesOrdered, NEW k \in Key, TableInv(k),
           UNCHANGED <<memtable, sstables>>, committed'[k] = committed[k],
           \A i \in DOMAIN sstables : /\ sstables[i] \in DOMAIN files'
                                      /\ files'[sstables[i]] = files[sstables[i]],
           \A n \in Orphans : IsHome(k, n) => n \in Orphans' /\ IsHome(k, n)'
    PROVE  TableInv(k)'
<1>1. sstables \in Seq(Nat)
  BY DEF TypeOK
<1>2. \A i \in DOMAIN sstables : sstables[i] \in DOMAIN files
  BY DEF SSTablesOrdered
<1>3. TableEntry(sstables, files, k) = TableEntry(sstables, files', k)
  BY <1>1, <1>2, TableEntryLocal
<1>4. CASE memtable[k] # Absent
  BY <1>4 DEF TableInv
<1>5. CASE Visible(TableEntry(sstables, files, k)) = committed[k]
  BY <1>3, <1>5 DEF TableInv
<1>6. CASE \E n \in Orphans : IsHome(k, n)
  <2>1. \E n \in Orphans' : IsHome(k, n)'
    BY <1>6
  <2> QED
    BY <2>1 DEF TableInv
<1> QED
  BY <1>4, <1>5, <1>6 DEF TableInv

\* So does one that leaves all of the disk but the log alone.
LEMMA TableInvSame ==
    ASSUME TypeOK, SSTablesOrdered, NEW k \in Key, TableInv(k),
           UNCHANGED <<files, memtable, sstables, next_seq, old_paths>>,
           committed'[k] = committed[k]
    PROVE  TableInv(k)'
<1>1. Orphans' = Orphans /\ \A n : IsHome(k, n) => IsHome(k, n)'
  BY DEF Orphans, IsHome
<1>2. TableEntry(sstables, files, k)' = TableEntry(sstables, files, k)
  OBVIOUS
<1> QED
  BY <1>1, <1>2 DEF TableInv

\* So does writing the file next_seq_, even over an earlier one.
LEMMA TableInvWrite ==
    ASSUME TypeOK, SSTablesOrdered, NEW k \in Key, TableInv(k),
           NEW t, files' = WriteFile(next_seq, t), UNCHANGED memory,
           committed'[k] = committed[k]
    PROVE  TableInv(k)'
<1> USE DEF memory
<1>1. /\ \A n \in DOMAIN files : n # next_seq => n \in DOMAIN files' /\ files'[n] = files[n]
      /\ \A m : IsHome(k, m) => IsHome(k, m)'
  BY WriteKeepsOlder
<1>2. next_seq \in Nat /\ sstables \in Seq(Nat)
  BY DEF TypeOK
<1>3. \A i \in DOMAIN sstables : /\ sstables[i] \in DOMAIN files'
                                 /\ files'[sstables[i]] = files[sstables[i]]
  BY <1>1, <1>2 DEF SSTablesOrdered
<1>4. \A n \in Orphans : n \in Orphans'
  <2>1. DOMAIN files \subseteq DOMAIN files'
    BY DEF WriteFile
  <2> QED
    BY <2>1 DEF Orphans
<1> QED
  BY <1>1, <1>3, <1>4, TableInvKept

\* Outside "apply" and "down" every key is in order.
LEMMA ReadInvAll ==
    ASSUME ReadInv, pc \notin {"apply", "down"}
    PROVE  \A k \in Key : TableInv(k)
BY DEF ReadInv, Unapplied

\* The first table of sstables_ that has k decides.
LEMMA NewTableEntry ==
    ASSUME NEW s \in Seq(Nat), NEW f, NEW n \in Nat, NEW k,
           \A i \in DOMAIN s : s[i] \in DOMAIN f
    PROVE  /\ n \in Holders(f, k) => TableEntry(<<n>> \o s, f, k) = f[n][k]
           /\ n \notin Holders(f, k) => TableEntry(<<n>> \o s, f, k) = TableEntry(s, f, k)
<1> DEFINE v == <<n>> \o s
<1>1. /\ v \in Seq(Nat) /\ Len(v) = Len(s) + 1 /\ v[1] = n /\ 1 \in DOMAIN v
      /\ \A i \in DOMAIN s : i + 1 \in DOMAIN v /\ v[i + 1] = s[i]
      /\ \A i \in DOMAIN v : i = 1 \/ (i - 1 \in DOMAIN s /\ v[i] = s[i - 1])
  OBVIOUS
<1>2. DOMAIN v = 1..Len(v) /\ DOMAIN s = 1..Len(s) /\ Len(s) \in Nat
  BY <1>1
<1> HIDE DEF v
<1>3. ASSUME n \in Holders(f, k) PROVE TableEntry(v, f, k) = f[n][k]
  <2>1. IsFirstHit(v, f, 1, k)
    BY <1>1, <1>3 DEF IsFirstHit
  <2> QED
    BY <1>1, <2>1, FirstHitUnique
<1>4. ASSUME n \notin Holders(f, k) PROVE TableEntry(v, f, k) = TableEntry(s, f, k)
  <2>1. ASSUME NEW i \in DOMAIN s, IsFirstHit(s, f, i, k)
        PROVE  TableEntry(v, f, k) = TableEntry(s, f, k)
    <3>1. i + 1 \in DOMAIN v /\ v[i + 1] = s[i]
      BY <1>1
    <3>2. IsFirstHit(v, f, i + 1, k)
      <4>1. ASSUME NEW j \in 1..((i + 1) - 1) PROVE v[j] \notin Holders(f, k)
        <5>1. j \in DOMAIN v /\ (j = 1 \/ j - 1 \in 1..(i - 1))
          BY <1>2, <3>1
        <5>2. CASE j = 1
          BY <1>1, <1>4, <5>2
        <5>3. CASE j # 1
          <6>1. j - 1 \in 1..(i - 1) /\ v[j] = s[j - 1]
            BY <1>1, <5>1, <5>3
          <6> QED
            BY <2>1, <6>1 DEF IsFirstHit
        <5> QED
          BY <5>2, <5>3
      <4> QED
        BY <2>1, <3>1, <4>1 DEF IsFirstHit
    <3>3. TableEntry(v, f, k) = f[v[i + 1]][k]
      BY <1>1, <3>1, <3>2, FirstHitUnique
    <3>4. TableEntry(s, f, k) = f[s[i]][k]
      BY <2>1, FirstHitUnique
    <3> QED
      BY <3>1, <3>3, <3>4
  <2>2. ASSUME ~ \E i \in DOMAIN s : IsFirstHit(s, f, i, k)
        PROVE  TableEntry(v, f, k) = TableEntry(s, f, k)
    <3>1. ASSUME NEW i \in DOMAIN v, IsFirstHit(v, f, i, k) PROVE FALSE
      <4>1. i # 1 /\ i - 1 \in DOMAIN s /\ v[i] = s[i - 1]
        BY <1>1, <1>4, <3>1 DEF IsFirstHit
      <4>2. ASSUME NEW j \in 1..((i - 1) - 1) PROVE s[j] \notin Holders(f, k)
        <5>1. i \in Nat /\ i - 1 \in 1..Len(s)
          BY <1>2, <4>1
        <5>2. j \in 1..Len(s) /\ j + 1 \in 1..(i - 1)
          BY <1>2, <5>1
        <5>3. v[j + 1] = s[j]
          BY <1>1, <1>2, <5>2
        <5> QED
          BY <3>1, <5>2, <5>3 DEF IsFirstHit
      <4>3. IsFirstHit(s, f, i - 1, k)
        BY <3>1, <4>1, <4>2 DEF IsFirstHit
      <4> QED
        BY <2>2, <4>1, <4>3
    <3> QED
      BY <2>2, <3>1 DEF TableEntry
  <2> QED
    BY <2>1, <2>2
<1> QED
  BY <1>3, <1>4 DEF v

\* A single reader answers from its table.
LEMMA OneTableEntry ==
    ASSUME NEW n \in Nat, NEW f, NEW k
    PROVE  TableEntry(<<n>>, f, k) = IF n \in Holders(f, k) THEN f[n][k] ELSE Absent
<1>1. <<n>> \in Seq(Nat) /\ DOMAIN <<n>> = {1} /\ <<n>>[1] = n
  OBVIOUS
<1>2. IsFirstHit(<<n>>, f, 1, k) <=> n \in Holders(f, k)
  BY <1>1 DEF IsFirstHit
<1> QED
  BY <1>1, <1>2, FirstHitUnique DEF TableEntry

\* If the readers answer for k at all, they answer from the newest file below next_seq_.
LEMMA HitHasHome ==
    ASSUME TypeOK, SSTablesOrdered, old_paths = <<>>, NEW k \in Key,
           TableEntry(sstables, files, k) # Absent
    PROVE  \E m \in Range(sstables) : IsHome(k, m)
<1>1. /\ sstables \in Seq(Nat) /\ next_seq \in Nat /\ DOMAIN files \subseteq Nat
  BY DEF TypeOK
<1>2. PICK i \in DOMAIN sstables : IsFirstHit(sstables, files, i, k)
  BY DEF TableEntry
<1> DEFINE m == sstables[i]
<1>3. m \in Range(sstables) /\ m \in Holders(files, k) /\ m < next_seq /\ m \in Nat
  BY <1>1, <1>2 DEF IsFirstHit, SSTablesOrdered, Range
<1>4. m \notin Range(old_paths)
  BY DEF Range
<1>5. ASSUME NEW n \in Holders(files, k), n < next_seq PROVE n <= m
  <2>1. n \in DOMAIN files /\ n \in Nat
    BY <1>1 DEF Holders
  <2>2. CASE n \in Range(sstables)
    <3>1. PICK j \in DOMAIN sstables : sstables[j] = n
      BY <2>2 DEF Range
    <3>2. ~(j < i)
      <4>1. j < i => j \in 1..(i - 1)
        BY <1>1
      <4> QED
        BY <1>2, <3>1, <4>1 DEF IsFirstHit
    <3>3. j = i \/ i < j
      BY <1>1, <3>2
    <3> QED
      BY <1>3, <2>1, <3>1, <3>3 DEF SSTablesOrdered
  <2>3. CASE n \notin Range(sstables)
    BY <1>3, <1>5, <2>1, <2>3 DEF SSTablesOrdered
  <2> QED
    BY <2>2, <2>3
<1>6. IsHome(k, m)
  BY <1>3, <1>4, <1>5 DEF IsHome
<1> QED
  BY <1>3, <1>6

\* A key that is at home in a dropped file is in no open table.
LEMMA OrphanHidesNothing ==
    ASSUME TypeOK, SSTablesOrdered, NEW k \in Key, NEW n \in Orphans, IsHome(k, n)
    PROVE  TableEntry(sstables, files, k) = Absent
BY HitIsHome DEF Orphans

-----------------------------------------------------------------------------
(* ReadInv, step by step.                                                  *)

\* Appending the record takes its key out of the promise until it is applied.
LEMMA ReadAppend ==
    TypeOK /\ DurabilityInv /\ ReadInv /\ AppendRecord => ReadInv'
<1> SUFFICES ASSUME TypeOK, DurabilityInv, ReadInv, AppendRecord, NEW k \in Key
             PROVE  TableInv(k)' \/ k \in Unapplied'
  BY DEF ReadInv
<1>1. /\ pc = "append" /\ pc' = "apply" /\ op' = op
      /\ committed' = [committed EXCEPT ![op.key] = Visible(op.val)]
      /\ UNCHANGED <<files, memtable, sstables, next_seq, old_paths>>
  BY DEF AppendRecord, memory
<1>2. CASE k = op.key
  BY <1>1, <1>2 DEF Unapplied
<1>3. CASE k # op.key
  <2>1. committed'[k] = committed[k]
    BY <1>1, <1>3 DEF TypeOK
  <2>2. TableInv(k)
    BY <1>1, ReadInvAll
  <2>3. SSTablesOrdered
    BY DEF DurabilityInv
  <2>4. TableInv(k)'
    BY <1>1, <2>1, <2>2, <2>3, TableInvSame
  <2> QED
    BY <2>4
<1> QED
  BY <1>2, <1>3

\* Applying it puts the key into the memtable.
LEMMA ReadApply ==
    TypeOK /\ DurabilityInv /\ ReadInv /\ ApplyToMemTable => ReadInv'
<1> SUFFICES ASSUME TypeOK, DurabilityInv, ReadInv, ApplyToMemTable, NEW k \in Key
             PROVE  TableInv(k)'
  BY DEF ReadInv
<1>1. /\ pc = "apply"
      /\ memtable' = [memtable EXCEPT ![op.key] = op.val]
      /\ UNCHANGED <<files, sstables, next_seq, old_paths, committed>>
  BY DEF ApplyToMemTable, disk, history
<1>2. op \in Record /\ memtable \in Table
  BY <1>1 DEF TypeOK
<1>3. CASE k = op.key
  <2>1. memtable'[k] = op.val /\ op.val \in Entry
    BY <1>1, <1>2, <1>3 DEF Table, Record
  <2>2. memtable'[k] # Absent
    BY <2>1, EngineConstants
  <2> QED
    BY <2>2 DEF TableInv
<1>4. CASE k # op.key
  <2>1. TableInv(k)
    BY <1>1, <1>4 DEF ReadInv, Unapplied
  <2>2. memtable'[k] = memtable[k]
    BY <1>1, <1>2, <1>4 DEF Table
  <2>3. Orphans' = Orphans /\ \A n : IsHome(k, n) => IsHome(k, n)'
    BY <1>1 DEF Orphans, IsHome
  <2>4. TableEntry(sstables, files, k)' = TableEntry(sstables, files, k)
    BY <1>1
  <2> QED
    BY <1>1, <2>1, <2>2, <2>3, <2>4 DEF TableInv
<1> QED
  BY <1>3, <1>4

\* The new table answers for every key that the memtable answered for.
LEMMA ReadFlushInstall ==
    TypeOK /\ DurabilityInv /\ ReadInv /\ FlushInstall => ReadInv'
<1> SUFFICES ASSUME TypeOK, DurabilityInv, ReadInv, FlushInstall, NEW k \in Key
             PROVE  TableInv(k)'
  BY DEF ReadInv
<1>1. /\ pc = "install" /\ files[next_seq] # Torn
      /\ sstables' = <<next_seq>> \o sstables /\ next_seq' = next_seq + 1
      /\ memtable' = EmptyTable
      /\ UNCHANGED <<files, old_paths, committed>>
  BY DEF FlushInstall, disk, history
<1>2. /\ memtable \in Table /\ next_seq \in Nat /\ sstables \in Seq(Nat)
      /\ DOMAIN files \subseteq Nat
  BY DEF TypeOK
<1>3. /\ KeyInv({}) /\ SSTablesOrdered /\ TableInv(k)
  BY <1>1, ReadInvAll DEF DurabilityInv, Unapplied
<1>4. next_seq \in DOMAIN files /\ files[next_seq] = memtable
  BY <1>1 DEF DurabilityInv, ControlInv
<1>5. \A i \in DOMAIN sstables : sstables[i] \in DOMAIN files
  BY <1>3 DEF SSTablesOrdered
<1>6. CASE memtable[k] # Absent
  <2>1. next_seq \in Holders(files, k)
    BY <1>2, <1>4, <1>6 DEF Holders
  <2>2. TableEntry(sstables', files', k) = memtable[k]
    BY <1>1, <1>2, <1>4, <1>5, <2>1, NewTableEntry
  <2>3. Visible(memtable[k]) = committed[k]
    BY <1>3, <1>6 DEF KeyInv, MemInv
  <2> QED
    BY <1>1, <2>2, <2>3 DEF TableInv
<1>7. CASE memtable[k] = Absent
  <2>1. next_seq \notin Holders(files, k)
    BY <1>4, <1>7 DEF Holders
  <2>2. TableEntry(sstables', files', k) = TableEntry(sstables, files, k)
    BY <1>1, <1>2, <1>5, <2>1, NewTableEntry
  <2>3. CASE Visible(TableEntry(sstables, files, k)) = committed[k]
    BY <1>1, <2>2, <2>3 DEF TableInv
  <2>4. ASSUME NEW n \in Orphans, IsHome(k, n) PROVE n \in Orphans' /\ IsHome(k, n)'
    <3>1. n \in DOMAIN files /\ n \in Nat /\ n < next_seq
      BY <1>2, <2>4 DEF IsHome, Holders
    <3>2. \A x \in Range(sstables') : x = next_seq \/ x \in Range(sstables)
      <4>1. \A i \in DOMAIN sstables' :
               sstables'[i] = next_seq \/ (i - 1 \in DOMAIN sstables /\ sstables'[i] = sstables[i - 1])
        BY <1>1, <1>2
      <4> QED
        BY <4>1 DEF Range
    <3>3. n \in Orphans'
      BY <1>1, <1>2, <2>4, <3>1, <3>2 DEF Orphans
    <3>4. \A m \in Holders(files, k) : m < next_seq
      BY <1>2, <1>3, <2>1 DEF Holders, SSTablesOrdered
    <3>5. n < next_seq' /\ \A m \in Holders(files', k) : m < next_seq' => m <= n
      BY <1>1, <1>2, <2>4, <3>1, <3>4 DEF IsHome
    <3> QED
      BY <1>1, <2>4, <3>3, <3>5 DEF IsHome
  <2>5. CASE \E n \in Orphans : IsHome(k, n)
    <3>1. \E n \in Orphans' : IsHome(k, n)'
      BY <2>4, <2>5
    <3> QED
      BY <3>1 DEF TableInv
  <2> QED
    BY <1>3, <1>7, <2>3, <2>5 DEF TableInv
<1> QED
  BY <1>6, <1>7

\* The merged table answers for its inputs.
LEMMA ReadCompactSwap ==
    TypeOK /\ DurabilityInv /\ ReadInv /\ CompactSwap => ReadInv'
<1> SUFFICES ASSUME TypeOK, DurabilityInv, ReadInv, CompactSwap, NEW k \in Key
             PROVE  TableInv(k)'
  BY DEF ReadInv
<1>1. /\ pc = "swap" /\ files[next_seq] # Torn
      /\ old_paths' = sstables /\ sstables' = <<next_seq>> /\ next_seq' = next_seq + 1
      /\ UNCHANGED <<files, memtable, committed>>
  BY DEF CompactSwap, disk, history
<1>2. next_seq \in Nat /\ sstables \in Seq(Nat) /\ DOMAIN files \subseteq Nat
      /\ committed \in [Key -> Value \cup {Absent}]
  BY DEF TypeOK
<1>3. SSTablesOrdered /\ TableInv(k)
  BY <1>1, ReadInvAll DEF DurabilityInv
<1>4. /\ next_seq \in DOMAIN files /\ old_paths = <<>>
      /\ files[next_seq] = CompactionOutput(sstables, files)
  BY <1>1 DEF DurabilityInv, ControlInv
<1> DEFINE M == Merged(sstables, files)
           e == TableEntry(sstables, files, k)
<1>5. M \in Table /\ M[k] = Visible(e)
  BY TableEntryType, VisibleType DEF Merged, Table, Entry
<1>6. TableEntry(sstables', files', k) = M[k]
  <2>1. TableEntry(sstables', files', k) =
           IF next_seq \in Holders(files, k) THEN files[next_seq][k] ELSE Absent
    BY <1>1, <1>2, OneTableEntry
  <2>3. CASE files[next_seq] = M
    <3>1. next_seq \in Holders(files, k) <=> M[k] # Absent
      BY <1>4, <1>5, <2>3 DEF Holders
    <3> QED
      BY <2>1, <2>3, <3>1
  <2>4. CASE files[next_seq] = Placeholder /\ M = EmptyTable
    <3>1. next_seq \notin Holders(files, k)
      BY <2>4, EngineConstants DEF Holders
    <3> QED
      BY <2>1, <2>4, <3>1 DEF EmptyTable
  <2> QED
    BY <1>4, <2>3, <2>4 DEF CompactionOutput
<1>7. Visible(Visible(e)) = Visible(e)
  BY EngineConstants DEF Visible, Entry
<1> HIDE DEF M, e
<1>8. CASE Visible(e) = committed[k]
  BY <1>1, <1>5, <1>6, <1>7, <1>8 DEF TableInv
<1>9. ASSUME NEW n \in Orphans, IsHome(k, n) PROVE n \in Orphans' /\ IsHome(k, n)'
  <2>1. n \in DOMAIN files /\ n \in Nat /\ n < next_seq
    BY <1>2, <1>9 DEF IsHome, Holders
  <2>2. Range(sstables') = {next_seq}
    BY <1>1 DEF Range
  <2>3. n \in Orphans' /\ n \notin Range(old_paths')
    BY <1>1, <1>2, <1>9, <2>1, <2>2 DEF Orphans
  <2>4. e = Absent
    BY <1>3, <1>9, OrphanHidesNothing DEF e
  <2>5. M[k] = Absent
    BY <1>5, <2>4, EngineConstants DEF Visible, Entry
  <2>6. next_seq \notin Holders(files, k)
    BY <1>4, <2>5, EngineConstants DEF Holders, CompactionOutput, M
  <2>7. \A m \in Holders(files, k) : m < next_seq
    BY <1>2, <1>3, <2>6 DEF Holders, SSTablesOrdered
  <2>8. n < next_seq' /\ \A m \in Holders(files', k) : m < next_seq' => m <= n
    BY <1>1, <1>2, <1>9, <2>1, <2>7 DEF IsHome
  <2> QED
    BY <1>1, <1>9, <2>3, <2>8 DEF IsHome
<1>10. CASE \E n \in Orphans : IsHome(k, n)
  <2>1. \E n \in Orphans' : IsHome(k, n)'
    BY <1>9, <1>10
  <2> QED
    BY <2>1 DEF TableInv
<1>11. CASE memtable[k] # Absent
  BY <1>1, <1>11 DEF TableInv
<1> QED
  BY <1>3, <1>8, <1>10, <1>11 DEF TableInv, e

\* When the readers are dropped, the newest file with k is one without a reader.
LEMMA ReadCompactOpenFails ==
    TypeOK /\ DurabilityInv /\ ReadInv /\ CompactOpenFails => ReadInv'
<1> SUFFICES ASSUME TypeOK, DurabilityInv, ReadInv, CompactOpenFails, NEW k \in Key
             PROVE  TableInv(k)'
  BY DEF ReadInv
<1>1. /\ pc = "swap" /\ sstables' = <<>>
      /\ UNCHANGED <<files, memtable, next_seq, old_paths, committed>>
  BY DEF CompactOpenFails, disk, history
<1>2. SSTablesOrdered /\ TableInv(k) /\ old_paths = <<>>
  BY <1>1, ReadInvAll DEF DurabilityInv, ControlInv
<1>3. Orphans' = DOMAIN files /\ \A n : IsHome(k, n) => IsHome(k, n)' /\ n \in Orphans'
  <2>1. Range(sstables') = {} /\ Range(old_paths') = {}
    BY <1>1, <1>2 DEF Range
  <2>2. Orphans' = DOMAIN files
    BY <1>1, <2>1 DEF Orphans
  <2>3. \A n : IsHome(k, n) => IsHome(k, n)' /\ n \in DOMAIN files
    BY <1>1 DEF IsHome, Holders
  <2> QED
    BY <2>2, <2>3
<1>4. TableEntry(sstables', files', k) = Absent
  BY <1>1 DEF TableEntry
<1>5. CASE TableEntry(sstables, files, k) = Absent
  BY <1>1, <1>2, <1>3, <1>4, <1>5 DEF TableInv
<1>6. CASE TableEntry(sstables, files, k) # Absent
  <2>1. \E n \in Orphans' : IsHome(k, n)'
    BY <1>2, <1>3, <1>6, HitHasHome
  <2> QED
    BY <2>1 DEF TableInv
<1> QED
  BY <1>5, <1>6

\* Unlinking an input touches neither the open table nor a dropped one.
LEMMA ReadCleanupUnlink ==
    TypeOK /\ DurabilityInv /\ ReadInv /\ CleanupUnlink => ReadInv'
<1> SUFFICES ASSUME TypeOK, DurabilityInv, ReadInv, CleanupUnlink, NEW k \in Key
             PROVE  TableInv(k)'
  BY DEF ReadInv
<1>1. /\ pc = "cleanup" /\ old_paths # <<>>
      /\ files' = files \/ files' = Unlink(Head(old_paths))
      /\ old_paths' = Tail(old_paths)
      /\ UNCHANGED <<memtable, sstables, next_seq, committed>>
  BY DEF CleanupUnlink, history
<1>2. /\ old_paths \in Seq(Nat) /\ sstables \in Seq(Nat)
      /\ next_seq \in Nat /\ DOMAIN files \subseteq Nat
  BY DEF TypeOK
<1>3. /\ SSTablesOrdered /\ TableInv(k)
      /\ \A i \in DOMAIN old_paths : \A j \in DOMAIN sstables : old_paths[i] < sstables[j]
  BY <1>1, ReadInvAll DEF DurabilityInv, ControlInv
<1>4. Head(old_paths) \in Range(old_paths) /\ Range(old_paths') \subseteq Range(old_paths)
  <2>1. 1 \in DOMAIN old_paths /\ Head(old_paths) = old_paths[1]
    BY <1>1, <1>2
  <2>2. \A i \in DOMAIN old_paths' : i + 1 \in DOMAIN old_paths /\ old_paths'[i] = old_paths[i + 1]
    BY <1>1, <1>2
  <2> QED
    BY <2>1, <2>2 DEF Range
<1>5. /\ \A n \in DOMAIN files : n # Head(old_paths) => n \in DOMAIN files' /\ files'[n] = files[n]
      /\ DOMAIN files' \subseteq DOMAIN files /\ \A n \in DOMAIN files' : files'[n] = files[n]
  BY <1>1 DEF Unlink
<1>6. \A i \in DOMAIN sstables : /\ sstables[i] \in DOMAIN files'
                                 /\ files'[sstables[i]] = files[sstables[i]]
  <2> SUFFICES ASSUME NEW i \in DOMAIN sstables
               PROVE  sstables[i] \in DOMAIN files' /\ files'[sstables[i]] = files[sstables[i]]
    OBVIOUS
  <2>1. sstables[i] \in DOMAIN files /\ sstables[i] \in Nat
    BY <1>2, <1>3 DEF SSTablesOrdered
  <2>2. Head(old_paths) < sstables[i] /\ Head(old_paths) \in Nat
    BY <1>1, <1>2, <1>3
  <2> QED
    BY <1>5, <2>1, <2>2
<1>7. ASSUME NEW n \in Orphans, IsHome(k, n) PROVE n \in Orphans' /\ IsHome(k, n)'
  <2>1. n \in DOMAIN files /\ n # Head(old_paths) /\ n \notin Range(old_paths')
    BY <1>4, <1>7 DEF Orphans
  <2>2. n \in Orphans'
    BY <1>1, <1>5, <1>7, <2>1 DEF Orphans
  <2>3. n \in Holders(files', k) /\ Holders(files', k) \subseteq Holders(files, k)
    BY <1>5, <1>7, <2>1 DEF IsHome, Holders
  <2> QED
    BY <1>1, <1>7, <2>1, <2>2, <2>3 DEF IsHome
<1> QED
  BY <1>1, <1>3, <1>6, <1>7, TableInvKept

\* The process dies: an unapplied key is in the log, the others are as they were.
LEMMA ReadCrash ==
    TypeOK /\ DurabilityInv /\ ReadInv /\ Crash => ReadInv'
<1> SUFFICES ASSUME TypeOK, DurabilityInv, ReadInv, Crash, NEW k \in Key
             PROVE  TableInv(k)' \/ (pc' = "down" /\ Logged(k)')
  BY DEF ReadInv
<1>1. pc' = "down" /\ pc # "down" /\ UNCHANGED <<memory, committed>>
  BY EngineConstants DEF Crash
<1>2. files' = files \/ files' = WriteFile(next_seq, Torn)
  BY DEF Crash
<1>3. SSTablesOrdered
  BY DEF DurabilityInv
<1>4. CASE TableInv(k)
  <2>1. CASE files' = files
    BY <1>1, <1>3, <1>4, <2>1, TableInvSame DEF memory
  <2>2. CASE files' = WriteFile(next_seq, Torn)
    BY <1>1, <1>3, <1>4, <2>2, TableInvWrite
  <2> QED
    BY <1>2, <2>1, <2>2
<1>5. CASE ~TableInv(k)
  <2>1. pc = "apply" /\ k \in Unapplied
    BY <1>1, <1>5 DEF ReadInv, Unapplied
  <2>2. Logged(k)
    BY <1>1, <2>1 DEF DurabilityInv, KeyInv
  <2>3. wal' = wal
    BY <2>1 DEF Crash
  <2> QED
    BY <1>1, <2>2, <2>3 DEF Logged
<1> QED
  BY <1>4, <1>5

\* The constructor opens every file it keeps and replays the log, so get() answers what a
\* restart recovers.
LEMMA LoadServes ==
    ASSUME TypeOK, TypeOK', NEW good \in SUBSET DOMAIN files, Load(good),
           \A n \in good : files[n] # Torn, NEW k \in Key
    PROVE  /\ memtable'[k] = Replay(wal', k)
           /\ TableEntry(sstables', files', k) = FileEntry(files', k)
           /\ committed'[k] = Recovered(k)'
<1>1. memtable'[k] = Replay(wal', k) /\ committed'[k] = Recovered(k)' /\ old_paths' = <<>>
  BY DEF Load
<1>2. DurabilityInv'
  BY LoadEstablishes
<1>3. SSTablesOrdered'
  BY <1>2 DEF DurabilityInv
<1>4. DOMAIN files' = good /\ good \subseteq Nat /\ IsFiniteSet(good)
  BY FS_Subset DEF Load, Restrict, TypeOK
<1>5. sstables' \in Seq(Nat) /\ Range(sstables') = good
  BY <1>4, DescendingType DEF Load
<1>6. ASSUME NEW m \in DOMAIN files', IsNewest(files', k, m)
      PROVE  TableEntry(sstables', files', k) = FileEntry(files', k)
  <2>1. FileEntry(files', k) = files'[m][k]
    BY <1>4, <1>6, NewestUnique
  <2>2. PICK i \in DOMAIN sstables' : sstables'[i] = m
    BY <1>4, <1>5 DEF Range
  <2>3. IsFirstHit(sstables', files', i, k)
    <3>1. ASSUME NEW j \in 1..(i - 1) PROVE sstables'[j] \notin Holders(files', k)
      <4>1. j \in DOMAIN sstables' /\ j < i
        BY <1>5
      <4>2. sstables'[j] > m /\ sstables'[j] \in Nat /\ m \in Nat
        BY <1>3, <1>5, <2>2, <4>1 DEF SSTablesOrdered
      <4> QED
        BY <1>6, <4>2 DEF IsNewest
    <3> QED
      BY <1>6, <2>2, <3>1 DEF IsFirstHit, IsNewest
  <2> QED
    BY <1>5, <2>1, <2>2, <2>3, FirstHitUnique
<1>7. ASSUME ~ \E m \in DOMAIN files' : IsNewest(files', k, m)
      PROVE  TableEntry(sstables', files', k) = FileEntry(files', k)
  <2>1. FileEntry(files', k) = Absent
    BY <1>7 DEF FileEntry
  <2>2. ASSUME NEW i \in DOMAIN sstables', IsFirstHit(sstables', files', i, k) PROVE FALSE
    <3> DEFINE m == sstables'[i]
    <3>1. m \in Holders(files', k) /\ m \in DOMAIN files' /\ m \in Nat
      BY <1>5, <2>2 DEF IsFirstHit, Holders
    <3>2. ASSUME NEW n \in Holders(files', k) PROVE n <= m
      <4>1. n \in good /\ n \in Nat
        BY <1>4 DEF Holders
      <4>2. PICK j \in DOMAIN sstables' : sstables'[j] = n
        BY <1>5, <4>1 DEF Range
      <4>3. j < i => j \in 1..(i - 1)
        BY <1>5
      <4>4. ~(j < i)
        BY <2>2, <4>2, <4>3 DEF IsFirstHit
      <4>5. j = i \/ i < j
        BY <1>5, <4>4
      <4> QED
        BY <1>3, <3>1, <4>1, <4>2, <4>5 DEF SSTablesOrdered
    <3>3. IsNewest(files', k, m)
      BY <3>1, <3>2 DEF IsNewest
    <3> QED
      BY <1>7, <3>1, <3>3
  <2> QED
    BY <2>1, <2>2 DEF TableEntry
<1> QED
  BY <1>1, <1>6, <1>7

\* So the constructor establishes ReadInv.
LEMMA ReadLoad ==
    ASSUME TypeOK, TypeOK', NEW good \in SUBSET DOMAIN files, Load(good),
           \A n \in good : files[n] # Torn
    PROVE  ReadInv'
<1> SUFFICES ASSUME NEW k \in Key, memtable'[k] = Absent
             PROVE  Visible(TableEntry(sstables', files', k)) = committed'[k]
  BY DEF ReadInv, TableInv
<1> QED
  BY LoadServes DEF Recovered

\* A step of the control alone keeps ReadInv.
LEMMA ReadSame ==
    ASSUME TypeOK, DurabilityInv, ReadInv, pc \notin {"apply", "down"},
           UNCHANGED <<files, memtable, sstables, next_seq, old_paths, committed>>
    PROVE  ReadInv'
<1>1. SSTablesOrdered /\ \A k \in Key : TableInv(k)
  BY ReadInvAll DEF DurabilityInv
<1>2. \A k \in Key : TableInv(k)'
  BY <1>1, TableInvSame
<1> QED
  BY <1>2 DEF ReadInv

\* Writing the file next_seq_ keeps it.
LEMMA ReadWrite ==
    ASSUME TypeOK, DurabilityInv, ReadInv, pc \notin {"apply", "down"},
           NEW t, files' = WriteFile(next_seq, t), UNCHANGED <<memory, committed>>
    PROVE  ReadInv'
<1>1. SSTablesOrdered /\ \A k \in Key : TableInv(k)
  BY ReadInvAll DEF DurabilityInv
<1>2. \A k \in Key : TableInv(k)'
  BY <1>1, TableInvWrite
<1> QED
  BY <1>2 DEF ReadInv

\* Every step keeps ReadInv.
LEMMA ReadStep ==
    TypeOK /\ TypeOK' /\ DurabilityInv /\ ReadInv /\ [Next]_vars => ReadInv'
<1> SUFFICES ASSUME TypeOK, TypeOK', DurabilityInv, ReadInv, [Next]_vars PROVE ReadInv'
  OBVIOUS
<1> USE DEF disk, memory, history
<1>1. ASSUME NEW k \in Key, NEW v \in Value, Put(k, v) PROVE ReadInv'
  BY <1>1, ReadSame DEF Put, Begin
<1>2. ASSUME NEW k \in Key, Remove(k) PROVE ReadInv'
  BY <1>2, ReadSame DEF Remove, Begin
<1>3. CASE AppendRecord
  BY <1>3, ReadAppend
<1>4. CASE AppendFails
  BY <1>4, ReadSame DEF AppendFails
<1>5. CASE ApplyToMemTable
  BY <1>5, ReadApply
<1>6. CASE FlushBuild
  BY <1>6, ReadWrite DEF FlushBuild
<1>7. CASE FlushBuildFails
  BY <1>7, ReadSame DEF FlushBuildFails
<1>8. CASE FlushInstall
  BY <1>8, ReadFlushInstall
<1>9. CASE FlushOpenFails
  BY <1>9, ReadSame DEF FlushOpenFails
<1>10. CASE WalClear
  <2>1. pc = "truncate" /\ UNCHANGED <<files, memory, history>>
    BY <1>10, Zenon DEF WalClear
  <2> QED
    BY <2>1, ReadSame
<1>11. CASE CompactBuild
  BY <1>11, ReadWrite DEF CompactBuild
<1>12. CASE CompactBuildFails
  BY <1>12, ReadSame DEF CompactBuildFails
<1>13. CASE CompactSwap
  BY <1>13, ReadCompactSwap
<1>14. CASE CompactOpenFails
  BY <1>14, ReadCompactOpenFails
<1>15. CASE CleanupUnlink
  BY <1>15, ReadCleanupUnlink
<1>16. CASE CleanupDone
  BY <1>16, ReadSame DEF CleanupDone
<1>17. CASE Close
  BY <1>17, ReadSame DEF Close
<1>18. CASE Crash
  BY <1>18, ReadCrash
<1>19. CASE Restart
  BY <1>19, ReadLoad DEF Restart, ValidFiles
<1>20. CASE RestartDropsGoodFile
  <2>1. PICK n \in ValidFiles : Load(ValidFiles \ {n})
    BY <1>20 DEF RestartDropsGoodFile
  <2> QED
    BY <2>1, ReadLoad DEF ValidFiles
<1>21. CASE UNCHANGED vars
  <2>1. UNCHANGED <<wal, files, memtable, sstables, next_seq, old_paths, pc, op, committed>>
    BY <1>21 DEF vars
  <2>2. SSTablesOrdered
    BY DEF DurabilityInv
  <2>3. \A k \in Key : TableInv(k) => TableInv(k)'
    BY <2>1, <2>2, TableInvSame
  <2>4. Unapplied' = Unapplied /\ \A k \in Key : Logged(k) => Logged(k)'
    BY <2>1 DEF Unapplied, Logged
  <2> QED
    BY <2>1, <2>3, <2>4 DEF ReadInv
<1> QED
  BY <1>1, <1>2, <1>3, <1>4, <1>5, <1>6, <1>7, <1>8, <1>9, <1>10, <1>11, <1>12, <1>13,
     <1>14, <1>15, <1>16, <1>17, <1>18, <1>19, <1>20, <1>21 DEF Next, Step

-----------------------------------------------------------------------------
(* The operation in flight, and the placeholder.                           *)

\* Every step keeps InFlightInv.
LEMMA InFlightStep ==
    TypeOK /\ DurabilityInv /\ InFlightInv /\ [Next]_vars => InFlightInv'
<1> SUFFICES ASSUME TypeOK, DurabilityInv, InFlightInv, [Next]_vars PROVE InFlightInv'
  OBVIOUS
<1> USE DEF disk, memory, history
<1>1. ASSUME pc' \notin {"flush", "install", "truncate", "compact"} PROVE InFlightInv'
  BY <1>1 DEF InFlightInv
<1>2. CASE ApplyToMemTable
  <2>1. op \in Record /\ memtable \in Table
    BY <1>2 DEF ApplyToMemTable, TypeOK
  <2>2. memtable'[op.key] = op.val
    BY <1>2, <2>1 DEF ApplyToMemTable, Record, Table
  <2> QED
    BY <1>2, <2>2 DEF ApplyToMemTable, Return, InFlightInv
<1>3. CASE FlushBuild
  BY <1>3 DEF FlushBuild, InFlightInv
<1>4. CASE FlushInstall
  <2>1. /\ pc = "install" /\ pc' = "truncate" /\ files[next_seq] # Torn /\ op' = op
        /\ sstables' = <<next_seq>> \o sstables /\ files' = files
    BY <1>4 DEF FlushInstall
  <2>2. memtable \in Table /\ next_seq \in Nat /\ sstables \in Seq(Nat) /\ op \in Record \cup {NoOp}
    BY DEF TypeOK
  <2>3. next_seq \in DOMAIN files /\ files[next_seq] = memtable
    BY <2>1 DEF DurabilityInv, ControlInv
  <2>4. \A i \in DOMAIN sstables : sstables[i] \in DOMAIN files
    BY DEF DurabilityInv, SSTablesOrdered
  <2>5. ASSUME op # NoOp PROVE TableEntry(sstables', files', op.key) = op.val
    <3>1. memtable[op.key] = op.val /\ op.key \in Key /\ op.val \in Entry
      BY <2>1, <2>2, <2>5 DEF InFlightInv, Record
    <3>2. next_seq \in Holders(files, op.key)
      BY <2>2, <2>3, <3>1, EngineConstants DEF Holders
    <3> QED
      BY <2>1, <2>2, <2>3, <2>4, <3>1, <3>2, NewTableEntry
  <2> QED
    BY <2>1, <2>5 DEF InFlightInv
<1>5. CASE WalClear
  <2>1. pc = "truncate" /\ UNCHANGED <<files, memory>>
    BY <1>5, Zenon DEF WalClear
  <2>2. \/ CompactionDue /\ pc' = "compact" /\ op' = op
        \/ pc' = "idle"
    BY <1>5, Zenon DEF WalClear, Return
  <2> QED
    BY <2>1, <2>2 DEF InFlightInv, CompactionDue
<1>6. CASE Restart \/ RestartDropsGoodFile
  <2>1. op' = NoOp /\ pc' \in {"flush", "idle"}
    BY <1>6 DEF Restart, RestartDropsGoodFile, Load
  <2> QED
    BY <2>1 DEF InFlightInv
<1>7. CASE UNCHANGED vars
  BY <1>7 DEF vars, InFlightInv
<1>8. ASSUME NEW k \in Key, NEW v \in Value, Put(k, v) PROVE InFlightInv'
  BY <1>1, <1>8 DEF Put, Begin
<1>9. ASSUME NEW k \in Key, Remove(k) PROVE InFlightInv'
  BY <1>1, <1>9 DEF Remove, Begin
<1>10. CASE \/ AppendRecord \/ AppendFails \/ FlushBuildFails \/ FlushOpenFails \/ CompactBuild
            \/ CompactBuildFails \/ CompactSwap \/ CompactOpenFails \/ CleanupUnlink
            \/ CleanupDone \/ Close \/ Crash
  BY <1>1, <1>10 DEF AppendRecord, AppendFails, FlushBuildFails, FlushOpenFails, CompactBuild,
     CompactBuildFails, CompactSwap, CompactOpenFails, CleanupUnlink, CleanupDone, Close, Crash,
     Return
<1> QED
  BY <1>2, <1>3, <1>4, <1>5, <1>6, <1>7, <1>8, <1>9, <1>10 DEF Next, Step

\* A merge that a put() has triggered is not empty: it holds the value of that put().
LEMMA MergeNotEmpty ==
    ASSUME TypeOK, InFlightInv, pc = "compact"
    PROVE  CompactionOutput(sstables, files) # Placeholder
<1>1. op \in Record /\ op.val \in Value /\ TableEntry(sstables, files, op.key) = op.val
  BY DEF TypeOK, InFlightInv, Record, Entry
<1>2. Merged(sstables, files)[op.key] = op.val
  BY <1>1, EngineConstants DEF Merged, Visible, Record
<1>3. Merged(sstables, files) # EmptyTable
  BY <1>1, <1>2, EngineConstants DEF EmptyTable, Record, Entry
<1>4. Merged(sstables, files) \in Table
  BY TableEntryType, VisibleType DEF Merged, Table, Entry
<1> QED
  BY <1>3, <1>4, EngineConstants DEF CompactionOutput

\* No step writes the placeholder.
LEMMA PlaceholderStep ==
    TypeOK /\ InFlightInv /\ NoPlaceholder /\ [Next]_vars => NoPlaceholder'
<1> SUFFICES ASSUME TypeOK, InFlightInv, NoPlaceholder, [Next]_vars PROVE NoPlaceholder'
  OBVIOUS
<1> USE DEF disk, memory, history
<1>1. ASSUME NEW t, t # Placeholder, files' = WriteFile(next_seq, t) PROVE NoPlaceholder'
  BY <1>1 DEF WriteFile, NoPlaceholder
<1>2. ASSUME NEW G \in SUBSET DOMAIN files, files' = [n \in G |-> files[n]] PROVE NoPlaceholder'
  BY <1>2 DEF NoPlaceholder
<1>3. ASSUME UNCHANGED files PROVE NoPlaceholder'
  BY <1>3 DEF NoPlaceholder
<1>4. Torn # Placeholder /\ memtable # Placeholder
  BY EngineConstants DEF TypeOK
<1>5. CASE FlushBuild
  BY <1>1, <1>4, <1>5 DEF FlushBuild
<1>6. CASE CompactBuild
  BY <1>1, <1>4, <1>6, MergeNotEmpty DEF CompactBuild
<1>7. CASE CleanupUnlink
  BY <1>2, <1>3, <1>7 DEF CleanupUnlink, Unlink
<1>8. CASE Crash
  BY <1>1, <1>3, <1>4, <1>8 DEF Crash
<1>9. CASE Restart
  BY <1>2, <1>9 DEF Restart, Load, ValidFiles, Restrict
<1>10. CASE RestartDropsGoodFile
  BY <1>2, <1>10 DEF RestartDropsGoodFile, Load, ValidFiles, Restrict
<1>11. CASE WalClear
  BY <1>3, <1>11, Zenon DEF WalClear
<1>12. CASE UNCHANGED vars
  BY <1>3, <1>12 DEF vars
<1>13. ASSUME NEW k \in Key, NEW v \in Value, Put(k, v) PROVE NoPlaceholder'
  BY <1>3, <1>13 DEF Put, Begin
<1>14. ASSUME NEW k \in Key, Remove(k) PROVE NoPlaceholder'
  BY <1>3, <1>14 DEF Remove, Begin
<1>15. CASE \/ AppendRecord \/ AppendFails \/ ApplyToMemTable \/ FlushBuildFails \/ FlushInstall
            \/ FlushOpenFails \/ CompactBuildFails \/ CompactSwap \/ CompactOpenFails
            \/ CleanupDone \/ Close
  BY <1>3, <1>15 DEF AppendRecord, AppendFails, ApplyToMemTable, FlushBuildFails, FlushInstall,
     FlushOpenFails, CompactBuildFails, CompactSwap, CompactOpenFails, CleanupDone, Close
<1> QED
  BY <1>5, <1>6, <1>7, <1>8, <1>9, <1>10, <1>11, <1>12, <1>13, <1>14, <1>15 DEF Next, Step

\* Every step keeps the inputs of a compaction below next_seq_.
LEMMA InputsStep ==
    TypeOK /\ DurabilityInv /\ InputsOlder /\ [Next]_vars => InputsOlder'
<1> SUFFICES ASSUME TypeOK, DurabilityInv, InputsOlder, [Next]_vars PROVE InputsOlder'
  OBVIOUS
<1> USE DEF disk, memory, history
<1>1. ASSUME old_paths' = <<>> PROVE InputsOlder'
  BY <1>1 DEF InputsOlder
<1>2. ASSUME UNCHANGED <<old_paths, next_seq>> PROVE InputsOlder'
  BY <1>2 DEF InputsOlder
<1>3. CASE FlushInstall
  BY <1>1, <1>3 DEF FlushInstall, DurabilityInv, ControlInv
<1>4. CASE CompactSwap
  <2>1. old_paths' = sstables /\ next_seq' = next_seq + 1 /\ next_seq \in Nat /\ sstables \in Seq(Nat)
    BY <1>4 DEF CompactSwap, TypeOK
  <2>2. \A i \in DOMAIN sstables : sstables[i] < next_seq /\ sstables[i] \in Nat
    BY <2>1 DEF DurabilityInv, SSTablesOrdered
  <2> QED
    BY <2>1, <2>2 DEF InputsOlder
<1>5. CASE CleanupUnlink
  <2>1. old_paths' = Tail(old_paths) /\ old_paths # <<>> /\ old_paths \in Seq(Nat) /\ next_seq' = next_seq
    BY <1>5 DEF CleanupUnlink, TypeOK
  <2>2. \A i \in DOMAIN old_paths' : i + 1 \in DOMAIN old_paths /\ old_paths'[i] = old_paths[i + 1]
    BY <2>1
  <2> QED
    BY <2>1, <2>2 DEF InputsOlder
<1>6. CASE Restart \/ RestartDropsGoodFile
  BY <1>1, <1>6 DEF Restart, RestartDropsGoodFile, Load
<1>7. CASE WalClear
  BY <1>2, <1>7, Zenon DEF WalClear
<1>8. CASE UNCHANGED vars
  BY <1>2, <1>8 DEF vars
<1>9. ASSUME NEW k \in Key, NEW v \in Value, Put(k, v) PROVE InputsOlder'
  BY <1>2, <1>9 DEF Put, Begin
<1>10. ASSUME NEW k \in Key, Remove(k) PROVE InputsOlder'
  BY <1>2, <1>10 DEF Remove, Begin
<1>11. CASE \/ AppendRecord \/ AppendFails \/ ApplyToMemTable \/ FlushBuild \/ FlushBuildFails
            \/ FlushOpenFails \/ CompactBuild \/ CompactBuildFails \/ CompactOpenFails
            \/ CleanupDone \/ Close \/ Crash
  BY <1>2, <1>11 DEF AppendRecord, AppendFails, ApplyToMemTable, FlushBuild, FlushBuildFails,
     FlushOpenFails, CompactBuild, CompactBuildFails, CompactOpenFails, CleanupDone, Close, Crash
<1> QED
  BY <1>3, <1>4, <1>5, <1>6, <1>7, <1>8, <1>9, <1>10, <1>11 DEF Next, Step

-----------------------------------------------------------------------------
(* The theorems.                                                           *)

\* ServingInv holds of an empty database.
LEMMA ServingInit == Init => ServingInv
<1> SUFFICES ASSUME Init PROVE ServingInv
  OBVIOUS
<1>1. /\ sstables = <<>> /\ old_paths = <<>> /\ DOMAIN files = {} /\ pc = "idle"
      /\ \A k \in Key : committed[k] = Absent
  BY DEF Init, EmptyTable
<1>2. \A k \in Key : TableEntry(sstables, files, k) = Absent
  BY <1>1 DEF TableEntry
<1>3. Visible(Absent) = Absent
  BY DEF Visible
<1>4. ReadInv
  BY <1>1, <1>2, <1>3 DEF ReadInv, TableInv
<1> QED
  BY <1>1, <1>4 DEF ServingInv, InFlightInv, NoPlaceholder, InputsOlder

\* The readers answer what was committed, and a compaction has a value to write, in every
\* behaviour of the engine.
THEOREM ServingInvariant == Spec => []ServingInv
<1>1. TypeOK /\ TypeOK' /\ DurabilityInv /\ ServingInv /\ [Next]_vars => ServingInv'
  BY ReadStep, InFlightStep, PlaceholderStep, InputsStep DEF ServingInv
<1> QED
  BY TypeCorrect, DurabilityInvariant, ServingInit, <1>1, PTL DEF Spec

\* Where the memtable and the readers give a key its committed answer, and where they do not
\* the newest file with the key has no reader.
LEMMA ServingImpliesReads == TypeOK /\ DurabilityInv /\ ServingInv => ReadYourWrites
<1> SUFFICES ASSUME TypeOK, DurabilityInv, ServingInv, NEW k \in Key,
                    pc # "down", ~(pc = "apply" /\ op.key = k)
             PROVE  \/ Get(k) = committed[k]
                    \/ \E n \in Orphans : IsNewest(files, k, n)
  BY DEF ReadYourWrites
<1>1. k \notin Unapplied
  BY DEF Unapplied
<1>2. KeyInv(Unapplied) /\ TableInv(k) /\ SSTablesOrdered /\ ControlInv
  BY <1>1 DEF DurabilityInv, ServingInv, ReadInv
<1>3. CASE memtable[k] # Absent
  BY <1>1, <1>2, <1>3 DEF KeyInv, MemInv, Get
<1>4. CASE memtable[k] = Absent /\ Visible(TableEntry(sstables, files, k)) = committed[k]
  BY <1>4 DEF Get
<1>5. ASSUME NEW n \in Orphans, IsHome(k, n) PROVE \E m \in Orphans : IsNewest(files, k, m)
  <2>1. next_seq \in Nat /\ DOMAIN files \subseteq Nat /\ \A m \in DOMAIN files : m <= next_seq
    BY <1>2 DEF TypeOK, SSTablesOrdered
  <2>2. CASE next_seq \notin Holders(files, k)
    <3>1. \A m \in Holders(files, k) : m < next_seq
      BY <2>1, <2>2 DEF Holders
    <3>2. IsNewest(files, k, n)
      BY <1>5, <3>1 DEF IsHome, IsNewest
    <3> QED
      BY <3>2
  <2>3. CASE next_seq \in Holders(files, k)
    <3>1. IsNewest(files, k, next_seq) /\ next_seq \in DOMAIN files
      BY <2>1, <2>3 DEF IsNewest, Holders
    <3>2. next_seq \notin Range(sstables)
      BY <1>2, <2>1 DEF SSTablesOrdered, Range
    <3>3. next_seq \notin Range(old_paths)
      BY <2>1 DEF ServingInv, InputsOlder, Range
    <3> QED
      BY <3>1, <3>2, <3>3 DEF Orphans
  <2> QED
    BY <2>2, <2>3
<1> QED
  BY <1>2, <1>3, <1>4, <1>5 DEF TableInv

\* A deleted key can come back only from a file outside sstables_.
LEMMA ServingImpliesDeletes == TypeOK /\ DurabilityInv /\ ServingInv => DeletesDurable
<1> SUFFICES ASSUME TypeOK, DurabilityInv, ServingInv, NEW k \in Key,
                    committed[k] = Absent, ~Buried(wal, k), ~LeftoverValue(k)
             PROVE  Recovered(k) \in Promised(k)
  BY DEF DeletesDurable
<1>1. PICK X \in SUBSET Key : (pc # "down" => X = Unapplied) /\ KeyInv(X)
  BY DEF DurabilityInv
<1>2. CASE Replay(wal, k) # Absent
  BY <1>1, <1>2 DEF KeyInv, LogInv, Recovered
<1>3. CASE Replay(wal, k) = Absent
  <2>1. k \notin X /\ memtable[k] = Absent /\ ~Logged(k)
    BY <1>1, <1>3 DEF KeyInv, Logged, MemInv
  <2>2. TableInv(k)
    BY <1>1, <2>1 DEF ServingInv, ReadInv, Unapplied
  <2>3. SUFFICES Visible(FileEntry(files, k)) = Absent
    BY <1>3 DEF Recovered, Promised
  <2>4. SUFFICES ASSUME Visible(FileEntry(files, k)) # Absent PROVE FALSE
    OBVIOUS
  <2>5. FileEntry(files, k) \in Value
    BY <2>4, FileEntryType DEF Visible, Entry
  <2>6. FileEntry(files, k) # Absent
    BY <2>5, EngineConstants DEF Entry
  <2>7. PICK m \in DOMAIN files : IsNewest(files, k, m)
    BY <2>6 DEF FileEntry
  <2>8. DOMAIN files \subseteq Nat /\ next_seq \in Nat /\ sstables \in Seq(Nat)
    BY DEF TypeOK
  <2>9. files[m][k] = FileEntry(files, k)
    BY <2>7, <2>8, NewestUnique
  <2>10. m \in Range(sstables)
    BY <2>5, <2>7, <2>9 DEF LeftoverValue, IsNewest
  <2>11. PICK i \in DOMAIN sstables : sstables[i] = m
    BY <2>10 DEF Range
  <2>12. SSTablesOrdered /\ m < next_seq /\ m \in Nat
    BY <2>8, <2>11 DEF DurabilityInv, SSTablesOrdered
  <2>13. IsFirstHit(sstables, files, i, k)
    <3>1. ASSUME NEW j \in 1..(i - 1) PROVE sstables[j] \notin Holders(files, k)
      <4>1. j \in DOMAIN sstables /\ j < i
        BY <2>8
      <4>2. sstables[j] > m /\ sstables[j] \in Nat
        BY <2>8, <2>11, <2>12, <4>1 DEF SSTablesOrdered
      <4> QED
        BY <2>7, <2>12, <4>2 DEF IsNewest
    <3> QED
      BY <2>7, <2>11, <3>1 DEF IsFirstHit, IsNewest
  <2>14. TableEntry(sstables, files, k) = files[m][k]
    BY <2>8, <2>11, <2>13, FirstHitUnique
  <2>15. PICK n \in Orphans : IsHome(k, n)
    BY <2>1, <2>2, <2>4, <2>9, <2>14 DEF TableInv
  <2>16. TableEntry(sstables, files, k) = Absent
    BY <2>12, <2>15, OrphanHidesNothing
  <2> QED
    BY <2>6, <2>9, <2>14, <2>16
<1> QED
  BY <1>2, <1>3

\* get() after put() or remove() answers what was written, at every step of flush, compaction
\* and recovery, unless maybe_compact() dropped the reader of the newest file with the key.
THEOREM ReadsSeeWrites == Spec => []ReadYourWrites
<1>1. TypeOK /\ DurabilityInv /\ ServingInv => ReadYourWrites
  BY ServingImpliesReads
<1> QED
  BY TypeCorrect, DurabilityInvariant, ServingInvariant, <1>1, PTL

\* A remove() whose append returned OK survives like a put(), except where a file outside
\* sstables_ still holds a value of the key.
THEOREM DeletesAreDurable == Spec => []DeletesDurable
<1>1. TypeOK /\ DurabilityInv /\ ServingInv => DeletesDurable
  BY ServingImpliesDeletes
<1> QED
  BY TypeCorrect, DurabilityInvariant, ServingInvariant, <1>1, PTL

\* The "__empty__" file of compact() is never written.
THEOREM PlaceholderNeverWritten == Spec => []NoPlaceholder
<1>1. ServingInv => NoPlaceholder
  BY DEF ServingInv
<1> QED
  BY ServingInvariant, <1>1, PTL

\* No step changes or removes a file under an open reader.
LEMMA ImmutableStep ==
    ASSUME TypeOK, DurabilityInv, [Next]_vars, NEW n \in Range(sstables) \cap Range(sstables')
    PROVE  n \in DOMAIN files' /\ files'[n] = files[n]
<1> USE DEF disk, memory, history
<1>1. /\ sstables \in Seq(Nat) /\ next_seq \in Nat /\ old_paths \in Seq(Nat)
      /\ DOMAIN files \subseteq Nat /\ IsFiniteSet(DOMAIN files)
  BY DEF TypeOK
<1>2. PICK i \in DOMAIN sstables : sstables[i] = n
  BY DEF Range
<1>3. n \in DOMAIN files /\ n < next_seq /\ n \in Nat
  BY <1>1, <1>2 DEF DurabilityInv, SSTablesOrdered
<1>4. ASSUME NEW t, files' = WriteFile(next_seq, t) PROVE n \in DOMAIN files' /\ files'[n] = files[n]
  BY <1>1, <1>3, <1>4 DEF WriteFile
<1>5. ASSUME UNCHANGED files PROVE n \in DOMAIN files' /\ files'[n] = files[n]
  BY <1>3, <1>5
<1>6. CASE FlushBuild \/ CompactBuild \/ Crash
  BY <1>4, <1>5, <1>6 DEF FlushBuild, CompactBuild, Crash
<1>7. CASE CleanupUnlink
  <2>1. old_paths # <<>> /\ (files' = files \/ files' = Unlink(Head(old_paths)))
    BY <1>7 DEF CleanupUnlink
  <2>2. Head(old_paths) < n /\ Head(old_paths) \in Nat
    BY <1>1, <1>2, <2>1 DEF DurabilityInv, ControlInv
  <2> QED
    BY <1>3, <2>1, <2>2 DEF Unlink
<1>8. ASSUME NEW good \in SUBSET DOMAIN files, Load(good)
      PROVE  n \in DOMAIN files' /\ files'[n] = files[n]
  <2>1. Range(sstables') = good
    <3>1. good \subseteq Nat /\ IsFiniteSet(good)
      BY <1>1, FS_Subset
    <3> QED
      BY <1>8, <3>1, DescendingType DEF Load
  <2> QED
    BY <1>8, <2>1 DEF Load, Restrict
<1>9. CASE Restart \/ RestartDropsGoodFile
  BY <1>8, <1>9 DEF Restart, RestartDropsGoodFile, ValidFiles
<1>10. CASE WalClear
  BY <1>5, <1>10, Zenon DEF WalClear
<1>11. CASE UNCHANGED vars
  BY <1>5, <1>11 DEF vars
<1>12. ASSUME NEW k \in Key, NEW v \in Value, Put(k, v)
       PROVE  n \in DOMAIN files' /\ files'[n] = files[n]
  BY <1>5, <1>12 DEF Put, Begin
<1>13. ASSUME NEW k \in Key, Remove(k) PROVE n \in DOMAIN files' /\ files'[n] = files[n]
  BY <1>5, <1>13 DEF Remove, Begin
<1>14. CASE \/ AppendRecord \/ AppendFails \/ ApplyToMemTable \/ FlushBuildFails \/ FlushInstall
            \/ FlushOpenFails \/ CompactBuildFails \/ CompactSwap \/ CompactOpenFails
            \/ CleanupDone \/ Close
  BY <1>5, <1>14 DEF AppendRecord, AppendFails, ApplyToMemTable, FlushBuildFails, FlushInstall,
     FlushOpenFails, CompactBuildFails, CompactSwap, CompactOpenFails, CleanupDone, Close
<1> QED
  BY <1>6, <1>7, <1>9, <1>10, <1>11, <1>12, <1>13, <1>14 DEF Next, Step

\* A file is never rewritten or unlinked while a reader of it stays open.
THEOREM OpenTablesNeverChange == Spec => OpenTablesImmutable
<1>1. TypeOK /\ DurabilityInv /\ [Next]_vars =>
         [\A n \in Range(sstables) \cap Range(sstables') :
             n \in DOMAIN files' /\ files'[n] = files[n]]_vars
  BY ImmutableStep
<1> QED
  BY TypeCorrect, DurabilityInvariant, <1>1, PTL DEF Spec, OpenTablesImmutable

\* The newest entry depends only on the files that hold the key.
LEMMA FileEntrySame ==
    ASSUME NEW f, NEW g, NEW k, DOMAIN f \subseteq Nat, DOMAIN g \subseteq Nat,
           Holders(g, k) = Holders(f, k), \A n \in Holders(f, k) : g[n] = f[n]
    PROVE  FileEntry(g, k) = FileEntry(f, k)
<1>1. \A m : IsNewest(g, k, m) <=> IsNewest(f, k, m)
  BY DEF IsNewest
<1>2. CASE \E m \in DOMAIN f : IsNewest(f, k, m)
  <2>1. PICK m \in DOMAIN f : IsNewest(f, k, m)
    BY <1>2
  <2>2. m \in DOMAIN g /\ g[m] = f[m] /\ IsNewest(g, k, m)
    BY <1>1, <2>1 DEF IsNewest, Holders
  <2> QED
    BY <2>1, <2>2, NewestUnique
<1>3. CASE ~ \E m \in DOMAIN f : IsNewest(f, k, m)
  <2>1. ~ \E m \in DOMAIN g : IsNewest(g, k, m)
    BY <1>1, <1>3 DEF IsNewest, Holders
  <2> QED
    BY <1>3, <2>1 DEF FileEntry
<1> QED
  BY <1>2, <1>3

\* A restart that loses no file to a failing validate() leaves a disk that recovers the same
\* answers, and serves them.
LEMMA RestartServes ==
    ASSUME TypeOK, TypeOK', Restart, NEW k \in Key
    PROVE  Recovered(k)' = Recovered(k) /\ Get(k)' = Recovered(k)
<1>1. Load(ValidFiles) /\ wal' = wal /\ files' = Restrict(files, ValidFiles)
  BY DEF Restart, Load
<1>2. ValidFiles \in SUBSET DOMAIN files /\ \A n \in ValidFiles : files[n] # Torn
  BY DEF ValidFiles
<1>3. /\ memtable'[k] = Replay(wal, k)
      /\ TableEntry(sstables', files', k) = FileEntry(files', k)
  BY <1>1, <1>2, LoadServes
<1>4. Holders(files', k) = Holders(files, k)
        /\ \A n \in Holders(files, k) : files'[n] = files[n]
  <2>1. DOMAIN files' = ValidFiles /\ \A n \in ValidFiles : files'[n] = files[n]
    BY <1>1 DEF Restrict
  <2>2. \A n \in DOMAIN files : files[n] \in Table => n \in ValidFiles
    BY EngineConstants DEF ValidFiles
  <2> QED
    BY <2>1, <2>2 DEF Holders, ValidFiles
<1>5. FileEntry(files', k) = FileEntry(files, k)
  <2>1. DOMAIN files \subseteq Nat /\ DOMAIN files' \subseteq Nat
    BY DEF TypeOK
  <2> QED
    BY <1>4, <2>1, FileEntrySame
<1> QED
  BY <1>1, <1>3, <1>5 DEF Get, Recovered

\* After a crash at any point and any earlier failures, the engine that starts again answers
\* for every key what its clients were promised, but for a buried record and a key deleted
\* while an older value lay in a file outside sstables_.
THEOREM RestartsKeepPromises == Spec => RestartKeepsPromises
<1>1. TypeOK /\ TypeOK' /\ DurabilityInv /\ ServingInv /\ [Next]_vars =>
         [Restarting /\ faults' = faults =>
             \A k \in Key :
                 \/ Get(k)' \in Promised(k)
                 \/ Buried(wal, k)
                 \/ (committed[k] = Absent /\ LeftoverValue(k))]_vars
  <2> SUFFICES ASSUME TypeOK, TypeOK', DurabilityInv, ServingInv, Next,
                      pc = "down", pc' # "down", faults' = faults, NEW k \in Key
               PROVE  \/ Get(k)' \in Promised(k)
                      \/ Buried(wal, k)
                      \/ (committed[k] = Absent /\ LeftoverValue(k))
    BY DEF Restarting
  <2>1. PutsDurable /\ DeletesDurable
    BY DurabilityImplies, ServingImpliesDeletes
  <2>2. committed[k] \in Value \/ committed[k] = Absent
    BY DEF TypeOK
  <2>3. Recovered(k) \in Promised(k) \/ Buried(wal, k) \/ (committed[k] = Absent /\ LeftoverValue(k))
    BY <2>1, <2>2 DEF PutsDurable, DeletesDurable
  <2>4. Restart
    <3>1. ~RestartDropsGoodFile
      BY DEF RestartDropsGoodFile, Fault, TypeOK
    <3>2. ~Step /\ ~Close /\ ~Crash
      BY EngineConstants DEF Step, AppendRecord, AppendFails, ApplyToMemTable, FlushBuild,
         FlushBuildFails, FlushInstall, FlushOpenFails, WalClear, CompactBuild,
         CompactBuildFails, CompactSwap, CompactOpenFails, CleanupUnlink, CleanupDone, Close, Crash
    <3>3. ~(\E j \in Key, v \in Value : Put(j, v)) /\ ~(\E j \in Key : Remove(j))
      BY DEF Put, Remove, Begin
    <3> QED
      BY <3>1, <3>2, <3>3 DEF Next
  <2> QED
    BY <2>3, <2>4, RestartServes
<1> QED
  BY TypeCorrect, DurabilityInvariant, ServingInvariant, <1>1, PTL DEF Spec, RestartKeepsPromises
=============================================================================
