------------------------ MODULE StorageEngineProofs ------------------------
(***************************************************************************)
(* Proofs about StorageEngine for every set of keys and values, every      *)
(* threshold and every combination of failures and crash points.           *)
(***************************************************************************)
EXTENDS StorageEngine, FiniteSetTheorems, SequenceTheorems, TLAPS

-----------------------------------------------------------------------------
(* Types of the operators.                                                 *)

\* get() turns a stored entry into a value or NOT_FOUND.
LEMMA VisibleType ==
    ASSUME NEW e \in Entry \cup {Absent}
    PROVE  Visible(e) \in Value \cup {Absent}
BY DEF Visible, Entry

\* recover() puts only entries of intact records into the memtable.
LEMMA ReplayType ==
    ASSUME NEW w \in Seq(Record \cup {Torn}), NEW k
    PROVE  Replay(w, k) \in Entry \cup {Absent}
<1>1. CASE \E i \in DOMAIN w : IsLastFor(w, i, k)
  <2> DEFINE i == CHOOSE i \in DOMAIN w : IsLastFor(w, i, k)
  <2>1. i \in DOMAIN w /\ IsLastFor(w, i, k)
    BY <1>1
  <2>2. w[i] \in Record \cup {Torn}
    BY <2>1
  <2>3. w[i] # Torn
    BY <2>1 DEF IsLastFor, Readable
  <2>4. w[i].val \in Entry
    BY <2>2, <2>3 DEF Record
  <2> QED
    BY <1>1, <2>4 DEF Replay
<1>2. CASE ~ \E i \in DOMAIN w : IsLastFor(w, i, k)
  BY <1>2 DEF Replay
<1> QED
  BY <1>1, <1>2

\* A file answers only for keys it holds.
LEMMA HolderType ==
    ASSUME NEW f, NEW k \in Key, NEW n \in Holders(f, k)
    PROVE  n \in DOMAIN f /\ f[n] \in Table /\ f[n][k] \in Entry
BY DEF Holders, Table

\* The entry the files give for a key is a stored entry or Absent.
LEMMA FileEntryType ==
    ASSUME NEW f, NEW k \in Key
    PROVE  FileEntry(f, k) \in Entry \cup {Absent}
<1>1. CASE \E m \in DOMAIN f : IsNewest(f, k, m)
  <2> DEFINE m == CHOOSE m \in DOMAIN f : IsNewest(f, k, m)
  <2>1. m \in Holders(f, k)
    BY <1>1 DEF IsNewest
  <2> QED
    BY <1>1, <2>1, HolderType DEF FileEntry
<1>2. CASE ~ \E m \in DOMAIN f : IsNewest(f, k, m)
  BY <1>2 DEF FileEntry
<1> QED
  BY <1>1, <1>2

\* So is the entry the open readers give.
LEMMA TableEntryType ==
    ASSUME NEW s, NEW f, NEW k \in Key
    PROVE  TableEntry(s, f, k) \in Entry \cup {Absent}
<1>1. CASE \E i \in DOMAIN s : IsFirstHit(s, f, i, k)
  <2> DEFINE i == CHOOSE i \in DOMAIN s : IsFirstHit(s, f, i, k)
  <2>1. s[i] \in Holders(f, k)
    BY <1>1 DEF IsFirstHit
  <2> QED
    BY <1>1, <2>1, HolderType DEF TableEntry
<1>2. CASE ~ \E i \in DOMAIN s : IsFirstHit(s, f, i, k)
  BY <1>2 DEF TableEntry
<1> QED
  BY <1>1, <1>2

\* A compaction writes a table or the placeholder.
LEMMA CompactionOutputType ==
    ASSUME NEW s, NEW f
    PROVE  CompactionOutput(s, f) \in Table \cup {Placeholder}
<1>1. Merged(s, f) \in Table
  BY TableEntryType, VisibleType DEF Merged, Table, Entry
<1> QED
  BY <1>1 DEF CompactionOutput

\* What a restart finds for a key is a value or NOT_FOUND.
LEMMA RecoveredType ==
    ASSUME NEW w \in Seq(Record \cup {Torn}), NEW f, NEW k \in Key
    PROVE  Visible(IF Replay(w, k) # Absent THEN Replay(w, k) ELSE FileEntry(f, k))
              \in Value \cup {Absent}
BY ReplayType, FileEntryType, VisibleType

\* A higher number comes earlier, and the ranks of S lie in 1..Cardinality(S).
LEMMA RankOrder ==
    ASSUME NEW S \in SUBSET Nat, IsFiniteSet(S), NEW n \in S
    PROVE  /\ Rank(S, n) \in 1..Cardinality(S)
           /\ \A m \in S : m > n => Rank(S, m) < Rank(S, n)
<1> DEFINE Up(x) == {y \in S : y >= x}
<1>1. \A x \in S : Up(x) \in SUBSET S /\ IsFiniteSet(Up(x)) /\ Cardinality(Up(x)) \in Nat
  BY FS_Subset, FS_CardinalityType
<1>2. Cardinality(S) \in Nat /\ Cardinality(Up(n)) <= Cardinality(S)
  BY FS_Subset, FS_CardinalityType
<1>3. Cardinality(Up(n)) # 0
  <2>1. n \in Up(n)
    OBVIOUS
  <2>2. IsFiniteSet(Up(n))
    BY <1>1
  <2> HIDE DEF Up
  <2> QED
    BY <2>1, <2>2, FS_EmptySet
<1>4. ASSUME NEW m \in S, m > n PROVE Cardinality(Up(m)) < Cardinality(Up(n))
  <2>1. Up(m) \in SUBSET Up(n) /\ n \in Up(n) /\ n \notin Up(m)
    <3>1. m \in Nat /\ n \in Nat
      OBVIOUS
    <3>2. ASSUME NEW y \in Up(m) PROVE y \in Up(n)
      <4>1. y \in S /\ y \in Nat /\ y >= m
        OBVIOUS
      <4>2. y >= n
        BY <1>4, <3>1, <4>1
      <4> QED
        BY <4>1, <4>2
    <3>3. n >= n /\ ~(n >= m)
      BY <1>4, <3>1
    <3> QED
      BY <3>2, <3>3
  <2>2. Cardinality(Up(m)) <= Cardinality(Up(n)) /\ Cardinality(Up(n)) # Cardinality(Up(m))
    BY <1>1, <2>1, FS_Subset
  <2> QED
    BY <1>1, <2>2
<1>5. Rank(S, n) \in 1..Cardinality(S)
  BY <1>1, <1>2, <1>3 DEF Rank
<1>6. \A m \in S : m > n => Rank(S, m) < Rank(S, n)
  BY <1>4 DEF Rank
<1> QED
  BY <1>5, <1>6

\* Every place of the list is the rank of a member: the ranks are an injection between
\* two sets of the same size.
LEMMA RankOnto ==
    ASSUME NEW S \in SUBSET Nat, IsFiniteSet(S)
    PROVE  \A i \in 1..Cardinality(S) : \E n \in S : Rank(S, n) = i
<1> DEFINE r == [n \in S |-> Rank(S, n)]
           T == 1..Cardinality(S)
<1>1. Cardinality(S) \in Nat
  BY FS_CardinalityType
<1>2. IsFiniteSet(T) /\ Cardinality(T) = Cardinality(S)
  BY <1>1, FS_Interval
<1>3. r \in [S -> T]
  BY RankOrder
<1>4. ASSUME NEW m \in S, NEW n \in S, m # n PROVE r[m] # r[n]
  <2>1. m > n \/ n > m
    BY <1>4
  <2>2. Rank(S, m) \in Nat /\ Rank(S, n) \in Nat
    BY <1>1, RankOrder
  <2>3. Rank(S, m) < Rank(S, n) \/ Rank(S, n) < Rank(S, m)
    BY <2>1, RankOrder
  <2> QED
    BY <2>2, <2>3
<1>5. r \in Injection(S, T)
  BY <1>3, <1>4 DEF Injection, IsInjective
<1>6. r \in Surjection(S, T)
  BY <1>2, <1>5, FS_Injection
<1> QED
  BY <1>6 DEF Surjection

\* Descending(S) is a strictly decreasing sequence of all of S.
LEMMA DescendingType ==
    ASSUME NEW S \in SUBSET Nat, IsFiniteSet(S)
    PROVE  /\ Descending(S) \in Seq(Nat)
           /\ Range(Descending(S)) = S
           /\ \A i, j \in DOMAIN Descending(S) :
                  i < j => Descending(S)[i] > Descending(S)[j]
<1> DEFINE s == Descending(S)
<1>1. Cardinality(S) \in Nat
  BY FS_CardinalityType
<1>2. DOMAIN s = 1..Cardinality(S)
  BY DEF Descending
<1>3. \A i \in 1..Cardinality(S) : s[i] \in S /\ Rank(S, s[i]) = i
  BY RankOnto DEF Descending
<1>4. s \in Seq(Nat)
  <2>1. s \in [1..Cardinality(S) -> Nat]
    BY <1>3 DEF Descending
  <2> QED
    BY <1>1, <2>1, SeqDef
<1> HIDE DEF s
<1>5. ASSUME NEW i \in DOMAIN s, NEW j \in DOMAIN s, i < j PROVE s[i] > s[j]
  <2>1. s[i] \in S /\ s[j] \in S /\ Rank(S, s[i]) = i /\ Rank(S, s[j]) = j
    BY <1>2, <1>3
  <2>2. s[j] > s[i] => j < i
    BY <2>1, RankOrder
  <2>3. i \in Nat /\ j \in Nat /\ s[i] \in Nat /\ s[j] \in Nat
    <3>1. i \in 1..Cardinality(S) /\ j \in 1..Cardinality(S)
      BY <1>2
    <3>2. i \in Nat /\ j \in Nat
      BY <1>1, <3>1
    <3>3. s[i] \in Nat /\ s[j] \in Nat
      BY <2>1
    <3> QED
      BY <3>2, <3>3
  <2>4. s[i] # s[j]
    BY <1>5, <2>1, <2>3
  <2> QED
    BY <1>5, <2>2, <2>3, <2>4
<1>6. ASSUME NEW n \in S PROVE \E i \in DOMAIN s : s[i] = n
  <2>1. Rank(S, n) \in 1..Cardinality(S)
    BY RankOrder
  <2>2. PICK i \in DOMAIN s : i = Rank(S, n)
    BY <1>2, <2>1
  <2>3. s[i] \in S /\ Rank(S, s[i]) = i /\ i \in Nat
    BY <1>1, <1>2, <1>3, <2>2
  <2>4. s[i] > n => Rank(S, s[i]) < Rank(S, n)
    BY <2>3, RankOrder
  <2>5. n > s[i] => Rank(S, n) < Rank(S, s[i])
    BY <2>3, RankOrder
  <2>6. ~(s[i] > n) /\ ~(n > s[i])
    BY <2>2, <2>3, <2>4, <2>5
  <2>7. s[i] \in Nat /\ n \in Nat
    BY <2>3
  <2>8. s[i] = n
    BY <2>6, <2>7
  <2> QED
    BY <2>8
<1>7. Range(s) = S
  BY <1>2, <1>3, <1>6 DEF Range
<1> QED
  BY <1>4, <1>5, <1>7 DEF s

-----------------------------------------------------------------------------
(* TypeOK.                                                                 *)

\* Building a file adds one finite table to the directory.
LEMMA WriteFileType ==
    ASSUME TypeOK, NEW t \in Table \cup {Torn, Placeholder},
           files' = WriteFile(next_seq, t)
    PROVE  /\ DOMAIN files' \subseteq Nat /\ IsFiniteSet(DOMAIN files')
           /\ \A n \in DOMAIN files' : files'[n] \in Table \cup {Torn, Placeholder}
<1>1. DOMAIN files' = DOMAIN files \cup {next_seq}
  BY DEF WriteFile
<1>2. IsFiniteSet(DOMAIN files \cup {next_seq})
  BY FS_AddElement DEF TypeOK
<1>3. \A n \in DOMAIN files' : files'[n] \in Table \cup {Torn, Placeholder}
  BY <1>1 DEF TypeOK, WriteFile
<1> QED
  BY <1>1, <1>2, <1>3 DEF TypeOK

\* Keeping some of the files keeps the directory well typed.
LEMMA RestrictType ==
    ASSUME TypeOK, NEW G \in SUBSET DOMAIN files,
           files' = [n \in G |-> files[n]]
    PROVE  /\ DOMAIN files' = G
           /\ DOMAIN files' \subseteq Nat /\ IsFiniteSet(DOMAIN files')
           /\ \A n \in DOMAIN files' : files'[n] \in Table \cup {Torn, Placeholder}
<1>1. IsFiniteSet(G)
  BY FS_Subset DEF TypeOK
<1> QED
  BY <1>1 DEF TypeOK

\* An interrupted append leaves a well-typed log.
LEMMA InterruptedType ==
    ASSUME TypeOK, op \in Record, NEW b, Interrupted(b)
    PROVE  /\ wal' \in Seq(Record \cup {Torn})
           /\ maybe' \in [Key -> SUBSET (Value \cup {Absent})]
<1>1. wal' \in Seq(Record \cup {Torn})
  <2>1. wal' \in {wal, Append(wal, op), Append(wal, Torn)}
    BY DEF Interrupted
  <2>2. wal \in Seq(Record \cup {Torn})
    BY DEF TypeOK
  <2> QED
    BY <2>1, <2>2
<1>2. Visible(op.val) \in Value \cup {Absent}
  BY VisibleType DEF Record
<1>3. maybe' \in [Key -> SUBSET (Value \cup {Absent})]
  <2>1. op.key \in Key /\ maybe \in [Key -> SUBSET (Value \cup {Absent})]
    BY DEF Record, TypeOK
  <2>2. [maybe EXCEPT ![op.key] = @ \cup {Visible(op.val)}]
           \in [Key -> SUBSET (Value \cup {Absent})]
    BY <1>2, <2>1
  <2> QED
    BY <2>1, <2>2 DEF Interrupted
<1> QED
  BY <1>1, <1>3

\* The constructor builds a well-typed engine from any well-typed disk.
LEMMA LoadType ==
    ASSUME TypeOK, NEW good \in SUBSET DOMAIN files, Load(good), faults' \in Nat
    PROVE  TypeOK'
<1>1. files' = [n \in good |-> files[n]]
  BY DEF Load, Restrict
<1>2. /\ DOMAIN files' = good
      /\ DOMAIN files' \subseteq Nat /\ IsFiniteSet(DOMAIN files')
      /\ \A n \in DOMAIN files' : files'[n] \in Table \cup {Torn, Placeholder}
  BY <1>1, RestrictType
<1>3. sstables' \in Seq(Nat)
  BY <1>2, DescendingType DEF Load
<1>4. next_seq' \in Nat
  BY <1>3 DEF Load
<1>5. memtable' \in Table
  BY ReplayType DEF Load, TypeOK, Table
<1>6. committed' \in [Key -> Value \cup {Absent}]
  <2>1. wal' \in Seq(Record \cup {Torn})
    BY DEF Load, TypeOK
  <2>2. \A k \in Key : Recovered(k)' \in Value \cup {Absent}
    BY <2>1, RecoveredType DEF Recovered
  <2> QED
    BY <2>2 DEF Load
<1>7. /\ wal' \in Seq(Record \cup {Torn})
      /\ old_paths' \in Seq(Nat)
      /\ pc' \in {"flush", "idle"}
      /\ op' = NoOp
      /\ maybe' \in [Key -> SUBSET (Value \cup {Absent})]
  BY DEF Load, TypeOK
<1> QED
  BY <1>2, <1>3, <1>4, <1>5, <1>6, <1>7 DEF TypeOK, PC

\* The type invariant holds of an empty database.
LEMMA TypeInit == Init => TypeOK
<1>1. IsFiniteSet({})
  BY FS_EmptySet
<1>2. Init => DOMAIN files = {}
  BY DEF Init
<1> QED
  BY <1>1, <1>2, EngineConstants DEF Init, TypeOK, EmptyTable, Table, PC

\* Every step of the engine and of its environment keeps the state well typed.
LEMMA TypeStep == TypeOK /\ [Next]_vars => TypeOK'
<1> SUFFICES ASSUME TypeOK, [Next]_vars PROVE TypeOK'
  OBVIOUS
<1> USE DEF disk, memory, history
<1>1. ASSUME NEW k \in Key, NEW v \in Value, Put(k, v) PROVE TypeOK'
  BY <1>1, EngineConstants DEF Put, Begin, TypeOK, Record, Entry, PC
<1>2. ASSUME NEW k \in Key, Remove(k) PROVE TypeOK'
  BY <1>2, EngineConstants DEF Remove, Begin, TypeOK, Record, Entry, PC
<1>3. CASE AppendRecord
  <2>1. op \in Record
    BY <1>3 DEF AppendRecord, TypeOK
  <2>2. op.key \in Key /\ Visible(op.val) \in Value \cup {Absent}
    BY <2>1, VisibleType DEF Record
  <2> QED
    BY <1>3, <2>1, <2>2, EngineConstants DEF AppendRecord, TypeOK, PC
<1>4. CASE AppendFails
  <2>1. op \in Record /\ Interrupted(TRUE)
    BY <1>4 DEF AppendFails, TypeOK
  <2>2. /\ wal' \in Seq(Record \cup {Torn})
        /\ maybe' \in [Key -> SUBSET (Value \cup {Absent})]
    BY <2>1, InterruptedType
  <2> QED
    BY <1>4, <2>2 DEF AppendFails, Fault, Return, TypeOK, PC
<1>5. CASE ApplyToMemTable
  <2>1. op \in Record
    BY <1>5 DEF ApplyToMemTable, TypeOK
  <2>2. memtable' \in Table
    BY <1>5, <2>1 DEF ApplyToMemTable, TypeOK, Table, Record
  <2> QED
    BY <1>5, <2>1, <2>2 DEF ApplyToMemTable, Return, TypeOK, PC
<1>6. CASE FlushBuild
  <2>1. \E t \in Table \cup {Torn, Placeholder} : files' = WriteFile(next_seq, t)
    BY <1>6 DEF FlushBuild, TypeOK
  <2>2. /\ DOMAIN files' \subseteq Nat /\ IsFiniteSet(DOMAIN files')
        /\ \A n \in DOMAIN files' : files'[n] \in Table \cup {Torn, Placeholder}
    BY <2>1, WriteFileType
  <2> QED
    BY <1>6, <2>2 DEF FlushBuild, Fault, TypeOK, PC
<1>7. CASE FlushBuildFails
  BY <1>7 DEF FlushBuildFails, Fault, Return, TypeOK, PC
<1>8. CASE FlushInstall
  <2>1. sstables' \in Seq(Nat)
    BY <1>8 DEF FlushInstall, TypeOK
  <2> QED
    BY <1>8, <2>1 DEF FlushInstall, TypeOK, EmptyTable, Table, PC
<1>9. CASE FlushOpenFails
  BY <1>9 DEF FlushOpenFails, Fault, Return, TypeOK, PC
<1>10. CASE WalClear
  <2>1. (wal' = <<>> \/ wal' = wal) /\ (faults' = faults \/ faults' = faults + 1)
    BY <1>10, Zenon DEF WalClear, Fault
  <2>2. \/ pc' = "compact" /\ op' = op
        \/ pc' = "idle" /\ op' = NoOp
    BY <1>10, Zenon DEF WalClear, Return
  <2>3. UNCHANGED <<files, memory, history>>
    BY <1>10, Zenon DEF WalClear
  <2>4. wal' \in Seq(Record \cup {Torn})
    BY <2>1, EmptySeq, Zenon DEF TypeOK
  <2>5. faults' \in Nat
    BY <2>1 DEF TypeOK
  <2> QED
    BY <2>2, <2>3, <2>4, <2>5 DEF TypeOK, PC
<1>11. CASE CompactBuild
  <2>1. \E t \in Table \cup {Torn, Placeholder} : files' = WriteFile(next_seq, t)
    BY <1>11, CompactionOutputType DEF CompactBuild
  <2>2. /\ DOMAIN files' \subseteq Nat /\ IsFiniteSet(DOMAIN files')
        /\ \A n \in DOMAIN files' : files'[n] \in Table \cup {Torn, Placeholder}
    BY <2>1, WriteFileType
  <2> QED
    BY <1>11, <2>2 DEF CompactBuild, Fault, TypeOK, PC
<1>12. CASE CompactBuildFails
  BY <1>12 DEF CompactBuildFails, Fault, Return, TypeOK, PC
<1>13. CASE CompactSwap
  BY <1>13 DEF CompactSwap, TypeOK, PC
<1>14. CASE CompactOpenFails
  BY <1>14 DEF CompactOpenFails, Fault, Return, TypeOK, PC
<1>15. CASE CleanupUnlink
  <2>1. \/ files' = files
        \/ \E G \in SUBSET DOMAIN files : files' = [n \in G |-> files[n]]
    BY <1>15 DEF CleanupUnlink, Unlink
  <2>2. /\ DOMAIN files' \subseteq Nat /\ IsFiniteSet(DOMAIN files')
        /\ \A n \in DOMAIN files' : files'[n] \in Table \cup {Torn, Placeholder}
    BY <2>1, RestrictType DEF TypeOK
  <2>3. old_paths' \in Seq(Nat)
    BY <1>15 DEF CleanupUnlink, TypeOK
  <2> QED
    BY <1>15, <2>2, <2>3 DEF CleanupUnlink, Fault, TypeOK, PC
<1>16. CASE CleanupDone
  BY <1>16 DEF CleanupDone, Return, TypeOK, PC
<1>17. CASE Close
  BY <1>17 DEF Close, TypeOK, PC
<1>18. CASE Crash
  <2>1. /\ wal' \in Seq(Record \cup {Torn})
        /\ maybe' \in [Key -> SUBSET (Value \cup {Absent})]
    BY <1>18, InterruptedType DEF Crash, TypeOK
  <2>2. files' = files \/ files' = WriteFile(next_seq, Torn)
    BY <1>18 DEF Crash
  <2>3. /\ DOMAIN files' \subseteq Nat /\ IsFiniteSet(DOMAIN files')
        /\ \A n \in DOMAIN files' : files'[n] \in Table \cup {Torn, Placeholder}
    BY <2>2, WriteFileType DEF TypeOK
  <2> QED
    BY <1>18, <2>1, <2>3 DEF Crash, TypeOK, PC
<1>19. CASE Restart
  BY <1>19, LoadType DEF Restart, ValidFiles, TypeOK
<1>20. CASE RestartDropsGoodFile
  <2>1. PICK n \in ValidFiles : Load(ValidFiles \ {n})
    BY <1>20 DEF RestartDropsGoodFile
  <2>2. faults' \in Nat
    BY <1>20 DEF RestartDropsGoodFile, Fault, TypeOK
  <2> QED
    BY <2>1, <2>2, LoadType DEF ValidFiles
<1>21. CASE UNCHANGED vars
  BY <1>21 DEF vars, TypeOK
<1> QED
  BY <1>1, <1>2, <1>3, <1>4, <1>5, <1>6, <1>7, <1>8, <1>9, <1>10, <1>11, <1>12, <1>13,
     <1>14, <1>15, <1>16, <1>17, <1>18, <1>19, <1>20, <1>21 DEF Next, Step

\* The engine's state is well typed in every behaviour: in particular sequence numbers stay
\* natural numbers and every file is a table, the placeholder or torn.
THEOREM TypeCorrect == Spec => []TypeOK
<1>1. TypeOK /\ [Next]_vars => TypeOK'
  BY TypeStep
<1> QED
  BY TypeInit, <1>1, PTL DEF Spec

-----------------------------------------------------------------------------
(* What a lookup returns, from any witness of it.                          *)

\* Replay is the value of any record that is last for its key.
LEMMA ReplayUnique ==
    ASSUME NEW w \in Seq(Record \cup {Torn}), NEW k, NEW i \in DOMAIN w, IsLastFor(w, i, k)
    PROVE  Replay(w, k) = w[i].val
<1> DEFINE j == CHOOSE j \in DOMAIN w : IsLastFor(w, j, k)
<1>1. j \in DOMAIN w /\ IsLastFor(w, j, k)
  OBVIOUS
<1>2. i <= j /\ j <= i
  BY <1>1 DEF IsLastFor
<1>3. i = j
  BY <1>1, <1>2
<1> QED
  BY <1>3 DEF Replay

\* FileEntry is the entry of any file that is newest for the key.
LEMMA NewestUnique ==
    ASSUME NEW f, DOMAIN f \subseteq Nat, NEW k, NEW m \in DOMAIN f, IsNewest(f, k, m)
    PROVE  FileEntry(f, k) = f[m][k]
<1> DEFINE j == CHOOSE j \in DOMAIN f : IsNewest(f, k, j)
<1>1. j \in DOMAIN f /\ IsNewest(f, k, j)
  OBVIOUS
<1>2. m <= j /\ j <= m
  BY <1>1 DEF IsNewest
<1>3. m = j
  BY <1>1, <1>2
<1> QED
  BY <1>3 DEF FileEntry

\* TableEntry is the entry of any reader that is the first hit.
LEMMA FirstHitUnique ==
    ASSUME NEW s \in Seq(Nat), NEW f, NEW k, NEW i \in DOMAIN s, IsFirstHit(s, f, i, k)
    PROVE  TableEntry(s, f, k) = f[s[i]][k]
<1> DEFINE j == CHOOSE j \in DOMAIN s : IsFirstHit(s, f, j, k)
<1>1. j \in DOMAIN s /\ IsFirstHit(s, f, j, k)
  OBVIOUS
<1>2. ~(i < j) /\ ~(j < i)
  BY <1>1 DEF IsFirstHit
<1>3. i = j
  BY <1>1, <1>2
<1> QED
  BY <1>3 DEF TableEntry

\* The readers' answer does not depend on files they do not read.
LEMMA TableEntryLocal ==
    ASSUME NEW s \in Seq(Nat), NEW f, NEW g, NEW k,
           \A i \in DOMAIN s : s[i] \in DOMAIN f /\ s[i] \in DOMAIN g /\ f[s[i]] = g[s[i]]
    PROVE  TableEntry(s, f, k) = TableEntry(s, g, k)
<1>1. \A i \in DOMAIN s : s[i] \in Holders(f, k) <=> s[i] \in Holders(g, k)
  BY DEF Holders
<1>2. \A i \in DOMAIN s : IsFirstHit(s, f, i, k) <=> IsFirstHit(s, g, i, k)
  BY <1>1 DEF IsFirstHit
<1>3. CASE \E i \in DOMAIN s : IsFirstHit(s, f, i, k)
  <2>1. PICK i \in DOMAIN s : IsFirstHit(s, f, i, k)
    BY <1>3
  <2>2. TableEntry(s, f, k) = f[s[i]][k] /\ TableEntry(s, g, k) = g[s[i]][k]
    BY <1>2, <2>1, FirstHitUnique
  <2> QED
    BY <2>2
<1>4. CASE ~ \E i \in DOMAIN s : IsFirstHit(s, f, i, k)
  BY <1>2, <1>4 DEF TableEntry
<1> QED
  BY <1>3, <1>4

-----------------------------------------------------------------------------
(* What an append does to the log.                                         *)

\* A record appended to the log leaves the readability of the others alone.
LEMMA AppendReadable ==
    ASSUME NEW w \in Seq(Record \cup {Torn}), NEW r \in Record \cup {Torn}
    PROVE  /\ Append(w, r) \in Seq(Record \cup {Torn})
           /\ DOMAIN Append(w, r) = DOMAIN w \cup {Len(w) + 1}
           /\ Len(w) + 1 \notin DOMAIN w
           /\ Append(w, r)[Len(w) + 1] = r
           /\ \A i \in DOMAIN w : /\ Append(w, r)[i] = w[i]
                                  /\ Readable(Append(w, r), i) <=> Readable(w, i)
           /\ r = Torn => ~Readable(Append(w, r), Len(w) + 1)
<1>1. /\ Append(w, r) \in Seq(Record \cup {Torn})
      /\ DOMAIN Append(w, r) = DOMAIN w \cup {Len(w) + 1}
      /\ Len(w) + 1 \notin DOMAIN w
      /\ Append(w, r)[Len(w) + 1] = r
      /\ \A i \in DOMAIN w : Append(w, r)[i] = w[i]
  OBVIOUS
<1>2. \A i \in DOMAIN w : Readable(Append(w, r), i) <=> Readable(w, i)
  BY <1>1 DEF Readable
<1>3. r = Torn => ~Readable(Append(w, r), Len(w) + 1)
  BY <1>1 DEF Readable
<1> QED
  BY <1>1, <1>2, <1>3

\* Two logs in which the same position is the last for k replay to the same entry.
LEMMA ReplaySame ==
    ASSUME NEW w \in Seq(Record \cup {Torn}), NEW v \in Seq(Record \cup {Torn}), NEW k,
           \A i \in DOMAIN w : i \in DOMAIN v /\ v[i] = w[i],
           \A i \in DOMAIN w : IsLastFor(v, i, k) <=> IsLastFor(w, i, k),
           \A i \in DOMAIN v \ DOMAIN w : ~IsLastFor(v, i, k)
    PROVE  Replay(v, k) = Replay(w, k)
<1>1. CASE \E i \in DOMAIN w : IsLastFor(w, i, k)
  <2>1. PICK i \in DOMAIN w : IsLastFor(w, i, k)
    BY <1>1
  <2>2. Replay(w, k) = w[i].val /\ Replay(v, k) = v[i].val
    BY <2>1, ReplayUnique
  <2> QED
    BY <2>2
<1>2. CASE ~ \E i \in DOMAIN w : IsLastFor(w, i, k)
  BY <1>2 DEF Replay
<1> QED
  BY <1>1, <1>2

\* A damaged record at the end changes nothing that recover() reads.
LEMMA LogTear ==
    ASSUME NEW w \in Seq(Record \cup {Torn}), NEW k
    PROVE  /\ Replay(Append(w, Torn), k) = Replay(w, k)
           /\ Buried(Append(w, Torn), k) <=> Buried(w, k)
<1> DEFINE v == Append(w, Torn)
           n == Len(w) + 1
<1>1. /\ v \in Seq(Record \cup {Torn})
      /\ DOMAIN v = DOMAIN w \cup {n} /\ n \notin DOMAIN w /\ v[n] = Torn
      /\ \A i \in DOMAIN w : v[i] = w[i] /\ (Readable(v, i) <=> Readable(w, i))
      /\ ~Readable(v, n)
  BY AppendReadable
<1> HIDE DEF v, n
<1>2. \A i \in DOMAIN w : IsLastFor(v, i, k) <=> IsLastFor(w, i, k)
  BY <1>1 DEF IsLastFor
<1>3. ~IsLastFor(v, n, k)
  BY <1>1 DEF IsLastFor
<1>4. Replay(v, k) = Replay(w, k)
  BY <1>1, <1>2, <1>3, ReplaySame
<1>5. Buried(v, k) <=> Buried(w, k)
  BY <1>1 DEF Buried
<1> QED
  BY <1>4, <1>5 DEF v

\* An intact record decides what its own key replays to, or it is buried; no other
\* key notices it.
LEMMA LogAppend ==
    ASSUME NEW w \in Seq(Record \cup {Torn}), NEW r \in Record
    PROVE  /\ \A k : k # r.key => /\ Replay(Append(w, r), k) = Replay(w, k)
                                  /\ Buried(Append(w, r), k) <=> Buried(w, k)
           /\ Buried(Append(w, r), r.key) \/ Replay(Append(w, r), r.key) = r.val
<1> DEFINE v == Append(w, r)
           n == Len(w) + 1
<1>1. /\ v \in Seq(Record \cup {Torn})
      /\ DOMAIN v = DOMAIN w \cup {n} /\ n \notin DOMAIN w /\ v[n] = r
      /\ \A i \in DOMAIN w : v[i] = w[i] /\ (Readable(v, i) <=> Readable(w, i))
  BY AppendReadable
<1>2. n \in Nat /\ \A i \in DOMAIN w : i \in Nat /\ i <= n
  OBVIOUS
<1>3. r # Torn
  BY EngineConstants
<1> HIDE DEF v, n
<1>4. ASSUME NEW k, k # r.key
      PROVE  Replay(v, k) = Replay(w, k) /\ (Buried(v, k) <=> Buried(w, k))
  <2>1. \A i \in DOMAIN w : IsLastFor(v, i, k) <=> IsLastFor(w, i, k)
    BY <1>1, <1>4 DEF IsLastFor
  <2>2. ~IsLastFor(v, n, k)
    BY <1>1, <1>4 DEF IsLastFor
  <2>3. Replay(v, k) = Replay(w, k)
    BY <1>1, <2>1, <2>2, ReplaySame
  <2>4. Buried(v, k) <=> Buried(w, k)
    BY <1>1, <1>4 DEF Buried
  <2> QED
    BY <2>3, <2>4
<1>5. CASE Readable(v, n)
  <2>1. IsLastFor(v, n, r.key)
    BY <1>1, <1>2, <1>5 DEF IsLastFor
  <2>2. Replay(v, r.key) = r.val
    BY <1>1, <2>1, ReplayUnique
  <2> QED
    BY <1>4, <2>2 DEF v
<1>6. CASE ~Readable(v, n)
  <2>1. Buried(v, r.key)
    BY <1>1, <1>3, <1>6 DEF Buried
  <2> QED
    BY <1>4, <2>1 DEF v
<1> QED
  BY <1>5, <1>6

-----------------------------------------------------------------------------
(* Steps of DurabilityInv that several actions share.                      *)

\* An append that does not return OK disturbs neither the log nor what was promised.
LEMMA InterruptedKeepsLog ==
    ASSUME TypeOK, op \in Record, NEW b, Interrupted(b), UNCHANGED committed, NEW k \in Key
    PROVE  /\ LogInv(k) => LogInv(k)'
           /\ Logged(k) => Logged(k)'
<1>1. wal \in Seq(Record \cup {Torn}) /\ op.key \in Key /\ op.val \in Entry
      /\ maybe \in [Key -> SUBSET (Value \cup {Absent})]
  BY DEF TypeOK, Record
<1>2. op.val # Absent
  BY <1>1, EngineConstants
<1>3. wal' \in {wal, Append(wal, op), Append(wal, Torn)}
  BY DEF Interrupted
<1>4. CASE wal' = Append(wal, op)
  <2>1. maybe' = [maybe EXCEPT ![op.key] = @ \cup {Visible(op.val)}]
    BY <1>4 DEF Interrupted
  <2>2. CASE k = op.key
    <3>1. Visible(op.val) \in Promised(k)'
      BY <1>1, <2>1, <2>2 DEF Promised
    <3>2. Buried(wal', k) \/ Replay(wal', k) = op.val
      BY <1>1, <1>4, <2>2, LogAppend
    <3> QED
      BY <1>2, <3>1, <3>2 DEF LogInv, Logged
  <2>3. CASE k # op.key
    <3>1. Promised(k)' = Promised(k)
      BY <1>1, <2>1, <2>3 DEF Promised
    <3>2. Replay(wal', k) = Replay(wal, k) /\ (Buried(wal', k) <=> Buried(wal, k))
      BY <1>1, <1>4, <2>3, LogAppend
    <3> QED
      BY <3>1, <3>2 DEF LogInv, Logged
  <2> QED
    BY <2>2, <2>3
<1>5. CASE wal' # Append(wal, op)
  <2>1. Promised(k)' = Promised(k)
    BY <1>5 DEF Interrupted, Promised
  <2>2. Replay(wal', k) = Replay(wal, k) /\ (Buried(wal', k) <=> Buried(wal, k))
    BY <1>1, <1>3, <1>5, LogTear
  <2> QED
    BY <2>1, <2>2 DEF LogInv, Logged
<1> QED
  BY <1>4, <1>5

\* Writing the file next_seq_ touches no open reader and no file that is home to a key.
LEMMA WriteKeepsOlder ==
    ASSUME TypeOK, SSTablesOrdered, NEW t, files' = WriteFile(next_seq, t), UNCHANGED memory
    PROVE  /\ SSTablesOrdered'
           /\ next_seq \in DOMAIN files' /\ files'[next_seq] = t
           /\ \A n \in DOMAIN files : n # next_seq => n \in DOMAIN files' /\ files'[n] = files[n]
           /\ \A k, n : n # next_seq => (n \in Holders(files', k) <=> n \in Holders(files, k))
           /\ \A k, m : IsHome(k, m) => IsHome(k, m)' /\ files'[m] = files[m]
<1> USE DEF memory
<1>1. /\ DOMAIN files' = DOMAIN files \cup {next_seq}
      /\ files'[next_seq] = t
      /\ \A n \in DOMAIN files : n # next_seq => files'[n] = files[n]
  BY DEF WriteFile
<1>2. /\ next_seq \in Nat /\ sstables \in Seq(Nat) /\ DOMAIN files \subseteq Nat
  BY DEF TypeOK
<1>3. \A k, n : n # next_seq => (n \in Holders(files', k) <=> n \in Holders(files, k))
  BY <1>1 DEF Holders
<1>4. SSTablesOrdered'
  BY <1>1, <1>2 DEF SSTablesOrdered
<1>5. \A k, m : IsHome(k, m) => IsHome(k, m)' /\ files'[m] = files[m]
  <2> SUFFICES ASSUME NEW k, NEW m, IsHome(k, m)
               PROVE  IsHome(k, m)' /\ files'[m] = files[m]
    OBVIOUS
  <2>1. m \in DOMAIN files /\ m # next_seq
    BY <1>2 DEF IsHome, Holders
  <2>2. \A n \in Holders(files', k) : n < next_seq => n \in Holders(files, k)
    BY <1>1, <1>2, <1>3 DEF Holders
  <2> QED
    BY <1>1, <1>3, <2>1, <2>2 DEF IsHome
<1> QED
  BY <1>1, <1>3, <1>4, <1>5

\* If the newest file with k has a reader, the readers answer with its entry.
LEMMA HomeIsFirstHit ==
    ASSUME TypeOK, SSTablesOrdered, NEW k \in Key, NEW m, IsHome(k, m), m \in Range(sstables)
    PROVE  TableEntry(sstables, files, k) = files[m][k]
<1>1. sstables \in Seq(Nat) /\ next_seq \in Nat
  BY DEF TypeOK
<1>2. PICK i \in DOMAIN sstables : sstables[i] = m
  BY DEF Range
<1>3. IsFirstHit(sstables, files, i, k)
  <2>1. sstables[i] \in Holders(files, k)
    BY <1>2 DEF IsHome
  <2>2. ASSUME NEW j \in 1..(i - 1) PROVE sstables[j] \notin Holders(files, k)
    <3>1. j \in DOMAIN sstables /\ j < i
      BY <1>1
    <3>2. sstables[j] > m /\ sstables[j] < next_seq
      BY <1>2, <3>1 DEF SSTablesOrdered
    <3>3. sstables[j] \in Nat /\ m \in Nat
      BY <1>1, <1>2, <3>1
    <3> QED
      BY <3>2, <3>3 DEF IsHome
  <2> QED
    BY <2>1, <2>2 DEF IsFirstHit
<1> QED
  BY <1>1, <1>2, <1>3, FirstHitUnique

\* If the readers answer for k at all, the newest file with k is one of theirs.
LEMMA HitIsHome ==
    ASSUME TypeOK, SSTablesOrdered, NEW k \in Key, NEW m, IsHome(k, m),
           TableEntry(sstables, files, k) # Absent
    PROVE  m \in Range(sstables)
<1>1. /\ sstables \in Seq(Nat) /\ next_seq \in Nat /\ DOMAIN files \subseteq Nat
  BY DEF TypeOK
<1>2. PICK i \in DOMAIN sstables : IsFirstHit(sstables, files, i, k)
  BY DEF TableEntry
<1>3. sstables[i] \in Holders(files, k) /\ sstables[i] < next_seq
  BY <1>2 DEF IsFirstHit, SSTablesOrdered
<1>4. sstables[i] <= m
  BY <1>3 DEF IsHome
<1>5. SUFFICES ASSUME m \notin Range(sstables) PROVE FALSE
  OBVIOUS
<1>6. m \in DOMAIN files /\ m < next_seq
  BY DEF IsHome, Holders
<1>7. m < sstables[i]
  BY <1>5, <1>6 DEF SSTablesOrdered
<1> QED
  BY <1>1, <1>4, <1>6, <1>7

\* The merge keeps the committed value of a key that the readers answer for.
LEMMA MergeKeepsHome ==
    ASSUME TypeOK, SSTablesOrdered, NEW k \in Key, committed[k] \in Value,
           NEW m, IsHome(k, m), files[m][k] = committed[k],
           NEW t, t = CompactionOutput(sstables, files)
    PROVE  /\ m \in Range(sstables) => t \in Table /\ t[k] = committed[k]
           /\ t \in Table /\ t[k] # Absent => t[k] = committed[k]
<1> DEFINE M == Merged(sstables, files)
           e == TableEntry(sstables, files, k)
<1>1. committed[k] # Tombstone /\ committed[k] # Absent
  BY EngineConstants DEF Entry
<1>2. M \in Table
  BY TableEntryType, VisibleType DEF Merged, Table, Entry
<1>3. M[k] = Visible(e)
  BY DEF Merged
<1>4. e # Absent => e = committed[k]
  BY HitIsHome, HomeIsFirstHit
<1>5. m \in Range(sstables) => e = committed[k]
  BY HomeIsFirstHit
<1>6. t = M \/ (t = Placeholder /\ M = EmptyTable)
  BY DEF CompactionOutput
<1>7. Placeholder \notin Table
  BY EngineConstants
<1> HIDE DEF M, e
<1>8. ASSUME m \in Range(sstables) PROVE t \in Table /\ t[k] = committed[k]
  <2>1. M[k] = committed[k]
    BY <1>1, <1>3, <1>5, <1>8 DEF Visible
  <2>2. M # EmptyTable
    BY <1>1, <2>1 DEF EmptyTable
  <2> QED
    BY <1>2, <1>6, <2>1, <2>2
<1>9. ASSUME t \in Table, t[k] # Absent PROVE t[k] = committed[k]
  <2>1. t = M
    BY <1>6, <1>7, <1>9
  <2>2. e # Absent
    BY <1>3, <1>9, <2>1 DEF Visible
  <2> QED
    BY <1>1, <1>3, <1>4, <2>1, <2>2 DEF Visible
<1> QED
  BY <1>8, <1>9

-----------------------------------------------------------------------------
(* The constructor establishes the invariant from any disk.                *)

\* load_sstables() and recover() establish it from whatever the crash left.
LEMMA LoadEstablishes ==
    ASSUME TypeOK, TypeOK', NEW good \in SUBSET DOMAIN files, Load(good),
           \A n \in good : files[n] # Torn
    PROVE  DurabilityInv'
<1>1. files' = [n \in good |-> files[n]] /\ DOMAIN files' = good
  BY DEF Load, Restrict
<1>2. good \subseteq Nat /\ IsFiniteSet(good)
  BY FS_Subset DEF TypeOK
<1>3. /\ sstables' \in Seq(Nat)
      /\ Range(sstables') = good
      /\ \A i, j \in DOMAIN sstables' : i < j => sstables'[i] > sstables'[j]
  BY <1>2, DescendingType DEF Load
<1>4. \A n \in good : n < next_seq'
  <2> SUFFICES ASSUME NEW n \in good PROVE n < next_seq'
    OBVIOUS
  <2>1. PICK i \in DOMAIN sstables' : sstables'[i] = n
    BY <1>3 DEF Range
  <2>2. sstables' # <<>> /\ 1 \in DOMAIN sstables'
    BY <1>3, <2>1
  <2>3. next_seq' = sstables'[1] + 1
    BY <2>2 DEF Load
  <2>4. n <= sstables'[1]
    BY <1>3, <2>1, <2>2
  <2> QED
    BY <1>2, <1>3, <2>2, <2>3, <2>4
<1>5. SSTablesOrdered'
  <2>1. \A i \in DOMAIN sstables' : sstables'[i] \in good
    BY <1>3 DEF Range
  <2>2. next_seq' \in Nat
    BY DEF TypeOK
  <2> QED
    BY <1>1, <1>2, <1>3, <1>4, <2>1, <2>2 DEF SSTablesOrdered
<1>6. /\ pc' \in {"flush", "idle"} /\ old_paths' = <<>> /\ wal' = wal
      /\ memtable' = [k \in Key |-> Replay(wal, k)]
      /\ committed' = [k \in Key |-> Recovered(k)']
  BY DEF Load
<1>7. ControlInv'
  BY <1>6 DEF ControlInv
<1>8. ASSUME NEW k \in Key PROVE LogInv(k)' /\ MemInv(k)' /\ FileInv(k)'
  <2>1. memtable'[k] = Replay(wal', k)
    BY <1>6
  <2>2. committed'[k] = Visible(IF Replay(wal', k) # Absent THEN Replay(wal', k)
                                ELSE FileEntry(files', k))
    BY <1>6 DEF Recovered
  <2>3. LogInv(k)'
    BY <2>2 DEF LogInv, Promised
  <2>4. MemInv(k)'
    BY <2>1, <2>2 DEF MemInv, Logged
  <2>5. FileInv(k)'
    <3> SUFFICES ASSUME memtable'[k] = Absent, committed'[k] \in Value
                 PROVE  /\ \E m \in DOMAIN files' : IsHome(k, m)' /\ files'[m][k] = committed'[k]
                        /\ next_seq' \notin Holders(files', k)
      BY DEF FileInv
    <3>1. committed'[k] = Visible(FileEntry(files', k))
      BY <2>1, <2>2
    <3>2. FileEntry(files', k) \in Entry \cup {Absent}
      BY FileEntryType
    <3>3. FileEntry(files', k) = committed'[k] /\ FileEntry(files', k) # Absent
      BY <3>1, <3>2, EngineConstants DEF Visible, Entry
    <3>4. PICK m \in DOMAIN files' : IsNewest(files', k, m)
      BY <3>3 DEF FileEntry
    <3>5. files'[m][k] = committed'[k]
      BY <1>1, <1>2, <3>3, <3>4, NewestUnique
    <3>6. m < next_seq' /\ m \notin Range(old_paths')
      BY <1>1, <1>4, <1>6, <3>4 DEF Range
    <3>7. IsHome(k, m)'
      BY <3>4, <3>6 DEF IsHome, IsNewest
    <3>8. next_seq' \notin Holders(files', k)
      <4>1. next_seq' \in Nat
        BY DEF TypeOK
      <4> QED
        BY <1>1, <1>4, <4>1 DEF Holders
    <3> QED
      BY <3>5, <3>7, <3>8
  <2> QED
    BY <2>3, <2>4, <2>5
<1>9. KeyInv({})' /\ Unapplied' = {}
  BY <1>6, <1>8 DEF KeyInv, Unapplied
<1> QED
  BY <1>5, <1>7, <1>9 DEF DurabilityInv

\* The inductive invariant holds of an empty database.
LEMMA DurabilityInit == Init => DurabilityInv
<1> SUFFICES ASSUME Init PROVE DurabilityInv
  OBVIOUS
<1>1. DOMAIN files = {} /\ sstables = <<>> /\ old_paths = <<>> /\ wal = <<>>
      /\ pc = "idle" /\ \A k \in Key : committed[k] = Absent /\ memtable[k] = Absent
  BY DEF Init, EmptyTable
<1>2. ControlInv /\ SSTablesOrdered
  BY <1>1 DEF ControlInv, SSTablesOrdered
<1>3. \A k \in Key : Replay(wal, k) = Absent
  BY <1>1 DEF Replay
<1>4. \A k \in Key : LogInv(k) /\ MemInv(k) /\ FileInv(k)
  BY <1>1, <1>3, EngineConstants DEF LogInv, MemInv, FileInv, Entry
<1> QED
  BY <1>1, <1>2, <1>4 DEF DurabilityInv, KeyInv, Unapplied

-----------------------------------------------------------------------------
(* Every step preserves DurabilityInv.                                     *)

\* Steps that move the control between two points of the same operation, or end it, and
\* change nothing else that the invariant speaks of.
LEMMA ControlOnlyStep ==
    ASSUME TypeOK, DurabilityInv, UNCHANGED <<wal, files, memtable, next_seq, old_paths, history>>,
           pc \notin {"apply", "down"}, pc' \notin {"apply", "install", "swap", "truncate"},
           sstables' = sstables \/ sstables' = <<>>,
           pc' \notin {"cleanup", "down"} => old_paths = <<>>
    PROVE  DurabilityInv'
<1> USE DEF history
<1>1. PICK X \in SUBSET Key : (pc # "down" => X = Unapplied) /\ KeyInv(X)
  BY DEF DurabilityInv
<1>2. ControlInv'
  BY DEF DurabilityInv, ControlInv
<1>3. SSTablesOrdered'
  <2>1. CASE sstables' = sstables
    BY <2>1 DEF DurabilityInv, SSTablesOrdered
  <2>2. CASE sstables' = <<>>
    BY <2>2 DEF DurabilityInv, SSTablesOrdered
  <2> QED
    BY <2>1, <2>2
<1>4. ASSUME NEW k \in Key
      PROVE  /\ LogInv(k) => LogInv(k)'
             /\ Logged(k) => Logged(k)'
             /\ MemInv(k) => MemInv(k)'
             /\ FileInv(k) => FileInv(k)'
  BY DEF LogInv, MemInv, FileInv, Logged, Promised, IsHome
<1>5. KeyInv(X)'
  BY <1>1, <1>4 DEF KeyInv
<1>6. X = Unapplied'
  BY <1>1 DEF Unapplied
<1> QED
  BY <1>2, <1>3, <1>5, <1>6 DEF DurabilityInv

\* The record makes the key durable through the log, or it is buried.
LEMMA AppendRecordStep == TypeOK /\ DurabilityInv /\ AppendRecord => DurabilityInv'
<1> SUFFICES ASSUME TypeOK, DurabilityInv, AppendRecord PROVE DurabilityInv'
  OBVIOUS
<1> USE DEF memory
<1>1. /\ pc = "append" /\ pc' = "apply" /\ wal' = Append(wal, op)
      /\ committed' = [committed EXCEPT ![op.key] = Visible(op.val)]
      /\ maybe' = [maybe EXCEPT ![op.key] = {}]
      /\ UNCHANGED <<files, memtable, sstables, next_seq, old_paths, op>>
  BY DEF AppendRecord
<1>2. /\ wal \in Seq(Record \cup {Torn}) /\ op \in Record
      /\ committed \in [Key -> Value \cup {Absent}]
      /\ maybe \in [Key -> SUBSET (Value \cup {Absent})]
  BY <1>1 DEF TypeOK
<1>3. op.key \in Key /\ op.val \in Entry /\ op.val # Absent
  BY <1>2, EngineConstants DEF Record
<1>4. KeyInv({})
  BY <1>1 DEF DurabilityInv, Unapplied
<1>5. ControlInv'
  BY <1>1, <1>2, <1>3 DEF DurabilityInv, ControlInv
<1>6. SSTablesOrdered'
  BY <1>1 DEF DurabilityInv, SSTablesOrdered
<1>7. LogInv(op.key)' /\ Logged(op.key)'
  <2>1. Buried(wal', op.key) \/ Replay(wal', op.key) = op.val
    BY <1>1, <1>2, LogAppend
  <2>2. committed'[op.key] = Visible(op.val)
    BY <1>1, <1>2, <1>3
  <2> QED
    BY <1>1, <1>3, <2>1, <2>2 DEF LogInv, Logged, Promised
<1>8. ASSUME NEW k \in Key, k # op.key PROVE LogInv(k)' /\ MemInv(k)' /\ FileInv(k)'
  <2>1. Replay(wal', k) = Replay(wal, k) /\ (Buried(wal', k) <=> Buried(wal, k))
    BY <1>1, <1>2, <1>8, LogAppend
  <2>2. committed'[k] = committed[k] /\ maybe'[k] = maybe[k]
    BY <1>1, <1>2, <1>8
  <2>3. LogInv(k) /\ MemInv(k) /\ FileInv(k)
    BY <1>4 DEF KeyInv
  <2>4. LogInv(k)' /\ MemInv(k)'
    BY <1>1, <2>1, <2>2, <2>3 DEF LogInv, MemInv, Logged, Promised
  <2>5. FileInv(k)'
    BY <1>1, <2>2, <2>3 DEF FileInv, IsHome
  <2> QED
    BY <2>4, <2>5
<1>9. KeyInv({op.key})'
  BY <1>1, <1>7, <1>8 DEF KeyInv
<1>10. Unapplied' = {op.key}
  BY <1>1 DEF Unapplied
<1> QED
  BY <1>1, <1>3, <1>5, <1>6, <1>9, <1>10 DEF DurabilityInv

\* One lemma per action: a failed append preserves the inductive invariant.
LEMMA AppendFailsStep == TypeOK /\ DurabilityInv /\ AppendFails => DurabilityInv'
<1> SUFFICES ASSUME TypeOK, DurabilityInv, AppendFails PROVE DurabilityInv'
  OBVIOUS
<1> USE DEF memory
<1>1. /\ pc = "append" /\ pc' = "idle" /\ Interrupted(TRUE)
      /\ UNCHANGED <<files, memtable, sstables, next_seq, old_paths, committed>>
  BY DEF AppendFails, Return
<1>2. op \in Record
  BY <1>1 DEF TypeOK
<1>3. KeyInv({})
  BY <1>1 DEF DurabilityInv, Unapplied
<1>4. ControlInv' /\ SSTablesOrdered'
  BY <1>1 DEF DurabilityInv, ControlInv, SSTablesOrdered
<1>5. ASSUME NEW k \in Key PROVE LogInv(k)' /\ MemInv(k)' /\ FileInv(k)'
  <2>1. LogInv(k) /\ MemInv(k) /\ FileInv(k)
    BY <1>3 DEF KeyInv
  <2>2. (LogInv(k) => LogInv(k)') /\ (Logged(k) => Logged(k)')
    BY <1>1, <1>2, InterruptedKeepsLog
  <2>3. MemInv(k)' /\ FileInv(k)'
    BY <1>1, <2>1, <2>2 DEF MemInv, FileInv, IsHome
  <2> QED
    BY <2>1, <2>2, <2>3
<1>6. KeyInv({})' /\ Unapplied' = {}
  BY <1>1, <1>5 DEF KeyInv, Unapplied
<1> QED
  BY <1>4, <1>6 DEF DurabilityInv

\* The move of the logged entry to the memtable preserves it.
LEMMA ApplyStep == TypeOK /\ DurabilityInv /\ ApplyToMemTable => DurabilityInv'
<1> SUFFICES ASSUME TypeOK, DurabilityInv, ApplyToMemTable PROVE DurabilityInv'
  OBVIOUS
<1> USE DEF disk, history
<1>1. /\ pc = "apply" /\ pc' \in {"flush", "idle"}
      /\ memtable' = [memtable EXCEPT ![op.key] = op.val]
      /\ UNCHANGED <<wal, files, sstables, next_seq, old_paths, committed, maybe>>
  BY DEF ApplyToMemTable, Return
<1>2. memtable \in Table /\ op \in Record
  BY <1>1 DEF TypeOK
<1>3. op.key \in Key /\ op.val \in Entry /\ op.val # Absent
  BY <1>2, EngineConstants DEF Record
<1>4. KeyInv({op.key}) /\ committed[op.key] = Visible(op.val)
  BY <1>1 DEF DurabilityInv, Unapplied, ControlInv
<1>5. ControlInv' /\ SSTablesOrdered'
  BY <1>1 DEF DurabilityInv, ControlInv, SSTablesOrdered
<1>6. ASSUME NEW k \in Key PROVE LogInv(k)' /\ MemInv(k)' /\ FileInv(k)'
  <2>1. LogInv(k)'
    BY <1>1, <1>4 DEF KeyInv, LogInv, Promised
  <2>2. CASE k = op.key
    <3>1. memtable'[k] = op.val
      BY <1>1, <1>2, <1>3, <2>2 DEF Table
    <3>2. Logged(k)'
      BY <1>1, <1>4, <2>2 DEF KeyInv, Logged
    <3> QED
      BY <1>1, <1>3, <1>4, <2>1, <2>2, <3>1, <3>2 DEF MemInv, FileInv
  <2>3. CASE k # op.key
    <3>1. memtable'[k] = memtable[k]
      BY <1>1, <1>2, <2>3 DEF Table
    <3>2. MemInv(k) /\ FileInv(k)
      BY <1>4, <2>3 DEF KeyInv
    <3> QED
      BY <1>1, <2>1, <3>1, <3>2 DEF MemInv, FileInv, Logged, IsHome
  <2> QED
    BY <2>2, <2>3
<1>7. KeyInv({})' /\ Unapplied' = {}
  BY <1>1, <1>6 DEF KeyInv, Unapplied
<1> QED
  BY <1>5, <1>7 DEF DurabilityInv

\* Writing next_seq_ is harmless to a key whose committed value, if only files have it,
\* the new contents either lack or repeat.
LEMMA WriteKeepsKey ==
    ASSUME TypeOK, SSTablesOrdered, NEW t, files' = WriteFile(next_seq, t),
           UNCHANGED <<memory, committed>>, NEW k \in Key, FileInv(k),
           memtable[k] = Absent /\ committed[k] \in Value /\ t \in Table /\ t[k] # Absent
               => t[k] = committed[k]
    PROVE  FileInv(k)'
<1> SUFFICES ASSUME memtable'[k] = Absent, committed'[k] \in Value
             PROVE  /\ \E m \in DOMAIN files' : IsHome(k, m)' /\ files'[m][k] = committed'[k]
                    /\ next_seq' \in Holders(files', k) => files'[next_seq'][k] = committed'[k]
  BY DEF FileInv
<1> USE DEF memory
<1>1. memtable[k] = Absent /\ committed[k] \in Value
  OBVIOUS
<1>2. PICK m \in DOMAIN files : IsHome(k, m) /\ files[m][k] = committed[k]
  BY <1>1 DEF FileInv
<1>3. IsHome(k, m)' /\ files'[m] = files[m]
  BY <1>2, WriteKeepsOlder
<1>4. m \in DOMAIN files'
  BY <1>3 DEF IsHome, Holders
<1>5. files'[next_seq] = t
  BY WriteKeepsOlder
<1>6. next_seq' \in Holders(files', k) => files'[next_seq'][k] = committed'[k]
  BY <1>1, <1>5 DEF Holders
<1> QED
  BY <1>2, <1>3, <1>4, <1>6

\* Writing the flushed file preserves it.
LEMMA FlushBuildStep == TypeOK /\ DurabilityInv /\ FlushBuild => DurabilityInv'
<1> SUFFICES ASSUME TypeOK, DurabilityInv, FlushBuild PROVE DurabilityInv'
  OBVIOUS
<1>1. /\ pc = "flush" /\ pc' = "install"
      /\ UNCHANGED <<wal, memory, history>>
  BY DEF FlushBuild
<1>2. PICK t \in {memtable, Torn} : files' = WriteFile(next_seq, t)
  BY DEF FlushBuild
<1>3. KeyInv({}) /\ SSTablesOrdered
  BY <1>1 DEF DurabilityInv, Unapplied
<1>4. SSTablesOrdered' /\ next_seq \in DOMAIN files' /\ files'[next_seq] = t
  BY <1>1, <1>2, <1>3, WriteKeepsOlder
<1>5. ControlInv'
  BY <1>1, <1>2, <1>4 DEF DurabilityInv, ControlInv, memory
<1>6. ASSUME NEW k \in Key PROVE LogInv(k)' /\ MemInv(k)' /\ FileInv(k)'
  <2>1. LogInv(k) /\ MemInv(k) /\ FileInv(k)
    BY <1>3 DEF KeyInv
  <2>2. LogInv(k)' /\ MemInv(k)'
    BY <1>1, <2>1 DEF LogInv, MemInv, Logged, Promised, memory, history
  <2>3. memtable[k] = Absent => ~(t \in Table /\ t[k] # Absent)
    BY <1>2, EngineConstants
  <2>4. UNCHANGED <<memory, committed>>
    BY <1>1 DEF history
  <2>5. FileInv(k)'
    BY <1>2, <1>3, <2>1, <2>3, <2>4, WriteKeepsKey
  <2> QED
    BY <2>2, <2>5
<1>7. KeyInv({})' /\ Unapplied' = {}
  BY <1>1, <1>6 DEF KeyInv, Unapplied
<1> QED
  BY <1>4, <1>5, <1>7 DEF DurabilityInv

\* The file that leaves the memtable empty holds everything the memtable held.
LEMMA FlushInstallStep == TypeOK /\ DurabilityInv /\ FlushInstall => DurabilityInv'
<1> SUFFICES ASSUME TypeOK, DurabilityInv, FlushInstall PROVE DurabilityInv'
  OBVIOUS
<1>1. /\ pc = "install" /\ pc' = "truncate" /\ files[next_seq] # Torn
      /\ sstables' = <<next_seq>> \o sstables /\ next_seq' = next_seq + 1
      /\ memtable' = EmptyTable
      /\ UNCHANGED <<wal, files, old_paths, committed, maybe>>
  BY DEF FlushInstall, disk, history
<1>2. /\ memtable \in Table /\ next_seq \in Nat /\ sstables \in Seq(Nat)
      /\ DOMAIN files \subseteq Nat
      /\ committed \in [Key -> Value \cup {Absent}]
  BY DEF TypeOK
<1>3. KeyInv({}) /\ SSTablesOrdered
  BY <1>1 DEF DurabilityInv, Unapplied
<1>4. next_seq \in DOMAIN files /\ files[next_seq] = memtable /\ old_paths = <<>>
  BY <1>1 DEF DurabilityInv, ControlInv
<1>5. SSTablesOrdered'
  <2>1. /\ sstables' \in Seq(Nat) /\ Len(sstables') = Len(sstables) + 1
        /\ sstables'[1] = next_seq
        /\ \A i \in 2..Len(sstables') : i - 1 \in DOMAIN sstables /\ sstables'[i] = sstables[i - 1]
    BY <1>1, <1>2
  <2>2. Range(sstables') = Range(sstables) \cup {next_seq}
    <3>1. \A i \in DOMAIN sstables : i + 1 \in DOMAIN sstables' /\ sstables'[i + 1] = sstables[i]
      BY <1>1, <1>2
    <3>2. \A i \in DOMAIN sstables' : i = 1 \/ i \in 2..Len(sstables')
      BY <2>1
    <3>3. 1 \in DOMAIN sstables'
      BY <1>2, <2>1
    <3> QED
      BY <2>1, <3>1, <3>2, <3>3 DEF Range
  <2>3. \A i, j \in DOMAIN sstables' : i < j => sstables'[i] > sstables'[j]
    <3> SUFFICES ASSUME NEW i \in DOMAIN sstables', NEW j \in DOMAIN sstables', i < j
                 PROVE  sstables'[i] > sstables'[j]
      OBVIOUS
    <3>1. j \in 2..Len(sstables') /\ (i = 1 \/ i \in 2..Len(sstables'))
      BY <2>1
    <3>2. CASE i = 1
      BY <1>2, <1>3, <2>1, <3>1, <3>2 DEF SSTablesOrdered
    <3>3. CASE i \in 2..Len(sstables')
      <4>1. i - 1 \in DOMAIN sstables /\ j - 1 \in DOMAIN sstables /\ i - 1 < j - 1
        BY <2>1, <3>1, <3>3
      <4>2. sstables[i - 1] > sstables[j - 1]
        BY <1>3, <4>1 DEF SSTablesOrdered
      <4> QED
        BY <2>1, <3>1, <3>3, <4>2
    <3> QED
      BY <3>1, <3>2, <3>3
  <2>4. \A n \in Range(sstables') :
           /\ n \in DOMAIN files /\ files[n] # Torn /\ n < next_seq'
           /\ \A m \in DOMAIN files : m \notin Range(sstables') => m < n
    <3> SUFFICES ASSUME NEW n \in Range(sstables')
                 PROVE  /\ n \in DOMAIN files /\ files[n] # Torn /\ n < next_seq'
                        /\ \A m \in DOMAIN files : m \notin Range(sstables') => m < n
      OBVIOUS
    <3>0. \A m \in DOMAIN files : m \in Nat /\ (m = next_seq \/ m < next_seq)
      BY <1>2, <1>3 DEF SSTablesOrdered
    <3>1. CASE n = next_seq
      BY <1>1, <1>2, <1>4, <2>2, <3>0, <3>1
    <3>2. CASE n \in Range(sstables)
      <4>1. PICK i \in DOMAIN sstables : sstables[i] = n
        BY <3>2 DEF Range
      <4>2. n \in DOMAIN files /\ files[n] # Torn /\ n < next_seq
            /\ \A m \in DOMAIN files : m < next_seq /\ m \notin Range(sstables) => m < n
        BY <1>3, <4>1 DEF SSTablesOrdered
      <4>3. n < next_seq'
        BY <1>1, <1>2, <4>2
      <4>4. \A m \in DOMAIN files : m \notin Range(sstables') => m < n
        BY <2>2, <3>0, <4>2
      <4> QED
        BY <4>2, <4>3, <4>4
    <3> QED
      BY <2>2, <3>1, <3>2
  <2>5. \A i \in DOMAIN sstables' : sstables'[i] \in Range(sstables')
    BY DEF Range
  <2>6. \A n \in DOMAIN files : n <= next_seq'
    BY <1>1, <1>2, <1>3 DEF SSTablesOrdered
  <2> QED
    BY <1>1, <2>3, <2>4, <2>5, <2>6 DEF SSTablesOrdered
<1>6. ControlInv'
  BY <1>1, <1>4 DEF ControlInv
<1>7. ASSUME NEW k \in Key PROVE LogInv(k)' /\ MemInv(k)' /\ FileInv(k)'
  <2>1. LogInv(k) /\ MemInv(k) /\ FileInv(k)
    BY <1>3 DEF KeyInv
  <2>2. LogInv(k)' /\ MemInv(k)'
    BY <1>1, <2>1 DEF LogInv, MemInv, Promised, EmptyTable
  <2>3. next_seq' \notin Holders(files', k)
    BY <1>1, <1>2, <1>3 DEF SSTablesOrdered, Holders
  <2>4. ASSUME committed[k] \in Value
        PROVE  \E m \in DOMAIN files' : IsHome(k, m)' /\ files'[m][k] = committed'[k]
    <3>1. CASE memtable[k] = Absent
      <4>1. PICK m \in DOMAIN files : IsHome(k, m) /\ files[m][k] = committed[k]
        BY <2>1, <2>4, <3>1 DEF FileInv
      <4>2. next_seq \notin Holders(files, k)
        BY <1>4, <3>1 DEF Holders
      <4>3. \A n \in Holders(files, k) : n < next_seq
        BY <1>2, <1>3, <4>2 DEF Holders, SSTablesOrdered
      <4>4. IsHome(k, m)'
        BY <1>1, <1>2, <4>1, <4>3 DEF IsHome
      <4> QED
        BY <1>1, <4>1, <4>4
    <3>2. CASE memtable[k] # Absent
      <4>1. Visible(memtable[k]) = committed[k] /\ memtable[k] \in Entry
        BY <1>2, <2>1, <3>2 DEF MemInv, Table
      <4>2. memtable[k] = committed[k]
        BY <2>4, <4>1, EngineConstants DEF Visible, Entry
      <4>3. next_seq \in Holders(files, k)
        BY <1>2, <1>4, <3>2 DEF Holders
      <4>4. \A n \in Holders(files, k) : n <= next_seq
        BY <1>3 DEF SSTablesOrdered, Holders
      <4>5. next_seq \notin Range(old_paths')
        BY <1>1, <1>4 DEF Range
      <4>6. PICK m \in DOMAIN files : m = next_seq
        BY <1>4
      <4>7. IsHome(k, m)'
        BY <1>1, <1>2, <4>3, <4>4, <4>5, <4>6 DEF IsHome
      <4> QED
        BY <1>1, <1>4, <4>2, <4>6, <4>7
    <3> QED
      BY <3>1, <3>2
  <2>5. FileInv(k)'
    BY <1>1, <2>3, <2>4 DEF FileInv
  <2> QED
    BY <2>2, <2>5
<1>8. KeyInv({})' /\ Unapplied' = {}
  BY <1>1, <1>7 DEF KeyInv, Unapplied
<1> QED
  BY <1>5, <1>6, <1>8 DEF DurabilityInv

\* Truncating the log, or failing to, preserves it.
LEMMA WalClearStep == TypeOK /\ DurabilityInv /\ WalClear => DurabilityInv'
<1> SUFFICES ASSUME TypeOK, DurabilityInv, WalClear PROVE DurabilityInv'
  OBVIOUS
<1>1. /\ pc = "truncate" /\ (wal' = <<>> \/ wal' = wal)
      /\ UNCHANGED <<files, memory, history>>
  BY Zenon DEF WalClear
<1>2. pc' = "compact" \/ pc' = "idle"
  BY Zenon DEF WalClear, Return
<1>3. KeyInv({}) /\ memtable = EmptyTable /\ old_paths = <<>>
  BY <1>1 DEF DurabilityInv, Unapplied, ControlInv
<1>4. ControlInv' /\ SSTablesOrdered'
  BY <1>1, <1>2, <1>3 DEF DurabilityInv, ControlInv, SSTablesOrdered, memory
<1>5. \A k \in Key : Replay(<<>>, k) = Absent
  BY DEF Replay
<1>6. ASSUME NEW k \in Key PROVE LogInv(k)' /\ MemInv(k)' /\ FileInv(k)'
  <2>1. LogInv(k) /\ FileInv(k)
    BY <1>3 DEF KeyInv
  <2>2. LogInv(k)'
    BY <1>1, <1>5, <2>1 DEF LogInv, Promised, history
  <2>3. MemInv(k)'
    BY <1>1, <1>3 DEF MemInv, EmptyTable, memory
  <2>4. FileInv(k)'
    BY <1>1, <2>1 DEF FileInv, IsHome, memory, history
  <2> QED
    BY <2>2, <2>3, <2>4
<1>7. KeyInv({})' /\ Unapplied' = {}
  BY <1>2, <1>6 DEF KeyInv, Unapplied
<1> QED
  BY <1>4, <1>7 DEF DurabilityInv

\* The merged file repeats the committed value of every key it holds.
LEMMA CompactBuildStep == TypeOK /\ DurabilityInv /\ CompactBuild => DurabilityInv'
<1> SUFFICES ASSUME TypeOK, DurabilityInv, CompactBuild PROVE DurabilityInv'
  OBVIOUS
<1>1. /\ pc = "compact" /\ pc' = "swap"
      /\ UNCHANGED <<wal, memory, history>>
  BY DEF CompactBuild
<1>2. PICK t \in {CompactionOutput(sstables, files), Torn} : files' = WriteFile(next_seq, t)
  BY DEF CompactBuild
<1>3. KeyInv({}) /\ SSTablesOrdered
  BY <1>1 DEF DurabilityInv, Unapplied
<1>4. /\ SSTablesOrdered' /\ next_seq \in DOMAIN files' /\ files'[next_seq] = t
      /\ \A n \in DOMAIN files : n # next_seq => n \in DOMAIN files' /\ files'[n] = files[n]
  BY <1>1, <1>2, <1>3, WriteKeepsOlder
<1>5. CompactionOutput(sstables, files') = CompactionOutput(sstables, files)
  <2>1. sstables \in Seq(Nat) /\ next_seq \in Nat
    BY DEF TypeOK
  <2>2. \A i \in DOMAIN sstables : /\ sstables[i] \in DOMAIN files /\ sstables[i] \in DOMAIN files'
                                   /\ files[sstables[i]] = files'[sstables[i]]
    BY <1>3, <1>4, <2>1 DEF SSTablesOrdered
  <2>3. \A k \in Key : TableEntry(sstables, files, k) = TableEntry(sstables, files', k)
    BY <2>1, <2>2, TableEntryLocal
  <2>4. Merged(sstables, files') = Merged(sstables, files)
    BY <2>3 DEF Merged
  <2> QED
    BY <2>4 DEF CompactionOutput
<1>6. ControlInv'
  BY <1>1, <1>2, <1>4, <1>5 DEF DurabilityInv, ControlInv, memory
<1>7. ASSUME NEW k \in Key PROVE LogInv(k)' /\ MemInv(k)' /\ FileInv(k)'
  <2>1. LogInv(k) /\ MemInv(k) /\ FileInv(k)
    BY <1>3 DEF KeyInv
  <2>2. LogInv(k)' /\ MemInv(k)'
    BY <1>1, <2>1 DEF LogInv, MemInv, Logged, Promised, memory, history
  <2>3. ASSUME memtable[k] = Absent, committed[k] \in Value, t \in Table, t[k] # Absent
        PROVE  t[k] = committed[k]
    <3>1. PICK m \in DOMAIN files : IsHome(k, m) /\ files[m][k] = committed[k]
      BY <2>1, <2>3 DEF FileInv
    <3>2. t = CompactionOutput(sstables, files)
      BY <1>2, <2>3, EngineConstants
    <3> QED
      BY <1>3, <2>3, <3>1, <3>2, MergeKeepsHome
  <2>4. UNCHANGED <<memory, committed>>
    BY <1>1 DEF history
  <2>5. FileInv(k)'
    BY <1>2, <1>3, <2>1, <2>3, <2>4, WriteKeepsKey
  <2> QED
    BY <2>2, <2>5
<1>8. KeyInv({})' /\ Unapplied' = {}
  BY <1>1, <1>7 DEF KeyInv, Unapplied
<1> QED
  BY <1>4, <1>6, <1>8 DEF DurabilityInv

\* After the swap no committed value is at home in a file about to be unlinked.
LEMMA CompactSwapStep == TypeOK /\ DurabilityInv /\ CompactSwap => DurabilityInv'
<1> SUFFICES ASSUME TypeOK, DurabilityInv, CompactSwap PROVE DurabilityInv'
  OBVIOUS
<1>1. /\ pc = "swap" /\ pc' = "cleanup" /\ files[next_seq] # Torn
      /\ old_paths' = sstables /\ sstables' = <<next_seq>> /\ next_seq' = next_seq + 1
      /\ UNCHANGED <<wal, files, memtable, committed, maybe>>
  BY DEF CompactSwap, disk, history
<1>2. next_seq \in Nat /\ sstables \in Seq(Nat) /\ DOMAIN files \subseteq Nat
  BY DEF TypeOK
<1>3. KeyInv({}) /\ SSTablesOrdered
  BY <1>1 DEF DurabilityInv, Unapplied
<1>4. /\ next_seq \in DOMAIN files /\ old_paths = <<>>
      /\ files[next_seq] = CompactionOutput(sstables, files)
  BY <1>1 DEF DurabilityInv, ControlInv
<1>5. \A i \in DOMAIN sstables : sstables[i] < next_seq
  BY <1>3 DEF SSTablesOrdered
<1>6. DOMAIN sstables' = {1} /\ sstables'[1] = next_seq /\ Range(sstables') = {next_seq}
  BY <1>1 DEF Range
<1>7. SSTablesOrdered'
  <2>1. \A n \in DOMAIN files : n \in Nat /\ n <= next_seq
    BY <1>2, <1>3 DEF SSTablesOrdered
  <2> QED
    BY <1>1, <1>2, <1>4, <1>6, <2>1 DEF SSTablesOrdered
<1>8. ControlInv'
  BY <1>1, <1>5, <1>6 DEF ControlInv
<1>9. ASSUME NEW k \in Key PROVE LogInv(k)' /\ MemInv(k)' /\ FileInv(k)'
  <2>1. LogInv(k) /\ MemInv(k) /\ FileInv(k)
    BY <1>3 DEF KeyInv
  <2>2. LogInv(k)' /\ MemInv(k)'
    BY <1>1, <2>1 DEF LogInv, MemInv, Logged, Promised
  <2>3. next_seq' \notin Holders(files', k)
    BY <1>1, <1>2, <1>3 DEF SSTablesOrdered, Holders
  <2>4. ASSUME memtable[k] = Absent, committed[k] \in Value
        PROVE  \E m \in DOMAIN files' : IsHome(k, m)' /\ files'[m][k] = committed'[k]
    <3>1. PICK m \in DOMAIN files : IsHome(k, m) /\ files[m][k] = committed[k]
      BY <2>1, <2>4 DEF FileInv
    <3>2. committed[k] # Absent
      BY <2>4, EngineConstants DEF Entry
    <3>3. m \in Range(sstables) => next_seq \in Holders(files, k)
      BY <1>3, <1>4, <2>4, <3>1, <3>2, MergeKeepsHome DEF Holders
    <3>4. CASE next_seq \in Holders(files, k)
      <4>1. files[next_seq][k] = committed[k]
        BY <2>1, <2>4, <3>4 DEF FileInv
      <4>2. next_seq \notin Range(old_paths')
        BY <1>1, <1>2, <1>5 DEF Range
      <4>3. \A n \in Holders(files, k) : n <= next_seq
        BY <1>3 DEF SSTablesOrdered, Holders
      <4>4. PICK h \in DOMAIN files : h = next_seq
        BY <1>4
      <4>5. IsHome(k, h)'
        BY <1>1, <1>2, <3>4, <4>2, <4>3, <4>4 DEF IsHome
      <4> QED
        BY <1>1, <4>1, <4>4, <4>5
    <3>5. CASE next_seq \notin Holders(files, k)
      <4>1. m \notin Range(old_paths')
        BY <1>1, <3>3, <3>5
      <4>2. \A n \in Holders(files, k) : n < next_seq
        BY <1>2, <1>3, <3>5 DEF Holders, SSTablesOrdered
      <4>3. m < next_seq' /\ m \in Holders(files, k)
        BY <1>1, <1>2, <3>1 DEF IsHome
      <4>4. \A n \in Holders(files, k) : n <= m
        BY <3>1, <4>2 DEF IsHome
      <4>5. IsHome(k, m)'
        BY <1>1, <4>1, <4>3, <4>4 DEF IsHome
      <4> QED
        BY <1>1, <3>1, <4>5
    <3> QED
      BY <3>4, <3>5
  <2>5. FileInv(k)'
    BY <1>1, <2>3, <2>4 DEF FileInv
  <2> QED
    BY <2>2, <2>5
<1>10. KeyInv({})' /\ Unapplied' = {}
  BY <1>1, <1>9 DEF KeyInv, Unapplied
<1> QED
  BY <1>7, <1>8, <1>10 DEF DurabilityInv

\* Unlinking one input of the compaction preserves it.
LEMMA CleanupUnlinkStep == TypeOK /\ DurabilityInv /\ CleanupUnlink => DurabilityInv'
<1> SUFFICES ASSUME TypeOK, DurabilityInv, CleanupUnlink PROVE DurabilityInv'
  OBVIOUS
<1>1. /\ pc = "cleanup" /\ pc' = "cleanup" /\ old_paths # <<>>
      /\ files' = files \/ files' = Unlink(Head(old_paths))
      /\ old_paths' = Tail(old_paths)
      /\ UNCHANGED <<wal, memtable, sstables, next_seq, committed, maybe>>
  BY DEF CleanupUnlink, history
<1>2. /\ old_paths \in Seq(Nat) /\ sstables \in Seq(Nat)
      /\ next_seq \in Nat /\ DOMAIN files \subseteq Nat
  BY DEF TypeOK
<1>3. /\ KeyInv({}) /\ SSTablesOrdered
      /\ \A i \in DOMAIN old_paths : \A j \in DOMAIN sstables : old_paths[i] < sstables[j]
  BY <1>1 DEF DurabilityInv, Unapplied, ControlInv
<1>4. Head(old_paths) \in Range(old_paths) /\ Range(old_paths') \subseteq Range(old_paths)
  <2>1. 1 \in DOMAIN old_paths /\ Head(old_paths) = old_paths[1]
    BY <1>1, <1>2
  <2>2. \A i \in DOMAIN old_paths' : i + 1 \in DOMAIN old_paths /\ old_paths'[i] = old_paths[i + 1]
    BY <1>1, <1>2
  <2> QED
    BY <2>1, <2>2 DEF Range
<1>5. \A n \in DOMAIN files : n # Head(old_paths) => n \in DOMAIN files' /\ files'[n] = files[n]
  BY <1>1 DEF Unlink
<1>6. DOMAIN files' \subseteq DOMAIN files /\ \A n \in DOMAIN files' : files'[n] = files[n]
  BY <1>1 DEF Unlink
<1>7. Head(old_paths) \notin Range(sstables)
  BY <1>2, <1>3, <1>4 DEF Range
<1>8. SSTablesOrdered'
  <2>1. \A i \in DOMAIN sstables : sstables[i] # Head(old_paths)
    BY <1>7 DEF Range
  <2> QED
    BY <1>1, <1>3, <1>5, <1>6, <2>1 DEF SSTablesOrdered
<1>9. ControlInv'
  <2>1. \A i \in DOMAIN old_paths' : \A j \in DOMAIN sstables' : old_paths'[i] < sstables'[j]
    BY <1>1, <1>3, <1>4 DEF Range
  <2> QED
    BY <1>1, <2>1 DEF ControlInv
<1>10. ASSUME NEW k \in Key PROVE LogInv(k)' /\ MemInv(k)' /\ FileInv(k)'
  <2>1. LogInv(k) /\ MemInv(k) /\ FileInv(k)
    BY <1>3 DEF KeyInv
  <2>2. LogInv(k)' /\ MemInv(k)'
    BY <1>1, <2>1 DEF LogInv, MemInv, Logged, Promised
  <2>3. /\ Holders(files', k) \subseteq Holders(files, k)
        /\ \A n \in Holders(files, k) : n # Head(old_paths) => n \in Holders(files', k)
    BY <1>5, <1>6 DEF Holders
  <2>4. ASSUME memtable[k] = Absent, committed[k] \in Value
        PROVE  \E m \in DOMAIN files' : IsHome(k, m)' /\ files'[m][k] = committed'[k]
    <3>1. PICK m \in DOMAIN files : IsHome(k, m) /\ files[m][k] = committed[k]
      BY <2>1, <2>4 DEF FileInv
    <3>2. m # Head(old_paths)
      BY <1>4, <3>1 DEF IsHome
    <3>3. IsHome(k, m)'
      BY <1>1, <1>4, <2>3, <3>1, <3>2 DEF IsHome
    <3> QED
      BY <1>1, <1>5, <3>1, <3>2, <3>3
  <2>5. next_seq' \in Holders(files', k) =>
            next_seq \in Holders(files, k) /\ files'[next_seq'] = files[next_seq]
    BY <1>1, <1>6, <2>3 DEF Holders
  <2>6. FileInv(k)'
    BY <1>1, <2>1, <2>4, <2>5 DEF FileInv
  <2> QED
    BY <2>2, <2>6
<1>11. KeyInv({})' /\ Unapplied' = {}
  BY <1>1, <1>10 DEF KeyInv, Unapplied
<1> QED
  BY <1>8, <1>9, <1>11 DEF DurabilityInv

\* Wherever the process dies, what was durable stays so.
LEMMA CrashStep == TypeOK /\ DurabilityInv /\ Crash => DurabilityInv'
<1> SUFFICES ASSUME TypeOK, DurabilityInv, Crash PROVE DurabilityInv'
  OBVIOUS
<1>1. pc' = "down" /\ pc # "down" /\ UNCHANGED <<memory, committed>>
  BY EngineConstants DEF Crash
<1>2. IF pc = "append" THEN Interrupted("torn" \in Faults) ELSE UNCHANGED <<wal, maybe>>
  BY DEF Crash
<1>3. files' = files \/ files' = WriteFile(next_seq, Torn)
  BY DEF Crash
<1>4. PICK X \in SUBSET Key : KeyInv(X)
  BY DEF DurabilityInv
<1>5. SSTablesOrdered /\ ControlInv
  BY DEF DurabilityInv
<1>6. SSTablesOrdered'
  <2>1. CASE files' = files
    BY <1>1, <1>5, <2>1 DEF SSTablesOrdered, memory
  <2>2. CASE files' = WriteFile(next_seq, Torn)
    BY <1>1, <1>5, <2>2, WriteKeepsOlder
  <2> QED
    BY <1>3, <2>1, <2>2
<1>7. ControlInv'
  BY <1>1, <1>5 DEF ControlInv, memory
<1>8. ASSUME NEW k \in Key
      PROVE  /\ LogInv(k) => LogInv(k)'
             /\ Logged(k) => Logged(k)'
             /\ MemInv(k) => MemInv(k)'
             /\ FileInv(k) => FileInv(k)'
  <2>1. (LogInv(k) => LogInv(k)') /\ (Logged(k) => Logged(k)')
    <3>1. CASE pc = "append"
      <4>1. op \in Record
        BY <3>1 DEF TypeOK
      <4> QED
        BY <1>1, <1>2, <3>1, <4>1, InterruptedKeepsLog
    <3>2. CASE pc # "append"
      BY <1>1, <1>2, <3>2 DEF LogInv, Logged, Promised
    <3> QED
      BY <3>1, <3>2
  <2>2. MemInv(k) => MemInv(k)'
    BY <1>1, <2>1 DEF MemInv, memory
  <2>3. FileInv(k) => FileInv(k)'
    <3>1. CASE files' = files
      BY <1>1, <3>1 DEF FileInv, IsHome, memory
    <3>2. CASE files' = WriteFile(next_seq, Torn)
      <4>1. Torn \notin Table
        BY EngineConstants
      <4> QED
        BY <1>1, <1>5, <3>2, <4>1, WriteKeepsKey
    <3> QED
      BY <1>3, <3>1, <3>2
  <2> QED
    BY <2>1, <2>2, <2>3
<1>9. KeyInv(X)'
  BY <1>4, <1>8 DEF KeyInv
<1> QED
  BY <1>1, <1>6, <1>7, <1>9 DEF DurabilityInv

\* Every step preserves the inductive invariant.
LEMMA DurabilityStep ==
    TypeOK /\ TypeOK' /\ DurabilityInv /\ [Next]_vars => DurabilityInv'
<1> SUFFICES ASSUME TypeOK, TypeOK', DurabilityInv, [Next]_vars PROVE DurabilityInv'
  OBVIOUS
<1> USE DEF disk, memory, history
<1>1. ASSUME NEW k \in Key, NEW v \in Value, Put(k, v) PROVE DurabilityInv'
  BY <1>1, ControlOnlyStep DEF Put, Begin, DurabilityInv, ControlInv
<1>2. ASSUME NEW k \in Key, Remove(k) PROVE DurabilityInv'
  BY <1>2, ControlOnlyStep DEF Remove, Begin, DurabilityInv, ControlInv
<1>3. CASE AppendRecord
  BY <1>3, AppendRecordStep
<1>4. CASE AppendFails
  BY <1>4, AppendFailsStep
<1>5. CASE ApplyToMemTable
  BY <1>5, ApplyStep
<1>6. CASE FlushBuild
  BY <1>6, FlushBuildStep
<1>7. CASE FlushBuildFails
  BY <1>7, ControlOnlyStep DEF FlushBuildFails, Return, DurabilityInv, ControlInv
<1>8. CASE FlushInstall
  BY <1>8, FlushInstallStep
<1>9. CASE FlushOpenFails
  BY <1>9, ControlOnlyStep DEF FlushOpenFails, Return, DurabilityInv, ControlInv
<1>10. CASE WalClear
  BY <1>10, WalClearStep
<1>11. CASE CompactBuild
  BY <1>11, CompactBuildStep
<1>12. CASE CompactBuildFails
  BY <1>12, ControlOnlyStep DEF CompactBuildFails, Return, DurabilityInv, ControlInv
<1>13. CASE CompactSwap
  BY <1>13, CompactSwapStep
<1>14. CASE CompactOpenFails
  BY <1>14, ControlOnlyStep DEF CompactOpenFails, Return, DurabilityInv, ControlInv
<1>15. CASE CleanupUnlink
  BY <1>15, CleanupUnlinkStep
<1>16. CASE CleanupDone
  BY <1>16, ControlOnlyStep DEF CleanupDone, Return
<1>17. CASE Close
  BY <1>17, ControlOnlyStep DEF Close
<1>18. CASE Crash
  BY <1>18, CrashStep
<1>19. CASE Restart
  BY <1>19, LoadEstablishes DEF Restart, ValidFiles
<1>20. CASE RestartDropsGoodFile
  <2>1. PICK n \in ValidFiles : Load(ValidFiles \ {n})
    BY <1>20 DEF RestartDropsGoodFile
  <2> QED
    BY <2>1, LoadEstablishes DEF ValidFiles
<1>21. CASE UNCHANGED vars
  <2>1. UNCHANGED <<wal, files, memtable, sstables, next_seq, old_paths, pc, op, committed, maybe>>
    BY <1>21 DEF vars
  <2>2. PICK X \in SUBSET Key : (pc # "down" => X = Unapplied) /\ KeyInv(X)
    BY DEF DurabilityInv
  <2>3. KeyInv(X)' /\ Unapplied' = Unapplied
    BY <2>1, <2>2 DEF KeyInv, LogInv, MemInv, FileInv, Logged, Promised, IsHome, Unapplied
  <2>4. ControlInv' /\ SSTablesOrdered'
    BY <2>1 DEF DurabilityInv, ControlInv, SSTablesOrdered
  <2> QED
    BY <2>1, <2>2, <2>3, <2>4 DEF DurabilityInv
<1> QED
  BY <1>1, <1>2, <1>3, <1>4, <1>5, <1>6, <1>7, <1>8, <1>9, <1>10, <1>11, <1>12, <1>13,
     <1>14, <1>15, <1>16, <1>17, <1>18, <1>19, <1>20, <1>21 DEF Next, Step

\* The invariant implies that a restart from the present disk finds every committed value.
LEMMA DurabilityImplies == TypeOK /\ DurabilityInv => PutsDurable
<1> SUFFICES ASSUME TypeOK, DurabilityInv, NEW k \in Key,
                    committed[k] \in Value, ~Buried(wal, k)
             PROVE  Recovered(k) \in Promised(k)
  BY DEF PutsDurable
<1>1. PICK X \in SUBSET Key : KeyInv(X)
  BY DEF DurabilityInv
<1>2. CASE Replay(wal, k) # Absent
  BY <1>1, <1>2 DEF KeyInv, LogInv, Recovered
<1>3. CASE Replay(wal, k) = Absent
  <2>1. k \notin X /\ memtable[k] = Absent
    BY <1>1, <1>3 DEF KeyInv, Logged, MemInv
  <2>2. FileInv(k)
    BY <1>1, <2>1 DEF KeyInv
  <2>3. PICK m \in DOMAIN files : IsHome(k, m) /\ files[m][k] = committed[k]
    BY <2>1, <2>2 DEF FileInv
  <2>4. next_seq \in Nat /\ DOMAIN files \subseteq Nat /\ \A n \in DOMAIN files : n <= next_seq
    BY DEF TypeOK, DurabilityInv, SSTablesOrdered
  <2>5. FileEntry(files, k) = committed[k]
    <3>1. CASE next_seq \in Holders(files, k)
      <4>1. IsNewest(files, k, next_seq)
        BY <2>4, <3>1 DEF IsNewest, Holders
      <4>2. next_seq \in DOMAIN files /\ files[next_seq][k] = committed[k]
        BY <2>1, <2>2, <3>1 DEF FileInv, Holders
      <4> QED
        BY <2>4, <4>1, <4>2, NewestUnique
    <3>2. CASE next_seq \notin Holders(files, k)
      <4>1. \A n \in Holders(files, k) : n < next_seq
        BY <2>4, <3>2 DEF Holders
      <4>2. IsNewest(files, k, m)
        BY <2>3, <4>1 DEF IsHome, IsNewest
      <4> QED
        BY <2>3, <2>4, <4>2, NewestUnique
    <3> QED
      BY <3>1, <3>2
  <2>6. Visible(committed[k]) = committed[k]
    BY EngineConstants DEF Visible
  <2> QED
    BY <1>3, <2>5, <2>6 DEF Recovered, Promised
<1> QED
  BY <1>2, <1>3

\* DurabilityInv holds in every behaviour.
THEOREM DurabilityInvariant == Spec => []DurabilityInv
<1>1. TypeOK /\ TypeOK' /\ DurabilityInv /\ [Next]_vars => DurabilityInv'
  BY DurabilityStep
<1> QED
  BY TypeCorrect, DurabilityInit, <1>1, PTL DEF Spec

\* A put() whose append returned OK survives every later flush, truncation, compaction,
\* crash, restart and failed I/O call, for any keys, thresholds and failures, as long as its
\* record does not lie behind a damaged one.
THEOREM PutsAreDurable == Spec => []PutsDurable
<1>1. TypeOK /\ DurabilityInv => PutsDurable
  BY DurabilityImplies
<1> QED
  BY TypeCorrect, DurabilityInvariant, <1>1, PTL

\* get() and compact() meet the entries of a key newest first.
THEOREM TablesStayOrdered == Spec => []SSTablesOrdered
<1>1. DurabilityInv => SSTablesOrdered
  BY DEF DurabilityInv
<1> QED
  BY DurabilityInvariant, <1>1, PTL
=============================================================================
