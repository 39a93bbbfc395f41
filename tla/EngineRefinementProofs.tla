----------------------- MODULE EngineRefinementProofs -----------------------
(***************************************************************************)
(* StorageEngine implements KVStore, for every set of keys and values and  *)
(* every threshold, when the failures are confined to those that lose no   *)
(* byte (a file that cannot be created, a log that cannot be truncated)    *)
(* and the process does not die while inputs of a compaction are unlinked. *)
(***************************************************************************)
EXTENDS EngineRefinesKV, EngineServingProofs

\* An intact log buries nothing.
LEMMA IntactLog ==
    ASSUME NEW w \in Seq(Record \cup {Torn}), \A i \in DOMAIN w : w[i] # Torn, NEW k
    PROVE  ~Buried(w, k)
<1>1. \A j \in DOMAIN w : \A i \in 1..j : i \in DOMAIN w
  OBVIOUS
<1> QED
  BY <1>1 DEF Buried, Readable

\* If every file with k is open, the readers find the newest entry of k.
LEMMA OpenFilesAnswer ==
    ASSUME TypeOK, SSTablesOrdered, NEW k \in Key, Holders(files, k) \subseteq Range(sstables)
    PROVE  TableEntry(sstables, files, k) = FileEntry(files, k)
<1>1. sstables \in Seq(Nat) /\ DOMAIN files \subseteq Nat
  BY DEF TypeOK
<1>2. ASSUME NEW i \in DOMAIN sstables, IsFirstHit(sstables, files, i, k)
      PROVE  TableEntry(sstables, files, k) = FileEntry(files, k)
  <2> DEFINE m == sstables[i]
  <2>1. m \in Holders(files, k) /\ m \in DOMAIN files /\ m \in Nat
    BY <1>1, <1>2 DEF IsFirstHit, Holders
  <2>2. ASSUME NEW n \in Holders(files, k) PROVE n <= m
    <3>1. PICK j \in DOMAIN sstables : sstables[j] = n
      BY DEF Range
    <3>2. j < i => j \in 1..(i - 1)
      BY <1>1
    <3>3. ~(j < i)
      BY <1>2, <3>1, <3>2 DEF IsFirstHit
    <3>4. (j = i \/ i < j) /\ n \in Nat
      BY <1>1, <3>1, <3>3
    <3> QED
      BY <2>1, <3>1, <3>4 DEF SSTablesOrdered
  <2>3. IsNewest(files, k, m)
    BY <2>1, <2>2 DEF IsNewest
  <2> QED
    BY <1>1, <1>2, <2>1, <2>3, NewestUnique, FirstHitUnique
<1>3. ASSUME ~ \E i \in DOMAIN sstables : IsFirstHit(sstables, files, i, k)
      PROVE  TableEntry(sstables, files, k) = FileEntry(files, k)
  <2>1. TableEntry(sstables, files, k) = Absent
    BY <1>3 DEF TableEntry
  <2>2. ASSUME NEW m \in DOMAIN files, IsNewest(files, k, m) PROVE FALSE
    <3>1. PICK i \in DOMAIN sstables : sstables[i] = m
      BY <2>2 DEF IsNewest, Range
    <3>2. ASSUME NEW j \in 1..(i - 1) PROVE sstables[j] \notin Holders(files, k)
      <4>1. j \in DOMAIN sstables /\ j < i
        BY <1>1
      <4>2. sstables[j] > m /\ sstables[j] \in Nat /\ m \in Nat
        BY <1>1, <3>1, <4>1 DEF SSTablesOrdered
      <4> QED
        BY <2>2, <4>2 DEF IsNewest
    <3>3. IsFirstHit(sstables, files, i, k)
      BY <2>2, <3>1, <3>2 DEF IsFirstHit, IsNewest
    <3> QED
      BY <1>3, <3>3
  <2> QED
    BY <2>1, <2>2 DEF FileEntry
<1> QED
  BY <1>2, <1>3

\* While the engine runs, clients observe exactly the committed answers.
LEMMA ContentsCommitted ==
    ASSUME TypeOK, DurabilityInv, ServingInv, Undamaged, pc # "down"
    PROVE  Contents = committed
<1>1. committed \in [Key -> Value \cup {Absent}] /\ DOMAIN files \subseteq Nat /\ next_seq \in Nat
      /\ wal \in Seq(Record \cup {Torn}) /\ sstables \in Seq(Nat)
  BY DEF TypeOK
<1>2. SSTablesOrdered /\ ControlInv /\ KeyInv(Unapplied)
  BY DEF DurabilityInv
<1>3. ASSUME NEW k \in Key, pc = "cleanup" PROVE Get(k) = committed[k]
  <2>1. Orphans = {}
    BY <1>3 DEF Undamaged, Orphans
  <2>2. ReadYourWrites
    BY ServingImpliesReads
  <2> QED
    BY <1>3, <2>1, <2>2 DEF ReadYourWrites
<1>4. ASSUME NEW k \in Key, pc # "cleanup" PROVE Recovered(k) = committed[k]
  <2>1. ~Buried(wal, k) /\ maybe[k] = {}
    BY <1>1, IntactLog DEF Undamaged
  <2>2. CASE Replay(wal, k) # Absent
    BY <1>2, <2>1, <2>2 DEF KeyInv, LogInv, Promised, Recovered
  <2>3. CASE Replay(wal, k) = Absent
    <3>1. k \notin Unapplied /\ memtable[k] = Absent
      BY <1>2, <2>1, <2>3 DEF KeyInv, Logged, MemInv
    <3>2. TableInv(k) /\ old_paths = <<>> /\ Range(old_paths) = {}
      BY <1>2, <1>4, <3>1 DEF ServingInv, ReadInv, ControlInv, Range
    <3>3. ~ \E n \in Orphans : IsHome(k, n)
      BY <1>1, <3>2 DEF Undamaged, Orphans, IsHome
    <3>4. Visible(TableEntry(sstables, files, k)) = committed[k]
      BY <3>1, <3>2, <3>3 DEF TableInv
    <3>5. CASE next_seq \notin Holders(files, k)
      <4>1. Holders(files, k) \subseteq Range(sstables)
        BY <3>2, <3>5 DEF Undamaged, Holders
      <4> QED
        BY <1>2, <2>3, <3>4, <4>1, OpenFilesAnswer DEF Recovered
    <3>6. CASE next_seq \in Holders(files, k)
      <4>1. next_seq \notin Range(sstables)
        BY <1>1, <1>2 DEF SSTablesOrdered, Range
      <4>2. next_seq \in DOMAIN files /\ files[next_seq] \in Table /\ files[next_seq][k] # Absent
        BY <3>6 DEF Holders
      <4>3. pc \in {"install", "swap"} /\ files[next_seq] # Torn
        BY <3>2, <4>1, <4>2 DEF Undamaged
      <4>4. pc = "swap" /\ files[next_seq] = CompactionOutput(sstables, files)
        BY <1>2, <3>1, <4>2, <4>3 DEF ControlInv
      <4>5. files[next_seq] = Merged(sstables, files)
        BY <4>2, <4>4, EngineConstants DEF CompactionOutput
      <4>6. files[next_seq][k] = committed[k]
        BY <3>4, <4>5 DEF Merged
      <4>7. IsNewest(files, k, next_seq)
        BY <1>2, <3>6 DEF IsNewest, SSTablesOrdered, Holders
      <4>8. FileEntry(files, k) = committed[k]
        BY <1>1, <4>2, <4>6, <4>7, NewestUnique
      <4>9. Visible(committed[k]) = committed[k]
        BY <1>1, EngineConstants DEF Visible
      <4> QED
        BY <2>3, <4>8, <4>9 DEF Recovered
    <3> QED
      BY <3>5, <3>6
  <2> QED
    BY <2>2, <2>3
<1> QED
  BY <1>1, <1>3, <1>4 DEF Contents

-----------------------------------------------------------------------------
(* Undamaged is inductive.                                                 *)

\* An empty directory is undamaged.
LEMMA UndamagedInit == Init => Undamaged
BY DEF Init, Undamaged

\* No step damages the log or leaves a file behind when nothing is lost.
LEMMA UndamagedStep ==
    ASSUME NothingLost, TypeOK, TypeOK', DurabilityInv, Undamaged, [Next]_vars
    PROVE  Undamaged'
<1> USE DEF disk, memory, history
<1>1. /\ wal \in Seq(Record \cup {Torn}) /\ maybe \in [Key -> SUBSET (Value \cup {Absent})]
      /\ sstables \in Seq(Nat) /\ old_paths \in Seq(Nat) /\ next_seq \in Nat
      /\ DOMAIN files \subseteq Nat /\ IsFiniteSet(DOMAIN files) /\ memtable \in Table
  BY DEF TypeOK
<1>2. ControlInv /\ SSTablesOrdered
  BY DEF DurabilityInv
<1>3. \A kind : kind \in Faults => kind \in {"build_error", "clear_error"}
  BY DEF NothingLost
<1>4. ASSUME NEW k \in Key, NEW e, Begin(k, e) PROVE Undamaged'
  BY <1>4 DEF Begin, Undamaged
<1>5. CASE AppendRecord
  <2>1. op \in Record /\ op # Torn /\ op.key \in Key
    BY <1>5, EngineConstants DEF AppendRecord, TypeOK, Record
  <2>2. \A i \in DOMAIN wal' : wal'[i] # Torn
    BY <1>1, <1>5, <2>1, AppendReadable DEF AppendRecord, Undamaged
  <2> QED
    BY <1>1, <1>5, <2>2 DEF AppendRecord, Undamaged
<1>6. CASE AppendFails
  BY <1>3, <1>6 DEF AppendFails, Fault
<1>7. CASE ApplyToMemTable
  BY <1>7 DEF ApplyToMemTable, Return, Undamaged
<1>8. CASE FlushBuild
  <2>1. files' = WriteFile(next_seq, memtable) /\ pc = "flush" /\ pc' = "install"
        /\ UNCHANGED <<wal, memory, history>>
    BY <1>3, <1>8 DEF FlushBuild, Fault
  <2>2. memtable # Torn
    BY <1>1, EngineConstants
  <2> QED
    BY <2>1, <2>2 DEF WriteFile, Undamaged
<1>9. CASE FlushBuildFails \/ CompactBuildFails
  BY <1>9 DEF FlushBuildFails, CompactBuildFails, Return, Undamaged
<1>10. CASE FlushInstall
  <2>1. sstables' = <<next_seq>> \o sstables
    BY <1>10 DEF FlushInstall
  <2>2. /\ 1 \in DOMAIN sstables' /\ sstables'[1] = next_seq
        /\ \A i \in DOMAIN sstables : i + 1 \in DOMAIN sstables' /\ sstables'[i + 1] = sstables[i]
    BY <1>1, <2>1
  <2>3. \A n : n = next_seq \/ n \in Range(sstables) => n \in Range(sstables')
    BY <2>2 DEF Range
  <2> QED
    BY <1>10, <2>3 DEF FlushInstall, Undamaged
<1>11. CASE FlushOpenFails
  BY <1>3, <1>11 DEF FlushOpenFails, Fault, Undamaged
<1>12. CASE WalClear
  BY <1>12 DEF WalClear, Return, Undamaged
<1>13. CASE CompactBuild
  <2>1. files' = WriteFile(next_seq, CompactionOutput(sstables, files)) /\ pc = "compact"
        /\ pc' = "swap" /\ UNCHANGED <<wal, memory, history>>
    BY <1>3, <1>13 DEF CompactBuild, Fault
  <2>2. CompactionOutput(sstables, files) # Torn
    BY CompactionOutputType, EngineConstants
  <2> QED
    BY <2>1, <2>2 DEF WriteFile, Undamaged
<1>14. CASE CompactSwap
  <2>1. Range(sstables') = {next_seq} /\ Range(old_paths') = Range(sstables)
        /\ old_paths = <<>> /\ Range(old_paths) = {}
    BY <1>2, <1>14 DEF CompactSwap, ControlInv, Range
  <2> QED
    BY <1>14, <2>1 DEF CompactSwap, Undamaged
<1>15. CASE CompactOpenFails
  BY <1>3, <1>15 DEF CompactOpenFails, Fault, Undamaged
<1>16. CASE CleanupUnlink
  <2>1. /\ files' = Unlink(Head(old_paths)) /\ old_paths' = Tail(old_paths) /\ old_paths # <<>>
        /\ pc = "cleanup" /\ pc' = "cleanup"
        /\ UNCHANGED <<wal, sstables, next_seq, history>>
    BY <1>3, <1>16 DEF CleanupUnlink, Fault
  <2>2. ASSUME NEW n \in Range(old_paths), n # Head(old_paths) PROVE n \in Range(old_paths')
    <3>1. PICK i \in DOMAIN old_paths : old_paths[i] = n
      BY DEF Range
    <3>2. i # 1 /\ i - 1 \in DOMAIN Tail(old_paths) /\ Tail(old_paths)[i - 1] = n
      BY <1>1, <2>1, <2>2, <3>1
    <3> QED
      BY <2>1, <3>2 DEF Range
  <2>3. \A n \in DOMAIN files' : n \in DOMAIN files /\ n # Head(old_paths)
    BY <2>1 DEF Unlink
  <2> QED
    BY <2>1, <2>2, <2>3 DEF Undamaged
<1>17. CASE CleanupDone
  BY <1>17 DEF CleanupDone, Return, Undamaged
<1>18. CASE Close
  BY <1>18 DEF Close, Undamaged
<1>19. CASE Crash
  <2>1. \A i \in DOMAIN wal' : wal'[i] # Torn
    <3>1. CASE pc = "append"
      <4>1. op \in Record /\ op # Torn
        BY <3>1, EngineConstants DEF TypeOK
      <4>2. wal' \in {wal, Append(wal, op)}
        BY <1>3, <1>19, <3>1 DEF Crash, Interrupted
      <4>3. \A i \in DOMAIN Append(wal, op) : Append(wal, op)[i] # Torn
        BY <1>1, <4>1, AppendReadable DEF Undamaged
      <4> QED
        BY <4>2, <4>3 DEF Undamaged
    <3>2. CASE pc # "append"
      BY <1>19, <3>2 DEF Crash, Undamaged
    <3> QED
      BY <3>1, <3>2
  <2> QED
    BY <1>19, <2>1 DEF Crash, Undamaged
<1>20. CASE Restart
  <2>1. /\ DOMAIN files' = ValidFiles /\ sstables' = Descending(ValidFiles) /\ wal' = wal
        /\ pc' \in {"flush", "idle"} /\ \A k \in Key : maybe'[k] = {}
    BY <1>20 DEF Restart, Load, Restrict
  <2>2. ValidFiles \subseteq Nat /\ IsFiniteSet(ValidFiles)
    BY <1>1, FS_Subset DEF ValidFiles
  <2>3. Range(sstables') = DOMAIN files'
    BY <2>1, <2>2, DescendingType
  <2> QED
    BY <2>1, <2>3 DEF Undamaged
<1>21. CASE RestartDropsGoodFile
  BY <1>3, <1>21 DEF RestartDropsGoodFile, Fault
<1>22. CASE UNCHANGED vars
  BY <1>22 DEF vars, Undamaged
<1> QED
  BY <1>4, <1>5, <1>6, <1>7, <1>8, <1>9, <1>10, <1>11, <1>12, <1>13, <1>14, <1>15, <1>16,
     <1>17, <1>18, <1>19, <1>20, <1>21, <1>22 DEF Next, Step, Put, Remove

-----------------------------------------------------------------------------
(* Every step of the engine is a step of the store, or changes nothing in it. *)

\* What the clients of a running engine observe.
Observed == pc # "down" => Contents = committed

\* The open call is a record of KVStore, never its "no call".
LEMMA OpenCallType ==
    ASSUME TypeOK, pc = "append"
    PROVE  OpenCall # NoOp /\ OpenCall.key = op.key /\ OpenCall.answer = Visible(op.val)
<1>1. op.key \in Key /\ Visible(op.val) \in Value \cup {Absent}
  BY VisibleType DEF TypeOK, Record
<1> QED
  BY <1>1, CallConstants DEF OpenCall

\* A put() or remove() starts: the store gets a call.
LEMMA BeginCalls ==
    ASSUME TypeOK, Observed, Observed', NEW k \in Key, NEW e \in Entry, Begin(k, e)
    PROVE  KV!Next
<1>1. Contents' = Contents
  BY DEF Begin, Observed, history
<1>2. OpenCall = NoOp /\ OpenCall' = [key |-> k, answer |-> Visible(e)]
  BY DEF Begin, OpenCall
<1>3. Visible(e) \in KV!Answer
  BY VisibleType DEF KV!Answer
<1>4. KV!Call(k, Visible(e))
  BY <1>1, <1>2 DEF KV!Call
<1> QED
  BY <1>3, <1>4 DEF KV!Next

\* The append returns OK: the call takes effect.
LEMMA AppendTakesEffect ==
    ASSUME TypeOK, Observed, Observed', AppendRecord
    PROVE  KV!Next
<1>1. Contents' = [Contents EXCEPT ![op.key] = Visible(op.val)]
  BY DEF AppendRecord, Observed
<1>2. OpenCall' = NoOp
  BY DEF AppendRecord, OpenCall
<1>3. KV!TakeEffect
  BY <1>1, <1>2, OpenCallType, Zenon DEF KV!TakeEffect, AppendRecord
<1> QED
  BY <1>3 DEF KV!Next

\* The process dies: a call in its append takes effect or vanishes, and nothing else changes.
LEMMA CrashVanishes ==
    ASSUME NothingLost, TypeOK, TypeOK', DurabilityInv, Undamaged, Undamaged', Crash
    PROVE  KV!Next \/ UNCHANGED <<Contents, OpenCall>>
<1>1. pc # "cleanup" /\ pc # "down" /\ pc' = "down" /\ OpenCall' = NoOp
  BY EngineConstants DEF Crash, NothingLost, OpenCall
<1>2. Contents = [k \in Key |-> Recovered(k)] /\ Contents' = [k \in Key |-> Recovered(k)']
  BY <1>1 DEF Contents
<1>3. wal \in Seq(Record \cup {Torn}) /\ wal' \in Seq(Record \cup {Torn})
      /\ DOMAIN files \subseteq Nat /\ DOMAIN files' \subseteq Nat /\ next_seq \in Nat
  BY DEF TypeOK
<1>4. CASE pc = "append"
  <2>1. op \in Record /\ op.key \in Key /\ op.val \in Entry /\ op.val # Absent
    BY <1>4, EngineConstants DEF TypeOK, Record
  <2>2. wal' = wal \/ wal' = Append(wal, op)
    BY <1>4 DEF Crash, Interrupted, NothingLost
  <2>3. files' = files
    BY <1>4 DEF Crash
  <2>4. CASE wal' = wal
    <3>1. Contents' = Contents
      BY <1>2, <2>3, <2>4 DEF Recovered
    <3>2. KV!Vanish
      BY <1>1, <1>4, <3>1, OpenCallType DEF KV!Vanish
    <3> QED
      BY <3>2 DEF KV!Next
  <2>5. CASE wal' = Append(wal, op)
    <3>1. \A k \in Key : k # op.key => Recovered(k)' = Recovered(k)
      BY <1>3, <2>1, <2>3, <2>5, LogAppend DEF Recovered
    <3>2. Replay(wal', op.key) = op.val
      <4>1. ~Buried(wal', op.key)
        BY <1>3, IntactLog DEF Undamaged
      <4> QED
        BY <1>3, <2>1, <2>5, <4>1, LogAppend
    <3>3. \A k \in Key : k = op.key => Recovered(k)' = Visible(op.val)
      BY <2>1, <3>2 DEF Recovered
    <3>4. Contents' = [Contents EXCEPT ![op.key] = Visible(op.val)]
      BY <1>2, <3>1, <3>3
    <3>5. KV!TakeEffect
      BY <1>1, <1>4, <3>4, OpenCallType, Zenon DEF KV!TakeEffect
    <3> QED
      BY <3>5 DEF KV!Next
  <2> QED
    BY <2>2, <2>4, <2>5
<1>5. CASE pc # "append"
  <2>1. wal' = wal /\ OpenCall = NoOp
    BY <1>5 DEF Crash, OpenCall
  <2>2. CASE files' = files
    BY <1>1, <1>2, <2>1, <2>2 DEF Recovered
  <2>3. CASE pc \in {"flush", "compact"} /\ files' = WriteFile(next_seq, Torn)
    <3>1. next_seq \notin DOMAIN files
      <4>1. old_paths = <<>> /\ Range(old_paths) = {} /\ SSTablesOrdered
        BY <2>3 DEF DurabilityInv, ControlInv, Range
      <4>2. next_seq \notin Range(sstables)
        BY <1>3, <4>1 DEF SSTablesOrdered, Range
      <4> QED
        BY <1>1, <2>3, <4>1, <4>2 DEF Undamaged
    <3>2. ASSUME NEW k \in Key PROVE FileEntry(files', k) = FileEntry(files, k)
      <4>1. Holders(files', k) = Holders(files, k) /\ \A n \in Holders(files, k) : files'[n] = files[n]
        BY <2>3, <3>1, EngineConstants DEF Holders, WriteFile
      <4> QED
        BY <1>3, <4>1, FileEntrySame
    <3> QED
      BY <1>1, <1>2, <2>1, <3>2 DEF Recovered
  <2> QED
    BY <1>5, <2>2, <2>3 DEF Crash
<1> QED
  BY <1>4, <1>5

\* Closing and restarting the engine change nothing that a client can observe.
LEMMA RestartStutters ==
    ASSUME TypeOK, TypeOK', Close \/ Restart
    PROVE  UNCHANGED <<Contents, OpenCall>>
<1>1. CASE Close
  BY <1>1 DEF Close, Contents, Recovered, OpenCall, disk
<1>2. CASE Restart
  <2>1. pc = "down" /\ pc' \in {"flush", "idle"}
    BY <1>2 DEF Restart, Load
  <2>2. Contents = [k \in Key |-> Recovered(k)] /\ Contents' = [k \in Key |-> Recovered(k)']
    BY <2>1 DEF Contents
  <2> QED
    BY <1>2, <2>1, <2>2, RestartServes DEF OpenCall
<1> QED
  BY <1>1, <1>2

\* Flush, truncation and compaction change nothing that a client can observe.
LEMMA StepStutters ==
    ASSUME NothingLost, Observed, Observed', Step, ~AppendRecord
    PROVE  UNCHANGED <<Contents, OpenCall>>
<1> USE DEF history
<1>1. ~AppendFails
  BY DEF AppendFails, Fault, NothingLost
<1>2. CASE WalClear
  BY <1>2 DEF WalClear, Return, Observed, OpenCall
<1>3. CASE ApplyToMemTable \/ FlushBuild \/ FlushBuildFails \/ FlushInstall \/ FlushOpenFails
  BY <1>3 DEF ApplyToMemTable, FlushBuild, FlushBuildFails, FlushInstall, FlushOpenFails,
     Return, Observed, OpenCall
<1>4. CASE \/ CompactBuild \/ CompactBuildFails \/ CompactSwap \/ CompactOpenFails
           \/ CleanupUnlink \/ CleanupDone
  BY <1>4 DEF CompactBuild, CompactBuildFails, CompactSwap, CompactOpenFails, CleanupUnlink,
     CleanupDone, Return, Observed, OpenCall
<1> QED
  BY <1>1, <1>2, <1>3, <1>4 DEF Step

\* Every step maps to a step of KVStore or to a stutter.
LEMMA EngineStepSimulates ==
    ASSUME NothingLost, TypeOK, TypeOK', DurabilityInv, Undamaged, Undamaged',
           Observed, Observed', [Next]_vars
    PROVE  [KV!Next]_<<Contents, OpenCall>>
<1>1. ASSUME NEW k \in Key, NEW v \in Value, Put(k, v) PROVE KV!Next
  BY <1>1, BeginCalls DEF Put, Entry
<1>2. ASSUME NEW k \in Key, Remove(k) PROVE KV!Next
  BY <1>2, BeginCalls DEF Remove, Entry
<1>3. CASE Step
  BY <1>3, AppendTakesEffect, StepStutters
<1>4. CASE Close \/ Restart
  BY <1>4, RestartStutters
<1>5. CASE Crash
  BY <1>5, CrashVanishes
<1>6. CASE RestartDropsGoodFile
  BY <1>6 DEF RestartDropsGoodFile, Fault, NothingLost
<1>7. CASE UNCHANGED vars
  BY <1>7 DEF vars, Contents, OpenCall, Get, Recovered
<1> QED
  BY <1>1, <1>2, <1>3, <1>4, <1>5, <1>6, <1>7 DEF Next

\* Wherever no byte is lost flush, compaction and load_sstables() leak no file, and the log
\* stays readable to its end.
THEOREM NothingLeaks ==
    ASSUME NothingLost
    PROVE  Spec => []Undamaged
<1>1. TypeOK /\ TypeOK' /\ DurabilityInv /\ Undamaged /\ [Next]_vars => Undamaged'
  BY UndamagedStep
<1> QED
  BY TypeCorrect, DurabilityInvariant, UndamagedInit, <1>1, PTL DEF Spec

\* The engine implements a durable key-value store wherever no byte is lost: flushes,
\* truncations, compactions, failed builds, crashes and restarts are invisible, and each put()
\* or remove() takes effect at most once, at its append.
THEOREM EngineImplementsKVStore ==
    ASSUME NothingLost
    PROVE  Spec => RefinesKVStore
<1>1. Init => KV!Init
  <2> SUFFICES ASSUME Init PROVE KV!Init
    OBVIOUS
  <2>1. TypeOK /\ DurabilityInv /\ ServingInv /\ Undamaged /\ pc = "idle" /\ committed = EmptyTable
    BY TypeInit, DurabilityInit, ServingInit, UndamagedInit DEF Init
  <2> QED
    BY <2>1, ContentsCommitted DEF KV!Init, OpenCall, EmptyTable
<1>2. Spec => []Undamaged
  BY NothingLeaks
<1>3. TypeOK /\ DurabilityInv /\ ServingInv /\ Undamaged => Observed
  BY ContentsCommitted DEF Observed
<1>4. /\ TypeOK /\ TypeOK' /\ DurabilityInv /\ Undamaged /\ Undamaged'
      /\ Observed /\ Observed' /\ [Next]_vars
      => [KV!Next]_<<Contents, OpenCall>>
  BY EngineStepSimulates
<1> QED
  BY TypeCorrect, DurabilityInvariant, ServingInvariant, <1>1, <1>2, <1>3, <1>4, PTL
     DEF Spec, RefinesKVStore, KV!Spec
=============================================================================
