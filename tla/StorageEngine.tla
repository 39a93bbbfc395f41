---------------------------- MODULE StorageEngine ----------------------------
(***************************************************************************)
(* The write path and the recovery path of MosaicDB's StorageEngine        *)
(* (src/src/engine/storage_engine.cpp) with the pieces it drives: the      *)
(* write-ahead log (storage/wal.cpp), the MemTable, the SSTable files and  *)
(* the compaction.                                                         *)
(*                                                                         *)
(* put() and remove() hold write_mutex_ from the WAL append to their       *)
(* return, so at most one operation is in flight; it is executed in the    *)
(* steps between which the process can die: append, apply to the MemTable, *)
(* build a file, install it, truncate the WAL, and for a put() that        *)
(* flushed, build the merged file, swap it in, unlink the inputs one by    *)
(* one.  Concurrent readers are not part of this module.                   *)
(*                                                                         *)
(* Data is abstracted to tables: a table gives every key a value, a        *)
(* Tombstone, or Absent.  A file cut short by a crash or a full disk is    *)
(* Torn, and so is a WAL record whose CRC cannot match.                    *)
(***************************************************************************)
EXTENDS Naturals, Sequences, FiniteSets, Functions

CONSTANTS
    Key,                   \* non-empty keys (an empty key is refused before the lock)
    Value,
    Tombstone,             \* std::nullopt: the entry a remove() leaves
    Absent,                \* the table has no entry for the key; get() answers NOT_FOUND
    Torn,                  \* bytes that fail WAL::recover's CRC or SSTableReader::validate
    Placeholder,           \* the one-entry file {"__empty__" -> ""} of an empty merge
    NoOp,                  \* no put() or remove() in flight
    FlushThreshold,        \* flush_threshold_, in units of one key or one value
    COMPACTION_THRESHOLD,  \* storage_engine.h:14
    Faults,                \* the I/O failures the environment may cause
    CrashPoints,           \* the values of pc at which the process may die
    MaxFaults,             \* bound: failures and crashes in a behaviour
    MaxWal,                \* bound: records in the log when an operation starts
    MaxSeq                 \* bound: next_seq_ when an operation starts

FaultKinds == {"torn", "append_error", "build_error", "disk_full", "open_error",
               "clear_error", "unlink_error", "validate_error"}

PC == {"idle", "append", "apply", "flush", "install", "truncate",
       "compact", "swap", "cleanup", "down"}

Entry  == Value \cup {Tombstone}
Record == [key : Key, val : Entry]
Table  == [Key -> Entry \cup {Absent}]
EmptyTable == [k \in Key |-> Absent]

ASSUME EngineConstants ==
    /\ Tombstone \notin Value
    /\ Absent \notin Entry
    /\ Torn \notin Record /\ Torn \notin Table
    /\ Placeholder \notin Table /\ Placeholder # Torn
    /\ NoOp \notin Record
    /\ FlushThreshold \in Nat
    /\ COMPACTION_THRESHOLD \in Nat \ {0}
    /\ Faults \subseteq FaultKinds
    /\ CrashPoints \subseteq PC \ {"down"}
    /\ MaxFaults \in Nat /\ MaxWal \in Nat /\ MaxSeq \in Nat

VARIABLES
    wal,        \* wal.log: records in file order, Torn where bytes are damaged
    files,      \* the sst_NNNNNN.db files on disk: sequence number -> contents
    memtable,   \* memtable_
    sstables,   \* sstables_: sequence numbers of the open readers, newest first
    next_seq,   \* next_seq_
    old_paths,  \* inputs of the last compaction that are still to be unlinked
    pc,         \* where the thread that holds write_mutex_ is
    op,         \* the operation it executes
    faults,     \* failures so far (bounded by MaxFaults)
    committed,  \* history: what the last append() that returned OK wrote to the key
    maybe       \* history: what later appends wrote that failed or died

disk     == <<wal, files>>
memory   == <<memtable, sstables, next_seq, old_paths>>
history  == <<committed, maybe>>
vars     == <<wal, files, memtable, sstables, next_seq, old_paths, pc, op, faults,
              committed, maybe>>

-----------------------------------------------------------------------------
(* What the files, the log and the readers say about a key.                *)

\* Mutant: get() hands a tombstone to the caller.
VisibleTombstone(e) == e

\* A tombstone and a missing entry are both NOT_FOUND to the caller.
Visible(e) == IF e = Tombstone THEN Absent ELSE e

Holders(f, k) == {n \in DOMAIN f : f[n] \in Table /\ f[n][k] # Absent}

IsNewest(f, k, m) == m \in Holders(f, k) /\ \A n \in Holders(f, k) : n <= m

\* The entry of the highest-numbered file that has one for k.
FileEntry(f, k) ==
    IF \E m \in DOMAIN f : IsNewest(f, k, m)
    THEN f[CHOOSE m \in DOMAIN f : IsNewest(f, k, m)][k]
    ELSE Absent

\* recover() reads the log w up to the first record that is damaged.
Readable(w, i) == i \in DOMAIN w /\ \A j \in 1..i : w[j] # Torn

IsLastFor(w, i, k) ==
    /\ Readable(w, i) /\ w[i].key = k
    /\ \A j \in DOMAIN w : Readable(w, j) /\ w[j].key = k => j <= i

\* The memtable entry of k after replaying those records.
Replay(w, k) ==
    IF \E i \in DOMAIN w : IsLastFor(w, i, k)
    THEN w[CHOOSE i \in DOMAIN w : IsLastFor(w, i, k)].val
    ELSE Absent

\* Mutant: the last hit in the order of sstables_ wins.
IsFirstHitOldest(s, f, i, k) ==
    /\ i \in DOMAIN s /\ s[i] \in Holders(f, k)
    /\ \A j \in (i + 1)..Len(s) : s[j] \notin Holders(f, k)

\* get() asks the readers in the order of sstables_ and stops at the first hit.
IsFirstHit(s, f, i, k) ==
    /\ i \in DOMAIN s /\ s[i] \in Holders(f, k)
    /\ \A j \in 1..(i - 1) : s[j] \notin Holders(f, k)

TableEntry(s, f, k) ==
    IF \E i \in DOMAIN s : IsFirstHit(s, f, i, k)
    THEN f[s[CHOOSE i \in DOMAIN s : IsFirstHit(s, f, i, k)]][k]
    ELSE Absent

\* What get(k) answers while no write is in progress.
Get(k) == Visible(IF memtable[k] # Absent THEN memtable[k] ELSE TableEntry(sstables, files, k))

\* What get(k) would answer after a restart from the present disk.
Recovered(k) ==
    Visible(IF Replay(wal, k) # Absent THEN Replay(wal, k) ELSE FileEntry(files, k))

-----------------------------------------------------------------------------
(* MemTable and compaction.                                                *)

\* current_size_: every entry counts its key, a live one also its value.
SizeBytes(m) == Cardinality({k \in Key : m[k] # Absent})
                + Cardinality({k \in Key : m[k] \in Value})

ShouldFlush(m) == SizeBytes(m) >= FlushThreshold

\* Newest entry of each key over all inputs, tombstones dropped.
Merged(s, f) == [k \in Key |-> Visible(TableEntry(s, f, k))]

CompactionOutput(s, f) == IF Merged(s, f) = EmptyTable THEN Placeholder ELSE Merged(s, f)

WriteFile(n, t) == [m \in DOMAIN files \cup {n} |-> IF m = n THEN t ELSE files[m]]

Unlink(n) == [m \in DOMAIN files \ {n} |-> files[m]]

-----------------------------------------------------------------------------
Init ==
    /\ wal = <<>>
    /\ files = [n \in {} |-> Torn]
    /\ memtable = EmptyTable
    /\ sstables = <<>>
    /\ next_seq = 0
    /\ old_paths = <<>>
    /\ pc = "idle"
    /\ op = NoOp
    /\ faults = 0
    /\ committed = EmptyTable
    /\ maybe = [k \in Key |-> {}]

\* The environment makes the call the engine is in fail.
Fault(kind) == /\ kind \in Faults
               /\ faults < MaxFaults
               /\ faults' = faults + 1

\* put() and remove() return OK whatever happened after the append.
Return == pc' = "idle" /\ op' = NoOp

Begin(k, e) ==
    /\ pc = "idle"
    /\ Len(wal) < MaxWal
    /\ next_seq < MaxSeq
    /\ op' = [key |-> k, val |-> e]
    /\ pc' = "append"
    /\ UNCHANGED <<disk, memory, faults, history>>

Put(k, v) == v \in Value /\ Begin(k, v)

Remove(k) == Begin(k, Tombstone)

\* The record is written and fsynced: from here on the operation cannot fail.
AppendRecord ==
    /\ pc = "append"
    /\ wal' = Append(wal, op)
    /\ committed' = [committed EXCEPT ![op.key] = Visible(op.val)]
    /\ maybe' = [maybe EXCEPT ![op.key] = {}]
    /\ pc' = "apply"
    /\ UNCHANGED <<files, memory, op, faults>>

\* What an append that does not return OK may leave behind: nothing, a damaged
\* record, or the whole record.
Interrupted(partial) ==
    /\ wal' \in {wal, Append(wal, op)} \cup IF partial THEN {Append(wal, Torn)} ELSE {}
    /\ maybe' = IF wal' = Append(wal, op)
                THEN [maybe EXCEPT ![op.key] = @ \cup {Visible(op.val)}]
                ELSE maybe

\* A write or the fsync fails; append() returns IO_ERROR and truncates nothing.
AppendFails ==
    /\ pc = "append"
    /\ Fault("append_error")
    /\ Interrupted(TRUE)
    /\ Return
    /\ UNCHANGED <<files, memory, committed>>

ApplyToMemTable ==
    /\ pc = "apply"
    /\ memtable' = [memtable EXCEPT ![op.key] = op.val]
    /\ IF ShouldFlush(memtable') THEN pc' = "flush" /\ op' = op ELSE Return
    /\ UNCHANGED <<disk, sstables, next_seq, old_paths, faults, history>>

\* Mutant: the flush leaves the tombstones out.
FlushBuildNoTombstones ==
    /\ pc = "flush"
    /\ files' = WriteFile(next_seq, [k \in Key |-> Visible(memtable[k])])
    /\ pc' = "install"
    /\ UNCHANGED <<wal, memory, op, faults, history>>

\* SSTableWriter::build ignores the results of fwrite, fflush and fclose: on a full
\* disk it still returns OK.
FlushBuild ==
    /\ pc = "flush"
    /\ \/ files' = WriteFile(next_seq, memtable) /\ UNCHANGED faults
       \/ Fault("disk_full") /\ files' = WriteFile(next_seq, Torn)
    /\ pc' = "install"
    /\ UNCHANGED <<wal, memory, op, history>>

\* fopen fails; the operation still returns OK, with its entry in log and memtable.
FlushBuildFails ==
    /\ pc = "flush"
    /\ Fault("build_error")
    /\ Return
    /\ UNCHANGED <<disk, memory, history>>

\* Mutant: the new reader goes to the back of sstables_.
FlushInstallBack ==
    /\ pc = "install"
    /\ files[next_seq] # Torn
    /\ sstables' = Append(sstables, next_seq)
    /\ next_seq' = next_seq + 1
    /\ memtable' = EmptyTable
    /\ pc' = "truncate"
    /\ UNCHANGED <<disk, old_paths, op, faults, history>>

\* Mutant: next_seq_ is not incremented.
FlushInstallSameSeq ==
    /\ pc = "install"
    /\ files[next_seq] # Torn
    /\ sstables' = <<next_seq>> \o sstables
    /\ memtable' = EmptyTable
    /\ pc' = "truncate"
    /\ UNCHANGED <<disk, next_seq, old_paths, op, faults, history>>

FlushInstall ==
    /\ pc = "install"
    /\ files[next_seq] # Torn
    /\ sstables' = <<next_seq>> \o sstables
    /\ next_seq' = next_seq + 1
    /\ memtable' = EmptyTable
    /\ pc' = "truncate"
    /\ UNCHANGED <<disk, old_paths, op, faults, history>>

\* Mutant: the early return is missing, so memtable and log are cleared all the same.
FlushOpenFailsClears ==
    /\ pc = "install"
    /\ files[next_seq] = Torn
    /\ memtable' = EmptyTable
    /\ wal' = <<>>
    /\ Return
    /\ UNCHANGED <<files, sstables, next_seq, old_paths, faults, history>>

\* The new reader cannot be opened: the file stays on disk, nothing else changes.
FlushOpenFails ==
    /\ pc = "install"
    /\ \/ files[next_seq] = Torn /\ UNCHANGED faults
       \/ files[next_seq] # Torn /\ Fault("open_error")
    /\ Return
    /\ UNCHANGED <<disk, memory, history>>

\* Mutant: remove() compacts too.
CompactionDueAlways == Len(sstables) >= COMPACTION_THRESHOLD

\* Only put() goes on to compact, not remove() and not recover().
CompactionDue == /\ op # NoOp
                 /\ op.val # Tombstone
                 /\ Len(sstables) >= COMPACTION_THRESHOLD

\* WAL::clear, whose status flush_memtable ignores.
WalClear ==
    /\ pc = "truncate"
    /\ \/ wal' = <<>> /\ UNCHANGED faults
       \/ Fault("clear_error") /\ UNCHANGED wal
    /\ IF CompactionDue THEN pc' = "compact" /\ op' = op ELSE Return
    /\ UNCHANGED <<files, memory, history>>

CompactBuild ==
    /\ pc = "compact"
    /\ \/ files' = WriteFile(next_seq, CompactionOutput(sstables, files)) /\ UNCHANGED faults
       \/ Fault("disk_full") /\ files' = WriteFile(next_seq, Torn)
    /\ pc' = "swap"
    /\ UNCHANGED <<wal, memory, op, history>>

CompactBuildFails ==
    /\ pc = "compact"
    /\ Fault("build_error")
    /\ Return
    /\ UNCHANGED <<disk, memory, history>>

\* Mutant: the inputs are unlinked before the merged file is known to open.
CompactSwapKeepsOpen ==
    /\ pc = "swap"
    /\ old_paths' = sstables
    /\ sstables' = <<next_seq>>
    /\ next_seq' = next_seq + 1
    /\ pc' = "cleanup"
    /\ UNCHANGED <<disk, memtable, op, faults, history>>

CompactSwap ==
    /\ pc = "swap"
    /\ files[next_seq] # Torn
    /\ old_paths' = sstables
    /\ sstables' = <<next_seq>>
    /\ next_seq' = next_seq + 1
    /\ pc' = "cleanup"
    /\ UNCHANGED <<disk, memtable, op, faults, history>>

\* sstables_ has been cleared before the merged file turns out not to open.
CompactOpenFails ==
    /\ pc = "swap"
    /\ \/ files[next_seq] = Torn /\ UNCHANGED faults
       \/ files[next_seq] # Torn /\ Fault("open_error")
    /\ sstables' = <<>>
    /\ Return
    /\ UNCHANGED <<disk, memtable, next_seq, old_paths, history>>

\* The inputs are unlinked newest first; a failure is ignored.
CleanupUnlink ==
    /\ pc = "cleanup"
    /\ old_paths # <<>>
    /\ \/ files' = Unlink(Head(old_paths)) /\ UNCHANGED faults
       \/ Fault("unlink_error") /\ UNCHANGED files
    /\ old_paths' = Tail(old_paths)
    /\ UNCHANGED <<wal, memtable, sstables, next_seq, pc, op, history>>

CleanupDone ==
    /\ pc = "cleanup"
    /\ old_paths = <<>>
    /\ Return
    /\ UNCHANGED <<disk, memory, faults, history>>

\* The engine is destroyed in good order: nothing is flushed.
Close ==
    /\ pc = "idle"
    /\ pc' = "down"
    /\ UNCHANGED <<disk, memory, op, faults, history>>

\* The process dies.  Its memory is gone (Restart reads none of it); an append or a
\* file it was writing is left in any of the states it goes through.
Crash ==
    /\ pc \in CrashPoints
    /\ faults < MaxFaults
    /\ faults' = faults + 1
    /\ pc' = "down"
    /\ IF pc = "append" THEN Interrupted("torn" \in Faults) ELSE UNCHANGED <<wal, maybe>>
    /\ IF pc \in {"flush", "compact"}
       THEN files' \in {files, WriteFile(next_seq, Torn)}
       ELSE UNCHANGED files
    /\ op' = NoOp
    /\ UNCHANGED <<memory, committed>>

\* Mutant: load_sstables() sorts the other way.
Ascending(S) ==
    [i \in 1..Cardinality(S) |-> CHOOSE n \in S : Cardinality({m \in S : m <= n}) = i]

\* The place of n when S is listed from the highest number down.
Rank(S, n) == Cardinality({m \in S : m >= n})

\* The files of S from the highest sequence number down.
Descending(S) == [i \in 1..Cardinality(S) |-> CHOOSE n \in S : Rank(S, n) = i]

\* Mutant: the constructor does not replay the log.
LoadNoReplay(good) ==
    /\ pc = "down"
    /\ files' = Restrict(files, good)
    /\ sstables' = Descending(good)
    /\ next_seq' = IF sstables' = <<>> THEN 0 ELSE sstables'[1] + 1
    /\ memtable' = EmptyTable
    /\ pc' = "idle"
    /\ op' = NoOp
    /\ old_paths' = <<>>
    /\ UNCHANGED wal
    /\ committed' = [k \in Key |-> Recovered(k)']
    /\ maybe' = [k \in Key |-> {}]

\* The constructor: load_sstables() keeps the files of good and removes the others,
\* recover() replays the log and flushes at once if that fills the memtable.
Load(good) ==
    /\ pc = "down"
    /\ files' = Restrict(files, good)
    /\ sstables' = Descending(good)
    /\ next_seq' = IF sstables' = <<>> THEN 0 ELSE sstables'[1] + 1
    /\ memtable' = [k \in Key |-> Replay(wal, k)]
    /\ pc' = IF ShouldFlush(memtable') /\ memtable' # EmptyTable THEN "flush" ELSE "idle"
    /\ op' = NoOp
    /\ old_paths' = <<>>
    /\ UNCHANGED wal
    /\ committed' = [k \in Key |-> Recovered(k)']
    /\ maybe' = [k \in Key |-> {}]

ValidFiles == {n \in DOMAIN files : files[n] # Torn}

Restart == Load(ValidFiles) /\ UNCHANGED faults

\* validate() answers false for a good file it cannot open, and the file is removed.
RestartDropsGoodFile ==
    /\ Fault("validate_error")
    /\ \E n \in ValidFiles : Load(ValidFiles \ {n})

Step ==
    \/ AppendRecord
    \/ AppendFails
    \/ ApplyToMemTable
    \/ FlushBuild
    \/ FlushBuildFails
    \/ FlushInstall
    \/ FlushOpenFails
    \/ WalClear
    \/ CompactBuild
    \/ CompactBuildFails
    \/ CompactSwap
    \/ CompactOpenFails
    \/ CleanupUnlink
    \/ CleanupDone

Next ==
    \/ \E k \in Key, v \in Value : Put(k, v)
    \/ \E k \in Key : Remove(k)
    \/ Step
    \/ Close
    \/ Crash
    \/ Restart
    \/ RestartDropsGoodFile

Spec == Init /\ [][Next]_vars

-----------------------------------------------------------------------------
(* Properties.                                                             *)

TypeOK ==
    /\ wal \in Seq(Record \cup {Torn})
    /\ DOMAIN files \subseteq Nat /\ IsFiniteSet(DOMAIN files)
    /\ \A n \in DOMAIN files : files[n] \in Table \cup {Torn, Placeholder}
    /\ memtable \in Table
    /\ sstables \in Seq(Nat)
    /\ next_seq \in Nat
    /\ old_paths \in Seq(Nat)
    /\ pc \in PC
    /\ op \in Record \cup {NoOp}
    /\ op = NoOp => pc \notin {"append", "apply"}
    /\ faults \in Nat
    /\ committed \in [Key -> Value \cup {Absent}]
    /\ maybe \in [Key -> SUBSET (Value \cup {Absent})]

-----------------------------------------------------------------------------
\* A record of k that recover() never reaches, behind a damaged one.
Buried(w, k) == \E j \in DOMAIN w : w[j] # Torn /\ w[j].key = k /\ ~Readable(w, j)

\* Files that the running engine does not read and will not unlink.
Orphans == DOMAIN files \ (Range(sstables) \cup Range(old_paths))

\* A file outside sstables_ still holds a value of k.
LeftoverValue(k) ==
    \E n \in Holders(files, k) : n \notin Range(sstables) /\ files[n][k] \in Value

\* A restart may serve the last committed write or one that failed after it.
Promised(k) == {committed[k]} \cup maybe[k]

\* put(): once the append returned OK, every disk state until the key is written again
\* recovers the value, through flush, truncation, compaction, crash and failed I/O, unless
\* the record lies behind a damaged one.
PutsDurable ==
    \A k \in Key : committed[k] \in Value /\ ~Buried(wal, k) => Recovered(k) \in Promised(k)

\* remove(): likewise the key stays deleted; the only other exception is a file with an
\* older value that maybe_compact() left or has yet to unlink.
DeletesDurable ==
    \A k \in Key : committed[k] = Absent /\ ~Buried(wal, k) /\ ~LeftoverValue(k)
                       => Recovered(k) \in Promised(k)

\* get() after put() or remove() returned answers what was written, also while a flush or a
\* compaction runs, unless the newest file with the key is neither open nor about to be
\* unlinked: maybe_compact() dropped its reader, or a flush or merge wrote it and could not,
\* or did not yet, open it.
ReadYourWrites ==
    \A k \in Key :
        pc # "down" /\ ~(pc = "apply" /\ op.key = k)
            => \/ Get(k) = committed[k]
               \/ \E n \in Orphans : IsNewest(files, k, n)

\* sstables_ is newest first, holds only intact files below next_seq_, and no file
\* outside it is newer than one in it (but the one being written): so the first hit of
\* get() and the last one of compact() are the newest entry.
SSTablesOrdered ==
    /\ \A i, j \in DOMAIN sstables : i < j => sstables[i] > sstables[j]
    /\ \A i \in DOMAIN sstables :
          /\ sstables[i] \in DOMAIN files /\ files[sstables[i]] # Torn
          /\ sstables[i] < next_seq
          /\ \A n \in DOMAIN files :
                n < next_seq /\ n \notin Range(sstables) => n < sstables[i]
    /\ \A n \in DOMAIN files : n <= next_seq

\* compact()'s "__empty__" placeholder, a key no client wrote, never reaches the disk:
\* maybe_compact() runs only right after a put() whose value is in the newest input.
NoPlaceholder == \A n \in DOMAIN files : files[n] # Placeholder

\* No step rewrites or unlinks a file that an open reader uses before and after it.
OpenTablesImmutable ==
    [][\A n \in Range(sstables) \cap Range(sstables') :
          n \in DOMAIN files' /\ files'[n] = files[n]]_vars

Restarting == pc = "down" /\ pc' # "down"

\* The constructor serves what the calls before the crash were promised, with the
\* exceptions of PutsDurable and DeletesDurable.
RestartKeepsPromises ==
    [][Restarting /\ faults' = faults =>
          \A k \in Key :
              \/ Get(k)' \in Promised(k)
              \/ Buried(wal, k)
              \/ (committed[k] = Absent /\ LeftoverValue(k))]_vars

-----------------------------------------------------------------------------
(* The inductive invariant behind PutsDurable.  A committed value of k is found in one of *)
(* three places: the log; the memtable, and then also the log; or the newest file.        *)

\* Where the control is decides what the file being written and the memtable hold.
ControlInv ==
    /\ pc = "apply" => committed[op.key] = Visible(op.val)
    /\ pc = "install" => next_seq \in DOMAIN files /\ files[next_seq] \in {Torn, memtable}
    /\ pc = "swap" => /\ next_seq \in DOMAIN files
                      /\ files[next_seq] \in {Torn, CompactionOutput(sstables, files)}
    /\ pc = "truncate" => memtable = EmptyTable
    /\ pc \notin {"cleanup", "down"} => old_paths = <<>>
    /\ \A i \in DOMAIN old_paths : \A j \in DOMAIN sstables : old_paths[i] < sstables[j]

\* m is a file below next_seq_, not about to be unlinked, and the newest one with k.
IsHome(k, m) == /\ m \in Holders(files, k)
                /\ m < next_seq
                /\ m \notin Range(old_paths)
                /\ \A n \in Holders(files, k) : n < next_seq => n <= m

Logged(k)  == Buried(wal, k) \/ Replay(wal, k) # Absent

LogInv(k)  == Buried(wal, k) \/ Replay(wal, k) = Absent \/ Visible(Replay(wal, k)) \in Promised(k)

MemInv(k)  == memtable[k] # Absent => Logged(k) /\ Visible(memtable[k]) = committed[k]

FileInv(k) == memtable[k] = Absent /\ committed[k] \in Value =>
                /\ \E m \in DOMAIN files : IsHome(k, m) /\ files[m][k] = committed[k]
                /\ next_seq \in Holders(files, k) => files[next_seq][k] = committed[k]

\* The key whose record is in the log and whose entry is not yet in the memtable.
Unapplied == IF pc = "apply" THEN {op.key} ELSE {}

KeyInv(X) == \A k \in Key : /\ LogInv(k)
                            /\ IF k \in X THEN Logged(k) ELSE MemInv(k) /\ FileInv(k)

\* After a crash X stays the key that was unapplied when the process died.
DurabilityInv ==
    /\ ControlInv
    /\ SSTablesOrdered
    /\ \E X \in SUBSET Key : (pc # "down" => X = Unapplied) /\ KeyInv(X)

-----------------------------------------------------------------------------
(* What DeletesDurable, ReadYourWrites and NoPlaceholder need beside DurabilityInv.        *)

\* Without an entry of k in the memtable the open readers give the committed answer, or the
\* newest file with k is one whose reader maybe_compact() has dropped.
TableInv(k) == memtable[k] = Absent =>
                 \/ Visible(TableEntry(sstables, files, k)) = committed[k]
                 \/ \E n \in Orphans : IsHome(k, n)

\* After a crash a key that was unapplied when the process died is only known to be logged.
ReadInv == \A k \in Key : \/ TableInv(k)
                          \/ k \in Unapplied
                          \/ pc = "down" /\ Logged(k)

\* The entry that the operation in flight has applied is in the memtable until the flush, and
\* then in the newest table; the one that compacts is a put().
InFlightInv ==
    /\ pc \in {"flush", "install"} /\ op # NoOp => memtable[op.key] = op.val
    /\ pc \in {"truncate", "compact"} /\ op # NoOp => TableEntry(sstables, files, op.key) = op.val
    /\ pc = "compact" => op # NoOp /\ op.val # Tombstone

\* What is about to be unlinked is older than the file that is written next.
InputsOlder == \A i \in DOMAIN old_paths : old_paths[i] < next_seq

\* The inductive invariant of the serving side: MemTable and open tables answer what was
\* acknowledged, a write in flight is where the next step of put() or remove() expects it,
\* and neither a placeholder nor an input of a compaction can be taken for newer data.
ServingInv == ReadInv /\ InFlightInv /\ NoPlaceholder /\ InputsOlder

-----------------------------------------------------------------------------
(* What the documentation and the tests promise and the code does not keep. *)

\* tests/test_engine.cpp: a key deleted before the restart is NOT_FOUND after it.
DeletedKeysStayDeleted ==
    [][Restarting => \A k \in Key : committed[k] = Absent => Get(k)' \in Promised(k)]_vars

\* OVERVIEW.md, WAL: a put() that returned OK is found after any restart.
AcknowledgedPutsSurvive ==
    [][Restarting => \A k \in Key : committed[k] \in Value => Get(k)' \in Promised(k)]_vars

\* OVERVIEW.md, design decisions: fsync per write makes every acknowledged write durable,
\* so also against a power loss that takes files which were never fsynced.
PowerLossSafe ==
    pc = "idle" =>
        \A lost \in SUBSET DOMAIN files, k \in Key :
            Visible(IF Replay(wal, k) # Absent THEN Replay(wal, k)
                    ELSE FileEntry(Restrict(files, DOMAIN files \ lost), k)) \in Promised(k)
=============================================================================
