--------------------------- MODULE ConcurrentReads ---------------------------
(***************************************************************************)
(* Readers beside the writer.  StorageEngine::get and scan take no lock of *)
(* their own: each MemTable call holds its shared_mutex, the vector        *)
(* sstables_ and the FILE* of a reader are used bare, while the thread     *)
(* that holds write_mutex_ applies its entry, inserts the flushed table,   *)
(* clears the MemTable, and replaces the tables by their merge.            *)
(*                                                                         *)
(* A table is its contents; files and the log play no part here.  A value  *)
(* is told apart by its size, the empty one included, and current_size_    *)
(* has the width of the modulus SIZE_RANGE.  A read that walks sstables_   *)
(* while the vector changes, or is inside a table together with another    *)
(* read or with compact(), has undefined results: it is marked broken and  *)
(* the properties say nothing of its answer.  Until it ends it may be      *)
(* inside any table.  compact() reads each table through the same FILE*: a *)
(* table it shared yields any entries at all, and what it then writes is   *)
(* lost, for good, until the key is written again.                         *)
(***************************************************************************)
EXTENDS Integers, Sequences, FiniteSets, FiniteSetsExt

CONSTANTS
    Key, Value, Tombstone, Absent,
    Reader,                \* threads that call get() and scan()
    KEY_SIZE,              \* size of a key
    SIZE_RANGE,            \* values of a size_t
    FlushThreshold,        \* flush_threshold_
    COMPACTION_THRESHOLD,  \* storage_engine.h:14
    MaxWrites              \* bound: put() and remove() calls in a behaviour

Entry == Value \cup {Tombstone}
Table == [Key -> Entry \cup {Absent}]
EmptyTable == [k \in Key |-> Absent]

ASSUME ReadConstants ==
    /\ Tombstone \notin Value /\ Absent \notin Entry
    /\ Value \subseteq Nat /\ KEY_SIZE \in Nat /\ SIZE_RANGE \in Nat \ {0}
    /\ FlushThreshold \in Nat \ {0} /\ COMPACTION_THRESHOLD \in Nat \ {0}
    /\ MaxWrites \in Nat

VARIABLES
    memtable,   \* memtable_
    current_size,  \* its current_size_
    sstables,   \* sstables_: contents of the open tables, newest first
    wpc,        \* the writer: "idle", "install", "clear", "compact", "merge", "push"
    put,        \* the write in flight is a put(): only that compacts
    mcursor,    \* index of the table that compact() reads next or is in
    merged,     \* what compact() has merged so far
    raced,      \* compact() shares the FILE* of the table it is in
    astray,     \* keys whose merged entry comes from such a table, if at all
    lost,       \* keys whose entry in the tables may be anything after such a merge
    writes,     \* writes so far (bounded by MaxWrites)
    rpc,        \* where a reader is: "idle", "mem", "walk", "inside", "done"
    call,       \* its call: [kind |-> "get" or "scan", keys |-> the keys asked for]
    cursor,     \* index of the table it visits next or is in
    found,      \* what it has found so far
    broken,     \* it was in a data race
    overtaken,  \* the writer moved entries between the places it reads
    current,    \* history: what the last write to the key wrote
    allowed     \* history: what the keys held at some time during the call

merge   == <<mcursor, merged, raced, astray>>
writer  == <<memtable, current_size, sstables, wpc, put, mcursor, merged, astray, lost,
             writes, current>>
vars    == <<memtable, current_size, sstables, wpc, put, mcursor, merged, raced, astray, lost,
             writes, current, rpc, call, cursor, found, broken, overtaken, allowed>>

NoCall == [kind |-> "get", keys |-> {}]

\* Mutant: a tombstone is handed to the caller.
VisibleTombstone(e) == e

Visible(e) == IF e = Tombstone THEN Absent ELSE e

\* Entries of new over those of old.
Overlay(old, new) == [k \in Key |-> IF new[k] # Absent THEN new[k] ELSE old[k]]

Init ==
    /\ memtable = EmptyTable /\ current_size = 0 /\ sstables = <<>>
    /\ wpc = "idle" /\ put = FALSE /\ writes = 0
    /\ mcursor = 0 /\ merged = EmptyTable /\ raced = FALSE /\ astray = {} /\ lost = {}
    /\ rpc = [r \in Reader |-> "idle"]
    /\ call = [r \in Reader |-> NoCall]
    /\ cursor = [r \in Reader |-> 0]
    /\ found = [r \in Reader |-> EmptyTable]
    /\ broken = [r \in Reader |-> FALSE]
    /\ overtaken = [r \in Reader |-> FALSE]
    /\ current = EmptyTable
    /\ allowed = [r \in Reader |-> [k \in Key |-> {}]]

-----------------------------------------------------------------------------
(* The writer.                                                             *)

Active(r)  == rpc[r] \in {"mem", "walk", "inside"}
Walking(r) == rpc[r] \in {"walk", "inside"}

\* The vector changes under the readers that iterate over it.
VectorChanges == broken' = [r \in Reader |-> broken[r] \/ Walking(r)]

Overtake(kinds) ==
    overtaken' = [r \in Reader |-> overtaken[r] \/ (Active(r) /\ call[r].kind \in kinds)]

\* Bytes of a key with its entry.
EntrySize(e) == KEY_SIZE + (IF e = Tombstone THEN 0 ELSE e)

\* A size_t holds a MemTable below the threshold and the entry that fills it: lengths are 32 bits.
ASSUME SizesFit == \A e \in Entry : FlushThreshold + EntrySize(e) <= SIZE_RANGE

\* Mutant: remove() takes back the value of the old entry, put() only its key.
ResizedKeyOnly(old, e) ==
    (current_size + EntrySize(e) - (IF old = Absent THEN 0 ELSE IF e = Tombstone THEN EntrySize(old) ELSE KEY_SIZE)) % SIZE_RANGE

\* current_size_ after an entry takes the place of an old one.
Resized(old, e) == (current_size + EntrySize(e) - (IF old = Absent THEN 0 ELSE EntrySize(old))) % SIZE_RANGE

\* put() or remove(), from the append to the decision to flush.
Write(k, e) ==
    /\ wpc = "idle" /\ writes < MaxWrites
    /\ writes' = writes + 1
    /\ memtable' = [memtable EXCEPT ![k] = e]
    /\ current_size' = Resized(memtable[k], e)
    /\ current' = [current EXCEPT ![k] = Visible(e)]
    /\ allowed' = [r \in Reader |->
                      IF Active(r) THEN [allowed[r] EXCEPT ![k] = @ \cup {Visible(e)}]
                                   ELSE allowed[r]]
    /\ put' = (e # Tombstone)
    /\ lost' = lost \ {k}
    /\ wpc' = IF current_size' >= FlushThreshold THEN "install" ELSE "idle"
    /\ UNCHANGED <<sstables, merge, rpc, call, cursor, found, broken, overtaken>>

Install ==
    /\ wpc = "install"
    /\ sstables' = <<memtable>> \o sstables
    /\ VectorChanges
    /\ wpc' = "clear"
    /\ UNCHANGED <<memtable, current_size, put, merge, lost, writes, current, rpc, call, cursor, found, overtaken, allowed>>

ClearMemTable ==
    /\ wpc = "clear"
    /\ memtable' = EmptyTable /\ current_size' = 0
    /\ Overtake({"scan"})
    /\ IF put /\ Len(sstables) >= COMPACTION_THRESHOLD
       THEN wpc' = "compact" /\ mcursor' = Len(sstables)
       ELSE wpc' = "idle" /\ UNCHANGED mcursor
    /\ UNCHANGED <<sstables, put, merged, raced, astray, lost, writes, current, rpc, call, cursor, found, broken, allowed>>

\* The newest of the tables behind the first n that has an entry of k is table i.
IsNewest(s, n, i, k) ==
    /\ i \in DOMAIN s /\ i > n /\ s[i][k] # Absent
    /\ \A j \in DOMAIN s : n < j /\ j < i => s[j][k] = Absent

NewestEntry(s, n, k) ==
    IF \E i \in DOMAIN s : IsNewest(s, n, i, k)
    THEN s[CHOOSE i \in DOMAIN s : IsNewest(s, n, i, k)][k]
    ELSE Absent

\* What compact() makes of undisturbed tables: newer entries over older ones, no tombstones.
Merge(s) == [k \in Key |-> Visible(NewestEntry(s, 0, k))]

\* Reads inside table n, and reads in a data race, of which nobody knows where they are.
Inside(n) == {r \in Reader : rpc[r] = "inside" /\ cursor[r] = n /\ ~broken[r]}
Strays    == {r \in Reader : Walking(r) /\ broken[r]}

\* compact() starts to read a table, oldest first, through the FILE* of its reader.
EnterMerge ==
    /\ wpc = "compact" /\ mcursor > 0
    /\ \E met \in {FALSE, Strays # {}} : raced' = (met \/ Inside(mcursor) # {})
    /\ broken' = [r \in Reader |-> broken[r] \/ r \in Inside(mcursor)]
    /\ wpc' = "merge"
    /\ UNCHANGED <<memtable, current_size, sstables, put, mcursor, merged, astray, lost, writes,
                   current, rpc, call, cursor, found, overtaken, allowed>>

\* What read_all_entries() can return of a table.
Readable(t) == IF raced THEN Table ELSE {t}

\* Mutant: older entries overwrite newer ones.
MergeTableOld ==
    /\ wpc = "merge"
    /\ \E t \in Readable(sstables[mcursor]) :
          /\ merged' = Overlay(t, merged)
          /\ astray' = IF raced THEN Key ELSE astray \ {k \in Key : t[k] # Absent}
    /\ mcursor' = mcursor - 1 /\ raced' = FALSE /\ wpc' = "compact"
    /\ UNCHANGED <<memtable, current_size, sstables, put, lost, writes, current,
                   rpc, call, cursor, found, broken, overtaken, allowed>>

\* Its entries go over those of older tables.
MergeTable ==
    /\ wpc = "merge"
    /\ \E t \in Readable(sstables[mcursor]) :
          /\ merged' = Overlay(merged, t)
          /\ astray' = IF raced THEN Key ELSE astray \ {k \in Key : t[k] # Absent}
    /\ mcursor' = mcursor - 1 /\ raced' = FALSE /\ wpc' = "compact"
    /\ UNCHANGED <<memtable, current_size, sstables, put, lost, writes, current,
                   rpc, call, cursor, found, broken, overtaken, allowed>>

\* A length read from the wrong place can ask for more memory than there is: put() throws.
MergeThrows ==
    /\ wpc = "merge" /\ raced
    /\ wpc' = "idle"
    /\ mcursor' = 0 /\ merged' = EmptyTable /\ raced' = FALSE /\ astray' = {}
    /\ UNCHANGED <<memtable, current_size, sstables, put, lost, writes, current,
                   rpc, call, cursor, found, broken, overtaken, allowed>>

\* Tombstones are dropped, and sstables_.clear(): the merged file is yet to be opened.
CompactClear ==
    /\ wpc = "compact" /\ mcursor = 0
    /\ merged' = [k \in Key |-> Visible(merged[k])]
    /\ lost' = lost \cup astray /\ astray' = {}
    /\ sstables' = <<>>
    /\ VectorChanges
    /\ Overtake({"get", "scan"})
    /\ wpc' = "push"
    /\ UNCHANGED <<memtable, current_size, put, mcursor, raced, writes, current, rpc, call, cursor, found, allowed>>

CompactPush ==
    /\ wpc = "push"
    /\ sstables' = <<merged>>
    /\ merged' = EmptyTable
    /\ VectorChanges
    /\ Overtake({"get", "scan"})
    /\ wpc' = "idle"
    /\ UNCHANGED <<memtable, current_size, put, mcursor, raced, astray, lost, writes, current, rpc, call, cursor, found, allowed>>

-----------------------------------------------------------------------------
(* The readers.                                                            *)

Start(r, kind, keys) ==
    /\ rpc[r] = "idle"
    /\ call' = [call EXCEPT ![r] = [kind |-> kind, keys |-> keys]]
    /\ found' = [found EXCEPT ![r] = EmptyTable]
    /\ broken' = [broken EXCEPT ![r] = FALSE]
    /\ overtaken' = [overtaken EXCEPT ![r] = (wpc = "push")]
    /\ allowed' = [allowed EXCEPT ![r] = [k \in Key |-> IF k \in lost THEN Value \cup {Absent}
                                                                   ELSE {current[k]}]]
    /\ UNCHANGED <<writer, raced>>

\* get() asks the MemTable first.
Get(r, k) ==
    /\ Start(r, "get", {k})
    /\ rpc' = [rpc EXCEPT ![r] = "mem"]
    /\ UNCHANGED cursor

\* scan() starts with the oldest table.
Scan(r) ==
    /\ Start(r, "scan", Key)
    /\ rpc' = [rpc EXCEPT ![r] = "walk"]
    /\ cursor' = [cursor EXCEPT ![r] = Len(sstables)]

\* Mutant: a tombstone in the MemTable does not stop the search.
HitTombstoneMisses(r, t) == \E k \in call[r].keys : t[k] \in Value

\* get() stops at the first entry it finds, a tombstone included.
Hit(r, t) == \E k \in call[r].keys : t[k] # Absent

\* MemTable::get, or MemTable::scan over the tables' entries.
ReadMemTable(r) ==
    /\ rpc[r] = "mem"
    /\ found' = [found EXCEPT ![r] = Overlay(@, memtable)]
    /\ IF call[r].kind = "scan" \/ Hit(r, memtable)
       THEN rpc' = [rpc EXCEPT ![r] = "done"] /\ UNCHANGED cursor
       ELSE rpc' = [rpc EXCEPT ![r] = "walk"] /\ cursor' = [cursor EXCEPT ![r] = 1]
    /\ UNCHANGED <<writer, raced, call, broken, overtaken, allowed>>

\* The read reaches a table; its FILE* is shared with every read inside it and with compact().
EnterTable(r) ==
    /\ rpc[r] = "walk" /\ ~broken[r]
    /\ cursor[r] \in DOMAIN sstables
    /\ rpc' = [rpc EXCEPT ![r] = "inside"]
    /\ LET merging == wpc = "merge" /\ mcursor = cursor[r]
           crowd == Inside(cursor[r])
       IN  /\ \E met \in {FALSE, Strays # {}} :
                broken' = [q \in Reader |-> \/ broken[q] \/ q \in crowd
                                            \/ q = r /\ (met \/ merging \/ crowd # {})]
           /\ raced' = (raced \/ merging)
    /\ UNCHANGED <<writer, call, cursor, found, overtaken, allowed>>

\* Mutant: scan() lets older tables overwrite newer ones.
TakeEntriesOld(r, t) == IF call[r].kind = "get" THEN t ELSE Overlay(t, found[r])

\* What the read knows after table t.
TakeEntries(r, t) == IF call[r].kind = "get" THEN t ELSE Overlay(found[r], t)

LeaveTable(r) ==
    /\ rpc[r] = "inside" /\ ~broken[r]
    /\ LET t == sstables[cursor[r]] IN
         /\ found' = [found EXCEPT ![r] = TakeEntries(r, t)]
         /\ rpc' = [rpc EXCEPT ![r] =
                       IF call[r].kind = "get" /\ Hit(r, t) THEN "done" ELSE "walk"]
    /\ cursor' = [cursor EXCEPT ![r] = IF call[r].kind = "get" THEN @ + 1 ELSE @ - 1]
    /\ UNCHANGED <<writer, raced, call, broken, overtaken, allowed>>

\* No table is left: get() answers NOT_FOUND, scan() goes on to the MemTable.
WalkEnds(r) ==
    /\ rpc[r] = "walk" /\ ~broken[r]
    /\ cursor[r] \notin DOMAIN sstables
    /\ rpc' = [rpc EXCEPT ![r] = IF call[r].kind = "get" THEN "done" ELSE "mem"]
    /\ UNCHANGED <<writer, raced, call, cursor, found, broken, overtaken, allowed>>

\* A read in a data race moves the position of a FILE* under another one or under compact().
StrayMeets(r) ==
    /\ r \in Strays
    /\ \/ /\ wpc = "merge" /\ raced' = TRUE
          /\ UNCHANGED broken
       \/ /\ \E q \in Reader : /\ rpc[q] = "inside" /\ ~broken[q]
                               /\ broken' = [broken EXCEPT ![q] = TRUE]
          /\ UNCHANGED raced
    /\ UNCHANGED <<writer, rpc, call, cursor, found, overtaken, allowed>>

\* A read in a data race ends with any answer.
BrokenEnds(r) ==
    /\ Walking(r) /\ broken[r]
    /\ rpc' = [rpc EXCEPT ![r] = "done"]
    /\ UNCHANGED <<writer, raced, call, cursor, found, broken, overtaken, allowed>>

Return(r) ==
    /\ rpc[r] = "done"
    /\ rpc' = [rpc EXCEPT ![r] = "idle"]
    /\ call' = [call EXCEPT ![r] = NoCall]
    /\ cursor' = [cursor EXCEPT ![r] = 0]
    /\ found' = [found EXCEPT ![r] = EmptyTable]
    /\ broken' = [broken EXCEPT ![r] = FALSE]
    /\ overtaken' = [overtaken EXCEPT ![r] = FALSE]
    /\ allowed' = [allowed EXCEPT ![r] = [k \in Key |-> {}]]
    /\ UNCHANGED <<writer, raced>>

WriterStep ==
    \/ Install \/ ClearMemTable
    \/ EnterMerge \/ MergeTable \/ MergeThrows \/ CompactClear \/ CompactPush

ReaderStep(r) ==
    \/ ReadMemTable(r)
    \/ EnterTable(r)
    \/ LeaveTable(r)
    \/ WalkEnds(r)
    \/ StrayMeets(r)
    \/ BrokenEnds(r)
    \/ Return(r)

Next ==
    \/ \E k \in Key, e \in Entry : Write(k, e)
    \/ WriterStep
    \/ \E r \in Reader : \/ \E k \in Key : Get(r, k)
                         \/ Scan(r)
                         \/ ReaderStep(r)

Spec == Init /\ [][Next]_vars

-----------------------------------------------------------------------------
(* Properties.                                                             *)

TypeOK ==
    /\ memtable \in Table /\ merged \in Table /\ current \in [Key -> Value \cup {Absent}]
    /\ current_size \in 0..(SIZE_RANGE - 1)
    /\ sstables \in Seq(Table)
    /\ wpc \in {"idle", "install", "clear", "compact", "merge", "push"}
    /\ mcursor \in Nat /\ raced \in BOOLEAN /\ astray \subseteq Key /\ lost \subseteq Key
    /\ put \in BOOLEAN /\ writes \in 0..MaxWrites
    /\ rpc \in [Reader -> {"idle", "mem", "walk", "inside", "done"}]
    /\ call \in [Reader -> [kind : {"get", "scan"}, keys : SUBSET Key]]
    /\ cursor \in [Reader -> Nat]
    /\ found \in [Reader -> Table]
    /\ broken \in [Reader -> BOOLEAN] /\ overtaken \in [Reader -> BOOLEAN]
    /\ allowed \in [Reader -> [Key -> SUBSET (Value \cup {Absent})]]

\* What the call returned for each of its keys was current at some time during the call.
Regular(r) == \A k \in call[r].keys : Visible(found[r][k]) \in allowed[r][k]

Finished(r, kind) == rpc[r] = "done" /\ call[r].kind = kind /\ ~broken[r]

\* get() is atomic beside writes and flushes: it looks where entries come from before it
\* looks where they go.  Only the swap of a compaction may hide an entry from it.
GetsAtomic == \A r \in Reader : Finished(r, "get") /\ ~overtaken[r] => Regular(r)

\* So is every key of a scan() during which no flush or compaction moves entries.
ScansRegular == \A r \in Reader : Finished(r, "scan") /\ ~overtaken[r] => Regular(r)

\* What the readers share is what the last writes wrote, at every step of flush and
\* compaction, except while the vector is empty and for the keys of a merge that shared a
\* FILE*: those stay lost until they are written again, the others are merged exactly.
NothingHidden ==
    wpc # "push" =>
        \A k \in Key \ lost : current[k] = Visible(Overlay(Merge(sstables), memtable)[k])

\* The keys with an entry, and the bytes they and their entries take.
Used(t) == {k \in Key : t[k] # Absent}
TableSize(t) == MapThenSumSet(LAMBDA k : EntrySize(t[k]), Used(t))

\* current_size_, kept by additions and subtractions that may wrap, is the size of what is in
\* the MemTable after any order of put(), overwriting, remove() and flush, so that flushes come
\* when they are due: below the threshold between two writes.
SizeExact ==
    /\ current_size = TableSize(memtable)
    /\ wpc = "idle" => current_size < FlushThreshold

-----------------------------------------------------------------------------
(* The inductive invariant behind GetsAtomic, ScansRegular and NothingHidden.              *)

\* The last write to a key is in the MemTable, or in the newest table with the key, or in the
\* merged table that is about to be opened.
SharedInv ==
    /\ \A k \in Key \ lost :
          current[k] = IF memtable[k] # Absent THEN Visible(memtable[k])
                       ELSE IF wpc = "push" THEN merged[k]
                       ELSE Visible(NewestEntry(sstables, 0, k))
    /\ wpc = "clear" => sstables # <<>> /\ sstables[1] = memtable

\* compact() has the newest entries of the tables behind its cursor, but for the keys astray.
MergeInv ==
    /\ wpc \in {"idle", "install", "clear"} => astray = {} /\ merged = EmptyTable
    /\ wpc = "push" => astray = {}
    /\ wpc = "merge" => mcursor \in DOMAIN sstables
    /\ wpc \in {"compact", "merge"} =>
          /\ mcursor <= Len(sstables)
          /\ \A k \in Key \ astray : merged[k] = NewestEntry(sstables, mcursor, k)

\* An undisturbed walk stays in the vector: upwards for get(), downwards for scan().
CursorInv(r) ==
    Walking(r) /\ ~broken[r] =>
        /\ rpc[r] = "inside" => cursor[r] \in DOMAIN sstables
        /\ IF call[r].kind = "get" THEN cursor[r] > 0 ELSE cursor[r] <= Len(sstables)

\* What is current is allowed, and a read that can meet the empty vector is overtaken.
CallInv(r) ==
    /\ rpc[r] # "idle" /\ call[r].kind = "get" => \E k \in Key : call[r].keys = {k}
    /\ Active(r) => /\ \A k \in Key : current[k] \in allowed[r][k]
                    /\ overtaken[r] \/ \A k \in lost : allowed[r][k] = Value \cup {Absent}
                    /\ wpc = "push" => overtaken[r]

\* get() has passed only tables without its key, and the tables hold an allowed answer.
GetInv(r) ==
    call[r].kind = "get" /\ ~broken[r] /\ ~overtaken[r] =>
        /\ rpc[r] = "mem" => found[r] = EmptyTable
        /\ Walking(r) =>
              \A k \in call[r].keys :
                  /\ Visible(NewestEntry(sstables, 0, k)) \in allowed[r][k]
                  /\ found[r][k] = Absent
                  /\ \A j \in DOMAIN sstables : j < cursor[r] => sstables[j][k] = Absent

\* scan() has the newest entries of the tables behind the cursor; when it comes to the MemTable
\* it lacks only what is there.
ScanInv(r) ==
    call[r].kind = "scan" /\ ~broken[r] =>
        /\ Walking(r) => \A k \in Key : found[r][k] = NewestEntry(sstables, cursor[r], k)
        /\ rpc[r] = "mem" /\ ~overtaken[r] =>
              \A k \in Key : memtable[k] = Absent => Visible(found[r][k]) \in allowed[r][k]

ReaderInv == \A r \in Reader : CursorInv(r) /\ CallInv(r) /\ GetInv(r) /\ ScanInv(r)

\* The inductive invariant of get() and scan() beside the writer: every last write is where a
\* walk meets it first, a get() that is neither overtaken nor broken still has an allowed
\* answer ahead of it, and a scan() has the newest entries of the tables it has passed.
ConcurrencyInv == SharedInv /\ MergeInv /\ ReaderInv /\ GetsAtomic /\ ScansRegular

-----------------------------------------------------------------------------
(* What the documentation promises and the code does not keep.             *)

\* OVERVIEW.md, storage engine: SCAN merges the results of all SSTables and the MemTable.
ScansComplete == \A r \in Reader : Finished(r, "scan") => Regular(r)
=============================================================================
