------------------------------- MODULE SSTable -------------------------------
(***************************************************************************)
(* One SSTable file: SSTableWriter::build writes a sorted list of entries  *)
(* with a sparse index and a Bloom filter, and SSTableReader answers       *)
(* get(), scan() and read_all_entries() from them                          *)
(* (src/src/storage/sstable.cpp, src/src/index/bloom_filter.cpp).          *)
(*                                                                         *)
(* Keys are integers (only their order matters), a byte offset is the      *)
(* number of the entry that starts there, and bloom_offset_ is the one     *)
(* after the last.  A request is the pair of bounds <<low, high>>; get(k)  *)
(* is <<k, k>>.  out collects the entries found: for get() at most one.    *)
(***************************************************************************)
EXTENDS Integers, Sequences, FiniteSets, Functions

CONSTANTS
    Key,              \* keys a client may ask for
    Val,              \* stored entries: values and the tombstone
    Tables,           \* the entry lists given to build()
    Interval,         \* SPARSE_INDEX_INTERVAL
    NumHashes,        \* num_hashes_
    BitsPerKey,       \* bits_per_key of create_for_entries
    MinBits,          \* its lower bound on num_bits
    Word,             \* uint32_t arithmetic is modulo Word: 2^32 in the code
    H1, H2            \* fnv1a and murmur_mix

DataEntry == [key : Key, val : Val]

Sorted(s) == \A i, j \in DOMAIN s : i < j => s[i].key < s[j].key

ASSUME SSTableConstants ==
    /\ Key \subseteq Int
    /\ \A t \in Tables : t \in Seq(DataEntry) /\ t # <<>> /\ Sorted(t)
    /\ Interval \in Nat \ {0}
    /\ NumHashes \in Nat
    /\ BitsPerKey \in Nat /\ MinBits \in Nat \ {0}
    /\ Word \in Nat \ {0}
    /\ H1 \in [Key -> 0..(Word - 1)] /\ H2 \in [Key -> 0..(Word - 1)]

VARIABLES
    table,      \* the entries given to build(), in key order
    written,    \* how many of them build() has written
    index,      \* the sparse index: key and position of every Interval-th entry
    bits,       \* the set bits of the Bloom filter
    pc,         \* "build", "idle", "search", "block" or "done"
    mode,       \* "get", "scan" or "all"
    low, high,  \* the bounds of the request
    lo, hi, idx,  \* the binary search over index_ (0-based, as in the code)
    pos, end,   \* the entry to be read next and the one to stop before
    out         \* the entries found

file    == <<table, written, index, bits>>
request == <<mode, low, high>>
search  == <<lo, hi, idx>>
vars    == <<table, written, index, bits, pc, mode, low, high, lo, hi, idx, pos, end, out>>

-----------------------------------------------------------------------------
(* Bloom filter.                                                           *)

\* create_for_entries
NumBits == LET n == Len(table) * BitsPerKey IN IF n < MinBits THEN MinBits ELSE n

\* The bits of a key; the sum wraps as uint32_t does.
Probes(k) == {((H1[k] + i * H2[k]) % Word) % NumBits : i \in 0..(NumHashes - 1)}

\* Mutant: one of the hashes is tested that add() did not set.
PossiblyContainsOffByOne(k) ==
    {((H1[k] + i * H2[k]) % Word) % NumBits : i \in 0..NumHashes} \subseteq bits

PossiblyContains(k) == Probes(k) \subseteq bits

-----------------------------------------------------------------------------
MinKey == index[1].key
MaxKey == table[Len(table)].key

Init ==
    /\ table \in Tables
    /\ written = 0
    /\ index = <<>>
    /\ bits = {}
    /\ pc = "build"
    /\ mode = "get" /\ low = 0 /\ high = 0
    /\ lo = 0 /\ hi = 0 /\ idx = 0
    /\ pos = 1 /\ end = 1
    /\ out = <<>>

\* One turn of build()'s loop.
WriteEntry ==
    /\ pc = "build" /\ written < Len(table)
    /\ written' = written + 1
    /\ index' = IF written % Interval = 0
                THEN Append(index, [key |-> table[written'].key, pos |-> written'])
                ELSE index
    /\ bits' = bits \cup Probes(table[written'].key)
    /\ UNCHANGED <<table, pc, request, search, pos, end, out>>

\* Bloom filter, index and footer are written; the reader loads them back.
OpenReader ==
    /\ pc = "build" /\ written = Len(table)
    /\ pc' = "idle"
    /\ UNCHANGED <<file, request, search, pos, end, out>>

Ask(m, l, h) ==
    /\ pc = "idle"
    /\ mode' = m /\ low' = l /\ high' = h
    /\ out' = <<>>
    /\ UNCHANGED file

\* Mutant: the search starts one past the last index entry.
StartSearchPastEnd ==
    /\ pc' = "search"
    /\ lo' = 0 /\ hi' = Len(index) /\ idx' = 0
    /\ UNCHANGED <<pos, end>>

StartSearch == /\ pc' = "search"
               /\ lo' = 0 /\ hi' = Len(index) - 1 /\ idx' = 0
               /\ UNCHANGED <<pos, end>>

Get(k) ==
    /\ Ask("get", k, k)
    /\ IF k < MinKey \/ k > MaxKey \/ ~PossiblyContains(k)
       THEN pc' = "done" /\ UNCHANGED <<search, pos, end>>
       ELSE StartSearch

Scan(l, h) ==
    /\ l <= h
    /\ Ask("scan", l, h)
    /\ IF MinKey > h \/ MaxKey < l
       THEN pc' = "done" /\ UNCHANGED <<search, pos, end>>
       ELSE StartSearch

ReadAllEntries ==
    /\ Ask("all", MinKey, MaxKey)
    /\ pc' = "block"
    /\ pos' = 1 /\ end' = Len(table) + 1
    /\ UNCHANGED search

\* Mutant: scan() too stops at the next index entry.
EnterBlockShort(i) ==
    /\ pc' = "block"
    /\ pos' = index[i + 1].pos
    /\ end' = IF i + 1 < Len(index) THEN index[i + 2].pos ELSE Len(table) + 1

\* get() stops at the next index entry, scan() at the end of the data.
EnterBlock(i) ==
    /\ pc' = "block"
    /\ pos' = index[i + 1].pos
    /\ end' = IF mode = "get" /\ i + 1 < Len(index) THEN index[i + 2].pos ELSE Len(table) + 1

\* Mutant: hi is moved below the first index entry (size_t wraps).
SearchStepNoZeroCheck ==
    /\ pc = "search" /\ lo <= hi
    /\ LET mid == lo + (hi - lo) \div 2 IN
         \/ /\ index[mid + 1].key <= low
            /\ idx' = mid
            /\ IF mid = hi THEN UNCHANGED <<lo, hi>> /\ EnterBlock(mid)
                           ELSE lo' = mid + 1 /\ UNCHANGED <<hi, pc, pos, end>>
         \/ /\ index[mid + 1].key > low
            /\ hi' = mid - 1
            /\ UNCHANGED <<lo, idx, pc, pos, end>>
    /\ UNCHANGED <<file, request, out>>

\* Mutant: the lower bound is not moved past mid.
SearchStepStuck ==
    /\ pc = "search" /\ lo <= hi
    /\ LET mid == lo + (hi - lo) \div 2 IN
         \/ /\ index[mid + 1].key <= low
            /\ idx' = mid
            /\ IF mid = hi THEN UNCHANGED <<lo, hi>> /\ EnterBlock(mid)
                           ELSE lo' = mid /\ UNCHANGED <<hi, pc, pos, end>>
         \/ /\ index[mid + 1].key > low
            /\ IF mid = 0 THEN UNCHANGED hi /\ EnterBlock(idx)
                          ELSE hi' = mid - 1 /\ UNCHANGED <<pc, pos, end>>
            /\ UNCHANGED <<lo, idx>>
    /\ UNCHANGED <<file, request, out>>

\* One turn of the binary search, with its two breaks.
SearchStep ==
    /\ pc = "search" /\ lo <= hi
    /\ LET mid == lo + (hi - lo) \div 2 IN
         \/ /\ index[mid + 1].key <= low
            /\ idx' = mid
            /\ IF mid = hi THEN UNCHANGED <<lo, hi>> /\ EnterBlock(mid)
                           ELSE lo' = mid + 1 /\ UNCHANGED <<hi, pc, pos, end>>
         \/ /\ index[mid + 1].key > low
            /\ IF mid = 0 THEN UNCHANGED hi /\ EnterBlock(idx)
                          ELSE hi' = mid - 1 /\ UNCHANGED <<pc, pos, end>>
            /\ UNCHANGED <<lo, idx>>
    /\ UNCHANGED <<file, request, out>>

SearchExhausted ==
    /\ pc = "search" /\ lo > hi
    /\ EnterBlock(idx)
    /\ UNCHANGED <<file, request, search, out>>

\* One turn of the loops of scan_from(), scan() and read_all_entries().
ReadEntry ==
    /\ pc = "block" /\ pos < end
    /\ out' = IF low <= table[pos].key /\ table[pos].key <= high
              THEN Append(out, table[pos]) ELSE out
    /\ IF table[pos].key > high \/ (mode = "get" /\ table[pos].key = low)
       THEN pc' = "done" /\ UNCHANGED pos
       ELSE pos' = pos + 1 /\ UNCHANGED pc
    /\ UNCHANGED <<file, request, search, end>>

BlockEnd ==
    /\ pc = "block" /\ pos >= end
    /\ pc' = "done"
    /\ UNCHANGED <<file, request, search, pos, end, out>>

\* The caller takes the answer, the locals are gone, and it may ask again.
Return ==
    /\ pc = "done"
    /\ pc' = "idle"
    /\ mode' = "get" /\ low' = 0 /\ high' = 0
    /\ lo' = 0 /\ hi' = 0 /\ idx' = 0
    /\ pos' = 1 /\ end' = 1
    /\ out' = <<>>
    /\ UNCHANGED file

Work == WriteEntry \/ OpenReader \/ SearchStep \/ SearchExhausted \/ ReadEntry \/ BlockEnd

Next ==
    \/ Work
    \/ \E k \in Key : Get(k)
    \/ \E l, h \in Key : Scan(l, h)
    \/ ReadAllEntries
    \/ Return

\* A loop that can make a turn makes it: the calls run on the caller's thread.
Spec == Init /\ [][Next]_vars /\ WF_vars(Work)

-----------------------------------------------------------------------------
(* Properties.                                                             *)

TypeOK ==
    /\ table \in Tables
    /\ written \in 0..Len(table)
    /\ index \in Seq([key : Key, pos : Nat \ {0}])
    /\ bits \subseteq Nat
    /\ pc \in {"build", "idle", "search", "block", "done"}
    /\ mode \in {"get", "scan", "all"}
    /\ low \in Int /\ high \in Int
    /\ lo \in Nat /\ hi \in Nat /\ idx \in Nat
    /\ pos \in Nat \ {0} /\ end \in Nat \ {0}
    /\ out \in Seq(DataEntry)

\* BloomFilter never answers "no" for a key that build() wrote.
NoFalseNegatives ==
    pc # "build" => \A p \in DOMAIN table : PossiblyContains(table[p].key)

\* lo, hi and mid are size_t: no turn of the search leaves 0 .. index_.size() - 1 (lo may be
\* one past it), so nothing wraps and index_[mid] is in bounds.
SearchInBounds ==
    pc = "search" => /\ lo \in 0..Len(index) /\ hi \in 0..(Len(index) - 1)
                     /\ idx \in 0..(Len(index) - 1)

\* get(), scan() and read_all_entries() return exactly the entries of the file within the
\* bounds, in key order, whichever block the sparse index leads to.
LookupExact ==
    pc = "done" =>
        /\ Range(out) = {e \in Range(table) : low <= e.key /\ e.key <= high}
        /\ Sorted(out)

\* Every lookup ends, for every position of the key relative to the index.
LookupTerminates == pc \in {"search", "block"} ~> pc = "done"

-----------------------------------------------------------------------------
(* The inductive invariant behind LookupExact.                             *)

InBounds(e) == low <= e.key /\ e.key <= high

\* The index points to entries that are written, in file order, from the first one on.
IndexInv ==
    /\ written > 0 => index # <<>> /\ index[1].pos = 1
    /\ \A i \in DOMAIN index : /\ index[i].pos \in 1..written
                               /\ index[i].key = table[index[i].pos].key
    /\ \A i, j \in DOMAIN index : i < j => index[i].pos < index[j].pos
    /\ pc # "build" => written = Len(table)

FilterInv == \A p \in 1..written : Probes(table[p].key) \subseteq bits

\* The loop invariant of the binary search: idx lies just below lo, and every index entry
\* above hi is too large.
SearchInv ==
    pc = "search" =>
        /\ index # <<>> /\ out = <<>>
        /\ lo \in 0..Len(index) /\ hi \in 0..(Len(index) - 1)
        /\ idx = IF lo = 0 THEN 0 ELSE lo - 1
        /\ lo > 0 => index[idx + 1].key <= low
        /\ \A j \in DOMAIN index : j > hi + 1 => index[j].key > low
        /\ mode = "get" => low = high

\* s holds what lies within the bounds among the first n entries, in key order.
Collected(s, n) ==
    /\ \A j \in DOMAIN s : \E p \in 1..n : s[j] = table[p] /\ InBounds(table[p])
    /\ \A p \in 1..n : InBounds(table[p]) => \E j \in DOMAIN s : s[j] = table[p]
    /\ Sorted(s)

\* The loop invariant of the block: nothing was skipped before it, nothing follows it.
BlockInv ==
    pc = "block" =>
        /\ pos <= end /\ end <= Len(table) + 1
        /\ Collected(out, pos - 1)
        /\ \A p \in DOMAIN table : p >= end => ~InBounds(table[p])
        /\ mode = "get" => low = high

\* The inductive invariant of the reader: index and filter describe the entries written so
\* far, the search interval still holds the block looked for, and what a block scan has
\* collected is exact up to its position and nothing in bounds lies behind its end.
LookupInv == IndexInv /\ FilterInv /\ SearchInv /\ BlockInv /\ LookupExact
=============================================================================
