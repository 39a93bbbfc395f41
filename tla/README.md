# MosaicDB in TLA+

Models, model-checking runs and machine-checked proofs for MosaicDB, an LSM-tree key-value
store with a write-ahead log, SSTables, compaction, a small SQL layer and a TCP server.
Paths are relative to the root of the repository; `tla/PROJECT.json` lists components, runs,
mutants, the lines behind each definition, findings, hazards and theorems.

## 1. Inventory

| Component | State it keeps | Operations | What makes it correct |
|---|---|---|---|
| Storage engine (`src/engine/storage_engine.cpp`) | `memtable_`, `sstables_` (newest first), `next_seq_`, the files of the data directory | constructor (load, recover), `put`, `get`, `scan`, `remove`; inside them flush and compaction | acknowledged writes survive; reads see the newest entry; file numbers order data |
| Write-ahead log (`src/storage/wal.cpp`) | `wal.log` | `append` (write, fsync), `recover`, `clear` | every acknowledged record is replayed until its data is in a file |
| MemTable (`src/storage/memtable.cpp`) | `data_`, `current_size_` under a `shared_mutex` | `put`, `remove`, `get`, `scan`, `should_flush`, `dump_sorted`, `clear` | tombstones hide older values; size is exact |
| SSTable (`src/storage/sstable.cpp`) | entries, sparse index, Bloom filter, footer; an open `FILE*` | `build`, open, `get`, `scan`, `read_all_entries`, `validate` | lookups are exact, the binary search stays in bounds and ends |
| Bloom filter (`src/index/bloom_filter.cpp`) | bit array | `add`, `possibly_contains` | no false negatives |
| Compaction (`src/compaction/compaction.cpp`) | none | `compact` | newest entry per key; dropping tombstones is safe |
| Catalog (`src/relational/catalog.cpp`) | `cache_`, catalog and counter keys in the engine | `load_cache`, `create_table`, `drop_table`, `get_schema`, `next_row_id` | cache and engine agree; no rows without a table |
| SQL executor (`src/sql/executor.cpp`) | none | CREATE, DROP, INSERT, SELECT, UPDATE, DELETE, SHOW, DESCRIBE | constraints hold, primary keys are unique |
| Tokenizer, parser (`src/sql/sql_tokenizer.cpp`, `sql_parser.cpp`) | a position | `tokenize`, one `parse_` function per statement | a statement is read as it was meant, whatever surrounds it |
| Values and row format (`include/mosaicdb/types.h`, `schema.h`, `src/relational/row.cpp`) | none | conversions, comparisons, `serialize`, `deserialize` | round trips; comparisons are orders |
| Server (`src/network/server.cpp`, `client/server_main.cpp`) | `running_`, sockets, `client_threads_` | `start`, `stop`, `accept_loop`, `handle_client`, the signal handler | one answer per request, in order; `stop` waits for nothing but clients; no thread outlives the engine |
| HTTP proxy (`visualizer/proxy.mjs`) | one promise per request | `sendSQL` | every request is settled |
| Python client (`client/mosaic_client.py`) | one connection | `_request`, `close` | every request is answered or fails |
| CLI, legacy query parser, visualizer | none of interest | presentation | |

**Interaction.** One process holds one engine. The server runs a thread per client; all share
the engine, one `Catalog` and one `Executor`. `put` and `remove` hold `write_mutex_` from the
log append to their return, flush and compaction included. `get` and `scan` take no engine
lock: MemTable calls are protected by its own mutex, `sstables_` and the `FILE*` of a table by
nothing. SQL statements are sequences of engine calls without a transaction.

**What is hard.** A crash at any point between append, flush, truncation and the unlinking of
compacted files; I/O calls whose failure is ignored, or that report an error for what a restart
then executes; reads beside flush and compaction, on `FILE*`s that compaction reads too;
statements of several calls that interleave or are cut short; lookups at block boundaries in
unsigned arithmetic; a shutdown that runs `stop()` several times, inside one another if signals
nest, beside a running accept loop; framing and replies when clients leave in the middle or do
not read; conversions and comparisons that meet NULL or another type. `PROJECT.json` lists each of these as a hazard at its line.

## 2. Modules

| Module | Models | Kind |
|---|---|---|
| `StorageEngine` | write and recovery path: log, MemTable, files, `sstables_`, flush, compaction, crash, restart, failing I/O | state machine |
| `StorageEngineProofs`, `EngineServingProofs` | durability; reads, deletes and restarts | TLAPS |
| `KVStore` | what a durable key-value store promises | abstract specification |
| `EngineRefinesKV` | the refinement mapping from the engine to `KVStore` | composition |
| `EngineRefinementProofs` | every step of the engine is one of `KVStore` or a stutter | TLAPS |
| `SSTable` | one file: the writer's loop, sparse index, Bloom filter, binary search, block scans | state machine of the loops |
| `ConcurrentReads` | `get` and `scan` beside flush and compaction | state machine |
| `SqlLayer` | executor and catalog over an atomic engine, several sessions, crashes | state machine |
| `SqlTokenizer` | `SQLTokenizer`: from characters to tokens | operators |
| `SqlParser` | `SQLParser`: from tokens to statements, one operator per parsing function | operators |
| `SqlValues` | `Value`, `coerce_value`, `format_pk`, the byte formats of rows and schemas | operators |
| `SqlStatement` | `execute_sql` from text to answer: extends the three modules above | state machine |
| `Server` | `main`, the signal handler, `start`, `stop`, accept thread, client threads, sockets | state machine |
| `HttpProxy` | the proxy's and the Python client's end, composed with `Server` by EXTENDS | state machine |
| `SSTableProofs`, `ConcurrentReadsProofs`, `SqlLayerProofs`, `HttpProxyProofs` | theorems about these modules | TLAPS |
| `SqlProofs` | theorems about the operators of `SqlValues`, `SqlParser` and `SqlStatement`, and about its sessions | TLAPS |
| `MC*` | instances for TLC (symmetry sets, tables and hashes) | |

**StorageEngine.** The thread that holds `write_mutex_` is the variable `pc`; there is one
action per step between which the process can die or a call can fail:
`Put`/`Remove`, `AppendRecord`, `ApplyToMemTable`, `FlushBuild`, `FlushInstall`, `WalClear`,
`CompactBuild`, `CompactSwap`, `CleanupUnlink`, `CleanupDone`, and for each call the failure
the code handles (`AppendFails`, `FlushBuildFails`, `FlushOpenFails`, `CompactBuildFails`,
`CompactOpenFails`). `Restart` is the whole constructor. Contents are functions from keys to
a value, a `Tombstone` or `Absent`; a damaged log record or a file without a footer is `Torn`.
`committed` and `maybe` are history: what the last acknowledged write to a key wrote, and what
later writes that reported an error or died may still have left in the log. They are reset by
a restart to what the restart serves, so each promise is about one life of the process and
`RestartKeepsPromises` joins two lives. External: the file system (`Fault`) and the crash.

**SSTable.** Keys are integers, a byte offset is the number of the entry there, `uint32_t`
arithmetic is modulo the constant `Word`, and the two hash functions are arbitrary functions.
Each turn of the writer's loop, of the binary search (with its two `break`s) and of the block
scans is a step; `lo`, `hi`, `idx` are 0-based as in the code.

**ConcurrentReads.** Only what readers share with the writer: MemTable calls are atomic, every
change of the vector and every visit of a table is a step. `compact()` visits the tables too,
oldest first (`EnterMerge`, `MergeTable`), through the `FILE*` of their readers. A read that
walks the vector while it changes, or is inside a table together with another read or with
`compact()`, is in a data race: it becomes `broken`, may end at any time, and no property speaks
of its answer. Where such a read is nobody knows, so it may still disturb a read inside any table
and the merge of any table (`Strays`, `StrayMeets`). A table that `compact()` shared yields any
entries at all, or lengths for which there is no memory, so that `put` throws (`MergeThrows`).
The keys whose merged entry may be wrong are `astray`; with the swap they become `lost`, until
they are written again. A value is its size, so that `current_size_` can be kept as
`memtable.cpp` keeps it, by additions and subtractions modulo the range of `size_t`; it decides
when to flush.

**SqlLayer.** Engine calls are atomic and durable, which is what `KVStore` promises; each one
is a step of its session, and may fail. A call that fails at the fsync of the log leaves its
record there (`lateCatalog`, `lateRowid`, `lateRows`): a restart executes it, unless the key was
written again or a flush truncated the log, which any successful write may bring about
(`Logged`). Row scans end at the prefix and `~`, so keys in `Hidden` (texts that begin with `~`
and go on) are seen by INSERT's look for a duplicate and by no scan. A crash ends all statements
where they are, a restart executes what was left and reloads the cache. `leaked` is history: the
rows that outlived their table or its schema, because `drop_table` could not see or failed to
remove them or because a restart executed the record of a failed call. The code that generates
primary keys has no action because no statement reaches it: the parser marks every primary key
NOT NULL and `exec_insert` refuses NULL first. The cache, an unsynchronised `std::map`, is
updated in one step.

**SqlStatement** and its operators. `SqlLayer` treats rows and conditions as atoms;
`SqlStatement` takes one statement at a time through tokenizer, parser and executor on rows
that are stored as bytes under their formatted key. A parsing operator gives what it read and
the position behind it, or `Failed` where the code throws; loops are recursive functions of the
position. A FLOAT is a number of thousandths, so that the two decimals of `to_string()` lose
something; `stoll()` and `stod()` read the longest numeric prefix, as the library does; a value
that cannot be converted keeps its type, as in `coerce_value`, and a comparison then looks at
the unused member of the other value. `std::sort` is external: any order in which no row stands
before one that the comparator puts first, and any order at all if the comparator is no strict
weak order. A scenario says what is submitted: texts, statements, statements with a slip.

**Server** and **HttpProxy**. A connection is the parts on their way to the server (header, key,
value) and the replies on their way back. A handler that took the wrong number of parts would
read the next part as a header, as the code reads the next nine bytes. Each of main thread,
accept thread, every call of `stop()` and every client thread has a position; `accept()`,
`join()`, the mutex, and `recv()` and `send()` on a connection whose client does nothing, are the
points where they wait. Call 0 of `stop()` is that of `~Server`, call n that of the handler of
the n-th signal. The platforms differ as the system calls do. On POSIX a handler runs on a thread
of the process, its `host`, which stands still meanwhile (`Paused`): on main, or, if main is in a
handler already, nested in that one (`Preempted`: SIGINT and SIGTERM do not block each other) or
on another thread. So a second `stop()` can wait for a mutex that the interrupted one holds, join
what is being joined, or join its own thread, which throws and ends the process. `close()` does
not wake a thread inside `accept()`, and a `send()` to a client that has left can raise SIGPIPE.
On Windows the handler runs on its own thread beside `~Server`, the first signal puts the default
action back and the next one ends the process, `closesocket()` wakes `accept()`, `send()` fails,
and two threads can join the accept thread, which is undefined once it has been joined. The
reads of `listen_sock_`, which is not atomic, are taken as reads of its latest value.

An HTTP request asks for `/api/sql` or `/api/health` (`route`); both call `sendSQL`, and differ
in what they answer when it rejects: 500, or 200 with "disconnected". `sendSQL` has one action
per event it handles, `ProxyEnd` for the one it does not, and `ProxyThrows` for the exception in
the callback of `connect()`, which ends the proxy and every request without a response.
External: connect, reset and close of sockets, the delivery of signals, a client that dies.

## 3. Runs

Passing runs:

| Run | Shows |
|---|---|
| `engine_faults` | With all eight kinds of failing call and crashes at every step, up to two per behaviour: `PutsDurable` (an acknowledged value is recoverable from every later disk state unless it lies behind a damaged record), `DeletesDurable` (deleted keys too, unless `maybe_compact` has left a file with an older value), `ReadYourWrites`, `SSTablesOrdered`, `OpenTablesImmutable` (no file under an open reader is rewritten), `RestartKeepsPromises`, and the inductive invariant `DurabilityInv` |
| `engine_refines_kv` | With crashes anywhere but in the cleanup, and with files that cannot be created and a log that cannot be truncated, the engine implements `KVStore`: flush, truncation, compaction and restart are invisible and a write takes effect at most once. `NoPlaceholder`: the key `__empty__` never reaches the disk |
| `sstable_lookup` | For every table over six keys: lookups return exactly the entries in bounds, in order; no false negatives with colliding hashes; the search never leaves the index and every lookup ends |
| `concurrent_reads` | Two readers and `compact()` on the same `FILE*`s. `GetsAtomic`: a `get` without data race returns what the key held at some time during the call, even when a flush overtakes it; `ScansRegular`: every key of a `scan` without data race that no flush and no swap overtakes has a value that it held during the call; `NothingHidden`: at every step but the swap of a compaction, MemTable and tables together hold exactly the last writes, but for the keys of a merge that shared a `FILE*`; `SizeExact`: `current_size_` is the size of the contents after every overwrite, delete and flush, and below the threshold between two writes |
| `sql_session` | One session with failing calls, crashes inside statements, and restarts that execute what failed calls left: no rows without a table and no inserted row against its schema, but for `leaked` ones; the cache never contradicts the engine, INSERT never replaces a row, UPDATE never creates one |
| `sql_statement` | `TokensStable`: tokens written out again give the same tokens, for every text accepted. `ParsesWritten`: a statement is parsed as it was meant, and one accepted in spite of a slip is a statement that could have been written. `KeysAreGiven`: no INSERT reaches the generation of keys, whatever CREATE was accepted. `CodecExact`: rows and schemas survive their byte formats. `SelectAnswers`: SELECT returns exactly the rows of a reference definition of WHERE, in order, the first LIMIT of them. `SortDefined`: for which columns the comparator of ORDER BY is one that `std::sort` accepts |
| `server` | `RepliesMatchRequests`: the i-th reply answers the i-th request and nothing is executed twice. `EngineOutlivesThreads`: when `main` returns no thread is left that could use the engine. `HttpOkExecuted`: 200 of `/api/sql` and "connected" of `/api/health` only for an executed statement. `ShutdownWaitsOnlyForClients`: after `stop()` has begun, only a client that is idle or does not read, `accept()` on POSIX, or a second signal inside the handler can hold the process; no deadlock between a handler's `stop()`, that of `~Server`, the accept loop and the mutex. `RequestsAnswered`: for every request of the Python client a thread can go on until it is answered, as far as the client reads, or its connection ends, unless a signal handler sits on its thread or a `stop()` that came before `start()` was over holds the mutex for an idle client. `HttpSettled`: every HTTP request that has no response has an event to come, except one whose connection ends without answer and without reset, which hangs, and those that are open when a statement that is no text ends the proxy |

Runs that find what a document, comment or test says violated:

| Run | The code | The text |
|---|---|---|
| `deletes_resurrected` | tombstones are dropped, then inputs are unlinked newest first; a crash between brings a deleted key back | `tests/test_engine.cpp:193` |
| `torn_tail` | records appended behind a torn one are never replayed | `OVERVIEW.md:57` |
| `power_loss` | the log is truncated while the new file was never fsynced | `OVERVIEW.md:280` |
| `scan_misses_flushed` | tables are read before the MemTable; a flush between the two hides entries | `OVERVIEW.md:97` |
| `insert_race` | the look for a duplicate and the put are two calls | `tests/test_sql.cpp:111` |

More disagreements are visible in the modules without a run, because one action shows each:

* `remove` and `recover` flush without calling `maybe_compact` (`OVERVIEW.md:87`: "Triggered when
  SSTable count reaches 4 or more.").
* `compact()` reads tables through the `FILE*`s of unlocked reads, so a position that moves under
  it loses entries for good: `MergeTable`, whose effects `NothingHidden` confines
  (`OVERVIEW.md:87`: "Merges all SSTables into one: newer values overwrite older ones", and
  `OVERVIEW.md:100`: "Reads use shared locks.").
* DROP scans to the prefix and `~`, so a row under a textual key that begins with `~` and goes on
  outlives its table: `ScanRows` and `leaked` (`src/relational/catalog.cpp:78`: "Remove all rows",
  `:23`: "it's after all printable ASCII").

`SelectAnswers` leaves out what the code does differently from SQL or leaves open: an AND behind
an OR (conditions are joined from left to right), values that do not convert to the type of
their column, the order of negative keys and of keys beyond the padded width, and rows whose
textual key lies behind the `~` that ends a scan.

**Bounds.** Engine: two keys and two values (a key overwritten, deleted and written again, and
another one beside it), a flush after two or three units of size, compaction at two files
(four in the violation runs, as in the code), two faults (one to do damage, one to expose it,
e.g. a torn append and then a crash), sequence numbers up to `MaxSeq` when an operation starts,
enough for two compactions. SSTable: index interval 2 and up to six entries give one to three
blocks, with requests before, between, on and after the keys; bits and word are small so that
hashes collide and the sum wraps. ConcurrentReads: two readers, which with
`compact()` makes three users of a `FILE*`; one key, because the properties speak of keys one by
one and the theorems below cover any number of them; four writes, which give flushes before and
after a compaction. The sizes are 1 and 2 with keys of size 1 and a threshold of 3, so that an
overwrite grows, shrinks or keeps the size, and fills the MemTable or does not; `size_t` has 16
values, so that a wrong subtraction wraps into sight. SqlLayer: one table (tables do not interact), two keys, one of them
hidden from scans, one value and NULL, strict and non-strict schemas, three faults (a call that
fails, a crash, and one more in what follows).
SqlStatement: all texts of up to four characters over twelve (letters in both cases, a digit,
sign, dot, both quotes, space, `<=>!`), all quoted strings of up to four; fifteen statements of
all kinds with each token dropped, replaced or preceded by one of fourteen; three statements in
a row on tables with a plain, doubled, textual or unknown primary key, five on a plain one; and
every table of three rows with one value column of each type, NULL and unconverted values
included, under some 130 queries. Keys have width 2, so that 10 and 100 lie inside and outside
it. Server: one proxied and one direct connection, an unknown request and then a `get` on the
direct one, a client that dies behind a header, a statement that is too long, two signals at any
time (nested, one behind the other, or beside `~Server`), both platforms.

**Fairness.** `SSTable`: weak fairness of a loop that can make a turn; the loops run on the
caller's thread and wait for nothing. No other module assumes fairness. What `HttpProxy` says of
progress it says as invariants: while a shutdown, a request or a promise is not over, some thread
of the server, the thread of that client, or an event of that promise can go on (`ENABLED`).
Threads that can go on do, and a server that stops has finitely many steps left without its
clients, so nothing waits for ever but where the invariants say so. A turn without end there is
only in the loop around `accept()` on a closed socket, when a signal came before `start()` was
over; `running_` is true again then, and the server does not stop. The proxy reads what arrives,
so a `send()` to it that waits goes on (`SendRest`); of the Python client this is not assumed, nor
anything of signals and of new requests. `CHECK_DEADLOCK FALSE` is given to `server`, where the
process ends or waits for a client for ever, and to `sql_statement`, whose sessions are bounded;
the other runs check for deadlock.

**Mutants.** For each property of a passing run a definition with a plausible slip (a missing
early return, a wrong end of the vector, a forgotten replay, ...) stands next to the original,
marked "Mutant"; with it in place TLC finds the property violated.

## 4. Proofs

The theorems hold for every value of the constants that the named assumptions of the modules
allow: any sets of keys, values, readers, sessions, connections, any thresholds, hash functions
and faults, and any number of them.

| Module | Theorems | From |
|---|---|---|
| `StorageEngineProofs` | `TypeCorrect`, `DurabilityInvariant`, `PutsAreDurable`, `TablesStayOrdered` | `EngineConstants` |
| `EngineServingProofs` | `ServingInvariant`, `ReadsSeeWrites`, `DeletesAreDurable`, `PlaceholderNeverWritten`, `OpenTablesNeverChange`, `RestartsKeepPromises` | `EngineConstants` |
| `EngineRefinementProofs` | `NothingLeaks`; `EngineImplementsKVStore`: `Spec => RefinesKVStore` | also `CallConstants`, `NothingLost` |
| `SSTableProofs` | `LookupInvariant`, `SSTableTypeCorrect`, `BloomHasNoFalseNegatives`, `SearchStaysInBounds`, `LookupsAreExact` | `SSTableConstants` |
| `ConcurrentReadsProofs` | `ConcurrencyInvariant`, `ReadsTypeCorrect`, `GetsAreAtomic`, `ScansAreRegular`, `NothingIsHidden`; `SizeStaysExact` | `ReadConstants`; for the last one also `SizesFit` |
| `SqlLayerProofs` | `SqlTypeCorrect`; `SessionInvariant`, `RowsHaveTables`, `CacheStaysCoherent`, `InsertsConform`, `UpdatesNeverCreate`, `InsertsNeverOverwrite` | `SqlConstants`; but for the first one also `Alone` |
| `HttpProxyProofs` | `ServerInvariant`, `ServerTypeCorrect`, `EngineOutlives`, `RepliesMatch`, `OkMeansExecuted` | `ServerConstants`, `ProxyConstants` |
| `SqlProofs` | `RowsSurvive`, `SchemasSurvive`, `ComparatorIsStrictWeak`, `KeysNeverGenerated`, `ParserTyped`, `CreatedTablesNeedKeys`, `WhereAgrees` | the types of their arguments |
| | `SessionInvariant`, `SessionTyped`, `SessionKeysGiven`, `SessionCodecExact`, `SessionSortDefined`, `SessionWhereAsMeant`, `SessionSelectExact` | `StatementConstants` |

Every proof has one lemma or step per action. TLC has checked each inductive invariant with the
constants of the passing run of its module; adding its name to the INVARIANTS of that run's cfg
repeats this. `SizeInv`, `SessionInv`, `WhereAsMeant` and `SelectExact` are defined in the
proof modules; to check them, a module that extends both the MC module and the proof module is
needed. They hold on all states of `concurrent_reads` and `sql_statement`.

**Durability.** `PutsDurable` is not inductive: it speaks of the disk, while what the next flush
writes comes from memory. `DurabilityInv` says for every key where its committed value is: in the
log; in the MemTable, and then in the log as well; or in a *home*, the newest file with the key
that is below `next_seq_` and not about to be unlinked. `ControlInv` adds what the control
position implies (the file just built holds the MemTable, the merged file holds the merge of the
open tables, the inputs to be unlinked are older than every open table), and `SSTablesOrdered`
that the first hit is the newest entry. A crash forgets which record was not applied yet, so the
invariant quantifies over the set `X` of unapplied keys.

**Serving.** Reads and deletes need the other direction: nothing that is served is older than
what was committed. `ServingInv` adds that MemTable and open tables answer what was committed
unless a reader was dropped (`ReadInv`), where the write in flight is at each step
(`InFlightInv`: before a compaction the newest input holds the value just put, so a merge is
never empty and `NoPlaceholder` holds), and that files about to be unlinked are older than the
next file (`InputsOlder`). `RestartsKeepPromises` compares the state before `Restart` with the
one after it, and follows from `PutsDurable` and `DeletesDurable` in the first.

**Refinement.** A step of the engine is a step of `KVStore` or leaves its variables alone. The
mapping takes what a get or, after a crash, a recovery answers; `Undamaged` says that the log is
intact and every file is open, about to be unlinked or being written, so that a crash changes
neither. This needs `NothingLost`: calls may fail to create a file or to truncate the log, and
the process may die anywhere but between two unlinks. The runs `torn_tail`,
`deletes_resurrected` and `power_loss` show that it does not hold beyond.

**SSTable.** `LookupInv`: the sparse index and the filter describe the entries written so far;
the block that could hold the first key of the lookup stays in `lo .. hi` or is the candidate
found; a scan has collected exactly the entries in bounds up to its position and none lies
behind the end of its last block. `SearchInBounds` and the type invariant show that the unsigned
arithmetic never wraps.

**Concurrent reads.** `ConcurrencyInv`: the last write of a key that is not `lost` is where a walk
meets it first (`SharedInv`); `compact()` has, for every key that is not `astray`, the newest entry
of the tables behind its cursor (`MergeInv`), so that at the swap the loop of `compact()` has
computed `Merge`, which is stated by the newest entry of a key (`NewestEntry`); a get that is
neither broken nor overtaken has passed only tables without its key and has an allowed answer
ahead; a scan has the newest entries of what it has passed. A key becomes `lost` only by a swap,
which overtakes every read under way, and a read that starts later allows every value for it.
`SizeInv` makes `SizeExact` inductive: the MemTable has finitely
many entries, and `current_size_` is their size and below the threshold while no flush is under
way. `TableSizeStep` says what one entry adds to the sum over the keys. `SizesFit` is what the
code relies on without a check: the threshold and one more entry fit into `size_t`.

**SQL.** `StatementInv` (a session has the statement, schema and rows that its position needs)
holds for any number of sessions. Everything else is false with two (`insert_race`, and the
hazards at `catalog.cpp`), so it has the hypothesis `Alone`, one session. `AloneInv` says that
what a statement looked up still holds when it writes (`SchemaInv`, `RowInv`), and that a table
without schema, or one missing in the cache after a failed CREATE, has no rows, and none in the
records of failed puts, but `leaked` ones (`UnknownInv`, `Abandoned`): without it a CREATE
repeated with another schema would bring rows back that do not conform. `Dropped` follows
`drop_table` through its list. `LateInv` is about restarts: the record of a failed INSERT is for
a key without a row and one that the table's constraints accept, that of a failed UPDATE for a
row that is still there.

**Server.** `ShutdownInv`: `~Server` is past the join of the acceptor only when that has ended
(no other call of `stop()` lets `main` return), and a running client thread is in
`client_threads_` until it was joined; with it no number of calls of `stop()`, nested or beside
each other, lets `main` return too early. `ConnectionInv`: when `handle_client` is about to read,
the stream holds nothing but the one request that has no answer, whole unless its client died,
and while it works, or waits in `send()`, the stream is empty; so a header is never read in the
middle of a request, and replies, executions and requests stay in step. A proxy that dies closes
the connections of all its requests at once; the parts of the invariant that speak of an open
client hold for the other connections as before.

**Statements.** `SqlProofs` begins with the operators, each theorem for all arguments of their
types. `LexLess` is a strict total order on texts, so the comparators of ORDER BY are strict weak
orders on a column of one type without NULLs. Induction over a row or the columns of a schema is
by a least counterexample (`LeastOf`, `Positions`); `JoinsExist` gives the prefixes of a flattened
sequence, `HoldsSplit` and `HoldsParts` find every part at its place, and the recursive functions
of `Deserialize` and `SchemaDeserialize` are shown equal to explicit ones. A function that recurses
along a list (`Along`) or to a position further on (`Ahead`, by the induction `Downwards`) has a
solution with a type, and is that solution. So the loops of tokenizer and parser have types:
`ParserTyped` holds for all tokens that end with END_OF_INPUT and whose literals have values
(`Readable`), whatever slip is in them.

**Sessions.** None of `TypeOK`, `KeysAreGiven`, `CodecExact` and `SortDefined` is inductive: what
INSERT stores depends on what the parser gave and on what CREATE stored long before.
`SessionInv` has six parts. `PhaseOK` is where `execute_sql` is. `SentOK`: the tokens to be parsed
are `Readable` or begin no statement. The second happens for texts of characters, whose numbers
are digits; the letters of the model spell no word that a statement begins with, which
`StatementConstants` states. `StmtOK`: the statement in execution is well-formed and of the kind
of its phase, and the key of a CREATE is marked. `TableOK`: so is the key of the stored schema.
`RowsOK`: every row that a scan sees belongs to the table there is and fits it, one typed cell per
column. DROP deletes only what its scan sees, and this is all that can be said: a row whose
textual key lies behind the `~` survives the DROP, but stays invisible to the next table.
`AnswerOK`: between filter and sort SELECT * holds whole rows. `StatementConstants` says that a
scenario starts with a table that CREATE can make and finitely many rows that fit, or with
neither, and submits statements, tokens and texts of any number.

**Selection.** `WhereAgrees` compares the loop of `evaluate_where`, which joins conditions from left
to right, with the reference definition that the run uses, in which AND binds tighter: the loop
is true at a position exactly if a run of conditions joined by AND that are all true ends there
or lies before it (`SomeRun`), provided no AND stands behind an OR. It speaks of cells that are not BOOL (`compare_lt` is false
for those) and of values that convert to the type of the cell. `SessionWhereAsMeant` puts it
into every session, for SELECT, UPDATE and DELETE. `SelectExact` follows the answer through filter,
sort and LIMIT by the keys of its rows: it names distinct matching keys, as many as match or as
LIMIT allows, in key order if there is no ORDER BY. It holds for every condition and projection,
also when the comparator is no order and the sort may do anything with the rows.

**Only model-checked.** `LookupTerminates`, which is liveness under fairness, and
`ShutdownWaitsOnlyForClients`, `RequestsAnswered` and `HttpSettled`, which say what is ENABLED:
the prover reasons about neither.
`TokensStable` and `ParsesWritten`, which say of two recursive functions over characters and tokens
that one undoes the other; `ParsesWritten` also needs the scenarios of its run (a negative LIMIT,
for one, is written as a statement without LIMIT). `SelectAnswers` compares answers by rows, and is
true for tables whose rows differ: an UPDATE of the key column leaves a row under its old key, so
two equal rows can be there. What it says of an answer's rows, keys and number is proved by
`SessionSelectExact` and `SessionWhereAsMeant`, which tell rows apart by the key they are stored
under; the order under ORDER BY is a matter of `std::sort`, and the order of the formatted keys of
numbers remains to be proved. No module declares a RECURSIVE operator.

## 5. Plan

1. Keys of ten digits are ordered as their numbers (`FormatPk`), so that the key order of
   `SelectExact` is the order of the primary key, by induction over digits.
2. `SqlLayer` with two sessions: what does hold of UPDATE against DELETE, INSERT against DROP and
   concurrent CREATE.
3. A failing reader in `load_sstables()`: the skipped file, its number used again.

## 6. Not modelled

* The bytes of integers and CRC32: a log record or file is whole or `Torn` (a CRC collision is
  not considered), and an integer in a row fills its cells without being cut into bytes.
* Numbers beyond the range of `int64_t` or `double`, rounding of binary fractions, letters and
  white space beyond the cut-down alphabet: the tokenizer treats the members of a class alike.
* `client/cli.cpp` and the legacy query parser: one process, one call after the other, printing.
* The visualizer, HTTP and JSON texts, `parseResponse`, log messages: presentation.
* A reader that fails in `load_sstables()` after `validate()` succeeded; threads that cannot be
  created; the growth of `client_threads_`, which is emptied by `stop()` only.
* Read errors of an open file (`read_all_entries` takes them for its end), and the limit of
  `recover()` on the sizes of a record, which `append` does not have: sizes of log records are
  abstracted.
* What a data race does beyond wrong entries, wrong answers, an exception and moved positions,
  such as a process that dies of it; `StorageEngine` has the crash at every step.
* In `SqlLayer`, a failed `append` leaves a whole record or none; damaged records, and what lies
  behind them, are part of `StorageEngine`.
* Signals before `main` has installed its handler, and what is not safe to call from one (the
  handler prints and locks).
