------------------------------ MODULE SqlLayer ------------------------------
(***************************************************************************)
(* SQL statements over the key-value engine: Executor and Catalog          *)
(* (src/src/sql/executor.cpp, src/src/relational/catalog.cpp), one session *)
(* per client thread, all sharing one catalog cache and one engine.        *)
(*                                                                         *)
(* An engine call is atomic and durable here (KVStore is what it           *)
(* promises); a statement is a sequence of such calls without a            *)
(* transaction around them.  A call that fails at the fsync of the log     *)
(* leaves its record there: the next restart executes it, unless a later   *)
(* write of the key supersedes it or a flush truncates the log before.     *)
(* A table has a primary-key column pk and a                               *)
(* column val that is NOT NULL if the schema is strict.  Rows are kept     *)
(* under the primary key they were inserted with.  Parsing and the text of *)
(* answers are left out; WHERE is any condition on pk.  The branch of      *)
(* exec_insert that generates a key has no action: the parser marks every  *)
(* primary key NOT NULL, so an INSERT without it is refused before.        *)
(***************************************************************************)
EXTENDS Naturals, FiniteSets

CONSTANTS
    Session, Table, Pk, Val, Null, None,
    Hidden,       \* keys that sort behind the end of a row scan: texts '~...'
    Nothing,      \* no record of a failed call is left for a key
    Statements,   \* kinds of statement the sessions issue
    MaxFaults     \* bound: failed engine calls and crashes in a behaviour

Kinds  == {"create", "drop", "insert", "select", "update", "delete"}
Schema == [strict : BOOLEAN]

\* by is history: the kind of the statement that wrote the row last.
Row    == [pk : Pk \cup {Null}, val : Val \cup {Null}, by : {"insert", "update"}]

ASSUME SqlConstants ==
    /\ Pk \subseteq Nat /\ IsFiniteSet(Pk)
    /\ Null \notin Pk \cup Val
    /\ None \notin Pk /\ None \notin Row /\ None \notin Schema /\ Hidden \subseteq Pk
    /\ Nothing # None /\ Nothing \notin Row /\ Nothing \notin Schema /\ Nothing \notin Nat
    /\ Statements \subseteq Kinds
    /\ MaxFaults \in Nat

Labels == Kinds \cup {"idle", "put_schema", "put_meta", "cache_schema", "drop_rows",
                       "drop_schema", "drop_cache", "get_schema", "fill_cache", "put_row",
                       "put_rows", "remove_rows"}

Stmt ==
    [kind : {"create"}, table : Table, schema : Schema]
    \cup [kind : {"drop", "select"}, table : Table]
    \cup [kind : {"insert"}, table : Table, pk : Pk \cup {Null}, val : Val \cup {Null}]
    \cup [kind : {"update"}, table : Table, where : SUBSET (Pk \cup {Null}),
          column : {"pk"}, value : Pk \cup {Null}]
    \cup [kind : {"update"}, table : Table, where : SUBSET (Pk \cup {Null}),
          column : {"val"}, value : Val \cup {Null}]
    \cup [kind : {"delete"}, table : Table, where : SUBSET (Pk \cup {Null})]

VARIABLES
    catalog,  \* the engine's "__catalog:" keys
    rowid,    \* its "__meta:...:next_rowid" keys
    rows,     \* its "__table:...:row:" keys
    lateCatalog, lateRowid, lateRows,  \* what failed calls left in the log for those keys
    cache,    \* Catalog::cache_
    up,       \* the server process runs
    pc,       \* what a session does next
    stmt,     \* its statement
    schema,   \* the schema it works with
    todo,     \* rows of its scan that are still to be processed, by key
    leaked,   \* history: rows that drop_table() overlooked or failed to remove
    faults    \* failures so far (bounded by MaxFaults)

late    == <<lateCatalog, lateRowid, lateRows>>
engine  == <<catalog, rowid, rows, lateCatalog, lateRowid, lateRows>>
session == <<pc, stmt, schema, todo>>
vars    == <<catalog, rowid, rows, lateCatalog, lateRowid, lateRows, cache, up,
             pc, stmt, schema, todo, leaked, faults>>

NoRows == [k \in {} |-> None]

NoLate     == [t \in Table |-> Nothing]
NoLateRows == [t \in Table |-> [k \in Pk |-> Nothing]]

Init ==
    /\ catalog = [t \in Table |-> None]
    /\ rowid = [t \in Table |-> None]
    /\ rows = [t \in Table |-> [k \in Pk |-> None]]
    /\ lateCatalog = NoLate /\ lateRowid = NoLate /\ lateRows = NoLateRows
    /\ cache = [t \in Table |-> None]
    /\ up = TRUE
    /\ pc = [s \in Session |-> "idle"]
    /\ stmt = [s \in Session |-> None]
    /\ schema = [s \in Session |-> None]
    /\ todo = [s \in Session |-> NoRows]
    /\ leaked = {}
    /\ faults = 0

-----------------------------------------------------------------------------
At(s, label) == up /\ pc[s] = label

GoTo(s, label) == pc' = [pc EXCEPT ![s] = label]

\* The statement ends, with an error or without: only the engine's state is followed.
Answer(s) ==
    /\ pc' = [pc EXCEPT ![s] = "idle"]
    /\ stmt' = [stmt EXCEPT ![s] = None]
    /\ schema' = [schema EXCEPT ![s] = None]
    /\ todo' = [todo EXCEPT ![s] = NoRows]

Fault == faults < MaxFaults /\ faults' = faults + 1

\* The log after a write that succeeded: c, m and r are left in it, or nothing after a flush.
Logged(c, m, r) ==
    \/ lateCatalog' = c /\ lateRowid' = m /\ lateRows' = r
    \/ lateCatalog' = NoLate /\ lateRowid' = NoLate /\ lateRows' = NoLateRows

\* put() and remove() of a schema, a row counter and a row; None stands for no entry.
WriteSchema(t, e) ==
    /\ catalog' = [catalog EXCEPT ![t] = e]
    /\ Logged([lateCatalog EXCEPT ![t] = Nothing], lateRowid, lateRows)
    /\ UNCHANGED <<rowid, rows, faults>>

WriteMeta(t, e) ==
    /\ rowid' = [rowid EXCEPT ![t] = e]
    /\ Logged(lateCatalog, [lateRowid EXCEPT ![t] = Nothing], lateRows)
    /\ UNCHANGED <<catalog, rows, faults>>

WriteRow(t, k, e) ==
    /\ rows' = [rows EXCEPT ![t][k] = e]
    /\ Logged(lateCatalog, lateRowid, [lateRows EXCEPT ![t][k] = Nothing])
    /\ UNCHANGED <<catalog, rowid, faults>>

\* The same calls failing, before or after the record is in the log.
FailSchema(t, e) ==
    /\ Fault
    /\ lateCatalog' \in {lateCatalog, [lateCatalog EXCEPT ![t] = e]}
    /\ UNCHANGED <<catalog, rowid, rows, lateRowid, lateRows>>

FailMeta(t, e) ==
    /\ Fault
    /\ lateRowid' \in {lateRowid, [lateRowid EXCEPT ![t] = e]}
    /\ UNCHANGED <<catalog, rowid, rows, lateCatalog, lateRows>>

FailRow(t, k, e) ==
    /\ Fault
    /\ lateRows' \in {lateRows, [lateRows EXCEPT ![t][k] = e]}
    /\ UNCHANGED <<catalog, rowid, rows, lateCatalog, lateRowid>>

\* Mutant: scan() returns deleted keys too.
ScanRowsTombstones(t) == rows[t]

\* engine_.scan over the rows of t, from row_key_prefix() to row_key_prefix_end().
ScanRows(t) == [k \in {j \in Pk \ Hidden : rows[t][j] # None} |-> rows[t][k]]

\* evaluate_where: a condition on the primary key is the set w of values that satisfy it.
Matches(w, r) == r.pk \in w

FirstKey(f) == CHOOSE k \in DOMAIN f : \A j \in DOMAIN f : k <= j

Rest(f) == [k \in DOMAIN f \ {FirstKey(f)} |-> f[k]]

\* A session's next statement; create_table() and drop_table() consult the cache, the
\* others call get_schema().
Issue(s, q) ==
    /\ At(s, "idle")
    /\ q.kind \in Statements
    /\ stmt' = [stmt EXCEPT ![s] = q]
    /\ GoTo(s, IF q.kind \in {"create", "drop"} THEN q.kind ELSE "get_schema")
    /\ UNCHANGED <<engine, cache, up, schema, todo, faults, leaked>>

-----------------------------------------------------------------------------
(* Catalog::create_table.                                                  *)

CreateTable(s) ==
    /\ At(s, "create")
    /\ IF cache[stmt[s].table] # None
       THEN Answer(s)
       ELSE GoTo(s, "put_schema") /\ UNCHANGED <<stmt, schema, todo>>
    /\ UNCHANGED <<engine, cache, up, faults, leaked>>

PutSchema(s) ==
    /\ At(s, "put_schema")
    /\ LET t == stmt[s].table  e == stmt[s].schema IN
         \/ WriteSchema(t, e) /\ GoTo(s, "put_meta") /\ UNCHANGED <<stmt, schema, todo>>
         \/ FailSchema(t, e) /\ Answer(s)
    /\ UNCHANGED <<cache, up, leaked>>

PutMeta(s) ==
    /\ At(s, "put_meta")
    /\ \/ WriteMeta(stmt[s].table, 1) /\ GoTo(s, "cache_schema") /\ UNCHANGED <<stmt, schema, todo>>
       \/ FailMeta(stmt[s].table, 1) /\ Answer(s)
    /\ UNCHANGED <<cache, up, leaked>>

CacheSchema(s) ==
    /\ At(s, "cache_schema")
    /\ cache' = [cache EXCEPT ![stmt[s].table] = stmt[s].schema]
    /\ Answer(s)
    /\ UNCHANGED <<engine, up, faults, leaked>>

-----------------------------------------------------------------------------
(* Catalog::drop_table.  A failed engine_.remove is ignored.               *)

\* Mutant: the catalog entry goes first.
DropTableCatalogFirst(s) ==
    /\ At(s, "drop")
    /\ IF cache[stmt[s].table] = None
       THEN Answer(s) /\ UNCHANGED catalog
       ELSE /\ todo' = [todo EXCEPT ![s] = ScanRows(stmt[s].table)]
            /\ catalog' = [catalog EXCEPT ![stmt[s].table] = None]
            /\ GoTo(s, "drop_rows")
            /\ UNCHANGED <<stmt, schema>>
    /\ UNCHANGED <<rowid, rows, late, cache, up, faults, leaked>>

DropTable(s) ==
    /\ At(s, "drop")
    /\ IF cache[stmt[s].table] = None
       THEN Answer(s)
       ELSE /\ todo' = [todo EXCEPT ![s] = ScanRows(stmt[s].table)]
            /\ GoTo(s, "drop_rows")
            /\ UNCHANGED <<stmt, schema>>
    /\ UNCHANGED <<engine, cache, up, faults, leaked>>

DropRow(s) ==
    /\ At(s, "drop_rows") /\ todo[s] # NoRows
    /\ LET t == stmt[s].table  k == FirstKey(todo[s]) IN
         \/ WriteRow(t, k, None) /\ leaked' = leaked \ {<<t, k>>}
         \/ FailRow(t, k, None) /\ leaked' = leaked \cup {<<t, k>>}
    /\ todo' = [todo EXCEPT ![s] = Rest(@)]
    /\ UNCHANGED <<cache, up, pc, stmt, schema>>

DropMeta(s) ==
    /\ At(s, "drop_rows") /\ todo[s] = NoRows
    /\ WriteMeta(stmt[s].table, None) \/ FailMeta(stmt[s].table, None)
    /\ GoTo(s, "drop_schema")
    /\ UNCHANGED <<cache, up, stmt, schema, todo, leaked>>

\* What the scan of drop_table() cannot see: keys behind its end, and rows that only a record
\* of a failed put holds.
Overlooked(t) == {k \in Pk : (k \in Hidden /\ rows[t][k] # None) \/ lateRows[t][k] \in Row}

DropSchema(s) ==
    /\ At(s, "drop_schema")
    /\ WriteSchema(stmt[s].table, None) \/ FailSchema(stmt[s].table, None)
    /\ leaked' = leaked \cup ({stmt[s].table} \X Overlooked(stmt[s].table))
    /\ GoTo(s, "drop_cache")
    /\ UNCHANGED <<cache, up, stmt, schema, todo>>

\* Mutant: the cache keeps the dropped table.
DropCacheForgotten(s) ==
    /\ At(s, "drop_cache")
    /\ Answer(s)
    /\ UNCHANGED <<engine, cache, up, faults, leaked>>

DropCache(s) ==
    /\ At(s, "drop_cache")
    /\ cache' = [cache EXCEPT ![stmt[s].table] = None]
    /\ Answer(s)
    /\ UNCHANGED <<engine, up, faults, leaked>>

-----------------------------------------------------------------------------
(* Catalog::get_schema and the statements that use it.                     *)

GetSchema(s) ==
    /\ At(s, "get_schema")
    /\ LET t == stmt[s].table
           known == IF cache[t] # None THEN cache[t] ELSE catalog[t]
       IN  IF known = None
           THEN Answer(s)
           ELSE /\ schema' = [schema EXCEPT ![s] = known]
                /\ GoTo(s, IF cache[t] # None THEN stmt[s].kind ELSE "fill_cache")
                /\ UNCHANGED <<stmt, todo>>
    /\ UNCHANGED <<engine, cache, up, faults, leaked>>

FillCache(s) ==
    /\ At(s, "fill_cache")
    /\ cache' = [cache EXCEPT ![stmt[s].table] = schema[s]]
    /\ GoTo(s, stmt[s].kind)
    /\ UNCHANGED <<engine, up, stmt, schema, todo, faults, leaked>>

\* Mutant: NOT NULL is only checked for the primary key.
RefusedOnlyPk(s) == stmt[s].pk = Null

\* NOT NULL, which holds for every primary key.
Refused(s) == stmt[s].pk = Null \/ (schema[s].strict /\ stmt[s].val = Null)

\* Mutant: no look at the key.
InsertCheckUnchecked(s) ==
    /\ At(s, "insert")
    /\ IF Refused(s) THEN Answer(s) ELSE GoTo(s, "put_row") /\ UNCHANGED <<stmt, schema, todo>>
    /\ UNCHANGED <<engine, cache, up, faults, leaked>>

\* exec_insert up to the look for a duplicate.
InsertCheck(s) ==
    /\ At(s, "insert")
    /\ IF Refused(s) \/ rows[stmt[s].table][stmt[s].pk] # None
       THEN Answer(s)
       ELSE GoTo(s, "put_row") /\ UNCHANGED <<stmt, schema, todo>>
    /\ UNCHANGED <<engine, cache, up, faults, leaked>>

InsertRow(s) ==
    /\ At(s, "put_row")
    /\ LET t == stmt[s].table  k == stmt[s].pk
           new == [pk |-> k, val |-> stmt[s].val, by |-> "insert"]
       IN  \/ WriteRow(t, k, new) /\ leaked' = leaked \ {<<t, k>>}
           \/ FailRow(t, k, new) /\ UNCHANGED leaked
    /\ Answer(s)
    /\ UNCHANGED <<cache, up>>

Select(s) ==
    /\ At(s, "select")
    /\ Answer(s)
    /\ UNCHANGED <<engine, cache, up, faults, leaked>>

\* exec_update and exec_delete read all rows of the table first.
ScanTable(s) ==
    /\ pc[s] \in {"update", "delete"} /\ up
    /\ LET all == ScanRows(stmt[s].table) IN
         todo' = [todo EXCEPT ![s] =
                     [k \in {j \in DOMAIN all : Matches(stmt[s].where, all[j])} |-> all[k]]]
    /\ GoTo(s, IF pc[s] = "update" THEN "put_rows" ELSE "remove_rows")
    /\ UNCHANGED <<engine, cache, up, stmt, schema, faults, leaked>>

\* The row of the scan with the assignment made; no constraint is checked.
Assigned(q, r) ==
    [pk  |-> IF q.column = "pk" THEN q.value ELSE r.pk,
     val |-> IF q.column = "val" THEN q.value ELSE r.val,
     by  |-> "update"]

\* Mutant: a row with a new primary key moves to it.
UpdateRowMoves(s) ==
    /\ At(s, "put_rows") /\ todo[s] # NoRows
    /\ LET t == stmt[s].table  new == Assigned(stmt[s], todo[s][FirstKey(todo[s])]) IN
         new.pk # Null /\ (WriteRow(t, new.pk, new) \/ FailRow(t, new.pk, new))
    /\ todo' = [todo EXCEPT ![s] = Rest(@)]
    /\ UNCHANGED <<cache, up, pc, stmt, schema, leaked>>

\* The row goes back under the key it was read from; a failed put is ignored.
UpdateRow(s) ==
    /\ At(s, "put_rows") /\ todo[s] # NoRows
    /\ LET t == stmt[s].table  k == FirstKey(todo[s])  new == Assigned(stmt[s], todo[s][k]) IN
         WriteRow(t, k, new) \/ FailRow(t, k, new)
    /\ todo' = [todo EXCEPT ![s] = Rest(@)]
    /\ UNCHANGED <<cache, up, pc, stmt, schema, leaked>>

DeleteRow(s) ==
    /\ At(s, "remove_rows") /\ todo[s] # NoRows
    /\ LET t == stmt[s].table  k == FirstKey(todo[s]) IN
         \/ WriteRow(t, k, None) /\ leaked' = leaked \ {<<t, k>>}
         \/ FailRow(t, k, None) /\ UNCHANGED leaked
    /\ todo' = [todo EXCEPT ![s] = Rest(@)]
    /\ UNCHANGED <<cache, up, pc, stmt, schema>>

RowsDone(s) ==
    /\ At(s, "put_rows") \/ At(s, "remove_rows")
    /\ todo[s] = NoRows
    /\ Answer(s)
    /\ UNCHANGED <<engine, cache, up, faults, leaked>>

-----------------------------------------------------------------------------
\* The server dies: statements end where they are.
Crash ==
    /\ up /\ Fault
    /\ up' = FALSE
    /\ pc' = [s \in Session |-> "idle"]
    /\ stmt' = [s \in Session |-> None]
    /\ schema' = [s \in Session |-> None]
    /\ todo' = [s \in Session |-> NoRows]
    /\ cache' = [t \in Table |-> None]
    /\ UNCHANGED <<engine, leaked>>

\* What a restart makes of an entry.
Replayed(e, l) == IF l = Nothing THEN e ELSE l

\* The engine executes the records of failed calls; Catalog::load_cache.  The rows of a table
\* whose schema changes under them are no longer rows that the table accepted.
Restart ==
    /\ ~up
    /\ up' = TRUE
    /\ catalog' = [t \in Table |-> Replayed(catalog[t], lateCatalog[t])]
    /\ rowid' = [t \in Table |-> Replayed(rowid[t], lateRowid[t])]
    /\ rows' = [t \in Table |-> [k \in Pk |-> Replayed(rows[t][k], lateRows[t][k])]]
    /\ lateCatalog' = NoLate /\ lateRowid' = NoLate /\ lateRows' = NoLateRows
    /\ cache' = catalog'
    /\ leaked' = leaked \cup {p \in Table \X Pk : lateCatalog[p[1]] # Nothing /\ rows'[p[1]][p[2]] # None}
    /\ UNCHANGED <<session, faults>>

Step(s) ==
    \/ CreateTable(s) \/ PutSchema(s) \/ PutMeta(s) \/ CacheSchema(s)
    \/ DropTable(s) \/ DropRow(s) \/ DropMeta(s) \/ DropSchema(s) \/ DropCache(s)
    \/ GetSchema(s) \/ FillCache(s)
    \/ InsertCheck(s) \/ InsertRow(s)
    \/ Select(s)
    \/ ScanTable(s) \/ UpdateRow(s) \/ DeleteRow(s) \/ RowsDone(s)

Next ==
    \/ \E s \in Session : (\E q \in Stmt : Issue(s, q)) \/ Step(s)
    \/ Crash
    \/ Restart

Spec == Init /\ [][Next]_vars

-----------------------------------------------------------------------------
(* Properties.                                                             *)

\* What a scan of some rows may hold.
Scans == UNION {[D -> Row] : D \in SUBSET Pk}

TypeOK ==
    /\ catalog \in [Table -> Schema \cup {None}]
    /\ rowid \in [Table -> Nat \cup {None}]
    /\ rows \in [Table -> [Pk -> Row \cup {None}]]
    /\ lateCatalog \in [Table -> Schema \cup {None, Nothing}]
    /\ lateRowid \in [Table -> Nat \cup {None, Nothing}]
    /\ lateRows \in [Table -> [Pk -> Row \cup {None, Nothing}]]
    /\ cache \in [Table -> Schema \cup {None}]
    /\ up \in BOOLEAN
    /\ pc \in [Session -> Labels]
    /\ stmt \in [Session -> Stmt \cup {None}]
    /\ schema \in [Session -> Schema \cup {None}]
    /\ todo \in [Session -> Scans]
    /\ leaked \subseteq Table \X Pk
    /\ faults \in 0..MaxFaults

\* drop_table() removes rows, counter and schema in such an order that no crash leaves rows
\* without a table, so a table created later starts empty, but for rows whose removal failed
\* or whose key its scan cannot see, and rows that come back with the record of a failed put;
\* and for the rows of a table that loses its schema to the record of a failed call.
NoOrphanRows ==
    \A t \in Table, k \in Pk :
        catalog[t] = None /\ rows[t][k] # None => <<t, k>> \in leaked

\* What the cache answers is what the engine holds, except for a table being dropped.
CacheCoherent ==
    \A t \in Table :
        cache[t] # None =>
            \/ cache[t] = catalog[t]
            \/ \E s \in Session : pc[s] = "drop_cache" /\ stmt[s].table = t

\* A row inserted into a table satisfies that table's constraints, across drops, failed
\* creations, crashes and the records of failed calls that a restart executes; only UPDATE,
\* which checks none, and rows that outlived their table or its schema can break them.
InsertedRowsConform ==
    \A t \in Table, k \in Pk :
        LET r == rows[t][k] IN
            r # None /\ r.by = "insert" /\ catalog[t] # None /\ <<t, k>> \notin leaked =>
                r.pk = k /\ (catalog[t].strict => r.val # Null)

\* UPDATE writes back only what is still there: without a second session nothing removes a row
\* between the scan of a statement and its put, whatever failed before, and an assignment to
\* the primary key does not move the row to a place of its own.
UpdateNeverCreates ==
    [][\A t \in Table, k \in Pk :
          rows[t][k] = None /\ rows'[t][k] # None => rows'[t][k].by = "insert"]_vars

\* INSERT refuses an existing primary key: it never replaces a row.
InsertNeverOverwrites ==
    [][\A t \in Table, k \in Pk :
          rows[t][k] # None /\ rows'[t][k] # None /\ rows'[t][k] # rows[t][k]
              => rows'[t][k].by = "update"]_vars

-----------------------------------------------------------------------------
(* The inductive invariant.  StatementInv holds for any number of sessions; the rest *)
(* needs Alone, without which the invariants above are false.                        *)

Alone == \A s1, s2 \in Session : s1 = s2

\* The labels at which a session works with a schema.
WithSchema == {"fill_cache", "insert", "select", "update", "delete", "put_row", "put_rows", "remove_rows"}

\* A session is at a label of its own statement, and has what that label needs.
StatementInv(s) ==
    /\ pc[s] # "idle" => stmt[s] \in Stmt
    /\ pc[s] \in {"create", "put_schema", "put_meta", "cache_schema"} => stmt[s].kind = "create"
    /\ pc[s] \in {"drop", "drop_rows", "drop_schema", "drop_cache"} => stmt[s].kind = "drop"
    /\ pc[s] \in {"get_schema", "fill_cache"} => stmt[s].kind \in {"insert", "select", "update", "delete"}
    /\ pc[s] \in {"insert", "put_row"} => stmt[s].kind = "insert"
    /\ pc[s] \in {"update", "put_rows"} => stmt[s].kind = "update"
    /\ pc[s] \in {"delete", "remove_rows"} => stmt[s].kind = "delete"
    /\ pc[s] \in WithSchema => schema[s] # None
    /\ pc[s] = "put_row" => ~Refused(s)
    /\ ~up => pc[s] = "idle"

\* Every row of a table that is there, or comes back at a restart, outlived the table.
Abandoned(t) == \A k \in Pk : rows[t][k] # None \/ lateRows[t][k] \in Row => <<t, k>> \in leaked

\* drop_table() has dealt with the rows its scan can see, but for those still in its list.
Dropped(t, except) == \A k \in Pk \ (Hidden \cup except) : rows[t][k] # None => <<t, k>> \in leaked

\* The record of a failed INSERT is for a key without a row, that of a failed UPDATE for a row
\* that is still there: a restart executes them as the statements would have been.
LateInv ==
    \A t \in Table, k \in Pk :
        LET r == lateRows[t][k] IN
            r \in Row =>
                /\ rows[t][k] = None <=> r.by = "insert"
                /\ r.by = "insert" /\ catalog[t] # None /\ <<t, k>> \notin leaked =>
                       r.pk = k /\ (catalog[t].strict => r.val # Null)

\* Catalog and cache during a statement: create_table() runs where nothing is cached and has
\* written its schema; a statement works with the schema of the catalog, cached before the
\* first row is touched.
SchemaInv(s) ==
    LET t == stmt[s].table IN
        /\ pc[s] \in {"put_schema", "put_meta", "cache_schema"} => cache[t] = None
        /\ pc[s] \in {"put_meta", "cache_schema"} => catalog[t] = stmt[s].schema
        /\ pc[s] \in WithSchema => catalog[t] = schema[s]
        /\ pc[s] \in WithSchema \ {"fill_cache"} => cache[t] = schema[s]

\* The rows a statement is about to write are as it found them, and drop_table() has dealt
\* with every row that is not in its list any more.
RowInv(s) ==
    LET t == stmt[s].table IN
        /\ pc[s] = "put_row" => rows[t][stmt[s].pk] = None
        /\ pc[s] = "put_rows" => \A k \in DOMAIN todo[s] : rows[t][k] # None
        /\ pc[s] = "drop_rows" => Dropped(t, DOMAIN todo[s])
        /\ pc[s] = "drop_schema" => Dropped(t, {})
        /\ pc[s] = "drop_cache" => Abandoned(t)

\* A table without a schema, or one the cache does not know, has no rows but leaked ones: so
\* a second create_table() after a failed one changes the constraints of no row.
UnknownInv ==
    \A t \in Table : catalog[t] = None \/ (up /\ cache[t] = None) => Abandoned(t)

\* The inductive invariant of a session that is alone: what each statement has checked and
\* cached still holds when it writes, and rows are left behind only by statements cut short.
AloneInv ==
    /\ \A s \in Session : SchemaInv(s) /\ RowInv(s)
    /\ LateInv /\ UnknownInv /\ CacheCoherent /\ InsertedRowsConform

=============================================================================
