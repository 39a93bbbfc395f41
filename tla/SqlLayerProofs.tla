--------------------------- MODULE SqlLayerProofs ---------------------------
(***************************************************************************)
(* Tables, schemas and rows under SQL statements, for every set of tables, *)
(* keys and values and any number of failed engine calls and crashes.      *)
(* Types hold for any number of sessions; the rest for one at a time, as   *)
(* insert_race shows that two are too many.                                *)
(***************************************************************************)
EXTENDS SqlLayer, TLAPS, WellFoundedInduction

-----------------------------------------------------------------------------
(* Statements and scans.                                                   *)

\* What a statement of each kind has.
LEMMA StmtFields ==
    ASSUME NEW q \in Stmt
    PROVE  /\ q.kind \in Kinds /\ q.table \in Table
           /\ q.kind = "create" => q.schema \in Schema
           /\ q.kind = "insert" => q.pk \in Pk \cup {Null} /\ q.val \in Val \cup {Null}
           /\ q.kind = "update" => /\ q.column \in {"pk", "val"}
                                   /\ q.column = "pk" => q.value \in Pk \cup {Null}
                                   /\ q.column = "val" => q.value \in Val \cup {Null}
BY DEF Stmt, Kinds

\* A non-empty set of natural keys has a least one.
LEMMA LeastKey ==
    ASSUME NEW D \in SUBSET Pk, D # {}
    PROVE  \E k \in D : \A j \in D : k <= j
<1>1. D \subseteq Nat
  BY SqlConstants
<1>2. PICK k \in D : \A j \in D : ~(<<j, k>> \in OpToRel(<, Nat))
  BY <1>1, NatLessThanWellFounded, WFMin
<1>3. \A j \in D : <<j, k>> \in Nat \X Nat
  BY <1>1
<1>4. \A j \in D : ~(j < k)
  BY <1>2, <1>3 DEF OpToRel
<1> QED
  BY <1>1, <1>4

\* The loops over a scan take a key of it, and leave a smaller scan.
LEMMA ScanLoop ==
    ASSUME NEW f \in Scans, f # NoRows
    PROVE  /\ FirstKey(f) \in DOMAIN f /\ FirstKey(f) \in Pk /\ f[FirstKey(f)] \in Row
           /\ Rest(f) \in Scans /\ DOMAIN Rest(f) = DOMAIN f \ {FirstKey(f)}
<1>1. PICK D \in SUBSET Pk : f \in [D -> Row]
  BY DEF Scans
<1>2. D # {}
  BY <1>1 DEF NoRows
<1>3. FirstKey(f) \in D
  BY <1>1, <1>2, LeastKey DEF FirstKey
<1>4. Rest(f) \in [D \ {FirstKey(f)} -> Row]
  BY <1>1 DEF Rest
<1> QED
  BY <1>1, <1>3, <1>4 DEF Scans

LEMMA NoRowsType == NoRows \in Scans
<1>1. NoRows \in [{} -> Row]
  BY DEF NoRows
<1> QED
  BY <1>1 DEF Scans

\* A scan of a table, or of the part of it that a condition selects, is made of its rows.
LEMMA ScanType ==
    ASSUME TypeOK, NEW t \in Table, NEW w
    PROVE  /\ ScanRows(t) \in Scans
           /\ DOMAIN ScanRows(t) = {k \in Pk \ Hidden : rows[t][k] # None}
           /\ LET f == [k \in {j \in DOMAIN ScanRows(t) : Matches(w, ScanRows(t)[j])} |-> ScanRows(t)[k]]
              IN  f \in Scans /\ \A k \in DOMAIN f : rows[t][k] # None
<1> DEFINE D == {k \in Pk \ Hidden : rows[t][k] # None}
           S == ScanRows(t)
           E == {j \in D : Matches(w, S[j])}
<1>1. S \in [D -> Row]
  BY DEF ScanRows, TypeOK
<1>2. E \in SUBSET Pk /\ D \in SUBSET Pk /\ \A k \in E : rows[t][k] # None
  OBVIOUS
<1>3. [k \in E |-> S[k]] \in [E -> Row]
  <2> HIDE DEF S
  <2> QED
    BY <1>1
<1>4. DOMAIN S = D
  BY <1>1
<1> HIDE DEF S, D, E
<1>5. S \in Scans /\ [k \in E |-> S[k]] \in Scans
  BY <1>1, <1>2, <1>3 DEF Scans
<1>6. [k \in {j \in DOMAIN S : Matches(w, S[j])} |-> S[k]] = [k \in E |-> S[k]]
  BY <1>4 DEF E
<1>7. /\ S \in Scans /\ DOMAIN S = D
      /\ LET f == [k \in {j \in DOMAIN S : Matches(w, S[j])} |-> S[k]]
         IN  f \in Scans /\ \A k \in DOMAIN f : rows[t][k] # None
  BY <1>2, <1>4, <1>5, <1>6
<1> QED
  BY <1>7 DEF S, D

-----------------------------------------------------------------------------
(* Types and labels, for any number of sessions.                           *)

SessionType ==
    /\ pc \in [Session -> Labels]
    /\ stmt \in [Session -> Stmt \cup {None}]
    /\ schema \in [Session -> Schema \cup {None}]
    /\ todo \in [Session -> Scans]

LEMMA AnswerType ==
    ASSUME SessionType, NEW s \in Session, Answer(s)
    PROVE  SessionType' /\ pc'[s] = "idle"
<1>1. pc' \in [Session -> Labels] /\ pc'[s] = "idle"
  BY DEF Answer, SessionType, Labels
<1>2. stmt' \in [Session -> Stmt \cup {None}] /\ schema' \in [Session -> Schema \cup {None}]
  BY DEF Answer, SessionType
<1>3. todo' \in [Session -> Scans]
  BY NoRowsType DEF Answer, SessionType
<1> QED
  BY <1>1, <1>2, <1>3 DEF SessionType

LEMMA GoToType ==
    ASSUME SessionType, NEW s \in Session, NEW l \in Labels, GoTo(s, l)
    PROVE  pc' \in [Session -> Labels] /\ pc'[s] = l
BY DEF GoTo, SessionType

LEMMA FaultType ==
    ASSUME faults \in 0..MaxFaults, Fault
    PROVE  faults' \in 0..MaxFaults
BY SqlConstants DEF Fault

\* A session at a label has the statement and the schema for it, so that no step reads a
\* field its statement does not have.
LEMMA AtLabel ==
    ASSUME TypeOK, NEW s \in Session, StatementInv(s), pc[s] # "idle"
    PROVE  /\ stmt[s] \in Stmt /\ stmt[s].table \in Table /\ stmt[s].kind \in Kinds
           /\ pc[s] \in {"put_schema", "put_meta", "cache_schema"} => stmt[s].schema \in Schema
           /\ pc[s] \in {"insert", "put_row"} => stmt[s].pk \in Pk \cup {Null} /\ stmt[s].val \in Val \cup {Null}
           /\ pc[s] = "put_row" => stmt[s].pk \in Pk
           /\ pc[s] \in WithSchema => schema[s] \in Schema
           /\ pc[s] = "put_rows" => \A r \in Row : Assigned(stmt[s], r) \in Row
<1>1. stmt[s] \in Stmt /\ stmt[s].table \in Table /\ stmt[s].kind \in Kinds
  BY StmtFields DEF StatementInv
<1>2. pc[s] \in {"put_schema", "put_meta", "cache_schema"} => stmt[s].schema \in Schema
  BY <1>1, StmtFields DEF StatementInv
<1>3. pc[s] \in {"insert", "put_row"} => stmt[s].pk \in Pk \cup {Null} /\ stmt[s].val \in Val \cup {Null}
  BY <1>1, StmtFields DEF StatementInv
<1>4. pc[s] = "put_row" => stmt[s].pk \in Pk
  BY <1>3 DEF StatementInv, Refused
<1>5. pc[s] \in WithSchema => schema[s] \in Schema
  BY DEF TypeOK, StatementInv
<1>6. ASSUME pc[s] = "put_rows", NEW r \in Row PROVE Assigned(stmt[s], r) \in Row
  <2>1. /\ stmt[s].column \in {"pk", "val"}
        /\ stmt[s].column = "pk" => stmt[s].value \in Pk \cup {Null}
        /\ stmt[s].column = "val" => stmt[s].value \in Val \cup {Null}
    BY <1>1, <1>6, StmtFields DEF StatementInv
  <2>2. r.pk \in Pk \cup {Null} /\ r.val \in Val \cup {Null}
    BY DEF Row
  <2> QED
    BY <2>1, <2>2 DEF Assigned, Row
<1> QED
  BY <1>1, <1>2, <1>3, <1>4, <1>5, <1>6

\* A row goes into a table of rows, or a record for it into the log.
LEMMA PutRow ==
    ASSUME NEW S, NEW f \in [Table -> [Pk -> S]], NEW t \in Table, NEW k \in Pk, NEW r \in S
    PROVE  /\ [f EXCEPT ![t][k] = r] \in [Table -> [Pk -> S]]
           /\ [f EXCEPT ![t][k] = r][t][k] = r
           /\ \A u \in Table, j \in Pk : <<u, j>> # <<t, k>> => [f EXCEPT ![t][k] = r][u][j] = f[u][j]
OBVIOUS

StoreType ==
    /\ catalog \in [Table -> Schema \cup {None}]
    /\ rowid \in [Table -> Nat \cup {None}]
    /\ rows \in [Table -> [Pk -> Row \cup {None}]]
    /\ lateCatalog \in [Table -> Schema \cup {None, Nothing}]
    /\ lateRowid \in [Table -> Nat \cup {None, Nothing}]
    /\ lateRows \in [Table -> [Pk -> Row \cup {None, Nothing}]]
    /\ faults \in 0..MaxFaults

EngineType ==
    /\ StoreType
    /\ cache \in [Table -> Schema \cup {None}]
    /\ up \in BOOLEAN
    /\ leaked \subseteq Table \X Pk

LEMMA NoLateType ==
    /\ NoLate \in [Table -> Schema \cup {None, Nothing}]
    /\ NoLate \in [Table -> Nat \cup {None, Nothing}]
    /\ NoLateRows \in [Table -> [Pk -> Row \cup {None, Nothing}]]
BY DEF NoLate, NoLateRows

\* Calls of the engine, failed or not, keep the types of what it holds.
LEMMA SchemaCall ==
    ASSUME StoreType, NEW t \in Table, NEW e \in Schema \cup {None},
           WriteSchema(t, e) \/ FailSchema(t, e)
    PROVE  StoreType'
<1>1. CASE WriteSchema(t, e)
  <2>1. catalog' \in [Table -> Schema \cup {None}]
    BY <1>1 DEF WriteSchema, StoreType
  <2>2. [lateCatalog EXCEPT ![t] = Nothing] \in [Table -> Schema \cup {None, Nothing}]
    BY DEF StoreType
  <2> QED
    BY <1>1, <2>1, <2>2, NoLateType DEF WriteSchema, StoreType, Logged
<1>2. CASE FailSchema(t, e)
  <2>1. [lateCatalog EXCEPT ![t] = e] \in [Table -> Schema \cup {None, Nothing}]
    BY DEF StoreType
  <2> QED
    BY <1>2, <2>1, FaultType DEF FailSchema, StoreType
<1> QED
  BY <1>1, <1>2

LEMMA MetaCall ==
    ASSUME StoreType, NEW t \in Table, NEW e \in Nat \cup {None},
           WriteMeta(t, e) \/ FailMeta(t, e)
    PROVE  StoreType'
<1>1. CASE WriteMeta(t, e)
  <2>1. rowid' \in [Table -> Nat \cup {None}]
    BY <1>1 DEF WriteMeta, StoreType
  <2>2. [lateRowid EXCEPT ![t] = Nothing] \in [Table -> Nat \cup {None, Nothing}]
    BY DEF StoreType
  <2> QED
    BY <1>1, <2>1, <2>2, NoLateType DEF WriteMeta, StoreType, Logged
<1>2. CASE FailMeta(t, e)
  <2>1. [lateRowid EXCEPT ![t] = e] \in [Table -> Nat \cup {None, Nothing}]
    BY DEF StoreType
  <2> QED
    BY <1>2, <2>1, FaultType DEF FailMeta, StoreType
<1> QED
  BY <1>1, <1>2

LEMMA RowCall ==
    ASSUME StoreType, NEW t \in Table, NEW k \in Pk, NEW e \in Row \cup {None},
           WriteRow(t, k, e) \/ FailRow(t, k, e)
    PROVE  StoreType'
<1>a. lateRows \in [Table -> [Pk -> Row \cup {None, Nothing}]] /\ rows \in [Table -> [Pk -> Row \cup {None}]]
  BY DEF StoreType
<1>1. CASE WriteRow(t, k, e)
  <2>1. rows' \in [Table -> [Pk -> Row \cup {None}]]
    BY <1>1, <1>a, PutRow DEF WriteRow
  <2>2. [lateRows EXCEPT ![t][k] = Nothing] \in [Table -> [Pk -> Row \cup {None, Nothing}]]
    BY <1>a
  <2> QED
    BY <1>1, <2>1, <2>2, NoLateType DEF WriteRow, StoreType, Logged
<1>2. CASE FailRow(t, k, e)
  <2>1. [lateRows EXCEPT ![t][k] = e] \in [Table -> [Pk -> Row \cup {None, Nothing}]]
    BY <1>a
  <2> QED
    BY <1>2, <2>1, FaultType DEF FailRow, StoreType
<1> QED
  BY <1>1, <1>2

LEMMA SameStore ==
    ASSUME StoreType, UNCHANGED <<engine, faults>>
    PROVE  StoreType'
BY DEF StoreType, engine

LEMMA CreateType ==
    ASSUME TypeOK, NEW s \in Session, StatementInv(s),
           CreateTable(s) \/ PutSchema(s) \/ PutMeta(s) \/ CacheSchema(s)
    PROVE  EngineType' /\ SessionType'
<1>a. EngineType /\ StoreType /\ SessionType
  BY DEF TypeOK, EngineType, StoreType, SessionType
<1>b. stmt[s].table \in Table
  BY AtLabel DEF CreateTable, PutSchema, PutMeta, CacheSchema, At
<1>1. CASE CreateTable(s)
  <2>1. EngineType'
    BY <1>1, <1>a, SameStore DEF CreateTable, EngineType
  <2>2. CASE Answer(s)
    BY <2>1, <2>2, <1>a, AnswerType
  <2>3. CASE GoTo(s, "put_schema") /\ UNCHANGED <<stmt, schema, todo>>
    BY <2>1, <2>3, <1>a, GoToType DEF SessionType, Labels
  <2> QED
    BY <1>1, <2>2, <2>3 DEF CreateTable
<1>2. CASE PutSchema(s)
  <2>1. stmt[s].schema \in Schema
    BY <1>2, AtLabel DEF PutSchema, At
  <2>2. StoreType'
    BY <1>2, <1>a, <1>b, <2>1, SchemaCall DEF PutSchema
  <2>3. EngineType'
    BY <1>2, <1>a, <2>2 DEF PutSchema, EngineType
  <2>4. CASE Answer(s)
    BY <2>3, <2>4, <1>a, AnswerType
  <2>5. CASE GoTo(s, "put_meta") /\ UNCHANGED <<stmt, schema, todo>>
    BY <2>3, <2>5, <1>a, GoToType DEF SessionType, Labels
  <2> QED
    BY <1>2, <2>4, <2>5 DEF PutSchema
<1>3. CASE PutMeta(s)
  <2>1. StoreType'
    BY <1>3, <1>a, <1>b, MetaCall DEF PutMeta
  <2>2. EngineType'
    BY <1>3, <1>a, <2>1 DEF PutMeta, EngineType
  <2>3. CASE Answer(s)
    BY <2>2, <2>3, <1>a, AnswerType
  <2>4. CASE GoTo(s, "cache_schema") /\ UNCHANGED <<stmt, schema, todo>>
    BY <2>2, <2>4, <1>a, GoToType DEF SessionType, Labels
  <2> QED
    BY <1>3, <2>3, <2>4 DEF PutMeta
<1>4. CASE CacheSchema(s)
  <2>1. stmt[s].schema \in Schema
    BY <1>4, AtLabel DEF CacheSchema, At
  <2>2. StoreType'
    BY <1>4, <1>a, SameStore DEF CacheSchema
  <2> QED
    BY <1>4, <1>a, <2>1, <2>2, AnswerType DEF CacheSchema, EngineType
<1> QED
  BY <1>1, <1>2, <1>3, <1>4

LEMMA DropType ==
    ASSUME TypeOK, NEW s \in Session, StatementInv(s),
           DropTable(s) \/ DropRow(s) \/ DropMeta(s) \/ DropSchema(s) \/ DropCache(s)
    PROVE  EngineType' /\ SessionType'
<1>a. EngineType /\ StoreType /\ SessionType
  BY DEF TypeOK, EngineType, StoreType, SessionType
<1>b. stmt[s].table \in Table
  BY AtLabel DEF DropTable, DropRow, DropMeta, DropSchema, DropCache, At
<1>1. CASE DropTable(s)
  <2>1. EngineType'
    BY <1>1, <1>a, SameStore DEF DropTable, EngineType
  <2>2. CASE Answer(s)
    BY <2>1, <2>2, <1>a, AnswerType
  <2>3. CASE /\ todo' = [todo EXCEPT ![s] = ScanRows(stmt[s].table)]
             /\ GoTo(s, "drop_rows") /\ UNCHANGED <<stmt, schema>>
    <3>1. ScanRows(stmt[s].table) \in Scans
      BY <1>b, ScanType
    <3>2. pc' \in [Session -> Labels]
      BY <2>3, <1>a, GoToType DEF Labels
    <3>3. SessionType'
      BY <2>3, <1>a, <3>1, <3>2 DEF SessionType
    <3> QED
      BY <2>1, <3>3
  <2> QED
    BY <1>1, <2>2, <2>3 DEF DropTable
<1>2. CASE DropRow(s)
  <2> DEFINE t == stmt[s].table  k == FirstKey(todo[s])
  <2>1. k \in Pk /\ Rest(todo[s]) \in Scans
    BY <1>2, <1>a, ScanLoop DEF DropRow, SessionType
  <2>2. SessionType'
    BY <1>2, <1>a, <2>1 DEF DropRow, SessionType
  <2>3. /\ WriteRow(t, k, None) \/ FailRow(t, k, None)
        /\ leaked' \in {leaked \ {<<t, k>>}, leaked \cup {<<t, k>>}}
        /\ UNCHANGED <<cache, up>>
    BY <1>2 DEF DropRow
  <2> HIDE DEF k
  <2>4. StoreType'
    BY <1>a, <1>b, <2>1, <2>3, RowCall
  <2> QED
    BY <1>a, <1>b, <2>1, <2>2, <2>3, <2>4 DEF EngineType
<1>3. CASE DropMeta(s)
  <2>1. SessionType'
    BY <1>3, <1>a, GoToType DEF DropMeta, SessionType, Labels
  <2>2. StoreType'
    BY <1>3, <1>a, <1>b, MetaCall DEF DropMeta
  <2> QED
    BY <1>3, <1>a, <2>1, <2>2 DEF DropMeta, EngineType
<1>4. CASE DropSchema(s)
  <2>1. SessionType'
    BY <1>4, <1>a, GoToType DEF DropSchema, SessionType, Labels
  <2>2. StoreType'
    BY <1>4, <1>a, <1>b, SchemaCall DEF DropSchema
  <2>3. {stmt[s].table} \X Overlooked(stmt[s].table) \subseteq Table \X Pk
    BY <1>b DEF Overlooked
  <2> QED
    BY <1>4, <1>a, <2>1, <2>2, <2>3 DEF DropSchema, EngineType
<1>5. CASE DropCache(s)
  <2>1. StoreType'
    BY <1>5, <1>a, SameStore DEF DropCache
  <2> QED
    BY <1>5, <1>a, <1>b, <2>1, AnswerType DEF DropCache, EngineType
<1> QED
  BY <1>1, <1>2, <1>3, <1>4, <1>5

LEMMA QueryType ==
    ASSUME TypeOK, NEW s \in Session, StatementInv(s),
           \/ GetSchema(s) \/ FillCache(s) \/ InsertCheck(s) \/ InsertRow(s) \/ Select(s)
    PROVE  EngineType' /\ SessionType'
<1>a. EngineType /\ StoreType /\ SessionType
  BY DEF TypeOK, EngineType, StoreType, SessionType
<1>b. stmt[s].table \in Table /\ stmt[s].kind \in Labels
  BY AtLabel DEF GetSchema, FillCache, InsertCheck, InsertRow, Select, At, Labels
<1>1. CASE GetSchema(s)
  <2> DEFINE t == stmt[s].table
             known == IF cache[t] # None THEN cache[t] ELSE catalog[t]
             next == IF cache[t] # None THEN stmt[s].kind ELSE "fill_cache"
  <2>1. EngineType'
    BY <1>1, <1>a, SameStore DEF GetSchema, EngineType
  <2>2. CASE Answer(s)
    BY <2>1, <2>2, <1>a, AnswerType
  <2>3. CASE /\ schema' = [schema EXCEPT ![s] = known]
             /\ GoTo(s, next) /\ UNCHANGED <<stmt, todo>>
    <3>1. known \in Schema \cup {None}
      BY <1>a, <1>b DEF EngineType, StoreType
    <3>2. next \in Labels
      BY <1>b DEF Labels
    <3> HIDE DEF known, next
    <3>3. pc' \in [Session -> Labels]
      BY <2>3, <1>a, <3>2, GoToType
    <3>4. SessionType'
      BY <2>3, <1>a, <3>1, <3>3 DEF SessionType
    <3> QED
      BY <2>1, <3>4
  <2> QED
    BY <1>1, <2>2, <2>3 DEF GetSchema
<1>2. CASE FillCache(s)
  <2>1. schema[s] \in Schema
    BY <1>2, AtLabel DEF FillCache, At, WithSchema
  <2>2. pc' \in [Session -> Labels]
    BY <1>2, <1>a, <1>b, GoToType DEF FillCache
  <2>3. StoreType'
    BY <1>2, <1>a, SameStore DEF FillCache
  <2> QED
    BY <1>2, <1>a, <2>1, <2>2, <2>3 DEF FillCache, EngineType, SessionType
<1>3. CASE InsertCheck(s)
  <2>1. EngineType'
    BY <1>3, <1>a, SameStore DEF InsertCheck, EngineType
  <2>2. CASE Answer(s)
    BY <2>1, <2>2, <1>a, AnswerType
  <2>3. CASE GoTo(s, "put_row") /\ UNCHANGED <<stmt, schema, todo>>
    BY <2>1, <2>3, <1>a, GoToType DEF SessionType, Labels
  <2> QED
    BY <1>3, <2>2, <2>3 DEF InsertCheck
<1>4. CASE InsertRow(s)
  <2> DEFINE t == stmt[s].table  k == stmt[s].pk
             new == [pk |-> k, val |-> stmt[s].val, by |-> "insert"]
  <2>1. SessionType'
    BY <1>4, <1>a, AnswerType DEF InsertRow
  <2>2. k \in Pk /\ stmt[s].val \in Val \cup {Null}
    BY <1>4, AtLabel DEF InsertRow, At
  <2>3. new \in Row \cup {None}
    BY <2>2 DEF Row
  <2>4. /\ WriteRow(t, k, new) \/ FailRow(t, k, new)
        /\ leaked' \in {leaked \ {<<t, k>>}, leaked} /\ UNCHANGED <<cache, up>>
    BY <1>4 DEF InsertRow
  <2> HIDE DEF new
  <2>5. StoreType'
    BY <1>a, <1>b, <2>2, <2>3, <2>4, RowCall
  <2> QED
    BY <1>a, <2>1, <2>4, <2>5 DEF EngineType
<1>5. CASE Select(s)
  <2>1. StoreType'
    BY <1>5, <1>a, SameStore DEF Select
  <2> QED
    BY <1>5, <1>a, <2>1, AnswerType DEF Select, EngineType
<1> QED
  BY <1>1, <1>2, <1>3, <1>4, <1>5

LEMMA RowsType ==
    ASSUME TypeOK, NEW s \in Session, StatementInv(s),
           ScanTable(s) \/ UpdateRow(s) \/ DeleteRow(s) \/ RowsDone(s)
    PROVE  EngineType' /\ SessionType'
<1>a. EngineType /\ StoreType /\ SessionType
  BY DEF TypeOK, EngineType, StoreType, SessionType
<1>b. stmt[s].table \in Table
  BY AtLabel DEF ScanTable, UpdateRow, DeleteRow, RowsDone, At
<1> DEFINE t == stmt[s].table  k == FirstKey(todo[s])
<1>1. CASE ScanTable(s)
  <2> DEFINE found == [j \in {i \in DOMAIN ScanRows(t) : Matches(stmt[s].where, ScanRows(t)[i])} |-> ScanRows(t)[j]]
             next == IF pc[s] = "update" THEN "put_rows" ELSE "remove_rows"
  <2>1. found \in Scans
    BY <1>b, ScanType
  <2>2. todo' = [todo EXCEPT ![s] = found] /\ GoTo(s, next)
    BY <1>1 DEF ScanTable
  <2>3. next \in Labels
    BY DEF Labels
  <2> HIDE DEF found, next
  <2>4. pc' \in [Session -> Labels]
    BY <2>2, <2>3, <1>a, GoToType
  <2>5. SessionType'
    BY <1>1, <1>a, <2>1, <2>2, <2>4 DEF ScanTable, SessionType
  <2> QED
    BY <1>1, <1>a, <2>5, SameStore DEF ScanTable, EngineType
<1>2. CASE UpdateRow(s)
  <2> DEFINE new == Assigned(stmt[s], todo[s][k])
  <2>1. k \in Pk /\ Rest(todo[s]) \in Scans /\ todo[s][k] \in Row
    BY <1>2, <1>a, ScanLoop DEF UpdateRow, SessionType
  <2>2. SessionType'
    BY <1>2, <1>a, <2>1 DEF UpdateRow, SessionType
  <2>3. new \in Row \cup {None}
    BY <1>2, <2>1, AtLabel DEF UpdateRow, At
  <2>4. (WriteRow(t, k, new) \/ FailRow(t, k, new)) /\ UNCHANGED <<cache, up, leaked>>
    BY <1>2 DEF UpdateRow
  <2> HIDE DEF k, new
  <2>5. StoreType'
    BY <1>a, <1>b, <2>1, <2>3, <2>4, RowCall
  <2> QED
    BY <1>a, <2>2, <2>4, <2>5 DEF EngineType
<1>3. CASE DeleteRow(s)
  <2>1. k \in Pk /\ Rest(todo[s]) \in Scans
    BY <1>3, <1>a, ScanLoop DEF DeleteRow, SessionType
  <2>2. SessionType'
    BY <1>3, <1>a, <2>1 DEF DeleteRow, SessionType
  <2>3. /\ WriteRow(t, k, None) \/ FailRow(t, k, None)
        /\ leaked' \in {leaked \ {<<t, k>>}, leaked} /\ UNCHANGED <<cache, up>>
    BY <1>3 DEF DeleteRow
  <2> HIDE DEF k
  <2>4. StoreType'
    BY <1>a, <1>b, <2>1, <2>3, RowCall
  <2> QED
    BY <1>a, <2>2, <2>3, <2>4 DEF EngineType
<1>4. CASE RowsDone(s)
  <2>1. StoreType'
    BY <1>4, <1>a, SameStore DEF RowsDone
  <2> QED
    BY <1>4, <1>a, <2>1, AnswerType DEF RowsDone, EngineType
<1> QED
  BY <1>1, <1>2, <1>3, <1>4

LEMMA TypeStep ==
    ASSUME TypeOK, \A s \in Session : StatementInv(s), [Next]_vars
    PROVE  TypeOK'
<1> SUFFICES EngineType' /\ SessionType'
  BY DEF TypeOK, EngineType, StoreType, SessionType
<1>a. EngineType /\ StoreType /\ SessionType
  BY DEF TypeOK, EngineType, StoreType, SessionType
<1>1. ASSUME NEW s \in Session, NEW q \in Stmt, Issue(s, q) PROVE EngineType' /\ SessionType'
  <2> DEFINE next == IF q.kind \in {"create", "drop"} THEN q.kind ELSE "get_schema"
  <2>1. next \in Labels
    BY DEF Labels, Kinds
  <2> HIDE DEF next
  <2>2. pc' \in [Session -> Labels]
    BY <1>1, <1>a, <2>1, GoToType DEF Issue, next
  <2>3. SessionType'
    BY <1>1, <1>a, <2>2 DEF Issue, SessionType
  <2> QED
    BY <1>1, <1>a, <2>3, SameStore DEF Issue, EngineType
<1>2. ASSUME NEW s \in Session, Step(s) PROVE EngineType' /\ SessionType'
  BY <1>2, CreateType, DropType, QueryType, RowsType DEF Step
<1>3. CASE Crash
  <2>1. EngineType'
    BY <1>3, <1>a, FaultType DEF Crash, EngineType, StoreType, engine
  <2>2. SessionType'
    BY <1>3, NoRowsType DEF Crash, SessionType, Labels
  <2> QED
    BY <2>1, <2>2
<1>4. CASE Restart
  <2>1. catalog' \in [Table -> Schema \cup {None}]
    BY <1>4, <1>a DEF Restart, StoreType, Replayed
  <2>2. rowid' \in [Table -> Nat \cup {None}]
    BY <1>4, <1>a DEF Restart, StoreType, Replayed
  <2>3. rows' \in [Table -> [Pk -> Row \cup {None}]]
    BY <1>4, <1>a DEF Restart, StoreType, Replayed
  <2>4. leaked' \subseteq Table \X Pk
    BY <1>4, <1>a DEF Restart, EngineType
  <2>5. StoreType'
    BY <1>4, <1>a, <2>1, <2>2, <2>3, NoLateType DEF Restart, StoreType
  <2>6. EngineType'
    BY <1>4, <1>a, <2>1, <2>4, <2>5 DEF Restart, EngineType
  <2> QED
    BY <1>4, <1>a, <2>6 DEF Restart, SessionType, session
<1>5. CASE UNCHANGED vars
  BY <1>5, <1>a DEF vars, EngineType, StoreType, SessionType
<1> QED
  BY <1>1, <1>2, <1>3, <1>4, <1>5 DEF Next

\* A step of one session leaves the others where they are.
OthersSame(s) ==
    \A r \in Session \ {s} :
        pc'[r] = pc[r] /\ stmt'[r] = stmt[r] /\ schema'[r] = schema[r] /\ todo'[r] = todo[r]

LEMMA StepOfOne ==
    ASSUME TypeOK, NEW s \in Session, Step(s) \/ \E q \in Stmt : Issue(s, q)
    PROVE  OthersSame(s) /\ up' = up /\ up
<1>1. /\ pc \in [Session -> Labels] /\ stmt \in [Session -> Stmt \cup {None}]
      /\ schema \in [Session -> Schema \cup {None}] /\ todo \in [Session -> Scans]
  BY DEF TypeOK
<1>2. Answer(s) => OthersSame(s)
  BY <1>1 DEF Answer, OthersSame
<1>3. ASSUME NEW l, GoTo(s, l), UNCHANGED <<stmt, schema, todo>> PROVE OthersSame(s)
  BY <1>1, <1>3 DEF GoTo, OthersSame
<1>4. ASSUME NEW f, todo' = [todo EXCEPT ![s] = f], UNCHANGED <<pc, stmt, schema>> PROVE OthersSame(s)
  BY <1>1, <1>4 DEF OthersSame
<1>5. ASSUME NEW l, NEW f, GoTo(s, l), todo' = [todo EXCEPT ![s] = f], UNCHANGED <<stmt, schema>>
      PROVE  OthersSame(s)
  BY <1>1, <1>5 DEF GoTo, OthersSame
<1>6. ASSUME NEW l, NEW c, GoTo(s, l), schema' = [schema EXCEPT ![s] = c], UNCHANGED <<stmt, todo>>
      PROVE  OthersSame(s)
  BY <1>1, <1>6 DEF GoTo, OthersSame
<1>7. ASSUME NEW l, NEW q, GoTo(s, l), stmt' = [stmt EXCEPT ![s] = q], UNCHANGED <<schema, todo>>
      PROVE  OthersSame(s)
  BY <1>1, <1>7 DEF GoTo, OthersSame
<1>8. CASE CreateTable(s) \/ PutSchema(s) \/ PutMeta(s) \/ CacheSchema(s)
  BY <1>2, <1>3, <1>8, Zenon DEF CreateTable, PutSchema, PutMeta, CacheSchema, At
<1>9. CASE DropTable(s) \/ DropRow(s) \/ DropMeta(s) \/ DropSchema(s) \/ DropCache(s)
  BY <1>2, <1>3, <1>4, <1>5, <1>9 DEF DropTable, DropRow, DropMeta, DropSchema, DropCache, At
<1>10. CASE GetSchema(s) \/ FillCache(s) \/ InsertCheck(s) \/ InsertRow(s) \/ Select(s)
  BY <1>2, <1>3, <1>6, <1>10 DEF GetSchema, FillCache, InsertCheck, InsertRow, Select, At
<1>11. CASE ScanTable(s) \/ UpdateRow(s) \/ DeleteRow(s) \/ RowsDone(s)
  BY <1>2, <1>4, <1>5, <1>11 DEF ScanTable, UpdateRow, DeleteRow, RowsDone, At
<1>12. CASE \E q \in Stmt : Issue(s, q)
  BY <1>7, <1>12 DEF Issue, At
<1> QED
  BY <1>8, <1>9, <1>10, <1>11, <1>12 DEF Step

\* Where a session is and what it works with after each kind of step of its own.
LEMMA IdleInv ==
    ASSUME NEW s \in Session, pc'[s] = "idle"
    PROVE  StatementInv(s)'
BY DEF StatementInv, WithSchema

LEMMA StatementStep ==
    ASSUME TypeOK, NEW s \in Session, StatementInv(s), Step(s) \/ \E q \in Stmt : Issue(s, q)
    PROVE  StatementInv(s)'
<1>a. /\ pc \in [Session -> Labels] /\ stmt \in [Session -> Stmt \cup {None}]
      /\ schema \in [Session -> Schema \cup {None}] /\ SessionType
  BY DEF TypeOK, SessionType
<1>b. up' = up /\ up
  BY StepOfOne
<1>c. Answer(s) => StatementInv(s)'
  BY <1>a, AnswerType, IdleInv
<1>d. ASSUME NEW l, GoTo(s, l) PROVE pc'[s] = l
  BY <1>a, <1>d DEF GoTo
<1>1. CASE CreateTable(s) \/ PutSchema(s) \/ PutMeta(s) \/ CacheSchema(s)
  <2>1. CASE Answer(s)
    BY <1>c, <2>1
  <2>2. CASE UNCHANGED <<stmt, schema>> /\ pc[s] = "create" /\ pc'[s] = "put_schema"
    BY <1>b, <2>2 DEF StatementInv, WithSchema
  <2>3. CASE UNCHANGED <<stmt, schema>> /\ pc[s] = "put_schema" /\ pc'[s] = "put_meta"
    BY <1>b, <2>3 DEF StatementInv, WithSchema
  <2>4. CASE UNCHANGED <<stmt, schema>> /\ pc[s] = "put_meta" /\ pc'[s] = "cache_schema"
    BY <1>b, <2>4 DEF StatementInv, WithSchema
  <2> QED
    BY <1>1, <1>d, <2>1, <2>2, <2>3, <2>4 DEF CreateTable, PutSchema, PutMeta, CacheSchema, At
<1>2. CASE DropTable(s) \/ DropRow(s) \/ DropMeta(s) \/ DropSchema(s) \/ DropCache(s)
  <2>1. CASE Answer(s)
    BY <1>c, <2>1
  <2>2. CASE UNCHANGED <<stmt, schema>> /\ pc[s] = "drop" /\ pc'[s] = "drop_rows"
    BY <1>b, <2>2 DEF StatementInv, WithSchema
  <2>3. CASE UNCHANGED <<pc, stmt, schema>>
    BY <1>b, <2>3 DEF StatementInv, WithSchema, Refused
  <2>4. CASE UNCHANGED <<stmt, schema>> /\ pc[s] = "drop_rows" /\ pc'[s] = "drop_schema"
    BY <1>b, <2>4 DEF StatementInv, WithSchema
  <2>5. CASE UNCHANGED <<stmt, schema>> /\ pc[s] = "drop_schema" /\ pc'[s] = "drop_cache"
    BY <1>b, <2>5 DEF StatementInv, WithSchema
  <2> QED
    BY <1>2, <1>d, <2>1, <2>2, <2>3, <2>4, <2>5 DEF DropTable, DropRow, DropMeta, DropSchema, DropCache, At
<1>3. CASE GetSchema(s)
  <2> DEFINE t == stmt[s].table
             known == IF cache[t] # None THEN cache[t] ELSE catalog[t]
             next == IF cache[t] # None THEN stmt[s].kind ELSE "fill_cache"
  <2>1. CASE Answer(s)
    BY <1>c, <2>1
  <2>2. CASE known # None /\ schema' = [schema EXCEPT ![s] = known] /\ GoTo(s, next) /\ UNCHANGED stmt
    <3>1. schema'[s] # None /\ pc'[s] = next
      BY <1>a, <1>d, <2>2
    <3>2. pc[s] = "get_schema"
      BY <1>3 DEF GetSchema, At
    <3>3. stmt'[s] \in Stmt /\ stmt'[s].kind \in {"insert", "select", "update", "delete"}
      BY <2>2, <3>2 DEF StatementInv
    <3>4. pc'[s] \in {stmt'[s].kind, "fill_cache"}
      BY <2>2, <3>1
    <3> QED
      BY <1>b, <3>1, <3>3, <3>4 DEF StatementInv, WithSchema
  <2> QED
    BY <1>3, <2>1, <2>2 DEF GetSchema
<1>4. CASE FillCache(s)
  <2>1. pc[s] = "fill_cache" /\ pc'[s] = stmt[s].kind /\ stmt'[s] = stmt[s] /\ schema'[s] = schema[s]
    BY <1>4, <1>d DEF FillCache, At
  <2>2. stmt[s] \in Stmt /\ stmt[s].kind \in {"insert", "select", "update", "delete"} /\ schema[s] # None
    BY <2>1 DEF StatementInv, WithSchema
  <2> QED
    BY <1>b, <2>1, <2>2 DEF StatementInv, WithSchema
<1>5. CASE InsertCheck(s) \/ InsertRow(s) \/ Select(s) \/ RowsDone(s)
  <2>1. CASE Answer(s)
    BY <1>c, <2>1
  <2>2. CASE UNCHANGED <<stmt, schema>> /\ pc[s] = "insert" /\ pc'[s] = "put_row" /\ ~Refused(s)
    BY <1>b, <2>2 DEF StatementInv, WithSchema, Refused
  <2> QED
    BY <1>5, <1>d, <2>1, <2>2 DEF InsertCheck, InsertRow, Select, RowsDone, At
<1>6. CASE ScanTable(s) \/ UpdateRow(s) \/ DeleteRow(s)
  <2>1. CASE UNCHANGED <<pc, stmt, schema>>
    BY <1>b, <2>1 DEF StatementInv, WithSchema, Refused
  <2>2. CASE UNCHANGED <<stmt, schema>> /\ pc[s] = "update" /\ pc'[s] = "put_rows"
    BY <1>b, <2>2 DEF StatementInv, WithSchema
  <2>3. CASE UNCHANGED <<stmt, schema>> /\ pc[s] = "delete" /\ pc'[s] = "remove_rows"
    BY <1>b, <2>3 DEF StatementInv, WithSchema
  <2>4. CASE ScanTable(s)
    <3>1. CASE pc[s] = "update"
      BY <1>d, <2>2, <2>4, <3>1 DEF ScanTable
    <3>2. CASE pc[s] = "delete"
      BY <1>d, <2>3, <2>4, <3>2 DEF ScanTable
    <3> QED
      BY <2>4, <3>1, <3>2 DEF ScanTable
  <2> QED
    BY <1>6, <2>1, <2>4 DEF UpdateRow, DeleteRow
<1>7. ASSUME NEW q \in Stmt, Issue(s, q) PROVE StatementInv(s)'
  <2>1. stmt'[s] = q /\ q.kind \in Kinds
    BY <1>7, <1>a, StmtFields DEF Issue
  <2>2. pc'[s] = IF q.kind \in {"create", "drop"} THEN q.kind ELSE "get_schema"
    BY <1>7, <1>d DEF Issue
  <2> QED
    BY <1>b, <2>1, <2>2 DEF StatementInv, WithSchema, Kinds
<1> QED
  BY <1>1, <1>2, <1>3, <1>4, <1>5, <1>6, <1>7 DEF Step

\* The sessions' variables keep their types, and every session is at a label of its own
\* statement with the schema that label needs: no statement reads what it does not have,
\* however the sessions interleave.
THEOREM SqlTypeCorrect == Spec => [](TypeOK /\ \A s \in Session : StatementInv(s))
<1> DEFINE Inv == TypeOK /\ \A s \in Session : StatementInv(s)
<1>1. Init => Inv
  <2> SUFFICES ASSUME Init PROVE Inv
    OBVIOUS
  <2>1. \A s \in Session : StatementInv(s)
    BY DEF Init, StatementInv, WithSchema
  <2>2. todo \in [Session -> Scans]
    BY NoRowsType DEF Init
  <2>3. faults \in 0..MaxFaults
    BY SqlConstants DEF Init
  <2>4. TypeOK
    BY <2>2, <2>3, NoLateType DEF Init, TypeOK, Labels
  <2> QED
    BY <2>1, <2>4
<1>2. Inv /\ [Next]_vars => Inv'
  <2> SUFFICES ASSUME Inv, [Next]_vars, NEW r \in Session PROVE StatementInv(r)'
    BY TypeStep
  <2>1. ASSUME NEW s \in Session, Step(s) \/ \E q \in Stmt : Issue(s, q) PROVE StatementInv(r)'
    <3>1. CASE r = s
      BY <2>1, <3>1, StatementStep
    <3>2. CASE r # s
      <4>1. /\ pc'[r] = pc[r] /\ stmt'[r] = stmt[r] /\ schema'[r] = schema[r]
            /\ up' = up
        BY <2>1, <3>2, StepOfOne DEF OthersSame
      <4> QED
        BY <4>1 DEF StatementInv, Refused
    <3> QED
      BY <3>1, <3>2
  <2>2. CASE Crash
    BY <2>2, IdleInv DEF Crash
  <2>3. CASE Restart
    BY <2>3 DEF Restart, session, StatementInv, Refused
  <2>4. CASE UNCHANGED vars
    BY <2>4 DEF vars, StatementInv, Refused
  <2> QED
    BY <2>1, <2>2, <2>3, <2>4 DEF Next
<1> QED
  BY <1>1, <1>2, PTL DEF Spec

-----------------------------------------------------------------------------
(* One session: schemas, cache and rows.                                   *)

TableInvs == LateInv /\ UnknownInv /\ CacheCoherent /\ InsertedRowsConform

\* What is said of one row.
RowOK(t, k) ==
    LET r == rows[t][k]  l == lateRows[t][k] IN
        /\ l \in Row =>
              /\ r = None <=> l.by = "insert"
              /\ l.by = "insert" /\ catalog[t] # None /\ <<t, k>> \notin leaked =>
                    l.pk = k /\ (catalog[t].strict => l.val # Null)
        /\ catalog[t] = None \/ (up /\ cache[t] = None) =>
              (r # None \/ l \in Row => <<t, k>> \in leaked)
        /\ r # None /\ r.by = "insert" /\ catalog[t] # None /\ <<t, k>> \notin leaked =>
              r.pk = k /\ (catalog[t].strict => r.val # Null)

LEMMA ByRow == TableInvs <=> CacheCoherent /\ \A t \in Table, k \in Pk : RowOK(t, k)
BY DEF TableInvs, LateInv, UnknownInv, Abandoned, InsertedRowsConform, RowOK

LEMMA ByRowNext ==
    ASSUME CacheCoherent', \A t \in Table, k \in Pk : RowOK(t, k)'
    PROVE  TableInvs'
BY DEF TableInvs, LateInv, UnknownInv, Abandoned, InsertedRowsConform, RowOK

\* Writes may truncate the log: what failed calls left in it is kept or forgotten.
LogShrinks == \A t \in Table, k \in Pk : lateRows'[t][k] \in {lateRows[t][k], Nothing}

LEMMA OtherCalls ==
    ASSUME TypeOK, NEW t \in Table, NEW e,
           \/ WriteSchema(t, e) \/ FailSchema(t, e) \/ WriteMeta(t, e) \/ FailMeta(t, e)
    PROVE  LogShrinks /\ rows' = rows
<1>1. lateRows' = lateRows \/ lateRows' = NoLateRows
  BY DEF WriteSchema, FailSchema, WriteMeta, FailMeta, Logged
<1>2. rows' = rows
  BY DEF WriteSchema, FailSchema, WriteMeta, FailMeta
<1> QED
  BY <1>1, <1>2 DEF LogShrinks, NoLateRows

\* A put or remove of a row: it is done and supersedes what was left in the log, or it fails
\* and the log may hold it.
LEMMA RowWritten ==
    ASSUME TypeOK, NEW t \in Table, NEW k \in Pk, NEW e \in Row \cup {None}, WriteRow(t, k, e)
    PROVE  /\ rows'[t][k] = e /\ lateRows'[t][k] = Nothing /\ LogShrinks /\ UNCHANGED catalog
           /\ \A u \in Table, j \in Pk : <<u, j>> # <<t, k>> => rows'[u][j] = rows[u][j]
<1>1. rows \in [Table -> [Pk -> Row \cup {None}]] /\ lateRows \in [Table -> [Pk -> Row \cup {None, Nothing}]]
  BY DEF TypeOK
<1>2. /\ rows'[t][k] = e
      /\ \A u \in Table, j \in Pk : <<u, j>> # <<t, k>> => rows'[u][j] = rows[u][j]
  BY <1>1, PutRow DEF WriteRow
<1> DEFINE f == [lateRows EXCEPT ![t][k] = Nothing]
<1>3. f[t][k] = Nothing /\ \A u \in Table, j \in Pk : f[u][j] \in {lateRows[u][j], Nothing}
  BY <1>1
<1>4. lateRows' = f \/ lateRows' = NoLateRows
  BY DEF WriteRow, Logged
<1> HIDE DEF f
<1> QED
  BY <1>2, <1>3, <1>4 DEF LogShrinks, NoLateRows, WriteRow

LEMMA RowFailed ==
    ASSUME TypeOK, NEW t \in Table, NEW k \in Pk, NEW e, FailRow(t, k, e)
    PROVE  /\ lateRows'[t][k] \in {lateRows[t][k], e} /\ UNCHANGED <<catalog, rows>>
           /\ \A u \in Table, j \in Pk : <<u, j>> # <<t, k>> => lateRows'[u][j] = lateRows[u][j]
<1>1. lateRows \in [Table -> [Pk -> Row \cup {None, Nothing}]]
  BY DEF TypeOK
<1> QED
  BY <1>1 DEF FailRow

LEMMA IdleAloneInv ==
    ASSUME NEW s \in Session, pc'[s] = "idle"
    PROVE  SchemaInv(s)' /\ RowInv(s)'
BY DEF SchemaInv, RowInv, WithSchema

\* A step that only moves the session keeps what is said of tables.
LEMMA MoveKeepsTables ==
    ASSUME Alone, AloneInv, NEW s \in Session, pc[s] # "drop_cache",
           UNCHANGED <<catalog, rows, cache, up, leaked>>, LogShrinks
    PROVE  TableInvs'
<1>1. \A t \in Table : cache[t] # None => cache[t] = catalog[t]
  BY DEF AloneInv, CacheCoherent, Alone
<1>2. CacheCoherent'
  BY <1>1 DEF CacheCoherent
<1>3. ASSUME NEW t \in Table, NEW k \in Pk PROVE RowOK(t, k)'
  <2>1. RowOK(t, k)
    BY ByRow DEF AloneInv, TableInvs
  <2>2. lateRows'[t][k] \in Row => lateRows'[t][k] = lateRows[t][k]
    BY SqlConstants DEF LogShrinks
  <2> QED
    BY <2>1, <2>2 DEF RowOK
<1> QED
  BY <1>2, <1>3, ByRowNext

LEMMA MoveStep ==
    ASSUME Alone, TypeOK, AloneInv, NEW s \in Session, StatementInv(s),
           \/ CreateTable(s) \/ PutMeta(s) \/ DropTable(s) \/ DropMeta(s) \/ GetSchema(s)
           \/ InsertCheck(s) \/ Select(s) \/ ScanTable(s) \/ RowsDone(s)
           \/ \E q \in Stmt : Issue(s, q)
    PROVE  SchemaInv(s)' /\ RowInv(s)' /\ TableInvs'
<1>a. /\ pc \in [Session -> Labels] /\ stmt \in [Session -> Stmt \cup {None}]
      /\ schema \in [Session -> Schema \cup {None}] /\ todo \in [Session -> Scans] /\ SessionType
  BY DEF TypeOK, SessionType
<1>b. UNCHANGED <<catalog, rows, cache, up, leaked>> /\ pc[s] # "drop_cache" /\ LogShrinks
  <2>1. CASE PutMeta(s) \/ DropMeta(s)
    <3>1. stmt[s].table \in Table
      BY <2>1, AtLabel DEF PutMeta, DropMeta, At
    <3>2. LogShrinks
      BY <2>1, <3>1, OtherCalls DEF PutMeta, DropMeta
    <3> QED
      BY <2>1, <3>2 DEF PutMeta, DropMeta, At, WriteMeta, FailMeta
  <2>2. CASE UNCHANGED engine
    <3>1. LogShrinks
      BY <2>2 DEF LogShrinks, engine
    <3> QED
      BY <2>2, <3>1 DEF CreateTable, DropTable, GetSchema, InsertCheck, Select, ScanTable,
             RowsDone, Issue, At, engine, PutMeta, DropMeta
  <2> QED
    BY <2>1, <2>2 DEF CreateTable, DropTable, GetSchema, InsertCheck, Select, ScanTable,
           RowsDone, Issue
<1>c. TableInvs'
  BY <1>b, MoveKeepsTables
<1> SUFFICES SchemaInv(s)' /\ RowInv(s)'
  BY <1>c
<1>d. Answer(s) => SchemaInv(s)' /\ RowInv(s)'
  BY <1>a, AnswerType, IdleAloneInv
<1>e. ASSUME NEW l, GoTo(s, l) PROVE pc'[s] = l
  BY <1>a, <1>e DEF GoTo
<1>f. SchemaInv(s) /\ RowInv(s)
  BY DEF AloneInv
<1>1. CASE CreateTable(s)
  <2>1. CASE cache[stmt[s].table] = None /\ GoTo(s, "put_schema") /\ UNCHANGED <<stmt, schema, todo>>
    BY <1>b, <1>e, <2>1 DEF SchemaInv, RowInv, WithSchema
  <2> QED
    BY <1>1, <1>d, <2>1 DEF CreateTable
<1>2. CASE PutMeta(s)
  <2>1. CASE pc[s] = "put_meta" /\ GoTo(s, "cache_schema") /\ UNCHANGED <<stmt, schema, todo>>
    BY <1>b, <1>e, <1>f, <2>1 DEF SchemaInv, RowInv, WithSchema
  <2> QED
    BY <1>2, <1>d, <2>1 DEF PutMeta, At
<1>3. CASE DropTable(s)
  <2>1. CASE /\ pc[s] = "drop" /\ todo' = [todo EXCEPT ![s] = ScanRows(stmt[s].table)]
             /\ GoTo(s, "drop_rows") /\ UNCHANGED <<stmt, schema>>
    <3>1. stmt[s].table \in Table
      BY <2>1, AtLabel
    <3>2. todo'[s] = ScanRows(stmt[s].table)
      BY <1>a, <2>1
    <3>3. DOMAIN todo'[s] = {k \in Pk \ Hidden : rows[stmt[s].table][k] # None}
      BY <3>1, <3>2, ScanType
    <3> QED
      BY <1>b, <1>e, <2>1, <3>3 DEF SchemaInv, RowInv, WithSchema, Dropped
  <2> QED
    BY <1>3, <1>d, <2>1 DEF DropTable, At
<1>4. CASE DropMeta(s)
  <2>1. DOMAIN todo[s] = {}
    BY <1>4 DEF DropMeta, NoRows
  <2>2. pc[s] = "drop_rows" /\ pc'[s] = "drop_schema" /\ stmt'[s] = stmt[s]
    BY <1>4, <1>e DEF DropMeta, At
  <2> QED
    BY <1>b, <1>f, <2>1, <2>2 DEF SchemaInv, RowInv, WithSchema, Dropped
<1>5. CASE GetSchema(s)
  <2> DEFINE t == stmt[s].table
             known == IF cache[t] # None THEN cache[t] ELSE catalog[t]
             next == IF cache[t] # None THEN stmt[s].kind ELSE "fill_cache"
  <2>1. CASE schema' = [schema EXCEPT ![s] = known] /\ GoTo(s, next) /\ UNCHANGED <<stmt, todo>>
    <3>1. pc[s] = "get_schema" /\ t \in Table
      BY <1>5, AtLabel DEF GetSchema, At
    <3>2. cache[t] # None => cache[t] = catalog[t]
      BY <1>b, <3>1 DEF AloneInv, CacheCoherent, Alone
    <3>3. stmt[s].kind \in {"insert", "select", "update", "delete"}
      BY <3>1 DEF StatementInv
    <3>4. schema'[s] = known /\ pc'[s] = next /\ stmt'[s] = stmt[s]
      BY <1>a, <1>e, <2>1
    <3>5. \/ pc'[s] \in WithSchema \ {"fill_cache", "put_row", "put_rows"} /\ cache[t] # None
          \/ pc'[s] = "fill_cache"
      BY <3>3, <3>4 DEF WithSchema
    <3>6. SchemaInv(s)'
      BY <1>b, <3>2, <3>4, <3>5 DEF SchemaInv, WithSchema
    <3>7. RowInv(s)'
      BY <3>5 DEF RowInv, WithSchema
    <3> QED
      BY <3>6, <3>7
  <2> QED
    BY <1>5, <1>d, <2>1 DEF GetSchema
<1>6. CASE InsertCheck(s)
  <2>1. CASE /\ pc[s] = "insert" /\ rows[stmt[s].table][stmt[s].pk] = None
             /\ GoTo(s, "put_row") /\ UNCHANGED <<stmt, schema, todo>>
    BY <1>b, <1>e, <1>f, <2>1 DEF SchemaInv, RowInv, WithSchema
  <2> QED
    BY <1>6, <1>d, <2>1 DEF InsertCheck, At
<1>7. CASE Select(s) \/ RowsDone(s)
  BY <1>7, <1>d DEF Select, RowsDone
<1>8. CASE ScanTable(s)
  <2> DEFINE t == stmt[s].table
             found == [j \in {i \in DOMAIN ScanRows(t) : Matches(stmt[s].where, ScanRows(t)[i])} |-> ScanRows(t)[j]]
  <2>1. pc[s] \in {"update", "delete"} /\ t \in Table
    BY <1>8, AtLabel DEF ScanTable
  <2>2. \A k \in DOMAIN found : rows[t][k] # None
    BY <2>1, ScanType
  <2>3. todo'[s] = found
    BY <1>8, <1>a DEF ScanTable
  <2>4. pc'[s] \in {"put_rows", "remove_rows"} /\ stmt'[s] = stmt[s] /\ schema'[s] = schema[s]
    BY <1>8, <1>e DEF ScanTable
  <2> HIDE DEF found
  <2>5. SchemaInv(s)'
    BY <1>b, <1>f, <2>1, <2>4 DEF SchemaInv, WithSchema
  <2>6. RowInv(s)'
    BY <1>b, <2>2, <2>3, <2>4 DEF RowInv
  <2> QED
    BY <2>5, <2>6
<1>9. CASE \E q \in Stmt : Issue(s, q)
  <2>1. PICK q \in Stmt : Issue(s, q)
    BY <1>9
  <2>2. pc'[s] = IF q.kind \in {"create", "drop"} THEN q.kind ELSE "get_schema"
    BY <2>1, <1>e DEF Issue
  <2> QED
    BY <2>2 DEF SchemaInv, RowInv, WithSchema
<1> QED
  BY <1>1, <1>2, <1>3, <1>4, <1>5, <1>6, <1>7, <1>8, <1>9

\* create_table() and drop_table() change the schema of a table none of whose rows count, and
\* the cache follows the catalog.
LEMMA SchemaStep ==
    ASSUME Alone, TypeOK, AloneInv, NEW s \in Session, StatementInv(s),
           PutSchema(s) \/ CacheSchema(s) \/ DropSchema(s) \/ DropCache(s) \/ FillCache(s)
    PROVE  SchemaInv(s)' /\ RowInv(s)' /\ TableInvs'
<1> DEFINE t == stmt[s].table
<1>a. /\ pc \in [Session -> Labels] /\ stmt \in [Session -> Stmt \cup {None}] /\ SessionType
      /\ catalog \in [Table -> Schema \cup {None}] /\ cache \in [Table -> Schema \cup {None}]
  BY DEF TypeOK, SessionType
<1>b. t \in Table /\ up /\ up' = up
  BY AtLabel, StepOfOne DEF PutSchema, CacheSchema, DropSchema, DropCache, FillCache, At, Step
<1>c. \A u \in Table : u # t /\ cache[u] # None => cache[u] = catalog[u]
  BY DEF AloneInv, CacheCoherent, Alone
<1>d. Answer(s) => SchemaInv(s)' /\ RowInv(s)'
  BY <1>a, AnswerType, IdleAloneInv
<1>e. ASSUME NEW l, GoTo(s, l) PROVE pc'[s] = l
  BY <1>a, <1>e DEF GoTo
<1>f. SchemaInv(s) /\ RowInv(s)
  BY DEF AloneInv
<1>g. \A u \in Table, k \in Pk : RowOK(u, k)
  BY ByRow DEF AloneInv, TableInvs
<1>h. LogShrinks /\ rows' = rows
  <2>1. CASE PutSchema(s) \/ DropSchema(s)
    BY <1>b, <2>1, OtherCalls DEF PutSchema, DropSchema
  <2>2. CASE UNCHANGED engine
    BY <2>2 DEF LogShrinks, engine
  <2> QED
    BY <2>1, <2>2 DEF CacheSchema, DropCache, FillCache
<1>i. \A u \in Table, k \in Pk : lateRows'[u][k] \in Row => lateRows'[u][k] = lateRows[u][k]
  BY <1>h, SqlConstants DEF LogShrinks
<1>j. ASSUME NEW u \in Table, NEW k \in Pk, catalog'[u] = catalog[u],
             cache'[u] = cache[u] \/ cache'[u] # None, <<u, k>> \in leaked => <<u, k>> \in leaked'
      PROVE  RowOK(u, k)'
  <2>1. RowOK(u, k) /\ rows'[u][k] = rows[u][k]
    BY <1>g, <1>h
  <2> QED
    BY <1>b, <1>i, <1>j, <2>1 DEF RowOK
<1>k. ASSUME NEW u \in Table, NEW k \in Pk,
             rows[u][k] # None \/ lateRows[u][k] \in Row => <<u, k>> \in leaked'
      PROVE  RowOK(u, k)'
  <2>1. RowOK(u, k) /\ rows'[u][k] = rows[u][k]
    BY <1>g, <1>h
  <2> QED
    BY <1>b, <1>i, <1>k, <2>1 DEF RowOK
<1>1. CASE PutSchema(s)
  <2>1. CASE FailSchema(t, stmt[s].schema) /\ Answer(s)
    <3>1. UNCHANGED <<catalog, rows, cache, up, leaked>> /\ pc[s] # "drop_cache"
      BY <1>1, <2>1 DEF PutSchema, At, FailSchema
    <3> QED
      BY <1>d, <1>h, <2>1, <3>1, MoveKeepsTables
  <2>2. CASE /\ WriteSchema(t, stmt[s].schema)
             /\ GoTo(s, "put_meta") /\ UNCHANGED <<stmt, schema, todo>>
    <3>1. /\ pc[s] = "put_schema" /\ cache[t] = None /\ cache' = cache /\ leaked' = leaked
          /\ stmt[s].schema \in Schema
      BY <1>1, <1>f, AtLabel DEF PutSchema, At, SchemaInv
    <3>2. catalog'[t] = stmt[s].schema /\ \A u \in Table : u # t => catalog'[u] = catalog[u]
      BY <1>a, <1>b, <2>2 DEF WriteSchema
    <3>3. Abandoned(t)
      BY <1>b, <3>1 DEF AloneInv, UnknownInv
    <3>4. SchemaInv(s)' /\ RowInv(s)'
      BY <1>e, <2>2, <3>1, <3>2 DEF SchemaInv, RowInv, WithSchema
    <3>5. \A u \in Table, k \in Pk : RowOK(u, k)'
      BY <1>j, <1>k, <3>1, <3>2, <3>3 DEF Abandoned
    <3>6. CacheCoherent'
      BY <1>c, <3>1, <3>2 DEF CacheCoherent
    <3> QED
      BY <3>4, <3>5, <3>6, ByRowNext
  <2> QED
    BY <1>1, <2>1, <2>2 DEF PutSchema
<1>2. CASE CacheSchema(s)
  <2>1. /\ cache' = [cache EXCEPT ![t] = stmt[s].schema] /\ catalog' = catalog /\ leaked' = leaked
        /\ Answer(s) /\ catalog[t] = stmt[s].schema /\ stmt[s].schema # None
    BY <1>2, <1>f, AtLabel, SqlConstants DEF CacheSchema, At, SchemaInv, engine
  <2>2. cache'[t] = catalog[t] /\ cache'[t] # None /\ \A u \in Table : u # t => cache'[u] = cache[u]
    BY <1>a, <1>b, <2>1
  <2>3. \A u \in Table, k \in Pk : RowOK(u, k)'
    BY <1>j, <2>1, <2>2
  <2>4. CacheCoherent'
    BY <1>c, <2>1, <2>2 DEF CacheCoherent
  <2> QED
    BY <1>d, <2>1, <2>3, <2>4, ByRowNext
<1>3. CASE DropSchema(s)
  <2>1. /\ pc[s] = "drop_schema" /\ pc'[s] = "drop_cache" /\ stmt' = stmt /\ cache' = cache
        /\ leaked' = leaked \cup ({t} \X Overlooked(t))
    BY <1>3, <1>e DEF DropSchema, At
  <2>2. Dropped(t, {})
    BY <1>f, <2>1 DEF RowInv
  <2>3. ASSUME NEW k \in Pk, rows[t][k] # None \/ lateRows[t][k] \in Row PROVE <<t, k>> \in leaked'
    <3>1. CASE k \in Overlooked(t)
      BY <2>1, <3>1
    <3>2. CASE k \notin Overlooked(t)
      BY <2>1, <2>2, <2>3, <3>2 DEF Overlooked, Dropped
    <3> QED
      BY <3>1, <3>2
  <2>4. Abandoned(t)'
    BY <1>h, <1>i, <1>b, <2>1, <2>3 DEF Abandoned
  <2>5. SchemaInv(s)' /\ RowInv(s)'
    BY <2>1, <2>4 DEF SchemaInv, RowInv, WithSchema
  <2>6. \A u \in Table : u # t => catalog'[u] = catalog[u]
    BY <1>3, <1>a, <1>b DEF DropSchema, WriteSchema, FailSchema
  <2>7. \A u \in Table, k \in Pk : RowOK(u, k)'
    BY <1>j, <1>k, <2>1, <2>3, <2>6
  <2>8. CacheCoherent'
    BY <1>c, <2>1, <2>6 DEF CacheCoherent
  <2> QED
    BY <2>5, <2>7, <2>8, ByRowNext
<1>4. CASE DropCache(s)
  <2>1. /\ cache' = [cache EXCEPT ![t] = None] /\ catalog' = catalog /\ leaked' = leaked /\ Answer(s)
        /\ Abandoned(t)
    BY <1>4, <1>f DEF DropCache, At, RowInv, engine
  <2>2. cache'[t] = None /\ \A u \in Table : u # t => cache'[u] = cache[u]
    BY <1>a, <1>b, <2>1
  <2>3. \A u \in Table, k \in Pk : RowOK(u, k)'
    BY <1>j, <1>k, <2>1, <2>2 DEF Abandoned
  <2>4. CacheCoherent'
    BY <1>c, <2>1, <2>2 DEF CacheCoherent
  <2> QED
    BY <1>d, <2>1, <2>3, <2>4, ByRowNext
<1>5. CASE FillCache(s)
  <2>1. /\ cache' = [cache EXCEPT ![t] = schema[s]] /\ catalog' = catalog /\ leaked' = leaked
        /\ pc[s] = "fill_cache" /\ pc'[s] = stmt[s].kind /\ stmt' = stmt /\ schema' = schema
        /\ catalog[t] = schema[s] /\ schema[s] # None
        /\ stmt[s].kind \in {"insert", "select", "update", "delete"}
    BY <1>5, <1>e, <1>f DEF FillCache, At, SchemaInv, StatementInv, WithSchema, engine
  <2>2. cache'[t] = catalog[t] /\ cache'[t] # None /\ \A u \in Table : u # t => cache'[u] = cache[u]
    BY <1>a, <1>b, <2>1
  <2>3. SchemaInv(s)' /\ RowInv(s)'
    BY <2>1, <2>2 DEF SchemaInv, RowInv, WithSchema
  <2>4. \A u \in Table, k \in Pk : RowOK(u, k)'
    BY <1>j, <2>1, <2>2
  <2>5. CacheCoherent'
    BY <1>c, <2>1, <2>2 DEF CacheCoherent
  <2> QED
    BY <2>3, <2>4, <2>5, ByRowNext
<1> QED
  BY <1>1, <1>2, <1>3, <1>4, <1>5

\* Only one row changes, and the log may be truncated.
OnlyRow(t, k) ==
    \A u \in Table, j \in Pk :
        <<u, j>> # <<t, k>> => /\ rows'[u][j] = rows[u][j]
                               /\ lateRows'[u][j] \in {lateRows[u][j], Nothing}
                               /\ <<u, j>> \in leaked' <=> <<u, j>> \in leaked

LEMMA RowChange ==
    ASSUME Alone, AloneInv, NEW s \in Session, pc[s] # "drop_cache",
           NEW t \in Table, NEW k \in Pk, UNCHANGED <<catalog, cache, up>>,
           OnlyRow(t, k), RowOK(t, k)'
    PROVE  TableInvs'
<1>1. \A u \in Table : cache[u] # None => cache[u] = catalog[u]
  BY DEF AloneInv, CacheCoherent, Alone
<1>2. CacheCoherent'
  BY <1>1 DEF CacheCoherent
<1>3. ASSUME NEW u \in Table, NEW j \in Pk, <<u, j>> # <<t, k>> PROVE RowOK(u, j)'
  <2>1. RowOK(u, j)
    BY ByRow DEF AloneInv, TableInvs
  <2>2. lateRows'[u][j] \in Row => lateRows'[u][j] = lateRows[u][j]
    BY <1>3, SqlConstants DEF OnlyRow
  <2>3. rows'[u][j] = rows[u][j] /\ (<<u, j>> \in leaked' <=> <<u, j>> \in leaked)
    BY <1>3 DEF OnlyRow
  <2> QED
    BY <2>1, <2>2, <2>3 DEF RowOK
<1>4. \A u \in Table, j \in Pk : RowOK(u, j)'
  BY <1>3
<1> QED
  BY <1>2, <1>4, ByRowNext

\* What one step may do to a row: remove it, insert where there is none, update what is there.
RowsAllowed ==
    \A u \in Table, j \in Pk :
        \/ rows'[u][j] \in {rows[u][j], None}
        \/ rows[u][j] = None /\ rows'[u][j].by = "insert"
        \/ rows[u][j] # None /\ rows'[u][j].by = "update"

\* The row steps, with what they may do to a row.
LEMMA RowStep ==
    ASSUME Alone, TypeOK, AloneInv, NEW s \in Session, StatementInv(s),
           DropRow(s) \/ InsertRow(s) \/ UpdateRow(s) \/ DeleteRow(s)
    PROVE  SchemaInv(s)' /\ RowInv(s)' /\ TableInvs' /\ RowsAllowed
<1>0. PICK t \in Table : t = stmt[s].table
  BY AtLabel DEF DropRow, InsertRow, UpdateRow, DeleteRow, At
<1>a. /\ pc \in [Session -> Labels] /\ stmt \in [Session -> Stmt \cup {None}] /\ SessionType
      /\ todo \in [Session -> Scans]
  BY DEF TypeOK, SessionType
<1>b. UNCHANGED <<catalog, cache, up>> /\ pc[s] # "drop_cache"
  BY DEF DropRow, InsertRow, UpdateRow, DeleteRow, At, WriteRow, FailRow
<1>c. SchemaInv(s) /\ RowInv(s)
  BY DEF AloneInv
<1>d. pc[s] \in WithSchema \ {"fill_cache"} => catalog[t] = schema[s] /\ cache[t] = schema[s] /\ schema[s] # None
  BY <1>0, <1>c DEF SchemaInv, StatementInv
<1>e. \A j \in Pk : RowOK(t, j)
  BY <1>b, ByRow DEF AloneInv, TableInvs
<1>f. None \notin Row /\ Nothing \notin Row
  BY SqlConstants
<1>1. CASE DropRow(s)
  <2>0. PICK k : k = FirstKey(todo[s])
    OBVIOUS
  <2>1. /\ k \in Pk /\ k \in DOMAIN todo[s] /\ pc[s] = "drop_rows"
        /\ DOMAIN Rest(todo[s]) = DOMAIN todo[s] \ {k}
    BY <1>1, <1>a, <2>0, ScanLoop DEF DropRow, At
  <2>2. UNCHANGED <<pc, stmt, schema>> /\ DOMAIN todo'[s] = DOMAIN todo[s] \ {k}
    BY <1>1, <1>a, <2>0, <2>1 DEF DropRow
  <2>3. SchemaInv(s)'
    BY <1>b, <1>c, <2>2 DEF SchemaInv
  <2>4. CASE WriteRow(t, k, None) /\ leaked' = leaked \ {<<t, k>>}
    <3>1. /\ rows'[t][k] = None /\ lateRows'[t][k] = Nothing /\ LogShrinks
          /\ \A u \in Table, j \in Pk : <<u, j>> # <<t, k>> => rows'[u][j] = rows[u][j]
      BY <1>b, <2>1, <2>4, RowWritten
    <3>2. OnlyRow(t, k)
      BY <2>4, <3>1 DEF OnlyRow, LogShrinks
    <3>3. RowOK(t, k)'
      BY <1>f, <3>1 DEF RowOK
    <3>4. TableInvs'
      BY <1>b, <2>1, <3>2, <3>3, RowChange
    <3>5. RowInv(s)'
      BY <1>0, <1>b, <1>c, <2>1, <2>2, <2>4, <3>1 DEF RowInv, Dropped
    <3>6. RowsAllowed
      BY <3>1 DEF RowsAllowed
    <3> QED
      BY <2>3, <3>4, <3>5, <3>6
  <2>5. CASE FailRow(t, k, None) /\ leaked' = leaked \cup {<<t, k>>}
    <3>1. /\ lateRows'[t][k] \in {lateRows[t][k], None} /\ rows' = rows
          /\ \A u \in Table, j \in Pk : <<u, j>> # <<t, k>> => lateRows'[u][j] = lateRows[u][j]
      BY <1>b, <2>1, <2>5, RowFailed
    <3>2. OnlyRow(t, k)
      BY <2>5, <3>1 DEF OnlyRow
    <3>3. RowOK(t, k)'
      BY <1>b, <1>e, <1>f, <2>1, <2>5, <3>1 DEF RowOK
    <3>4. TableInvs'
      BY <1>b, <2>1, <3>2, <3>3, RowChange
    <3>5. RowInv(s)'
      BY <1>0, <1>b, <1>c, <2>1, <2>2, <2>5, <3>1 DEF RowInv, Dropped
    <3>6. RowsAllowed
      BY <3>1 DEF RowsAllowed
    <3> QED
      BY <2>3, <3>4, <3>5, <3>6
  <2> QED
    BY <1>0, <1>1, <2>0, <2>4, <2>5 DEF DropRow
<1>2. CASE InsertRow(s)
  <2>0. PICK p, row : p = stmt[s].pk /\ row = [pk |-> p, val |-> stmt[s].val, by |-> "insert"]
    OBVIOUS
  <2>1. pc[s] = "put_row" /\ Answer(s)
    BY <1>2 DEF InsertRow, At
  <2>2. SchemaInv(s)' /\ RowInv(s)'
    BY <1>a, <2>1, AnswerType, IdleAloneInv
  <2>3. p \in Pk /\ stmt[s].val \in Val \cup {Null} /\ rows[t][p] = None
    BY <1>0, <1>c, <2>0, <2>1, AtLabel DEF RowInv
  <2>4. row \in Row /\ row.by = "insert" /\ row.pk = p /\ row.val = stmt[s].val
    BY <2>0, <2>3 DEF Row
  <2>5. catalog[t] # None /\ cache[t] # None /\ (catalog[t].strict => row.val # Null)
    BY <1>d, <2>1, <2>4 DEF StatementInv, Refused, WithSchema
  <2>6. CASE WriteRow(t, p, row) /\ leaked' = leaked \ {<<t, p>>}
    <3>1. /\ rows'[t][p] = row /\ lateRows'[t][p] = Nothing /\ LogShrinks
          /\ \A u \in Table, j \in Pk : <<u, j>> # <<t, p>> => rows'[u][j] = rows[u][j]
      BY <1>b, <2>3, <2>4, <2>6, RowWritten
    <3>2. OnlyRow(t, p)
      BY <2>6, <3>1 DEF OnlyRow, LogShrinks
    <3>3. RowOK(t, p)'
      BY <1>b, <1>f, <2>4, <2>5, <3>1 DEF RowOK
    <3>4. TableInvs'
      BY <1>b, <2>3, <3>2, <3>3, RowChange
    <3>5. RowsAllowed
      BY <2>3, <2>4, <3>1 DEF RowsAllowed
    <3> QED
      BY <2>2, <3>4, <3>5
  <2>7. CASE FailRow(t, p, row) /\ UNCHANGED leaked
    <3>1. /\ lateRows'[t][p] \in {lateRows[t][p], row} /\ rows' = rows
          /\ \A u \in Table, j \in Pk : <<u, j>> # <<t, p>> => lateRows'[u][j] = lateRows[u][j]
      BY <1>b, <2>3, <2>7, RowFailed
    <3>2. OnlyRow(t, p)
      BY <2>7, <3>1 DEF OnlyRow
    <3>3. RowOK(t, p)'
      BY <1>b, <1>e, <1>f, <2>3, <2>4, <2>5, <2>7, <3>1 DEF RowOK
    <3>4. TableInvs'
      BY <1>b, <2>3, <3>2, <3>3, RowChange
    <3>5. RowsAllowed
      BY <3>1 DEF RowsAllowed
    <3> QED
      BY <2>2, <3>4, <3>5
  <2> QED
    BY <1>0, <1>2, <2>0, <2>6, <2>7 DEF InsertRow
<1>3. CASE UpdateRow(s)
  <2>0. PICK k, row : k = FirstKey(todo[s]) /\ row = Assigned(stmt[s], todo[s][k])
    OBVIOUS
  <2>1. /\ k \in Pk /\ k \in DOMAIN todo[s] /\ pc[s] = "put_rows" /\ todo[s][k] \in Row
        /\ DOMAIN Rest(todo[s]) = DOMAIN todo[s] \ {k}
    BY <1>3, <1>a, <2>0, ScanLoop DEF UpdateRow, At
  <2>2. UNCHANGED <<pc, stmt, schema, leaked>> /\ DOMAIN todo'[s] = DOMAIN todo[s] \ {k}
    BY <1>3, <1>a, <2>0, <2>1 DEF UpdateRow
  <2>3. SchemaInv(s)'
    BY <1>b, <1>c, <2>2 DEF SchemaInv
  <2>4. rows[t][k] # None
    BY <1>0, <1>c, <2>1 DEF RowInv
  <2>5. row \in Row /\ row.by = "update" /\ row # None
    BY <1>f, <2>0, <2>1, AtLabel DEF Assigned
  <2>6. catalog[t] # None /\ cache[t] # None /\ DOMAIN todo[s] \subseteq Pk
    BY <1>a, <1>d, <2>1 DEF WithSchema, Scans
  <2>7. CASE WriteRow(t, k, row)
    <3>1. /\ rows'[t][k] = row /\ lateRows'[t][k] = Nothing /\ LogShrinks
          /\ \A u \in Table, j \in Pk : <<u, j>> # <<t, k>> => rows'[u][j] = rows[u][j]
      BY <1>b, <2>1, <2>5, <2>7, RowWritten
    <3>2. OnlyRow(t, k)
      BY <2>2, <3>1 DEF OnlyRow, LogShrinks
    <3>3. RowOK(t, k)'
      BY <1>b, <1>f, <2>5, <2>6, <3>1 DEF RowOK
    <3>4. TableInvs'
      BY <1>b, <2>1, <3>2, <3>3, RowChange
    <3>5. RowInv(s)'
      BY <1>0, <1>b, <1>c, <2>1, <2>2, <2>5, <2>6, <3>1 DEF RowInv
    <3>6. RowsAllowed
      BY <2>4, <2>5, <3>1 DEF RowsAllowed
    <3> QED
      BY <2>3, <3>4, <3>5, <3>6
  <2>8. CASE FailRow(t, k, row)
    <3>1. /\ lateRows'[t][k] \in {lateRows[t][k], row} /\ rows' = rows
          /\ \A u \in Table, j \in Pk : <<u, j>> # <<t, k>> => lateRows'[u][j] = lateRows[u][j]
      BY <1>b, <2>1, <2>8, RowFailed
    <3>2. OnlyRow(t, k)
      BY <2>2, <3>1 DEF OnlyRow
    <3>3. RowOK(t, k)'
      BY <1>b, <1>e, <1>f, <2>1, <2>2, <2>4, <2>5, <2>6, <3>1 DEF RowOK
    <3>4. TableInvs'
      BY <1>b, <2>1, <3>2, <3>3, RowChange
    <3>5. RowInv(s)'
      BY <1>0, <1>c, <2>1, <2>2, <3>1 DEF RowInv
    <3>6. RowsAllowed
      BY <3>1 DEF RowsAllowed
    <3> QED
      BY <2>3, <3>4, <3>5, <3>6
  <2> QED
    BY <1>0, <1>3, <2>0, <2>7, <2>8 DEF UpdateRow
<1>4. CASE DeleteRow(s)
  <2>0. PICK k : k = FirstKey(todo[s])
    OBVIOUS
  <2>1. k \in Pk /\ pc[s] = "remove_rows"
    BY <1>4, <1>a, <2>0, ScanLoop DEF DeleteRow, At
  <2>2. UNCHANGED <<pc, stmt, schema>>
    BY <1>4 DEF DeleteRow
  <2>3. SchemaInv(s)' /\ RowInv(s)'
    BY <1>b, <1>c, <2>1, <2>2 DEF SchemaInv, RowInv
  <2>4. CASE WriteRow(t, k, None) /\ leaked' = leaked \ {<<t, k>>}
    <3>1. /\ rows'[t][k] = None /\ lateRows'[t][k] = Nothing /\ LogShrinks
          /\ \A u \in Table, j \in Pk : <<u, j>> # <<t, k>> => rows'[u][j] = rows[u][j]
      BY <1>b, <2>1, <2>4, RowWritten
    <3>2. OnlyRow(t, k)
      BY <2>4, <3>1 DEF OnlyRow, LogShrinks
    <3>3. RowOK(t, k)'
      BY <1>f, <3>1 DEF RowOK
    <3>4. TableInvs'
      BY <1>b, <2>1, <3>2, <3>3, RowChange
    <3>5. RowsAllowed
      BY <3>1 DEF RowsAllowed
    <3> QED
      BY <2>3, <3>4, <3>5
  <2>5. CASE FailRow(t, k, None) /\ UNCHANGED leaked
    <3>1. /\ lateRows'[t][k] \in {lateRows[t][k], None} /\ rows' = rows
          /\ \A u \in Table, j \in Pk : <<u, j>> # <<t, k>> => lateRows'[u][j] = lateRows[u][j]
      BY <1>b, <2>1, <2>5, RowFailed
    <3>2. OnlyRow(t, k)
      BY <2>5, <3>1 DEF OnlyRow
    <3>3. RowOK(t, k)'
      BY <1>b, <1>e, <1>f, <2>1, <2>5, <3>1 DEF RowOK
    <3>4. TableInvs'
      BY <1>b, <2>1, <3>2, <3>3, RowChange
    <3>5. RowsAllowed
      BY <3>1 DEF RowsAllowed
    <3> QED
      BY <2>3, <3>4, <3>5
  <2> QED
    BY <1>0, <1>4, <2>0, <2>4, <2>5 DEF DeleteRow
<1> QED
  BY <1>1, <1>2, <1>3, <1>4

\* A restart executes what failed calls left in the log.
LEMMA RestartStep ==
    ASSUME TypeOK, AloneInv, Restart
    PROVE  TableInvs' /\ RowsAllowed
<1>1. ASSUME NEW t \in Table, NEW k \in Pk
      PROVE  /\ RowOK(t, k)'
             /\ \/ rows'[t][k] \in {rows[t][k], None}
                \/ rows[t][k] = None /\ rows'[t][k].by = "insert"
                \/ rows[t][k] # None /\ rows'[t][k].by = "update"
  <2>1. RowOK(t, k)
    BY ByRow DEF AloneInv, TableInvs
  <2>2. /\ rows'[t][k] = IF lateRows[t][k] = Nothing THEN rows[t][k] ELSE lateRows[t][k]
        /\ catalog'[t] = IF lateCatalog[t] = Nothing THEN catalog[t] ELSE lateCatalog[t]
        /\ cache'[t] = catalog'[t] /\ lateRows'[t][k] = Nothing
    BY DEF Restart, Replayed, NoLateRows
  <2>3. lateRows[t][k] \in Row \cup {None, Nothing}
    BY DEF TypeOK
  <2>4. None \notin Row /\ Nothing \notin Row
    BY SqlConstants
  <2>5. lateCatalog[t] # Nothing /\ rows'[t][k] # None => <<t, k>> \in leaked'
    BY DEF Restart
  <2>6. <<t, k>> \in leaked => <<t, k>> \in leaked'
    BY DEF Restart
  <2>7. RowOK(t, k)'
    BY <2>1, <2>2, <2>3, <2>4, <2>5, <2>6 DEF RowOK
  <2>8. lateRows[t][k] \in Row => lateRows[t][k].by \in {"insert", "update"}
    BY DEF Row
  <2>9. lateRows[t][k] \in Row => (rows[t][k] = None <=> lateRows[t][k].by = "insert")
    BY <2>1 DEF RowOK
  <2> QED
    BY <2>2, <2>3, <2>7, <2>8, <2>9
<1>2. CacheCoherent'
  BY DEF Restart, CacheCoherent
<1> QED
  BY <1>1, <1>2, ByRowNext DEF RowsAllowed

LEMMA AloneStep ==
    ASSUME Alone, TypeOK, \A s \in Session : StatementInv(s), AloneInv, [Next]_vars
    PROVE  AloneInv'
<1>1. ASSUME NEW s \in Session, Step(s) \/ \E q \in Stmt : Issue(s, q) PROVE AloneInv'
  <2>1. SchemaInv(s)' /\ RowInv(s)' /\ TableInvs'
    BY <1>1, MoveStep, SchemaStep, RowStep DEF Step
  <2>2. \A r \in Session : r = s
    BY DEF Alone
  <2> QED
    BY <2>1, <2>2 DEF AloneInv, TableInvs
<1>2. CASE Crash
  <2>1. \A s \in Session : SchemaInv(s)' /\ RowInv(s)'
    BY <1>2, IdleAloneInv DEF Crash
  <2>2. LateInv' /\ UnknownInv' /\ CacheCoherent' /\ InsertedRowsConform'
    BY <1>2 DEF Crash, engine, AloneInv, LateInv, UnknownInv, Abandoned, CacheCoherent, InsertedRowsConform
  <2> QED
    BY <2>1, <2>2 DEF AloneInv
<1>3. CASE Restart
  <2>1. ASSUME NEW s \in Session PROVE pc'[s] = "idle"
    BY <1>3 DEF Restart, session, StatementInv
  <2>2. \A s \in Session : SchemaInv(s)' /\ RowInv(s)'
    BY <2>1, IdleAloneInv
  <2> QED
    BY <1>3, <2>2, RestartStep DEF AloneInv, TableInvs
<1>4. CASE UNCHANGED vars
  <2>1. \A s \in Session : SchemaInv(s)' /\ RowInv(s)'
    BY <1>4 DEF vars, AloneInv, SchemaInv, RowInv, Abandoned, Dropped
  <2>2. LateInv' /\ UnknownInv' /\ CacheCoherent' /\ InsertedRowsConform'
    BY <1>4 DEF vars, AloneInv, LateInv, UnknownInv, Abandoned, CacheCoherent, InsertedRowsConform
  <2> QED
    BY <2>1, <2>2 DEF AloneInv
<1> QED
  BY <1>1, <1>2, <1>3, <1>4 DEF Next

\* While one session at a time issues statements, catalog, cache and rows stay as the
\* invariant says through every failed engine call, crash and restart, the restarts included
\* that execute what a failed call left in the log.
THEOREM SessionInvariant ==
    ASSUME Alone
    PROVE  Spec => []AloneInv
<1>1. Init => AloneInv
  <2> SUFFICES ASSUME Init PROVE AloneInv
    OBVIOUS
  <2>1. \A s \in Session : SchemaInv(s) /\ RowInv(s)
    BY DEF Init, SchemaInv, RowInv, WithSchema
  <2>2. LateInv /\ UnknownInv /\ CacheCoherent /\ InsertedRowsConform
    BY SqlConstants DEF Init, NoLateRows, LateInv, UnknownInv, Abandoned, CacheCoherent, InsertedRowsConform
  <2> QED
    BY <2>1, <2>2 DEF AloneInv
<1>2. TypeOK /\ (\A s \in Session : StatementInv(s)) /\ AloneInv /\ [Next]_vars => AloneInv'
  BY AloneStep
<1> QED
  BY SqlTypeCorrect, <1>1, <1>2, PTL DEF Spec

\* drop_table() removes rows before counter and schema: no crash or failure leaves rows without
\* a table, but for those whose removal failed or whose key lies behind the end of its scan, and
\* those that only the log of a failed call holds.
THEOREM RowsHaveTables ==
    ASSUME Alone
    PROVE  Spec => []NoOrphanRows
<1>1. AloneInv => NoOrphanRows
  BY DEF AloneInv, UnknownInv, Abandoned, NoOrphanRows
<1> QED
  BY SessionInvariant, <1>1, PTL

\* Catalog::cache_ answers what a restart would load from the engine, but for a table that is
\* being dropped.
THEOREM CacheStaysCoherent ==
    ASSUME Alone
    PROVE  Spec => []CacheCoherent
<1>1. AloneInv => CacheCoherent
  BY DEF AloneInv
<1> QED
  BY SessionInvariant, <1>1, PTL

\* A row that exec_insert wrote, or tried to and a restart completed, satisfies the constraints
\* its table has now, unless it outlived an earlier table or another schema came with a restart;
\* also where a table was created twice over a failed creation.
THEOREM InsertsConform ==
    ASSUME Alone
    PROVE  Spec => []InsertedRowsConform
<1>1. AloneInv => InsertedRowsConform
  BY DEF AloneInv
<1> QED
  BY SessionInvariant, <1>1, PTL

LEMMA RowsChange ==
    ASSUME Alone, TypeOK, \A s \in Session : StatementInv(s), AloneInv, [Next]_vars
    PROVE  RowsAllowed
<1>1. ASSUME NEW s \in Session, DropRow(s) \/ InsertRow(s) \/ UpdateRow(s) \/ DeleteRow(s)
      PROVE  RowsAllowed
  BY <1>1, RowStep
<1>2. CASE UNCHANGED rows
  BY <1>2 DEF RowsAllowed
<1>3. CASE Restart
  BY <1>3, RestartStep
<1>4. \/ UNCHANGED rows \/ Restart
      \/ \E s \in Session : DropRow(s) \/ InsertRow(s) \/ UpdateRow(s) \/ DeleteRow(s)
  BY DEF Next, vars, Step, Issue, CreateTable, PutSchema, PutMeta, CacheSchema, DropTable, DropMeta,
         DropSchema, DropCache, GetSchema, FillCache, InsertCheck, Select, ScanTable, RowsDone,
         Crash, engine, WriteSchema, FailSchema, WriteMeta, FailMeta
<1> QED
  BY <1>1, <1>2, <1>3, <1>4

\* exec_update puts rows only where rows are: it never brings back one that is gone, not even
\* through a failed put that a restart executes.
THEOREM UpdatesNeverCreate ==
    ASSUME Alone
    PROVE  Spec => UpdateNeverCreates
<1>1. TypeOK /\ (\A s \in Session : StatementInv(s)) /\ AloneInv /\ [Next]_vars =>
         [\A t \in Table, k \in Pk :
             rows[t][k] = None /\ rows'[t][k] # None => rows'[t][k].by = "insert"]_vars
  BY RowsChange DEF RowsAllowed
<1> QED
  BY SqlTypeCorrect, SessionInvariant, <1>1, PTL DEF Spec, UpdateNeverCreates

\* exec_insert never replaces a row, nor does a restart with the record of one that failed.
THEOREM InsertsNeverOverwrite ==
    ASSUME Alone
    PROVE  Spec => InsertNeverOverwrites
<1>1. TypeOK /\ (\A s \in Session : StatementInv(s)) /\ AloneInv /\ [Next]_vars =>
         [\A t \in Table, k \in Pk :
             rows[t][k] # None /\ rows'[t][k] # None /\ rows'[t][k] # rows[t][k]
                 => rows'[t][k].by = "update"]_vars
  BY RowsChange DEF RowsAllowed
<1> QED
  BY SqlTypeCorrect, SessionInvariant, <1>1, PTL DEF Spec, InsertNeverOverwrites
=============================================================================
