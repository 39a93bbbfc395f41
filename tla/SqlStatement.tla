---------------------------- MODULE SqlStatement ----------------------------
(***************************************************************************)
(* Executor::execute_sql (src/src/sql/executor.cpp) from text to answer,   *)
(* in one session over one table: tokenizing, parsing and the execution of *)
(* the statement on rows that the engine keeps as bytes under their        *)
(* formatted primary key.  SqlLayer has the steps of several sessions and  *)
(* their failures; here an engine call just succeeds.                      *)
(*                                                                         *)
(* A scenario bounds what is submitted: characters (texts), statements as  *)
(* they should be written (statements), or with one token dropped, added   *)
(* or replaced (slips), to a table that exists already or not.             *)
(***************************************************************************)
EXTENDS SqlParser, SqlTokenizer

CONSTANTS
    Scenarios,   \* a function to [schema, rows, texts, statements, slips, length]
    None

\* The words that statements begin with; none can be spelled in the letters of SqlTokenizer.
FirstWord ==
    {"KW_CREATE", "KW_DROP", "KW_INSERT", "KW_SELECT", "KW_UPDATE", "KW_DELETE", "KW_SHOW", "KW_DESCRIBE"}

\* The primary key is NOT NULL.
KeyMarked(schema) ==
    \A i \in DOMAIN schema.columns :
        schema.columns[i].name = schema.primary_key => schema.columns[i].not_null

\* A scenario starts with a table that CREATE makes and rows that fit it, or with neither.
ASSUME StatementConstants ==
    /\ None \notin Text
    /\ \A word \in DOMAIN Keywords : Keywords[word] \notin FirstWord
    /\ \A n \in DOMAIN Scenarios : LET s == Scenarios[n] IN
         /\ s.length \in Nat /\ IsFiniteSet(s.rows) /\ s.texts \subseteq Seq(STRING)
         /\ s.statements \subseteq Statement /\ s.slips \subseteq Tokens
         /\ s.schema = None => s.rows = {}
         /\ s.schema # None => /\ s.schema \in TableSchema /\ KeyMarked(s.schema)
                               /\ \A r \in s.rows : r \in Seq(Values) /\ Len(r) = Len(s.schema.columns)

VARIABLES
    scenario,  \* the name of a scenario
    phase,     \* where execute_sql() is
    count,     \* statements so far (bounded by scenario.length)
    text,      \* the characters submitted, or None
    written,   \* the statement that was meant, or None
    tokens, stmt,
    catalog,   \* the stored schema, or None
    rowid,     \* what next_row_id() gives next, 1 if there is no counter
    data,      \* the stored rows by key
    result,    \* rows of the answer
    status     \* of the last answer

vars == <<scenario, phase, count, text, written, tokens, stmt, catalog, rowid, data, result, status>>

stored == <<catalog, rowid, data>>

-----------------------------------------------------------------------------
(* The text of a statement, as tokens.                                     *)

Tok(type) == <<Token(type, <<>>, 0)>>
Id(name)  == <<Token("IDENTIFIER", name, 0)>>

LiteralType(v) == CASE v.type = "INT" -> "INTEGER_LIT" [] v.type = "FLOAT" -> "FLOAT_LIT" [] OTHER -> "STRING_LIT"

Literal(v) ==
    IF v.is_null THEN Tok("KW_NULL")
    ELSE IF v.type = "BOOL" THEN Tok(IF v.val THEN "KW_TRUE" ELSE "KW_FALSE")
    ELSE <<Token(LiteralType(v), v.val, 0)>>

\* Items separated by sep.
Joined(items, sep) ==
    FlattenSeq([i \in DOMAIN items |-> IF i = 1 THEN items[i] ELSE sep \o items[i]])

Listed(items) == Tok("LPAREN") \o Joined(items, Tok("COMMA")) \o Tok("RPAREN")

TypeKeyword == [INT |-> "KW_INT", FLOAT |-> "KW_FLOAT", TEXT |-> "KW_TEXT", BOOL |-> "KW_BOOL"]

\* The primary key is NOT NULL without saying so.
ColumnText(col, pk) ==
    Id(col.name) \o Tok(TypeKeyword[col.type])
    \o (IF col.is_primary_key THEN Tok("KW_PRIMARY") \o Tok("KW_KEY") ELSE <<>>)
    \o (IF col.not_null /\ col.name # pk THEN Tok("KW_NOT") \o Tok("KW_NULL") ELSE <<>>)

ConditionText(c) == Id(c.column) \o Tok(c.op) \o Literal(c.value)

AssignmentText(a) == Id(a.column) \o Tok("OP_EQ") \o Literal(a.value)

WhereText(w) ==
    IF w.conditions = <<>> THEN <<>>
    ELSE Tok("KW_WHERE") \o
         FlattenSeq([i \in DOMAIN w.conditions |->
             (IF i = 1 THEN <<>> ELSE Tok(w.logic_ops[i - 1])) \o ConditionText(w.conditions[i])])

\* The primary key is declared behind the columns if it is not the last column that claims it.
TableKeyText(s) ==
    LET keys == SelectSeq(s.columns, LAMBDA col : col.is_primary_key) IN
    IF s.primary_key = <<>> \/ (keys # <<>> /\ Last(keys).name = s.primary_key) THEN <<>>
    ELSE <<Tok("KW_PRIMARY") \o Tok("KW_KEY") \o Tok("LPAREN") \o Id(s.primary_key) \o Tok("RPAREN")>>

Write(s) ==
    (CASE s.kind = "create" ->
            Tok("KW_CREATE") \o Tok("KW_TABLE") \o Id(s.table_name)
            \o Listed([i \in DOMAIN s.columns |-> ColumnText(s.columns[i], s.primary_key)] \o TableKeyText(s))
       [] s.kind = "drop" ->
            Tok("KW_DROP") \o Tok("KW_TABLE")
            \o (IF s.if_exists THEN Tok("KW_IF") \o Tok("KW_EXISTS") ELSE <<>>) \o Id(s.table_name)
       [] s.kind = "insert" ->
            Tok("KW_INSERT") \o Tok("KW_INTO") \o Id(s.table_name)
            \o (IF s.columns = <<>> THEN <<>> ELSE Listed([i \in DOMAIN s.columns |-> Id(s.columns[i])]))
            \o Tok("KW_VALUES") \o Listed([i \in DOMAIN s.values |-> Literal(s.values[i])])
       [] s.kind = "select" ->
            Tok("KW_SELECT")
            \o (IF s.columns = <<>> THEN Tok("STAR") ELSE Joined([i \in DOMAIN s.columns |-> Id(s.columns[i])], Tok("COMMA")))
            \o Tok("KW_FROM") \o Id(s.table_name) \o WhereText(s.where)
            \o (IF s.order_by = <<>> THEN <<>>
                ELSE Tok("KW_ORDER") \o Tok("KW_BY") \o Id(s.order_by) \o Tok(IF s.order_desc THEN "KW_DESC" ELSE "KW_ASC"))
            \o (IF s.limit < 0 THEN <<>> ELSE Tok("KW_LIMIT") \o Literal(Make("INT", s.limit)))
       [] s.kind = "update" ->
            Tok("KW_UPDATE") \o Id(s.table_name) \o Tok("KW_SET")
            \o Joined([i \in DOMAIN s.assignments |-> AssignmentText(s.assignments[i])], Tok("COMMA"))
            \o WhereText(s.where)
       [] s.kind = "delete" -> Tok("KW_DELETE") \o Tok("KW_FROM") \o Id(s.table_name) \o WhereText(s.where)
       [] s.kind = "show" -> Tok("KW_SHOW") \o Tok("KW_TABLES")
       [] s.kind = "describe" -> Tok("KW_DESCRIBE") \o Id(s.table_name))
    \o Tok("END_OF_INPUT")

-----------------------------------------------------------------------------
(* Conditions.                                                             *)

EvaluateCondition(c, schema, row) ==
    LET i == FindColumn(schema, c.column)
        cell == row[i]
        v == Coerce(c.value, cell.type)
    IN  /\ i # 0 /\ i <= Len(row)
        /\ CASE c.op = "OP_EQ" -> CompareEq(cell, v)
             [] c.op = "OP_NE" -> ~CompareEq(cell, v)
             [] c.op = "OP_LT" -> CompareLt(cell, v)
             [] c.op = "OP_GT" -> CompareGt(cell, v)
             [] c.op = "OP_LE" -> CompareEq(cell, v) \/ CompareLt(cell, v)
             [] c.op = "OP_GE" -> CompareEq(cell, v) \/ CompareGt(cell, v)

\* From left to right; AND does not bind closer than OR.
EvaluateWhere(w, schema, row) ==
    LET upto[i \in 1..Len(w.conditions)] ==
            LET c == EvaluateCondition(w.conditions[i], schema, row) IN
            IF i = 1 THEN c
            ELSE IF w.logic_ops[i - 1] = "KW_AND" THEN upto[i - 1] /\ c ELSE upto[i - 1] \/ c
    IN  w.conditions = <<>> \/ upto[Len(w.conditions)]

-----------------------------------------------------------------------------
(* INSERT.                                                                 *)

Columns(schema, s) ==
    IF s.columns = <<>> THEN [i \in DOMAIN schema.columns |-> schema.columns[i].name] ELSE s.columns

\* The places where the statement gives a value for the i-th column; the last one counts.
GivenAt(schema, s, i) == {j \in DOMAIN Columns(schema, s) : FindColumn(schema, Columns(schema, s)[j]) = i}

BuildRow(schema, s) ==
    [i \in DOMAIN schema.columns |->
        LET type == schema.columns[i].type  at == GivenAt(schema, s, i)
        IN  IF at = {} THEN MakeNull(type) ELSE Coerce(s.values[Max(at)], type)]

\* Wrong number of values, an unknown column, or NULL where it is not allowed.
InsertRefused(schema, s) ==
    LET cols == Columns(schema, s) IN
    \/ Len(cols) # Len(s.values)
    \/ \E j \in DOMAIN cols : FindColumn(schema, cols[j]) = 0
    \/ \E i \in DOMAIN schema.columns : schema.columns[i].not_null /\ BuildRow(schema, s)[i].is_null

KeyGiven(schema, s) == \E j \in DOMAIN Columns(schema, s) : Columns(schema, s)[j] = schema.primary_key

\* next_row_id() is for an INT primary key that the statement does not give.
KeyGenerated(schema, s) ==
    LET i == FindColumn(schema, schema.primary_key)
    IN  ~KeyGiven(schema, s) /\ i # 0 /\ schema.columns[i].type = "INT"

-----------------------------------------------------------------------------
(* The rows of a scan: row_key_prefix_end() is the prefix and a '~'.       *)

ScanKeys == {k \in DOMAIN data : ~LexLess(<<126>>, k)}

Schema == SchemaDeserialize(catalog)

Matching(w) == {k \in ScanKeys : EvaluateWhere(w, Schema, Deserialize(data[k]))}

\* A scan gives them in their order, the only one of these.
InOrder(keys) == {f \in SetToSeqs(keys) : \A m, n \in DOMAIN f : m < n => LexLess(f[m], f[n])}

\* The columns of the answer; <<>> if one of them is unknown.
Projection(s) ==
    LET cols == Columns(Schema, s)
        at == [i \in DOMAIN cols |-> FindColumn(Schema, cols[i])]
    IN  IF 0 \in Range(at) THEN <<>> ELSE at

Exists == catalog # None /\ stmt.table_name = Schema.table_name

Init ==
    /\ scenario \in DOMAIN Scenarios
    /\ LET s == Scenarios[scenario] IN
         /\ catalog = IF s.schema = None THEN None ELSE SchemaSerialize(s.schema)
         /\ data = [k \in {FormatPk(r[1]) : r \in s.rows} |-> Serialize(CHOOSE r \in s.rows : FormatPk(r[1]) = k)]
    /\ rowid = 1
    /\ phase = "idle" /\ count = 0
    /\ text = None /\ written = None /\ tokens = <<>> /\ stmt = None
    /\ result = <<>> /\ status = None

-----------------------------------------------------------------------------
(* A statement arrives.                                                    *)

Idle == phase = "idle" /\ count < Scenarios[scenario].length

SubmitText(s) ==
    /\ Idle
    /\ count' = count + 1
    /\ text' = s
    /\ phase' = "text"
    /\ UNCHANGED <<scenario, written, tokens, stmt, stored, result, status>>

Submit(s) ==
    /\ Idle
    /\ count' = count + 1
    /\ written' = s
    /\ tokens' = Write(s)
    /\ phase' = "tokens"
    /\ UNCHANGED <<scenario, text, stmt, stored, result, status>>

\* One token of the statement, not the end mark, is missing, replaced or preceded by another.
SubmitSlip(s, i, t) ==
    /\ Idle
    /\ count' = count + 1
    /\ i < Len(Write(s))
    /\ tokens' \in {RemoveAt(Write(s), i), ReplaceAt(Write(s), i, t), InsertAt(Write(s), i, t)}
    /\ written' = None
    /\ phase' = "tokens"
    /\ UNCHANGED <<scenario, text, stmt, stored, result, status>>

Answer(st) == phase' = "idle" /\ status' = st

TokenizeText ==
    /\ phase = "text"
    /\ tokens' = Tokenize(text)
    /\ IF tokens' = <<>> THEN Answer("error") ELSE phase' = "tokens" /\ UNCHANGED status
    /\ UNCHANGED <<scenario, count, text, written, stmt, stored, result>>

Parse ==
    /\ phase = "tokens"
    /\ \E r \in {ParseStatement(tokens)} :
         IF Fails(r) THEN Answer("error") /\ UNCHANGED stmt
         ELSE stmt' = r.val /\ phase' = r.val.kind /\ UNCHANGED status
    /\ result' = <<>>
    /\ UNCHANGED <<scenario, count, text, written, tokens, stored>>

-----------------------------------------------------------------------------
(* Execution; CREATE first.                                                *)

NewSchema(s) == [table_name |-> s.table_name, primary_key |-> s.primary_key, columns |-> s.columns]

ExecCreateTable ==
    /\ phase = "create"
    /\ IF stmt.columns = <<>> \/ stmt.primary_key = <<>> \/ catalog # None
       THEN Answer("error") /\ UNCHANGED <<catalog, rowid>>
       ELSE catalog' = SchemaSerialize(NewSchema(stmt)) /\ rowid' = 1 /\ Answer("ok")
    /\ UNCHANGED <<scenario, count, text, written, tokens, stmt, data, result>>

\* Mutant: the rows of the table stay behind.
ExecDropTableKeepsRows ==
    /\ phase = "drop"
    /\ IF Exists THEN catalog' = None /\ rowid' = 1 /\ Answer("ok")
       ELSE Answer(IF stmt.if_exists THEN "ok" ELSE "error") /\ UNCHANGED <<catalog, rowid>>
    /\ UNCHANGED <<scenario, count, text, written, tokens, stmt, data, result>>

\* Rows that the scan does not see stay behind.
ExecDropTable ==
    /\ phase = "drop"
    /\ IF Exists
       THEN /\ catalog' = None
            /\ rowid' = 1
            /\ data' = [k \in DOMAIN data \ ScanKeys |-> data[k]]
            /\ Answer("ok")
       ELSE Answer(IF stmt.if_exists THEN "ok" ELSE "error") /\ UNCHANGED stored
    /\ UNCHANGED <<scenario, count, text, written, tokens, stmt, result>>

PutRow(pk, row) ==
    IF FormatPk(pk) \in DOMAIN data THEN Answer("error") /\ UNCHANGED data
    ELSE /\ data' = [k \in DOMAIN data \cup {FormatPk(pk)} |-> IF k = FormatPk(pk) THEN Serialize(row) ELSE data[k]]
         /\ Answer("ok")

ExecInsert ==
    /\ phase = "insert"
    /\ IF ~Exists \/ InsertRefused(Schema, stmt)
       THEN Answer("error") /\ UNCHANGED <<data, rowid>>
       ELSE LET i == FindColumn(Schema, Schema.primary_key)  row == BuildRow(Schema, stmt) IN
            IF KeyGiven(Schema, stmt) THEN PutRow(row[i], row) /\ UNCHANGED rowid
            ELSE IF KeyGenerated(Schema, stmt)
            THEN /\ PutRow(Make("INT", rowid), [row EXCEPT ![i] = Make("INT", rowid)])
                 /\ rowid' = rowid + 1
            ELSE Answer("error") /\ UNCHANGED <<data, rowid>>
    /\ UNCHANGED <<scenario, count, text, written, tokens, stmt, catalog, result>>

\* exec_select up to the sort: scan, filter, projection.
FilterRows ==
    /\ phase = "select"
    /\ IF ~Exists \/ Projection(stmt) = <<>> THEN Answer("error") /\ UNCHANGED result
       ELSE LET at == Projection(stmt) IN
            \E keys \in InOrder(Matching(stmt.where)) :
            /\ result' = [n \in DOMAIN keys |-> [i \in DOMAIN at |-> Deserialize(data[keys[n]])[at[i]]]]
            /\ phase' = "sort"
            /\ UNCHANGED status
    /\ UNCHANGED <<scenario, count, text, written, tokens, stmt, stored>>

OrderIndex(s) ==
    LET hits == {i \in DOMAIN Columns(Schema, s) : Columns(Schema, s)[i] = s.order_by}
    IN  IF hits = {} THEN 0 ELSE Min(hits)

\* The comparator of the sort.
Before(s, i, a, b) == IF s.order_desc THEN CompareGt(a[i], b[i]) ELSE CompareLt(a[i], b[i])

\* std::sort needs a strict weak order.
StrictWeak(s, i, rows) ==
    LET R == Range(rows)
        Tie(a, b) == ~Before(s, i, a, b) /\ ~Before(s, i, b, a)
    IN  \A a, b, c \in R :
            /\ ~Before(s, i, a, a)
            /\ Before(s, i, a, b) /\ Before(s, i, b, c) => Before(s, i, a, c)
            /\ Tie(a, b) /\ Tie(b, c) => Tie(a, c)

Rearranged(rows) == {[n \in DOMAIN rows |-> rows[f[n]]] : f \in SetToSeqs(DOMAIN rows)}

\* Equal rows come in any order; without a strict weak order the result is undefined, any
\* order here.
SortedResults(s, i, rows) ==
    IF ~StrictWeak(s, i, rows) THEN Rearranged(rows)
    ELSE {r \in Rearranged(rows) : \A m, n \in DOMAIN r : m < n => ~Before(s, i, r[n], r[m])}

SortRows ==
    /\ phase = "sort"
    /\ IF stmt.order_by # <<>> /\ OrderIndex(stmt) = 0 THEN Answer("error") /\ UNCHANGED result
       ELSE /\ result' \in IF stmt.order_by = <<>> THEN {result} ELSE SortedResults(stmt, OrderIndex(stmt), result)
            /\ phase' = "limit"
            /\ UNCHANGED status
    /\ UNCHANGED <<scenario, count, text, written, tokens, stmt, stored>>

\* Mutant: LIMIT is taken from the end.
LimitRowsLast ==
    /\ phase = "limit"
    /\ result' = IF stmt.limit >= 0 /\ stmt.limit < Len(result)
                 THEN SubSeq(result, Len(result) - stmt.limit + 1, Len(result)) ELSE result
    /\ Answer("ok")
    /\ UNCHANGED <<scenario, count, text, written, tokens, stmt, stored>>

LimitRows ==
    /\ phase = "limit"
    /\ result' = IF stmt.limit >= 0 /\ stmt.limit < Len(result) THEN SubSeq(result, 1, stmt.limit) ELSE result
    /\ Answer("ok")
    /\ UNCHANGED <<scenario, count, text, written, tokens, stmt, stored>>

\* The assignments in their order, each converted to the type of its column.
Assigned(row, s) ==
    LET upto[n \in 0..Len(s.assignments)] ==
            IF n = 0 THEN row
            ELSE LET a == s.assignments[n]  i == FindColumn(Schema, a.column)
                 IN  [upto[n - 1] EXCEPT ![i] = Coerce(a.value, Schema.columns[i].type)]
    IN  upto[Len(s.assignments)]

\* An unknown column is noticed at the first row that matches, before anything is written.
ExecUpdate ==
    /\ phase = "update"
    /\ LET keys == Matching(stmt.where) IN
         IF ~Exists \/ (keys # {} /\ \E a \in Range(stmt.assignments) : FindColumn(Schema, a.column) = 0)
         THEN Answer("error") /\ UNCHANGED data
         ELSE /\ data' = [k \in DOMAIN data |->
                             IF k \in keys THEN Serialize(Assigned(Deserialize(data[k]), stmt)) ELSE data[k]]
              /\ Answer("ok")
    /\ UNCHANGED <<scenario, count, text, written, tokens, stmt, catalog, rowid, result>>

ExecDelete ==
    /\ phase = "delete"
    /\ IF ~Exists THEN Answer("error") /\ UNCHANGED data
       ELSE data' = [k \in DOMAIN data \ Matching(stmt.where) |-> data[k]] /\ Answer("ok")
    /\ UNCHANGED <<scenario, count, text, written, tokens, stmt, catalog, rowid, result>>

ExecShowTables ==
    /\ phase = "show"
    /\ result' = IF catalog = None THEN <<>> ELSE <<<<Make("TEXT", Schema.table_name)>>>>
    /\ Answer("ok")
    /\ UNCHANGED <<scenario, count, text, written, tokens, stmt, stored>>

\* One row per column; the answers YES and NO are flags here.
ExecDescribe ==
    /\ phase = "describe"
    /\ IF ~Exists THEN Answer("error") /\ UNCHANGED result
       ELSE result' = Schema.columns /\ Answer("ok")
    /\ UNCHANGED <<scenario, count, text, written, tokens, stmt, stored>>

Next ==
    \/ Idle /\ LET sc == Scenarios[scenario] IN
          \/ \E s \in sc.texts : SubmitText(s)
          \/ \E s \in sc.statements : Submit(s)
          \/ \E s \in sc.statements, t \in sc.slips : \E i \in 1..Len(Write(s)) : SubmitSlip(s, i, t)
    \/ TokenizeText \/ Parse
    \/ ExecCreateTable \/ ExecDropTable \/ ExecInsert
    \/ FilterRows \/ SortRows \/ LimitRows
    \/ ExecUpdate \/ ExecDelete \/ ExecShowTables \/ ExecDescribe

Spec == Init /\ [][Next]_vars

-----------------------------------------------------------------------------
(* Properties.                                                             *)

Cell(v) == v.type \in ColumnType /\ v.is_null \in BOOLEAN

\* Every row that a scan sees has a table and one cell for each of its columns.
TypeOK ==
    /\ phase \in {"idle", "text", "tokens", "create", "drop", "insert", "select", "sort", "limit",
                  "update", "delete", "show", "describe"}
    /\ count \in 0..Scenarios[scenario].length
    /\ status \in {None, "ok", "error"}
    /\ catalog # None => \A col \in Range(Schema.columns) : col.type \in ColumnType
    /\ \A k \in ScanKeys :
           /\ catalog # None
           /\ Len(Deserialize(data[k])) = Len(Schema.columns)
           /\ \A v \in Range(Deserialize(data[k])) : Cell(v)

\* The tokens of a text say all of it that matters: written out again with single spaces and
\* quoted strings they give the same tokens, for every text that tokenize() accepts (escaped
\* and unterminated strings, signs, dots and two-character operators included).
TokensStable ==
    phase = "tokens" /\ text # None =>
        Reading(Tokenize(Spell(tokens))) = Reading(tokens)

\* A statement is parsed as what it was written to be, and a statement that is accepted in
\* spite of a slip is one that could have been written: writing it and parsing that gives it
\* back (missing commas, repeated constraints and early ends leave no half-read statement).
ParsesWritten ==
    /\ phase = "idle" /\ written # None => stmt = written
    /\ phase \notin {"idle", "text", "tokens"} => ParseStatement(Write(stmt)).val = stmt

\* No INSERT reaches the generation of a key: whatever CREATE was accepted, its primary key is
\* NOT NULL, so a statement that does not give the key has been refused before, and every
\* stored row has the key that its statement named.
KeysAreGiven ==
    phase = "insert" /\ Exists /\ ~InsertRefused(Schema, stmt) => ~KeyGenerated(Schema, stmt)

\* Row and schema survive their byte formats, so what is read later is what was stored: NULLs,
\* empty texts and values of a type other than their column's included.
CodecExact ==
    /\ phase = "insert" /\ Exists /\ ~InsertRefused(Schema, stmt) =>
           LET row == BuildRow(Schema, stmt) IN Deserialize(Serialize(row)) = row
    /\ phase = "create" => SchemaDeserialize(SchemaSerialize(NewSchema(stmt))) = NewSchema(stmt)

\* A condition in SQL's sense where the value fits the column: the six operators are those of
\* one total order; with NULL only <> holds.
RefCondition(c, row) ==
    LET i == FindColumn(Schema, c.column)
        cell == row[i]
        v == Coerce(c.value, cell.type)
        eq == cell.val = v.val
        lt == Less(cell.type, cell.val, v.val)
    IN  /\ i # 0
        /\ IF cell.is_null \/ v.is_null THEN c.op = "OP_NE"
           ELSE CASE c.op = "OP_EQ" -> eq [] c.op = "OP_NE" -> ~eq
                  [] c.op = "OP_LT" -> lt [] c.op = "OP_GT" -> ~lt /\ ~eq
                  [] c.op = "OP_LE" -> lt \/ eq [] c.op = "OP_GE" -> ~lt

\* AND before OR: some run of conditions joined by AND holds throughout.
RefWhere(w, row) ==
    LET n == Len(w.conditions) IN
    n = 0 \/ \E a, b \in 1..n :
        /\ a <= b
        /\ a = 1 \/ w.logic_ops[a - 1] = "KW_OR"
        /\ b = n \/ w.logic_ops[b] = "KW_OR"
        /\ \A i \in a..b : RefCondition(w.conditions[i], row)

\* Left to right and SQL's precedence agree unless an AND comes behind an OR.
PlainWhere(w) == \A i, j \in DOMAIN w.logic_ops : i < j /\ w.logic_ops[i] = "KW_OR" => w.logic_ops[j] = "KW_OR"

\* Columns that hold no NULL and one type, their column's.
Homogeneous(i, R) == \A r \in R : ~r[i].is_null /\ r[i].type = Schema.columns[i].type

Comparable(c, R) ==
    LET i == FindColumn(Schema, c.column)
    IN  i # 0 => \A r \in R : Schema.columns[i].type # "BOOL" /\ Coerce(c.value, r[i].type).type = r[i].type

\* The key column, and keys whose texts are ordered as their values.
KeyIndex == FindColumn(Schema, Schema.primary_key)

InPkRange(v) == v.type = "TEXT" \/ (v.type = "INT" /\ v.val \in 0..(10^PkWidth - 1))

\* SELECT * returns exactly the rows that satisfy the condition, as many as LIMIT allows, and
\* no row that was left out comes before a returned one: in the order of ORDER BY if the column
\* holds no NULL, in the order of the primary key without ORDER BY.  Left out: an AND behind
\* an OR, values that do not convert to their column's type, the order of negative keys and of
\* keys beyond ten digits, rows behind the end mark of the scan.
SelectAnswers ==
    LET All == {Deserialize(data[k]) : k \in ScanKeys}
        R == {r \in All : RefWhere(stmt.where, r)}
        i == IF stmt.order_by = <<>> THEN KeyIndex ELSE OrderIndex(stmt)
        Precedes(a, b) == IF stmt.order_by # <<>> /\ stmt.order_desc THEN Less(a[i].type, b[i].val, a[i].val)
                          ELSE Less(a[i].type, a[i].val, b[i].val)
    IN  (/\ phase = "idle" /\ status = "ok" /\ stmt # None /\ stmt.kind = "select" /\ stmt.columns = <<>>
         /\ PlainWhere(stmt.where)
         /\ \A c \in Range(stmt.where.conditions) : Comparable(c, All)) =>
            /\ Range(result) \subseteq R
            /\ IsInjective(result)
            /\ Len(result) = IF stmt.limit >= 0 /\ stmt.limit < Cardinality(R) THEN stmt.limit ELSE Cardinality(R)
            /\ Homogeneous(i, R) /\ (stmt.order_by = <<>> => \A r \in R : InPkRange(r[i])) =>
                   /\ \A m, n \in DOMAIN result : m < n => ~Precedes(result[n], result[m])
                   /\ \A r \in R \ Range(result), n \in DOMAIN result : ~Precedes(r, result[n])

\* The comparator that ORDER BY gives to std::sort is a strict weak order on every column
\* without NULLs and without unconverted values; on others the sort is undefined.
SortDefined ==
    phase = "sort" /\ OrderIndex(stmt) # 0 /\ stmt.columns = <<>>
        /\ Homogeneous(OrderIndex(stmt), Range(result)) => StrictWeak(stmt, OrderIndex(stmt), result)
=============================================================================
