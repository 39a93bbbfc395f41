------------------------------ MODULE SqlParser -----------------------------
(***************************************************************************)
(* SQLParser (src/src/sql/sql_parser.cpp): recursive descent over a        *)
(* sequence of tokens that ends with END_OF_INPUT.  A parsing operator     *)
(* takes the tokens and a position and gives what it read and the position *)
(* behind it, or Failed where the code throws.  The value of a literal is  *)
(* its number (thousandths for FLOAT_LIT) or text; names are texts.        *)
(***************************************************************************)
EXTENDS SqlValues

CompOp == {"OP_EQ", "OP_NE", "OP_LT", "OP_GT", "OP_LE", "OP_GE"}

\* TokenType without the names and literals.
PlainToken ==
    {"KW_CREATE", "KW_TABLE", "KW_DROP", "KW_INSERT", "KW_INTO", "KW_VALUES", "KW_SELECT", "KW_FROM", "KW_WHERE",
     "KW_UPDATE", "KW_SET", "KW_DELETE", "KW_AND", "KW_OR", "KW_NOT", "KW_NULL", "KW_PRIMARY", "KW_KEY", "KW_INT",
     "KW_FLOAT", "KW_TEXT", "KW_BOOL", "KW_INTEGER", "KW_REAL", "KW_VARCHAR", "KW_BOOLEAN", "KW_STRING", "KW_DOUBLE",
     "KW_NOT_NULL", "KW_TRUE", "KW_FALSE", "KW_IF", "KW_EXISTS", "KW_ORDER", "KW_BY", "KW_ASC", "KW_DESC", "KW_LIMIT",
     "KW_SHOW", "KW_TABLES", "KW_DESCRIBE", "COMMA", "LPAREN", "RPAREN", "SEMICOLON", "STAR", "DOT", "END_OF_INPUT"}
    \cup CompOp

\* The tokens of a parser whose literals have values.
Tokens ==
    [type : {"IDENTIFIER", "STRING_LIT"}, value : Text, position : Nat]
    \cup [type : {"INTEGER_LIT", "FLOAT_LIT"}, value : Int, position : Nat]
    \cup [type : PlainToken, value : {<<>>}, position : Nat]

LogicOp == {"KW_AND", "KW_OR"}

Condition == [column : Text, op : CompOp, value : Values]

WhereClause ==
    {w \in [conditions : Seq(Condition), logic_ops : Seq(LogicOp)] :
        Len(w.conditions) = IF w.conditions = <<>> THEN Len(w.logic_ops) ELSE Len(w.logic_ops) + 1}

Assignment == [column : Text, value : Values]

Statement ==
    [kind : {"create"}, table_name : Text, primary_key : Text, columns : Seq(ColumnDef)]
    \cup [kind : {"drop"}, table_name : Text, if_exists : BOOLEAN]
    \cup [kind : {"insert"}, table_name : Text, columns : Seq(Text), values : Seq(Values)]
    \cup [kind : {"select"}, table_name : Text, columns : Seq(Text), where : WhereClause, order_by : Text,
          order_desc : BOOLEAN, limit : Int]
    \cup [kind : {"update"}, table_name : Text, assignments : Seq(Assignment), where : WhereClause]
    \cup [kind : {"delete"}, table_name : Text, where : WhereClause]
    \cup [kind : {"show"}] \cup [kind : {"describe"}, table_name : Text]

Failed == [next |-> 0, val |-> <<>>]

Fails(x) == x.next = 0

Is(ts, p, type) == ts[p].type = type

AtEnd(ts, p) == ts[p].type \in {"END_OF_INPUT", "SEMICOLON"}

Advance(ts, p) == IF p < Len(ts) THEN p + 1 ELSE p

\* Calls of expect() one after the other: the position behind them, 0 for an error.
Expect(ts, p, types) ==
    IF p # 0 /\ \A i \in DOMAIN types : p + i - 1 <= Len(ts) /\ Is(ts, p + i - 1, types[i])
    THEN p + Len(types) ELSE 0

\* expect(IDENTIFIER).
Name(ts, p) ==
    IF Expect(ts, p, <<"IDENTIFIER">>) = 0 THEN Failed ELSE [next |-> p + 1, val |-> ts[p].value]

Names(ts) == [q \in 1..Len(ts) |-> Name(ts, q)]

SkipComma(ts, p) == IF Is(ts, p, "COMMA") THEN Advance(ts, p) ELSE p

\* push_back() of what was read, before the rest of a list.
Prepend(x, rest) == IF Fails(rest) THEN Failed ELSE [rest EXCEPT !.val = <<x.val>> \o @]

\* expect(RPAREN) behind a list.
CloseList(ts, list) ==
    LET close == Expect(ts, list.next, <<"RPAREN">>)
    IN  IF close = 0 THEN Failed ELSE [list EXCEPT !.next = close]

\* while (!match(RPAREN) && !at_end()) with a comma that may be missing, then the parenthesis;
\* item says what an item read from each position is.
ParenList(ts, p, item) ==
    LET from[q \in 1..Len(ts)] ==
            IF Is(ts, q, "RPAREN") \/ AtEnd(ts, q) THEN [next |-> q, val |-> <<>>]
            ELSE IF Fails(item[q]) THEN Failed
            ELSE Prepend(item[q], from[SkipComma(ts, item[q].next)])
    IN  CloseList(ts, IF p = 0 THEN Failed ELSE from[p])

\* while (true) { ...; if (!match(COMMA)) break; advance(); }
CommaList(ts, p, item) ==
    LET from[q \in 1..Len(ts)] ==
            IF Fails(item[q]) THEN Failed
            ELSE IF ~Is(ts, item[q].next, "COMMA") THEN [item[q] EXCEPT !.val = <<@>>]
            ELSE Prepend(item[q], from[Advance(ts, item[q].next)])
    IN  IF p = 0 THEN Failed ELSE from[p]

ParseValue(ts, p) ==
    LET Give(v) == [next |-> Advance(ts, p), val |-> v] IN
    CASE Is(ts, p, "INTEGER_LIT") -> Give(Make("INT", ts[p].value))
      [] Is(ts, p, "FLOAT_LIT") -> Give(Make("FLOAT", ts[p].value))
      [] Is(ts, p, "STRING_LIT") -> Give(Make("TEXT", ts[p].value))
      [] Is(ts, p, "KW_TRUE") -> Give(Make("BOOL", TRUE))
      [] Is(ts, p, "KW_FALSE") -> Give(Make("BOOL", FALSE))
      [] Is(ts, p, "KW_NULL") -> Give(MakeNull("TEXT"))
      [] OTHER -> Failed

-----------------------------------------------------------------------------
(* CREATE TABLE.                                                           *)

TypeOfToken(type) ==
    CASE type \in {"KW_INT", "KW_INTEGER"} -> "INT"
      [] type \in {"KW_FLOAT", "KW_REAL", "KW_DOUBLE"} -> "FLOAT"
      [] type \in {"KW_TEXT", "KW_STRING", "KW_VARCHAR"} -> "TEXT"
      [] type \in {"KW_BOOL", "KW_BOOLEAN"} -> "BOOL"
      [] OTHER -> "none"

\* TEXT and its synonyms take a length, any token, in parentheses.
ParseColumnType(ts, p) ==
    LET type == TypeOfToken(ts[p].type)
        q == Advance(ts, p)
        close == Expect(ts, Advance(ts, Advance(ts, q)), <<"RPAREN">>)
    IN  IF type = "none" THEN Failed
        ELSE IF type = "TEXT" /\ Is(ts, q, "LPAREN")
        THEN IF close = 0 THEN Failed ELSE [next |-> close, val |-> type]
        ELSE [next |-> q, val |-> type]

\* PRIMARY KEY and NOT NULL in any order and number, up to something else.
ParseConstraints(ts, p, col) ==
    LET from[q \in 1..Len(ts)] ==
            LET word == IF Is(ts, q, "KW_PRIMARY") THEN <<"KW_PRIMARY", "KW_KEY">> ELSE <<"KW_NOT", "KW_NULL">>
                after == Expect(ts, q, word)
            IN  IF ts[q].type \notin {"KW_PRIMARY", "KW_NOT"} THEN [next |-> q, val |-> col]
                ELSE IF after = 0 \/ Fails(from[after]) THEN Failed
                ELSE IF Is(ts, q, "KW_PRIMARY") THEN [from[after] EXCEPT !.val.is_primary_key = TRUE]
                ELSE [from[after] EXCEPT !.val.not_null = TRUE]
    IN  from[p]

\* An element of the list: a column, or PRIMARY KEY (name).
ParseColumn(ts, p) ==
    IF Is(ts, p, "KW_PRIMARY")
    THEN LET pk == Name(ts, Expect(ts, p, <<"KW_PRIMARY", "KW_KEY", "LPAREN">>))
             close == Expect(ts, pk.next, <<"RPAREN">>)
         IN  IF close = 0 THEN Failed ELSE [next |-> close, val |-> [table_key |-> pk.val]]
    ELSE LET name == Name(ts, p)
             type == IF Fails(name) THEN Failed ELSE ParseColumnType(ts, name.next)
         IN  IF Fails(type) THEN Failed
             ELSE ParseConstraints(ts, type.next,
                      [name |-> name.val, type |-> type.val, not_null |-> FALSE, is_primary_key |-> FALSE])

IsTableKey(item) == DOMAIN item = {"table_key"}

\* The last declaration of a primary key counts.
PrimaryKey(items) ==
    LET keys == {i \in DOMAIN items : IsTableKey(items[i]) \/ items[i].is_primary_key}
        last == items[Max(keys)]
    IN  IF keys = {} THEN <<>> ELSE IF IsTableKey(last) THEN last.table_key ELSE last.name

\* The columns among the items.
ColumnsOf(items) ==
    LET upto[i \in 0..Len(items)] ==
            IF i = 0 THEN <<>>
            ELSE IF IsTableKey(items[i]) THEN upto[i - 1] ELSE Append(upto[i - 1], items[i])
    IN  upto[Len(items)]

\* Mutant: NOT NULL only where the column says so.
MarkPrimaryKeyNullable(col, pk) == IF pk # <<>> /\ col.name = pk THEN [col EXCEPT !.is_primary_key = TRUE] ELSE col

MarkPrimaryKey(col, pk) ==
    IF pk # <<>> /\ col.name = pk THEN [col EXCEPT !.is_primary_key = TRUE, !.not_null = TRUE] ELSE col

\* The statement that the name and the list give.
CreateTableStmt(name, list) ==
    LET cols == ColumnsOf(list.val)
        pk == PrimaryKey(list.val)
    IN  IF Fails(list) THEN Failed
        ELSE [next |-> list.next,
              val |-> [kind |-> "create", table_name |-> name.val, primary_key |-> pk,
                       columns |-> [i \in DOMAIN cols |-> MarkPrimaryKey(cols[i], pk)]]]

ParseCreateTable(ts, p) ==
    LET name == Name(ts, Expect(ts, p, <<"KW_CREATE", "KW_TABLE">>))
        column == [q \in 1..Len(ts) |-> ParseColumn(ts, q)]
    IN  CreateTableStmt(name, ParenList(ts, Expect(ts, name.next, <<"LPAREN">>), column))

-----------------------------------------------------------------------------
(* The other statements.                                                   *)

ParseDropTable(ts, p) ==
    LET table == Expect(ts, p, <<"KW_DROP", "KW_TABLE">>)
        if == table # 0 /\ Is(ts, table, "KW_IF")
        name == Name(ts, IF if THEN Expect(ts, table, <<"KW_IF", "KW_EXISTS">>) ELSE table)
    IN  IF Fails(name) THEN Failed
        ELSE [next |-> name.next, val |-> [kind |-> "drop", table_name |-> name.val, if_exists |-> if]]

ParseInsert(ts, p) ==
    LET name == Name(ts, Expect(ts, p, <<"KW_INSERT", "KW_INTO">>))
        cols == IF Fails(name) THEN Failed
                ELSE IF Is(ts, name.next, "LPAREN") THEN ParenList(ts, Advance(ts, name.next), Names(ts))
                ELSE [next |-> name.next, val |-> <<>>]
        value == [q \in 1..Len(ts) |-> ParseValue(ts, q)]
        values == ParenList(ts, Expect(ts, cols.next, <<"KW_VALUES", "LPAREN">>), value)
    IN  IF Fails(values) THEN Failed
        ELSE [next |-> values.next,
              val |-> [kind |-> "insert", table_name |-> name.val, columns |-> cols.val, values |-> values.val]]

ParseCondition(ts, p) ==
    LET col == Name(ts, p)
        value == IF Fails(col) \/ ts[col.next].type \notin CompOp THEN Failed
                 ELSE ParseValue(ts, Advance(ts, col.next))
    IN  IF Fails(value) THEN Failed
        ELSE [next |-> value.next,
              val |-> [column |-> col.val, op |-> ts[col.next].type, value |-> value.val]]

NoWhere == [conditions |-> <<>>, logic_ops |-> <<>>]

\* A condition and the operator behind it, before the rest of a WHERE.
PrependCondition(c, op, rest) ==
    IF Fails(rest) THEN Failed
    ELSE [next |-> rest.next,
          val |-> [conditions |-> <<c.val>> \o rest.val.conditions, logic_ops |-> <<op>> \o rest.val.logic_ops]]

\* The optional WHERE: conditions with AND or OR between them.
ParseWhere(ts, p) ==
    LET from[q \in 1..Len(ts)] ==
            LET c == ParseCondition(ts, q) IN
            IF Fails(c) THEN Failed
            ELSE IF ts[c.next].type \notin {"KW_AND", "KW_OR"}
            THEN [next |-> c.next, val |-> [conditions |-> <<c.val>>, logic_ops |-> <<>>]]
            ELSE PrependCondition(c, ts[c.next].type, from[Advance(ts, c.next)])
    IN  IF p = 0 THEN Failed
        ELSE IF ~Is(ts, p, "KW_WHERE") THEN [next |-> p, val |-> NoWhere]
        ELSE from[Advance(ts, p)]

\* Mutant: ASC is not read, so that a LIMIT behind it is not seen.
ParseOrderAscStays(ts, p) ==
    LET col == Name(ts, Expect(ts, p, <<"KW_ORDER", "KW_BY">>)) IN
    IF p = 0 THEN Failed
    ELSE IF ~Is(ts, p, "KW_ORDER") THEN [next |-> p, val |-> [by |-> <<>>, desc |-> FALSE]]
    ELSE IF Fails(col) THEN Failed
    ELSE [next |-> IF Is(ts, col.next, "KW_DESC") THEN Advance(ts, col.next) ELSE col.next,
          val |-> [by |-> col.val, desc |-> Is(ts, col.next, "KW_DESC")]]

\* The optional ORDER BY.
ParseOrder(ts, p) ==
    LET col == Name(ts, Expect(ts, p, <<"KW_ORDER", "KW_BY">>)) IN
    IF p = 0 THEN Failed
    ELSE IF ~Is(ts, p, "KW_ORDER") THEN [next |-> p, val |-> [by |-> <<>>, desc |-> FALSE]]
    ELSE IF Fails(col) THEN Failed
    ELSE [next |-> IF ts[col.next].type \in {"KW_ASC", "KW_DESC"} THEN Advance(ts, col.next) ELSE col.next,
          val |-> [by |-> col.val, desc |-> Is(ts, col.next, "KW_DESC")]]

\* The optional LIMIT: stoi() of whatever token comes.
ParseLimit(ts, p) ==
    LET q == Advance(ts, p)
        Give(n) == [next |-> Advance(ts, q), val |-> n]
    IN  IF p = 0 THEN Failed
        ELSE IF ~Is(ts, p, "KW_LIMIT") THEN [next |-> p, val |-> -1]
        ELSE CASE Is(ts, q, "INTEGER_LIT") -> Give(ts[q].value)
               [] Is(ts, q, "FLOAT_LIT") -> Give(Truncated(ts[q].value))
               [] Is(ts, q, "STRING_LIT") -> IF IsNumber(ts[q].value) THEN Give(Stoll(ts[q].value)) ELSE Failed
               [] OTHER -> Failed

ParseSelect(ts, p) ==
    LET select == Expect(ts, p, <<"KW_SELECT">>)
        star == select # 0 /\ Is(ts, select, "STAR")
        cols == IF star THEN [next |-> Advance(ts, select), val |-> <<>>] ELSE CommaList(ts, select, Names(ts))
        name == Name(ts, Expect(ts, cols.next, <<"KW_FROM">>))
        where == ParseWhere(ts, name.next)
        order == ParseOrder(ts, where.next)
        limit == ParseLimit(ts, order.next)
    IN  IF Fails(limit) THEN Failed
        ELSE [next |-> limit.next,
              val |-> [kind |-> "select", table_name |-> name.val, columns |-> cols.val, where |-> where.val,
                       order_by |-> order.val.by, order_desc |-> order.val.desc, limit |-> limit.val]]

ParseAssignment(ts, p) ==
    LET col == Name(ts, p)
        eq == Expect(ts, col.next, <<"OP_EQ">>)
        value == IF eq = 0 THEN Failed ELSE ParseValue(ts, eq)
    IN  IF Fails(value) THEN Failed
        ELSE [next |-> value.next, val |-> [column |-> col.val, value |-> value.val]]

ParseUpdate(ts, p) ==
    LET name == Name(ts, Expect(ts, p, <<"KW_UPDATE">>))
        assignment == [q \in 1..Len(ts) |-> ParseAssignment(ts, q)]
        sets == CommaList(ts, Expect(ts, name.next, <<"KW_SET">>), assignment)
        where == ParseWhere(ts, sets.next)
    IN  IF Fails(where) THEN Failed
        ELSE [next |-> where.next,
              val |-> [kind |-> "update", table_name |-> name.val, assignments |-> sets.val, where |-> where.val]]

ParseDelete(ts, p) ==
    LET name == Name(ts, Expect(ts, p, <<"KW_DELETE", "KW_FROM">>))
        where == ParseWhere(ts, name.next)
    IN  IF Fails(where) THEN Failed
        ELSE [next |-> where.next, val |-> [kind |-> "delete", table_name |-> name.val, where |-> where.val]]

ParseShowTables(ts, p) ==
    LET next == Expect(ts, p, <<"KW_SHOW", "KW_TABLES">>) IN
    IF next = 0 THEN Failed ELSE [next |-> next, val |-> [kind |-> "show"]]

ParseDescribe(ts, p) ==
    LET name == Name(ts, Expect(ts, p, <<"KW_DESCRIBE">>)) IN
    IF Fails(name) THEN Failed
    ELSE [next |-> name.next, val |-> [kind |-> "describe", table_name |-> name.val]]

\* parse_statement(); what follows a complete statement is not looked at.
ParseStatement(ts) ==
    CASE Is(ts, 1, "KW_CREATE") -> ParseCreateTable(ts, 1)
      [] Is(ts, 1, "KW_DROP") -> ParseDropTable(ts, 1)
      [] Is(ts, 1, "KW_INSERT") -> ParseInsert(ts, 1)
      [] Is(ts, 1, "KW_SELECT") -> ParseSelect(ts, 1)
      [] Is(ts, 1, "KW_UPDATE") -> ParseUpdate(ts, 1)
      [] Is(ts, 1, "KW_DELETE") -> ParseDelete(ts, 1)
      [] Is(ts, 1, "KW_SHOW") -> ParseShowTables(ts, 1)
      [] Is(ts, 1, "KW_DESCRIBE") -> ParseDescribe(ts, 1)
      [] OTHER -> Failed
=============================================================================
