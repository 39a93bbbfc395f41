--------------------------- MODULE MCSqlStatement ---------------------------
(* Bounded texts, statements with slips, odd tables, and queries over small tables. *)
EXTENDS SqlStatement

CONSTANTS MaxText, MaxString

MCKeywords == [w \in {<<"O", "R">>} |-> "KW_OR"]

Alphabet == {"r", "O", "1", "-", ".", "'", "\"", " ", "<", "=", ">", "!"}

Texts ==
    BoundedSeq(Alphabet, MaxText) \cup {Quoted(v) : v \in BoundedSeq({"'", "\"", "r"}, MaxString)}

t  == <<116>>
id == <<105, 100>>
x  == <<120>>

IntV(n)   == Make("INT", n)
FloatV(n) == Make("FLOAT", n)
TextV(s)  == Make("TEXT", s)
BoolV(b)  == Make("BOOL", b)

Col(name, type, nn, pk) == [name |-> name, type |-> type, not_null |-> nn, is_primary_key |-> pk]
Cond(col, op, v) == [column |-> col, op |-> op, value |-> v]
Where(cs, ops) == [conditions |-> cs, logic_ops |-> ops]

Create(cols, pk) == [kind |-> "create", table_name |-> t, columns |-> cols, primary_key |-> pk]
Insert(cols, vals) == [kind |-> "insert", table_name |-> t, columns |-> cols, values |-> vals]
Select(cols, w, by, desc, n) ==
    [kind |-> "select", table_name |-> t, columns |-> cols, where |-> w, order_by |-> by,
     order_desc |-> desc, limit |-> n]
Update(as, w) == [kind |-> "update", table_name |-> t, assignments |-> as, where |-> w]
Delete(w) == [kind |-> "delete", table_name |-> t, where |-> w]

Scenario(schema, rows, texts, statements, slips, length) ==
    [schema |-> schema, rows |-> rows, texts |-> texts, statements |-> statements,
     slips |-> slips, length |-> length]

-----------------------------------------------------------------------------
\* Statements of every kind, and the tokens a slip puts into them.
Where1 == Where(<<Cond(id, "OP_EQ", IntV(1))>>, <<>>)
Where3 == Where(<<Cond(id, "OP_LT", IntV(2)), Cond(x, "OP_NE", MakeNull("TEXT")), Cond(x, "OP_GE", BoolV(TRUE))>>,
                <<"KW_AND", "KW_OR">>)

Grammar ==
    { Create(<<Col(id, "INT", TRUE, TRUE), Col(x, "TEXT", TRUE, FALSE)>>, id),
      Create(<<Col(id, "INT", FALSE, TRUE), Col(x, "BOOL", TRUE, TRUE)>>, x),
      Create(<<Col(x, "FLOAT", FALSE, FALSE)>>, id),
      Insert(<<id, x>>, <<IntV(1), TextV(<<97>>)>>), Insert(<<>>, <<FloatV(1500), MakeNull("TEXT"), BoolV(FALSE)>>),
      Select(<<>>, NoWhere, <<>>, FALSE, -1), Select(<<id, x>>, Where1, x, TRUE, 1),
      Select(<<x>>, Where3, x, FALSE, 0),
      Update(<<[column |-> x, value |-> IntV(2)], [column |-> id, value |-> TextV(<<49>>)]>>, Where1),
      Delete(Where1), Delete(NoWhere),
      [kind |-> "drop", table_name |-> t, if_exists |-> TRUE],
      [kind |-> "drop", table_name |-> t, if_exists |-> FALSE],
      [kind |-> "show"], [kind |-> "describe", table_name |-> t] }

Slips ==
    { Token("COMMA", <<>>, 0), Token("LPAREN", <<>>, 0), Token("RPAREN", <<>>, 0), Token("SEMICOLON", <<>>, 0),
      Token("KW_WHERE", <<>>, 0), Token("KW_AND", <<>>, 0), Token("KW_PRIMARY", <<>>, 0), Token("KW_NULL", <<>>, 0),
      Token("KW_VARCHAR", <<>>, 0), Token("KW_LIMIT", <<>>, 0), Token("OP_EQ", <<>>, 0),
      Token("IDENTIFIER", id, 0), Token("INTEGER_LIT", 1, 0), Token("STRING_LIT", <<50>>, 0) }

\* Tables with a plain, a doubled, a textual and an unknown primary key, and INSERTs into them.
Odd ==
    { Create(<<Col(id, "INT", TRUE, TRUE), Col(x, "TEXT", FALSE, FALSE)>>, id),
      Create(<<Col(id, "INT", FALSE, TRUE), Col(x, "FLOAT", TRUE, TRUE)>>, x),
      Create(<<Col(id, "BOOL", FALSE, FALSE), Col(x, "TEXT", TRUE, TRUE)>>, x),
      Create(<<Col(id, "INT", FALSE, FALSE)>>, x) }
    \cup {Insert(cols, <<v, w>>) : cols \in {<<>>, <<x, id>>, <<id, id>>},
             v \in {IntV(10), FloatV(-1500), TextV(<<>>), TextV(<<97>>)},
             w \in {MakeNull("TEXT"), BoolV(TRUE), TextV(<<49, 48>>), TextV(<<126, 97>>)}}
    \cup {Insert(<<c>>, <<v>>) : c \in {id, x}, v \in {IntV(1), TextV(<<49, 46, 53>>)}}
    \cup {Select(<<>>, NoWhere, <<>>, FALSE, -1), [kind |-> "drop", table_name |-> t, if_exists |-> FALSE],
          [kind |-> "show"], [kind |-> "describe", table_name |-> t]}

\* Tables with three rows, one value column of each type.
ValuesOf(type) ==
    CASE type = "INT" -> {IntV(1), IntV(2), MakeNull("INT"), TextV(<<97>>)}
      [] type = "FLOAT" -> {FloatV(1000), FloatV(1500), MakeNull("FLOAT")}
      [] type = "TEXT" -> {TextV(<<97>>), TextV(<<97, 98>>), TextV(<<49>>)}
      [] type = "BOOL" -> {BoolV(TRUE), BoolV(FALSE)}

Table(type) ==
    [table_name |-> t, primary_key |-> id, columns |-> <<Col(id, "INT", TRUE, TRUE), Col(x, type, FALSE, FALSE)>>]

Wheres ==
    {NoWhere}
    \cup {Where(<<Cond(c, op, v)>>, <<>>) : c \in {id, x}, op \in CompOp,
             v \in {IntV(2), IntV(10), FloatV(1500), TextV(<<97>>)}}
    \cup {Where(<<Cond(id, "OP_LE", IntV(2)), Cond(x, op, IntV(1)), Cond(id, "OP_EQ", IntV(10))>>, <<f, g>>) :
             op \in {"OP_EQ", "OP_GT"}, f \in {"KW_AND", "KW_OR"}, g \in {"KW_AND", "KW_OR"}}

Queries ==
    {Select(<<>>, w, <<>>, FALSE, n) : w \in Wheres, n \in {-1, 1}}
    \cup {Select(<<>>, w, x, d, n) : w \in {NoWhere, Where(<<Cond(id, "OP_GE", IntV(3))>>, <<>>)}, d \in BOOLEAN, n \in {-1, 0, 2}}
    \cup {Select(<<x>>, NoWhere, by, FALSE, 1) : by \in {id, x, t}} \cup {Select(<<t>>, NoWhere, <<>>, FALSE, 1)}
    \cup {Update(<<[column |-> c, value |-> TextV(<<97>>)]>>, Where1) : c \in {x, t}}
    \cup {Delete(Where1)}

\* A table that comes, changes and goes.
Session ==
    { Create(<<Col(id, "INT", TRUE, TRUE), Col(x, "TEXT", FALSE, FALSE)>>, id),
      Create(<<Col(id, "TEXT", TRUE, TRUE)>>, id),
      Insert(<<id, x>>, <<IntV(1), TextV(<<97>>)>>), Insert(<<>>, <<IntV(10), MakeNull("TEXT")>>),
      Insert(<<id>>, <<TextV(<<126, 97>>)>>),
      Update(<<[column |-> x, value |-> IntV(2)]>>, Where(<<Cond(id, "OP_LT", IntV(10))>>, <<>>)),
      Delete(Where1), [kind |-> "drop", table_name |-> t, if_exists |-> FALSE],
      Select(<<>>, NoWhere, x, TRUE, -1) }

\* Named by what they are about; a table by its type and the values of its rows.
MCScenarios ==
    [n \in {<<"texts">>, <<"slips">>, <<"odd">>, <<"session">>, <<"keys">>}
           \cup UNION {{<<type, a, b, c>> : a, b, c \in ValuesOf(type)} : type \in ColumnType} |->
        CASE n[1] = "texts" -> Scenario(None, {}, Texts, {}, {}, 1)
          [] n[1] = "slips" -> Scenario(None, {}, {}, Grammar, Slips, 1)
          [] n[1] = "odd" -> Scenario(None, {}, {}, Odd, {}, 3)
          [] n[1] = "session" -> Scenario(None, {}, {}, Session, {}, 5)
          [] n[1] = "keys" -> Scenario(Table("INT"), {<<IntV(-1), IntV(1)>>, <<IntV(2), IntV(1)>>, <<IntV(100), IntV(2)>>},
                                       {}, Queries, {}, 1)
          [] OTHER -> Scenario(Table(n[1]), {<<IntV(1), n[2]>>, <<IntV(3), n[3]>>, <<IntV(10), n[4]>>},
                               {}, Queries, {}, 1)]
=============================================================================
