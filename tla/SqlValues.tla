----------------------------- MODULE SqlValues ------------------------------
(***************************************************************************)
(* Values, their conversions and comparisons (src/include/mosaicdb/types.h,*)
(* src/src/sql/executor.cpp) and the byte formats of rows and schemas      *)
(* (src/src/relational/row.cpp, src/include/mosaicdb/schema.h).            *)
(*                                                                         *)
(* A text is a sequence of character codes.  A FLOAT is a number of        *)
(* thousandths, so that the two decimals of to_string() lose something.    *)
(* An integer in a byte format fills as many cells as it has bytes: its    *)
(* value in the first one, zeroes behind it.                               *)
(***************************************************************************)
EXTENDS Integers, Sequences, SequencesExt

CONSTANTS
    PkWidth   \* digits of a formatted primary key (10 in the code)

ColumnType == {"INT", "FLOAT", "TEXT", "BOOL"}

\* The member of a Value that its type does not use has its initial value.
Default(type) == CASE type = "TEXT" -> <<>> [] type = "BOOL" -> FALSE [] OTHER -> 0

Make(type, v) == [type |-> type, is_null |-> FALSE, val |-> v]

MakeNull(type) == [type |-> type, is_null |-> TRUE, val |-> Default(type)]

Text == Seq(Int)

Values ==
    [type : {"INT", "FLOAT"}, is_null : {FALSE}, val : Int]
    \cup [type : {"TEXT"}, is_null : {FALSE}, val : Text]
    \cup [type : {"BOOL"}, is_null : {FALSE}, val : BOOLEAN]
    \cup {MakeNull(type) : type \in ColumnType}

\* The member of v that a comparison by another value's type looks at.
Field(v, type) == IF v.type = type THEN v.val ELSE Default(type)

-----------------------------------------------------------------------------
(* Text.                                                                   *)

Minus == 45
Dot   == 46
IsDigit(c) == c \in 48..57

Digits[n \in Nat] == IF n < 10 THEN <<48 + n>> ELSE Append(Digits[n \div 10], 48 + (n % 10))

\* The digits that t begins with.
DigitPrefix(t) == SubSeq(t, 1, Max({j \in 0..Len(t) : \A k \in 1..j : IsDigit(t[k])}))

Number(t) ==
    LET upto[i \in 0..Len(t)] == IF i = 0 THEN 0 ELSE 10 * upto[i - 1] + (t[i] - 48)
    IN  upto[Len(t)]

Signed(t, n) == IF t # <<>> /\ t[1] = Minus THEN -n ELSE n
Unsigned(t)  == IF t # <<>> /\ t[1] = Minus THEN Tail(t) ELSE t

\* stoll() and stod() read the longest prefix that is a number, and throw if there is none.
IsNumber(t) == DigitPrefix(Unsigned(t)) # <<>>

Stoll(t) == Signed(t, Number(DigitPrefix(Unsigned(t))))

Stod(t) ==
    LET u == Unsigned(t)
        n == Len(DigitPrefix(u))
        f == IF n < Len(u) /\ u[n + 1] = Dot THEN DigitPrefix(SubSeq(u, n + 2, Len(u))) ELSE <<>>
    IN  Signed(t, 1000 * Number(DigitPrefix(u)) + Number(SubSeq(f \o <<48, 48, 48>>, 1, 3)))

Truncated(f) == IF f >= 0 THEN f \div 1000 ELSE -((-f) \div 1000)

Abs(n) == IF n < 0 THEN -n ELSE n

Sign(n) == IF n < 0 THEN <<Minus>> ELSE <<>>

\* Two decimals.
FloatText(f) ==
    LET h == (Abs(f) + 5) \div 10
    IN  Sign(f) \o Digits[h \div 100] \o <<Dot, 48 + ((h % 100) \div 10), 48 + (h % 10)>>

ToText(v) ==
    IF v.is_null THEN <<78, 85, 76, 76>>
    ELSE CASE v.type = "INT" -> Sign(v.val) \o Digits[Abs(v.val)]
           [] v.type = "FLOAT" -> FloatText(v.val)
           [] v.type = "TEXT" -> v.val
           [] v.type = "BOOL" -> IF v.val THEN <<84, 82, 85, 69>> ELSE <<70, 65, 76, 83, 69>>

\* The order of keys in the engine and of texts in comparisons.
LexLess(a, b) ==
    \E i \in 1..Len(b) :
        /\ \A j \in 1..(i - 1) : j <= Len(a) /\ a[j] = b[j]
        /\ i > Len(a) \/ a[i] < b[i]

\* "%010lld" for INT, the sign being one of the ten characters.
FormatPk(v) ==
    IF v.type # "INT" \/ v.is_null THEN ToText(v)
    ELSE LET digits == Digits[Abs(v.val)]
             zeroes == PkWidth - Len(Sign(v.val)) - Len(digits)
         IN  Sign(v.val) \o [i \in 1..(IF zeroes > 0 THEN zeroes ELSE 0) |-> 48] \o digits

-----------------------------------------------------------------------------
(* Executor::coerce_value and the comparisons of Value.                    *)

\* A value that cannot be converted stays as it is, with its own type.
Coerce(v, type) ==
    IF v.is_null THEN MakeNull(type)
    ELSE CASE v.type = type -> v
           [] v.type = "INT" /\ type = "FLOAT" -> Make("FLOAT", 1000 * v.val)
           [] v.type = "FLOAT" /\ type = "INT" -> Make("INT", Truncated(v.val))
           [] v.type = "TEXT" /\ type = "INT" /\ IsNumber(v.val) -> Make("INT", Stoll(v.val))
           [] v.type = "TEXT" /\ type = "FLOAT" /\ IsNumber(v.val) -> Make("FLOAT", Stod(v.val))
           [] v.type # "TEXT" /\ type = "TEXT" -> Make("TEXT", ToText(v))
           [] OTHER -> v

Known(a, b) == ~a.is_null /\ ~b.is_null

CompareEq(a, b) == Known(a, b) /\ a.val = Field(b, a.type)

Less(type, x, y) ==
    CASE type \in {"INT", "FLOAT"} -> x < y
      [] type = "TEXT" -> LexLess(x, y)
      [] type = "BOOL" -> FALSE

\* Mutant: equal values are less than each other.
CompareLtOrEq(a, b) == Known(a, b) /\ (Less(a.type, a.val, Field(b, a.type)) \/ a.val = Field(b, a.type))

CompareLt(a, b) == Known(a, b) /\ Less(a.type, a.val, Field(b, a.type))

CompareGt(a, b) == Known(a, b) /\ Less(a.type, Field(b, a.type), a.val)

-----------------------------------------------------------------------------
(* RowSerializer.                                                          *)

Cells(n, x) == <<x>> \o [i \in 1..(n - 1) |-> 0]
U32(n)      == Cells(4, n)
Flag(b)     == IF b THEN <<1>> ELSE <<0>>
Sized(t)    == U32(Len(t)) \o t

TypeByte(type) == CASE type = "INT" -> 1 [] type = "FLOAT" -> 2 [] type = "TEXT" -> 3 [] type = "BOOL" -> 4

TypeOf(byte) == CHOOSE type \in ColumnType : TypeByte(type) = byte

Payload(v) ==
    CASE v.type \in {"INT", "FLOAT"} -> U32(8) \o Cells(8, v.val)
      [] v.type = "TEXT" -> Sized(v.val)
      [] v.type = "BOOL" -> U32(1) \o Flag(v.val)

\* Mutant: the flag of a NULL is not written.
ValueBytesNoFlag(v) == <<TypeByte(v.type)>> \o Flag(FALSE) \o Payload(v)

ValueBytes(v) ==
    <<TypeByte(v.type)>> \o Flag(v.is_null) \o
    IF v.is_null THEN U32(0) ELSE Payload(v)

Serialize(values) == U32(Len(values)) \o FlattenSeq([i \in DOMAIN values |-> ValueBytes(values[i])])

\* The value at pos and the position behind it; the length is used for TEXT only.
ReadValue(data, pos) ==
    LET type == TypeOf(data[pos])
        len == data[pos + 2]
        at == pos + 6
    IN  IF data[pos + 1] # 0 THEN [val |-> MakeNull(type), next |-> at]
        ELSE CASE type \in {"INT", "FLOAT"} -> [val |-> Make(type, data[at]), next |-> at + 8]
               [] type = "TEXT" -> [val |-> Make(type, SubSeq(data, at, at + len - 1)), next |-> at + len]
               [] type = "BOOL" -> [val |-> Make(type, data[at] # 0), next |-> at + 1]

Deserialize(data) ==
    LET values[i \in 0..data[1]] ==
            IF i = 0 THEN [vals |-> <<>>, next |-> 5]
            ELSE LET r == ReadValue(data, values[i - 1].next)
                 IN  [vals |-> Append(values[i - 1].vals, r.val), next |-> r.next]
    IN  values[data[1]].vals

-----------------------------------------------------------------------------
(* TableSchema.                                                            *)

ColumnDef == [name : Text, type : ColumnType, not_null : BOOLEAN, is_primary_key : BOOLEAN]

TableSchema == [table_name : Text, primary_key : Text, columns : Seq(ColumnDef)]

FindColumn(schema, name) ==
    LET hits == {i \in DOMAIN schema.columns : schema.columns[i].name = name}
    IN  IF hits = {} THEN 0 ELSE CHOOSE i \in hits : \A j \in hits : i <= j

ColumnBytes(col) ==
    Sized(col.name) \o <<TypeByte(col.type)>> \o Flag(col.not_null) \o Flag(col.is_primary_key)

SchemaSerialize(schema) ==
    Sized(schema.table_name) \o Sized(schema.primary_key) \o U32(Len(schema.columns)) \o
    FlattenSeq([i \in DOMAIN schema.columns |-> ColumnBytes(schema.columns[i])])

SchemaDeserialize(data) ==
    LET TextAt(pos) == SubSeq(data, pos + 4, pos + 3 + data[pos])
        Behind(pos) == pos + 4 + data[pos]
        pk == Behind(1)
        count == Behind(pk)
        column[i \in 0..data[count]] ==
            IF i = 0 THEN [cols |-> <<>>, next |-> count + 4]
            ELSE LET pos == column[i - 1].next  q == Behind(pos)
                 IN  [cols |-> Append(column[i - 1].cols,
                                      [name |-> TextAt(pos), type |-> TypeOf(data[q]),
                                       not_null |-> data[q + 1] # 0, is_primary_key |-> data[q + 2] # 0]),
                      next |-> q + 3]
    IN  [table_name |-> TextAt(1), primary_key |-> TextAt(pk), columns |-> column[data[count]].cols]
=============================================================================
