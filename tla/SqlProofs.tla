------------------------------ MODULE SqlProofs ------------------------------
(***************************************************************************)
(* A statement from its text to its answer, for every text, table, row and *)
(* scenario that StatementConstants admits.                                *)
(*                                                                         *)
(* First the operators: rows and schemas survive their byte formats, the   *)
(* comparator of ORDER BY is a strict weak order, no INSERT makes up a     *)
(* primary key, the tokenizer reads on with every turn, and the parser     *)
(* turns any tokens into a well-formed statement or throws.  Then the      *)
(* session: SessionInv is inductive, and TypeOK, KeysAreGiven, CodecExact  *)
(* and SortDefined follow from it.  Last what is selected: WHERE agrees    *)
(* with its meaning in SQL, and SELECT answers with the rows it asked for. *)
(*                                                                         *)
(* Induction runs over the positions of a sequence (Positions), by a least *)
(* counterexample, since no operator can be given to the library's         *)
(* induction theorems.                                                     *)
(***************************************************************************)
EXTENDS SqlStatement, TLAPS, WellFoundedInduction, FiniteSetTheorems

\* A set of naturals has a least member.
LEMMA LeastOf ==
    ASSUME NEW D \in SUBSET Nat, D # {}
    PROVE  \E k \in D : \A j \in D : k <= j
<1>1. PICK k \in D : \A j \in D : ~(<<j, k>> \in OpToRel(<, Nat))
  BY NatLessThanWellFounded, WFMin
<1>2. \A j \in D : ~(j < k)
  BY <1>1 DEF OpToRel
<1> QED
  BY <1>2

-----------------------------------------------------------------------------
(* The order of texts.                                                     *)

\* No text is less than itself.
LEMMA LexIrreflexive ==
    ASSUME NEW a \in Text
    PROVE  ~LexLess(a, a)
BY DEF LexLess, Text

\* The order of texts is transitive.
LEMMA LexTransitive ==
    ASSUME NEW a \in Text, NEW b \in Text, NEW c \in Text, LexLess(a, b), LexLess(b, c)
    PROVE  LexLess(a, c)
<1>0. Len(a) \in Nat /\ Len(b) \in Nat /\ Len(c) \in Nat
  BY DEF Text
<1>1. PICK i \in 1..Len(b) : /\ \A j \in 1..(i - 1) : j <= Len(a) /\ a[j] = b[j]
                             /\ i > Len(a) \/ a[i] < b[i]
  BY DEF LexLess
<1>2. PICK m \in 1..Len(c) : /\ \A j \in 1..(m - 1) : j <= Len(b) /\ b[j] = c[j]
                             /\ m > Len(b) \/ b[m] < c[m]
  BY DEF LexLess
<1>3. \A j \in 1..Len(a) : a[j] \in Int
  BY DEF Text
<1>4. \A j \in 1..Len(b) : b[j] \in Int
  BY DEF Text
<1>5. \A j \in 1..Len(c) : c[j] \in Int
  BY DEF Text
<1>6. CASE i < m
  <2>1. i \in 1..Len(c) /\ i \in 1..(m - 1) /\ b[i] = c[i]
    BY <1>0, <1>1, <1>2, <1>6
  <2>2. \A j \in 1..(i - 1) : j <= Len(a) /\ a[j] = c[j]
    BY <1>0, <1>1, <1>2, <1>6
  <2>3. i > Len(a) \/ a[i] < c[i]
    BY <1>1, <2>1
  <2> QED
    BY <2>1, <2>2, <2>3 DEF LexLess
<1>7. CASE m <= i
  <2>1. m \in 1..Len(b)
    BY <1>0, <1>1, <1>2, <1>7
  <2>2. b[m] < c[m]
    BY <1>0, <1>2, <2>1
  <2>3. \A j \in 1..(m - 1) : j <= Len(a) /\ a[j] = c[j]
    BY <1>0, <1>1, <1>2, <1>7
  <2>4. m > Len(a) \/ a[m] < c[m]
    <3>1. CASE m < i
      <4>1. m \in 1..(i - 1) /\ a[m] = b[m]
        BY <1>0, <1>1, <1>2, <3>1
      <4> QED
        BY <4>1, <2>2
    <3>2. CASE m = i
      <4>1. CASE m <= Len(a)
        <5>1. a[m] \in Int /\ b[m] \in Int /\ c[m] \in Int /\ a[m] < b[m]
          BY <1>0, <1>1, <1>2, <1>3, <1>4, <1>5, <2>1, <3>2, <4>1
        <5> QED
          BY <5>1, <2>2
      <4>2. CASE ~(m <= Len(a))
        BY <1>0, <4>2, <1>2
      <4> QED
        BY <4>1, <4>2
    <3> QED
      BY <1>0, <1>1, <1>2, <1>7, <3>1, <3>2
  <2> QED
    BY <2>3, <2>4 DEF LexLess
<1> QED
  BY <1>0, <1>1, <1>2, <1>6, <1>7

\* Of two different texts one is less.
LEMMA LexTotal ==
    ASSUME NEW a \in Text, NEW b \in Text, a # b
    PROVE  LexLess(a, b) \/ LexLess(b, a)
<1>0. Len(a) \in Nat /\ Len(b) \in Nat
  BY DEF Text
<1> DEFINE Differ == {i \in Nat \ {0} : \/ i > Len(a) /\ i <= Len(b)
                                        \/ i > Len(b) /\ i <= Len(a)
                                        \/ i <= Len(a) /\ i <= Len(b) /\ a[i] # b[i]}
<1>1. Differ # {}
  <2>1. CASE Len(a) = Len(b)
    <3>1. \E i \in 1..Len(a) : a[i] # b[i]
      BY <2>1 DEF Text
    <3> QED
      BY <3>1, <2>1, <1>0
  <2>2. CASE Len(a) < Len(b)
    <3>1. Len(b) \in Differ
      BY <2>2, <1>0
    <3> QED
      BY <3>1
  <2>3. CASE Len(b) < Len(a)
    <3>1. Len(a) \in Differ
      BY <2>3, <1>0
    <3> QED
      BY <3>1
  <2> QED
    BY <1>0, <2>1, <2>2, <2>3
<1>2. PICK i \in Differ : \A j \in Differ : i <= j
  <2>1. Differ \in SUBSET Nat
    OBVIOUS
  <2> HIDE DEF Differ
  <2> QED
    BY <1>1, <2>1, LeastOf
<1>3. \A j \in 1..(i - 1) : j <= Len(a) /\ j <= Len(b) /\ a[j] = b[j]
  <2> SUFFICES ASSUME NEW j \in 1..(i - 1) PROVE j <= Len(a) /\ j <= Len(b) /\ a[j] = b[j]
    OBVIOUS
  <2>1. j \notin Differ /\ j \in Nat \ {0} /\ j < i /\ i \in Nat
    BY <1>2
  <2>2. i <= Len(a) \/ i <= Len(b)
    BY <1>2, <1>0
  <2> QED
    BY <2>1, <2>2, <1>0
<1>4. CASE i > Len(a) /\ i <= Len(b)
  BY <1>0, <1>2, <1>3, <1>4 DEF LexLess
<1>5. CASE i > Len(b) /\ i <= Len(a)
  <2>1. i \in 1..Len(a)
    BY <1>0, <1>2, <1>5
  <2>2. \A j \in 1..(i - 1) : j <= Len(b) /\ b[j] = a[j]
    BY <1>3
  <2> QED
    BY <2>1, <2>2, <1>5 DEF LexLess
<1>6. CASE i <= Len(a) /\ i <= Len(b) /\ a[i] # b[i]
  <2>1. i \in 1..Len(a) /\ i \in 1..Len(b)
    BY <1>0, <1>2, <1>6
  <2>2. a[i] \in Int /\ b[i] \in Int
    BY <2>1 DEF Text
  <2>3. a[i] < b[i] \/ b[i] < a[i]
    BY <2>2, <1>6
  <2>4. \A j \in 1..(i - 1) : j <= Len(b) /\ b[j] = a[j]
    BY <1>3
  <2> QED
    BY <2>1, <2>3, <2>4, <1>3 DEF LexLess
<1> QED
  BY <1>2, <1>4, <1>5, <1>6

-----------------------------------------------------------------------------
(* ORDER BY.                                                               *)

\* What a type holds.
Typed(type) ==
    CASE type \in {"INT", "FLOAT"} -> Int [] type = "TEXT" -> Text [] type = "BOOL" -> BOOLEAN

\* Of a set of cells: one type, no NULL.
OneType(V) ==
    \E type \in ColumnType :
        \A v \in V : v.type = type /\ v.is_null = FALSE /\ v.val \in Typed(type)

\* Within one type, Less is irreflexive and transitive, and so is being neither less nor greater.
LEMMA LessOrders ==
    ASSUME NEW type \in ColumnType, NEW x \in Typed(type), NEW y \in Typed(type), NEW z \in Typed(type)
    PROVE  /\ ~Less(type, x, x)
           /\ Less(type, x, y) /\ Less(type, y, z) => Less(type, x, z)
           /\ ~Less(type, x, y) /\ ~Less(type, y, x) /\ ~Less(type, y, z) /\ ~Less(type, z, y)
                 => ~Less(type, x, z)
<1>1. CASE type \in {"INT", "FLOAT"}
  <2>1. x \in Int /\ y \in Int /\ z \in Int
    BY <1>1 DEF Typed
  <2>2. \A u, v : Less(type, u, v) <=> u < v
    BY <1>1 DEF Less
  <2> QED
    BY <2>1, <2>2
<1>2. CASE type = "TEXT"
  <2>1. x \in Text /\ y \in Text /\ z \in Text
    BY <1>2 DEF Typed
  <2>2. \A u, v : Less(type, u, v) <=> LexLess(u, v)
    BY <1>2 DEF Less
  <2>3. ~LexLess(x, y) /\ ~LexLess(y, x) => x = y
    BY <2>1, LexTotal
  <2> QED
    BY <2>1, <2>2, <2>3, LexIrreflexive, LexTransitive
<1>3. CASE type = "BOOL"
  BY <1>3 DEF Less
<1> QED
  BY <1>1, <1>2, <1>3 DEF ColumnType

\* The comparator that exec_select() gives to std::sort, ascending or descending, is a strict weak
\* order on every set of rows whose cells in the column are not NULL and of one type.
THEOREM ComparatorIsStrictWeak ==
    ASSUME NEW s, NEW i, NEW rows, OneType({r[i] : r \in Range(rows)})
    PROVE  StrictWeak(s, i, rows)
<1>1. PICK type \in ColumnType :
          \A r \in Range(rows) : r[i].type = type /\ r[i].is_null = FALSE /\ r[i].val \in Typed(type)
  BY DEF OneType
<1>2. \A a, b \in Range(rows) :
          Before(s, i, a, b) <=> IF s.order_desc THEN Less(type, b[i].val, a[i].val)
                                 ELSE Less(type, a[i].val, b[i].val)
  BY <1>1 DEF Before, CompareLt, CompareGt, Known, Field
<1>3. ASSUME NEW a \in Range(rows), NEW b \in Range(rows), NEW c \in Range(rows)
      PROVE  /\ ~Before(s, i, a, a)
             /\ Before(s, i, a, b) /\ Before(s, i, b, c) => Before(s, i, a, c)
             /\ ~Before(s, i, a, b) /\ ~Before(s, i, b, a) /\ ~Before(s, i, b, c) /\ ~Before(s, i, c, b)
                   => ~Before(s, i, a, c) /\ ~Before(s, i, c, a)
  <2> DEFINE x == a[i].val
             y == b[i].val
             z == c[i].val
  <2>1. x \in Typed(type) /\ y \in Typed(type) /\ z \in Typed(type)
    BY <1>1
  <2>2. /\ Before(s, i, a, a) <=> Less(type, x, x)
        /\ Before(s, i, a, b) <=> IF s.order_desc THEN Less(type, y, x) ELSE Less(type, x, y)
        /\ Before(s, i, b, a) <=> IF s.order_desc THEN Less(type, x, y) ELSE Less(type, y, x)
        /\ Before(s, i, b, c) <=> IF s.order_desc THEN Less(type, z, y) ELSE Less(type, y, z)
        /\ Before(s, i, c, b) <=> IF s.order_desc THEN Less(type, y, z) ELSE Less(type, z, y)
        /\ Before(s, i, a, c) <=> IF s.order_desc THEN Less(type, z, x) ELSE Less(type, x, z)
        /\ Before(s, i, c, a) <=> IF s.order_desc THEN Less(type, x, z) ELSE Less(type, z, x)
    BY <1>2
  <2> HIDE DEF x, y, z
  <2>3. /\ ~Less(type, x, x)
        /\ Less(type, x, y) /\ Less(type, y, z) => Less(type, x, z)
        /\ Less(type, z, y) /\ Less(type, y, x) => Less(type, z, x)
        /\ ~Less(type, x, y) /\ ~Less(type, y, x) /\ ~Less(type, y, z) /\ ~Less(type, z, y)
              => ~Less(type, x, z) /\ ~Less(type, z, x)
    BY <2>1, LessOrders
  <2> QED
    BY <2>2, <2>3
<1> QED
  BY <1>3, Zenon DEF StrictWeak

-----------------------------------------------------------------------------
(* Induction along the positions of a sequence.                            *)

\* Induction from 0 to n.
LEMMA Positions ==
    ASSUME NEW n \in Nat, NEW S, 0 \in S, \A i \in 1..n : i - 1 \in S => i \in S
    PROVE  0..n \subseteq S
<1> SUFFICES ASSUME 0..n \ S # {} PROVE FALSE
  OBVIOUS
<1>1. PICK k \in 0..n \ S : \A j \in 0..n \ S : k <= j
  <2> DEFINE D == 0..n \ S
  <2>1. D \in SUBSET Nat /\ D # {}
    OBVIOUS
  <2> HIDE DEF D
  <2>2. \E k \in D : \A j \in D : k <= j
    BY <2>1, LeastOf
  <2> QED
    BY <2>2 DEF D
<1>2. k # 0 /\ k \in 1..n /\ k - 1 \in 0..n /\ ~(k <= k - 1)
  BY <1>1
<1>3. k - 1 \in S
  BY <1>1, <1>2
<1> QED
  BY <1>1, <1>2, <1>3

\* The prefixes that FlattenSeq builds, from the empty one on.
Joins(f, seqs) ==
    /\ f \in [0..Len(seqs) -> Seq(Int)]
    /\ f[0] = <<>>
    /\ \A i \in 1..Len(seqs) : f[i] = f[i - 1] \o seqs[i]

\* A sequence of byte strings has its prefixes.
LEMMA JoinsExist ==
    ASSUME NEW seqs \in Seq(Seq(Int))
    PROVE  \E f : Joins(f, seqs)
<1> DEFINE n == Len(seqs)
           Up(m) == \E f \in [0..m -> Seq(Int)] :
                        f[0] = <<>> /\ \A i \in 1..m : f[i] = f[i - 1] \o seqs[i]
           S == {m \in 0..n : Up(m)}
<1>1. n \in Nat
  OBVIOUS
<1>2. 0 \in S
  <2>1. <<>> \in Seq(Int)
    OBVIOUS
  <2> DEFINE f == [i \in 0..0 |-> <<>>]
  <2>2. f \in [0..0 -> Seq(Int)] /\ f[0] = <<>> /\ \A i \in 1..0 : f[i] = f[i - 1] \o seqs[i]
    BY <2>1
  <2> HIDE DEF f
  <2>3. Up(0)
    BY <2>2
  <2>4. 0 \in 0..n
    BY <1>1
  <2> HIDE DEF Up, n
  <2> QED
    BY <2>3, <2>4
<1>3. ASSUME NEW m \in 1..n, m - 1 \in S PROVE m \in S
  <2>1. PICK f \in [0..(m - 1) -> Seq(Int)] :
            f[0] = <<>> /\ \A i \in 1..(m - 1) : f[i] = f[i - 1] \o seqs[i]
    BY <1>3
  <2>2. seqs[m] \in Seq(Int) /\ f[m - 1] \in Seq(Int)
    BY <1>1, <2>1
  <2>3. f[m - 1] \o seqs[m] \in Seq(Int)
    BY <2>2
  <2> DEFINE g == [i \in 0..m |-> IF i = m THEN f[m - 1] \o seqs[m] ELSE f[i]]
  <2>4. g \in [0..m -> Seq(Int)]
    BY <2>1, <2>3, <1>1
  <2>5. g[0] = <<>>
    BY <2>1, <1>1
  <2>6. \A i \in 1..m : g[i] = g[i - 1] \o seqs[i]
    <3> SUFFICES ASSUME NEW i \in 1..m PROVE g[i] = g[i - 1] \o seqs[i]
      OBVIOUS
    <3>1. i - 1 \in 0..m /\ i - 1 # m /\ i \in 0..m
      BY <1>1
    <3>2. g[i - 1] = f[i - 1]
      BY <3>1
    <3>3. CASE i = m
      BY <3>1, <3>2, <3>3
    <3>4. CASE i # m
      <4>1. i \in 1..(m - 1)
        BY <1>1, <3>4
      <4> QED
        BY <2>1, <3>1, <3>2, <3>4, <4>1
    <3> QED
      BY <3>3, <3>4
  <2> HIDE DEF g
  <2>7. Up(m)
    BY <2>4, <2>5, <2>6
  <2>8. m \in 0..n
    BY <1>1
  <2> HIDE DEF Up, n
  <2> QED
    BY <2>7, <2>8
<1>4. n \in S
  <2> HIDE DEF S, n
  <2>1. 0..n \subseteq S
    BY <1>1, <1>2, <1>3, Positions
  <2> QED
    BY <1>1, <2>1
<1> QED
  BY <1>4 DEF Joins

\* FlattenSeq() is the last of the prefixes.
LEMMA FlattenJoins ==
    ASSUME NEW seqs \in Seq(Seq(Int)), NEW f, Joins(f, seqs)
    PROVE  FlattenSeq(seqs) = f[Len(seqs)]
<1>0. Len(seqs) \in Nat
  OBVIOUS
<1>1. CASE Len(seqs) = 0
  BY <1>1 DEF FlattenSeq, Joins
<1>2. CASE Len(seqs) # 0
  <2> DEFINE n == Len(seqs)
             Eq(h) == h = [i \in 1..n |-> IF i = 1 THEN seqs[i] ELSE h[i - 1] \o seqs[i]]
             flat == CHOOSE h : Eq(h)
             g == [i \in 1..n |-> f[i]]
  <2>1. FlattenSeq(seqs) = flat[n]
    BY <1>2 DEF FlattenSeq
  <2>2. \A i \in 1..n : g[i] = IF i = 1 THEN seqs[i] ELSE g[i - 1] \o seqs[i]
    <3> SUFFICES ASSUME NEW i \in 1..n PROVE g[i] = IF i = 1 THEN seqs[i] ELSE g[i - 1] \o seqs[i]
      OBVIOUS
    <3>1. f[i] = f[i - 1] \o seqs[i] /\ f[0] = <<>>
      BY DEF Joins
    <3>0. seqs[i] \in Seq(Int)
      BY <1>0
    <3>2. CASE i = 1
      <4>1. <<>> \o seqs[i] = seqs[i]
        BY <3>0
      <4>3. f[i - 1] = <<>>
        <5>1. i - 1 = 0
          BY <3>2
        <5> QED
          BY <3>1, <5>1
      <4>2. f[i] = seqs[i]
        BY <3>1, <4>1, <4>3
      <4> QED
        BY <3>2, <4>2
    <3>3. CASE i # 1
      <4>1. i - 1 \in 1..n
        BY <1>0, <3>3
      <4> QED
        BY <3>1, <3>3, <4>1
    <3> QED
      BY <3>2, <3>3
  <2>3. Eq(g)
    BY <2>2
  <2>4. Eq(flat)
    <3> HIDE DEF Eq, g
    <3> QED
      BY <2>3
  <2>5. ASSUME NEW h, Eq(h) PROVE h[n] = g[n]
    <3> DEFINE S == {0} \cup {i \in 1..n : h[i] = g[i]}
    <3>1. \A i \in 1..n : h[i] = IF i = 1 THEN seqs[i] ELSE h[i - 1] \o seqs[i]
      BY <2>5
    <3>2. ASSUME NEW i \in 1..n, i - 1 \in S PROVE i \in S
      <4>1. CASE i = 1
        BY <2>2, <3>1, <4>1
      <4>2. CASE i # 1
        <5>1. h[i - 1] = g[i - 1]
          BY <3>2, <4>2, <1>0
        <5>2. h[i] = g[i]
          <6>1. g[i] = g[i - 1] \o seqs[i] /\ h[i] = h[i - 1] \o seqs[i]
            BY <2>2, <3>1, <4>2
          <6> HIDE DEF g
          <6> QED
            BY <5>1, <6>1
        <5> QED
          BY <5>2
      <4> QED
        BY <4>1, <4>2
    <3>3. 0 \in S
      OBVIOUS
    <3>4. n \in S
      <4> HIDE DEF S, Eq, g, n
      <4>1. n \in Nat
        BY <1>0 DEF n
      <4>2. 0..n \subseteq S
        BY <3>2, <3>3, <4>1, Positions
      <4> QED
        BY <4>1, <4>2
    <3> QED
      BY <1>0, <1>2, <3>4
  <2>6. flat[n] = g[n]
    <3> HIDE DEF Eq, g, flat
    <3> QED
      BY <2>4, <2>5
  <2>7. g[n] = f[n]
    BY <1>0, <1>2
  <2> QED
    BY <2>1, <2>6, <2>7
<1> QED
  BY <1>1, <1>2

-----------------------------------------------------------------------------
(* The byte format of a value.                                             *)

\* A value is NULL or holds what its type says.
LEMMA ValueForms ==
    ASSUME NEW v
    PROVE  v \in Values <=> \/ \E type \in ColumnType : v = MakeNull(type)
                            \/ \E type \in ColumnType : \E x \in Typed(type) : v = Make(type, x)
<1>1. ASSUME NEW type \in ColumnType, NEW x \in Typed(type) PROVE Make(type, x) \in Values
  BY DEF Values, Make, Typed, ColumnType
<1>2. ASSUME v \in Values, ~ \E type \in ColumnType : v = MakeNull(type)
      PROVE  \E type \in ColumnType : \E x \in Typed(type) : v = Make(type, x)
  <2>1. v = Make(v.type, v.val) /\ v.type \in ColumnType /\ v.val \in Typed(v.type)
    BY <1>2 DEF Values, Make, Typed, ColumnType
  <2> QED
    BY <2>1
<1>3. \A type \in ColumnType : MakeNull(type) \in Values
  BY DEF Values
<1> QED
  BY <1>1, <1>2, <1>3

\* One sequence behind the other.
LEMMA Concat ==
    ASSUME NEW s \in Seq(Int), NEW t \in Seq(Int)
    PROVE  /\ s \o t \in Seq(Int) /\ Len(s \o t) = Len(s) + Len(t)
           /\ \A i \in 1..Len(s) : (s \o t)[i] = s[i]
           /\ \A j \in 1..Len(t) : (s \o t)[Len(s) + j] = t[j]
<1>1. s \o t \in Seq(Int) /\ Len(s \o t) = Len(s) + Len(t)
  OBVIOUS
<1>2. \A i \in 1..Len(s) : (s \o t)[i] = s[i]
  OBVIOUS
<1>3. ASSUME NEW j \in 1..Len(t) PROVE (s \o t)[Len(s) + j] = t[j]
  <2>1. Len(s) + j \in 1..(Len(s) + Len(t)) /\ ~(Len(s) + j <= Len(s)) /\ (Len(s) + j) - Len(s) = j
    OBVIOUS
  <2> QED
    BY <2>1
<1> QED
  BY <1>1, <1>2, <1>3

\* What w is behind and from where on, for a w that is put together from s and t.
Parts2(w, s, m, t, k) ==
    /\ w \in Seq(Int) /\ Len(w) = m + k
    /\ \A i \in 1..m : w[i] = s[i]
    /\ \A j \in 1..k : w[m + j] = t[j]

\* Concat for named parts and lengths.
LEMMA PutTogether ==
    ASSUME NEW s, s \in Seq(Int), NEW t, t \in Seq(Int), NEW w, w = s \o t,
           NEW m, m = Len(s), NEW k, k = Len(t)
    PROVE  Parts2(w, s, m, t, k)
BY Concat DEF Parts2

\* A sequence of one number.
LEMMA Single ==
    ASSUME NEW n \in Int
    PROVE  <<n>> \in Seq(Int) /\ Len(<<n>>) = 1 /\ <<n>>[1] = n /\ 1 \in 1..Len(<<n>>)
OBVIOUS

\* A length takes four cells, its value in the first.
LEMMA U32Bytes ==
    ASSUME NEW n \in Int
    PROVE  U32(n) \in Seq(Int) /\ Len(U32(n)) = 4 /\ U32(n)[1] = n
<1>1. [i \in 1..3 |-> 0] \in Seq(Int) /\ Len([i \in 1..3 |-> 0]) = 3
  OBVIOUS
<1>2. U32(n) = <<n>> \o [i \in 1..3 |-> 0]
  BY DEF U32, Cells
<1> QED
  BY <1>1, <1>2

\* A number takes eight cells, its value in the first.
LEMMA EightBytes ==
    ASSUME NEW n \in Int
    PROVE  Cells(8, n) \in Seq(Int) /\ Len(Cells(8, n)) = 8 /\ Cells(8, n)[1] = n
<1> DEFINE z == [i \in 1..7 |-> 0]
<1>1. z \in Seq(Int) /\ Len(z) = 7
  OBVIOUS
<1>2. Cells(8, n) = <<n>> \o z
  BY DEF Cells
<1> HIDE DEF z
<1>3. 7 = Len(z) /\ 1 = Len(<<n>>) /\ <<n>> \in Seq(Int) /\ z \in Seq(Int)
  BY <1>1, Single
<1>4. Parts2(Cells(8, n), <<n>>, 1, z, 7)
  BY <1>2, <1>3, PutTogether, Zenon
<1> QED
  BY <1>4, Single DEF Parts2

\* The byte of a type tells the type.
LEMMA TypeBytes ==
    ASSUME NEW type \in ColumnType
    PROVE  TypeByte(type) \in Int /\ TypeOf(TypeByte(type)) = type
<1>1. TypeByte(type) \in Int
  BY DEF TypeByte, ColumnType
<1>2. \A u \in ColumnType : TypeByte(u) = TypeByte(type) => u = type
  BY DEF TypeByte, ColumnType
<1> QED
  BY <1>1, <1>2 DEF TypeOf

\* The bytes of a value, seen from the outside.
Laid(w, byte, flag, n, p) ==
    /\ w \in Seq(Int) /\ Len(w) = 6 + Len(p) /\ p \in Seq(Int)
    /\ w[1] = byte /\ w[2] = flag /\ w[3] = n
    /\ \A j \in 1..Len(p) : w[6 + j] = p[j]

\* Type, flag, length and payload, in this order.
LEMMA Layout ==
    ASSUME NEW b, b \in Int, NEW f, f \in Int, NEW n, n \in Int, NEW p, p \in Seq(Int), NEW w,
           w = <<b>> \o <<f>> \o (U32(n) \o p) \/ (p = <<>> /\ w = <<b>> \o <<f>> \o U32(n))
    PROVE  Laid(w, b, f, n, p)
<1>0. Len(p) \in Nat
  OBVIOUS
<1> DEFINE u == U32(n)
           q == u \o p
           h == <<b>> \o <<f>>
<1>1. u \in Seq(Int) /\ Len(u) = 4 /\ u[1] = n
  BY U32Bytes
<1>2. w = h \o q
  <2>1. p = <<>> => q = u
    <3> HIDE DEF u
    <3> QED
      BY <1>1
  <2> QED
    BY <2>1
<1> HIDE DEF u
<1>3. q \in Seq(Int) /\ Len(q) = 4 + Len(p) /\ q[1] = n /\ \A j \in 1..Len(p) : q[4 + j] = p[j]
  <2>1. u \in Seq(Int) /\ 4 = Len(u) /\ Len(p) = Len(p) /\ q = u \o p
    BY <1>1
  <2> HIDE DEF q
  <2>2. Parts2(q, u, 4, p, Len(p))
    BY <2>1, PutTogether, Zenon
  <2> QED
    BY <1>0, <1>1, <2>2 DEF Parts2
<1> HIDE DEF q
<1>4. h \in Seq(Int) /\ Len(h) = 2 /\ h[1] = b /\ h[2] = f
  <2>1. Len(<<b>>) + 1 = 2
    BY Single
  <2> QED
    BY <2>1, Single, Concat
<1> HIDE DEF h
<1>5. /\ w \in Seq(Int) /\ Len(w) = 2 + Len(q)
      /\ \A i \in 1..2 : w[i] = h[i]
      /\ \A j \in 1..Len(q) : w[2 + j] = q[j]
  <2>1. 2 = Len(h) /\ Len(q) = Len(q) /\ h \in Seq(Int) /\ q \in Seq(Int)
    BY <1>3, <1>4
  <2>2. Parts2(w, h, 2, q, Len(q))
    BY <1>2, <2>1, PutTogether, Zenon
  <2> QED
    BY <2>2 DEF Parts2
<1>6. w[1] = b /\ w[2] = f
  BY <1>4, <1>5
<1>7. w[3] = n
  <2>1. 1 \in 1..Len(q) /\ 2 + 1 = 3
    BY <1>0, <1>3
  <2> QED
    BY <1>3, <1>5, <2>1
<1>8. \A j \in 1..Len(p) : w[6 + j] = p[j]
  <2> SUFFICES ASSUME NEW j \in 1..Len(p) PROVE w[6 + j] = p[j]
    OBVIOUS
  <2>1. 4 + j \in 1..Len(q) /\ 2 + (4 + j) = 6 + j
    BY <1>0, <1>3
  <2> QED
    BY <1>3, <1>5, <2>1
<1> QED
  BY <1>0, <1>3, <1>5, <1>6, <1>7, <1>8 DEF Laid

\* The bytes of a NULL have no payload.
LEMMA NullLaid ==
    ASSUME NEW type \in ColumnType
    PROVE  Laid(ValueBytes(MakeNull(type)), TypeByte(type), 1, 0, <<>>)
<1>1. ValueBytes(MakeNull(type)) = <<TypeByte(type)>> \o <<1>> \o U32(0)
  BY DEF ValueBytes, MakeNull, Flag
<1>2. <<>> \in Seq(Int) /\ 0 \in Int /\ 1 \in Int
  OBVIOUS
<1>3. TypeByte(type) \in Int
  BY TypeBytes
<1> QED
  BY <1>1, <1>2, <1>3, Layout, Zenon

\* The bytes of a value have the payload of its type.
LEMMA ValueLaid ==
    ASSUME NEW type \in ColumnType, NEW x \in Typed(type)
    PROVE  /\ type \in {"INT", "FLOAT"} => Laid(ValueBytes(Make(type, x)), TypeByte(type), 0, 8, Cells(8, x)) /\ x \in Int
           /\ type = "TEXT" => Laid(ValueBytes(Make(type, x)), TypeByte(type), 0, Len(x), x) /\ x \in Seq(Int)
           /\ type = "BOOL" => Laid(ValueBytes(Make(type, x)), TypeByte(type), 0, 1, Flag(x)) /\ x \in BOOLEAN
<1> DEFINE v == Make(type, x)
<1>1. v.type = type /\ v.val = x /\ v.is_null = FALSE
  BY DEF Make
<1> HIDE DEF v
<1>2. ValueBytes(v) = <<TypeByte(type)>> \o <<0>> \o Payload(v)
  BY <1>1 DEF ValueBytes, Flag
<1>3. TypeByte(type) \in Int /\ 0 \in Int /\ 1 \in Int /\ 8 \in Int
  BY TypeBytes
<1>4. CASE type \in {"INT", "FLOAT"}
  <2>1. x \in Int
    BY <1>4 DEF Typed
  <2>2. Payload(v) = U32(8) \o Cells(8, x)
    BY <1>1, <1>4 DEF Payload
  <2>3. Cells(8, x) \in Seq(Int)
    BY <2>1, EightBytes
  <2>4. ValueBytes(v) = <<TypeByte(type)>> \o <<0>> \o (U32(8) \o Cells(8, x))
    BY <1>2, <2>2
  <2>5. Laid(ValueBytes(v), TypeByte(type), 0, 8, Cells(8, x))
    BY <1>3, <2>3, <2>4, Layout, Zenon
  <2> QED
    BY <1>4, <2>1, <2>5 DEF v
<1>5. CASE type = "TEXT"
  <2>1. x \in Seq(Int) /\ Len(x) \in Int
    BY <1>5 DEF Typed, Text
  <2>2. Payload(v) = U32(Len(x)) \o x
    BY <1>1, <1>5 DEF Payload, Sized
  <2>3. ValueBytes(v) = <<TypeByte(type)>> \o <<0>> \o (U32(Len(x)) \o x)
    BY <1>2, <2>2
  <2>4. Laid(ValueBytes(v), TypeByte(type), 0, Len(x), x)
    BY <1>3, <2>1, <2>3, Layout, Zenon
  <2> QED
    BY <1>5, <2>1, <2>4 DEF v
<1>6. CASE type = "BOOL"
  <2>1. x \in BOOLEAN
    BY <1>6 DEF Typed
  <2>2. Payload(v) = U32(1) \o Flag(x)
    BY <1>1, <1>6 DEF Payload
  <2>3. Flag(x) \in Seq(Int)
    BY <2>1 DEF Flag
  <2>4. ValueBytes(v) = <<TypeByte(type)>> \o <<0>> \o (U32(1) \o Flag(x))
    BY <1>2, <2>2
  <2>5. Laid(ValueBytes(v), TypeByte(type), 0, 1, Flag(x))
    BY <1>3, <2>3, <2>4, Layout, Zenon
  <2> QED
    BY <1>6, <2>1, <2>5 DEF v
<1> QED
  BY <1>4, <1>5, <1>6 DEF ColumnType

\* bytes has w at pos.
Holds(bytes, pos, w) ==
    /\ (pos - 1) + Len(w) <= Len(bytes)
    /\ \A j \in 1..Len(w) : bytes[(pos - 1) + j] = w[j]

\* What a reader at pos finds.
Found(bytes, pos, byte, flag, n, p) ==
    /\ bytes[pos] = byte /\ bytes[pos + 1] = flag /\ bytes[pos + 2] = n
    /\ \A j \in 1..Len(p) : bytes[(pos + 5) + j] = p[j]
    /\ (pos + 5) + Len(p) <= Len(bytes)

\* The bytes of a value are found wherever they stand.
LEMMA ReadLaid ==
    ASSUME NEW bytes, bytes \in Seq(Int), NEW pos, pos \in Nat \ {0}, NEW w, NEW byte,
           NEW flag, NEW n, NEW p, Laid(w, byte, flag, n, p), Holds(bytes, pos, w)
    PROVE  Found(bytes, pos, byte, flag, n, p)
<1>1. p \in Seq(Int) /\ Len(p) \in Nat /\ Len(w) = 6 + Len(p)
  BY DEF Laid
<1>2. \A j \in 1..(6 + Len(p)) : bytes[(pos - 1) + j] = w[j]
  BY <1>1 DEF Holds
<1>3. bytes[(pos - 1) + 1] = w[1] /\ bytes[(pos - 1) + 2] = w[2] /\ bytes[(pos - 1) + 3] = w[3]
  BY <1>1, <1>2
<1>4. (pos - 1) + 1 = pos /\ (pos - 1) + 2 = pos + 1 /\ (pos - 1) + 3 = pos + 2
  OBVIOUS
<1>5. bytes[pos] = byte /\ bytes[pos + 1] = flag /\ bytes[pos + 2] = n
  BY <1>3, <1>4 DEF Laid
<1>6. ASSUME NEW j \in 1..Len(p) PROVE bytes[(pos + 5) + j] = p[j]
  <2>1. 6 + j \in 1..(6 + Len(p)) /\ (pos - 1) + (6 + j) = (pos + 5) + j
    BY <1>1
  <2>2. bytes[(pos - 1) + (6 + j)] = w[6 + j] /\ w[6 + j] = p[j]
    BY <1>2, <2>1 DEF Laid
  <2> QED
    BY <2>1, <2>2
<1>7. (pos + 5) + Len(p) <= Len(bytes)
  BY <1>1 DEF Holds
<1> QED
  BY <1>5, <1>6, <1>7 DEF Found

\* ReadValue() gives back what ValueBytes() wrote, wherever it stands.
LEMMA ReadBack ==
    ASSUME NEW v \in Values, NEW bytes \in Seq(Int), NEW pos \in Nat \ {0}, Holds(bytes, pos, ValueBytes(v))
    PROVE  ReadValue(bytes, pos) = [val |-> v, next |-> pos + Len(ValueBytes(v))]
<1> DEFINE w == ValueBytes(v)
<1>1. CASE \E type \in ColumnType : v = MakeNull(type)
  <2>1. PICK type \in ColumnType : v = MakeNull(type)
    BY <1>1
  <2>2. Laid(w, TypeByte(type), 1, 0, <<>>)
    BY <2>1, NullLaid
  <2>3. Found(bytes, pos, TypeByte(type), 1, 0, <<>>)
    BY <2>2, ReadLaid, Zenon
  <2>4. Len(w) = 6
    BY <2>2 DEF Laid
  <2> HIDE DEF w
  <2>5. TypeOf(bytes[pos]) = type
    BY <2>3, TypeBytes DEF Found
  <2> QED
    BY <2>1, <2>3, <2>4, <2>5 DEF ReadValue, Found, w
<1>2. CASE \E type \in ColumnType : \E x \in Typed(type) : v = Make(type, x)
  <2>1. PICK type \in ColumnType : \E x \in Typed(type) : v = Make(type, x)
    BY <1>2
  <2>2. PICK x \in Typed(type) : v = Make(type, x)
    BY <2>1
  <2>3. CASE type \in {"INT", "FLOAT"}
    <3>1. Laid(w, TypeByte(type), 0, 8, Cells(8, x)) /\ x \in Int
      BY <2>2, <2>3, ValueLaid
    <3>2. Found(bytes, pos, TypeByte(type), 0, 8, Cells(8, x))
      BY <3>1, ReadLaid, Zenon
    <3>3. Len(Cells(8, x)) = 8 /\ Cells(8, x)[1] = x
      BY <3>1, EightBytes
    <3> DEFINE c == Cells(8, x)
    <3> HIDE DEF c
    <3>4. bytes[(pos + 5) + 1] = x /\ (pos + 5) + 1 = pos + 6
      <4>1. Found(bytes, pos, TypeByte(type), 0, 8, c) /\ Len(c) = 8 /\ c[1] = x
        BY <3>2, <3>3 DEF c
      <4> QED
        BY <4>1 DEF Found
    <3>5. Len(w) = 14
      <4>1. Laid(w, TypeByte(type), 0, 8, c) /\ Len(c) = 8
        BY <3>1, <3>3 DEF c
      <4> HIDE DEF w
      <4> QED
        BY <4>1 DEF Laid
    <3>6. TypeOf(bytes[pos]) = type /\ bytes[pos + 1] = 0
      BY <3>2, TypeBytes DEF Found
    <3> HIDE DEF w
    <3>7. ReadValue(bytes, pos) = [val |-> Make(type, bytes[pos + 6]), next |-> (pos + 6) + 8]
      BY <2>3, <3>6 DEF ReadValue
    <3> QED
      BY <2>2, <3>4, <3>5, <3>7 DEF w
  <2>4. CASE type = "TEXT"
    <3>1. Laid(w, TypeByte(type), 0, Len(x), x) /\ x \in Seq(Int)
      BY <2>2, <2>4, ValueLaid
    <3>2. /\ bytes[pos] = TypeByte(type) /\ bytes[pos + 1] = 0 /\ bytes[pos + 2] = Len(x)
          /\ \A j \in 1..Len(x) : bytes[(pos + 5) + j] = x[j]
          /\ (pos + 5) + Len(x) <= Len(bytes)
      <4>1. Found(bytes, pos, TypeByte(type), 0, Len(x), x)
        BY <3>1, ReadLaid, Zenon
      <4> QED
        BY <4>1 DEF Found
    <3>3. Len(w) = 6 + Len(x) /\ Len(x) \in Nat
      BY <3>1 DEF Laid
    <3>4. TypeOf(bytes[pos]) = type
      BY <3>2, TypeBytes
    <3> HIDE DEF w
    <3> DEFINE t == SubSeq(bytes, pos + 6, pos + 6 + Len(x) - 1)
    <3>5. ReadValue(bytes, pos) = [val |-> Make(type, t), next |-> (pos + 6) + Len(x)]
      BY <2>4, <3>2, <3>4 DEF ReadValue
    <3>6. t = x
      BY <3>1, <3>2, <3>3
    <3> HIDE DEF t
    <3> QED
      BY <2>2, <3>3, <3>5, <3>6 DEF w
  <2>5. CASE type = "BOOL"
    <3>1. Laid(w, TypeByte(type), 0, 1, Flag(x)) /\ x \in BOOLEAN
      BY <2>2, <2>5, ValueLaid
    <3>2. /\ bytes[pos] = TypeByte(type) /\ bytes[pos + 1] = 0
          /\ \A j \in 1..Len(Flag(x)) : bytes[(pos + 5) + j] = Flag(x)[j]
      <4>1. Found(bytes, pos, TypeByte(type), 0, 1, Flag(x))
        BY <3>1, ReadLaid, Zenon
      <4> QED
        BY <4>1 DEF Found
    <3>3. Len(Flag(x)) = 1 /\ Flag(x)[1] = IF x THEN 1 ELSE 0
      BY DEF Flag
    <3>4. bytes[(pos + 5) + 1] = (IF x THEN 1 ELSE 0) /\ (pos + 5) + 1 = pos + 6
      BY <3>2, <3>3
    <3>5. Len(w) = 7
      BY <3>1, <3>3 DEF Laid
    <3>6. TypeOf(bytes[pos]) = type
      BY <3>2, TypeBytes
    <3> HIDE DEF w
    <3>7. ReadValue(bytes, pos) = [val |-> Make(type, bytes[pos + 6] # 0), next |-> (pos + 6) + 1]
      BY <2>5, <3>2, <3>6 DEF ReadValue
    <3>8. (bytes[pos + 6] # 0) = x
      BY <3>1, <3>4
    <3> QED
      BY <2>2, <3>5, <3>7, <3>8 DEF w
  <2> QED
    BY <2>3, <2>4, <2>5 DEF ColumnType
<1> QED
  BY <1>1, <1>2, ValueForms

-----------------------------------------------------------------------------
(* Reading one part behind the other.                                      *)

\* Concat without the elements.
LEMMA JoinLength ==
    ASSUME NEW s, s \in Seq(Int), NEW t, t \in Seq(Int)
    PROVE  s \o t \in Seq(Int) /\ Len(s \o t) = Len(s) + Len(t)
BY Concat

\* Where two parts stand one behind the other, each stands in its place.
LEMMA HoldsSplit ==
    ASSUME NEW bytes, bytes \in Seq(Int), NEW pos, pos \in Nat \ {0}, NEW s, s \in Seq(Int), NEW t, t \in Seq(Int),
           Holds(bytes, pos, s \o t)
    PROVE  Holds(bytes, pos, s) /\ Holds(bytes, pos + Len(s), t)
<1> DEFINE w == s \o t
<1>1. Len(w) = Len(s) + Len(t) /\ (\A i \in 1..Len(s) : w[i] = s[i]) /\ (\A j \in 1..Len(t) : w[Len(s) + j] = t[j])
  BY Concat
<1>2. Holds(bytes, pos, w)
  OBVIOUS
<1> HIDE DEF w
<1>3. Len(s) \in Nat /\ Len(t) \in Nat /\ Len(bytes) \in Nat
  OBVIOUS
<1>4. Holds(bytes, pos, s)
  <2>1. (pos - 1) + Len(s) <= Len(bytes)
    BY <1>1, <1>2, <1>3 DEF Holds
  <2>2. ASSUME NEW j \in 1..Len(s) PROVE bytes[(pos - 1) + j] = s[j]
    <3>1. j \in 1..Len(w)
      BY <1>1, <1>3
    <3>2. bytes[(pos - 1) + j] = w[j]
      BY <1>2, <3>1 DEF Holds
    <3> QED
      BY <1>1, <3>2
  <2> QED
    BY <2>1, <2>2 DEF Holds
<1>5. ((pos + Len(s)) - 1) + Len(t) <= Len(bytes)
  BY <1>1, <1>2, <1>3 DEF Holds
<1>6. ASSUME NEW j \in 1..Len(t) PROVE bytes[((pos + Len(s)) - 1) + j] = t[j]
  <2>1. Len(s) + j \in 1..Len(w) /\ (pos - 1) + (Len(s) + j) = ((pos + Len(s)) - 1) + j
    BY <1>1, <1>3
  <2>2. bytes[(pos - 1) + (Len(s) + j)] = w[Len(s) + j]
    BY <1>2, <2>1 DEF Holds
  <2> QED
    BY <1>1, <2>1, <2>2
<1> QED
  BY <1>4, <1>5, <1>6 DEF Holds

\* A sequence holds itself.
LEMMA HoldsWhole ==
    ASSUME NEW bytes, bytes \in Seq(Int)
    PROVE  Holds(bytes, 1, bytes)
<1>1. Len(bytes) \in Nat /\ \A j \in 1..Len(bytes) : (1 - 1) + j = j
  OBVIOUS
<1> QED
  BY <1>1 DEF Holds

\* Reading one byte.
LEMMA HoldsOne ==
    ASSUME NEW bytes, NEW pos, pos \in Nat, NEW x, Holds(bytes, pos, <<x>>)
    PROVE  bytes[pos] = x
<1>1. Len(<<x>>) = 1 /\ 1 \in 1..1 /\ (pos - 1) + 1 = pos /\ <<x>>[1] = x
  OBVIOUS
<1>2. bytes[(pos - 1) + 1] = <<x>>[1]
  BY <1>1 DEF Holds
<1> QED
  BY <1>1, <1>2

\* Reading a length.
LEMMA HoldsU32 ==
    ASSUME NEW bytes, NEW pos, pos \in Nat, NEW n, n \in Int, Holds(bytes, pos, U32(n))
    PROVE  bytes[pos] = n
<1>1. Len(U32(n)) = 4 /\ U32(n)[1] = n
  BY U32Bytes
<1>2. 1 \in 1..4 /\ (pos - 1) + 1 = pos
  OBVIOUS
<1> QED
  BY <1>1, <1>2 DEF Holds

\* Every part of a flattened sequence stands behind the parts before it.
LEMMA HoldsParts ==
    ASSUME NEW bytes, bytes \in Seq(Int), NEW pos, pos \in Nat \ {0}, NEW seqs, seqs \in Seq(Seq(Int)),
           NEW f, Joins(f, seqs), Holds(bytes, pos, FlattenSeq(seqs))
    PROVE  \A i \in 1..Len(seqs) : Holds(bytes, pos + Len(f[i - 1]), seqs[i])
<1> DEFINE n == Len(seqs)
           S == {k \in 0..n : Holds(bytes, pos, f[n - k])}
<1>1. n \in Nat
  OBVIOUS
<1>2. ASSUME NEW i \in 1..n
      PROVE  f[i - 1] \in Seq(Int) /\ seqs[i] \in Seq(Int) /\ f[i] = f[i - 1] \o seqs[i]
  <2>1. i - 1 \in 0..n
    BY <1>1
  <2>2. f \in [0..n -> Seq(Int)] /\ f[i] = f[i - 1] \o seqs[i]
    BY DEF Joins
  <2>3. seqs[i] \in Seq(Int)
    OBVIOUS
  <2> HIDE DEF n
  <2> QED
    BY <2>1, <2>2, <2>3
<1>3. 0 \in S
  <2>1. FlattenSeq(seqs) = f[n] /\ n - 0 = n /\ 0 \in 0..n
    BY <1>1, FlattenJoins
  <2> QED
    BY <2>1
<1>4. ASSUME NEW i \in 1..n, Holds(bytes, pos, f[i])
      PROVE  Holds(bytes, pos, f[i - 1]) /\ Holds(bytes, pos + Len(f[i - 1]), seqs[i])
  <2>1. Holds(bytes, pos, f[i - 1] \o seqs[i])
    BY <1>2, <1>4
  <2> QED
    BY <1>2, <2>1, HoldsSplit, Zenon
<1>5. ASSUME NEW k \in 1..n, k - 1 \in S PROVE k \in S
  <2>1. n - (k - 1) \in 1..n /\ (n - (k - 1)) - 1 = n - k /\ k \in 0..n
    BY <1>1
  <2>2. Holds(bytes, pos, f[n - (k - 1)])
    BY <1>5
  <2>3. Holds(bytes, pos, f[(n - (k - 1)) - 1])
    BY <1>4, <2>1, <2>2
  <2> HIDE DEF n
  <2>4. Holds(bytes, pos, f[n - k])
    BY <2>1, <2>3
  <2> QED
    BY <2>1, <2>4
<1>6. 0..n \subseteq S
  <2> HIDE DEF S, n
  <2> QED
    BY <1>1, <1>3, <1>5, Positions
<1>7. ASSUME NEW i \in 1..n PROVE Holds(bytes, pos, f[i])
  <2>1. n - i \in 0..n /\ n - (n - i) = i
    BY <1>1
  <2>2. Holds(bytes, pos, f[n - (n - i)])
    BY <1>6, <2>1
  <2> QED
    BY <2>1, <2>2
<1> QED
  BY <1>4, <1>7

-----------------------------------------------------------------------------
(* Rows.                                                                   *)

\* The bytes of a value are a byte string.
LEMMA ValueBytesAre ==
    ASSUME NEW v \in Values
    PROVE  ValueBytes(v) \in Seq(Int)
<1>1. CASE \E type \in ColumnType : v = MakeNull(type)
  BY <1>1, NullLaid DEF Laid
<1>2. CASE \E type \in ColumnType : \E x \in Typed(type) : v = Make(type, x)
  BY <1>2, ValueLaid DEF Laid, ColumnType
<1> QED
  BY <1>1, <1>2, ValueForms

\* Deserialize() gives back the row that Serialize() wrote, whatever its length and its values:
\* NULLs, empty texts and cells of different types included.
THEOREM RowsSurvive ==
    ASSUME NEW row \in Seq(Values)
    PROVE  Deserialize(Serialize(row)) = row
<1> DEFINE n == Len(row)
           seqs == [i \in DOMAIN row |-> ValueBytes(row[i])]
           bytes == Serialize(row)
<1>1. n \in Nat /\ DOMAIN row = 1..n /\ \A i \in 1..n : row[i] \in Values
  OBVIOUS
<1>2. seqs \in Seq(Seq(Int)) /\ Len(seqs) = n /\ \A i \in 1..n : seqs[i] = ValueBytes(row[i])
  BY <1>1, ValueBytesAre
<1>3. bytes = U32(n) \o FlattenSeq(seqs)
  BY DEF Serialize
<1> HIDE DEF n, seqs, bytes
<1>4. PICK f : Joins(f, seqs)
  BY <1>2, JoinsExist
<1>5. f \in [0..n -> Seq(Int)] /\ f[0] = <<>> /\ FlattenSeq(seqs) = f[n] /\ \A i \in 1..n : f[i] = f[i - 1] \o seqs[i]
  BY <1>2, <1>4, FlattenJoins DEF Joins
<1>6. U32(n) \in Seq(Int) /\ Len(U32(n)) = 4 /\ FlattenSeq(seqs) \in Seq(Int)
  BY <1>1, <1>5, U32Bytes
<1>7. bytes \in Seq(Int)
  BY <1>3, <1>6, Concat
<1>8. Holds(bytes, 1, U32(n)) /\ Holds(bytes, 5, FlattenSeq(seqs))
  <2>0. Holds(bytes, 1, bytes)
    BY <1>7, HoldsWhole
  <2>1. Holds(bytes, 1, U32(n) \o FlattenSeq(seqs)) /\ 1 \in Nat \ {0} /\ 1 + 4 = 5
    BY <1>3, <2>0
  <2>2. Holds(bytes, 1, U32(n)) /\ Holds(bytes, 1 + Len(U32(n)), FlattenSeq(seqs))
    BY <1>6, <1>7, <2>1, HoldsSplit, Zenon
  <2> QED
    BY <1>6, <2>1, <2>2
<1>9. bytes[1] = n
  <2>1. 1 \in Nat /\ n \in Int
    BY <1>1
  <2> QED
    BY <1>8, <2>1, HoldsU32, Zenon
<1>10. \A i \in 1..n : Holds(bytes, 5 + Len(f[i - 1]), seqs[i])
  <2>1. 5 \in Nat \ {0}
    OBVIOUS
  <2>2. \A i \in 1..Len(seqs) : Holds(bytes, 5 + Len(f[i - 1]), seqs[i])
    BY <1>2, <1>4, <1>7, <1>8, <2>1, HoldsParts, Zenon
  <2> QED
    BY <1>2, <2>2
<1>11. ASSUME NEW i \in 1..n
       PROVE  ReadValue(bytes, 5 + Len(f[i - 1])) = [val |-> row[i], next |-> 5 + Len(f[i])]
  <2>1. i - 1 \in 0..n /\ i \in 0..n
    BY <1>1
  <2>2. /\ f[i - 1] \in Seq(Int) /\ seqs[i] \in Seq(Int)
        /\ Len(f[i]) = Len(f[i - 1]) + Len(seqs[i])
    <3>1. f[i - 1] \in Seq(Int) /\ f[i] = f[i - 1] \o seqs[i]
      BY <1>5, <2>1
    <3>2. seqs[i] \in Seq(Int)
      BY <1>2
    <3> QED
      BY <3>1, <3>2, Concat
  <2>3. 5 + Len(f[i - 1]) \in Nat \ {0} /\ Len(seqs[i]) \in Nat /\ Len(f[i - 1]) \in Nat
    BY <2>2
  <2>4. ReadValue(bytes, 5 + Len(f[i - 1])) = [val |-> row[i], next |-> (5 + Len(f[i - 1])) + Len(seqs[i])]
    BY <1>1, <1>2, <1>7, <1>10, <2>3, ReadBack
  <2>5. (5 + Len(f[i - 1])) + Len(seqs[i]) = 5 + Len(f[i])
    <3>1. \A a, b \in Nat : (5 + a) + b = 5 + (a + b)
      OBVIOUS
    <3> QED
      BY <2>2, <2>3, <3>1
  <2> QED
    BY <2>4, <2>5
<1> DEFINE Step(p) == LET r == ReadValue(bytes, p.next) IN [vals |-> Append(p.vals, r.val), next |-> r.next]
           Eq(h) == h = [i \in 0..n |-> IF i = 0 THEN [vals |-> <<>>, next |-> 5] ELSE Step(h[i - 1])]
           g == [i \in 0..n |-> [vals |-> SubSeq(row, 1, i), next |-> 5 + Len(f[i])]]
           values == CHOOSE h : Eq(h)
<1>12. Deserialize(bytes) = values[n].vals
  BY <1>9 DEF Deserialize
<1>13. g[0] = [vals |-> <<>>, next |-> 5]
  BY <1>1, <1>5
<1>14. ASSUME NEW i \in 1..n PROVE g[i] = Step(g[i - 1])
  <2>1. i - 1 \in 0..n /\ i \in 0..n
    BY <1>1
  <2>2. g[i - 1].vals = SubSeq(row, 1, i - 1) /\ g[i - 1].next = 5 + Len(f[i - 1])
    BY <2>1
  <2>3. SubSeq(row, 1, i) = Append(SubSeq(row, 1, i - 1), row[i])
    BY <1>1 DEF n
  <2>4. g[i] = [vals |-> SubSeq(row, 1, i), next |-> 5 + Len(f[i])]
    BY <2>1
  <2> HIDE DEF g
  <2>5. ReadValue(bytes, g[i - 1].next) = [val |-> row[i], next |-> 5 + Len(f[i])]
    BY <1>11, <2>2
  <2>6. Step(g[i - 1]) = [vals |-> Append(g[i - 1].vals, row[i]), next |-> 5 + Len(f[i])]
    BY <2>5
  <2> QED
    BY <2>2, <2>3, <2>4, <2>6
<1> HIDE DEF Step
<1>15. Eq(g)
  <2>1. ASSUME NEW i \in 0..n PROVE g[i] = IF i = 0 THEN [vals |-> <<>>, next |-> 5] ELSE Step(g[i - 1])
    <3> HIDE DEF g
    <3>1. i # 0 => i \in 1..n
      BY <1>1
    <3> QED
      BY <1>13, <1>14, <3>1
  <2> QED
    BY <2>1
<1> HIDE DEF g
<1>16. Eq(values)
  <2> HIDE DEF Eq
  <2> QED
    BY <1>15
<1> HIDE DEF values
<1>17. values[n] = g[n]
  <2> DEFINE S == {i \in 0..n : values[i] = g[i]}
  <2>1. values[0] = g[0] /\ 0 \in 0..n
    BY <1>1, <1>13, <1>16
  <2>2. ASSUME NEW i \in 1..n, i - 1 \in S PROVE i \in S
    <3>1. i - 1 \in 0..n /\ i \in 0..n /\ i # 0 /\ values[i - 1] = g[i - 1]
      BY <1>1, <2>2
    <3>2. values[i] = Step(values[i - 1])
      BY <1>16, <3>1
    <3> QED
      BY <1>14, <3>1, <3>2
  <2>3. 0 \in S
    BY <2>1
  <2> HIDE DEF S
  <2>4. 0..n \subseteq S
    BY <1>1, <2>2, <2>3, Positions
  <2> QED
    BY <1>1, <2>4 DEF S
<1>18. g[n].vals = SubSeq(row, 1, n)
  BY <1>1 DEF g
<1>19. SubSeq(row, 1, n) = row
  BY DEF n
<1> QED
  BY <1>12, <1>17, <1>18, <1>19 DEF bytes

-----------------------------------------------------------------------------
(* Schemas.                                                                *)

\* A flag is one byte, not 0 if it is set.
LEMMA FlagByte ==
    ASSUME NEW b \in BOOLEAN
    PROVE  \E x \in Int : Flag(b) = <<x>> /\ (x # 0) = b
BY DEF Flag

\* A text behind its length.
LEMMA SizedBytes ==
    ASSUME NEW t, t \in Text
    PROVE  Sized(t) \in Seq(Int) /\ Len(Sized(t)) = 4 + Len(t)
<1>1. t \in Seq(Int) /\ Len(t) \in Int
  BY DEF Text
<1>2. U32(Len(t)) \in Seq(Int) /\ Len(U32(Len(t))) = 4
  BY <1>1, U32Bytes
<1> DEFINE u == U32(Len(t))
<1> HIDE DEF u
<1>3. u \in Seq(Int) /\ Len(u) = 4
  BY <1>2 DEF u
<1>4. u \o t \in Seq(Int) /\ Len(u \o t) = 4 + Len(t)
  <2>1. u \o t \in Seq(Int) /\ Len(u \o t) = Len(u) + Len(t)
    BY <1>1, <1>3, JoinLength, Zenon
  <2> QED
    BY <1>3, <2>1
<1> QED
  BY <1>4 DEF Sized, u

\* What SchemaDeserialize() takes for the text at pos.
TextAt(bytes, pos) == SubSeq(bytes, pos + 4, pos + 3 + bytes[pos])

\* Reading a text behind its length.
LEMMA HoldsSized ==
    ASSUME NEW bytes, bytes \in Seq(Int), NEW pos, pos \in Nat \ {0}, NEW t, t \in Text, Holds(bytes, pos, Sized(t))
    PROVE  bytes[pos] = Len(t) /\ TextAt(bytes, pos) = t
<1>1. t \in Seq(Int) /\ Len(t) \in Nat /\ Len(t) \in Int
  BY DEF Text
<1>2. U32(Len(t)) \in Seq(Int) /\ Len(U32(Len(t))) = 4
  BY <1>1, U32Bytes
<1>3. Holds(bytes, pos, U32(Len(t))) /\ Holds(bytes, pos + 4, t)
  <2>1. Holds(bytes, pos, U32(Len(t)) \o t)
    BY DEF Sized
  <2>2. Holds(bytes, pos, U32(Len(t))) /\ Holds(bytes, pos + Len(U32(Len(t))), t)
    BY <1>1, <1>2, <2>1, HoldsSplit, Zenon
  <2> QED
    BY <1>2, <2>2
<1>4. bytes[pos] = Len(t)
  <2>1. pos \in Nat
    OBVIOUS
  <2> QED
    BY <1>1, <1>3, <2>1, HoldsU32, Zenon
<1>5. ((pos + 4) - 1) + Len(t) <= Len(bytes) /\ \A j \in 1..Len(t) : bytes[((pos + 4) - 1) + j] = t[j]
  BY <1>3 DEF Holds
<1>6. TextAt(bytes, pos) = SubSeq(bytes, pos + 4, pos + 3 + Len(t))
  BY <1>4 DEF TextAt
<1>7. SubSeq(bytes, pos + 4, pos + 3 + Len(t)) = t
  BY <1>1, <1>5
<1> QED
  BY <1>4, <1>6, <1>7

\* What SchemaDeserialize() takes for the column at pos.
ColumnAt(bytes, pos) ==
    LET q == pos + 4 + bytes[pos]
    IN  [name |-> TextAt(bytes, pos), type |-> TypeOf(bytes[q]),
         not_null |-> bytes[q + 1] # 0, is_primary_key |-> bytes[q + 2] # 0]

\* The bytes of a column are a byte string, seven longer than the name.
LEMMA ColumnBytesAre ==
    ASSUME NEW col \in ColumnDef
    PROVE  ColumnBytes(col) \in Seq(Int) /\ Len(ColumnBytes(col)) = 7 + Len(col.name)
<1>1. col.name \in Text /\ col.type \in ColumnType /\ col.not_null \in BOOLEAN /\ col.is_primary_key \in BOOLEAN
  BY DEF ColumnDef
<1>2. PICK x \in Int : Flag(col.not_null) = <<x>>
  BY <1>1, FlagByte
<1>3. PICK y \in Int : Flag(col.is_primary_key) = <<y>>
  BY <1>1, FlagByte
<1> DEFINE s == Sized(col.name)  b == TypeByte(col.type)
<1>4. s \in Seq(Int) /\ Len(s) = 4 + Len(col.name) /\ b \in Int /\ Len(col.name) \in Nat
  <2>1. s \in Seq(Int) /\ Len(s) = 4 + Len(col.name)
    BY <1>1, SizedBytes, Zenon
  <2>2. b \in Int
    BY <1>1, TypeBytes, Zenon
  <2>3. Len(col.name) \in Nat
    BY <1>1 DEF Text
  <2> QED
    BY <2>1, <2>2, <2>3
<1>5. ColumnBytes(col) = s \o <<b>> \o <<x>> \o <<y>>
  BY <1>2, <1>3 DEF ColumnBytes
<1> HIDE DEF s, b
<1>6. s \o <<b>> \in Seq(Int) /\ Len(s \o <<b>>) = 5 + Len(col.name)
  BY <1>4, Concat
<1>7. s \o <<b>> \o <<x>> \in Seq(Int) /\ Len(s \o <<b>> \o <<x>>) = 6 + Len(col.name)
  <2> DEFINE u == s \o <<b>>
  <2> HIDE DEF u
  <2>1. u \in Seq(Int) /\ Len(u) = 5 + Len(col.name)
    BY <1>6 DEF u
  <2>2. u \o <<x>> \in Seq(Int) /\ Len(u \o <<x>>) = 6 + Len(col.name)
    BY <1>4, <2>1, Concat
  <2> QED
    BY <2>2 DEF u
<1>8. ColumnBytes(col) \in Seq(Int) /\ Len(ColumnBytes(col)) = 7 + Len(col.name)
  <2> DEFINE u == s \o <<b>> \o <<x>>
  <2> HIDE DEF u
  <2>1. u \in Seq(Int) /\ Len(u) = 6 + Len(col.name)
    BY <1>7 DEF u
  <2>2. u \o <<y>> \in Seq(Int) /\ Len(u \o <<y>>) = 7 + Len(col.name)
    BY <1>4, <2>1, Concat
  <2> QED
    BY <1>5, <2>2 DEF u
<1> QED
  BY <1>8

\* The column at a position is the one that ColumnBytes() wrote there.
LEMMA ColumnBack ==
    ASSUME NEW col \in ColumnDef, NEW bytes, bytes \in Seq(Int), NEW pos, pos \in Nat \ {0},
           Holds(bytes, pos, ColumnBytes(col))
    PROVE  bytes[pos] = Len(col.name) /\ ColumnAt(bytes, pos) = col
<1>1. col.name \in Text /\ col.type \in ColumnType /\ col.not_null \in BOOLEAN /\ col.is_primary_key \in BOOLEAN
  BY DEF ColumnDef
<1>2. PICK x \in Int : Flag(col.not_null) = <<x>> /\ (x # 0) = col.not_null
  BY <1>1, FlagByte
<1>3. PICK y \in Int : Flag(col.is_primary_key) = <<y>> /\ (y # 0) = col.is_primary_key
  BY <1>1, FlagByte
<1> DEFINE s == Sized(col.name)  b == TypeByte(col.type)  k == Len(col.name)
           u == s \o <<b>>  w == u \o <<x>>
<1>4. s \in Seq(Int) /\ Len(s) = 4 + k /\ b \in Int /\ TypeOf(b) = col.type /\ k \in Nat
  <2>1. s \in Seq(Int) /\ Len(s) = 4 + k
    BY <1>1, SizedBytes, Zenon
  <2>2. b \in Int /\ TypeOf(b) = col.type
    BY <1>1, TypeBytes, Zenon
  <2>3. k \in Nat
    BY <1>1 DEF Text
  <2> HIDE DEF s, b, k
  <2> QED
    BY <2>1, <2>2, <2>3
<1>5. ColumnBytes(col) = w \o <<y>>
  BY <1>2, <1>3 DEF ColumnBytes
<1>6. <<b>> \in Seq(Int) /\ <<x>> \in Seq(Int) /\ <<y>> \in Seq(Int) /\ Len(<<b>>) = 1 /\ Len(<<x>>) = 1
  BY <1>4
<1> HIDE DEF s, b, k
<1>7. u \in Seq(Int) /\ Len(u) = 5 + k
  BY <1>4, <1>6, Concat
<1>8. Holds(bytes, pos, w \o <<y>>)
  BY <1>5
<1> HIDE DEF u
<1>9. w \in Seq(Int) /\ Len(w) = 6 + k
  BY <1>4, <1>6, <1>7, Concat
<1> HIDE DEF w
<1>10. Holds(bytes, pos, w) /\ Holds(bytes, pos + Len(w), <<y>>)
  BY <1>6, <1>8, <1>9, HoldsSplit, Zenon
<1>11. Holds(bytes, pos, u) /\ Holds(bytes, pos + Len(u), <<x>>)
  <2>1. Holds(bytes, pos, u \o <<x>>)
    BY <1>10 DEF w
  <2> QED
    BY <1>6, <1>7, <2>1, HoldsSplit, Zenon
<1>12. Holds(bytes, pos, s) /\ Holds(bytes, pos + Len(s), <<b>>)
  <2>1. Holds(bytes, pos, s \o <<b>>)
    BY <1>11 DEF u
  <2> QED
    BY <1>4, <1>6, <2>1, HoldsSplit, Zenon
<1>13. bytes[pos] = k /\ TextAt(bytes, pos) = col.name
  BY <1>1, <1>12, HoldsSized DEF s, k
<1>14. bytes[pos + Len(s)] = b /\ bytes[pos + Len(u)] = x /\ bytes[pos + Len(w)] = y
  <2>1. pos + Len(s) \in Nat /\ pos + Len(u) \in Nat /\ pos + Len(w) \in Nat
    BY <1>4, <1>7, <1>9
  <2> QED
    BY <1>10, <1>11, <1>12, <2>1, HoldsOne, Zenon
<1> DEFINE q == pos + 4 + bytes[pos]
<1>15. q = pos + Len(s) /\ q + 1 = pos + Len(u) /\ q + 2 = pos + Len(w)
  BY <1>4, <1>7, <1>9, <1>13
<1> HIDE DEF q
<1>16. ColumnAt(bytes, pos) = [name |-> TextAt(bytes, pos), type |-> TypeOf(bytes[q]),
                               not_null |-> bytes[q + 1] # 0, is_primary_key |-> bytes[q + 2] # 0]
  BY DEF ColumnAt, q
<1>17. ColumnAt(bytes, pos) = [name |-> col.name, type |-> col.type,
                               not_null |-> x # 0, is_primary_key |-> y # 0]
  BY <1>4, <1>13, <1>14, <1>15, <1>16
<1>18. col = [name |-> col.name, type |-> col.type, not_null |-> col.not_null, is_primary_key |-> col.is_primary_key]
  BY DEF ColumnDef
<1> QED
  BY <1>2, <1>3, <1>13, <1>17, <1>18 DEF k

\* SchemaDeserialize() gives back the schema that SchemaSerialize() wrote, whatever its names,
\* its columns and their flags: empty names and a table without columns included.
THEOREM SchemasSurvive ==
    ASSUME NEW schema \in TableSchema
    PROVE  SchemaDeserialize(SchemaSerialize(schema)) = schema
<1> DEFINE cols == schema.columns
           n == Len(cols)
           seqs == [i \in DOMAIN cols |-> ColumnBytes(cols[i])]
           bytes == SchemaSerialize(schema)
           t == schema.table_name
           k == schema.primary_key
           pk == 5 + Len(t)
           at == 9 + Len(t) + Len(k)
           start == 13 + Len(t) + Len(k)
           a == Sized(t)  b == Sized(k)  c == U32(n)  d == FlattenSeq(seqs)
<1>1. cols \in Seq(ColumnDef) /\ t \in Text /\ k \in Text
  BY DEF TableSchema
<1>2. bytes = a \o b \o c \o d
  BY DEF SchemaSerialize
<1>3. schema = [table_name |-> t, primary_key |-> k, columns |-> cols]
  BY DEF TableSchema
<1> HIDE DEF cols, t, k
<1>4. n \in Nat /\ n \in Int /\ DOMAIN cols = 1..n /\ \A i \in 1..n : cols[i] \in ColumnDef
  BY <1>1
<1>5. seqs \in Seq(Seq(Int)) /\ Len(seqs) = n /\ \A i \in 1..n : seqs[i] = ColumnBytes(cols[i])
  BY <1>4, ColumnBytesAre
<1> HIDE DEF n, seqs, bytes
<1>6. PICK f : Joins(f, seqs)
  BY <1>5, JoinsExist
<1>7. f \in [0..n -> Seq(Int)] /\ f[0] = <<>> /\ d = f[n] /\ \A i \in 1..n : f[i] = f[i - 1] \o seqs[i]
  BY <1>5, <1>6, FlattenJoins DEF Joins
<1>8. /\ Len(t) \in Nat /\ Len(k) \in Nat
      /\ pk \in Nat \ {0} /\ at \in Nat \ {0} /\ start \in Nat \ {0} /\ 1 \in Nat \ {0}
  BY <1>1 DEF Text
<1>9. a \in Seq(Int) /\ Len(a) = 4 + Len(t)
  BY <1>1, SizedBytes, Zenon
<1>10. b \in Seq(Int) /\ Len(b) = 4 + Len(k)
  BY <1>1, SizedBytes, Zenon
<1>11. c \in Seq(Int) /\ Len(c) = 4
  BY <1>4, U32Bytes, Zenon
<1>12. d \in Seq(Int)
  BY <1>4, <1>7
<1> HIDE DEF a, b, c, d
<1> DEFINE ab == a \o b
<1>13. ab \in Seq(Int) /\ Len(ab) = 8 + Len(t) + Len(k)
  <2>1. ab \in Seq(Int) /\ Len(ab) = Len(a) + Len(b)
    BY <1>9, <1>10, JoinLength, Zenon
  <2> HIDE DEF ab
  <2>2. ab \in Seq(Int) /\ Len(ab) = (4 + Len(t)) + (4 + Len(k))
    BY <1>9, <1>10, <2>1
  <2>3. (4 + Len(t)) + (4 + Len(k)) = 8 + Len(t) + Len(k)
    BY <1>8
  <2> QED
    BY <2>2, <2>3
<1>14. bytes = ab \o c \o d
  BY <1>2
<1> HIDE DEF ab
<1> DEFINE abc == ab \o c
<1>15. abc \in Seq(Int) /\ Len(abc) = 12 + Len(t) + Len(k)
  <2>1. abc \in Seq(Int) /\ Len(abc) = Len(ab) + Len(c)
    BY <1>11, <1>13, JoinLength, Zenon
  <2> HIDE DEF abc
  <2>2. abc \in Seq(Int) /\ Len(abc) = (8 + Len(t) + Len(k)) + 4
    BY <1>11, <1>13, <2>1
  <2>3. (8 + Len(t) + Len(k)) + 4 = 12 + Len(t) + Len(k)
    BY <1>8
  <2> QED
    BY <2>2, <2>3
<1>16. bytes = abc \o d
  BY <1>14
<1> HIDE DEF abc
<1>17. bytes \in Seq(Int)
  BY <1>12, <1>15, <1>16, Concat
<1>18. Holds(bytes, 1, abc) /\ Holds(bytes, start, d)
  <2>1. Holds(bytes, 1, bytes)
    BY <1>17, HoldsWhole
  <2>2. Holds(bytes, 1, abc \o d)
    BY <1>16, <2>1
  <2>3. Holds(bytes, 1, abc) /\ Holds(bytes, 1 + Len(abc), d)
    BY <1>8, <1>12, <1>15, <1>17, <2>2, HoldsSplit, Zenon
  <2>4. 1 + Len(abc) = start
    BY <1>8, <1>15
  <2> QED
    BY <2>3, <2>4
<1>19. Holds(bytes, 1, ab) /\ Holds(bytes, at, c)
  <2>1. Holds(bytes, 1, ab \o c)
    BY <1>18 DEF abc
  <2>2. Holds(bytes, 1, ab) /\ Holds(bytes, 1 + Len(ab), c)
    BY <1>8, <1>11, <1>13, <1>17, <2>1, HoldsSplit, Zenon
  <2>3. 1 + Len(ab) = at
    BY <1>8, <1>13
  <2> QED
    BY <2>2, <2>3
<1>20. Holds(bytes, 1, a) /\ Holds(bytes, pk, b)
  <2>1. Holds(bytes, 1, a \o b)
    BY <1>19 DEF ab
  <2>2. Holds(bytes, 1, a) /\ Holds(bytes, 1 + Len(a), b)
    BY <1>8, <1>9, <1>10, <1>17, <2>1, HoldsSplit, Zenon
  <2>3. 1 + Len(a) = pk
    BY <1>8, <1>9
  <2> QED
    BY <2>2, <2>3
<1>21. bytes[1] = Len(t) /\ TextAt(bytes, 1) = t
  <2>1. Holds(bytes, 1, Sized(t))
    BY <1>20 DEF a
  <2> QED
    BY <1>1, <1>8, <1>17, <2>1, HoldsSized, Zenon
<1>22. bytes[pk] = Len(k) /\ TextAt(bytes, pk) = k
  <2>1. Holds(bytes, pk, Sized(k))
    BY <1>20 DEF b
  <2> HIDE DEF pk
  <2> QED
    BY <1>1, <1>8, <1>17, <2>1, HoldsSized, Zenon
<1>23. bytes[at] = n
  <2>1. Holds(bytes, at, U32(n)) /\ at \in Nat
    BY <1>8, <1>19 DEF c
  <2> HIDE DEF at
  <2> QED
    BY <1>4, <2>1, HoldsU32, Zenon
<1>24. pk = 1 + 4 + bytes[1] /\ at = pk + 4 + bytes[pk] /\ start = at + 4
  BY <1>8, <1>21, <1>22
<1>25. ASSUME NEW i \in 1..n
       PROVE  LET p == start + Len(f[i - 1])
              IN  ColumnAt(bytes, p) = cols[i] /\ (p + 4 + bytes[p]) + 3 = start + Len(f[i])
  <2> HIDE DEF pk, at, start
  <2> DEFINE p == start + Len(f[i - 1])
  <2>1. i - 1 \in 0..n /\ i \in 0..n
    BY <1>4
  <2>2. f[i - 1] \in Seq(Int) /\ f[i] = f[i - 1] \o seqs[i] /\ Len(f[i - 1]) \in Nat
    <3>1. f[i - 1] \in Seq(Int) /\ f[i] = f[i - 1] \o seqs[i]
      BY <1>7, <2>1
    <3> QED
      BY <3>1
  <2>3. seqs[i] \in Seq(Int) /\ seqs[i] = ColumnBytes(cols[i]) /\ cols[i] \in ColumnDef
    BY <1>4, <1>5
  <2>4. Len(f[i]) = Len(f[i - 1]) + Len(seqs[i])
    BY <2>2, <2>3, Concat
  <2>5. Len(seqs[i]) = 7 + Len(cols[i].name) /\ Len(cols[i].name) \in Nat
    BY <2>3, ColumnBytesAre DEF ColumnDef, Text
  <2>6. p \in Nat \ {0}
    BY <1>8, <2>2
  <2>7. Holds(bytes, p, seqs[i])
    <3>1. Holds(bytes, start, FlattenSeq(seqs))
      BY <1>18 DEF d
    <3>2. \A j \in 1..Len(seqs) : Holds(bytes, start + Len(f[j - 1]), seqs[j])
      BY <1>5, <1>6, <1>8, <1>17, <3>1, HoldsParts, Zenon
    <3> QED
      BY <1>5, <3>2
  <2> HIDE DEF p
  <2>8. bytes[p] = Len(cols[i].name) /\ ColumnAt(bytes, p) = cols[i]
    BY <1>17, <2>3, <2>6, <2>7, ColumnBack
  <2>9. (p + 4 + bytes[p]) + 3 = start + Len(f[i])
    <3>1. Len(f[i]) = Len(f[i - 1]) + (7 + Len(cols[i].name))
      BY <2>4, <2>5
    <3>2. \A x, y, z \in Nat : ((x + y) + 4 + z) + 3 = x + (y + (7 + z))
      OBVIOUS
    <3>3. ((start + Len(f[i - 1])) + 4 + Len(cols[i].name)) + 3 = start + (Len(f[i - 1]) + (7 + Len(cols[i].name)))
      <4>1. start \in Nat /\ Len(f[i - 1]) \in Nat /\ Len(cols[i].name) \in Nat
        BY <1>8, <2>2, <2>5
      <4> QED
        BY <3>2, <4>1, Zenon
    <3> QED
      BY <2>8, <3>1, <3>3 DEF p
  <2> QED
    BY <2>8, <2>9 DEF p
<1> DEFINE PK == 1 + 4 + bytes[1]
           AT == PK + 4 + bytes[PK]
           m == bytes[AT]
           Step(r) == [cols |-> Append(r.cols, ColumnAt(bytes, r.next)),
                       next |-> (r.next + 4 + bytes[r.next]) + 3]
           Eq(h) == h = [i \in 0..m |-> IF i = 0 THEN [cols |-> <<>>, next |-> AT + 4] ELSE Step(h[i - 1])]
           column == CHOOSE h : Eq(h)
<1>26. SchemaDeserialize(bytes) = [table_name |-> TextAt(bytes, 1), primary_key |-> TextAt(bytes, PK),
                                   columns |-> column[m].cols]
  BY DEF SchemaDeserialize, TextAt, ColumnAt
<1>34. PK = pk /\ AT + 4 = start /\ m = n
  BY <1>23, <1>24
<1> HIDE DEF PK, AT, m, pk, at, start
<1> DEFINE g == [i \in 0..n |-> [cols |-> SubSeq(cols, 1, i), next |-> start + Len(f[i])]]
<1>27. g[0] = [cols |-> <<>>, next |-> start]
  BY <1>1, <1>4, <1>7, <1>8
<1>28. ASSUME NEW i \in 1..n PROVE g[i] = Step(g[i - 1])
  <2>1. i - 1 \in 0..n /\ i \in 0..n
    BY <1>4
  <2>2. g[i - 1].cols = SubSeq(cols, 1, i - 1) /\ g[i - 1].next = start + Len(f[i - 1])
    BY <2>1
  <2>3. SubSeq(cols, 1, i) = Append(SubSeq(cols, 1, i - 1), cols[i])
    BY <1>1, <1>4 DEF n
  <2>4. g[i] = [cols |-> SubSeq(cols, 1, i), next |-> start + Len(f[i])]
    BY <2>1
  <2> HIDE DEF g
  <2>5. /\ ColumnAt(bytes, g[i - 1].next) = cols[i]
        /\ (g[i - 1].next + 4 + bytes[g[i - 1].next]) + 3 = start + Len(f[i])
    BY <1>25, <2>2
  <2>6. Step(g[i - 1]) = [cols |-> Append(g[i - 1].cols, cols[i]), next |-> start + Len(f[i])]
    BY <2>5
  <2> QED
    BY <2>2, <2>3, <2>4, <2>6
<1> HIDE DEF Step
<1>29. Eq(g)
  <2>1. ASSUME NEW i \in 0..n PROVE g[i] = IF i = 0 THEN [cols |-> <<>>, next |-> start] ELSE Step(g[i - 1])
    <3> HIDE DEF g
    <3>1. i # 0 => i \in 1..n
      BY <1>4
    <3> QED
      BY <1>27, <1>28, <3>1
  <2> QED
    BY <1>34, <2>1
<1> HIDE DEF g
<1>30. Eq(column)
  <2> HIDE DEF Eq
  <2> QED
    BY <1>29
<1> HIDE DEF column
<1>31. column[n] = g[n]
  <2> DEFINE S == {i \in 0..n : column[i] = g[i]}
  <2>1. column[0] = g[0] /\ 0 \in 0..n
    BY <1>4, <1>27, <1>30, <1>34
  <2>2. ASSUME NEW i \in 1..n, i - 1 \in S PROVE i \in S
    <3>1. i - 1 \in 0..n /\ i \in 0..n /\ i # 0 /\ column[i - 1] = g[i - 1]
      BY <1>4, <2>2
    <3>2. column[i] = Step(column[i - 1])
      BY <1>30, <1>34, <3>1
    <3> QED
      BY <1>28, <3>1, <3>2
  <2>3. 0 \in S
    BY <2>1
  <2> HIDE DEF S
  <2>4. 0..n \subseteq S
    BY <1>4, <2>2, <2>3, Positions
  <2> QED
    BY <1>4, <2>4 DEF S
<1>32. g[n].cols = SubSeq(cols, 1, n)
  BY <1>4 DEF g
<1>33. SubSeq(cols, 1, n) = cols
  BY <1>1 DEF n
<1> QED
  BY <1>3, <1>21, <1>22, <1>26, <1>31, <1>32, <1>33, <1>34 DEF bytes
-----------------------------------------------------------------------------
(* Keys are given.                                                         *)

\* A column that FindColumn() finds is one of the schema and has the name.
LEMMA FoundColumn ==
    ASSUME NEW schema, schema.columns \in Seq(ColumnDef), NEW name, FindColumn(schema, name) # 0
    PROVE  /\ FindColumn(schema, name) \in DOMAIN schema.columns
           /\ schema.columns[FindColumn(schema, name)].name = name
<1> DEFINE hits == {i \in DOMAIN schema.columns : schema.columns[i].name = name}
<1>1. hits # {}
  BY DEF FindColumn
<1>2. hits \in SUBSET Nat
  OBVIOUS
<1> HIDE DEF hits
<1>3. \E i \in hits : \A j \in hits : i <= j
  BY <1>1, <1>2, LeastOf
<1>4. (CHOOSE i \in hits : \A j \in hits : i <= j) \in hits
  BY <1>3
<1>5. FindColumn(schema, name) \in hits
  BY <1>1, <1>4 DEF FindColumn, hits
<1> QED
  BY <1>5 DEF hits

\* An INSERT into a table whose primary key is NOT NULL either is refused or does not reach
\* next_row_id(), whatever columns it names, in whatever order and how often.
THEOREM KeysNeverGenerated ==
    ASSUME NEW schema, schema.columns \in Seq(ColumnDef), KeyMarked(schema), NEW s
    PROVE  InsertRefused(schema, s) \/ ~KeyGenerated(schema, s)
<1> SUFFICES ASSUME KeyGenerated(schema, s) PROVE InsertRefused(schema, s)
  OBVIOUS
<1> DEFINE i == FindColumn(schema, schema.primary_key)
<1>1. i # 0 /\ ~KeyGiven(schema, s)
  BY DEF KeyGenerated
<1>2. i \in DOMAIN schema.columns /\ schema.columns[i].name = schema.primary_key
  BY <1>1, FoundColumn
<1>3. GivenAt(schema, s, i) = {}
  <2> SUFFICES ASSUME NEW j \in DOMAIN Columns(schema, s), FindColumn(schema, Columns(schema, s)[j]) = i
               PROVE  FALSE
    BY DEF GivenAt
  <2>1. schema.columns[i].name = Columns(schema, s)[j]
    BY <1>1, FoundColumn
  <2> QED
    BY <1>1, <1>2, <2>1 DEF KeyGiven
<1>4. BuildRow(schema, s)[i].is_null
  BY <1>2, <1>3 DEF BuildRow, MakeNull
<1>5. schema.columns[i].not_null
  BY <1>2 DEF KeyMarked
<1> HIDE DEF i
<1> QED
  BY <1>2, <1>4, <1>5 DEF InsertRefused

-----------------------------------------------------------------------------
(* In a state of the session.                                              *)

\* A cell that is not NULL holds what its type says.
LEMMA CellsOf ==
    ASSUME NEW v \in Values, ~v.is_null
    PROVE  v.is_null = FALSE /\ v.val \in Typed(v.type)
<1>1. CASE \E type \in ColumnType : v = MakeNull(type)
  BY <1>1 DEF MakeNull
<1>2. CASE \E type \in ColumnType : \E x \in Typed(type) : v = Make(type, x)
  BY <1>2 DEF Make
<1> QED
  BY <1>1, <1>2, ValueForms

\* In every state whose answer so far consists of typed rows of the table, SortDefined holds:
\* no NULL and one type in the column of ORDER BY make the sort defined.
LEMMA TypedRowsSort ==
    ASSUME Schema.columns \in Seq(ColumnDef),
           \A r \in Range(result) : r \in Seq(Values) /\ Len(r) = Len(Schema.columns)
    PROVE  SortDefined
<1> DEFINE k == OrderIndex(stmt)
           type == Schema.columns[k].type
<1> SUFFICES ASSUME k # 0, stmt.columns = <<>>, Homogeneous(k, Range(result))
             PROVE  StrictWeak(stmt, k, result)
  BY DEF SortDefined
<1>1. k \in DOMAIN Schema.columns
  <2> DEFINE hits == {i \in DOMAIN Columns(Schema, stmt) : Columns(Schema, stmt)[i] = stmt.order_by}
  <2>1. DOMAIN Columns(Schema, stmt) = DOMAIN Schema.columns
    BY DEF Columns
  <2>2. hits \in SUBSET Nat /\ hits \subseteq DOMAIN Schema.columns
    BY <2>1
  <2>3. hits # {} /\ k = Min(hits)
    BY DEF OrderIndex
  <2> HIDE DEF hits, k
  <2>4. \E i \in hits : \A j \in hits : i <= j
    BY <2>2, <2>3, LeastOf
  <2>5. Min(hits) \in hits
    BY <2>4 DEF Min
  <2> QED
    BY <2>2, <2>3, <2>5
<1>2. type \in ColumnType
  <2> HIDE DEF k
  <2>1. Schema.columns[k] \in ColumnDef
    BY <1>1
  <2> QED
    BY <2>1 DEF ColumnDef
<1>3. ASSUME NEW r \in Range(result)
      PROVE  r[k].type = type /\ r[k].is_null = FALSE /\ r[k].val \in Typed(type)
  <2>1. ~r[k].is_null /\ r[k].type = type
    BY DEF Homogeneous
  <2> HIDE DEF k, type
  <2>2. r[k] \in Values
    BY <1>1
  <2> QED
    BY <2>1, <2>2, CellsOf
<1> HIDE DEF k
<1>4. OneType({r[k] : r \in Range(result)})
  BY <1>2, <1>3 DEF OneType
<1> QED
  BY <1>4, ComparatorIsStrictWeak

\* In every state, a row of typed values and a schema of typed columns make CodecExact hold.
LEMMA TypedDataSurvives ==
    ASSUME phase = "insert" /\ Exists /\ ~InsertRefused(Schema, stmt) => BuildRow(Schema, stmt) \in Seq(Values),
           phase = "create" => NewSchema(stmt) \in TableSchema
    PROVE  CodecExact
BY RowsSurvive, SchemasSurvive DEF CodecExact

-----------------------------------------------------------------------------
(* Recursion along positions.                                              *)

\* Of the positions up to n that are in a set, one is the last.
LEMMA LastOf ==
    ASSUME NEW n, n \in Nat, NEW S, S \in SUBSET 0..n, S # {}
    PROVE  Max(S) \in S /\ \A j \in S : j <= Max(S)
<1> DEFINE D == {d \in 0..n : n - d \in S}
<1>1. D \in SUBSET Nat /\ D # {}
  <2>1. PICK i \in S : TRUE
    OBVIOUS
  <2>2. n - i \in 0..n /\ n - (n - i) = i
    OBVIOUS
  <2>3. n - i \in D
    BY <2>2
  <2>4. D \in SUBSET Nat
    OBVIOUS
  <2> HIDE DEF D
  <2> QED
    BY <2>3, <2>4
<1>2. PICK k \in D : \A j \in D : k <= j
  <2> HIDE DEF D
  <2> QED
    BY <1>1, LeastOf
<1>3. PICK m \in S : k = n - m
  <2>1. k = n - (n - k) /\ n - k \in S
    BY <1>2
  <2> QED
    BY <2>1
<1>4. \A j \in S : m >= j
  <2> SUFFICES ASSUME NEW j \in S PROVE m >= j
    OBVIOUS
  <2>1. k <= n - j
    <3>1. n - j \in 0..n /\ n - (n - j) = j
      OBVIOUS
    <3> QED
      BY <1>2, <3>1
  <2>2. j \in Int /\ m \in Int
    OBVIOUS
  <2> QED
    BY <1>3, <2>1, <2>2
<1>5. Max(S) \in S /\ \A j \in S : Max(S) >= j
  BY <1>4 DEF Max
<1>6. \A j \in S : j \in Int
  OBVIOUS
<1> QED
  BY <1>5, <1>6

\* Induction from b down to a.
LEMMA Downwards ==
    ASSUME NEW a, a \in Int, NEW b, b \in Int, NEW S, \A q \in a..b : (\A r \in (q + 1)..b : r \in S) => q \in S
    PROVE  a..b \subseteq S
<1> DEFINE T == {m \in Nat : \A q \in a..b : q > b - m => q \in S}
<1>1. 0 \in T
  OBVIOUS
<1>2. SUFFICES ASSUME a <= b PROVE a..b \subseteq S
  OBVIOUS
<1> DEFINE n == (b - a) + 1
<1>3. n \in Nat
  BY <1>2
<1>4. ASSUME NEW m \in 1..n, m - 1 \in T PROVE m \in T
  <2>0. m \in Nat /\ m - 1 \in Nat /\ m \in Int
    BY <1>3
  <2> SUFFICES ASSUME NEW q \in a..b, q > b - m PROVE q \in S
    BY <2>0
  <2>1. \A r \in (q + 1)..b : r \in a..b /\ r > b - (m - 1)
    BY <2>0
  <2>2. \A r \in (q + 1)..b : r \in S
    BY <1>4, <2>1
  <2> QED
    BY <2>2
<1>5. 0..n \subseteq T
  <2> HIDE DEF T, n
  <2> QED
    BY <1>1, <1>3, <1>4, Positions
<1>6. n \in T /\ \A q \in a..b : q > b - n
  BY <1>3, <1>5
<1> QED
  BY <1>6

\* f continues at nxt where that is ahead.
Continues(f, a, b, base, nxt, step) ==
    \A q \in a..b : f[q] = IF nxt[q] > q THEN step[q][f[nxt[q]]] ELSE base[q]

\* A recursion that looks ahead only has a solution.
LEMMA Ahead ==
    ASSUME NEW a, a \in Int, NEW b, b \in Int, NEW R, NEW base, base \in [a..b -> R],
           NEW nxt, nxt \in [a..b -> Int], NEW step,
           \A q \in a..b : nxt[q] > q => nxt[q] \in a..b /\ \A r \in R : step[q][r] \in R
    PROVE  \E f \in [a..b -> R] : Continues(f, a, b, base, nxt, step)
<1> DEFINE Eq(f, q) == f[q] = IF nxt[q] > q THEN step[q][f[nxt[q]]] ELSE base[q]
           T == {m \in Nat : \E f \in [a..b -> R] : \A q \in a..b : q > b - m => Eq(f, q)}
<1>0. CASE ~(a <= b)
  <2>1. a..b = {}
    BY <1>0
  <2> QED
    BY <2>1 DEF Continues
<1>1. 0 \in T
  <2>1. \A q \in a..b : ~(q > b - 0)
    OBVIOUS
  <2> QED
    BY <2>1
<1> DEFINE n == (b - a) + 1
<1>2. CASE a <= b
  <2>1. n \in Nat
    BY <1>2
  <2>2. ASSUME NEW m \in 1..n, m - 1 \in T PROVE m \in T
    <3>0. m \in Nat /\ m - 1 \in Nat
      BY <2>1
    <3> DEFINE p == (b - m) + 1
    <3>1. p \in a..b /\ \A q \in a..b : q > b - m <=> q = p \/ q > b - (m - 1)
      BY <3>0
    <3>2. PICK f \in [a..b -> R] : \A q \in a..b : q > b - (m - 1) => Eq(f, q)
      BY <2>2
    <3> DEFINE v == IF nxt[p] > p THEN step[p][f[nxt[p]]] ELSE base[p]
               g == [f EXCEPT ![p] = v]
    <3> HIDE DEF p, n
    <3>3. v \in R
      BY <3>1
    <3>4. g \in [a..b -> R] /\ g[p] = v /\ \A q \in a..b : q # p => g[q] = f[q]
      BY <3>1, <3>3
    <3> HIDE DEF g
    <3>5. \A q \in a..b : q > b - m /\ nxt[q] > q => nxt[q] \in a..b /\ nxt[q] # p /\ g[nxt[q]] = f[nxt[q]]
      <4> SUFFICES ASSUME NEW q \in a..b, q > b - m, nxt[q] > q
                   PROVE  nxt[q] \in a..b /\ nxt[q] # p /\ g[nxt[q]] = f[nxt[q]]
        OBVIOUS
      <4>1. nxt[q] \in a..b
        OBVIOUS
      <4>2. nxt[q] # p
        BY <3>0, <4>1 DEF p
      <4> QED
        BY <3>4, <4>1, <4>2
    <3>6. ASSUME NEW q \in a..b, q > b - m PROVE Eq(g, q)
      <4>1. CASE q = p
        BY <3>4, <3>5, <3>6, <4>1
      <4>2. CASE q # p
        BY <3>1, <3>2, <3>4, <3>5, <3>6, <4>2
      <4> QED
        BY <4>1, <4>2
    <3> QED
      BY <3>0, <3>4, <3>6
  <2>3. 0..n \subseteq T
    <3> HIDE DEF T, n
    <3> QED
      BY <1>1, <2>1, <2>2, Positions
  <2>4. n \in T /\ \A q \in a..b : q > b - n
    <3>1. \A q \in a..b : q > b - n
      BY <2>1
    <3> HIDE DEF T, n
    <3> QED
      BY <2>1, <2>3, <3>1
  <2>5. PICK f \in [a..b -> R] : \A q \in a..b : q > b - n => Eq(f, q)
    BY <2>4
  <2>6. \A q \in a..b : Eq(f, q)
    BY <2>4, <2>5
  <2> QED
    BY <2>6 DEF Continues
<1> QED
  BY <1>0, <1>2

\* f goes on from b by step.
Unfolds(f, n, b, step) == f[0] = b /\ \A i \in 1..n : f[i] = step[i][f[i - 1]]

\* A recursion along a sequence has a solution.
LEMMA Along ==
    ASSUME NEW n, n \in Nat, NEW R, NEW b, b \in R, NEW step, \A i \in 1..n : \A r \in R : step[i][r] \in R
    PROVE  \E f \in [0..n -> R] : Unfolds(f, n, b, step)
<1> DEFINE T == {m \in 0..n : \E f \in [0..n -> R] : f[0] = b /\ \A i \in 1..m : f[i] = step[i][f[i - 1]]}
<1>1. 0 \in T
  <2>1. [i \in 0..n |-> b] \in [0..n -> R] /\ [i \in 0..n |-> b][0] = b /\ 0 \in 0..n /\ 1..0 = {}
    OBVIOUS
  <2> QED
    BY <2>1
<1>2. ASSUME NEW m \in 1..n, m - 1 \in T PROVE m \in T
  <2>0. m \in Nat /\ m # 0 /\ m - 1 \in 0..n /\ m \in 0..n
    OBVIOUS
  <2>1. PICK f \in [0..n -> R] : f[0] = b /\ \A i \in 1..(m - 1) : f[i] = step[i][f[i - 1]]
    BY <1>2
  <2> DEFINE v == step[m][f[m - 1]]
             g == [f EXCEPT ![m] = v]
  <2>2. v \in R
    BY <2>0, <2>1
  <2> HIDE DEF v
  <2>3. g \in [0..n -> R] /\ g[m] = v /\ \A i \in 0..n : i # m => g[i] = f[i]
    BY <2>0, <2>2
  <2> HIDE DEF g
  <2>4. g[0] = b
    BY <2>0, <2>1, <2>3
  <2>5. ASSUME NEW i \in 1..m PROVE g[i] = step[i][g[i - 1]]
    <3>1. i - 1 \in 0..n /\ i - 1 # m /\ i \in 0..n /\ (i # m => i \in 1..(m - 1))
      BY <2>0
    <3>2. g[i - 1] = f[i - 1]
      BY <2>3, <3>1
    <3>3. CASE i = m
      BY <2>3, <3>2, <3>3 DEF v
    <3>4. CASE i # m
      BY <2>1, <2>3, <3>1, <3>2, <3>4
    <3> QED
      BY <3>3, <3>4
  <2> QED
    BY <2>0, <2>3, <2>4, <2>5
<1>3. 0..n \subseteq T
  <2> HIDE DEF T
  <2> QED
    BY <1>1, <1>2, Positions
<1>4. n \in T
  BY <1>3
<1> QED
  BY <1>4 DEF Unfolds

-----------------------------------------------------------------------------
(* Conversions give values of their type.                                  *)

\* g gives the digits of every number up to m.
DigitsUpTo(g, m) ==
    /\ g \in [0..m -> Text]
    /\ \A n \in 0..m : g[n] = IF n < 10 THEN <<48 + n>> ELSE Append(g[n \div 10], 48 + (n % 10))

\* A number of two digits or more without its last one.
LEMMA TenthOf ==
    ASSUME NEW n \in Nat, ~(n < 10)
    PROVE  n \div 10 \in 0..(n - 1) /\ n % 10 \in Int
OBVIOUS

\* The digits of the numbers up to m exist.
LEMMA DigitsUpToExist ==
    ASSUME NEW m, m \in Nat
    PROVE  \E g : DigitsUpTo(g, m)
<1> DEFINE a == -m
           base == [q \in a..0 |-> <<48 + (-q)>>]
           nxt == [q \in a..0 |-> IF -q < 10 THEN q ELSE -((-q) \div 10)]
           step == [q \in a..0 |-> [r \in Text |-> Append(r, 48 + ((-q) % 10))]]
<1>1. a \in Int /\ 0 \in Int /\ \A q \in a..0 : -q \in 0..m /\ -q \in Nat /\ q \in Int
  OBVIOUS
<1>2. base \in [a..0 -> Text]
  <2>1. ASSUME NEW q \in a..0 PROVE <<48 + (-q)>> \in Text
    <3>1. 48 + (-q) \in Int
      BY <1>1
    <3> QED
      BY <3>1 DEF Text
  <2> QED
    BY <2>1
<1>3. ASSUME NEW q \in a..0, ~(-q < 10) PROVE -((-q) \div 10) \in a..0 /\ -((-q) \div 10) > q
  <2>1. (-q) \div 10 \in 0..((-q) - 1)
    BY <1>1, <1>3, TenthOf
  <2> QED
    BY <1>1, <2>1
<1>4. nxt \in [a..0 -> Int]
  BY <1>1, <1>3
<1>5. ASSUME NEW q \in a..0, nxt[q] > q PROVE nxt[q] \in a..0 /\ \A r \in Text : step[q][r] \in Text
  <2>1. ~(-q < 10)
    BY <1>1, <1>5
  <2>2. nxt[q] \in a..0
    BY <1>3, <2>1
  <2>3. 48 + ((-q) % 10) \in Int
    BY <1>1, <2>1, TenthOf
  <2>4. ASSUME NEW r \in Text PROVE step[q][r] \in Text
    <3>1. step[q][r] = Append(r, 48 + ((-q) % 10))
      OBVIOUS
    <3> QED
      BY <2>3, <3>1 DEF Text
  <2> QED
    BY <2>2, <2>4
<1> HIDE DEF base, nxt, step, a
<1>6. PICK f \in [a..0 -> Text] : Continues(f, a, 0, base, nxt, step)
  BY <1>1, <1>2, <1>4, <1>5, Ahead
<1> DEFINE g == [n \in 0..m |-> f[-n]]
<1>7. \A n \in 0..m : -n \in a..0 /\ -(-n) = n /\ n \in Nat
  BY DEF a
<1>8. g \in [0..m -> Text]
  BY <1>7
<1>9. ASSUME NEW n \in 0..m PROVE g[n] = IF n < 10 THEN <<48 + n>> ELSE Append(g[n \div 10], 48 + (n % 10))
  <2>1. g[n] = IF nxt[-n] > -n THEN step[-n][f[nxt[-n]]] ELSE base[-n]
    BY <1>6, <1>7 DEF Continues
  <2>2. CASE n < 10
    <3>1. nxt[-n] = -n /\ base[-n] = <<48 + n>>
      BY <1>7, <2>2 DEF nxt, base
    <3>2. ~(-n > -n)
      OBVIOUS
    <3> QED
      BY <2>1, <2>2, <3>1, <3>2
  <2>3. CASE ~(n < 10)
    <3>1. n \div 10 \in 0..(n - 1)
      BY <1>7, <2>3, TenthOf
    <3>2. nxt[-n] = -(n \div 10) /\ -(n \div 10) > -n /\ n \div 10 \in 0..m
      BY <1>7, <2>3, <3>1 DEF nxt
    <3>3. f[nxt[-n]] = g[n \div 10] /\ f[nxt[-n]] \in Text
      BY <1>7, <1>6, <3>2
    <3>4. step[-n][f[nxt[-n]]] = Append(f[nxt[-n]], 48 + (n % 10))
      BY <1>7, <3>3 DEF step
    <3> HIDE DEF g
    <3> QED
      BY <2>1, <2>3, <3>2, <3>3, <3>4
  <2> QED
    BY <2>2, <2>3
<1> HIDE DEF g
<1>10. DigitsUpTo(g, m)
  BY <1>8, <1>9 DEF DigitsUpTo
<1> QED
  BY <1>10

\* Two such tables agree where both are defined.
LEMMA DigitsUpToAgree ==
    ASSUME NEW m \in Nat, NEW k \in Nat, k <= m, NEW g, NEW h, DigitsUpTo(g, m), DigitsUpTo(h, k)
    PROVE  g[k] = h[k]
<1> DEFINE D == {n \in 0..k : g[n] # h[n]}
<1>1. SUFFICES ASSUME D # {} PROVE FALSE
  OBVIOUS
<1>2. PICK n \in D : \A j \in D : n <= j
  <2>1. D \in SUBSET Nat
    OBVIOUS
  <2> HIDE DEF D
  <2> QED
    BY <1>1, <2>1, LeastOf
<1>3. n \in 0..k /\ n \in 0..m /\ n \in Nat
  BY <1>2
<1>4. /\ g[n] = IF n < 10 THEN <<48 + n>> ELSE Append(g[n \div 10], 48 + (n % 10))
      /\ h[n] = IF n < 10 THEN <<48 + n>> ELSE Append(h[n \div 10], 48 + (n % 10))
  BY <1>3, Zenon DEF DigitsUpTo
<1>5. CASE n < 10
  BY <1>2, <1>4, <1>5
<1>6. CASE ~(n < 10)
  <2>1. n \div 10 \in 0..(n - 1)
    BY <1>3, <1>6, TenthOf
  <2>2. n \div 10 \in 0..k /\ ~(n <= n \div 10)
    BY <1>3, <2>1
  <2>3. g[n \div 10] = h[n \div 10]
    BY <1>2, <2>2
  <2> QED
    BY <1>2, <1>4, <1>6, <2>3
<1> QED
  BY <1>5, <1>6

\* The equation that defines Digits has a solution.
LEMMA DigitsEquation ==
    Digits = [n \in Nat |-> IF n < 10 THEN <<48 + n>> ELSE Append(Digits[n \div 10], 48 + (n % 10))]
<1> DEFINE Eq(f) == f = [n \in Nat |-> IF n < 10 THEN <<48 + n>> ELSE Append(f[n \div 10], 48 + (n % 10))]
           G(m) == CHOOSE g : DigitsUpTo(g, m)
           F == [n \in Nat |-> G(n)[n]]
<1>1. \A m \in Nat : DigitsUpTo(G(m), m)
  BY DigitsUpToExist
<1> HIDE DEF G
<1>2. ASSUME NEW n \in Nat PROVE F[n] = IF n < 10 THEN <<48 + n>> ELSE Append(F[n \div 10], 48 + (n % 10))
  <2>1. n \in 0..n
    OBVIOUS
  <2>2. F[n] = IF n < 10 THEN <<48 + n>> ELSE Append(G(n)[n \div 10], 48 + (n % 10))
    BY <1>1, <2>1 DEF DigitsUpTo
  <2>3. CASE n < 10
    BY <2>2, <2>3
  <2>4. CASE ~(n < 10)
    <3> DEFINE k == n \div 10
    <3>1. k \in Nat /\ k <= n
      BY <2>4, TenthOf
    <3> HIDE DEF k
    <3>2. G(n)[k] = G(k)[k]
      BY <1>1, <3>1, DigitsUpToAgree
    <3>3. F[k] = G(k)[k]
      BY <3>1
    <3> QED
      BY <2>2, <2>4, <3>2, <3>3 DEF k
  <2> QED
    BY <2>3, <2>4
<1> HIDE DEF F
<1>3. F = [n \in Nat |-> F[n]]
  BY DEF F
<1>4. Eq(F)
  BY <1>2, <1>3, Zenon
<1>5. Eq(CHOOSE f : Eq(f))
  BY <1>4, Zenon
<1>6. Digits = CHOOSE f : Eq(f)
  BY DEF Digits
<1> QED
  BY <1>5, <1>6

\* to_string() of a number without a sign is a text.
LEMMA DigitsType == \A n \in Nat : Digits[n] \in Text
<1> DEFINE D == {n \in Nat : Digits[n] \notin Text}
<1>1. SUFFICES ASSUME D # {} PROVE FALSE
  OBVIOUS
<1>2. PICK n \in D : \A j \in D : n <= j
  <2>1. D \in SUBSET Nat
    OBVIOUS
  <2> HIDE DEF D
  <2> QED
    BY <1>1, <2>1, LeastOf
<1>3. n \in Nat /\ Digits[n] \notin Text
  BY <1>2
<1>4. Digits[n] = IF n < 10 THEN <<48 + n>> ELSE Append(Digits[n \div 10], 48 + (n % 10))
  BY <1>3, DigitsEquation
<1>5. CASE n < 10
  BY <1>3, <1>4, <1>5 DEF Text
<1>6. CASE ~(n < 10)
  <2>1. n \div 10 \in 0..(n - 1) /\ n % 10 \in Int
    BY <1>3, <1>6, TenthOf
  <2>2. n \div 10 \in Nat /\ ~(n <= n \div 10)
    BY <1>3, <2>1
  <2>3. Digits[n \div 10] \in Text
    BY <1>2, <2>2
  <2>4. 48 + (n % 10) \in Int
    BY <2>1
  <2> QED
    BY <1>3, <1>4, <1>6, <2>3, <2>4 DEF Text
<1> QED
  BY <1>5, <1>6

\* The digits at the front of a text.
LEMMA DigitPrefixType ==
    ASSUME NEW t, t \in Text
    PROVE  DigitPrefix(t) \in Text /\ Len(DigitPrefix(t)) \in 0..Len(t)
<1> DEFINE S == {j \in 0..Len(t) : \A k \in 1..j : IsDigit(t[k])}
<1>1. Len(t) \in Nat /\ S \in SUBSET 0..Len(t) /\ 0 \in S
  BY DEF Text
<1> HIDE DEF S
<1>2. Max(S) \in 0..Len(t)
  BY <1>1, LastOf
<1>3. DigitPrefix(t) = SubSeq(t, 1, Max(S))
  BY DEF DigitPrefix, S
<1> QED
  BY <1>1, <1>2, <1>3 DEF Text

\* The number that digits stand for.
LEMMA NumberType ==
    ASSUME NEW t, t \in Text
    PROVE  Number(t) \in Int
<1> DEFINE n == Len(t)
           step == [i \in 1..n |-> [r \in Int |-> 10 * r + (t[i] - 48)]]
           Eq(f) == f = [i \in 0..n |-> IF i = 0 THEN 0 ELSE 10 * f[i - 1] + (t[i] - 48)]
           h == CHOOSE f : Eq(f)
<1>1. n \in Nat /\ 0 \in Int /\ \A i \in 1..n : t[i] \in Int
  BY DEF Text
<1> HIDE DEF n
<1>2. \A i \in 1..n : \A r \in Int : step[i][r] = 10 * r + (t[i] - 48) /\ step[i][r] \in Int
  BY <1>1
<1> HIDE DEF step
<1>3. PICK f \in [0..n -> Int] : Unfolds(f, n, 0, step)
  BY <1>1, <1>2, Along
<1>4. \A i \in 0..n : f[i] = IF i = 0 THEN 0 ELSE 10 * f[i - 1] + (t[i] - 48)
  <2> SUFFICES ASSUME NEW i \in 0..n, i # 0 PROVE f[i] = 10 * f[i - 1] + (t[i] - 48)
    BY <1>3 DEF Unfolds
  <2>1. i \in 1..n /\ i - 1 \in 0..n
    BY <1>1
  <2>2. f[i - 1] \in Int
    BY <1>3, <2>1
  <2> QED
    BY <1>2, <1>3, <2>1, <2>2 DEF Unfolds
<1>5. f = [i \in 0..n |-> f[i]]
  BY <1>3
<1>6. Eq(f)
  BY <1>4, <1>5, Zenon
<1>7. Eq(h)
  BY <1>6, Zenon
<1> HIDE DEF h
<1> DEFINE S == {i \in 0..n : h[i] \in Int}
<1>8. 0 \in S
  BY <1>1, <1>7
<1>9. ASSUME NEW i \in 1..n, i - 1 \in S PROVE i \in S
  <2>1. i \in 0..n /\ i # 0 /\ h[i - 1] \in Int
    BY <1>1, <1>9
  <2>2. h[i] = 10 * h[i - 1] + (t[i] - 48)
    BY <1>7, <2>1
  <2> QED
    BY <1>1, <2>1, <2>2
<1>10. 0..n \subseteq S
  <2> HIDE DEF S
  <2> QED
    BY <1>1, <1>8, <1>9, Positions
<1>11. h[n] \in Int
  BY <1>1, <1>10
<1>12. Number(t) = h[n]
  BY DEF Number, h, n
<1> QED
  BY <1>11, <1>12

\* A text without its sign.
LEMMA UnsignedType ==
    ASSUME NEW t, t \in Text
    PROVE  Unsigned(t) \in Text
BY DEF Unsigned, Text

\* A number with its sign.
LEMMA SignedType ==
    ASSUME NEW t, NEW n \in Int
    PROVE  Signed(t, n) \in Int
BY DEF Signed

\* stoll() gives an integer.
LEMMA StollType ==
    ASSUME NEW t, t \in Text
    PROVE  Stoll(t) \in Int
<1>1. Number(DigitPrefix(Unsigned(t))) \in Int
  BY UnsignedType, DigitPrefixType, NumberType
<1> QED
  BY <1>1, SignedType DEF Stoll

\* stod() gives a number of thousandths.
LEMMA StodType ==
    ASSUME NEW t, t \in Text
    PROVE  Stod(t) \in Int
<1> DEFINE u == Unsigned(t)
           n == Len(DigitPrefix(u))
           f == IF n < Len(u) /\ u[n + 1] = Dot THEN DigitPrefix(SubSeq(u, n + 2, Len(u))) ELSE <<>>
           d == SubSeq(f \o <<48, 48, 48>>, 1, 3)
<1>1. u \in Text
  BY UnsignedType
<1> HIDE DEF u
<1>2. n \in 0..Len(u) /\ Number(DigitPrefix(u)) \in Int /\ Len(u) \in Nat
  BY <1>1, DigitPrefixType, NumberType DEF Text
<1> HIDE DEF n
<1>3. f \in Text
  <2>1. SubSeq(u, n + 2, Len(u)) \in Text
    BY <1>1, <1>2 DEF Text
  <2>2. DigitPrefix(SubSeq(u, n + 2, Len(u))) \in Text
    BY <2>1, DigitPrefixType
  <2>3. <<>> \in Text
    BY DEF Text
  <2> QED
    BY <2>2, <2>3
<1> HIDE DEF f
<1>4. d \in Text
  <2>1. <<48, 48, 48>> \in Text /\ Len(<<48, 48, 48>>) = 3
    BY DEF Text
  <2>2. f \o <<48, 48, 48>> \in Text /\ Len(f \o <<48, 48, 48>>) >= 3
    BY <1>3, <2>1 DEF Text
  <2> QED
    BY <2>2 DEF Text
<1> HIDE DEF d
<1>5. Number(d) \in Int
  BY <1>4, NumberType
<1>6. 1000 * Number(DigitPrefix(u)) + Number(d) \in Int
  BY <1>2, <1>5
<1>7. Stod(t) = Signed(t, 1000 * Number(DigitPrefix(u)) + Number(d))
  BY DEF Stod, d, f, n, u
<1> QED
  BY <1>6, <1>7, SignedType

\* The sign of a number.
LEMMA SignType == ASSUME NEW n PROVE Sign(n) \in Text
BY DEF Sign, Minus, Text

\* Two texts, one behind the other.
LEMMA TextConcat ==
    ASSUME NEW a, a \in Text, NEW b, b \in Text
    PROVE  a \o b \in Text
BY DEF Text

\* to_string() gives a text.
LEMMA ToTextType ==
    ASSUME NEW v \in Values
    PROVE  ToText(v) \in Text
<1>1. CASE \E type \in ColumnType : v = MakeNull(type)
  BY <1>1 DEF ToText, MakeNull, Text
<1>2. CASE \E type \in ColumnType : \E x \in Typed(type) : v = Make(type, x)
  <2>0. PICK type \in ColumnType : \E x \in Typed(type) : v = Make(type, x)
    BY <1>2
  <2>1. PICK x \in Typed(type) : v = Make(type, x)
    BY <2>0
  <2>2. v.is_null = FALSE /\ v.type = type /\ v.val = x
    BY <2>1 DEF Make
  <2>3. CASE type = "INT"
    <3>1. x \in Int
      BY <2>3 DEF Typed
    <3>2. Abs(x) \in Nat
      BY <3>1 DEF Abs
    <3>3. Sign(x) \o Digits[Abs(x)] \in Text
      BY <3>2, SignType, DigitsType, TextConcat
    <3> QED
      BY <2>2, <2>3, <3>3 DEF ToText
  <2>4. CASE type = "FLOAT"
    <3> DEFINE y == (Abs(x) + 5) \div 10
               e == <<Dot, 48 + ((y % 100) \div 10), 48 + (y % 10)>>
    <3>1. x \in Int
      BY <2>4 DEF Typed
    <3>2. y \in Nat
      BY <3>1 DEF Abs
    <3> HIDE DEF y
    <3>3. y \div 100 \in Nat /\ 48 + ((y % 100) \div 10) \in Int /\ 48 + (y % 10) \in Int
      BY <3>2
    <3>4. e \in Text
      BY <3>3 DEF Text, Dot
    <3> HIDE DEF e
    <3>5. Digits[y \div 100] \in Text
      BY <3>3, DigitsType
    <3>6. Sign(x) \o Digits[y \div 100] \o e \in Text
      BY <3>4, <3>5, SignType, TextConcat
    <3>7. FloatText(x) = Sign(x) \o Digits[y \div 100] \o e
      BY DEF FloatText, e, y
    <3> QED
      BY <2>2, <2>4, <3>6, <3>7 DEF ToText
  <2>5. CASE type = "TEXT"
    BY <2>1, <2>2, <2>5 DEF ToText, Typed
  <2>6. CASE type = "BOOL"
    BY <2>2, <2>6 DEF ToText, Text
  <2> QED
    BY <2>3, <2>4, <2>5, <2>6 DEF ColumnType
<1> QED
  BY <1>1, <1>2, ValueForms

\* coerce_value() gives a value, of the type it was asked for or of its own.
LEMMA CoerceType ==
    ASSUME NEW v \in Values, NEW type \in ColumnType
    PROVE  Coerce(v, type) \in Values
<1>1. MakeNull(type) \in Values
  BY ValueForms
<1>2. CASE v.is_null
  BY <1>1, <1>2 DEF Coerce
<1>3. CASE ~v.is_null
  <2>0. v.val \in Typed(v.type)
    BY <1>3, CellsOf
  <2>1. ASSUME NEW n \in Int PROVE Make("FLOAT", n) \in Values /\ Make("INT", n) \in Values
    BY ValueForms DEF Typed, ColumnType
  <2>2. \A u \in Text : Make("TEXT", u) \in Values
    BY ValueForms DEF Typed, ColumnType
  <2>3. v.type = "INT" => 1000 * v.val \in Int
    BY <2>0 DEF Typed
  <2>4. v.type = "FLOAT" => Truncated(v.val) \in Int
    BY <2>0 DEF Typed, Truncated
  <2>5. v.type = "TEXT" => Stoll(v.val) \in Int /\ Stod(v.val) \in Int
    BY <2>0, StollType, StodType DEF Typed
  <2>6. ToText(v) \in Text
    BY ToTextType
  <2> QED
    BY <1>3, <2>1, <2>2, <2>3, <2>4, <2>5, <2>6 DEF Coerce
<1> QED
  BY <1>2, <1>3

-----------------------------------------------------------------------------
(* Rows fit their table.                                                   *)

\* A row with a value for each column.
Fits(row, schema) == row \in Seq(Values) /\ Len(row) = Len(schema.columns)

\* A row that fits is a function from the columns to values.
LEMMA FitsForms ==
    ASSUME NEW row, NEW schema, schema \in TableSchema
    PROVE  /\ Len(schema.columns) \in Nat /\ DOMAIN schema.columns = 1..Len(schema.columns)
           /\ Fits(row, schema) <=> row \in [DOMAIN schema.columns -> Values]
<1>1. schema.columns \in Seq(ColumnDef)
  BY DEF TableSchema
<1> QED
  BY <1>1 DEF Fits

\* What a column consists of.
LEMMA ColumnTypes ==
    ASSUME NEW cols, cols \in Seq(ColumnDef), NEW i, i \in DOMAIN cols
    PROVE  cols[i] \in ColumnDef /\ cols[i].name \in Text /\ cols[i].type \in ColumnType
<1>1. cols[i] \in ColumnDef
  OBVIOUS
<1> QED
  BY <1>1 DEF ColumnDef

\* The row that an accepted INSERT builds.
LEMMA BuildRowFits ==
    ASSUME NEW schema, schema \in TableSchema, NEW s, s.columns \in Seq(Text), s.values \in Seq(Values),
           ~InsertRefused(schema, s)
    PROVE  Fits(BuildRow(schema, s), schema)
<1> DEFINE cols == Columns(schema, s)
<1>1. schema.columns \in Seq(ColumnDef)
  BY DEF TableSchema
<1>2. cols \in Seq(Text) /\ Len(cols) = Len(s.values)
  <2>1. cols \in Seq(Text)
    <3>1. \A i \in DOMAIN schema.columns : schema.columns[i].name \in Text
      BY <1>1, ColumnTypes
    <3> QED
      BY <1>1, <3>1 DEF Columns
  <2>2. Len(cols) = Len(s.values)
    BY DEF InsertRefused
  <2> QED
    BY <2>1, <2>2
<1> HIDE DEF cols
<1>3. ASSUME NEW i \in DOMAIN schema.columns PROVE BuildRow(schema, s)[i] \in Values
  <2> DEFINE type == schema.columns[i].type
             at == GivenAt(schema, s, i)
  <2>1. type \in ColumnType
    BY <1>1, ColumnTypes
  <2>2. at \in SUBSET 0..Len(cols) /\ at \subseteq 1..Len(cols) /\ Len(cols) \in Nat
    BY <1>2 DEF GivenAt, cols
  <2>3. BuildRow(schema, s)[i] = IF at = {} THEN MakeNull(type) ELSE Coerce(s.values[Max(at)], type)
    BY DEF BuildRow
  <2> HIDE DEF at, type
  <2>4. CASE at = {}
    BY <2>1, <2>3, <2>4, ValueForms
  <2>5. CASE at # {}
    <3>1. Max(at) \in 1..Len(cols)
      BY <2>2, <2>5, LastOf
    <3>2. s.values[Max(at)] \in Values
      BY <1>2, <3>1
    <3> QED
      BY <2>1, <2>3, <2>5, <3>2, CoerceType
  <2> QED
    BY <2>4, <2>5
<1>4. BuildRow(schema, s) \in [DOMAIN schema.columns -> Values]
  BY <1>3 DEF BuildRow
<1> QED
  BY <1>4, FitsForms

\* The row that UPDATE writes back.
LEMMA AssignedFits ==
    ASSUME Schema \in TableSchema, NEW row, Fits(row, Schema), NEW s, s.assignments \in Seq(Assignment),
           \A a \in Range(s.assignments) : FindColumn(Schema, a.column) # 0
    PROVE  Fits(Assigned(row, s), Schema)
<1> DEFINE as == s.assignments
           n == Len(as)
           R == [DOMAIN Schema.columns -> Values]
           at == [k \in 1..n |-> FindColumn(Schema, as[k].column)]
           val == [k \in 1..n |-> Coerce(as[k].value, Schema.columns[FindColumn(Schema, as[k].column)].type)]
           step == [k \in 1..n |-> [r \in R |-> [r EXCEPT ![at[k]] = val[k]]]]
           Eq(f) == f = [k \in 0..n |-> IF k = 0 THEN row
                            ELSE LET a == as[k]  i == FindColumn(Schema, a.column)
                                 IN  [f[k - 1] EXCEPT ![i] = Coerce(a.value, Schema.columns[i].type)]]
           h == CHOOSE f : Eq(f)
<1>1. n \in Nat /\ row \in R /\ Schema.columns \in Seq(ColumnDef)
  BY FitsForms DEF TableSchema
<1>2. ASSUME NEW k \in 1..n PROVE at[k] \in DOMAIN Schema.columns /\ val[k] \in Values
  <2>1. as[k] \in Assignment /\ as[k] \in Range(as)
    BY DEF Range
  <2> DEFINE i == FindColumn(Schema, as[k].column)
  <2>2. i # 0
    BY <2>1
  <2>3. i \in DOMAIN Schema.columns
    BY <1>1, <2>2, FoundColumn
  <2> HIDE DEF i
  <2>4. Schema.columns[i].type \in ColumnType
    BY <1>1, <2>3, ColumnTypes
  <2>5. as[k].value \in Values
    BY <2>1 DEF Assignment
  <2>6. Coerce(as[k].value, Schema.columns[i].type) \in Values
    BY <2>4, <2>5, CoerceType
  <2> QED
    BY <2>3, <2>6 DEF i
<1>3. \A k \in 0..n : \A f : 
          (IF k = 0 THEN row ELSE LET a == as[k]  i == FindColumn(Schema, a.column)
                                  IN  [f[k - 1] EXCEPT ![i] = Coerce(a.value, Schema.columns[i].type)])
          = IF k = 0 THEN row ELSE [f[k - 1] EXCEPT ![at[k]] = val[k]]
  <2> SUFFICES ASSUME NEW k \in 0..n, k # 0, NEW f
               PROVE  (LET a == as[k]  i == FindColumn(Schema, a.column)
                       IN  [f[k - 1] EXCEPT ![i] = Coerce(a.value, Schema.columns[i].type)])
                      = [f[k - 1] EXCEPT ![at[k]] = val[k]]
    OBVIOUS
  <2>1. k \in 1..n
    BY <1>1
  <2>2. at[k] = FindColumn(Schema, as[k].column) /\ val[k] = Coerce(as[k].value, Schema.columns[FindColumn(Schema, as[k].column)].type)
    BY <2>1
  <2> QED
    BY <2>2, Zenon
<1> HIDE DEF at, val
<1>4. \A k \in 1..n : \A r \in R : step[k][r] = [r EXCEPT ![at[k]] = val[k]] /\ step[k][r] \in R
  BY <1>2
<1> HIDE DEF step, R, n
<1>5. PICK f \in [0..n -> R] : Unfolds(f, n, row, step)
  BY <1>1, <1>4, Along
<1>6. ASSUME NEW k \in 0..n PROVE f[k] = IF k = 0 THEN row ELSE [f[k - 1] EXCEPT ![at[k]] = val[k]]
  <2>1. CASE k = 0
    BY <1>5, <2>1 DEF Unfolds
  <2>2. CASE k # 0
    <3>1. k \in 1..n /\ k - 1 \in 0..n
      BY <1>1, <2>2
    <3>2. f[k - 1] \in R
      BY <1>5, <3>1
    <3>3. f[k] = step[k][f[k - 1]]
      BY <1>5, <3>1 DEF Unfolds
    <3> QED
      BY <1>4, <2>2, <3>1, <3>2, <3>3
  <2> QED
    BY <2>1, <2>2
<1>7. f = [k \in 0..n |-> f[k]]
  BY <1>5
<1>8. Eq(f)
  <2>1. \A k \in 0..n : f[k] = IF k = 0 THEN row
                            ELSE LET a == as[k]  i == FindColumn(Schema, a.column)
                                 IN  [f[k - 1] EXCEPT ![i] = Coerce(a.value, Schema.columns[i].type)]
    BY <1>3, <1>6, Zenon
  <2> QED
    BY <1>7, <2>1, Zenon
<1>9. Eq(h)
  BY <1>8, Zenon
<1>10. \A k \in 0..n : h[k] = IF k = 0 THEN row ELSE [h[k - 1] EXCEPT ![at[k]] = val[k]]
  <2> HIDE DEF h
  <2>1. \A k \in 0..n : h[k] = IF k = 0 THEN row
                            ELSE LET a == as[k]  i == FindColumn(Schema, a.column)
                                 IN  [h[k - 1] EXCEPT ![i] = Coerce(a.value, Schema.columns[i].type)]
    BY <1>9, Zenon
  <2> QED
    BY <1>3, <2>1, Zenon
<1> HIDE DEF h
<1> DEFINE S == {k \in 0..n : h[k] \in R}
<1>11. 0 \in S
  <2>1. 0 \in 0..n
    BY <1>1
  <2>2. h[0] = row
    BY <1>10, <2>1, Zenon
  <2> QED
    BY <1>1, <2>1, <2>2
<1>12. ASSUME NEW k \in 1..n, k - 1 \in S PROVE k \in S
  <2>1. k \in 0..n /\ k # 0 /\ h[k - 1] \in R
    BY <1>1, <1>12
  <2>2. h[k] = [h[k - 1] EXCEPT ![at[k]] = val[k]]
    BY <1>10, <2>1
  <2>3. [h[k - 1] EXCEPT ![at[k]] = val[k]] \in R
    BY <1>2, <2>1 DEF R
  <2> QED
    BY <2>1, <2>2, <2>3
<1>13. 0..n \subseteq S
  <2> HIDE DEF S
  <2> QED
    BY <1>1, <1>11, <1>12, Positions
<1>14. h[n] \in R
  BY <1>1, <1>13
<1>15. Assigned(row, s) = h[n]
  BY DEF Assigned, h, n
<1> QED
  BY <1>14, <1>15, FitsForms DEF R

-----------------------------------------------------------------------------
(* What the parser reads.                                                  *)

\* What parse() is given: an end mark closes it.
Readable(ts) == ts \in Seq(Tokens) /\ ts # <<>> /\ ts[Len(ts)].type = "END_OF_INPUT"

\* Something of A, read up to a position from p to n, or an error.
Reads(x, n, p, A) == x = Failed \/ x \in [next : p..n, val : A]

\* What was read: an error, or a value and the position behind it.
LEMMA ReadsForms ==
    ASSUME NEW n, n \in Nat, NEW p, p \in Nat, p # 0, NEW A, NEW x, Reads(x, n, p, A)
    PROVE  /\ Fails(x) <=> x = Failed
           /\ x.next \in Nat
           /\ x # Failed => /\ x.next \in p..n /\ x.val \in A /\ x.next \in Nat /\ x.next # 0
                            /\ x = [next |-> x.next, val |-> x.val]
  BY DEF Reads, Failed, Fails

\* An earlier start and a larger set say less.
LEMMA ReadsMore ==
    ASSUME NEW n, n \in Nat, NEW p, p \in Nat, NEW q, q \in Nat, q <= p, NEW A, NEW B, A \subseteq B,
           NEW x, Reads(x, n, p, A)
    PROVE  Reads(x, n, q, B)
  BY DEF Reads

\* Before the end mark there is always another token.
LEMMA ReadableForms ==
    ASSUME NEW ts, Readable(ts)
    PROVE  /\ Len(ts) \in Nat /\ Len(ts) # 0 /\ DOMAIN ts = 1..Len(ts)
           /\ \A q \in 1..Len(ts) : ts[q] \in Tokens /\ (ts[q].type # "END_OF_INPUT" => q + 1 \in 1..Len(ts))
<1>1. Len(ts) \in Nat /\ Len(ts) # 0 /\ DOMAIN ts = 1..Len(ts)
  BY DEF Readable
<1>2. \A q \in 1..Len(ts) : ts[q] \in Tokens
  BY DEF Readable
<1>3. \A q \in 1..Len(ts) : ts[q].type # "END_OF_INPUT" => q + 1 \in 1..Len(ts)
  BY <1>1 DEF Readable
<1> QED
  BY <1>1, <1>2, <1>3

\* Names and strings are texts, numbers are integers.
LEMMA TokenValues ==
    ASSUME NEW t, t \in Tokens
    PROVE  /\ t.type \in {"IDENTIFIER", "STRING_LIT"} => t.value \in Text
           /\ t.type \in {"INTEGER_LIT", "FLOAT_LIT"} => t.value \in Int
<1>1. \A x \in PlainToken : x \notin {"IDENTIFIER", "STRING_LIT", "INTEGER_LIT", "FLOAT_LIT"}
  BY DEF PlainToken, CompOp
<1> QED
  BY <1>1 DEF Tokens

\* advance() moves on, except at the end mark.
LEMMA AdvanceType ==
    ASSUME NEW ts, Readable(ts), NEW p, p \in 1..Len(ts)
    PROVE  /\ Advance(ts, p) \in 1..Len(ts) /\ Advance(ts, p) \in p..Len(ts)
           /\ ts[p].type # "END_OF_INPUT" => Advance(ts, p) = p + 1 /\ p + 1 \in 1..Len(ts)
  BY ReadableForms DEF Advance

\* A comma may be skipped.
LEMMA SkipCommaType ==
    ASSUME NEW ts, Readable(ts), NEW p, p \in 1..Len(ts)
    PROVE  SkipComma(ts, p) \in p..Len(ts)
  BY AdvanceType, ReadableForms DEF SkipComma

\* The words that expect() is called for, one after the other.
Words(types, n) == n \in 1..3 /\ Len(types) = n /\ DOMAIN types = 1..n

\* One, two or three words are a sequence of words.
LEMMA WordsOf ==
    ASSUME NEW a, NEW b, NEW c
    PROVE  Words(<<a>>, 1) /\ Words(<<a, b>>, 2) /\ Words(<<a, b, c>>, 3)
<1>1. /\ <<a>> = [i \in 1..1 |-> a]
      /\ <<a, b>> = [i \in 1..2 |-> IF i = 1 THEN a ELSE b]
      /\ <<a, b, c>> = [i \in 1..3 |-> IF i = 1 THEN a ELSE IF i = 2 THEN b ELSE c]
  OBVIOUS
<1> QED
  BY <1>1 DEF Words

\* A word that does not end with the end mark leaves the end mark unread.
LEMMA ExpectType ==
    ASSUME NEW ts, Readable(ts), NEW p, p \in 0..Len(ts), NEW types, NEW n, Words(types, n),
           types[n] # "END_OF_INPUT"
    PROVE  /\ Expect(ts, p, types) \in 0..Len(ts)
           /\ Expect(ts, p, types) # 0 => /\ p # 0 /\ Expect(ts, p, types) = p + n
                                          /\ p + n \in (p + 1)..Len(ts) /\ ts[p].type = types[1]
<1>1. n \in 1..3 /\ Len(types) = n /\ DOMAIN types = 1..n /\ 1 \in DOMAIN types /\ n \in DOMAIN types
  BY DEF Words
<1>2. Len(ts) \in Nat
  BY ReadableForms
<1>3. CASE Expect(ts, p, types) = 0
  BY <1>2, <1>3
<1>4. CASE Expect(ts, p, types) # 0
  <2>1. p # 0 /\ Expect(ts, p, types) = p + n
    BY <1>1, <1>4 DEF Expect
  <2>2. \A i \in DOMAIN types : p + i - 1 <= Len(ts) /\ ts[p + i - 1].type = types[i]
    BY <1>4 DEF Expect, Is
  <2>3. p + n - 1 <= Len(ts) /\ ts[p + n - 1].type # "END_OF_INPUT"
    BY <1>1, <2>2
  <2>4. p + n - 1 # Len(ts)
    BY <2>3 DEF Readable
  <2>5. p + n <= Len(ts)
    BY <1>1, <1>2, <2>3, <2>4
  <2>6. p + 1 - 1 = p
    OBVIOUS
  <2>7. ts[p + 1 - 1].type = types[1]
    BY <1>1, <2>2
  <2>8. ts[p].type = types[1]
    BY <2>6, <2>7
  <2> QED
    BY <1>1, <1>2, <2>1, <2>5, <2>8
<1> QED
  BY <1>3, <1>4

\* A name is read as a text.
LEMMA NameType ==
    ASSUME NEW ts, Readable(ts), NEW p, p \in 0..Len(ts)
    PROVE  Reads(Name(ts, p), Len(ts), p + 1, Text)
<1> DEFINE w == <<"IDENTIFIER">>
<1>1. Words(w, 1) /\ w[1] = "IDENTIFIER" /\ w[1] # "END_OF_INPUT"
  BY WordsOf
<1>2. Name(ts, p) = IF Expect(ts, p, w) = 0 THEN Failed ELSE [next |-> p + 1, val |-> ts[p].value]
  BY DEF Name
<1> HIDE DEF w
<1>3. Expect(ts, p, w) # 0 => p # 0 /\ p + 1 \in (p + 1)..Len(ts) /\ ts[p].type = "IDENTIFIER"
  BY <1>1, ExpectType
<1>4. Expect(ts, p, w) # 0 => ts[p].value \in Text /\ p + 1 \in (p + 1)..Len(ts)
  <2> SUFFICES ASSUME Expect(ts, p, w) # 0 PROVE ts[p].value \in Text /\ p + 1 \in (p + 1)..Len(ts)
    OBVIOUS
  <2>1. p \in 1..Len(ts) /\ p + 1 \in (p + 1)..Len(ts)
    BY <1>3, ReadableForms
  <2> QED
    BY <1>3, <2>1, ReadableForms, TokenValues
<1> QED
  BY <1>2, <1>4 DEF Reads

\* A literal is read as a value.
LEMMA ValueType ==
    ASSUME NEW ts, Readable(ts), NEW p, p \in 1..Len(ts)
    PROVE  Reads(ParseValue(ts, p), Len(ts), p + 1, Values)
<1> DEFINE Give(v) == [next |-> Advance(ts, p), val |-> v]
<1>1. ts[p] \in Tokens
  BY ReadableForms
<1>2. ASSUME ts[p].type # "END_OF_INPUT", NEW v \in Values PROVE Reads(Give(v), Len(ts), p + 1, Values)
  <2>1. Advance(ts, p) \in (p + 1)..Len(ts)
    BY <1>2, AdvanceType, ReadableForms
  <2> QED
    BY <2>1 DEF Reads
<1>3. /\ \A x \in Int : Make("INT", x) \in Values /\ Make("FLOAT", x) \in Values
      /\ \A x \in Text : Make("TEXT", x) \in Values
      /\ Make("BOOL", TRUE) \in Values /\ Make("BOOL", FALSE) \in Values /\ MakeNull("TEXT") \in Values
  BY DEF Values, Make, ColumnType
<1>4. CASE ts[p].type = "INTEGER_LIT"
  BY <1>1, <1>2, <1>3, <1>4, TokenValues DEF ParseValue, Is
<1>5. CASE ts[p].type = "FLOAT_LIT"
  BY <1>1, <1>2, <1>3, <1>5, TokenValues DEF ParseValue, Is
<1>6. CASE ts[p].type = "STRING_LIT"
  BY <1>1, <1>2, <1>3, <1>6, TokenValues DEF ParseValue, Is
<1>7. CASE ts[p].type = "KW_TRUE"
  BY <1>2, <1>3, <1>7 DEF ParseValue, Is
<1>8. CASE ts[p].type = "KW_FALSE"
  BY <1>2, <1>3, <1>8 DEF ParseValue, Is
<1>9. CASE ts[p].type = "KW_NULL"
  BY <1>2, <1>3, <1>9 DEF ParseValue, Is
<1>10. CASE ts[p].type \notin {"INTEGER_LIT", "FLOAT_LIT", "STRING_LIT", "KW_TRUE", "KW_FALSE", "KW_NULL"}
  BY <1>10 DEF ParseValue, Is, Reads
<1> QED
  BY <1>4, <1>5, <1>6, <1>7, <1>8, <1>9, <1>10

\* An element in front of a list.
LEMMA PrependType ==
    ASSUME NEW n, n \in Nat, NEW p, p \in Nat, p # 0, NEW A, NEW x, x.val \in A, NEW rest, Reads(rest, n, p, Seq(A))
    PROVE  Reads(Prepend(x, rest), n, p, Seq(A))
<1>1. CASE rest = Failed
  BY <1>1, ReadsForms DEF Prepend, Reads
<1>2. CASE rest # Failed
  <2>1. rest.next \in p..n /\ rest.val \in Seq(A) /\ rest = [next |-> rest.next, val |-> rest.val] /\ ~Fails(rest)
    BY <1>2, ReadsForms
  <2>2. <<x.val>> \o rest.val \in Seq(A)
    BY <2>1
  <2>3. Prepend(x, rest) = [rest EXCEPT !.val = <<x.val>> \o rest.val]
    BY <2>1 DEF Prepend
  <2> DEFINE v == <<x.val>> \o rest.val
  <2> HIDE DEF v
  <2>4. [rest EXCEPT !.val = v] = [next |-> rest.next, val |-> v]
    BY <2>1
  <2>5. v \in Seq(A) /\ Prepend(x, rest) = [next |-> rest.next, val |-> v]
    BY <2>2, <2>3, <2>4 DEF v
  <2> QED
    BY <2>1, <2>5 DEF Reads
<1> QED
  BY <1>1, <1>2

\* A list and its closing parenthesis.
LEMMA CloseListType ==
    ASSUME NEW ts, Readable(ts), NEW p, p \in Nat, p # 0, NEW A, NEW list, Reads(list, Len(ts), p, A)
    PROVE  Reads(CloseList(ts, list), Len(ts), p + 1, A)
<1> DEFINE w == <<"RPAREN">>
           close == Expect(ts, list.next, w)
<1>1. Words(w, 1) /\ w[1] # "END_OF_INPUT"
  BY WordsOf
<1>2. CloseList(ts, list) = IF close = 0 THEN Failed ELSE [list EXCEPT !.next = close]
  BY DEF CloseList
<1> HIDE DEF w
<1>3. Len(ts) \in Nat /\ list.next \in 0..Len(ts)
  BY ReadableForms, ReadsForms DEF Failed
<1>4. CASE close = 0
  BY <1>2, <1>4 DEF Reads
<1>5. CASE close # 0
  <2>1. close = list.next + 1 /\ close \in (list.next + 1)..Len(ts) /\ list.next # 0
    BY <1>1, <1>3, <1>5, ExpectType
  <2>2. list # Failed
    BY <2>1 DEF Failed
  <2>3. list.next \in p..Len(ts) /\ list.val \in A /\ list = [next |-> list.next, val |-> list.val]
    BY <1>3, <2>2, ReadsForms
  <2> HIDE DEF close
  <2>4. [list EXCEPT !.next = close] = [next |-> close, val |-> list.val]
    BY <2>3
  <2>5. close \in (p + 1)..Len(ts)
    BY <1>3, <2>1, <2>3
  <2> QED
    BY <1>2, <1>5, <2>3, <2>4, <2>5 DEF Reads
<1> QED
  BY <1>4, <1>5

\* A list in parentheses of items that each read something.
LEMMA ParenListType ==
    ASSUME NEW ts, Readable(ts), NEW A, NEW item, \A q \in 1..Len(ts) : Reads(item[q], Len(ts), q + 1, A),
           NEW p, p \in 0..Len(ts)
    PROVE  Reads(ParenList(ts, p, item), Len(ts), p + 1, Seq(A))
<1> DEFINE n == Len(ts)
           Stop(q) == Is(ts, q, "RPAREN") \/ AtEnd(ts, q)
           R == {Failed} \cup [next : 1..n, val : Seq(A)]
           nxt == [q \in 1..n |-> IF Stop(q) \/ Fails(item[q]) THEN 0 ELSE SkipComma(ts, item[q].next)]
           base == [q \in 1..n |-> IF Stop(q) THEN [next |-> q, val |-> <<>>] ELSE Failed]
           step == [q \in 1..n |-> [r \in R |-> Prepend(item[q], r)]]
           Body(f, q) == IF Is(ts, q, "RPAREN") \/ AtEnd(ts, q) THEN [next |-> q, val |-> <<>>]
                         ELSE IF Fails(item[q]) THEN Failed
                         ELSE Prepend(item[q], f[SkipComma(ts, item[q].next)])
           Eq(f) == f = [q \in 1..n |-> IF Is(ts, q, "RPAREN") \/ AtEnd(ts, q) THEN [next |-> q, val |-> <<>>]
                                        ELSE IF Fails(item[q]) THEN Failed
                                        ELSE Prepend(item[q], f[SkipComma(ts, item[q].next)])]
           h == CHOOSE f : Eq(f)
<1>1. n \in Nat /\ n # 0
  BY ReadableForms
<1>2. ASSUME NEW q \in 1..n
      PROVE  /\ nxt[q] \in Int /\ base[q] \in R
             /\ nxt[q] > q => nxt[q] \in 1..n /\ item[q].val \in A
             /\ ~(nxt[q] > q) => Reads(base[q], n, q, Seq(A))
             /\ \A f : Body(f, q) = IF nxt[q] > q THEN Prepend(item[q], f[nxt[q]]) ELSE base[q]
  <2>1. Reads(item[q], n, q + 1, A) /\ q + 1 \in Nat /\ q + 1 # 0
    OBVIOUS
  <2>2. CASE Stop(q)
    <3>1. nxt[q] = 0 /\ base[q] = [next |-> q, val |-> <<>>]
      BY <2>2
    <3>2. \A f : Body(f, q) = [next |-> q, val |-> <<>>]
      BY <2>2, Zenon
    <3>3. ~(nxt[q] > q) /\ nxt[q] \in Int /\ q \in q..n
      BY <1>1, <3>1
    <3>4. base[q] \in R /\ Reads(base[q], n, q, Seq(A))
      BY <3>1, <3>3 DEF Reads
    <3> HIDE DEF nxt, base
    <3> QED
      BY <3>1, <3>2, <3>3, <3>4, Zenon
  <2>3. CASE ~Stop(q) /\ Fails(item[q])
    <3>1. nxt[q] = 0 /\ base[q] = Failed
      BY <2>3
    <3>2. \A f : Body(f, q) = Failed
      BY <2>3, Zenon
    <3>3. ~(nxt[q] > q) /\ nxt[q] \in Int
      BY <1>1, <3>1
    <3>4. base[q] \in R /\ Reads(base[q], n, q, Seq(A))
      BY <3>1, <3>3 DEF Reads
    <3> HIDE DEF nxt, base
    <3> QED
      BY <3>1, <3>2, <3>3, <3>4, Zenon
  <2>4. CASE ~Stop(q) /\ ~Fails(item[q])
    <3>1. nxt[q] = SkipComma(ts, item[q].next) /\ base[q] = Failed
      BY <2>4
    <3>2. \A f : Body(f, q) = Prepend(item[q], f[SkipComma(ts, item[q].next)])
      BY <2>4, Zenon
    <3>3. item[q].next \in (q + 1)..n /\ item[q].val \in A /\ item[q].next \in 1..n
      BY <1>1, <2>1, <2>4, ReadsForms
    <3>4. nxt[q] \in 1..n /\ nxt[q] > q /\ nxt[q] \in Int
      BY <3>1, <3>3, SkipCommaType
    <3>5. base[q] \in R
      BY <3>1
    <3> HIDE DEF nxt, base
    <3> QED
      BY <3>1, <3>2, <3>3, <3>4, <3>5, Zenon
  <2> QED
    BY <2>2, <2>3, <2>4
<1> HIDE DEF nxt, base
<1>3. nxt \in [1..n -> Int] /\ base \in [1..n -> R]
  <2>1. nxt = [q \in 1..n |-> nxt[q]] /\ base = [q \in 1..n |-> base[q]]
    BY DEF nxt, base
  <2> QED
    BY <1>2, <2>1
<1>4. \A q \in 1..n : nxt[q] > q => \A r \in R : step[q][r] = Prepend(item[q], r) /\ step[q][r] \in R
  <2> SUFFICES ASSUME NEW q \in 1..n, nxt[q] > q, NEW r \in R PROVE Prepend(item[q], r) \in R
    BY DEF step
  <2>1. Reads(r, n, 1, Seq(A)) /\ item[q].val \in A
    BY <1>2 DEF Reads
  <2>2. Reads(Prepend(item[q], r), n, 1, Seq(A))
    BY <1>1, <2>1, PrependType
  <2> QED
    BY <2>2 DEF Reads
<1> HIDE DEF step, R
<1>5. \A q \in 1..n : nxt[q] > q => /\ nxt[q] \in 1..n /\ nxt[q] \in (q + 1)..n /\ nxt[q] \in Nat /\ nxt[q] # 0
                                     /\ q \in Nat /\ q # 0 /\ q <= nxt[q]
  <2> SUFFICES ASSUME NEW q \in 1..n, nxt[q] > q, nxt[q] \in 1..n
               PROVE  /\ nxt[q] \in (q + 1)..n /\ nxt[q] \in Nat /\ nxt[q] # 0
                      /\ q \in Nat /\ q # 0 /\ q <= nxt[q]
    BY <1>2
  <2> QED
    BY <1>1
<1>f. PICK f \in [1..n -> R] : Continues(f, 1, n, base, nxt, step)
  <2>1. 1 \in Int /\ n \in Int /\ \A q \in 1..n : nxt[q] > q => nxt[q] \in 1..n /\ \A r \in R : step[q][r] \in R
    BY <1>1, <1>4, <1>5
  <2> HIDE DEF n
  <2> QED
    BY <1>3, <2>1, Ahead, Zenon
<1>6. ASSUME NEW q \in 1..n PROVE f[q] = Body(f, q)
  <2>1. f[q] = IF nxt[q] > q THEN step[q][f[nxt[q]]] ELSE base[q]
    BY <1>f DEF Continues
  <2>2. nxt[q] > q => step[q][f[nxt[q]]] = Prepend(item[q], f[nxt[q]])
    BY <1>4, <1>5, <1>f
  <2>3. f[q] = IF nxt[q] > q THEN Prepend(item[q], f[nxt[q]]) ELSE base[q]
    BY <2>1, <2>2
  <2> QED
    BY <1>2, <2>3, Zenon
<1>7. Eq(f)
  <2>1. f = [q \in 1..n |-> f[q]]
    BY <1>f
  <2> QED
    BY <1>6, <2>1, Zenon
<1>8. Eq(h)
  BY <1>7, Zenon
<1> HIDE DEF h
<1>9. ASSUME NEW q \in 1..n PROVE h[q] = IF nxt[q] > q THEN Prepend(item[q], h[nxt[q]]) ELSE base[q]
  <2>1. h[q] = Body(h, q)
    BY <1>8, Zenon
  <2> QED
    BY <1>2, <2>1, Zenon
<1> DEFINE S == {q \in 1..n : Reads(h[q], n, q, Seq(A))}
<1>10. ASSUME NEW q \in 1..n, \A r \in (q + 1)..n : r \in S PROVE q \in S
  <2>1. CASE nxt[q] > q
    <3>1. nxt[q] \in (q + 1)..n /\ nxt[q] \in Nat /\ nxt[q] # 0 /\ q \in Nat /\ q # 0 /\ q <= nxt[q]
      BY <1>5, <2>1
    <3>2. Reads(h[nxt[q]], n, nxt[q], Seq(A))
      BY <1>10, <3>1
    <3>3. Reads(h[nxt[q]], n, q, Seq(A))
      BY <1>1, <3>1, <3>2, ReadsMore
    <3>4. Reads(Prepend(item[q], h[nxt[q]]), n, q, Seq(A))
      BY <1>1, <1>2, <2>1, <3>1, <3>3, PrependType
    <3> QED
      BY <1>9, <2>1, <3>4
  <2>2. CASE ~(nxt[q] > q)
    BY <1>2, <1>9, <2>2
  <2> QED
    BY <2>1, <2>2
<1>11. 1..n \subseteq S
  <2>1. 1 \in Int /\ n \in Int
    BY <1>1
  <2> HIDE DEF S, n
  <2> QED
    BY <1>10, <2>1, Downwards, Zenon
<1>12. ParenList(ts, p, item) = CloseList(ts, IF p = 0 THEN Failed ELSE h[p])
  BY DEF ParenList, h, n
<1>13. CASE p = 0
  <2>1. Reads(Failed, n, 1, Seq(A))
    BY DEF Reads
  <2>2. Reads(CloseList(ts, Failed), n, 1 + 1, Seq(A))
    BY <2>1, CloseListType
  <2> QED
    BY <1>1, <1>12, <1>13, <2>2 DEF Reads
<1>14. CASE p # 0
  <2>1. p \in 1..n /\ p \in Nat
    BY <1>1, <1>14
  <2>2. Reads(h[p], n, p, Seq(A))
    BY <1>11, <2>1
  <2> QED
    BY <1>12, <1>14, <2>1, <2>2, CloseListType
<1> QED
  BY <1>13, <1>14

\* A list of items that each read something, with commas between them.
LEMMA CommaListType ==
    ASSUME NEW ts, Readable(ts), NEW A, NEW item, \A q \in 1..Len(ts) : Reads(item[q], Len(ts), q + 1, A),
           NEW p, p \in 0..Len(ts)
    PROVE  Reads(CommaList(ts, p, item), Len(ts), p + 1, Seq(A))
<1> DEFINE n == Len(ts)
           One(q) == [item[q] EXCEPT !.val = <<@>>]
           R == {Failed} \cup [next : 1..n, val : Seq(A)]
           nxt == [q \in 1..n |-> IF ~Fails(item[q]) /\ Is(ts, item[q].next, "COMMA") THEN Advance(ts, item[q].next) ELSE 0]
           base == [q \in 1..n |-> IF Fails(item[q]) THEN Failed
                                   ELSE IF ~Is(ts, item[q].next, "COMMA") THEN One(q) ELSE Failed]
           step == [q \in 1..n |-> [r \in R |-> Prepend(item[q], r)]]
           Body(f, q) == IF Fails(item[q]) THEN Failed
                         ELSE IF ~Is(ts, item[q].next, "COMMA") THEN [item[q] EXCEPT !.val = <<@>>]
                         ELSE Prepend(item[q], f[Advance(ts, item[q].next)])
           Eq(f) == f = [q \in 1..n |-> IF Fails(item[q]) THEN Failed
                                        ELSE IF ~Is(ts, item[q].next, "COMMA") THEN [item[q] EXCEPT !.val = <<@>>]
                                        ELSE Prepend(item[q], f[Advance(ts, item[q].next)])]
           h == CHOOSE f : Eq(f)
<1>1. n \in Nat /\ n # 0
  BY ReadableForms
<1>2. ASSUME NEW q \in 1..n
      PROVE  /\ nxt[q] \in Int /\ base[q] \in R
             /\ nxt[q] > q => nxt[q] \in 1..n /\ item[q].val \in A
             /\ ~(nxt[q] > q) => Reads(base[q], n, q + 1, Seq(A))
             /\ \A f : Body(f, q) = IF nxt[q] > q THEN Prepend(item[q], f[nxt[q]]) ELSE base[q]
  <2>1. Reads(item[q], n, q + 1, A) /\ q + 1 \in Nat /\ q + 1 # 0
    OBVIOUS
  <2>2. CASE Fails(item[q])
    <3>1. nxt[q] = 0 /\ base[q] = Failed
      BY <2>2
    <3>2. \A f : Body(f, q) = Failed
      BY <2>2, Zenon
    <3>3. ~(nxt[q] > q) /\ nxt[q] \in Int
      BY <1>1, <3>1
    <3>4. base[q] \in R /\ Reads(base[q], n, q + 1, Seq(A))
      BY <3>1, <3>3 DEF Reads
    <3> HIDE DEF nxt, base
    <3> QED
      BY <3>1, <3>2, <3>3, <3>4, Zenon
  <2>3. CASE ~Fails(item[q]) /\ ~Is(ts, item[q].next, "COMMA")
    <3>1. nxt[q] = 0 /\ base[q] = One(q)
      BY <2>3, Zenon
    <3>2. \A f : Body(f, q) = One(q)
      BY <2>3, Zenon
    <3>3. ~(nxt[q] > q) /\ nxt[q] \in Int
      BY <1>1, <3>1
    <3>4. item[q].next \in (q + 1)..n /\ item[q].val \in A /\ item[q] = [next |-> item[q].next, val |-> item[q].val]
      BY <1>1, <2>1, <2>3, ReadsForms
    <3> DEFINE v == <<item[q].val>>
    <3>5. v \in Seq(A) /\ One(q) = [item[q] EXCEPT !.val = v]
      BY <3>4
    <3> HIDE DEF v
    <3>6. [item[q] EXCEPT !.val = v] = [next |-> item[q].next, val |-> v]
      BY <3>4
    <3>7. One(q) = [next |-> item[q].next, val |-> v]
      BY <3>5, <3>6, Zenon
    <3> HIDE DEF One
    <3>8. Reads(One(q), n, q + 1, Seq(A)) /\ One(q) \in R
      <4>1. item[q].next \in 1..n
        BY <3>4
      <4> QED
        BY <3>4, <3>5, <3>7, <4>1 DEF Reads
    <3> HIDE DEF nxt, base
    <3> QED
      BY <3>1, <3>2, <3>3, <3>8, Zenon
  <2>4. CASE ~Fails(item[q]) /\ Is(ts, item[q].next, "COMMA")
    <3>1. nxt[q] = Advance(ts, item[q].next) /\ base[q] = Failed
      BY <2>4, Zenon
    <3>2. \A f : Body(f, q) = Prepend(item[q], f[Advance(ts, item[q].next)])
      BY <2>4, Zenon
    <3>3. item[q].next \in (q + 1)..n /\ item[q].val \in A /\ item[q].next \in 1..n
      BY <1>1, <2>1, <2>4, ReadsForms
    <3>4. nxt[q] \in 1..n /\ nxt[q] > q /\ nxt[q] \in Int
      <4>1. Advance(ts, item[q].next) \in item[q].next..n
        BY <3>3, AdvanceType
      <4> QED
        BY <3>1, <3>3, <4>1
    <3>5. base[q] \in R
      BY <3>1
    <3> HIDE DEF nxt, base
    <3> QED
      BY <3>1, <3>2, <3>3, <3>4, <3>5, Zenon
  <2> QED
    BY <2>2, <2>3, <2>4
<1> HIDE DEF nxt, base
<1>3. nxt \in [1..n -> Int] /\ base \in [1..n -> R]
  <2>1. nxt = [q \in 1..n |-> nxt[q]] /\ base = [q \in 1..n |-> base[q]]
    BY DEF nxt, base
  <2> QED
    BY <1>2, <2>1
<1>4. \A q \in 1..n : nxt[q] > q => \A r \in R : step[q][r] = Prepend(item[q], r) /\ step[q][r] \in R
  <2> SUFFICES ASSUME NEW q \in 1..n, nxt[q] > q, NEW r \in R PROVE Prepend(item[q], r) \in R
    BY DEF step
  <2>1. item[q].val \in A
    BY <1>2, Zenon
  <2>r. Reads(r, n, 1, Seq(A))
    BY DEF Reads
  <2>n. n \in Nat /\ 1 \in Nat /\ 1 # 0
    BY <1>1
  <2>2. Reads(Prepend(item[q], r), n, 1, Seq(A))
    <3> HIDE DEF n
    <3> QED
      BY <2>1, <2>r, <2>n, PrependType
  <2> QED
    BY <2>2 DEF Reads
<1> HIDE DEF step, R
<1>5. \A q \in 1..n : nxt[q] > q => /\ nxt[q] \in 1..n /\ nxt[q] \in (q + 1)..n /\ nxt[q] \in Nat /\ nxt[q] # 0
                                     /\ q \in Nat /\ q # 0 /\ q + 1 <= nxt[q] + 1
  <2> SUFFICES ASSUME NEW q \in 1..n, nxt[q] > q, nxt[q] \in 1..n
               PROVE  /\ nxt[q] \in (q + 1)..n /\ nxt[q] \in Nat /\ nxt[q] # 0
                      /\ q \in Nat /\ q # 0 /\ q + 1 <= nxt[q] + 1
    BY <1>2
  <2> QED
    BY <1>1
<1>f. PICK f \in [1..n -> R] : Continues(f, 1, n, base, nxt, step)
  <2>1. 1 \in Int /\ n \in Int /\ \A q \in 1..n : nxt[q] > q => nxt[q] \in 1..n /\ \A r \in R : step[q][r] \in R
    BY <1>1, <1>4, <1>5
  <2> HIDE DEF n
  <2> QED
    BY <1>3, <2>1, Ahead, Zenon
<1>6. ASSUME NEW q \in 1..n PROVE f[q] = Body(f, q)
  <2>1. f[q] = IF nxt[q] > q THEN step[q][f[nxt[q]]] ELSE base[q]
    BY <1>f DEF Continues
  <2>2. nxt[q] > q => step[q][f[nxt[q]]] = Prepend(item[q], f[nxt[q]])
    BY <1>4, <1>5, <1>f
  <2>3. f[q] = IF nxt[q] > q THEN Prepend(item[q], f[nxt[q]]) ELSE base[q]
    BY <2>1, <2>2
  <2> QED
    BY <1>2, <2>3, Zenon
<1>7. Eq(f)
  <2>1. f = [q \in 1..n |-> f[q]]
    BY <1>f
  <2> QED
    BY <1>6, <2>1, Zenon
<1>8. Eq(h)
  BY <1>7, Zenon
<1> HIDE DEF h
<1>9. ASSUME NEW q \in 1..n PROVE h[q] = IF nxt[q] > q THEN Prepend(item[q], h[nxt[q]]) ELSE base[q]
  <2>1. h[q] = Body(h, q)
    BY <1>8, Zenon
  <2> QED
    BY <1>2, <2>1, Zenon
<1> DEFINE S == {q \in 1..n : Reads(h[q], n, q + 1, Seq(A))}
<1>10. ASSUME NEW q \in 1..n, \A r \in (q + 1)..n : r \in S PROVE q \in S
  <2>1. CASE nxt[q] > q
    <3>1. nxt[q] \in (q + 1)..n /\ nxt[q] + 1 \in Nat /\ q + 1 \in Nat /\ q + 1 # 0 /\ q + 1 <= nxt[q] + 1
      BY <1>5, <2>1
    <3>2. Reads(h[nxt[q]], n, nxt[q] + 1, Seq(A))
      BY <1>10, <3>1
    <3>3. Reads(h[nxt[q]], n, q + 1, Seq(A))
      BY <1>1, <3>1, <3>2, ReadsMore
    <3>4. Reads(Prepend(item[q], h[nxt[q]]), n, q + 1, Seq(A))
      BY <1>1, <1>2, <2>1, <3>1, <3>3, PrependType
    <3> QED
      BY <1>9, <2>1, <3>4
  <2>2. CASE ~(nxt[q] > q)
    BY <1>2, <1>9, <2>2
  <2> QED
    BY <2>1, <2>2
<1>11. 1..n \subseteq S
  <2>1. 1 \in Int /\ n \in Int
    BY <1>1
  <2> HIDE DEF S, n
  <2> QED
    BY <1>10, <2>1, Downwards, Zenon
<1>12. CommaList(ts, p, item) = IF p = 0 THEN Failed ELSE h[p]
  BY DEF CommaList, h, n
<1>13. CASE p = 0
  BY <1>12, <1>13 DEF Reads
<1>14. CASE p # 0
  <2>1. p \in 1..n
    BY <1>1, <1>14
  <2> QED
    BY <1>11, <1>12, <1>14, <2>1
<1> QED
  BY <1>13, <1>14

-----------------------------------------------------------------------------
(* CREATE TABLE reads columns.                                             *)

\* The type of a column, with or without a length.
LEMMA ColumnTypeType ==
    ASSUME NEW ts, Readable(ts), NEW p, p \in 1..Len(ts)
    PROVE  Reads(ParseColumnType(ts, p), Len(ts), p + 1, ColumnType)
<1> DEFINE type == TypeOfToken(ts[p].type)
           q == Advance(ts, p)
           w == <<"RPAREN">>
           close == Expect(ts, Advance(ts, Advance(ts, q)), w)
<1>1. Words(w, 1) /\ w[1] # "END_OF_INPUT"
  BY WordsOf
<1>2. ParseColumnType(ts, p) =
          IF type = "none" THEN Failed
          ELSE IF type = "TEXT" /\ Is(ts, q, "LPAREN")
          THEN IF close = 0 THEN Failed ELSE [next |-> close, val |-> type]
          ELSE [next |-> q, val |-> type]
  BY DEF ParseColumnType
<1>3. type = "none" \/ (type \in ColumnType /\ ts[p].type # "END_OF_INPUT")
  BY DEF TypeOfToken, ColumnType
<1> HIDE DEF type, w
<1>4. CASE type = "none"
  BY <1>2, <1>4 DEF Reads
<1>5. CASE type # "none"
  <2>1. q = p + 1 /\ q \in 1..Len(ts) /\ q \in (p + 1)..Len(ts)
    BY <1>3, <1>5, AdvanceType, ReadableForms
  <2> HIDE DEF q
  <2> DEFINE r == Advance(ts, Advance(ts, q))
  <2>2. r \in q..Len(ts) /\ r \in 0..Len(ts)
    <3>1. Advance(ts, q) \in q..Len(ts) /\ Advance(ts, q) \in 1..Len(ts)
      BY <2>1, AdvanceType
    <3>2. r \in Advance(ts, q)..Len(ts) /\ r \in 1..Len(ts)
      BY <3>1, AdvanceType
    <3> HIDE DEF r
    <3> QED
      BY <2>1, <3>1, <3>2, ReadableForms
  <2>3. close # 0 => close \in (p + 1)..Len(ts)
    <3> HIDE DEF r
    <3> SUFFICES ASSUME Expect(ts, r, w) # 0 PROVE Expect(ts, r, w) \in (p + 1)..Len(ts)
      BY DEF r
    <3>1. Expect(ts, r, w) \in (r + 1)..Len(ts)
      BY <1>1, <2>2, ExpectType
    <3> QED
      BY <2>1, <2>2, <3>1, ReadableForms
  <2> HIDE DEF close
  <2> QED
    BY <1>2, <1>3, <1>5, <2>1, <2>3 DEF Reads
<1> QED
  BY <1>4, <1>5

\* A column with a constraint, once what follows it is read.
Constrained(r, primary) ==
    IF Fails(r) THEN Failed
    ELSE IF primary THEN [r EXCEPT !.val.is_primary_key = TRUE]
    ELSE [r EXCEPT !.val.not_null = TRUE]

\* A constraint changes flags only.
LEMMA ConstrainedType ==
    ASSUME NEW n, n \in Nat, NEW p, p \in Nat, p # 0, NEW r, Reads(r, n, p, ColumnDef), NEW primary
    PROVE  Reads(Constrained(r, primary), n, p, ColumnDef)
<1>1. CASE r = Failed
  BY <1>1, ReadsForms DEF Constrained, Reads
<1>2. CASE r # Failed
  <2>1. r.next \in p..n /\ r.val \in ColumnDef /\ r = [next |-> r.next, val |-> r.val] /\ ~Fails(r)
    BY <1>2, ReadsForms
  <2> DEFINE a == [r.val EXCEPT !.is_primary_key = TRUE]
             b == [r.val EXCEPT !.not_null = TRUE]
  <2>2. a \in ColumnDef /\ b \in ColumnDef
    BY <2>1 DEF ColumnDef
  <2>3. [r EXCEPT !.val.is_primary_key = TRUE] = [next |-> r.next, val |-> a]
    <3>1. [r EXCEPT !.val.is_primary_key = TRUE] = [r EXCEPT !.val = [@ EXCEPT !.is_primary_key = TRUE]]
      OBVIOUS
    <3>2. [r EXCEPT !.val.is_primary_key = TRUE] = [r EXCEPT !.val = a]
      BY <3>1
    <3> HIDE DEF a
    <3>3. [r EXCEPT !.val = a] = [next |-> r.next, val |-> a]
      BY <2>1
    <3> QED
      BY <3>2, <3>3
  <2>4. [r EXCEPT !.val.not_null = TRUE] = [next |-> r.next, val |-> b]
    <3>1. [r EXCEPT !.val.not_null = TRUE] = [r EXCEPT !.val = [@ EXCEPT !.not_null = TRUE]]
      OBVIOUS
    <3>2. [r EXCEPT !.val.not_null = TRUE] = [r EXCEPT !.val = b]
      BY <3>1
    <3> HIDE DEF b
    <3>3. [r EXCEPT !.val = b] = [next |-> r.next, val |-> b]
      BY <2>1
    <3> QED
      BY <3>2, <3>3
  <2> DEFINE x == Constrained(r, primary)
  <2>5. x = [next |-> r.next, val |-> a] \/ x = [next |-> r.next, val |-> b]
    BY <2>1, <2>3, <2>4, Zenon DEF Constrained
  <2> HIDE DEF a, b, x
  <2>6. Reads(x, n, p, ColumnDef)
    BY <2>1, <2>2, <2>5 DEF Reads
  <2> QED
    BY <2>6 DEF x
<1> QED
  BY <1>1, <1>2

\* The constraints behind a column give a column.
LEMMA ConstraintsType ==
    ASSUME NEW ts, Readable(ts), NEW col, col \in ColumnDef, NEW p, p \in 1..Len(ts)
    PROVE  Reads(ParseConstraints(ts, p, col), Len(ts), p, ColumnDef)
<1> DEFINE n == Len(ts)
           Word(q) == IF Is(ts, q, "KW_PRIMARY") THEN <<"KW_PRIMARY", "KW_KEY">> ELSE <<"KW_NOT", "KW_NULL">>
           After(q) == Expect(ts, q, Word(q))
           R == {Failed} \cup [next : 1..n, val : ColumnDef]
           nxt == [q \in 1..n |-> IF ts[q].type \notin {"KW_PRIMARY", "KW_NOT"} THEN 0 ELSE After(q)]
           base == [q \in 1..n |-> IF ts[q].type \notin {"KW_PRIMARY", "KW_NOT"} THEN [next |-> q, val |-> col] ELSE Failed]
           step == [q \in 1..n |-> [r \in R |-> Constrained(r, Is(ts, q, "KW_PRIMARY"))]]
           Body(f, q) ==
               LET word == IF Is(ts, q, "KW_PRIMARY") THEN <<"KW_PRIMARY", "KW_KEY">> ELSE <<"KW_NOT", "KW_NULL">>
                   after == Expect(ts, q, word)
               IN  IF ts[q].type \notin {"KW_PRIMARY", "KW_NOT"} THEN [next |-> q, val |-> col]
                   ELSE IF after = 0 \/ Fails(f[after]) THEN Failed
                   ELSE IF Is(ts, q, "KW_PRIMARY") THEN [f[after] EXCEPT !.val.is_primary_key = TRUE]
                   ELSE [f[after] EXCEPT !.val.not_null = TRUE]
           Eq(f) == f = [q \in 1..n |->
               LET word == IF Is(ts, q, "KW_PRIMARY") THEN <<"KW_PRIMARY", "KW_KEY">> ELSE <<"KW_NOT", "KW_NULL">>
                   after == Expect(ts, q, word)
               IN  IF ts[q].type \notin {"KW_PRIMARY", "KW_NOT"} THEN [next |-> q, val |-> col]
                   ELSE IF after = 0 \/ Fails(f[after]) THEN Failed
                   ELSE IF Is(ts, q, "KW_PRIMARY") THEN [f[after] EXCEPT !.val.is_primary_key = TRUE]
                   ELSE [f[after] EXCEPT !.val.not_null = TRUE]]
           h == CHOOSE f : Eq(f)
           Then(q, r) == Constrained(r, Is(ts, q, "KW_PRIMARY"))
<1>1. n \in Nat /\ n # 0
  BY ReadableForms
<1>2. ASSUME NEW q \in 1..n
      PROVE  /\ nxt[q] \in Int /\ base[q] \in R
             /\ nxt[q] > q => nxt[q] \in 1..n
             /\ ~(nxt[q] > q) => Reads(base[q], n, q, ColumnDef)
             /\ \A f : Body(f, q) = IF nxt[q] > q THEN Then(q, f[nxt[q]]) ELSE base[q]
  <2>1. CASE ts[q].type \notin {"KW_PRIMARY", "KW_NOT"}
    <3>1. nxt[q] = 0 /\ base[q] = [next |-> q, val |-> col]
      BY <2>1
    <3>2. \A f : Body(f, q) = [next |-> q, val |-> col]
      BY <2>1, Zenon
    <3>3. ~(nxt[q] > q) /\ nxt[q] \in Int /\ q \in q..n
      BY <1>1, <3>1
    <3>4. base[q] \in R /\ Reads(base[q], n, q, ColumnDef)
      BY <3>1, <3>3 DEF Reads
    <3> HIDE DEF nxt, base
    <3> QED
      BY <3>1, <3>2, <3>3, <3>4, Zenon
  <2>2. CASE ts[q].type \in {"KW_PRIMARY", "KW_NOT"}
    <3> DEFINE w == Word(q)
    <3>1. Words(w, 2) /\ w[2] # "END_OF_INPUT"
      <4>1. CASE Is(ts, q, "KW_PRIMARY")
        BY <4>1, WordsOf
      <4>2. CASE ~Is(ts, q, "KW_PRIMARY")
        BY <4>2, WordsOf
      <4> QED
        BY <4>1, <4>2
    <3>2. nxt[q] = After(q) /\ base[q] = Failed
      BY <2>2, Zenon
    <3>3. \A f : Body(f, q) = IF After(q) = 0 \/ Fails(f[After(q)]) THEN Failed
                              ELSE IF Is(ts, q, "KW_PRIMARY") THEN [f[After(q)] EXCEPT !.val.is_primary_key = TRUE]
                              ELSE [f[After(q)] EXCEPT !.val.not_null = TRUE]
      BY <2>2, Zenon
    <3>4. \A f : Body(f, q) = IF After(q) = 0 THEN Failed ELSE Then(q, f[After(q)])
      BY <3>3, Zenon DEF Constrained
    <3> HIDE DEF w
    <3>5. After(q) = 0 \/ (After(q) = q + 2 /\ After(q) \in (q + 1)..n)
      <4>1. q \in 0..n
        BY <1>1
      <4>2. Expect(ts, q, w) # 0 => Expect(ts, q, w) = q + 2 /\ q + 2 \in (q + 1)..n
        BY <3>1, <4>1, ExpectType
      <4> QED
        BY <4>2 DEF w
    <3> HIDE DEF After
    <3>6. After(q) \in Int /\ (After(q) > q => After(q) \in 1..n /\ After(q) # 0) /\ (~(After(q) > q) => After(q) = 0)
      BY <1>1, <3>5
    <3>7. Failed \in R /\ Reads(Failed, n, q, ColumnDef)
      BY DEF Reads
    <3> HIDE DEF nxt, base, R
    <3> QED
      BY <3>2, <3>4, <3>6, <3>7, Zenon
  <2> QED
    BY <2>1, <2>2
<1> HIDE DEF nxt, base
<1>3. nxt \in [1..n -> Int] /\ base \in [1..n -> R]
  <2>1. nxt = [q \in 1..n |-> nxt[q]] /\ base = [q \in 1..n |-> base[q]]
    BY DEF nxt, base
  <2> HIDE DEF R
  <2>2. \A q \in 1..n : nxt[q] \in Int /\ base[q] \in R
    BY <1>2, Zenon
  <2> QED
    BY <2>1, <2>2
<1>4. \A q \in 1..n : \A r \in R : step[q][r] = Then(q, r) /\ step[q][r] \in R
  <2> SUFFICES ASSUME NEW q \in 1..n, NEW r \in R PROVE Then(q, r) \in R
    BY DEF step
  <2>1. Reads(r, n, 1, ColumnDef) /\ 1 \in Nat /\ 1 # 0
    BY DEF Reads
  <2>2. Reads(Then(q, r), n, 1, ColumnDef)
    <3> HIDE DEF n
    <3> QED
      BY <1>1, <2>1, ConstrainedType
  <2> HIDE DEF Then
  <2> QED
    BY <2>2 DEF Reads
<1> HIDE DEF step, R
<1>5. \A q \in 1..n : nxt[q] > q => /\ nxt[q] \in 1..n /\ nxt[q] \in (q + 1)..n /\ nxt[q] \in Nat /\ nxt[q] # 0
                                     /\ q \in Nat /\ q # 0 /\ q <= nxt[q]
  <2> SUFFICES ASSUME NEW q \in 1..n, nxt[q] > q, nxt[q] \in 1..n
               PROVE  /\ nxt[q] \in (q + 1)..n /\ nxt[q] \in Nat /\ nxt[q] # 0
                      /\ q \in Nat /\ q # 0 /\ q <= nxt[q]
    BY <1>2, Zenon
  <2> QED
    BY <1>1
<1>f. PICK f \in [1..n -> R] : Continues(f, 1, n, base, nxt, step)
  <2>1. 1 \in Int /\ n \in Int /\ \A q \in 1..n : nxt[q] > q => nxt[q] \in 1..n /\ \A r \in R : step[q][r] \in R
    BY <1>1, <1>4, <1>5
  <2> HIDE DEF n
  <2> QED
    BY <1>3, <2>1, Ahead, Zenon
<1>6. ASSUME NEW q \in 1..n PROVE f[q] = Body(f, q)
  <2>1. f[q] = IF nxt[q] > q THEN step[q][f[nxt[q]]] ELSE base[q]
    BY <1>f DEF Continues
  <2>2. nxt[q] > q => step[q][f[nxt[q]]] = Then(q, f[nxt[q]])
    <3> SUFFICES ASSUME nxt[q] > q PROVE step[q][f[nxt[q]]] = Then(q, f[nxt[q]])
      OBVIOUS
    <3>1. f[nxt[q]] \in R
      BY <1>5, <1>f
    <3> QED
      BY <1>4, <3>1, Zenon
  <2>3. f[q] = IF nxt[q] > q THEN Then(q, f[nxt[q]]) ELSE base[q]
    BY <2>1, <2>2, Zenon
  <2> QED
    BY <1>2, <2>3, Zenon
<1>7. Eq(f)
  <2>1. f = [q \in 1..n |-> f[q]]
    BY <1>f
  <2> QED
    BY <1>6, <2>1, Zenon
<1>8. Eq(h)
  BY <1>7, Zenon
<1> HIDE DEF h
<1>9. ASSUME NEW q \in 1..n PROVE h[q] = IF nxt[q] > q THEN Then(q, h[nxt[q]]) ELSE base[q]
  <2>1. h[q] = Body(h, q)
    BY <1>8, Zenon
  <2> QED
    BY <1>2, <2>1, Zenon
<1> DEFINE S == {q \in 1..n : Reads(h[q], n, q, ColumnDef)}
<1>10. ASSUME NEW q \in 1..n, \A r \in (q + 1)..n : r \in S PROVE q \in S
  <2>1. CASE nxt[q] > q
    <3>1. nxt[q] \in (q + 1)..n /\ nxt[q] \in Nat /\ nxt[q] # 0 /\ q \in Nat /\ q # 0 /\ q <= nxt[q]
      BY <1>5, <2>1
    <3>2. Reads(h[nxt[q]], n, nxt[q], ColumnDef)
      BY <1>10, <3>1
    <3>3. Reads(h[nxt[q]], n, q, ColumnDef)
      BY <1>1, <3>1, <3>2, ReadsMore
    <3>4. Reads(Then(q, h[nxt[q]]), n, q, ColumnDef)
      BY <1>1, <3>1, <3>3, ConstrainedType
    <3> QED
      BY <1>9, <2>1, <3>4, Zenon
  <2>2. CASE ~(nxt[q] > q)
    BY <1>2, <1>9, <2>2, Zenon
  <2> QED
    BY <2>1, <2>2
<1>11. 1..n \subseteq S
  <2>1. 1 \in Int /\ n \in Int
    BY <1>1
  <2> HIDE DEF S, n
  <2> QED
    BY <1>10, <2>1, Downwards, Zenon
<1>12. ParseConstraints(ts, p, col) = h[p]
  BY DEF ParseConstraints, h, n
<1> QED
  BY <1>11, <1>12

\* What the list of CREATE TABLE consists of.
ListItem == ColumnDef \cup [table_key : Text]

\* An item of CREATE TABLE is a key for the table or a column.
LEMMA ListItems ==
    ASSUME NEW x, x \in ListItem
    PROVE  IF IsTableKey(x) THEN x.table_key \in Text ELSE x \in ColumnDef
<1>1. CASE x \in ColumnDef
  <2>1. "name" \in DOMAIN x /\ "name" # "table_key"
    BY <1>1 DEF ColumnDef
  <2> QED
    BY <1>1, <2>1 DEF IsTableKey
<1>2. CASE x \in [table_key : Text]
  BY <1>2 DEF IsTableKey
<1> QED
  BY <1>1, <1>2 DEF ListItem

\* An item of CREATE TABLE is read as one.
LEMMA ColumnItemType ==
    ASSUME NEW ts, Readable(ts), NEW p, p \in 1..Len(ts)
    PROVE  Reads(ParseColumn(ts, p), Len(ts), p + 1, ListItem)
<1>0. Len(ts) \in Nat /\ p \in 0..Len(ts) /\ p + 1 \in Nat /\ p + 1 # 0
  BY ReadableForms
<1>1. CASE Is(ts, p, "KW_PRIMARY")
  <2> DEFINE w == <<"KW_PRIMARY", "KW_KEY", "LPAREN">>
             v == <<"RPAREN">>
             at == Expect(ts, p, w)
             pk == Name(ts, at)
             close == Expect(ts, pk.next, v)
  <2>1. Words(w, 3) /\ w[3] # "END_OF_INPUT" /\ Words(v, 1) /\ v[1] # "END_OF_INPUT"
    BY WordsOf
  <2>2. ParseColumn(ts, p) = IF close = 0 THEN Failed ELSE [next |-> close, val |-> [table_key |-> pk.val]]
    BY <1>1 DEF ParseColumn
  <2> HIDE DEF w, v
  <2>3. at \in 0..Len(ts) /\ (at # 0 => at \in (p + 1)..Len(ts))
    BY <1>0, <2>1, ExpectType
  <2> HIDE DEF at
  <2>4. at + 1 \in Nat /\ at + 1 # 0 /\ Reads(pk, Len(ts), at + 1, Text)
    BY <2>3, NameType
  <2> HIDE DEF pk
  <2>5. pk.next \in 0..Len(ts) /\ (pk.next # 0 => pk.next \in (at + 1)..Len(ts) /\ pk.val \in Text)
    BY <1>0, <2>3, <2>4, ReadsForms DEF Failed
  <2>6. close # 0 => pk.next # 0 /\ close \in (pk.next + 1)..Len(ts)
    BY <2>1, <2>5, ExpectType
  <2> HIDE DEF close
  <2>7. CASE close = 0
    BY <2>2, <2>7 DEF Reads
  <2>8. CASE close # 0
    <3>1. [table_key |-> pk.val] \in ListItem
      BY <2>5, <2>6, <2>8 DEF ListItem
    <3>2. at # 0
      <4> SUFFICES ASSUME at = 0 PROVE FALSE
        OBVIOUS
      <4>1. pk = Failed
        BY DEF pk, Name, Expect
      <4> QED
        BY <2>6, <2>8, <4>1 DEF Failed
    <3>3. close \in (p + 1)..Len(ts)
      BY <1>0, <2>3, <2>5, <2>6, <2>8, <3>2
    <3> QED
      BY <2>2, <2>8, <3>1, <3>3 DEF Reads
  <2> QED
    BY <2>7, <2>8
<1>2. CASE ~Is(ts, p, "KW_PRIMARY")
  <2> DEFINE name == Name(ts, p)
             type == IF Fails(name) THEN Failed ELSE ParseColumnType(ts, name.next)
             col == [name |-> name.val, type |-> type.val, not_null |-> FALSE, is_primary_key |-> FALSE]
  <2>1. ParseColumn(ts, p) = IF Fails(type) THEN Failed ELSE ParseConstraints(ts, type.next, col)
    BY <1>2 DEF ParseColumn
  <2>2. Reads(name, Len(ts), p + 1, Text)
    BY <1>0, NameType
  <2> HIDE DEF name
  <2>3. CASE Fails(type)
    BY <2>1, <2>3 DEF Reads
  <2>4. CASE ~Fails(type)
    <3>1. ~Fails(name)
      BY <2>4 DEF Fails, Failed
    <3>2. name.next \in (p + 1)..Len(ts) /\ name.next \in 1..Len(ts) /\ name.val \in Text
      BY <1>0, <2>2, <3>1, ReadsForms
    <3>3. type = ParseColumnType(ts, name.next)
      BY <3>1
    <3>4. Reads(type, Len(ts), name.next + 1, ColumnType)
      BY <3>2, <3>3, ColumnTypeType
    <3> HIDE DEF type
    <3>5. type.next \in (name.next + 1)..Len(ts) /\ type.val \in ColumnType /\ type.next \in 1..Len(ts) /\ type.next \in Nat
      <4>1. name.next + 1 \in Nat /\ name.next + 1 # 0
        BY <3>2
      <4>2. type.next \in (name.next + 1)..Len(ts) /\ type.val \in ColumnType
        BY <1>0, <2>4, <3>4, <4>1, ReadsForms
      <4> QED
        BY <1>0, <3>2, <4>2
    <3>6. col \in ColumnDef
      BY <3>2, <3>5 DEF ColumnDef
    <3> HIDE DEF col
    <3>7. Reads(ParseConstraints(ts, type.next, col), Len(ts), type.next, ColumnDef)
      BY <3>5, <3>6, ConstraintsType
    <3>8. ColumnDef \subseteq ListItem /\ p + 1 <= type.next
      BY <1>0, <3>2, <3>5 DEF ListItem
    <3> QED
      BY <1>0, <2>1, <2>4, <3>5, <3>7, <3>8, ReadsMore
  <2> QED
    BY <2>3, <2>4
<1> QED
  BY <1>1, <1>2

\* The primary key is a name.
LEMMA PrimaryKeyType ==
    ASSUME NEW items, items \in Seq(ListItem)
    PROVE  PrimaryKey(items) \in Text
<1> DEFINE keys == {i \in DOMAIN items : IsTableKey(items[i]) \/ items[i].is_primary_key}
           m == Max(keys)
<1>1. PrimaryKey(items) = IF keys = {} THEN <<>> ELSE IF IsTableKey(items[m]) THEN items[m].table_key ELSE items[m].name
  BY DEF PrimaryKey
<1>2. Len(items) \in Nat /\ keys \in SUBSET 0..Len(items) /\ keys \subseteq 1..Len(items)
  OBVIOUS
<1> HIDE DEF keys
<1>3. CASE keys = {}
  BY <1>1, <1>3 DEF Text
<1>4. CASE keys # {}
  <2>1. m \in 1..Len(items)
    BY <1>2, <1>4, LastOf
  <2> HIDE DEF m
  <2>2. items[m] \in ListItem
    BY <2>1
  <2>3. CASE IsTableKey(items[m])
    BY <1>1, <1>4, <2>2, <2>3, ListItems
  <2>4. CASE ~IsTableKey(items[m])
    <3>1. items[m] \in ColumnDef
      BY <2>2, <2>4, ListItems
    <3>2. items[m].name \in Text
      BY <3>1 DEF ColumnDef
    <3> QED
      BY <1>1, <1>4, <2>4, <3>2
  <2> QED
    BY <2>3, <2>4
<1> QED
  BY <1>3, <1>4

\* The columns among the items.
LEMMA ColumnsOfType ==
    ASSUME NEW items, items \in Seq(ListItem)
    PROVE  ColumnsOf(items) \in Seq(ColumnDef)
<1> DEFINE n == Len(items)
           R == Seq(ColumnDef)
           Then(i, r) == IF IsTableKey(items[i]) THEN r ELSE Append(r, items[i])
           step == [i \in 1..n |-> [r \in R |-> Then(i, r)]]
           Eq(f) == f = [i \in 0..n |-> IF i = 0 THEN <<>>
                            ELSE IF IsTableKey(items[i]) THEN f[i - 1] ELSE Append(f[i - 1], items[i])]
           h == CHOOSE f : Eq(f)
<1>1. n \in Nat /\ <<>> \in R
  OBVIOUS
<1>2. ASSUME NEW i \in 1..n, NEW r \in R PROVE Then(i, r) \in R
  <2>1. items[i] \in ListItem
    OBVIOUS
  <2>2. ~IsTableKey(items[i]) => items[i] \in ColumnDef
    BY <2>1, ListItems
  <2> QED
    BY <2>2
<1>3. \A i \in 1..n : \A r \in R : step[i][r] = Then(i, r) /\ step[i][r] \in R
  BY <1>2
<1> HIDE DEF step, R
<1>f. PICK f \in [0..n -> R] : Unfolds(f, n, <<>>, step)
  <2> HIDE DEF n, Then
  <2> QED
    BY <1>1, <1>3, Along
<1>4. ASSUME NEW i \in 0..n PROVE f[i] = IF i = 0 THEN <<>> ELSE Then(i, f[i - 1])
  <2>1. CASE i = 0
    BY <1>f, <2>1 DEF Unfolds
  <2>2. CASE i # 0
    <3>1. i \in 1..n /\ i - 1 \in 0..n
      BY <1>1, <2>2
    <3>2. f[i - 1] \in R
      BY <1>f, <3>1
    <3>3. f[i] = step[i][f[i - 1]]
      BY <1>f, <3>1 DEF Unfolds
    <3>4. f[i] = Then(i, f[i - 1])
      BY <1>3, <3>1, <3>2, <3>3, Zenon
    <3> QED
      BY <2>2, <3>4, Zenon
  <2> QED
    BY <2>1, <2>2
<1>5. Eq(f)
  <2>1. f = [i \in 0..n |-> f[i]]
    BY <1>f
  <2> QED
    BY <1>4, <2>1, Zenon
<1>6. Eq(h)
  BY <1>5, Zenon
<1> HIDE DEF h
<1>7. ASSUME NEW i \in 0..n PROVE h[i] = IF i = 0 THEN <<>> ELSE Then(i, h[i - 1])
  BY <1>6, Zenon
<1> HIDE DEF Then
<1> DEFINE S == {i \in 0..n : h[i] \in R}
<1>8. 0 \in S
  BY <1>1, <1>7
<1>9. ASSUME NEW i \in 1..n, i - 1 \in S PROVE i \in S
  <2>1. i \in 0..n /\ i # 0 /\ h[i - 1] \in R
    BY <1>1, <1>9
  <2>2. h[i] = Then(i, h[i - 1])
    BY <1>7, <2>1
  <2>3. Then(i, h[i - 1]) \in R
    BY <1>2, <2>1
  <2> QED
    BY <2>1, <2>2, <2>3
<1>10. 0..n \subseteq S
  <2> HIDE DEF S, n
  <2> QED
    BY <1>1, <1>8, <1>9, Positions
<1>11. h[n] \in R
  BY <1>1, <1>10
<1>12. ColumnsOf(items) = h[n]
  BY DEF ColumnsOf, h, n
<1> QED
  BY <1>11, <1>12 DEF R

-----------------------------------------------------------------------------
(* The statements.                                                         *)

\* An error is not read over.
LEMMA FailedStays ==
    ASSUME NEW ts, NEW item, NEW types
    PROVE  /\ Expect(ts, 0, types) = 0 /\ Name(ts, 0) = Failed
           /\ ParenList(ts, 0, item) = Failed /\ CommaList(ts, 0, item) = Failed
           /\ ParseWhere(ts, 0) = Failed /\ ParseOrder(ts, 0) = Failed /\ ParseLimit(ts, 0) = Failed
<1>1. \A w : Expect(ts, 0, w) = 0
  BY DEF Expect
<1>2. Failed.next = 0
  BY DEF Failed
<1>3. CloseList(ts, Failed) = Failed
  BY <1>1, <1>2, Zenon DEF CloseList
<1>4. ParenList(ts, 0, item) = Failed
  BY <1>3, Zenon DEF ParenList
<1>5. CommaList(ts, 0, item) = Failed
  BY Zenon DEF CommaList
<1>6. ParseWhere(ts, 0) = Failed
  BY Zenon DEF ParseWhere
<1>7. ParseOrder(ts, 0) = Failed
  BY Zenon DEF ParseOrder
<1>8. ParseLimit(ts, 0) = Failed
  BY Zenon DEF ParseLimit
<1> QED
  BY <1>1, <1>4, <1>5, <1>6, <1>7, <1>8, Zenon DEF Name

\* The position behind what was read.
LEMMA ReadsNext ==
    ASSUME NEW n, n \in Nat, NEW p, p \in Nat, NEW A, NEW x, Reads(x, n, p + 1, A)
    PROVE  /\ x.next \in 0..n /\ (Fails(x) <=> x = Failed) /\ (Fails(x) <=> x.next = 0)
           /\ x.next # 0 => x.next \in 1..n /\ x.next \in (p + 1)..n /\ x.val \in A
<1>1. p + 1 \in Nat /\ p + 1 # 0
  OBVIOUS
<1>2. (Fails(x) <=> x = Failed) /\ (x # Failed => x.next \in (p + 1)..n /\ x.val \in A /\ x.next # 0)
  BY <1>1, ReadsForms
<1>3. Failed.next = 0
  BY DEF Failed
<1> QED
  BY <1>1, <1>2, <1>3 DEF Fails

\* A condition is read as one.
LEMMA ConditionType ==
    ASSUME NEW ts, Readable(ts), NEW p, p \in 1..Len(ts)
    PROVE  Reads(ParseCondition(ts, p), Len(ts), p + 1, Condition)
<1> DEFINE col == Name(ts, p)
           op == ts[col.next].type
           q == Advance(ts, col.next)
           value == IF Fails(col) \/ op \notin CompOp THEN Failed ELSE ParseValue(ts, q)
<1>0. Len(ts) \in Nat /\ p \in Nat /\ p \in 0..Len(ts)
  BY ReadableForms
<1>1. ParseCondition(ts, p) = IF Fails(value) THEN Failed
                              ELSE [next |-> value.next, val |-> [column |-> col.val, op |-> op, value |-> value.val]]
  BY DEF ParseCondition
<1>2. Reads(col, Len(ts), p + 1, Text)
  BY <1>0, NameType
<1> HIDE DEF col
<1>3. CASE Fails(value)
  BY <1>1, <1>3 DEF Reads
<1>4. CASE ~Fails(value)
  <2>1. ~Fails(col) /\ op \in CompOp /\ value = ParseValue(ts, q)
    BY <1>4 DEF Fails, Failed
  <2>2. col.next \in 1..Len(ts) /\ col.next \in (p + 1)..Len(ts) /\ col.val \in Text
    BY <1>0, <1>2, <2>1, ReadsNext
  <2>3. q \in 1..Len(ts) /\ q \in col.next..Len(ts)
    BY <2>2, AdvanceType
  <2> HIDE DEF q
  <2>4. Reads(value, Len(ts), q + 1, Values)
    BY <2>1, <2>3, ValueType
  <2> HIDE DEF value, op
  <2>5. value.next \in (q + 1)..Len(ts) /\ value.val \in Values
    <3>1. q \in Nat
      BY <2>3
    <3> QED
      BY <1>0, <1>4, <2>4, <3>1, ReadsNext
  <2>6. value.next \in (p + 1)..Len(ts)
    BY <1>0, <2>2, <2>3, <2>5
  <2>7. [column |-> col.val, op |-> op, value |-> value.val] \in Condition
    BY <2>1, <2>2, <2>5 DEF Condition
  <2> QED
    BY <1>1, <1>4, <2>6, <2>7 DEF Reads
<1> QED
  BY <1>3, <1>4

\* A WHERE that was read has a condition.
SomeWhere == {w \in WhereClause : w.conditions # <<>>}

\* A condition in front of others.
LEMMA PrependConditionType ==
    ASSUME NEW n, n \in Nat, NEW p, p \in Nat, p # 0, NEW c, c.val \in Condition, NEW op \in LogicOp,
           NEW rest, Reads(rest, n, p, SomeWhere)
    PROVE  Reads(PrependCondition(c, op, rest), n, p, SomeWhere)
<1>1. CASE rest = Failed
  <2>1. Fails(rest)
    BY <1>1 DEF Fails, Failed
  <2>2. PrependCondition(c, op, rest) = Failed
    BY <2>1, Zenon DEF PrependCondition
  <2> QED
    BY <2>2, Zenon DEF Reads
<1>2. CASE rest # Failed
  <2>1. rest.next \in p..n /\ rest.val \in SomeWhere /\ ~Fails(rest)
    BY <1>2, ReadsForms
  <2> DEFINE a == rest.val.conditions
             b == rest.val.logic_ops
             x == <<c.val>> \o a
             y == <<op>> \o b
  <2>2. a \in Seq(Condition) /\ b \in Seq(LogicOp) /\ a # <<>> /\ Len(a) = Len(b) + 1
    BY <2>1 DEF SomeWhere, WhereClause
  <2> HIDE DEF a, b
  <2>3. x \in Seq(Condition) /\ Len(x) = Len(a) + 1 /\ x # <<>> /\ y \in Seq(LogicOp) /\ Len(y) = Len(b) + 1
    BY <2>2
  <2> HIDE DEF x, y
  <2>4. [conditions |-> x, logic_ops |-> y] \in SomeWhere
    BY <2>2, <2>3 DEF SomeWhere, WhereClause
  <2>5. PrependCondition(c, op, rest) = [next |-> rest.next, val |-> [conditions |-> x, logic_ops |-> y]]
    BY <2>1 DEF PrependCondition, a, b, x, y
  <2> QED
    BY <2>1, <2>4, <2>5 DEF Reads
<1> QED
  BY <1>1, <1>2

\* The conditions of a WHERE.
LEMMA WhereType ==
    ASSUME NEW ts, Readable(ts), NEW p, p \in 0..Len(ts)
    PROVE  Reads(ParseWhere(ts, p), Len(ts), p, WhereClause)
<1> DEFINE n == Len(ts)
           Cond(q) == ParseCondition(ts, q)
           More(q) == ts[Cond(q).next].type \in {"KW_AND", "KW_OR"}
           One(q) == [next |-> Cond(q).next, val |-> [conditions |-> <<Cond(q).val>>, logic_ops |-> <<>>]]
           R == {Failed} \cup [next : 1..n, val : SomeWhere]
           nxt == [q \in 1..n |-> IF ~Fails(Cond(q)) /\ More(q) THEN Advance(ts, Cond(q).next) ELSE 0]
           base == [q \in 1..n |-> IF Fails(Cond(q)) THEN Failed ELSE IF ~More(q) THEN One(q) ELSE Failed]
           Then(q, r) == PrependCondition(Cond(q), ts[Cond(q).next].type, r)
           step == [q \in 1..n |-> [r \in R |-> Then(q, r)]]
           Body(f, q) ==
               LET c == ParseCondition(ts, q) IN
               IF Fails(c) THEN Failed
               ELSE IF ts[c.next].type \notin {"KW_AND", "KW_OR"}
               THEN [next |-> c.next, val |-> [conditions |-> <<c.val>>, logic_ops |-> <<>>]]
               ELSE PrependCondition(c, ts[c.next].type, f[Advance(ts, c.next)])
           Eq(f) == f = [q \in 1..n |->
               LET c == ParseCondition(ts, q) IN
               IF Fails(c) THEN Failed
               ELSE IF ts[c.next].type \notin {"KW_AND", "KW_OR"}
               THEN [next |-> c.next, val |-> [conditions |-> <<c.val>>, logic_ops |-> <<>>]]
               ELSE PrependCondition(c, ts[c.next].type, f[Advance(ts, c.next)])]
           h == CHOOSE f : Eq(f)
<1>1. n \in Nat /\ n # 0
  BY ReadableForms
<1>2. ASSUME NEW q \in 1..n
      PROVE  /\ nxt[q] \in Int /\ base[q] \in R
             /\ nxt[q] > q => nxt[q] \in 1..n /\ Cond(q).val \in Condition /\ ts[Cond(q).next].type \in LogicOp
             /\ ~(nxt[q] > q) => Reads(base[q], n, q + 1, SomeWhere)
             /\ \A f : Body(f, q) = IF nxt[q] > q THEN Then(q, f[nxt[q]]) ELSE base[q]
  <2>1. Reads(Cond(q), n, q + 1, Condition) /\ q \in Nat
    BY ConditionType
  <2>2. CASE Fails(Cond(q))
    <3>1. nxt[q] = 0 /\ base[q] = Failed
      BY <2>2, Zenon
    <3>2. \A f : Body(f, q) = Failed
      BY <2>2, Zenon
    <3>3. ~(nxt[q] > q) /\ nxt[q] \in Int
      BY <1>1, <3>1
    <3>4. Failed \in R /\ Reads(Failed, n, q + 1, SomeWhere)
      BY Zenon DEF Reads
    <3> HIDE DEF nxt, base
    <3> QED
      BY <3>1, <3>2, <3>3, <3>4, Zenon
  <2>n. ~Fails(Cond(q)) => Cond(q).next \in 1..n /\ Cond(q).next \in (q + 1)..n /\ Cond(q).val \in Condition
    BY <1>1, <2>1, ReadsNext
  <2>3. CASE ~Fails(Cond(q)) /\ ~More(q)
    <3>1. nxt[q] = 0 /\ base[q] = One(q)
      BY <2>3, Zenon
    <3>2. \A f : Body(f, q) = One(q)
      BY <2>3, Zenon
    <3>3. ~(nxt[q] > q) /\ nxt[q] \in Int
      BY <1>1, <3>1
    <3> DEFINE v == <<Cond(q).val>>
               w == [conditions |-> v, logic_ops |-> <<>>]
               e == Cond(q).next
    <3>4. v \in Seq(Condition) /\ Len(v) = 1 /\ v # <<>> /\ e \in (q + 1)..n /\ e \in 1..n
      BY <2>3, <2>n
    <3> HIDE DEF v
    <3>5. w \in SomeWhere
      <4>1. <<>> \in Seq(LogicOp) /\ Len(<<>>) = 0
        OBVIOUS
      <4>2. w \in [conditions : Seq(Condition), logic_ops : Seq(LogicOp)] /\ w.conditions = v /\ w.logic_ops = <<>>
        BY <3>4, <4>1
      <4> HIDE DEF w
      <4>3. Len(w.conditions) = Len(w.logic_ops) + 1
        BY <3>4, <4>1, <4>2
      <4> QED
        BY <3>4, <4>2, <4>3, Zenon DEF SomeWhere, WhereClause
    <3>6. One(q) = [next |-> e, val |-> w]
      BY Zenon DEF v
    <3> HIDE DEF w, e, One
    <3>7. Reads(One(q), n, q + 1, SomeWhere) /\ One(q) \in R
      BY <3>4, <3>5, <3>6 DEF Reads
    <3> HIDE DEF nxt, base
    <3> QED
      BY <3>1, <3>2, <3>3, <3>7, Zenon
  <2>4. CASE ~Fails(Cond(q)) /\ More(q)
    <3>1. nxt[q] = Advance(ts, Cond(q).next) /\ base[q] = Failed
      BY <2>4, Zenon
    <3>2. \A f : Body(f, q) = Then(q, f[Advance(ts, Cond(q).next)])
      BY <2>4, Zenon
    <3>3. nxt[q] \in 1..n /\ nxt[q] > q /\ nxt[q] \in Int
      <4>1. Advance(ts, Cond(q).next) \in Cond(q).next..n
        BY <2>4, <2>n, AdvanceType
      <4>2. Cond(q).next \in (q + 1)..n
        BY <2>4, <2>n
      <4> HIDE DEF nxt, Cond
      <4> QED
        BY <3>1, <4>1, <4>2
    <3>4. Failed \in R /\ ts[Cond(q).next].type \in LogicOp
      BY <2>4, Zenon DEF LogicOp
    <3> HIDE DEF nxt, base, R
    <3> QED
      BY <2>4, <2>n, <3>1, <3>2, <3>3, <3>4, Zenon
  <2> QED
    BY <2>2, <2>3, <2>4, Zenon
<1> HIDE DEF nxt, base
<1>3. nxt \in [1..n -> Int] /\ base \in [1..n -> R]
  <2>1. nxt = [q \in 1..n |-> nxt[q]] /\ base = [q \in 1..n |-> base[q]]
    BY DEF nxt, base
  <2> HIDE DEF R
  <2>2. \A q \in 1..n : nxt[q] \in Int /\ base[q] \in R
    BY <1>2, Zenon
  <2> QED
    BY <2>1, <2>2
<1>4. \A q \in 1..n : nxt[q] > q => \A r \in R : step[q][r] = Then(q, r) /\ step[q][r] \in R
  <2> SUFFICES ASSUME NEW q \in 1..n, nxt[q] > q, NEW r \in R PROVE Then(q, r) \in R
    BY DEF step
  <2>1. Cond(q).val \in Condition /\ ts[Cond(q).next].type \in LogicOp
    BY <1>2, Zenon
  <2>2. Reads(r, n, 1, SomeWhere) /\ n \in Nat /\ 1 \in Nat /\ 1 # 0
    BY <1>1 DEF Reads
  <2>3. Reads(Then(q, r), n, 1, SomeWhere)
    <3> HIDE DEF n, Cond
    <3> QED
      BY <2>1, <2>2, PrependConditionType
  <2> HIDE DEF Then
  <2> QED
    BY <2>3 DEF Reads
<1> HIDE DEF step, R
<1>5. \A q \in 1..n : nxt[q] > q => /\ nxt[q] \in 1..n /\ nxt[q] \in (q + 1)..n /\ nxt[q] \in Nat /\ nxt[q] # 0
                                     /\ q \in Nat /\ q # 0 /\ q <= nxt[q]
  <2> SUFFICES ASSUME NEW q \in 1..n, nxt[q] > q, nxt[q] \in 1..n
               PROVE  /\ nxt[q] \in (q + 1)..n /\ nxt[q] \in Nat /\ nxt[q] # 0
                      /\ q \in Nat /\ q # 0 /\ q <= nxt[q]
    BY <1>2, Zenon
  <2> QED
    BY <1>1
<1>f. PICK f \in [1..n -> R] : Continues(f, 1, n, base, nxt, step)
  <2>1. 1 \in Int /\ n \in Int /\ \A q \in 1..n : nxt[q] > q => nxt[q] \in 1..n /\ \A r \in R : step[q][r] \in R
    BY <1>1, <1>4, <1>5
  <2> HIDE DEF n
  <2> QED
    BY <1>3, <2>1, Ahead, Zenon
<1>6. ASSUME NEW q \in 1..n PROVE f[q] = Body(f, q)
  <2>1. f[q] = IF nxt[q] > q THEN step[q][f[nxt[q]]] ELSE base[q]
    BY <1>f DEF Continues
  <2>2. nxt[q] > q => step[q][f[nxt[q]]] = Then(q, f[nxt[q]])
    <3> SUFFICES ASSUME nxt[q] > q PROVE step[q][f[nxt[q]]] = Then(q, f[nxt[q]])
      OBVIOUS
    <3>1. f[nxt[q]] \in R
      BY <1>5, <1>f
    <3> QED
      BY <1>4, <3>1, Zenon
  <2>3. f[q] = IF nxt[q] > q THEN Then(q, f[nxt[q]]) ELSE base[q]
    BY <2>1, <2>2, Zenon
  <2> QED
    BY <1>2, <2>3, Zenon
<1>7. Eq(f)
  <2>1. f = [q \in 1..n |-> f[q]]
    BY <1>f
  <2> QED
    BY <1>6, <2>1, Zenon
<1>8. Eq(h)
  BY <1>7, Zenon
<1> HIDE DEF h
<1>9. ASSUME NEW q \in 1..n PROVE h[q] = IF nxt[q] > q THEN Then(q, h[nxt[q]]) ELSE base[q]
  <2>1. h[q] = Body(h, q)
    BY <1>8, Zenon
  <2> QED
    BY <1>2, <2>1, Zenon
<1> DEFINE S == {q \in 1..n : Reads(h[q], n, q + 1, SomeWhere)}
<1>10. ASSUME NEW q \in 1..n, \A r \in (q + 1)..n : r \in S PROVE q \in S
  <2>1. CASE nxt[q] > q
    <3>1. nxt[q] \in (q + 1)..n /\ nxt[q] + 1 \in Nat /\ q + 1 \in Nat /\ q + 1 # 0 /\ q + 1 <= nxt[q] + 1
      BY <1>5, <2>1
    <3>2. Reads(h[nxt[q]], n, nxt[q] + 1, SomeWhere)
      BY <1>10, <3>1
    <3>3. Reads(h[nxt[q]], n, q + 1, SomeWhere)
      BY <1>1, <3>1, <3>2, ReadsMore
    <3>4. Cond(q).val \in Condition /\ ts[Cond(q).next].type \in LogicOp
      BY <1>2, <2>1, Zenon
    <3>5. Reads(Then(q, h[nxt[q]]), n, q + 1, SomeWhere)
      BY <1>1, <3>1, <3>3, <3>4, PrependConditionType
    <3> QED
      BY <1>9, <2>1, <3>5, Zenon
  <2>2. CASE ~(nxt[q] > q)
    BY <1>2, <1>9, <2>2, Zenon
  <2> QED
    BY <2>1, <2>2
<1>11. 1..n \subseteq S
  <2>1. 1 \in Int /\ n \in Int
    BY <1>1
  <2> HIDE DEF S, n
  <2> QED
    BY <1>10, <2>1, Downwards, Zenon
<1>12. ParseWhere(ts, p) = IF p = 0 THEN Failed ELSE IF ~Is(ts, p, "KW_WHERE") THEN [next |-> p, val |-> NoWhere]
                           ELSE h[Advance(ts, p)]
  BY DEF ParseWhere, h, n
<1>13. CASE p = 0
  BY <1>12, <1>13 DEF Reads
<1>14. CASE p # 0 /\ ~Is(ts, p, "KW_WHERE")
  <2>1. NoWhere \in WhereClause /\ p \in p..n
    BY <1>1 DEF NoWhere, WhereClause
  <2>2. ParseWhere(ts, p) = [next |-> p, val |-> NoWhere]
    BY <1>12, <1>14, Zenon
  <2> HIDE DEF n
  <2> QED
    BY <2>1, <2>2 DEF Reads, n
<1>15. CASE p # 0 /\ Is(ts, p, "KW_WHERE")
  <2> DEFINE q == Advance(ts, p)
  <2>1. q \in 1..n /\ q \in p..n /\ p \in Nat
    BY <1>1, <1>15, AdvanceType
  <2> HIDE DEF q
  <2>2. Reads(h[q], n, q + 1, SomeWhere)
    BY <1>11, <2>1
  <2>3. ParseWhere(ts, p) = h[q]
    BY <1>12, <1>15, Zenon DEF q
  <2>4. SomeWhere \subseteq WhereClause /\ p <= q + 1 /\ q + 1 \in Nat
    BY <2>1 DEF SomeWhere
  <2> QED
    BY <1>1, <2>1, <2>2, <2>3, <2>4, ReadsMore
<1> QED
  BY <1>13, <1>14, <1>15

\* ORDER BY, given or not.
LEMMA OrderType ==
    ASSUME NEW ts, Readable(ts), NEW p, p \in 0..Len(ts)
    PROVE  Reads(ParseOrder(ts, p), Len(ts), p, [by : Text, desc : BOOLEAN])
<1> DEFINE w == <<"KW_ORDER", "KW_BY">>
           at == Expect(ts, p, w)
           col == Name(ts, at)
           to == IF ts[col.next].type \in {"KW_ASC", "KW_DESC"} THEN Advance(ts, col.next) ELSE col.next
           d == Is(ts, col.next, "KW_DESC")
<1>0. Len(ts) \in Nat
  BY ReadableForms
<1>1. Words(w, 2) /\ w[2] # "END_OF_INPUT"
  BY WordsOf
<1>2. ParseOrder(ts, p) = IF p = 0 THEN Failed
                          ELSE IF ~Is(ts, p, "KW_ORDER") THEN [next |-> p, val |-> [by |-> <<>>, desc |-> FALSE]]
                          ELSE IF Fails(col) THEN Failed
                          ELSE [next |-> to, val |-> [by |-> col.val, desc |-> d]]
  BY DEF ParseOrder
<1> HIDE DEF w
<1>3. at \in 0..Len(ts) /\ at \in Nat /\ (at # 0 => at \in (p + 1)..Len(ts))
  BY <1>1, ExpectType
<1>4. CASE p = 0 \/ (Is(ts, p, "KW_ORDER") /\ Fails(col))
  <2>1. ParseOrder(ts, p) = Failed
    BY <1>2, <1>4, Zenon
  <2> QED
    BY <2>1 DEF Reads
<1>5. CASE p # 0 /\ ~Is(ts, p, "KW_ORDER")
  <2>1. [by |-> <<>>, desc |-> FALSE] \in [by : Text, desc : BOOLEAN] /\ p \in p..Len(ts)
    BY <1>0 DEF Text
  <2> QED
    BY <1>2, <1>5, <2>1 DEF Reads
<1>6. CASE p # 0 /\ Is(ts, p, "KW_ORDER") /\ ~Fails(col)
  <2>1. at # 0
    <3> SUFFICES ASSUME at = 0 PROVE FALSE
      OBVIOUS
    <3>1. col = Failed
      BY FailedStays
    <3> QED
      BY <1>6, <3>1 DEF Fails, Failed
  <2>2. Reads(col, Len(ts), at + 1, Text)
    BY <1>3, NameType
  <2> HIDE DEF col
  <2>3. col.next \in 1..Len(ts) /\ col.next \in (at + 1)..Len(ts) /\ col.val \in Text
    BY <1>0, <1>3, <1>6, <2>2, ReadsNext
  <2>4. to \in col.next..Len(ts)
    <3>1. Advance(ts, col.next) \in col.next..Len(ts)
      BY <2>3, AdvanceType
    <3> QED
      BY <1>0, <2>3, <3>1
  <2>5. d \in BOOLEAN
    BY DEF Is
  <2> HIDE DEF to, d, at
  <2>6. to \in p..Len(ts)
    BY <1>0, <1>3, <2>1, <2>3, <2>4
  <2>7. ParseOrder(ts, p) = [next |-> to, val |-> [by |-> col.val, desc |-> d]]
    BY <1>2, <1>6, Zenon
  <2> QED
    BY <2>3, <2>5, <2>6, <2>7 DEF Reads
<1> QED
  BY <1>4, <1>5, <1>6

\* LIMIT, given or not.
LEMMA LimitType ==
    ASSUME NEW ts, Readable(ts), NEW p, p \in 0..Len(ts)
    PROVE  Reads(ParseLimit(ts, p), Len(ts), p, Int)
<1> DEFINE q == Advance(ts, p)
           Give(n) == [next |-> Advance(ts, q), val |-> n]
           v == ts[q].value
           lit == CASE Is(ts, q, "INTEGER_LIT") -> Give(v)
                    [] Is(ts, q, "FLOAT_LIT") -> Give(Truncated(v))
                    [] Is(ts, q, "STRING_LIT") -> IF IsNumber(v) THEN Give(Stoll(v)) ELSE Failed
                    [] OTHER -> Failed
<1>0. Len(ts) \in Nat
  BY ReadableForms
<1>1. ParseLimit(ts, p) = IF p = 0 THEN Failed ELSE IF ~Is(ts, p, "KW_LIMIT") THEN [next |-> p, val |-> -1] ELSE lit
  BY DEF ParseLimit
<1>2. CASE p = 0
  BY <1>1, <1>2 DEF Reads
<1>3. CASE p # 0 /\ ~Is(ts, p, "KW_LIMIT")
  <2>1. p \in p..Len(ts) /\ -1 \in Int
    BY <1>0
  <2>2. ParseLimit(ts, p) = [next |-> p, val |-> -1]
    BY <1>1, <1>3, Zenon
  <2> QED
    BY <2>1, <2>2 DEF Reads
<1>4. CASE p # 0 /\ Is(ts, p, "KW_LIMIT")
  <2>1. p \in 1..Len(ts) /\ q \in 1..Len(ts) /\ q \in p..Len(ts)
    BY <1>0, <1>4, AdvanceType
  <2>2. ts[q] \in Tokens
    BY <2>1, ReadableForms
  <2>3. Advance(ts, q) \in p..Len(ts)
    <3>1. Advance(ts, q) \in q..Len(ts)
      BY <2>1, AdvanceType
    <3> HIDE DEF q
    <3> QED
      BY <1>0, <2>1, <3>1
  <2> HIDE DEF q
  <2>4. ASSUME NEW n \in Int PROVE Reads(Give(n), Len(ts), p, Int)
    BY <2>3 DEF Reads
  <2>5. Reads(Failed, Len(ts), p, Int)
    BY DEF Reads
  <2>6. Reads(lit, Len(ts), p, Int)
    <3>1. CASE ts[q].type = "INTEGER_LIT"
      <4>1. v \in Int /\ lit = Give(v)
        BY <2>2, <3>1, TokenValues DEF Is
      <4> QED
        BY <2>4, <4>1, Zenon
    <3>2. CASE ts[q].type = "FLOAT_LIT"
      <4>1. v \in Int /\ lit = Give(Truncated(v))
        BY <2>2, <3>2, TokenValues DEF Is
      <4>2. Truncated(v) \in Int
        BY <4>1 DEF Truncated
      <4> QED
        BY <2>4, <4>1, <4>2, Zenon
    <3>3. CASE ts[q].type = "STRING_LIT"
      <4>1. v \in Text /\ lit = IF IsNumber(v) THEN Give(Stoll(v)) ELSE Failed
        BY <2>2, <3>3, TokenValues DEF Is
      <4>2. Stoll(v) \in Int
        BY <4>1, StollType
      <4> QED
        BY <2>4, <2>5, <4>1, <4>2, Zenon
    <3>4. CASE ts[q].type \notin {"INTEGER_LIT", "FLOAT_LIT", "STRING_LIT"}
      <4>1. lit = Failed
        BY <3>4 DEF Is
      <4> QED
        BY <2>5, <4>1
    <3> QED
      BY <3>1, <3>2, <3>3, <3>4
  <2> QED
    BY <1>1, <1>4, <2>6, Zenon
<1> QED
  BY <1>2, <1>3, <1>4

\* An assignment is read as one.
LEMMA AssignmentType ==
    ASSUME NEW ts, Readable(ts), NEW p, p \in 1..Len(ts)
    PROVE  Reads(ParseAssignment(ts, p), Len(ts), p + 1, Assignment)
<1> DEFINE col == Name(ts, p)
           w == <<"OP_EQ">>
           eq == Expect(ts, col.next, w)
           value == IF eq = 0 THEN Failed ELSE ParseValue(ts, eq)
<1>0. Len(ts) \in Nat /\ p \in Nat /\ p \in 0..Len(ts)
  BY ReadableForms
<1>1. Words(w, 1) /\ w[1] # "END_OF_INPUT"
  BY WordsOf
<1>2. ParseAssignment(ts, p) = IF Fails(value) THEN Failed
                               ELSE [next |-> value.next, val |-> [column |-> col.val, value |-> value.val]]
  BY DEF ParseAssignment
<1>3. Reads(col, Len(ts), p + 1, Text)
  BY <1>0, NameType
<1> HIDE DEF col, w
<1>4. CASE Fails(value)
  BY <1>2, <1>4 DEF Reads
<1>5. CASE ~Fails(value)
  <2>1. eq # 0 /\ value = ParseValue(ts, eq)
    BY <1>5 DEF Fails, Failed
  <2>2. col.next \in 0..Len(ts)
    BY <1>0, <1>3, ReadsNext
  <2>3. col.next # 0 /\ eq = col.next + 1 /\ eq \in (col.next + 1)..Len(ts)
    BY <1>1, <2>1, <2>2, ExpectType
  <2>4. col.next \in (p + 1)..Len(ts) /\ col.val \in Text
    BY <1>0, <1>3, <2>3, ReadsNext
  <2> HIDE DEF eq
  <2>5. eq \in 1..Len(ts) /\ eq \in Nat /\ p <= eq
    BY <1>0, <2>3, <2>4
  <2>6. Reads(value, Len(ts), eq + 1, Values)
    BY <2>1, <2>5, ValueType
  <2> HIDE DEF value
  <2>7. value.next \in (eq + 1)..Len(ts) /\ value.val \in Values
    BY <1>0, <1>5, <2>5, <2>6, ReadsNext
  <2>8. value.next \in (p + 1)..Len(ts)
    BY <1>0, <2>5, <2>7
  <2>9. [column |-> col.val, value |-> value.val] \in Assignment
    BY <2>4, <2>7 DEF Assignment
  <2> QED
    BY <1>2, <1>5, <2>8, <2>9 DEF Reads
<1> QED
  BY <1>4, <1>5

\* Something of A in front of a position that can be read on from, or an error.
Given(x, n, A) == x.next \in 0..n /\ (Fails(x) <=> x.next = 0) /\ (x.next # 0 => x.next \in 1..n /\ x.val \in A)

\* What is read from a position on is given.
LEMMA GivenOf ==
    ASSUME NEW n, n \in Nat, NEW p, p \in Nat, NEW A, NEW x, Reads(x, n, p, A), p # 0 \/ x = Failed
    PROVE  Given(x, n, A)
<1>1. Failed.next = 0
  BY DEF Failed
<1>2. CASE x = Failed
  BY <1>1, <1>2 DEF Given, Fails
<1>3. CASE x # Failed
  <2>1. p # 0
    BY <1>3
  <2>2. x.next \in p..n /\ x.val \in A /\ x.next # 0
    BY <1>3, <2>1, ReadsForms
  <2> QED
    BY <2>1, <2>2 DEF Given, Fails
<1> QED
  BY <1>2, <1>3

\* A name behind some words.
LEMMA NameAfter ==
    ASSUME NEW ts, Readable(ts), NEW p, p \in 0..Len(ts), NEW types, NEW n, Words(types, n),
           types[n] # "END_OF_INPUT"
    PROVE  /\ Given(Name(ts, Expect(ts, p, types)), Len(ts), Text)
           /\ Name(ts, Expect(ts, p, types)).next # 0 => p # 0
<1> DEFINE at == Expect(ts, p, types)
<1>1. at \in 0..Len(ts) /\ (at # 0 => p # 0) /\ Len(ts) \in Nat
  BY ExpectType, ReadableForms
<1> HIDE DEF at
<1>2. at + 1 \in Nat /\ at + 1 # 0 /\ Reads(Name(ts, at), Len(ts), at + 1, Text)
  BY <1>1, NameType
<1>3. Given(Name(ts, at), Len(ts), Text)
  BY <1>1, <1>2, GivenOf
<1>4. Name(ts, at).next # 0 => p # 0
  <2>1. Name(ts, 0) = Failed /\ Failed.next = 0
    BY FailedStays DEF Failed
  <2> QED
    BY <1>1, <2>1
<1> QED
  BY <1>3, <1>4 DEF at

\* The rest of a statement behind a name that may be missing.
LEMMA WhereGiven ==
    ASSUME NEW ts, Readable(ts), NEW p, p \in 0..Len(ts)
    PROVE  /\ Given(ParseWhere(ts, p), Len(ts), WhereClause) /\ (ParseWhere(ts, p).next # 0 => p # 0)
           /\ Given(ParseOrder(ts, p), Len(ts), [by : Text, desc : BOOLEAN]) /\ (ParseOrder(ts, p).next # 0 => p # 0)
           /\ Given(ParseLimit(ts, p), Len(ts), Int) /\ (ParseLimit(ts, p).next # 0 => p # 0)
<1>1. p \in Nat /\ Len(ts) \in Nat /\ Failed.next = 0
  BY ReadableForms DEF Failed
<1>2. p = 0 => ParseWhere(ts, p) = Failed /\ ParseOrder(ts, p) = Failed /\ ParseLimit(ts, p) = Failed
  BY FailedStays
<1>3. Given(ParseWhere(ts, p), Len(ts), WhereClause)
  BY <1>1, <1>2, WhereType, GivenOf
<1>4. Given(ParseOrder(ts, p), Len(ts), [by : Text, desc : BOOLEAN])
  BY <1>1, <1>2, OrderType, GivenOf
<1>5. Given(ParseLimit(ts, p), Len(ts), Int)
  BY <1>1, <1>2, LimitType, GivenOf
<1> QED
  BY <1>1, <1>2, <1>3, <1>4, <1>5

\* A list in parentheses, where the words in front of it may have failed.
LEMMA ParenGiven ==
    ASSUME NEW ts, Readable(ts), NEW A, NEW item, \A q \in 1..Len(ts) : Reads(item[q], Len(ts), q + 1, A),
           NEW p, p \in 0..Len(ts)
    PROVE  Given(ParenList(ts, p, item), Len(ts), Seq(A)) /\ (ParenList(ts, p, item).next # 0 => p # 0)
<1>1. p + 1 \in Nat /\ p + 1 # 0 /\ Len(ts) \in Nat /\ Failed.next = 0
  BY ReadableForms DEF Failed
<1>2. p = 0 => ParenList(ts, p, item) = Failed
  BY FailedStays
<1>3. Given(ParenList(ts, p, item), Len(ts), Seq(A))
  BY <1>1, ParenListType, GivenOf
<1> QED
  BY <1>1, <1>2, <1>3

\* A list with commas, where the words in front of it may have failed.
LEMMA CommaGiven ==
    ASSUME NEW ts, Readable(ts), NEW A, NEW item, \A q \in 1..Len(ts) : Reads(item[q], Len(ts), q + 1, A),
           NEW p, p \in 0..Len(ts)
    PROVE  Given(CommaList(ts, p, item), Len(ts), Seq(A)) /\ (CommaList(ts, p, item).next # 0 => p # 0)
<1>1. p + 1 \in Nat /\ p + 1 # 0 /\ Len(ts) \in Nat /\ Failed.next = 0
  BY ReadableForms DEF Failed
<1>2. p = 0 => CommaList(ts, p, item) = Failed
  BY FailedStays
<1>3. Given(CommaList(ts, p, item), Len(ts), Seq(A))
  BY <1>1, CommaListType, GivenOf
<1> QED
  BY <1>1, <1>2, <1>3

\* The names of a list.
LEMMA NamesRead ==
    ASSUME NEW ts, Readable(ts)
    PROVE  \A q \in 1..Len(ts) : Reads(Names(ts)[q], Len(ts), q + 1, Text)
<1> SUFFICES ASSUME NEW q \in 1..Len(ts) PROVE Reads(Names(ts)[q], Len(ts), q + 1, Text)
  OBVIOUS
<1>1. Names(ts)[q] = Name(ts, q)
  BY DEF Names
<1>2. q \in 0..Len(ts)
  BY ReadableForms
<1> QED
  BY <1>1, <1>2, NameType

\* What a parser of statements gives: an error or a statement of its kind.
Makes(x, kind) == Fails(x) \/ (x.val \in Statement /\ x.val.kind = kind)

\* An error makes any statement.
LEMMA FailedMakes == \A kind : Makes(Failed, kind)
  BY DEF Makes, Fails, Failed

\* parse_drop_table() makes a DROP or throws.
LEMMA DropMakes ==
    ASSUME NEW ts, Readable(ts)
    PROVE  Makes(ParseDropTable(ts, 1), "drop")
<1> DEFINE w == <<"KW_DROP", "KW_TABLE">>
           v == <<"KW_IF", "KW_EXISTS">>
           table == Expect(ts, 1, w)
           if == table # 0 /\ Is(ts, table, "KW_IF")
           at == IF if THEN Expect(ts, table, v) ELSE table
           name == Name(ts, at)
<1>1. Words(w, 2) /\ w[2] # "END_OF_INPUT" /\ Words(v, 2) /\ v[2] # "END_OF_INPUT"
  BY WordsOf
<1>2. ParseDropTable(ts, 1) = IF Fails(name) THEN Failed
          ELSE [next |-> name.next, val |-> [kind |-> "drop", table_name |-> name.val, if_exists |-> if]]
  BY DEF ParseDropTable
<1> HIDE DEF w, v
<1>3. Len(ts) \in Nat /\ 1 \in 0..Len(ts)
  BY ReadableForms
<1>4. table \in 0..Len(ts)
  BY <1>1, <1>3, ExpectType
<1> HIDE DEF table
<1>5. at \in 0..Len(ts)
  BY <1>1, <1>4, ExpectType
<1>6. if \in BOOLEAN
  BY DEF Is
<1> HIDE DEF at, if
<1>7. Given(name, Len(ts), Text)
  <2>1. at + 1 \in Nat /\ at + 1 # 0 /\ Reads(name, Len(ts), at + 1, Text)
    BY <1>5, NameType
  <2> QED
    BY <1>3, <2>1, GivenOf
<1> HIDE DEF name
<1>8. CASE Fails(name)
  BY <1>2, <1>8, FailedMakes
<1>9. CASE ~Fails(name)
  <2>1. name.val \in Text
    BY <1>7, <1>9 DEF Given
  <2>2. [kind |-> "drop", table_name |-> name.val, if_exists |-> if] \in Statement
    BY <1>6, <2>1 DEF Statement
  <2> QED
    BY <1>2, <1>9, <2>2 DEF Makes
<1> QED
  BY <1>8, <1>9

\* parse_delete() makes a DELETE or throws.
LEMMA DeleteMakes ==
    ASSUME NEW ts, Readable(ts)
    PROVE  Makes(ParseDelete(ts, 1), "delete")
<1> DEFINE w == <<"KW_DELETE", "KW_FROM">>
           name == Name(ts, Expect(ts, 1, w))
           where == ParseWhere(ts, name.next)
<1>1. Words(w, 2) /\ w[2] # "END_OF_INPUT"
  BY WordsOf
<1>2. ParseDelete(ts, 1) = IF Fails(where) THEN Failed
          ELSE [next |-> where.next, val |-> [kind |-> "delete", table_name |-> name.val, where |-> where.val]]
  BY DEF ParseDelete
<1> HIDE DEF w
<1>3. Len(ts) \in Nat /\ 1 \in 0..Len(ts)
  BY ReadableForms
<1>4. Given(name, Len(ts), Text)
  BY <1>1, <1>3, NameAfter
<1> HIDE DEF name
<1>5. Given(where, Len(ts), WhereClause) /\ (where.next # 0 => name.next # 0)
  <2>1. name.next \in 0..Len(ts)
    BY <1>4 DEF Given
  <2> QED
    BY <2>1, WhereGiven
<1> HIDE DEF where
<1>6. CASE Fails(where)
  BY <1>2, <1>6, FailedMakes
<1>7. CASE ~Fails(where)
  <2>1. name.val \in Text /\ where.val \in WhereClause
    BY <1>4, <1>5, <1>7 DEF Given
  <2>2. [kind |-> "delete", table_name |-> name.val, where |-> where.val] \in Statement
    BY <2>1 DEF Statement
  <2> QED
    BY <1>2, <1>7, <2>2 DEF Makes
<1> QED
  BY <1>6, <1>7

\* SHOW TABLES and DESCRIBE make what they say or throw.
LEMMA ShowDescribeMake ==
    ASSUME NEW ts, Readable(ts)
    PROVE  Makes(ParseShowTables(ts, 1), "show") /\ Makes(ParseDescribe(ts, 1), "describe")
<1>1. Makes(ParseShowTables(ts, 1), "show")
  <2>1. [kind |-> "show"] \in Statement
    BY DEF Statement
  <2>2. ParseShowTables(ts, 1) = Failed \/ \E e : ParseShowTables(ts, 1) = [next |-> e, val |-> [kind |-> "show"]]
    BY DEF ParseShowTables
  <2> QED
    BY <2>1, <2>2, FailedMakes DEF Makes
<1>2. Makes(ParseDescribe(ts, 1), "describe")
  <2> DEFINE w == <<"KW_DESCRIBE">>
             name == Name(ts, Expect(ts, 1, w))
  <2>1. Words(w, 1) /\ w[1] # "END_OF_INPUT"
    BY WordsOf
  <2>2. ParseDescribe(ts, 1) = IF Fails(name) THEN Failed
            ELSE [next |-> name.next, val |-> [kind |-> "describe", table_name |-> name.val]]
    BY DEF ParseDescribe
  <2> HIDE DEF w
  <2>3. Len(ts) \in Nat /\ 1 \in 0..Len(ts)
    BY ReadableForms
  <2>4. Given(name, Len(ts), Text)
    BY <2>1, <2>3, NameAfter
  <2> HIDE DEF name
  <2>5. CASE Fails(name)
    BY <2>2, <2>5, FailedMakes
  <2>6. CASE ~Fails(name)
    <3>1. name.val \in Text
      BY <2>4, <2>6 DEF Given
    <3>2. [kind |-> "describe", table_name |-> name.val] \in Statement
      BY <3>1 DEF Statement
    <3> QED
      BY <2>2, <2>6, <3>2 DEF Makes
  <2> QED
    BY <2>5, <2>6
<1> QED
  BY <1>1, <1>2

\* parse_update() makes an UPDATE or throws.
LEMMA UpdateMakes ==
    ASSUME NEW ts, Readable(ts)
    PROVE  Makes(ParseUpdate(ts, 1), "update")
<1> DEFINE w == <<"KW_UPDATE">>
           v == <<"KW_SET">>
           name == Name(ts, Expect(ts, 1, w))
           assignment == [q \in 1..Len(ts) |-> ParseAssignment(ts, q)]
           at == Expect(ts, name.next, v)
           sets == CommaList(ts, at, assignment)
           where == ParseWhere(ts, sets.next)
           s == [kind |-> "update", table_name |-> name.val, assignments |-> sets.val, where |-> where.val]
<1>1. Words(w, 1) /\ w[1] # "END_OF_INPUT" /\ Words(v, 1) /\ v[1] # "END_OF_INPUT"
  BY WordsOf
<1>2. ParseUpdate(ts, 1) = IF Fails(where) THEN Failed ELSE [next |-> where.next, val |-> s]
  BY DEF ParseUpdate
<1> HIDE DEF w, v
<1>3. Len(ts) \in Nat /\ 1 \in 0..Len(ts)
  BY ReadableForms
<1>4. Given(name, Len(ts), Text)
  BY <1>1, <1>3, NameAfter
<1> HIDE DEF name
<1>5. at \in 0..Len(ts) /\ (at # 0 => name.next # 0)
  <2>1. name.next \in 0..Len(ts)
    BY <1>4 DEF Given
  <2> QED
    BY <1>1, <2>1, ExpectType
<1>6. \A q \in 1..Len(ts) : Reads(assignment[q], Len(ts), q + 1, Assignment)
  <2> SUFFICES ASSUME NEW q \in 1..Len(ts) PROVE Reads(assignment[q], Len(ts), q + 1, Assignment)
    OBVIOUS
  <2>1. assignment[q] = ParseAssignment(ts, q)
    OBVIOUS
  <2> QED
    BY <2>1, AssignmentType
<1> HIDE DEF assignment, at
<1>7. Given(sets, Len(ts), Seq(Assignment)) /\ (sets.next # 0 => at # 0)
  BY <1>5, <1>6, CommaGiven
<1> HIDE DEF sets
<1>8. Given(where, Len(ts), WhereClause) /\ (where.next # 0 => sets.next # 0)
  <2>1. sets.next \in 0..Len(ts)
    BY <1>7 DEF Given
  <2> QED
    BY <2>1, WhereGiven
<1> HIDE DEF where
<1>9. CASE Fails(where)
  BY <1>2, <1>9, FailedMakes
<1>10. CASE ~Fails(where)
  <2>1. name.val \in Text /\ sets.val \in Seq(Assignment) /\ where.val \in WhereClause
    BY <1>4, <1>5, <1>7, <1>8, <1>10 DEF Given
  <2>2. s \in Statement /\ s.kind = "update"
    BY <2>1 DEF Statement
  <2> HIDE DEF s
  <2> QED
    BY <1>2, <1>10, <2>2 DEF Makes
<1> QED
  BY <1>9, <1>10

\* parse_insert() makes an INSERT or throws.
LEMMA InsertMakes ==
    ASSUME NEW ts, Readable(ts)
    PROVE  Makes(ParseInsert(ts, 1), "insert")
<1> DEFINE w == <<"KW_INSERT", "KW_INTO">>
           v == <<"KW_VALUES", "LPAREN">>
           name == Name(ts, Expect(ts, 1, w))
           cols == IF Fails(name) THEN Failed
                   ELSE IF Is(ts, name.next, "LPAREN") THEN ParenList(ts, Advance(ts, name.next), Names(ts))
                   ELSE [next |-> name.next, val |-> <<>>]
           value == [q \in 1..Len(ts) |-> ParseValue(ts, q)]
           at == Expect(ts, cols.next, v)
           values == ParenList(ts, at, value)
           s == [kind |-> "insert", table_name |-> name.val, columns |-> cols.val, values |-> values.val]
<1>1. Words(w, 2) /\ w[2] # "END_OF_INPUT" /\ Words(v, 2) /\ v[2] # "END_OF_INPUT"
  BY WordsOf
<1>2. ParseInsert(ts, 1) = IF Fails(values) THEN Failed ELSE [next |-> values.next, val |-> s]
  BY DEF ParseInsert
<1> HIDE DEF w, v
<1>3. Len(ts) \in Nat /\ 1 \in 0..Len(ts) /\ Failed.next = 0
  BY ReadableForms DEF Failed
<1>4. Given(name, Len(ts), Text)
  BY <1>1, <1>3, NameAfter
<1> HIDE DEF name
<1>5. Given(cols, Len(ts), Seq(Text)) /\ (cols.next # 0 => name.next # 0)
  <2>1. CASE Fails(name)
    <3>1. cols = Failed
      BY <2>1, Zenon
    <3> HIDE DEF cols
    <3> QED
      BY <1>3, <3>1 DEF Given, Fails
  <2>2. CASE ~Fails(name) /\ Is(ts, name.next, "LPAREN")
    <3> DEFINE q == Advance(ts, name.next)
    <3>1. name.next \in 1..Len(ts) /\ name.next # 0
      BY <1>4, <2>2 DEF Given
    <3>2. q \in 0..Len(ts)
      BY <3>1, AdvanceType
    <3>3. cols = ParenList(ts, q, Names(ts))
      BY <2>2, Zenon
    <3> HIDE DEF q, cols
    <3> QED
      BY <3>1, <3>2, <3>3, NamesRead, ParenGiven
  <2>3. CASE ~Fails(name) /\ ~Is(ts, name.next, "LPAREN")
    <3>1. cols = [next |-> name.next, val |-> <<>>]
      BY <2>3, Zenon
    <3>2. <<>> \in Seq(Text) /\ name.next \in 1..Len(ts) /\ name.next # 0 /\ name.next \in 0..Len(ts)
      BY <1>4, <2>3 DEF Given
    <3> HIDE DEF cols
    <3> QED
      BY <3>1, <3>2 DEF Given, Fails
  <2> QED
    BY <2>1, <2>2, <2>3
<1> HIDE DEF cols
<1>6. at \in 0..Len(ts) /\ (at # 0 => cols.next # 0)
  <2>1. cols.next \in 0..Len(ts)
    BY <1>5 DEF Given
  <2> QED
    BY <1>1, <2>1, ExpectType
<1>7. \A q \in 1..Len(ts) : Reads(value[q], Len(ts), q + 1, Values)
  <2> SUFFICES ASSUME NEW q \in 1..Len(ts) PROVE Reads(value[q], Len(ts), q + 1, Values)
    OBVIOUS
  <2>1. value[q] = ParseValue(ts, q)
    OBVIOUS
  <2> QED
    BY <2>1, ValueType
<1> HIDE DEF value, at
<1>8. Given(values, Len(ts), Seq(Values)) /\ (values.next # 0 => at # 0)
  BY <1>6, <1>7, ParenGiven
<1> HIDE DEF values
<1>9. CASE Fails(values)
  BY <1>2, <1>9, FailedMakes
<1>10. CASE ~Fails(values)
  <2>1. name.val \in Text /\ cols.val \in Seq(Text) /\ values.val \in Seq(Values)
    BY <1>4, <1>5, <1>6, <1>8, <1>10 DEF Given
  <2>2. s \in Statement /\ s.kind = "insert"
    BY <2>1 DEF Statement
  <2> HIDE DEF s
  <2> QED
    BY <1>2, <1>10, <2>2 DEF Makes
<1> QED
  BY <1>9, <1>10

\* parse_select() makes a SELECT or throws.
LEMMA SelectMakes ==
    ASSUME NEW ts, Readable(ts)
    PROVE  Makes(ParseSelect(ts, 1), "select")
<1> DEFINE w == <<"KW_SELECT">>
           v == <<"KW_FROM">>
           select == Expect(ts, 1, w)
           star == select # 0 /\ Is(ts, select, "STAR")
           cols == IF star THEN [next |-> Advance(ts, select), val |-> <<>>] ELSE CommaList(ts, select, Names(ts))
           name == Name(ts, Expect(ts, cols.next, v))
           where == ParseWhere(ts, name.next)
           order == ParseOrder(ts, where.next)
           limit == ParseLimit(ts, order.next)
           s == [kind |-> "select", table_name |-> name.val, columns |-> cols.val, where |-> where.val,
                 order_by |-> order.val.by, order_desc |-> order.val.desc, limit |-> limit.val]
<1>1. Words(w, 1) /\ w[1] # "END_OF_INPUT" /\ Words(v, 1) /\ v[1] # "END_OF_INPUT"
  BY WordsOf
<1>2. ParseSelect(ts, 1) = IF Fails(limit) THEN Failed ELSE [next |-> limit.next, val |-> s]
  BY DEF ParseSelect
<1> HIDE DEF w, v
<1>3. Len(ts) \in Nat /\ 1 \in 0..Len(ts)
  BY ReadableForms
<1>4. select \in 0..Len(ts)
  BY <1>1, <1>3, ExpectType
<1> HIDE DEF select
<1>5. Given(cols, Len(ts), Seq(Text))
  <2>1. CASE star
    <3> DEFINE q == Advance(ts, select)
    <3>1. select \in 1..Len(ts)
      BY <1>4, <2>1
    <3>2. q \in 1..Len(ts)
      BY <3>1, AdvanceType
    <3>3. cols = [next |-> q, val |-> <<>>] /\ <<>> \in Seq(Text)
      BY <2>1
    <3> HIDE DEF q, cols
    <3> QED
      BY <1>3, <3>2, <3>3 DEF Given, Fails
  <2>2. CASE ~star
    <3>1. cols = CommaList(ts, select, Names(ts))
      BY <2>2, Zenon
    <3> HIDE DEF cols
    <3> QED
      BY <1>4, <3>1, NamesRead, CommaGiven
  <2> QED
    BY <2>1, <2>2
<1> HIDE DEF cols
<1>6. Given(name, Len(ts), Text) /\ (name.next # 0 => cols.next # 0)
  <2>1. cols.next \in 0..Len(ts)
    BY <1>5 DEF Given
  <2> QED
    BY <1>1, <2>1, NameAfter
<1> HIDE DEF name
<1>7. Given(where, Len(ts), WhereClause) /\ (where.next # 0 => name.next # 0)
  <2>1. name.next \in 0..Len(ts)
    BY <1>6 DEF Given
  <2> QED
    BY <2>1, WhereGiven
<1> HIDE DEF where
<1>8. Given(order, Len(ts), [by : Text, desc : BOOLEAN]) /\ (order.next # 0 => where.next # 0)
  <2>1. where.next \in 0..Len(ts)
    BY <1>7 DEF Given
  <2> QED
    BY <2>1, WhereGiven
<1> HIDE DEF order
<1>9. Given(limit, Len(ts), Int) /\ (limit.next # 0 => order.next # 0)
  <2>1. order.next \in 0..Len(ts)
    BY <1>8 DEF Given
  <2> QED
    BY <2>1, WhereGiven
<1> HIDE DEF limit
<1>10. CASE Fails(limit)
  BY <1>2, <1>10, FailedMakes
<1>11. CASE ~Fails(limit)
  <2>1. /\ name.val \in Text /\ cols.val \in Seq(Text) /\ where.val \in WhereClause
        /\ order.val \in [by : Text, desc : BOOLEAN] /\ limit.val \in Int
    BY <1>5, <1>6, <1>7, <1>8, <1>9, <1>11 DEF Given
  <2>2. order.val.by \in Text /\ order.val.desc \in BOOLEAN
    BY <2>1
  <2>3. s \in Statement /\ s.kind = "select"
    BY <2>1, <2>2 DEF Statement
  <2> HIDE DEF s
  <2> QED
    BY <1>2, <1>11, <2>3 DEF Makes
<1> QED
  BY <1>10, <1>11

\* Marking keeps a column a column and makes the primary key NOT NULL.
LEMMA MarkedColumn ==
    ASSUME NEW col, col \in ColumnDef, NEW pk
    PROVE  /\ MarkPrimaryKey(col, pk) \in ColumnDef
           /\ pk # <<>> /\ MarkPrimaryKey(col, pk).name = pk => MarkPrimaryKey(col, pk).not_null
<1>1. CASE pk # <<>> /\ col.name = pk
  <2>1. MarkPrimaryKey(col, pk) = [col EXCEPT !.is_primary_key = TRUE, !.not_null = TRUE]
    BY <1>1 DEF MarkPrimaryKey
  <2> QED
    BY <2>1 DEF ColumnDef
<1>2. CASE ~(pk # <<>> /\ col.name = pk)
  BY <1>2 DEF MarkPrimaryKey
<1> QED
  BY <1>1, <1>2

\* The statement that a name and a list of columns give.
LEMMA CreateStmtType ==
    ASSUME NEW name, name.val \in Text, NEW list, ~Fails(list), list.val \in Seq(ListItem)
    PROVE  LET s == CreateTableStmt(name, list).val
           IN  s \in Statement /\ s.kind = "create" /\ (s.primary_key # <<>> => KeyMarked(s))
<1> DEFINE cols == ColumnsOf(list.val)
           pk == PrimaryKey(list.val)
           marked == [i \in DOMAIN cols |-> MarkPrimaryKey(cols[i], pk)]
           s == CreateTableStmt(name, list).val
<1>1. s = [kind |-> "create", table_name |-> name.val, primary_key |-> pk, columns |-> marked]
  BY DEF CreateTableStmt
<1>2. cols \in Seq(ColumnDef) /\ pk \in Text
  BY ColumnsOfType, PrimaryKeyType
<1> HIDE DEF cols, pk, s
<1>3. ASSUME NEW i \in DOMAIN cols
      PROVE  /\ marked[i] \in ColumnDef
             /\ pk # <<>> /\ marked[i].name = pk => marked[i].not_null
  <2>1. cols[i] \in ColumnDef /\ marked[i] = MarkPrimaryKey(cols[i], pk)
    BY <1>2
  <2> QED
    BY <2>1, MarkedColumn
<1>4. marked \in Seq(ColumnDef) /\ DOMAIN marked = DOMAIN cols
  BY <1>2, <1>3
<1> HIDE DEF marked
<1>5. s \in Statement /\ s.kind = "create"
  BY <1>1, <1>2, <1>4 DEF Statement
<1>6. ASSUME s.primary_key # <<>> PROVE KeyMarked(s)
  <2>1. s.primary_key = pk /\ s.columns = marked
    BY <1>1
  <2> QED
    BY <1>3, <1>4, <1>6, <2>1 DEF KeyMarked
<1> QED
  BY <1>5, <1>6 DEF s

\* parse_create_table() throws or makes a CREATE whose primary key, if there is one, is NOT NULL.
LEMMA CreateMakes ==
    ASSUME NEW ts, Readable(ts)
    PROVE  LET r == ParseCreateTable(ts, 1)
           IN  Makes(r, "create") /\ (~Fails(r) /\ r.val.primary_key # <<>> => KeyMarked(r.val))
<1> DEFINE w == <<"KW_CREATE", "KW_TABLE">>
           v == <<"LPAREN">>
           name == Name(ts, Expect(ts, 1, w))
           column == [q \in 1..Len(ts) |-> ParseColumn(ts, q)]
           at == Expect(ts, name.next, v)
           list == ParenList(ts, at, column)
           r == ParseCreateTable(ts, 1)
<1>1. Words(w, 2) /\ w[2] # "END_OF_INPUT" /\ Words(v, 1) /\ v[1] # "END_OF_INPUT"
  BY WordsOf
<1>2. r = CreateTableStmt(name, list)
  BY DEF ParseCreateTable
<1> HIDE DEF w, v, r
<1>3. Len(ts) \in Nat /\ 1 \in 0..Len(ts)
  BY ReadableForms
<1>4. Given(name, Len(ts), Text)
  BY <1>1, <1>3, NameAfter
<1> HIDE DEF name
<1>5. at \in 0..Len(ts) /\ (at # 0 => name.next # 0)
  <2>1. name.next \in 0..Len(ts) /\ Words(v, 1) /\ v[1] # "END_OF_INPUT"
    BY <1>1, <1>4 DEF Given
  <2> HIDE DEF column, list
  <2> QED
    BY <2>1, ExpectType
<1>6. \A q \in 1..Len(ts) : Reads(column[q], Len(ts), q + 1, ListItem)
  <2> SUFFICES ASSUME NEW q \in 1..Len(ts) PROVE Reads(column[q], Len(ts), q + 1, ListItem)
    OBVIOUS
  <2>1. column[q] = ParseColumn(ts, q)
    OBVIOUS
  <2> QED
    BY <2>1, ColumnItemType
<1> HIDE DEF column, at
<1>7. Given(list, Len(ts), Seq(ListItem)) /\ (list.next # 0 => at # 0)
  BY <1>5, <1>6, ParenGiven
<1> HIDE DEF list
<1>8. CASE Fails(list)
  <2>1. r = Failed
    BY <1>2, <1>8, Zenon DEF CreateTableStmt
  <2>2. Fails(r)
    BY <2>1 DEF Fails, Failed
  <2> QED
    BY <2>2 DEF Makes, r
<1>9. CASE ~Fails(list)
  <2>1. name.val \in Text /\ list.val \in Seq(ListItem)
    BY <1>4, <1>5, <1>7, <1>9 DEF Given
  <2>2. r.val \in Statement /\ r.val.kind = "create" /\ (r.val.primary_key # <<>> => KeyMarked(r.val))
    BY <1>2, <1>9, <2>1, CreateStmtType
  <2> QED
    BY <2>2 DEF Makes, r
<1> QED
  BY <1>8, <1>9

\* Whatever tokens come, parse_statement() throws or gives a well-formed statement; a CREATE
\* TABLE with a primary key marks it NOT NULL.
THEOREM ParserTyped ==
    ASSUME NEW ts, Readable(ts), ~Fails(ParseStatement(ts))
    PROVE  LET s == ParseStatement(ts).val
           IN  s \in Statement /\ (s.kind = "create" /\ s.primary_key # <<>> => KeyMarked(s))
<1> DEFINE r == ParseStatement(ts)
           t == ts[1].type
           C == ParseCreateTable(ts, 1)
<1>1. Makes(C, "create") /\ (~Fails(C) /\ C.val.primary_key # <<>> => KeyMarked(C.val))
  BY CreateMakes, Zenon
<1>2. t = "KW_CREATE" => r = C
  BY DEF ParseStatement, Is
<1>3. \/ r = C
      \/ \E k \in {"drop", "insert", "select", "update", "delete", "show", "describe"} : Makes(r, k)
  <2>1. CASE t = "KW_CREATE"
    BY <1>2, <2>1
  <2>2. CASE t = "KW_DROP"
    <3>1. r = ParseDropTable(ts, 1)
      BY <2>2 DEF ParseStatement, Is
    <3> QED
      BY <3>1, DropMakes, Zenon
  <2>3. CASE t = "KW_INSERT"
    <3>1. r = ParseInsert(ts, 1)
      BY <2>3 DEF ParseStatement, Is
    <3> QED
      BY <3>1, InsertMakes, Zenon
  <2>4. CASE t = "KW_SELECT"
    <3>1. r = ParseSelect(ts, 1)
      BY <2>4 DEF ParseStatement, Is
    <3> QED
      BY <3>1, SelectMakes, Zenon
  <2>5. CASE t = "KW_UPDATE"
    <3>1. r = ParseUpdate(ts, 1)
      BY <2>5 DEF ParseStatement, Is
    <3> QED
      BY <3>1, UpdateMakes, Zenon
  <2>6. CASE t = "KW_DELETE"
    <3>1. r = ParseDelete(ts, 1)
      BY <2>6 DEF ParseStatement, Is
    <3> QED
      BY <3>1, DeleteMakes, Zenon
  <2>7. CASE t = "KW_SHOW"
    <3>1. r = ParseShowTables(ts, 1)
      BY <2>7 DEF ParseStatement, Is
    <3> QED
      BY <3>1, ShowDescribeMake, Zenon
  <2>8. CASE t = "KW_DESCRIBE"
    <3>1. r = ParseDescribe(ts, 1)
      BY <2>8 DEF ParseStatement, Is
    <3> QED
      BY <3>1, ShowDescribeMake, Zenon
  <2>9. CASE t \notin {"KW_CREATE", "KW_DROP", "KW_INSERT", "KW_SELECT", "KW_UPDATE", "KW_DELETE", "KW_SHOW", "KW_DESCRIBE"}
    <3>1. r = Failed
      BY <2>9 DEF ParseStatement, Is
    <3> QED
      BY <3>1, FailedMakes, Zenon
  <2> QED
    BY <2>1, <2>2, <2>3, <2>4, <2>5, <2>6, <2>7, <2>8, <2>9
<1> HIDE DEF r, C
<1>4. ~Fails(r)
  BY DEF r
<1>5. r.val \in Statement /\ (r.val.kind = "create" /\ r.val.primary_key # <<>> => KeyMarked(r.val))
  <2>1. CASE r = C
    BY <1>1, <1>4, <2>1 DEF Makes
  <2>2. ASSUME NEW k \in {"drop", "insert", "select", "update", "delete", "show", "describe"}, Makes(r, k)
        PROVE  r.val \in Statement /\ r.val.kind # "create"
    BY <1>4, <2>2 DEF Makes
  <2> QED
    BY <1>3, <2>1, <2>2
<1> QED
  BY <1>5 DEF r

\* Tokens that do not begin with a statement's word are an error.
LEMMA NotAStatement ==
    ASSUME NEW ts, ts[1].type \notin FirstWord
    PROVE  Fails(ParseStatement(ts))
<1>1. ParseStatement(ts) = Failed
  BY DEF ParseStatement, Is, FirstWord
<1> QED
  BY <1>1 DEF Fails, Failed

-----------------------------------------------------------------------------
(* The tokens of a statement.                                              *)

\* The parts of the statements.
LEMMA StatementForms ==
    ASSUME NEW s, s \in Statement
    PROVE  /\ s.kind \in {"create", "drop", "insert", "select", "update", "delete", "show", "describe"}
           /\ s.kind # "show" => s.table_name \in Text
           /\ s.kind = "create" => s.primary_key \in Text /\ s.columns \in Seq(ColumnDef)
           /\ s.kind = "insert" => s.columns \in Seq(Text) /\ s.values \in Seq(Values)
           /\ s.kind = "select" => /\ s.columns \in Seq(Text) /\ s.where \in WhereClause /\ s.order_by \in Text
                                   /\ s.limit \in Int
           /\ s.kind = "update" => s.assignments \in Seq(Assignment) /\ s.where \in WhereClause
           /\ s.kind = "delete" => s.where \in WhereClause
  BY DEF Statement

\* Sequences over A, one behind the other, are a sequence over A.
LEMMA FlattenType ==
    ASSUME NEW A, NEW seqs, seqs \in Seq(Seq(A))
    PROVE  FlattenSeq(seqs) \in Seq(A)
<1> DEFINE n == Len(seqs)
           R == Seq(A)
           Then(i, r) == IF i = 1 THEN seqs[i] ELSE r \o seqs[i]
           step == [i \in 1..n |-> [r \in R |-> Then(i, r)]]
           Eq(g) == g = [i \in 1..n |-> IF i = 1 THEN seqs[i] ELSE g[i - 1] \o seqs[i]]
           h == CHOOSE g : Eq(g)
<1>0. n \in Nat /\ <<>> \in R
  OBVIOUS
<1>1. CASE n = 0
  <2>1. FlattenSeq(seqs) = seqs /\ seqs = <<>>
    BY <1>1 DEF FlattenSeq
  <2> QED
    BY <1>0, <2>1
<1>2. CASE n # 0
  <2>1. ASSUME NEW i \in 1..n, NEW r \in R PROVE Then(i, r) \in R
    <3>1. seqs[i] \in Seq(A)
      BY <1>0
    <3> QED
      BY <3>1
  <2>2. \A i \in 1..n : \A r \in R : step[i][r] = Then(i, r) /\ step[i][r] \in R
    BY <2>1
  <2>a. \A i \in 1..n : seqs[i] \in R
    OBVIOUS
  <2> HIDE DEF step, R
  <2>f. PICK f \in [0..n -> R] : Unfolds(f, n, <<>>, step)
    <3> HIDE DEF n, Then
    <3> QED
      BY <1>0, <2>2, Along
  <2> DEFINE g == [i \in 1..n |-> f[i]]
  <2>3. ASSUME NEW i \in 1..n PROVE g[i] = IF i = 1 THEN seqs[i] ELSE g[i - 1] \o seqs[i]
    <3>1. i \in 0..n /\ i - 1 \in 0..n /\ (i # 1 => i - 1 \in 1..n)
      BY <1>0
    <3>2. f[i - 1] \in R
      BY <2>f, <3>1
    <3>3. f[i] = step[i][f[i - 1]]
      BY <2>f DEF Unfolds
    <3>4. f[i] = Then(i, f[i - 1])
      BY <2>2, <3>2, <3>3, Zenon
    <3>5. g[i] = f[i] /\ (i # 1 => g[i - 1] = f[i - 1])
      BY <3>1
    <3> HIDE DEF g
    <3> QED
      BY <3>4, <3>5, Zenon
  <2>4. Eq(g)
    <3>1. g = [i \in 1..n |-> g[i]]
      OBVIOUS
    <3> HIDE DEF g
    <3> QED
      BY <2>3, <3>1, Zenon
  <2>5. Eq(h)
    <3> HIDE DEF g
    <3> QED
      BY <2>4, Zenon
  <2> HIDE DEF h
  <2>6. ASSUME NEW i \in 1..n PROVE h[i] = Then(i, h[i - 1])
    BY <2>5, Zenon
  <2> DEFINE S == {0} \cup {i \in 1..n : h[i] \in R}
  <2>7. ASSUME NEW i \in 1..n, i - 1 \in S PROVE i \in S
    <3>1. CASE i = 1
      BY <2>6, <2>a, <3>1
    <3>2. CASE i # 1
      <4>1. h[i - 1] \in R
        BY <1>0, <2>7, <3>2
      <4>2. Then(i, h[i - 1]) \in R
        BY <2>1, <4>1
      <4> HIDE DEF Then
      <4> QED
        BY <2>6, <4>2
    <3> QED
      BY <3>1, <3>2
  <2>8. 0 \in S
    OBVIOUS
  <2>9. 0..n \subseteq S
    <3> HIDE DEF S, n
    <3> QED
      BY <1>0, <2>7, <2>8, Positions
  <2>10. h[n] \in R
    BY <1>0, <1>2, <2>9
  <2>11. FlattenSeq(seqs) = h[n]
    BY <1>2 DEF FlattenSeq, h, n
  <2> QED
    BY <2>10, <2>11 DEF R
<1> QED
  BY <1>1, <1>2

\* What texts of statements are put together from.
LEMMA TokensOf ==
    /\ \A type \in PlainToken : Tok(type) \in Seq(Tokens)
    /\ \A name \in Text : Id(name) \in Seq(Tokens)
    /\ \A a, b \in Seq(Tokens) : a \o b \in Seq(Tokens)
    /\ <<>> \in Seq(Tokens)
<1>1. ASSUME NEW type \in PlainToken PROVE Tok(type) \in Seq(Tokens)
  <2>1. Token(type, <<>>, 0) \in Tokens
    BY DEF Token, Tokens
  <2> QED
    BY <2>1 DEF Tok
<1>2. ASSUME NEW name \in Text PROVE Id(name) \in Seq(Tokens)
  <2>1. Token("IDENTIFIER", name, 0) \in Tokens
    BY DEF Token, Tokens
  <2> QED
    BY <2>1 DEF Id
<1> QED
  BY <1>1, <1>2

\* The words that Write() uses are tokens.
LEMMA PlainTokens ==
    /\ \A type \in {"KW_CREATE", "KW_TABLE", "KW_DROP", "KW_INSERT", "KW_INTO", "KW_VALUES", "KW_SELECT", "KW_FROM",
                    "KW_WHERE", "KW_UPDATE", "KW_SET", "KW_DELETE", "KW_AND", "KW_OR", "KW_NOT", "KW_NULL", "KW_PRIMARY",
                    "KW_KEY", "KW_INT", "KW_FLOAT", "KW_TEXT", "KW_BOOL", "KW_TRUE", "KW_FALSE", "KW_IF", "KW_EXISTS",
                    "KW_ORDER", "KW_BY", "KW_ASC", "KW_DESC", "KW_LIMIT", "KW_SHOW", "KW_TABLES", "KW_DESCRIBE",
                    "COMMA", "LPAREN", "RPAREN", "STAR", "END_OF_INPUT", "OP_EQ"} : Tok(type) \in Seq(Tokens)
    /\ \A type \in CompOp : Tok(type) \in Seq(Tokens)
    /\ \A type \in LogicOp : Tok(type) \in Seq(Tokens)
  BY TokensOf DEF PlainToken, CompOp, LogicOp

\* A value is written as tokens.
LEMMA LiteralType1 ==
    ASSUME NEW v, v \in Values
    PROVE  Literal(v) \in Seq(Tokens)
<1>1. CASE v.is_null
  BY <1>1, PlainTokens DEF Literal
<1>2. CASE ~v.is_null /\ v.type = "BOOL"
  BY <1>2, PlainTokens DEF Literal
<1>3. CASE ~v.is_null /\ v.type # "BOOL"
  <2>1. v.type \in {"INT", "FLOAT", "TEXT"} /\ v.val \in (IF v.type = "TEXT" THEN Text ELSE Int)
    <3>1. ~ \E type \in ColumnType : v = MakeNull(type)
      BY <1>3 DEF MakeNull
    <3>2. PICK type \in ColumnType : \E x \in Typed(type) : v = Make(type, x)
      BY <3>1, ValueForms
    <3>3. PICK x \in Typed(type) : v = Make(type, x)
      BY <3>2
    <3>4. v.type = type /\ v.val = x
      BY <3>3 DEF Make
    <3> QED
      BY <1>3, <3>4 DEF ColumnType, Typed
  <2>2. Token(LiteralType(v), v.val, 0) \in Tokens
    BY <2>1 DEF Token, Tokens, LiteralType
  <2>3. Literal(v) = <<Token(LiteralType(v), v.val, 0)>>
    BY <1>3 DEF Literal
  <2> QED
    BY <2>2, <2>3
<1> QED
  BY <1>1, <1>2, <1>3

\* Items with separators are tokens.
LEMMA JoinedType ==
    ASSUME NEW items, items \in Seq(Seq(Tokens)), NEW sep, sep \in Seq(Tokens)
    PROVE  Joined(items, sep) \in Seq(Tokens)
<1> DEFINE parts == [i \in DOMAIN items |-> IF i = 1 THEN items[i] ELSE sep \o items[i]]
<1>1. parts \in Seq(Seq(Tokens))
  <2>1. \A i \in 1..Len(items) : parts[i] \in Seq(Tokens)
    <3> SUFFICES ASSUME NEW i \in 1..Len(items) PROVE parts[i] \in Seq(Tokens)
      OBVIOUS
    <3>1. items[i] \in Seq(Tokens)
      OBVIOUS
    <3>2. sep \o items[i] \in Seq(Tokens)
      BY <3>1
    <3> QED
      BY <3>1, <3>2
  <2> DEFINE T == Seq(Tokens)
  <2>2. Len(items) \in Nat /\ parts = [i \in 1..Len(items) |-> parts[i]] /\ \A i \in 1..Len(items) : parts[i] \in T
    BY <2>1
  <2> HIDE DEF parts, T
  <2>3. parts \in Seq(T)
    BY <2>2
  <2> QED
    BY <2>3 DEF T
<1> HIDE DEF parts
<1>2. FlattenSeq(parts) \in Seq(Tokens)
  BY <1>1, FlattenType
<1> QED
  BY <1>2 DEF Joined, parts

\* A list in parentheses is tokens.
LEMMA ListedType ==
    ASSUME NEW items, items \in Seq(Seq(Tokens))
    PROVE  Listed(items) \in Seq(Tokens)
<1>1. Tok("COMMA") \in Seq(Tokens) /\ Tok("LPAREN") \in Seq(Tokens) /\ Tok("RPAREN") \in Seq(Tokens)
  BY PlainTokens
<1>2. Joined(items, Tok("COMMA")) \in Seq(Tokens)
  BY <1>1, JoinedType
<1> QED
  BY <1>1, <1>2, TokensOf DEF Listed

\* A column is written as tokens.
LEMMA ColumnTextType ==
    ASSUME NEW col, col \in ColumnDef, NEW pk
    PROVE  ColumnText(col, pk) \in Seq(Tokens)
<1>1. col.name \in Text /\ TypeKeyword[col.type] \in {"KW_INT", "KW_FLOAT", "KW_TEXT", "KW_BOOL"}
  BY DEF ColumnDef, ColumnType, TypeKeyword
<1> DEFINE a == Id(col.name)
           b == Tok(TypeKeyword[col.type])
           c == IF col.is_primary_key THEN Tok("KW_PRIMARY") \o Tok("KW_KEY") ELSE <<>>
           d == IF col.not_null /\ col.name # pk THEN Tok("KW_NOT") \o Tok("KW_NULL") ELSE <<>>
<1>2. a \in Seq(Tokens) /\ b \in Seq(Tokens)
  BY <1>1, TokensOf, PlainTokens
<1>3. c \in Seq(Tokens) /\ d \in Seq(Tokens)
  <2>1. /\ Tok("KW_PRIMARY") \in Seq(Tokens) /\ Tok("KW_KEY") \in Seq(Tokens)
        /\ Tok("KW_NOT") \in Seq(Tokens) /\ Tok("KW_NULL") \in Seq(Tokens)
    BY PlainTokens
  <2> QED
    BY <2>1, TokensOf
<1>4. ColumnText(col, pk) = a \o b \o c \o d
  BY DEF ColumnText
<1> HIDE DEF a, b, c, d
<1> QED
  BY <1>2, <1>3, <1>4, TokensOf

\* A condition is written as tokens.
LEMMA ConditionTextType ==
    ASSUME NEW c, c \in Condition
    PROVE  ConditionText(c) \in Seq(Tokens)
<1>1. c.column \in Text /\ c.op \in CompOp /\ c.value \in Values
  BY DEF Condition
<1>2. Id(c.column) \in Seq(Tokens) /\ Tok(c.op) \in Seq(Tokens) /\ Literal(c.value) \in Seq(Tokens)
  BY <1>1, TokensOf, PlainTokens, LiteralType1
<1> QED
  BY <1>2, TokensOf DEF ConditionText

\* A WHERE clause is written as tokens.
LEMMA WhereTextType ==
    ASSUME NEW w, w \in WhereClause
    PROVE  WhereText(w) \in Seq(Tokens)
<1>1. CASE w.conditions = <<>>
  BY <1>1, TokensOf DEF WhereText
<1>2. CASE w.conditions # <<>>
  <2> DEFINE cs == w.conditions
             ls == w.logic_ops
             parts == [i \in DOMAIN cs |-> (IF i = 1 THEN <<>> ELSE Tok(ls[i - 1])) \o ConditionText(cs[i])]
  <2>1. cs \in Seq(Condition) /\ ls \in Seq(LogicOp) /\ Len(cs) = Len(ls) + 1
    BY <1>2 DEF WhereClause
  <2>2. WhereText(w) = Tok("KW_WHERE") \o FlattenSeq(parts)
    BY <1>2 DEF WhereText
  <2> HIDE DEF cs, ls
  <2>3. ASSUME NEW i \in 1..Len(cs) PROVE parts[i] \in Seq(Tokens)
    <3> DEFINE a == IF i = 1 THEN <<>> ELSE Tok(ls[i - 1])
               b == ConditionText(cs[i])
    <3>1. cs[i] \in Condition /\ (i # 1 => ls[i - 1] \in LogicOp)
      BY <2>1
    <3>2. a \in Seq(Tokens) /\ b \in Seq(Tokens)
      BY <3>1, TokensOf, PlainTokens, ConditionTextType
    <3>3. parts[i] = a \o b
      BY <2>1
    <3> HIDE DEF a, b, parts
    <3> QED
      BY <3>2, <3>3, TokensOf
  <2>4. parts \in Seq(Seq(Tokens))
    BY <2>1, <2>3
  <2> HIDE DEF parts
  <2>5. FlattenSeq(parts) \in Seq(Tokens)
    BY <2>4, FlattenType
  <2>6. Tok("KW_WHERE") \in Seq(Tokens)
    BY PlainTokens
  <2> QED
    BY <2>2, <2>5, <2>6, TokensOf
<1> QED
  BY <1>1, <1>2

\* The declaration of the key behind the columns is written as tokens.
LEMMA TableKeyTextType ==
    ASSUME NEW s, s.primary_key \in Text
    PROVE  TableKeyText(s) \in Seq(Seq(Tokens))
<1> DEFINE t == Tok("KW_PRIMARY") \o Tok("KW_KEY") \o Tok("LPAREN") \o Id(s.primary_key) \o Tok("RPAREN")
<1>1. /\ Tok("KW_PRIMARY") \in Seq(Tokens) /\ Tok("KW_KEY") \in Seq(Tokens) /\ Tok("LPAREN") \in Seq(Tokens)
      /\ Tok("RPAREN") \in Seq(Tokens) /\ Id(s.primary_key) \in Seq(Tokens)
  BY PlainTokens, TokensOf
<1>2. t \in Seq(Tokens)
  BY <1>1, TokensOf
<1>3. TableKeyText(s) = <<>> \/ TableKeyText(s) = <<t>>
  BY Zenon DEF TableKeyText
<1> DEFINE T == Seq(Tokens)
<1>4. t \in T
  BY <1>2
<1> HIDE DEF t, T
<1>5. <<>> \in Seq(T) /\ <<t>> \in Seq(T)
  BY <1>4
<1>6. TableKeyText(s) \in Seq(T)
  BY <1>3, <1>5
<1> QED
  BY <1>6 DEF T

\* Tokens and the end mark behind them.
LEMMA EndMarked ==
    ASSUME NEW w, w \in Seq(Tokens)
    PROVE  Readable(w \o Tok("END_OF_INPUT"))
<1> DEFINE e == Token("END_OF_INPUT", <<>>, 0)
           r == w \o <<e>>
<1>1. e \in Tokens /\ e.type = "END_OF_INPUT"
  BY DEF Tokens, Token, PlainToken
<1> HIDE DEF e
<1>2. r \in Seq(Tokens) /\ Len(r) = Len(w) + 1 /\ r[Len(w) + 1] = e
  BY <1>1
<1>3. r # <<>> /\ r[Len(r)] = e
  BY <1>2
<1>4. w \o Tok("END_OF_INPUT") = r
  BY DEF Tok, e
<1> HIDE DEF r
<1> QED
  BY <1>1, <1>2, <1>3, <1>4 DEF Readable

\* Texts of lists, one for each of their elements.
LEMMA ListTexts ==
    /\ \A names \in Seq(Text) : [i \in DOMAIN names |-> Id(names[i])] \in Seq(Seq(Tokens))
    /\ \A vs \in Seq(Values) : [i \in DOMAIN vs |-> Literal(vs[i])] \in Seq(Seq(Tokens))
    /\ \A cols \in Seq(ColumnDef) : \A pk : [i \in DOMAIN cols |-> ColumnText(cols[i], pk)] \in Seq(Seq(Tokens))
    /\ \A xs \in Seq(Assignment) : [i \in DOMAIN xs |-> AssignmentText(xs[i])] \in Seq(Seq(Tokens))
<1> DEFINE T == Seq(Tokens)
<1>0. \A f : \A n \in Nat : (DOMAIN f = 1..n /\ f = [i \in 1..n |-> f[i]] /\ \A i \in 1..n : f[i] \in T) => f \in Seq(T)
  <2> HIDE DEF T
  <2> SUFFICES ASSUME NEW f, NEW n \in Nat, f = [i \in 1..n |-> f[i]], \A i \in 1..n : f[i] \in T PROVE f \in Seq(T)
    OBVIOUS
  <2>1. f \in [1..n -> T]
    OBVIOUS
  <2> QED
    BY <2>1
<1>1. ASSUME NEW names \in Seq(Text) PROVE [i \in DOMAIN names |-> Id(names[i])] \in Seq(T)
  <2> DEFINE f == [i \in DOMAIN names |-> Id(names[i])]
  <2>1. Len(names) \in Nat /\ DOMAIN f = 1..Len(names) /\ f = [i \in 1..Len(names) |-> f[i]]
    OBVIOUS
  <2>2. ASSUME NEW i \in 1..Len(names) PROVE f[i] \in T
    <3>1. names[i] \in Text /\ f[i] = Id(names[i])
      OBVIOUS
    <3> QED
      BY <3>1, TokensOf
  <2> HIDE DEF f, T
  <2>3. f \in Seq(T)
    BY <1>0, <2>1, <2>2
  <2> QED
    BY <2>3 DEF f
<1>2. ASSUME NEW vs \in Seq(Values) PROVE [i \in DOMAIN vs |-> Literal(vs[i])] \in Seq(T)
  <2> DEFINE f == [i \in DOMAIN vs |-> Literal(vs[i])]
  <2>1. Len(vs) \in Nat /\ DOMAIN f = 1..Len(vs) /\ f = [i \in 1..Len(vs) |-> f[i]]
    OBVIOUS
  <2>2. ASSUME NEW i \in 1..Len(vs) PROVE f[i] \in T
    <3>1. vs[i] \in Values /\ f[i] = Literal(vs[i])
      OBVIOUS
    <3> QED
      BY <3>1, LiteralType1
  <2> HIDE DEF f, T
  <2>3. f \in Seq(T)
    BY <1>0, <2>1, <2>2
  <2> QED
    BY <2>3 DEF f
<1>3. ASSUME NEW cols \in Seq(ColumnDef), NEW pk PROVE [i \in DOMAIN cols |-> ColumnText(cols[i], pk)] \in Seq(T)
  <2> DEFINE f == [i \in DOMAIN cols |-> ColumnText(cols[i], pk)]
  <2>1. Len(cols) \in Nat /\ DOMAIN f = 1..Len(cols) /\ f = [i \in 1..Len(cols) |-> f[i]]
    OBVIOUS
  <2>2. ASSUME NEW i \in 1..Len(cols) PROVE f[i] \in T
    <3>1. cols[i] \in ColumnDef /\ f[i] = ColumnText(cols[i], pk)
      OBVIOUS
    <3> QED
      BY <3>1, ColumnTextType
  <2> HIDE DEF f, T
  <2>3. f \in Seq(T)
    BY <1>0, <2>1, <2>2
  <2> QED
    BY <2>3 DEF f
<1>4. ASSUME NEW xs \in Seq(Assignment) PROVE [i \in DOMAIN xs |-> AssignmentText(xs[i])] \in Seq(T)
  <2> DEFINE f == [i \in DOMAIN xs |-> AssignmentText(xs[i])]
  <2>1. ASSUME NEW x \in Assignment PROVE AssignmentText(x) \in T
    <3>1. x.column \in Text /\ x.value \in Values
      BY DEF Assignment
    <3>2. Id(x.column) \in Seq(Tokens) /\ Tok("OP_EQ") \in Seq(Tokens) /\ Literal(x.value) \in Seq(Tokens)
      BY <3>1, TokensOf, PlainTokens, LiteralType1
    <3> QED
      BY <3>2, TokensOf DEF AssignmentText
  <2>2. Len(xs) \in Nat /\ DOMAIN f = 1..Len(xs) /\ f = [i \in 1..Len(xs) |-> f[i]]
    OBVIOUS
  <2>3. ASSUME NEW i \in 1..Len(xs) PROVE f[i] \in T
    <3>1. xs[i] \in Assignment /\ f[i] = AssignmentText(xs[i])
      OBVIOUS
    <3> QED
      BY <2>1, <3>1
  <2> HIDE DEF f, T
  <2>4. f \in Seq(T)
    BY <1>0, <2>2, <2>3
  <2> QED
    BY <2>4 DEF f
<1> QED
  BY <1>1, <1>2, <1>3, <1>4

\* A well-formed statement is written as tokens that the parser can read.
LEMMA WriteReadable ==
    ASSUME NEW s, s \in Statement
    PROVE  Readable(Write(s))
<1> DEFINE T == Seq(Tokens)
<1>0. /\ \A a, b \in T : a \o b \in T
      /\ <<>> \in T
      /\ \A name \in Text : Id(name) \in T
  BY TokensOf
<1>t. /\ \A type \in {"KW_CREATE", "KW_TABLE", "KW_DROP", "KW_INSERT", "KW_INTO", "KW_VALUES", "KW_SELECT", "KW_FROM",
                      "KW_UPDATE", "KW_SET", "KW_DELETE", "KW_IF", "KW_EXISTS", "KW_ORDER", "KW_BY", "KW_ASC",
                      "KW_DESC", "KW_LIMIT", "KW_SHOW", "KW_TABLES", "KW_DESCRIBE", "COMMA", "STAR"} : Tok(type) \in T
  BY PlainTokens
<1>s. \A w \in WhereClause : WhereText(w) \in T
  BY WhereTextType
<1>l. \A items \in Seq(T) : Listed(items) \in T /\ Joined(items, Tok("COMMA")) \in T
  BY <1>t, ListedType, JoinedType
<1>e. \A w \in T : Readable(w \o Tok("END_OF_INPUT"))
  BY EndMarked
<1>1. CASE s.kind = "create"
  <2> DEFINE cs == [i \in DOMAIN s.columns |-> ColumnText(s.columns[i], s.primary_key)]
             k == TableKeyText(s)
             w == Tok("KW_CREATE") \o Tok("KW_TABLE") \o Id(s.table_name) \o Listed(cs \o k)
  <2>1. Write(s) = w \o Tok("END_OF_INPUT")
    BY <1>1 DEF Write
  <2>2. cs \in Seq(T) /\ k \in Seq(T) /\ Id(s.table_name) \in T
    BY <1>0, <1>1, StatementForms, ListTexts, TableKeyTextType
  <2> HIDE DEF cs, k, T
  <2>3. cs \o k \in Seq(T)
    BY <2>2
  <2>4. w \in T
    <3>1. Tok("KW_CREATE") \in T /\ Tok("KW_TABLE") \in T /\ Listed(cs \o k) \in T
      BY <1>t, <1>l, <2>3
    <3> QED
      BY <1>0, <2>2, <3>1
  <2> HIDE DEF w
  <2> QED
    BY <1>e, <2>1, <2>4
<1>2. CASE s.kind = "drop"
  <2> DEFINE a == IF s.if_exists THEN Tok("KW_IF") \o Tok("KW_EXISTS") ELSE <<>>
             w == Tok("KW_DROP") \o Tok("KW_TABLE") \o a \o Id(s.table_name)
  <2>1. Write(s) = w \o Tok("END_OF_INPUT")
    BY <1>2 DEF Write
  <2>2. Id(s.table_name) \in T
    BY <1>0, <1>2, StatementForms
  <2> HIDE DEF T
  <2>3. Tok("KW_DROP") \in T /\ Tok("KW_TABLE") \in T /\ Tok("KW_IF") \in T /\ Tok("KW_EXISTS") \in T
    BY <1>t
  <2>4. a \in T
    BY <1>0, <2>3
  <2> HIDE DEF a
  <2>5. w \in T
    BY <1>0, <2>2, <2>3, <2>4
  <2> HIDE DEF w
  <2> QED
    BY <1>e, <2>1, <2>5
<1>3. CASE s.kind = "insert"
  <2> DEFINE ns == [i \in DOMAIN s.columns |-> Id(s.columns[i])]
             vs == [i \in DOMAIN s.values |-> Literal(s.values[i])]
             a == IF s.columns = <<>> THEN <<>> ELSE Listed(ns)
             w == Tok("KW_INSERT") \o Tok("KW_INTO") \o Id(s.table_name) \o a \o Tok("KW_VALUES") \o Listed(vs)
  <2>1. Write(s) = w \o Tok("END_OF_INPUT")
    BY <1>3 DEF Write
  <2>2. Id(s.table_name) \in T /\ ns \in Seq(T) /\ vs \in Seq(T)
    BY <1>0, <1>3, StatementForms, ListTexts
  <2> HIDE DEF ns, vs, T
  <2>3. Tok("KW_INSERT") \in T /\ Tok("KW_INTO") \in T /\ Tok("KW_VALUES") \in T /\ Listed(vs) \in T /\ Listed(ns) \in T
    BY <1>t, <1>l, <2>2
  <2>4. a \in T
    BY <1>0, <2>3
  <2> HIDE DEF a
  <2>5. w \in T
    BY <1>0, <2>2, <2>3, <2>4
  <2> HIDE DEF w
  <2> QED
    BY <1>e, <2>1, <2>5
<1>4. CASE s.kind = "select"
  <2> DEFINE ns == [i \in DOMAIN s.columns |-> Id(s.columns[i])]
             a == IF s.columns = <<>> THEN Tok("STAR") ELSE Joined(ns, Tok("COMMA"))
             d == Tok(IF s.order_desc THEN "KW_DESC" ELSE "KW_ASC")
             o == IF s.order_by = <<>> THEN <<>> ELSE Tok("KW_ORDER") \o Tok("KW_BY") \o Id(s.order_by) \o d
             l == IF s.limit < 0 THEN <<>> ELSE Tok("KW_LIMIT") \o Literal(Make("INT", s.limit))
             w == Tok("KW_SELECT") \o a \o Tok("KW_FROM") \o Id(s.table_name) \o WhereText(s.where) \o o \o l
  <2>1. Write(s) = w \o Tok("END_OF_INPUT")
    BY <1>4 DEF Write
  <2>2. Id(s.table_name) \in T /\ ns \in Seq(T) /\ WhereText(s.where) \in T /\ Id(s.order_by) \in T
    BY <1>0, <1>4, <1>s, StatementForms, ListTexts
  <2>3. Make("INT", s.limit) \in Values
    BY <1>4, StatementForms DEF Values, Make
  <2>4. Literal(Make("INT", s.limit)) \in T
    BY <2>3, LiteralType1
  <2> HIDE DEF ns, T
  <2>5. /\ Tok("KW_SELECT") \in T /\ Tok("STAR") \in T /\ Tok("KW_FROM") \in T /\ Tok("KW_ORDER") \in T /\ Tok("KW_BY") \in T
        /\ Tok("KW_LIMIT") \in T /\ d \in T /\ Joined(ns, Tok("COMMA")) \in T
    BY <1>t, <1>l, <2>2
  <2> HIDE DEF d
  <2>6. a \in T
    BY <2>5
  <2>7. o \in T
    BY <1>0, <2>2, <2>5
  <2>8. l \in T
    BY <1>0, <2>4, <2>5
  <2> HIDE DEF a, o, l
  <2>9. w \in T
    BY <1>0, <2>2, <2>5, <2>6, <2>7, <2>8
  <2> HIDE DEF w
  <2> QED
    BY <1>e, <2>1, <2>9
<1>5. CASE s.kind = "update"
  <2> DEFINE xs == [i \in DOMAIN s.assignments |-> AssignmentText(s.assignments[i])]
             w == Tok("KW_UPDATE") \o Id(s.table_name) \o Tok("KW_SET") \o Joined(xs, Tok("COMMA")) \o WhereText(s.where)
  <2>1. Write(s) = w \o Tok("END_OF_INPUT")
    BY <1>5 DEF Write
  <2>2. Id(s.table_name) \in T /\ xs \in Seq(T) /\ WhereText(s.where) \in T
    BY <1>0, <1>5, <1>s, StatementForms, ListTexts
  <2> HIDE DEF xs, T
  <2>3. Tok("KW_UPDATE") \in T /\ Tok("KW_SET") \in T /\ Joined(xs, Tok("COMMA")) \in T
    BY <1>t, <1>l, <2>2
  <2>4. w \in T
    BY <1>0, <2>2, <2>3
  <2> HIDE DEF w
  <2> QED
    BY <1>e, <2>1, <2>4
<1>6. CASE s.kind = "delete"
  <2> DEFINE w == Tok("KW_DELETE") \o Tok("KW_FROM") \o Id(s.table_name) \o WhereText(s.where)
  <2>1. Write(s) = w \o Tok("END_OF_INPUT")
    BY <1>6 DEF Write
  <2>2. Id(s.table_name) \in T /\ WhereText(s.where) \in T
    BY <1>0, <1>6, <1>s, StatementForms
  <2> HIDE DEF T
  <2>3. Tok("KW_DELETE") \in T /\ Tok("KW_FROM") \in T
    BY <1>t
  <2>4. w \in T
    BY <1>0, <2>2, <2>3
  <2> HIDE DEF w
  <2> QED
    BY <1>e, <2>1, <2>4
<1>7. CASE s.kind = "show"
  <2> DEFINE w == Tok("KW_SHOW") \o Tok("KW_TABLES")
  <2>1. Write(s) = w \o Tok("END_OF_INPUT")
    BY <1>7 DEF Write
  <2> HIDE DEF T
  <2>2. w \in T
    BY <1>0, <1>t
  <2> HIDE DEF w
  <2> QED
    BY <1>e, <2>1, <2>2
<1>8. CASE s.kind = "describe"
  <2> DEFINE w == Tok("KW_DESCRIBE") \o Id(s.table_name)
  <2>1. Write(s) = w \o Tok("END_OF_INPUT")
    BY <1>8 DEF Write
  <2>2. Id(s.table_name) \in T
    BY <1>0, <1>8, StatementForms
  <2> HIDE DEF T
  <2>3. w \in T
    BY <1>0, <1>t, <2>2
  <2> HIDE DEF w
  <2> QED
    BY <1>e, <2>1, <2>3
<1> QED
  BY <1>1, <1>2, <1>3, <1>4, <1>5, <1>6, <1>7, <1>8, StatementForms

\* A slip in front of the end mark leaves the end mark.
LEMMA SlipReadable ==
    ASSUME NEW w, Readable(w), NEW t \in Tokens, NEW i \in 1..Len(w), i < Len(w),
           NEW r \in {RemoveAt(w, i), ReplaceAt(w, i, t), InsertAt(w, i, t)}
    PROVE  Readable(r)
<1> DEFINE n == Len(w)
           e == w[n]
<1>1. w \in Seq(Tokens) /\ n \in Nat /\ n # 0 /\ i \in Nat /\ i >= 1 /\ i < n /\ e.type = "END_OF_INPUT"
  BY DEF Readable
<1> DEFINE a == SubSeq(w, 1, i - 1)
           b == SubSeq(w, i + 1, n)
           c == SubSeq(w, i, n)
<1>2. a \in Seq(Tokens) /\ Len(a) = i - 1
  BY <1>1
<1>3. b \in Seq(Tokens) /\ Len(b) = n - i /\ b[n - i] = e
  <2>1. Len(b) = n - i /\ \A k \in 1..(n - i) : b[k] = w[k + i]
    BY <1>1
  <2>2. n - i \in 1..(n - i) /\ (n - i) + i = n
    BY <1>1
  <2>3. b \in Seq(Tokens)
    BY <1>1
  <2>4. b[n - i] = w[(n - i) + i]
    BY <2>1, <2>2
  <2> HIDE DEF b
  <2> QED
    BY <2>1, <2>2, <2>3, <2>4
<1>4. c \in Seq(Tokens) /\ Len(c) = n - i + 1 /\ c[n - i + 1] = e
  <2>1. Len(c) = n - i + 1 /\ \A k \in 1..(n - i + 1) : c[k] = w[k + i - 1]
    BY <1>1
  <2>2. n - i + 1 \in 1..(n - i + 1) /\ (n - i + 1) + i - 1 = n
    BY <1>1
  <2> QED
    BY <1>1, <2>1, <2>2
<1> HIDE DEF a, b, c, n, e
<1>5. CASE r = RemoveAt(w, i)
  <2> DEFINE x == a \o b
  <2>1. x \in Seq(Tokens) /\ Len(x) = n - 1 /\ x[n - 1] = e
    BY <1>1, <1>2, <1>3
  <2>2. r = x
    BY <1>5 DEF RemoveAt, a, b, n
  <2> HIDE DEF x
  <2>3. x # <<>> /\ x[Len(x)] = e
    BY <1>1, <2>1
  <2> QED
    BY <1>1, <2>1, <2>2, <2>3 DEF Readable
<1>6. CASE r = ReplaceAt(w, i, t)
  <2> DEFINE x == [w EXCEPT ![i] = t]
  <2>1. x \in Seq(Tokens) /\ Len(x) = n /\ x[n] = e
    BY <1>1 DEF n, e
  <2>2. r = x
    BY <1>6 DEF ReplaceAt
  <2> HIDE DEF x
  <2>3. x # <<>> /\ x[Len(x)] = e
    BY <1>1, <2>1
  <2> QED
    BY <1>1, <2>1, <2>2, <2>3 DEF Readable
<1>7. CASE r = InsertAt(w, i, t)
  <2> DEFINE y == a \o <<t>>
             x == y \o c
  <2>1. y \in Seq(Tokens) /\ Len(y) = i
    BY <1>1, <1>2
  <2>2. r = x
    BY <1>7 DEF InsertAt, a, c, n
  <2> HIDE DEF y
  <2>3. x \in Seq(Tokens) /\ Len(x) = n + 1 /\ x[n + 1] = e
    BY <1>1, <1>4, <2>1
  <2> HIDE DEF x
  <2>4. x # <<>> /\ x[Len(x)] = e
    BY <1>1, <2>3
  <2> QED
    BY <1>1, <2>2, <2>3, <2>4 DEF Readable
<1> QED
  BY <1>5, <1>6, <1>7

-----------------------------------------------------------------------------
(* The tokenizer moves on, and its tokens begin no statement.              *)

\* A run ends before its first position or within the text.
LEMMA RunEndType ==
    ASSUME NEW B, NEW s, s \in Seq(B), NEW p, p \in 1..(Len(s) + 1), NEW C
    PROVE  /\ RunEnd(s, p, C) \in (p - 1)..Len(s)
           /\ p <= Len(s) /\ s[p] \in C => RunEnd(s, p, C) \in p..Len(s)
<1> DEFINE n == Len(s)
           J == {j \in (p - 1)..n : \A k \in p..j : s[k] \in C}
<1>1. n \in Nat /\ p \in Nat /\ p >= 1
  OBVIOUS
<1>2. p - 1 \in J /\ J \in SUBSET 0..n /\ J \subseteq (p - 1)..n
  <2>1. p - 1 \in (p - 1)..n /\ p..(p - 1) = {} /\ (p - 1)..n \subseteq 0..n
    BY <1>1
  <2> QED
    BY <2>1
<1>3. p <= n /\ s[p] \in C => p \in J
  <2>1. p \in (p - 1)..n \/ ~(p <= n)
    BY <1>1
  <2>2. \A k \in p..p : k = p
    BY <1>1
  <2> QED
    BY <2>1, <2>2
<1>4. RunEnd(s, p, C) = Max(J)
  BY DEF RunEnd
<1> HIDE DEF J
<1>5. Max(J) \in J /\ \A j \in J : j <= Max(J)
  BY <1>1, <1>2, LastOf
<1>6. p <= n /\ s[p] \in C => p <= Max(J)
  BY <1>3, <1>5
<1>7. Max(J) \in (p - 1)..n
  BY <1>2, <1>5
<1>8. p <= Max(J) => Max(J) \in p..n
  BY <1>1, <1>7
<1>9. RunEnd(s, p, C) \in (p - 1)..Len(s)
  BY <1>4, <1>7, Zenon
<1>10. p <= Len(s) /\ s[p] \in C => RunEnd(s, p, C) \in p..Len(s)
  BY <1>4, <1>6, <1>8, Zenon
<1> QED
  BY <1>9, <1>10

\* A place in a text.
LEMMA PlaceType ==
    ASSUME NEW B, NEW s, s \in Seq(B), NEW p, p \in 1..Len(s)
    PROVE  Len(s) \in Nat /\ p \in Nat /\ p >= 1 /\ p <= Len(s) /\ p \in 1..(Len(s) + 1)
OBVIOUS

\* The place behind a run.
LEMMA NextPlace ==
    ASSUME NEW n \in Nat, NEW p \in Nat, NEW e, e \in p..n
    PROVE  e + 1 \in (p + 1)..(n + 1)
OBVIOUS

\* What one turn of the loop gives at p: a token that begins no statement and a later position, or an error.
Advances(r, s, p) ==
    /\ r.token.type \notin FirstWord
    /\ r = NoToken \/ r.next \in (p + 1)..(Len(s) + 1)

\* A word is read past its first letter; no keyword that can be spelled begins a statement.
LEMMA WordAdvances ==
    ASSUME NEW B, NEW s, s \in Seq(B), NEW p, p \in 1..Len(s), s[p] \in Letter \cup {"_"}
    PROVE  Advances(ReadIdentifierOrKeyword(s, p), s, p)
<1> DEFINE C == Letter \cup Digit \cup {"_"}
           e == RunEnd(s, p, C)
           word == SubSeq(s, p, e)
           type == KeywordType(word)
           r == ReadIdentifierOrKeyword(s, p)
<1>1. r.token.type = type /\ r.next = e + 1
  BY DEF ReadIdentifierOrKeyword, Token
<1>2. e \in p..Len(s)
  <2>0. s[p] \in C
    OBVIOUS
  <2> HIDE DEF C
  <2>1. p \in 1..(Len(s) + 1) /\ p <= Len(s)
    BY PlaceType, Zenon
  <2> QED
    BY <2>0, <2>1, RunEndType
<1>3. type \notin FirstWord
  <2> HIDE DEF word
  <2>1. type = "IDENTIFIER" \/ \E x \in DOMAIN Keywords : type = Keywords[x]
    BY DEF KeywordType
  <2> HIDE DEF type
  <2>2. \A x \in DOMAIN Keywords : Keywords[x] \notin FirstWord
    BY StatementConstants
  <2>3. "IDENTIFIER" \notin FirstWord
    BY DEF FirstWord
  <2> QED
    BY <2>1, <2>2, <2>3
<1> HIDE DEF e, type, r
<1>4. r.next \in (p + 1)..(Len(s) + 1)
  <2>1. Len(s) \in Nat /\ p \in Nat
    BY PlaceType, Zenon
  <2> DEFINE n == Len(s)
  <2>2. n \in Nat /\ e \in p..n
    BY <1>2, <2>1, Zenon
  <2> HIDE DEF n
  <2>3. e + 1 \in (p + 1)..(n + 1)
    BY <2>1, <2>2, NextPlace, Zenon
  <2> QED
    BY <1>1, <2>3, Zenon DEF n
<1> QED
  BY <1>1, <1>3, <1>4 DEF Advances, r

\* A number is read past its first digit or its sign.
LEMMA NumberAdvances ==
    ASSUME NEW B, NEW s, s \in Seq(B), NEW p, p \in 1..Len(s), s[p] \in Digit \/ s[p] = "-"
    PROVE  Advances(ReadNumber(s, p), s, p)
<1> DEFINE n == Len(s)
           first == IF s[p] = "-" THEN p + 1 ELSE p
           J == {j \in (first - 1)..n : /\ \A k \in first..j : s[k] \in Digit \cup {"."}
                                        /\ Cardinality({k \in first..j : s[k] = "."}) <= 1}
           r == ReadNumber(s, p)
<1>1. n \in Nat /\ p \in Nat /\ p >= 1 /\ p <= n
  OBVIOUS
<1>2. r.next = Max(J) + 1 /\ r.token.type \in {"FLOAT_LIT", "INTEGER_LIT"}
  BY DEF ReadNumber, Token
<1>3. Cardinality({}) = 0 /\ Cardinality({}) <= 1
  <2>1. Cardinality({}) = 0
    BY FS_EmptySet
  <2> HIDE DEF n, first, J, r
  <2> QED
    BY <2>1
<1>4. J \in SUBSET 0..n /\ p \in J
  <2>1. CASE s[p] = "-"
    <3>1. first = p + 1 /\ first - 1 = p /\ p \in (first - 1)..n /\ first..p = {}
      BY <1>1, <2>1
    <3>2. {k \in first..p : s[k] = "."} = {}
      BY <3>1
    <3>3. (first - 1)..n \subseteq 0..n
      BY <1>1, <3>1
    <3> HIDE DEF first, n
    <3>4. J \in SUBSET 0..n
      BY <3>3, Zenon
    <3>5. (\A k \in first..p : s[k] \in Digit \cup {"."}) /\ Cardinality({k \in first..p : s[k] = "."}) <= 1
      BY <1>3, <3>1, <3>2
    <3> QED
      BY <3>1, <3>4, <3>5, Zenon
  <2>2. CASE s[p] # "-"
    <3>1. first = p /\ p \in (first - 1)..n /\ \A k \in first..p : k = p
      BY <1>1, <2>2
    <3>2. s[p] \in Digit /\ s[p] # "."
      BY <2>2 DEF Digit
    <3>3. {k \in first..p : s[k] = "."} = {}
      BY <3>1, <3>2
    <3>4. (first - 1)..n \subseteq 0..n
      BY <1>1, <3>1
    <3> HIDE DEF first, n
    <3>5. J \in SUBSET 0..n
      BY <3>4, Zenon
    <3>6. \A k \in first..p : s[k] \in Digit \cup {"."}
      BY <3>1, <3>2, Zenon
    <3>7. Cardinality({k \in first..p : s[k] = "."}) <= 1
      BY <1>3, <3>3, Zenon
    <3> QED
      BY <3>1, <3>5, <3>6, <3>7, Zenon
  <2> QED
    BY <2>1, <2>2
<1> HIDE DEF J, r
<1>5. Max(J) \in J /\ p <= Max(J)
  BY <1>1, <1>4, LastOf
<1>6. r.next \in (p + 1)..(n + 1)
  <2>1. Max(J) \in 0..n
    BY <1>4, <1>5
  <2>2. Max(J) + 1 \in (p + 1)..(n + 1)
    BY <1>1, <1>5, <2>1
  <2> QED
    BY <1>2, <2>2, Zenon
<1>7. r.token.type \notin FirstWord
  BY <1>2 DEF FirstWord
<1> QED
  BY <1>6, <1>7 DEF Advances, r

\* A string literal ends behind its first character and not behind the end of the text.
LEMMA StringAdvances ==
    ASSUME NEW B, NEW s, s \in Seq(B), NEW p, p \in 1..Len(s)
    PROVE  Advances(ReadString(s, p), s, p)
<1> DEFINE n == Len(s)
           a == p + 1
           b == n + 2
           R == [val : Seq(B), next : (p + 1)..(n + 1)]
           Same(q) == s[q] = s[p]
           Twice(q) == Peek(s, q + 1) = s[p]
           c == [q \in a..b |-> IF q > n THEN s[p] ELSE s[q]]
           nxt == [q \in a..b |-> IF q > n THEN 0 ELSE IF ~Same(q) THEN q + 1 ELSE IF Twice(q) THEN q + 2 ELSE 0]
           base == [q \in a..b |-> IF q > n THEN [val |-> <<>>, next |-> n + 1] ELSE [val |-> <<>>, next |-> q + 1]]
           step == [q \in a..b |-> [r \in R |-> [r EXCEPT !.val = <<c[q]>> \o @]]]
           Body(f, q) == IF q > Len(s) THEN [val |-> <<>>, next |-> Len(s) + 1]
                         ELSE IF s[q] # s[p] THEN [f[q + 1] EXCEPT !.val = <<s[q]>> \o @]
                         ELSE IF Peek(s, q + 1) = s[p] THEN [f[q + 2] EXCEPT !.val = <<s[p]>> \o @]
                         ELSE [val |-> <<>>, next |-> q + 1]
           Eq(f) == f = [q \in (p + 1)..(Len(s) + 2) |->
                            IF q > Len(s) THEN [val |-> <<>>, next |-> Len(s) + 1]
                            ELSE IF s[q] # s[p] THEN [f[q + 1] EXCEPT !.val = <<s[q]>> \o @]
                            ELSE IF Peek(s, q + 1) = s[p] THEN [f[q + 2] EXCEPT !.val = <<s[p]>> \o @]
                            ELSE [val |-> <<>>, next |-> q + 1]]
           h == CHOOSE f : Eq(f)
<1>1. n \in Nat /\ p \in Nat /\ p >= 1 /\ p <= n /\ a \in Int /\ b \in Int /\ a \in a..b
  OBVIOUS
<1>2. ASSUME NEW q \in a..b
      PROVE  /\ nxt[q] \in Int /\ base[q] \in R /\ c[q] \in B
             /\ nxt[q] > q => nxt[q] \in a..b
             /\ \A f : Body(f, q) = IF nxt[q] > q THEN [f[nxt[q]] EXCEPT !.val = <<c[q]>> \o @] ELSE base[q]
  <2>0. q \in Int /\ q >= p + 1 /\ q <= n + 2 /\ <<>> \in Seq(B)
    BY <1>1
  <2>1. CASE q > n
    <3>1. nxt[q] = 0 /\ base[q] = [val |-> <<>>, next |-> n + 1] /\ c[q] = s[p]
      BY <2>1
    <3>2. \A f : Body(f, q) = [val |-> <<>>, next |-> n + 1]
      BY <2>1, Zenon
    <3>3. ~(nxt[q] > q) /\ nxt[q] \in Int /\ n + 1 \in (p + 1)..(n + 1)
      BY <1>1, <2>0, <3>1
    <3>4. base[q] \in R /\ c[q] \in B
      BY <2>0, <3>1, <3>3
    <3> HIDE DEF nxt, base, c, R
    <3> QED
      BY <3>1, <3>2, <3>3, <3>4, Zenon
  <2>2. CASE ~(q > n)
    <3>1. base[q] = [val |-> <<>>, next |-> q + 1] /\ c[q] = s[q] /\ q \in 1..n
      BY <1>1, <2>0, <2>2
    <3>2. q + 1 \in (p + 1)..(n + 1)
      BY <1>1, <2>0, <2>2
    <3>3. base[q] \in R /\ c[q] \in B
      BY <2>0, <3>1, <3>2
    <3>4. CASE ~Same(q)
      <4>1. nxt[q] = q + 1
        BY <2>2, <3>4
      <4>2. \A f : Body(f, q) = [f[q + 1] EXCEPT !.val = <<s[q]>> \o @]
        BY <2>2, <3>4, Zenon
      <4>3. nxt[q] > q /\ nxt[q] \in a..b /\ nxt[q] \in Int
        BY <1>1, <2>0, <2>2, <4>1
      <4> HIDE DEF nxt, base, c, R
      <4> QED
        BY <3>1, <3>3, <4>1, <4>2, <4>3, Zenon
    <3>5. CASE Same(q) /\ Twice(q)
      <4>1. nxt[q] = q + 2
        BY <2>2, <3>5
      <4>2. \A f : Body(f, q) = [f[q + 2] EXCEPT !.val = <<s[p]>> \o @]
        BY <2>2, <3>5, Zenon
      <4>3. nxt[q] > q /\ nxt[q] \in a..b /\ nxt[q] \in Int
        BY <1>1, <2>0, <2>2, <4>1
      <4>4. c[q] = s[p]
        BY <3>1, <3>5
      <4> HIDE DEF nxt, base, c, R
      <4> QED
        BY <3>3, <4>1, <4>2, <4>3, <4>4, Zenon
    <3>6. CASE Same(q) /\ ~Twice(q)
      <4>1. nxt[q] = 0
        BY <2>2, <3>6
      <4>2. \A f : Body(f, q) = [val |-> <<>>, next |-> q + 1]
        BY <2>2, <3>6, Zenon
      <4>3. ~(nxt[q] > q) /\ nxt[q] \in Int
        BY <1>1, <2>0, <4>1
      <4> HIDE DEF nxt, base, c, R
      <4> QED
        BY <3>1, <3>3, <4>1, <4>2, <4>3, Zenon
    <3> QED
      BY <3>4, <3>5, <3>6
  <2> QED
    BY <2>1, <2>2
<1>a. \A q \in a..b : nxt[q] \in Int /\ base[q] \in R /\ c[q] \in B /\ (nxt[q] > q => nxt[q] \in a..b)
  BY <1>2, Zenon
<1> HIDE DEF nxt, base, c
<1>3. nxt \in [a..b -> Int] /\ base \in [a..b -> R]
  <2>1. nxt = [q \in a..b |-> nxt[q]] /\ base = [q \in a..b |-> base[q]]
    BY DEF nxt, base
  <2> HIDE DEF R
  <2> QED
    BY <1>a, <2>1
<1>4. ASSUME NEW q \in a..b, NEW r \in R PROVE [r EXCEPT !.val = <<c[q]>> \o @] \in R
  <2>1. <<c[q]>> \o r.val \in Seq(B)
    BY <1>a
  <2> DEFINE v == <<c[q]>> \o r.val
  <2>2. [r EXCEPT !.val = <<c[q]>> \o @] = [r EXCEPT !.val = v] /\ v \in Seq(B)
    BY <2>1
  <2> HIDE DEF v
  <2>3. [r EXCEPT !.val = v] \in R
    BY <2>2
  <2> QED
    BY <2>2, <2>3
<1>5. \A q \in a..b : \A r \in R : step[q][r] = [r EXCEPT !.val = <<c[q]>> \o @] /\ step[q][r] \in R
  <2> SUFFICES ASSUME NEW q \in a..b, NEW r \in R
               PROVE  step[q][r] = [r EXCEPT !.val = <<c[q]>> \o @] /\ step[q][r] \in R
    OBVIOUS
  <2>1. step[q][r] = [r EXCEPT !.val = <<c[q]>> \o @]
    BY Zenon
  <2> HIDE DEF step
  <2> QED
    BY <1>4, <2>1, Zenon
<1> HIDE DEF step, R, a, b
<1>f. PICK f \in [a..b -> R] : Continues(f, a, b, base, nxt, step)
  <2>1. \A q \in a..b : nxt[q] > q => nxt[q] \in a..b /\ \A r \in R : step[q][r] \in R
    BY <1>a, <1>5, Zenon
  <2> QED
    BY <1>1, <1>3, <2>1, Ahead, Zenon
<1>6. ASSUME NEW q \in a..b PROVE f[q] = Body(f, q)
  <2>1. f[q] = IF nxt[q] > q THEN step[q][f[nxt[q]]] ELSE base[q]
    BY <1>f DEF Continues
  <2>2. nxt[q] > q => step[q][f[nxt[q]]] = [f[nxt[q]] EXCEPT !.val = <<c[q]>> \o @]
    <3> SUFFICES ASSUME nxt[q] > q PROVE step[q][f[nxt[q]]] = [f[nxt[q]] EXCEPT !.val = <<c[q]>> \o @]
      OBVIOUS
    <3>1. f[nxt[q]] \in R
      BY <1>a, <1>f
    <3> QED
      BY <1>5, <3>1, Zenon
  <2>3. f[q] = IF nxt[q] > q THEN [f[nxt[q]] EXCEPT !.val = <<c[q]>> \o @] ELSE base[q]
    BY <2>1, <2>2, Zenon
  <2> QED
    BY <1>2, <2>3, Zenon
<1>7. Eq(f)
  <2>1. f = [q \in a..b |-> f[q]]
    BY <1>f
  <2> QED
    BY <1>6, <2>1, Zenon DEF a, b
<1>8. Eq(h)
  BY <1>7, Zenon
<1> HIDE DEF h
<1>9. ASSUME NEW q \in a..b PROVE h[q] = IF nxt[q] > q THEN [h[nxt[q]] EXCEPT !.val = <<c[q]>> \o @] ELSE base[q]
  <2>1. h[q] = Body(h, q)
    BY <1>8, Zenon DEF a, b
  <2> QED
    BY <1>2, <2>1, Zenon
<1> DEFINE S == {q \in a..b : h[q] \in R}
<1>10. ASSUME NEW q \in a..b, \A m \in (q + 1)..b : m \in S PROVE q \in S
  <2>1. CASE nxt[q] > q
    <3>1. nxt[q] \in (q + 1)..b
      BY <1>1, <1>a, <2>1
    <3>2. h[nxt[q]] \in R
      BY <1>10, <3>1
    <3>3. [h[nxt[q]] EXCEPT !.val = <<c[q]>> \o @] \in R
      BY <1>4, <3>2, Zenon
    <3>4. h[q] \in R
      BY <1>9, <2>1, <3>3, Zenon
    <3> QED
      BY <3>4
  <2>2. CASE ~(nxt[q] > q)
    <3>1. h[q] = base[q]
      BY <1>9, <2>2, Zenon
    <3> QED
      BY <1>a, <3>1
  <2> QED
    BY <2>1, <2>2
<1>11. a..b \subseteq S
  <2> HIDE DEF S
  <2> QED
    BY <1>1, <1>10, Downwards, Zenon
<1>12. h[a] \in R
  BY <1>1, <1>11
<1>13. ReadString(s, p).next = h[p + 1].next /\ ReadString(s, p).token.type = "STRING_LIT"
  BY DEF ReadString, Token, h
<1>14. ReadString(s, p).next \in (p + 1)..(n + 1)
  BY <1>12, <1>13 DEF R, a
<1> QED
  BY <1>13, <1>14 DEF Advances, FirstWord

\* No symbol begins a statement, and none has type ERROR.
LEMMA SymbolTypes ==
    ASSUME NEW v
    PROVE  SymbolType(v) \notin FirstWord
<1> DEFINE X == {"OP_LE", "OP_GE", "OP_NE", "OP_EQ", "OP_LT", "OP_GT", "LPAREN", "RPAREN", "COMMA",
                 "SEMICOLON", "STAR", "DOT", "none"}
<1>1. SymbolType(v) \in X
  BY DEF SymbolType
<1>2. X \cap FirstWord = {}
  BY DEF FirstWord
<1> HIDE DEF X
<1> QED
  BY <1>1, <1>2

\* The two characters at p, or the last one.
LEMMA PairAt ==
    ASSUME NEW B, NEW s, s \in Seq(B), NEW p, p \in 1..Len(s)
    PROVE  Len(SubSeq(s, p, Min({p + 1, Len(s)}))) \in 1..(Len(s) + 1 - p)
<1> DEFINE n == Len(s)
           e == Min({p + 1, n})
<1>1. n \in Nat /\ p \in Nat /\ p >= 1 /\ p <= n
  BY PlaceType
<1>2. e \in {p + 1, n} /\ e <= n /\ e >= p
  <2>1. e = IF p + 1 <= n THEN p + 1 ELSE n
    <3> DEFINE m == IF p + 1 <= n THEN p + 1 ELSE n
               A == {p + 1, n}
               Least(x) == x \in A /\ \A y \in A : x <= y
    <3>1. e = CHOOSE x \in A : \A y \in A : x <= y
      BY DEF Min
    <3>2. m \in A /\ \A y \in A : m <= y
      BY <1>1
    <3>3. \A x \in A : (\A y \in A : x <= y) => x = m
      BY <1>1
    <3> HIDE DEF A, m, e
    <3>4. e = m
      BY <3>1, <3>2, <3>3, Zenon
    <3> QED
      BY <3>4 DEF m
  <2> HIDE DEF e, n
  <2> QED
    BY <1>1, <2>1
<1> HIDE DEF e
<1>3. Len(SubSeq(s, p, e)) = e - p + 1
  BY <1>1, <1>2
<1>4. e - p + 1 \in 1..(n + 1 - p)
  <2> HIDE DEF n
  <2> QED
    BY <1>1, <1>2
<1> QED
  BY <1>3, <1>4, Zenon DEF e

\* Every turn of the loop reads at least one character or throws.
LEMMA TokenAdvances ==
    ASSUME NEW B, NEW s, s \in Seq(B), NEW p, p \in 1..Len(s)
    PROVE  Advances(ReadToken(s, p), s, p)
<1> DEFINE n == Len(s)
           c == s[p]
           two == SubSeq(s, p, Min({p + 1, Len(s)}))
           Word == c \in Letter \cup {"_"}
           Numeric == c \in Digit \/ (c = "-" /\ Peek(s, p + 1) \in Digit)
           InQuote == c \in Quote
           Two == SymbolType(two) # "none"
           One == SymbolType(two) = "none" /\ SymbolType(<<c>>) # "none"
           r == ReadToken(s, p)
           R2 == [token |-> Token(SymbolType(two), two, p), next |-> p + Len(two)]
           R1 == [token |-> Token(SymbolType(<<c>>), <<c>>, p), next |-> p + 1]
<1>1. n \in Nat /\ p \in Nat /\ p >= 1 /\ p <= n /\ Len(two) \in 1..(n + 1 - p)
  BY PlaceType, PairAt, Zenon
<1>2. Word => Advances(ReadIdentifierOrKeyword(s, p), s, p)
  BY WordAdvances
<1>3. Numeric => Advances(ReadNumber(s, p), s, p)
  BY NumberAdvances
<1>4. Advances(ReadString(s, p), s, p)
  BY StringAdvances
<1>5. Advances(R2, s, p)
  <2>1. R2.token.type = SymbolType(two) /\ R2.next = p + Len(two)
    BY DEF Token
  <2>2. p + Len(two) \in (p + 1)..(n + 1)
    <3> HIDE DEF n, two
    <3> QED
      BY <1>1
  <2> HIDE DEF R2, two
  <2> QED
    BY <2>1, <2>2, SymbolTypes, Zenon DEF Advances
<1>6. Advances(R1, s, p)
  <2>1. R1.token.type = SymbolType(<<c>>) /\ R1.next = p + 1
    BY DEF Token
  <2>2. p + 1 \in (p + 1)..(n + 1)
    <3> HIDE DEF n, two
    <3> QED
      BY <1>1
  <2> HIDE DEF R1, two
  <2> QED
    BY <2>1, <2>2, SymbolTypes, Zenon DEF Advances
<1>7. Advances(NoToken, s, p)
  BY DEF Advances, NoToken, Token, FirstWord
<1>8. r = CASE Word -> ReadIdentifierOrKeyword(s, p)
            [] Numeric -> ReadNumber(s, p)
            [] InQuote -> ReadString(s, p)
            [] Two -> R2
            [] One -> R1
            [] OTHER -> NoToken
  BY Zenon DEF ReadToken
<1> DEFINE W == ReadIdentifierOrKeyword(s, p)
           N == ReadNumber(s, p)
           Q == ReadString(s, p)
<1>10. r = CASE Word -> W [] Numeric -> N [] InQuote -> Q [] Two -> R2 [] One -> R1 [] OTHER -> NoToken
  BY <1>8, Zenon
<1> HIDE DEF r, R1, R2, two, Word, Numeric, InQuote, Two, One, W, N, Q
<1>9. \/ Word /\ r = ReadIdentifierOrKeyword(s, p)
      \/ Numeric /\ r = ReadNumber(s, p)
      \/ r = ReadString(s, p) \/ r = R2 \/ r = R1 \/ r = NoToken
  <2> SUFFICES (Word /\ r = W) \/ (Numeric /\ r = N) \/ r = Q \/ r = R2 \/ r = R1 \/ r = NoToken
    BY Zenon DEF W, N, Q
  <2>1. CASE Word \/ Numeric \/ InQuote \/ Two \/ One
    BY <1>10, <2>1
  <2>2. CASE ~(Word \/ Numeric \/ InQuote \/ Two \/ One)
    BY <1>10, <2>2
  <2> QED
    BY <2>1, <2>2
<1> QED
  BY <1>2, <1>3, <1>4, <1>5, <1>6, <1>7, <1>9, Zenon DEF r

\* The place behind white space.
LEMMA PlaceBehind ==
    ASSUME NEW n \in Nat, NEW p, p \in 1..(n + 1), NEW e, e \in (p - 1)..n
    PROVE  /\ e + 1 \in Int /\ e + 1 >= p /\ e + 1 <= n + 1 /\ p \in Int /\ p >= 1 /\ ~(0 > p) /\ 0 \in Int
           /\ ~(e + 1 > n) => e + 1 \in 1..n
OBVIOUS

\* A text is refused or its first token is no word that begins a statement.
LEMMA TextsBeginNothing ==
    ASSUME NEW B, NEW s, s \in Seq(B)
    PROVE  Tokenize(s) = <<>> \/ Tokenize(s)[1].type \notin FirstWord
<1> DEFINE n == Len(s)
           a == 1
           b == n + 1
           Q(p) == RunEnd(s, p, {" "}) + 1
           End == Token("END_OF_INPUT", <<>>, Len(s) + 1)
           tok == [p \in a..b |-> ReadToken(s, Q(p)).token]
           A == {x \in {tok[p] : p \in a..b} \cup {End} : x.type \notin FirstWord}
           R == Seq(A)
           Last1(p) == Q(p) > n
           nxt == [p \in a..b |-> IF Last1(p) THEN 0 ELSE IF ReadToken(s, Q(p)) = NoToken THEN 0 ELSE ReadToken(s, Q(p)).next]
           base == [p \in a..b |-> IF Last1(p) THEN <<End>> ELSE <<>>]
           step == [p \in a..b |-> [r \in R |-> IF r = <<>> THEN <<>> ELSE <<tok[p]>> \o r]]
           Body(f, p) == IF Q(p) > Len(s) THEN <<End>>
                         ELSE IF ReadToken(s, Q(p)) = NoToken \/ f[ReadToken(s, Q(p)).next] = <<>> THEN <<>>
                         ELSE <<ReadToken(s, Q(p)).token>> \o f[ReadToken(s, Q(p)).next]
           Eq(f) == f = [p \in 1..(Len(s) + 1) |-> Body(f, p)]
           h == CHOOSE f : Eq(f)
<1>1. n \in Nat /\ a \in Int /\ b \in Int /\ a \in a..b
  OBVIOUS
<1>e. End \in A
  BY DEF Token, FirstWord
<1>q. ASSUME NEW p \in a..b 
      PROVE  /\ Q(p) \in Int /\ Q(p) >= p /\ Q(p) <= n + 1 /\ p \in Int /\ p >= 1 /\ ~(0 > p) /\ 0 \in Int
             /\ ~(Q(p) > n) => Q(p) \in 1..n
  <2>1. RunEnd(s, p, {" "}) \in (p - 1)..n
    BY <1>1, RunEndType, Zenon
  <2> QED
    BY <1>1, <2>1, PlaceBehind, Zenon
<1>2. ASSUME NEW p \in a..b
      PROVE  /\ nxt[p] \in Int /\ base[p] \in R
             /\ nxt[p] > p => nxt[p] \in a..b /\ tok[p] \in A
             /\ \A f : Body(f, p) = IF nxt[p] > p THEN (IF f[nxt[p]] = <<>> THEN <<>> ELSE <<tok[p]>> \o f[nxt[p]]) ELSE base[p]
  <2>0. p \in Int /\ Q(p) \in Int /\ Q(p) >= p /\ p >= 1 /\ Q(p) <= n + 1 /\ ~(0 > p) /\ 0 \in Int
    BY <1>q, Zenon
  <2>t. tok[p] = ReadToken(s, Q(p)).token
    BY Zenon
  <2>1. CASE Last1(p)
    <3>1. nxt[p] = 0 /\ base[p] = <<End>>
      BY <2>1
    <3>2. \A f : Body(f, p) = <<End>>
      BY <2>1, Zenon
    <3>3. ~(nxt[p] > p) /\ nxt[p] \in Int
      BY <2>0, <3>1, Zenon
    <3> HIDE DEF A, nxt, base, End
    <3>4. <<End>> \in Seq(A)
      BY <1>e
    <3> HIDE DEF R
    <3> QED
      BY <3>1, <3>2, <3>3, <3>4, Zenon DEF R
  <2>2. CASE ~Last1(p) /\ ReadToken(s, Q(p)) = NoToken
    <3>1. nxt[p] = 0 /\ base[p] = <<>>
      BY <2>2
    <3>2. \A f : Body(f, p) = <<>>
      BY <2>2, Zenon
    <3>3. ~(nxt[p] > p) /\ nxt[p] \in Int
      BY <2>0, <3>1, Zenon
    <3> HIDE DEF A, nxt, base, End
    <3>4. <<>> \in Seq(A)
      OBVIOUS
    <3> HIDE DEF R
    <3> QED
      BY <3>1, <3>2, <3>3, <3>4, Zenon DEF R
  <2>3. CASE ~Last1(p) /\ ReadToken(s, Q(p)) # NoToken
    <3>1. nxt[p] = ReadToken(s, Q(p)).next /\ base[p] = <<>>
      BY <2>3
    <3>2. Q(p) \in 1..n
      BY <1>q, <2>3, Zenon
    <3>3. Advances(ReadToken(s, Q(p)), s, Q(p))
      BY <3>2, TokenAdvances, Zenon
    <3>4. nxt[p] \in (Q(p) + 1)..(n + 1) /\ tok[p].type \notin FirstWord
      BY <2>3, <2>t, <3>1, <3>3, Zenon DEF Advances
    <3>5. tok[p] \in A
      BY <3>4, Zenon
    <3>6. \A f : Body(f, p) = IF f[nxt[p]] = <<>> THEN <<>> ELSE <<tok[p]>> \o f[nxt[p]]
      BY <2>3, <2>t, <3>1, Zenon
    <3> HIDE DEF nxt, base, A, tok, End, Q
    <3>7. nxt[p] > p /\ nxt[p] \in a..b /\ nxt[p] \in Int
      BY <1>1, <2>0, <3>4
    <3>8. <<>> \in Seq(A)
      OBVIOUS
    <3> HIDE DEF R
    <3> QED
      BY <3>1, <3>5, <3>6, <3>7, <3>8, Zenon DEF R
  <2> QED
    BY <2>1, <2>2, <2>3
<1>a. \A p \in a..b : nxt[p] \in Int /\ base[p] \in R /\ (nxt[p] > p => nxt[p] \in a..b /\ tok[p] \in A)
  BY <1>2, Zenon
<1>3. nxt \in [a..b -> Int] /\ base \in [a..b -> R]
  <2>1. nxt = [p \in a..b |-> nxt[p]] /\ base = [p \in a..b |-> base[p]]
    BY Zenon
  <2> HIDE DEF R, nxt, base
  <2> QED
    BY <1>a, <2>1
<1> HIDE DEF nxt, base, tok, A
<1>4. ASSUME NEW p \in a..b, nxt[p] > p, NEW r \in R PROVE (IF r = <<>> THEN <<>> ELSE <<tok[p]>> \o r) \in R
  <2>1. tok[p] \in A
    BY <1>a, <1>4
  <2> DEFINE x == tok[p]
  <2>2. x \in A
    BY <2>1
  <2> HIDE DEF x
  <2>3. <<x>> \o r \in Seq(A) /\ <<>> \in Seq(A)
    BY <2>2
  <2> QED
    BY <2>3, Zenon DEF x
<1>5. ASSUME NEW p \in a..b, NEW r \in R PROVE step[p][r] = IF r = <<>> THEN <<>> ELSE <<tok[p]>> \o r
  BY Zenon
<1> HIDE DEF step, R, a, b
<1>f. PICK f \in [a..b -> R] : Continues(f, a, b, base, nxt, step)
  <2>1. \A p \in a..b : nxt[p] > p => nxt[p] \in a..b /\ \A r \in R : step[p][r] \in R
    <3> SUFFICES ASSUME NEW p \in a..b, nxt[p] > p PROVE nxt[p] \in a..b /\ \A r \in R : step[p][r] \in R
      OBVIOUS
    <3>1. \A r \in R : step[p][r] \in R
      <4> SUFFICES ASSUME NEW r \in R PROVE step[p][r] \in R
        OBVIOUS
      <4>1. (IF r = <<>> THEN <<>> ELSE <<tok[p]>> \o r) \in R
        BY <1>4, Zenon
      <4> QED
        BY <1>5, <4>1, Zenon
    <3> QED
      BY <1>a, <3>1, Zenon
  <2> QED
    BY <1>1, <1>3, <2>1, Ahead, Zenon
<1>6. ASSUME NEW p \in a..b PROVE f[p] = Body(f, p)
  <2>1. f[p] = IF nxt[p] > p THEN step[p][f[nxt[p]]] ELSE base[p]
    BY <1>f DEF Continues
  <2>2. nxt[p] > p => step[p][f[nxt[p]]] = IF f[nxt[p]] = <<>> THEN <<>> ELSE <<tok[p]>> \o f[nxt[p]]
    <3> SUFFICES ASSUME nxt[p] > p PROVE step[p][f[nxt[p]]] = IF f[nxt[p]] = <<>> THEN <<>> ELSE <<tok[p]>> \o f[nxt[p]]
      OBVIOUS
    <3>1. f[nxt[p]] \in R
      BY <1>a, <1>f
    <3> QED
      BY <1>5, <3>1, Zenon
  <2>3. f[p] = IF nxt[p] > p THEN (IF f[nxt[p]] = <<>> THEN <<>> ELSE <<tok[p]>> \o f[nxt[p]]) ELSE base[p]
    BY <2>1, <2>2, Zenon
  <2> QED
    BY <1>2, <2>3, Zenon
<1>7. Eq(f)
  <2>1. f = [p \in a..b |-> f[p]]
    BY <1>f
  <2> QED
    BY <1>6, <2>1, Zenon DEF a, b
<1>8. Eq(h)
  BY <1>7, Zenon
<1>t. Tokenize(s) = h[1]
  BY Zenon DEF Tokenize, h
<1> HIDE DEF h
<1>9. ASSUME NEW p \in a..b
      PROVE  h[p] = IF nxt[p] > p THEN (IF h[nxt[p]] = <<>> THEN <<>> ELSE <<tok[p]>> \o h[nxt[p]]) ELSE base[p]
  <2>1. h[p] = Body(h, p)
    BY <1>8, Zenon DEF a, b
  <2> QED
    BY <1>2, <2>1, Zenon
<1> DEFINE S == {p \in a..b : h[p] \in R}
<1>10. ASSUME NEW p \in a..b, \A m \in (p + 1)..b : m \in S PROVE p \in S
  <2>1. CASE nxt[p] > p
    <3>1. nxt[p] \in (p + 1)..b
      BY <1>1, <1>a, <2>1
    <3>2. h[nxt[p]] \in R
      BY <1>10, <3>1
    <3>3. (IF h[nxt[p]] = <<>> THEN <<>> ELSE <<tok[p]>> \o h[nxt[p]]) \in R
      BY <1>4, <2>1, <3>2, Zenon
    <3>4. h[p] \in R
      BY <1>9, <2>1, <3>3, Zenon
    <3> QED
      BY <3>4
  <2>2. CASE ~(nxt[p] > p)
    <3>1. h[p] = base[p]
      BY <1>9, <2>2, Zenon
    <3> QED
      BY <1>a, <3>1
  <2> QED
    BY <2>1, <2>2
<1>11. a..b \subseteq S
  <2> HIDE DEF S
  <2> QED
    BY <1>1, <1>10, Downwards, Zenon
<1>12. h[1] \in R
  BY <1>1, <1>11 DEF a
<1>13. h[1] = <<>> \/ h[1][1] \in A
  <2> DEFINE v == h[1]
  <2>1. v \in Seq(A)
    BY <1>12 DEF R
  <2> HIDE DEF v
  <2>2. v = <<>> \/ v[1] \in A
    BY <2>1
  <2> QED
    BY <2>2 DEF v
<1>14. \A x \in A : x.type \notin FirstWord
  BY Zenon DEF A
<1> QED
  BY <1>t, <1>13, <1>14, Zenon

-----------------------------------------------------------------------------
(* The session.                                                            *)

\* Where execute_sql() is, within the bounds of its scenario.
PhaseOK ==
    /\ scenario \in DOMAIN Scenarios
    /\ phase \in {"idle", "text", "tokens", "create", "drop", "insert", "select", "sort", "limit",
                  "update", "delete", "show", "describe"}
    /\ count \in 0..Scenarios[scenario].length
    /\ status \in {None, "ok", "error"}

\* What the tokenizer and the parser are given.  A text's tokens may not be Readable: a number's
\* value is its digits there; but they begin no statement.
SentOK ==
    /\ phase = "text" => text \in Seq(STRING)
    /\ phase = "tokens" => tokens[1].type \notin FirstWord \/ Readable(tokens)

\* The statement in execution.
StmtOK ==
    phase \notin {"idle", "text", "tokens"} =>
        /\ stmt \in Statement
        /\ stmt.kind = IF phase \in {"sort", "limit"} THEN "select" ELSE phase
        /\ phase = "create" /\ stmt.primary_key # <<>> => KeyMarked(stmt)

\* The stored schema is one, with a primary key that is NOT NULL.
TableOK == catalog # None => Schema \in TableSchema /\ KeyMarked(Schema)

\* A row that a scan sees belongs to a table and fits it.
RowsOK == \A k \in ScanKeys : catalog # None /\ Fits(Deserialize(data[k]), Schema)

\* Between filter and sort the answer of SELECT * holds whole rows.
AnswerOK ==
    phase = "sort" /\ stmt.columns = <<>> => catalog # None /\ \A r \in Range(result) : Fits(r, Schema)

\* Inductive.
SessionInv == PhaseOK /\ SentOK /\ StmtOK /\ TableOK /\ RowsOK /\ AnswerOK

\* A schema is kept as bytes, so a table that exists is not None.
LEMMA SchemaBytes ==
    ASSUME NEW schema, schema \in TableSchema
    PROVE  SchemaSerialize(schema) # None
<1> DEFINE cols == schema.columns
           n == Len(cols)
           seqs == [i \in DOMAIN cols |-> ColumnBytes(cols[i])]
           a == Sized(schema.table_name)
           b == Sized(schema.primary_key)
           c == U32(n)
           d == FlattenSeq(seqs)
<1>1. cols \in Seq(ColumnDef) /\ schema.table_name \in Text /\ schema.primary_key \in Text
  BY DEF TableSchema
<1>2. SchemaSerialize(schema) = a \o b \o c \o d
  BY DEF SchemaSerialize
<1> HIDE DEF cols
<1>3. n \in Int /\ DOMAIN cols = 1..n /\ n \in Nat /\ \A i \in 1..n : cols[i] \in ColumnDef
  BY <1>1
<1>4. seqs \in Seq(Seq(Int))
  BY <1>3, ColumnBytesAre
<1> HIDE DEF seqs, n
<1>5. a \in Seq(Int) /\ b \in Seq(Int) /\ c \in Seq(Int) /\ d \in Seq(Int)
  BY <1>1, <1>3, <1>4, SizedBytes, U32Bytes, FlattenType, Zenon
<1> HIDE DEF a, b, c, d
<1>6. a \o b \o c \o d \in Text
  BY <1>5 DEF Text
<1> QED
  BY <1>2, <1>6, StatementConstants

\* An answer leaves nothing to say of texts, statements and rows in work.
LEMMA Answered ==
    ASSUME PhaseOK, UNCHANGED <<scenario, count>>, NEW st \in {"ok", "error"}, Answer(st)
    PROVE  PhaseOK' /\ SentOK' /\ StmtOK' /\ AnswerOK'
BY DEF PhaseOK, SentOK, StmtOK, AnswerOK, Answer

\* Tables and rows are a matter of the catalog and the data alone.
LEMMA Kept ==
    ASSUME TableOK, RowsOK, catalog' = catalog, data' = data
    PROVE  TableOK' /\ RowsOK'
BY DEF TableOK, RowsOK, ScanKeys, Schema

\* The schema is a matter of the catalog alone.
LEMMA KeptTable ==
    ASSUME TableOK, catalog' = catalog
    PROVE  TableOK' /\ Schema' = Schema
BY DEF TableOK, Schema

\* Rows that are taken away or stay as they are.
LEMMA FewerRows ==
    ASSUME RowsOK, catalog' = catalog, NEW K, data' = [k \in DOMAIN data \ K |-> data[k]]
    PROVE  RowsOK'
<1>1. ASSUME NEW k \in ScanKeys' PROVE k \in ScanKeys /\ data'[k] = data[k]
  BY DEF ScanKeys
<1>2. Schema' = Schema
  BY DEF Schema
<1> QED
  BY <1>1, <1>2 DEF RowsOK

\* A new row that fits.
LEMMA MoreRows ==
    ASSUME RowsOK, catalog # None, Schema \in TableSchema, catalog' = catalog, NEW pk, NEW row, Fits(row, Schema),
           data' = [k \in DOMAIN data \cup {FormatPk(pk)} |-> IF k = FormatPk(pk) THEN Serialize(row) ELSE data[k]]
    PROVE  RowsOK'
<1>0. Schema' = Schema
  BY DEF Schema
<1>1. Deserialize(Serialize(row)) = row
  BY RowsSurvive DEF Fits
<1> SUFFICES ASSUME NEW k \in ScanKeys' PROVE catalog' # None /\ Fits(Deserialize(data'[k]), Schema')
  BY DEF RowsOK
<1>2. CASE k = FormatPk(pk)
  <2>1. data'[k] = Serialize(row)
    BY <1>2
  <2> QED
    BY <1>0, <1>1, <2>1
<1>3. CASE k # FormatPk(pk)
  <2>1. k \in ScanKeys /\ data'[k] = data[k]
    BY <1>3 DEF ScanKeys
  <2> QED
    BY <1>0, <2>1 DEF RowsOK
<1> QED
  BY <1>2, <1>3

\* A scenario begins with a table and rows that fit it, or with neither.
LEMMA SessionInit == ASSUME Init PROVE SessionInv
<1> DEFINE s == Scenarios[scenario]
           K == {FormatPk(r[1]) : r \in s.rows}
<1>1. /\ scenario \in DOMAIN Scenarios /\ s.length \in Nat
      /\ s.schema = None => s.rows = {}
      /\ s.schema # None => /\ s.schema \in TableSchema /\ KeyMarked(s.schema)
                            /\ \A r \in s.rows : r \in Seq(Values) /\ Len(r) = Len(s.schema.columns)
  BY StatementConstants DEF Init
<1>2. phase = "idle" /\ count = 0 /\ status = None
  BY DEF Init
<1>3. /\ catalog = IF s.schema = None THEN None ELSE SchemaSerialize(s.schema)
      /\ data = [k \in K |-> Serialize(CHOOSE r \in s.rows : FormatPk(r[1]) = k)]
  BY DEF Init
<1> HIDE DEF s
<1>4. PhaseOK /\ SentOK /\ StmtOK /\ AnswerOK
  <2>1. count \in 0..Scenarios[scenario].length
    BY <1>1, <1>2 DEF s
  <2> QED
    BY <1>1, <1>2, <2>1 DEF PhaseOK, SentOK, StmtOK, AnswerOK
<1>5. s.schema # None => Schema = s.schema /\ catalog # None
  BY <1>1, <1>3, SchemasSurvive, SchemaBytes DEF Schema
<1>6. TableOK
  BY <1>1, <1>3, <1>5 DEF TableOK
<1>7. RowsOK
  <2> SUFFICES ASSUME NEW k \in ScanKeys PROVE catalog # None /\ Fits(Deserialize(data[k]), Schema)
    BY DEF RowsOK
  <2> DEFINE row == CHOOSE r \in s.rows : FormatPk(r[1]) = k
  <2>1. k \in K /\ data[k] = Serialize(row)
    BY <1>3 DEF ScanKeys
  <2>2. row \in s.rows
    BY <2>1
  <2> HIDE DEF row
  <2>3. s.schema # None
    BY <1>1, <2>2
  <2>4. row \in Seq(Values) /\ Len(row) = Len(Schema.columns)
    BY <1>1, <1>5, <2>2, <2>3
  <2> QED
    BY <1>5, <2>1, <2>3, <2>4, RowsSurvive DEF Fits
<1> QED
  BY <1>4, <1>6, <1>7 DEF SessionInv

\* Submitted texts, statements and slips are what the scenario says.
LEMMA SubmitKeeps ==
    ASSUME SessionInv, Idle,
           \/ \E s \in Scenarios[scenario].texts : SubmitText(s)
           \/ \E s \in Scenarios[scenario].statements : Submit(s)
           \/ \E s \in Scenarios[scenario].statements, t \in Scenarios[scenario].slips :
                  \E i \in 1..Len(Write(s)) : SubmitSlip(s, i, t)
    PROVE  SessionInv'
<1> DEFINE sc == Scenarios[scenario]
<1>1. /\ sc.length \in Nat /\ sc.texts \subseteq Seq(STRING)
      /\ sc.statements \subseteq Statement /\ sc.slips \subseteq Tokens
  BY StatementConstants DEF SessionInv, PhaseOK
<1>2. /\ count' = count + 1 /\ scenario' = scenario /\ status' = status /\ catalog' = catalog /\ data' = data
      /\ phase' \in {"text", "tokens"}
  BY DEF SubmitText, Submit, SubmitSlip, stored
<1>3. PhaseOK'
  <2>1. count' \in 0..Scenarios[scenario].length
    <3>1. count \in 0..sc.length /\ count < sc.length
      BY DEF SessionInv, PhaseOK, Idle
    <3> HIDE DEF sc
    <3>2. count + 1 \in 0..sc.length
      BY <1>1, <3>1
    <3> QED
      BY <1>2, <3>2 DEF sc
  <2> QED
    BY <1>2, <2>1 DEF SessionInv, PhaseOK
<1>4. SentOK'
  <2>1. ASSUME NEW s \in sc.texts, SubmitText(s) PROVE SentOK'
    BY <1>1, <2>1 DEF SubmitText, SentOK
  <2>2. ASSUME NEW s \in sc.statements, Submit(s) PROVE SentOK'
    <3>1. Readable(Write(s))
      BY <1>1, WriteReadable
    <3>2. phase' = "tokens" /\ tokens' = Write(s)
      BY <2>2 DEF Submit
    <3>3. Readable(tokens')
      BY <3>1, <3>2
    <3> QED
      BY <3>2, <3>3 DEF SentOK, Readable
  <2>3. ASSUME NEW s \in sc.statements, NEW t \in sc.slips, NEW i \in 1..Len(Write(s)), SubmitSlip(s, i, t)
        PROVE  SentOK'
    <3>1. Readable(Write(s)) /\ t \in Tokens
      BY <1>1, WriteReadable
    <3>2. /\ phase' = "tokens" /\ i < Len(Write(s))
          /\ tokens' \in {RemoveAt(Write(s), i), ReplaceAt(Write(s), i, t), InsertAt(Write(s), i, t)}
      BY <2>3 DEF SubmitSlip
    <3>3. Readable(tokens')
      BY <3>1, <3>2, SlipReadable
    <3> QED
      BY <3>2, <3>3 DEF SentOK, Readable
  <2> QED
    BY <2>1, <2>2, <2>3
<1>5. StmtOK' /\ AnswerOK'
  BY <1>2 DEF StmtOK, AnswerOK
<1>6. TableOK' /\ RowsOK'
  BY <1>2, Kept DEF SessionInv
<1> QED
  BY <1>3, <1>4, <1>5, <1>6 DEF SessionInv

\* tokenize() gives tokens that begin no statement.
LEMMA TokenizeKeeps ==
    ASSUME SessionInv, TokenizeText
    PROVE  SessionInv'
<1>1. tokens' = Tokenize(text) /\ UNCHANGED <<scenario, count, catalog, data>> /\ phase = "text"
  BY DEF TokenizeText, stored
<1>2. tokens' = <<>> \/ tokens'[1].type \notin FirstWord
  BY <1>1, TextsBeginNothing DEF SessionInv, SentOK
<1>3. TableOK' /\ RowsOK'
  BY <1>1, Kept DEF SessionInv
<1>4. CASE tokens' = <<>>
  <2>1. Answer("error")
    BY <1>4 DEF TokenizeText
  <2> QED
    BY <1>1, <1>3, <2>1, Answered DEF SessionInv
<1>5. CASE tokens' # <<>>
  <2>1. phase' = "tokens" /\ status' = status
    BY <1>5 DEF TokenizeText
  <2>2. SentOK' /\ StmtOK' /\ AnswerOK'
    BY <1>2, <1>5, <2>1 DEF SentOK, StmtOK, AnswerOK
  <2>3. PhaseOK'
    BY <1>1, <2>1 DEF SessionInv, PhaseOK
  <2> QED
    BY <1>3, <2>2, <2>3 DEF SessionInv
<1> QED
  BY <1>4, <1>5

\* The parser gives a well-formed statement of the kind that is executed next.
LEMMA ParseKeeps ==
    ASSUME SessionInv, Parse
    PROVE  SessionInv'
<1> DEFINE r == ParseStatement(tokens)
           s == r.val
<1>1. phase = "tokens" /\ UNCHANGED <<scenario, count, catalog, data>>
  BY DEF Parse, stored
<1>2. IF Fails(r) THEN Answer("error") /\ UNCHANGED stmt
      ELSE stmt' = s /\ phase' = s.kind /\ UNCHANGED status
  BY DEF Parse
<1> HIDE DEF r
<1>3. TableOK' /\ RowsOK'
  BY <1>1, Kept DEF SessionInv
<1>4. CASE Fails(r)
  <2>1. Answer("error")
    BY <1>2, <1>4
  <2> QED
    BY <1>1, <1>3, <2>1, Answered DEF SessionInv
<1>5. CASE ~Fails(r)
  <2>1. Readable(tokens)
    <3>1. tokens[1].type \notin FirstWord => Fails(r)
      BY NotAStatement DEF r
    <3> QED
      BY <1>1, <1>5, <3>1 DEF SessionInv, SentOK
  <2>2. s \in Statement /\ (s.kind = "create" /\ s.primary_key # <<>> => KeyMarked(s))
    BY <1>5, <2>1, ParserTyped DEF r
  <2>3. s.kind \in {"create", "drop", "insert", "select", "update", "delete", "show", "describe"}
    BY <2>2, StatementForms
  <2>4. stmt' = s /\ phase' = s.kind /\ status' = status
    BY <1>2, <1>5
  <2> HIDE DEF s
  <2>5. StmtOK'
    <3>1. KeyMarked(s) => KeyMarked(stmt)'
      BY <2>4 DEF KeyMarked
    <3> QED
      BY <2>2, <2>3, <2>4, <3>1 DEF StmtOK
  <2>6. PhaseOK' /\ SentOK' /\ AnswerOK'
    BY <1>1, <2>3, <2>4 DEF SessionInv, PhaseOK, SentOK, AnswerOK
  <2> QED
    BY <1>3, <2>5, <2>6 DEF SessionInv
<1> QED
  BY <1>4, <1>5

\* CREATE TABLE stores a schema with a marked key, and finds no rows to be seen.
LEMMA CreateKeeps ==
    ASSUME SessionInv, ExecCreateTable
    PROVE  SessionInv'
<1>1. phase = "create" /\ UNCHANGED <<scenario, count, data>>
  BY DEF ExecCreateTable
<1>2. CASE stmt.columns = <<>> \/ stmt.primary_key = <<>> \/ catalog # None
  <2>1. Answer("error") /\ catalog' = catalog
    BY <1>2 DEF ExecCreateTable
  <2>2. TableOK' /\ RowsOK'
    BY <1>1, <2>1, Kept DEF SessionInv
  <2> QED
    BY <1>1, <2>1, <2>2, Answered DEF SessionInv
<1>3. CASE ~(stmt.columns = <<>> \/ stmt.primary_key = <<>> \/ catalog # None)
  <2> DEFINE new == NewSchema(stmt)
  <2>1. catalog' = SchemaSerialize(new) /\ Answer("ok")
    BY <1>3 DEF ExecCreateTable
  <2>2. stmt \in Statement /\ stmt.kind = "create" /\ KeyMarked(stmt)
    BY <1>1, <1>3 DEF SessionInv, StmtOK
  <2>3. new \in TableSchema /\ new.columns = stmt.columns /\ new.primary_key = stmt.primary_key
    BY <2>2, StatementForms DEF NewSchema, TableSchema
  <2>4. KeyMarked(new)
    BY <2>2, <2>3 DEF KeyMarked
  <2> HIDE DEF new
  <2>5. Schema' = new
    BY <2>1, <2>3, SchemasSurvive DEF Schema
  <2>6. TableOK'
    BY <2>3, <2>4, <2>5 DEF TableOK, KeyMarked
  <2>7. ScanKeys' = {}
    <3>1. ScanKeys = {}
      BY <1>3 DEF SessionInv, RowsOK
    <3>2. ScanKeys' = ScanKeys
      BY <1>1 DEF ScanKeys
    <3> QED
      BY <3>1, <3>2
  <2>8. RowsOK'
    BY <2>7 DEF RowsOK
  <2> QED
    BY <1>1, <2>1, <2>6, <2>8, Answered DEF SessionInv
<1> QED
  BY <1>2, <1>3

\* DROP TABLE leaves no row that a scan sees.
LEMMA DropKeeps ==
    ASSUME SessionInv, ExecDropTable
    PROVE  SessionInv'
<1>1. phase = "drop" /\ UNCHANGED <<scenario, count>>
  BY DEF ExecDropTable
<1>2. CASE Exists
  <2>1. catalog' = None /\ data' = [k \in DOMAIN data \ ScanKeys |-> data[k]] /\ Answer("ok")
    BY <1>2 DEF ExecDropTable
  <2>2. ScanKeys' = {}
    BY <2>1 DEF ScanKeys
  <2>3. TableOK' /\ RowsOK'
    BY <2>1, <2>2 DEF TableOK, RowsOK
  <2> QED
    BY <1>1, <2>1, <2>3, Answered DEF SessionInv
<1>3. CASE ~Exists
  <2>1. Answer(IF stmt.if_exists THEN "ok" ELSE "error") /\ catalog' = catalog /\ data' = data
    BY <1>3 DEF ExecDropTable, stored
  <2>2. PICK st \in {"ok", "error"} : Answer(st)
    <3>1. CASE stmt.if_exists
      BY <2>1, <3>1
    <3>2. CASE ~stmt.if_exists
      BY <2>1, <3>2
    <3> QED
      BY <3>1, <3>2
  <2>3. TableOK' /\ RowsOK'
    BY <2>1, Kept DEF SessionInv
  <2> QED
    BY <1>1, <2>2, <2>3, Answered DEF SessionInv
<1> QED
  BY <1>2, <1>3

\* INSERT stores a row that fits, under a key that it gave.
LEMMA InsertKeeps ==
    ASSUME SessionInv, ExecInsert
    PROVE  SessionInv'
<1> DEFINE i == FindColumn(Schema, Schema.primary_key)
           row == BuildRow(Schema, stmt)
<1>1. phase = "insert" /\ UNCHANGED <<scenario, count, catalog>>
  BY DEF ExecInsert
<1>2. TableOK'
  BY <1>1, KeptTable DEF SessionInv
<1>3. SUFFICES (\E st \in {"ok", "error"} : Answer(st)) /\ RowsOK'
  BY <1>1, <1>2, Answered DEF SessionInv
<1>4. ASSUME Answer("error"), data' = data PROVE (\E st \in {"ok", "error"} : Answer(st)) /\ RowsOK'
  BY <1>1, <1>4, Kept DEF SessionInv
<1>5. CASE ~Exists \/ InsertRefused(Schema, stmt)
  <2>1. Answer("error") /\ data' = data
    BY <1>5 DEF ExecInsert
  <2> QED
    BY <1>4, <2>1
<1>6. CASE ~(~Exists \/ InsertRefused(Schema, stmt))
  <2>1. catalog # None /\ Schema \in TableSchema /\ KeyMarked(Schema)
    BY <1>6 DEF SessionInv, TableOK, Exists
  <2>2. stmt.columns \in Seq(Text) /\ stmt.values \in Seq(Values)
    BY <1>1, StatementForms DEF SessionInv, StmtOK
  <2>3. Fits(row, Schema)
    BY <1>6, <2>1, <2>2, BuildRowFits
  <2>4. ~KeyGenerated(Schema, stmt)
    BY <1>6, <2>1, KeysNeverGenerated DEF TableSchema
  <2>5. IF KeyGiven(Schema, stmt) THEN PutRow(row[i], row) ELSE Answer("error") /\ data' = data
    BY <1>6, <2>4 DEF ExecInsert
  <2> HIDE DEF i, row
  <2>6. CASE KeyGiven(Schema, stmt)
    <3> DEFINE pk == row[i]
    <3>1. PutRow(pk, row)
      BY <2>5, <2>6
    <3> HIDE DEF pk
    <3>2. CASE FormatPk(pk) \in DOMAIN data
      <4>1. Answer("error") /\ data' = data
        BY <3>1, <3>2 DEF PutRow
      <4> QED
        BY <1>4, <4>1
    <3>3. CASE FormatPk(pk) \notin DOMAIN data
      <4>1. /\ data' = [k \in DOMAIN data \cup {FormatPk(pk)} |-> IF k = FormatPk(pk) THEN Serialize(row) ELSE data[k]]
            /\ Answer("ok")
        BY <3>1, <3>3 DEF PutRow
      <4>2. RowsOK'
        BY <1>1, <2>1, <2>3, <4>1, MoreRows DEF SessionInv
      <4> QED
        BY <4>1, <4>2
    <3> QED
      BY <3>2, <3>3
  <2>7. CASE ~KeyGiven(Schema, stmt)
    BY <1>4, <2>5, <2>7
  <2> QED
    BY <2>6, <2>7
<1> QED
  BY <1>5, <1>6

\* The rows of SELECT * are whole.
LEMMA WholeRows ==
    ASSUME Schema \in TableSchema, NEW s, s.columns = <<>>, Projection(s) # <<>>, NEW row, Fits(row, Schema)
    PROVE  Fits([i \in DOMAIN Projection(s) |-> row[Projection(s)[i]]], Schema)
<1> DEFINE cols == [i \in DOMAIN Schema.columns |-> Schema.columns[i].name]
           at == [i \in DOMAIN cols |-> FindColumn(Schema, cols[i])]
           new == [i \in DOMAIN at |-> row[at[i]]]
<1>1. Columns(Schema, s) = cols
  BY DEF Columns
<1>2. Projection(s) = at /\ 0 \notin Range(at)
  BY <1>1 DEF Projection
<1>3. Schema.columns \in Seq(ColumnDef)
  BY DEF TableSchema
<1>4. ASSUME NEW i \in DOMAIN Schema.columns PROVE row[at[i]] \in Values
  <2>1. at[i] = FindColumn(Schema, cols[i]) /\ at[i] # 0
    BY <1>2 DEF Range
  <2>2. at[i] \in DOMAIN Schema.columns
    BY <1>3, <2>1, FoundColumn
  <2>3. row \in [DOMAIN Schema.columns -> Values]
    BY FitsForms
  <2> HIDE DEF at
  <2> QED
    BY <2>2, <2>3
<1>5. DOMAIN at = DOMAIN Schema.columns
  OBVIOUS
<1> HIDE DEF at
<1>6. new \in [DOMAIN Schema.columns -> Values]
  BY <1>4, <1>5
<1> HIDE DEF new
<1>7. Fits(new, Schema)
  BY <1>6, FitsForms
<1> QED
  BY <1>2, <1>7 DEF new

\* SELECT * collects whole rows.
LEMMA FilterKeeps ==
    ASSUME SessionInv, FilterRows
    PROVE  SessionInv'
<1> DEFINE at == Projection(stmt)
<1>1. phase = "select" /\ UNCHANGED <<scenario, count, stmt, catalog, data>>
  BY DEF FilterRows, stored
<1>2. TableOK' /\ RowsOK' /\ Schema' = Schema
  BY <1>1, Kept, KeptTable DEF SessionInv
<1>3. CASE ~Exists \/ at = <<>>
  <2>1. Answer("error")
    BY <1>3 DEF FilterRows
  <2> QED
    BY <1>1, <1>2, <2>1, Answered DEF SessionInv
<1>4. CASE ~(~Exists \/ at = <<>>)
  <2>1. PICK keys \in InOrder(Matching(stmt.where)) :
            /\ result' = [n \in DOMAIN keys |-> [i \in DOMAIN at |-> Deserialize(data[keys[n]])[at[i]]]]
            /\ phase' = "sort"
            /\ UNCHANGED status
    BY <1>4 DEF FilterRows
  <2>2. \A n \in DOMAIN keys : keys[n] \in Matching(stmt.where)
    BY DEF InOrder, SetToSeqs
  <2>3. \A n \in DOMAIN keys : Fits(Deserialize(data[keys[n]]), Schema)
    BY <2>2 DEF Matching, SessionInv, RowsOK
  <2>4. catalog # None /\ Schema \in TableSchema
    BY <1>4 DEF SessionInv, TableOK, Exists
  <2>5. stmt.columns = <<>> => \A r \in Range(result') : Fits(r, Schema)
    <3> SUFFICES ASSUME stmt.columns = <<>>, NEW r \in Range(result') PROVE Fits(r, Schema)
      OBVIOUS
    <3>1. PICK n \in DOMAIN keys : r = [i \in DOMAIN at |-> Deserialize(data[keys[n]])[at[i]]]
      BY <2>1 DEF Range
    <3>2. Fits(Deserialize(data[keys[n]]), Schema)
      BY <2>3
    <3> QED
      BY <1>4, <2>4, <3>1, <3>2, WholeRows
  <2>6. AnswerOK'
    BY <1>1, <1>2, <2>4, <2>5 DEF AnswerOK, Fits
  <2>7. PhaseOK' /\ SentOK'
    BY <1>1, <2>1 DEF SessionInv, PhaseOK, SentOK
  <2>8. StmtOK'
    BY <1>1, <2>1 DEF SessionInv, StmtOK
  <2> QED
    BY <1>2, <2>6, <2>7, <2>8 DEF SessionInv
<1> QED
  BY <1>3, <1>4

\* The sort only arranges the answer.
LEMMA SortKeeps ==
    ASSUME SessionInv, SortRows
    PROVE  SessionInv'
<1>1. phase = "sort" /\ UNCHANGED <<scenario, count, stmt, catalog, data>>
  BY DEF SortRows, stored
<1>2. TableOK' /\ RowsOK'
  BY <1>1, Kept DEF SessionInv
<1>3. CASE stmt.order_by # <<>> /\ OrderIndex(stmt) = 0
  <2>1. Answer("error")
    BY <1>3 DEF SortRows
  <2> QED
    BY <1>1, <1>2, <2>1, Answered DEF SessionInv
<1>4. CASE ~(stmt.order_by # <<>> /\ OrderIndex(stmt) = 0)
  <2>1. phase' = "limit" /\ status' = status
    BY <1>4 DEF SortRows
  <2>2. PhaseOK' /\ SentOK' /\ AnswerOK'
    BY <1>1, <2>1 DEF SessionInv, PhaseOK, SentOK, AnswerOK
  <2>3. StmtOK'
    BY <1>1, <2>1 DEF SessionInv, StmtOK
  <2> QED
    BY <1>2, <2>2, <2>3 DEF SessionInv
<1> QED
  BY <1>3, <1>4

\* UPDATE writes back rows that fit.
LEMMA UpdateKeeps ==
    ASSUME SessionInv, ExecUpdate
    PROVE  SessionInv'
<1> DEFINE keys == Matching(stmt.where)
           Bad == \E a \in Range(stmt.assignments) : FindColumn(Schema, a.column) = 0
<1>1. phase = "update" /\ UNCHANGED <<scenario, count, catalog>>
  BY DEF ExecUpdate
<1>2. TableOK' /\ Schema' = Schema
  BY <1>1, KeptTable DEF SessionInv
<1>3. SUFFICES (\E st \in {"ok", "error"} : Answer(st)) /\ RowsOK'
  BY <1>1, <1>2, Answered DEF SessionInv
<1>4. CASE ~Exists \/ (keys # {} /\ Bad)
  <2>1. Answer("error") /\ data' = data
    BY <1>4 DEF ExecUpdate
  <2> QED
    BY <1>1, <2>1, Kept DEF SessionInv
<1>5. CASE ~(~Exists \/ (keys # {} /\ Bad))
  <2>1. /\ data' = [k \in DOMAIN data |->
                       IF k \in keys THEN Serialize(Assigned(Deserialize(data[k]), stmt)) ELSE data[k]]
        /\ Answer("ok")
    BY <1>5 DEF ExecUpdate
  <2>2. catalog # None /\ Schema \in TableSchema
    BY <1>5 DEF SessionInv, TableOK, Exists
  <2>3. stmt.assignments \in Seq(Assignment)
    BY <1>1, StatementForms DEF SessionInv, StmtOK
  <2>4. keys \subseteq ScanKeys
    BY DEF Matching
  <2> HIDE DEF keys
  <2>5. ASSUME NEW k \in ScanKeys' PROVE Fits(Deserialize(data'[k]), Schema)
    <3>1. k \in DOMAIN data /\ k \in ScanKeys
      BY <2>1, <2>5 DEF ScanKeys
    <3> DEFINE row == Deserialize(data[k])
    <3>2. Fits(row, Schema)
      BY <3>1 DEF SessionInv, RowsOK
    <3> HIDE DEF row
    <3>3. CASE k \in keys
      <4>1. data'[k] = Serialize(Assigned(row, stmt))
        BY <2>1, <3>1, <3>3 DEF row
      <4>2. \A a \in Range(stmt.assignments) : FindColumn(Schema, a.column) # 0
        BY <1>5, <3>3
      <4>3. Fits(Assigned(row, stmt), Schema)
        BY <2>2, <2>3, <3>2, <4>2, AssignedFits
      <4> QED
        BY <4>1, <4>3, RowsSurvive DEF Fits
    <3>4. CASE k \notin keys
      <4>1. data'[k] = data[k]
        BY <2>1, <3>1, <3>4
      <4> QED
        BY <3>2, <4>1 DEF row
    <3> QED
      BY <3>3, <3>4
  <2>6. RowsOK'
    BY <1>1, <1>2, <2>2, <2>5 DEF RowsOK, Fits
  <2> QED
    BY <2>1, <2>6
<1> QED
  BY <1>4, <1>5

\* DELETE takes rows away.
LEMMA DeleteKeeps ==
    ASSUME SessionInv, ExecDelete
    PROVE  SessionInv'
<1>1. phase = "delete" /\ UNCHANGED <<scenario, count, catalog>>
  BY DEF ExecDelete
<1>2. TableOK'
  BY <1>1, KeptTable DEF SessionInv
<1>3. CASE ~Exists
  <2>1. Answer("error") /\ data' = data
    BY <1>3 DEF ExecDelete
  <2> QED
    BY <1>1, <2>1, Kept, Answered DEF SessionInv
<1>4. CASE Exists
  <2>1. Answer("ok") /\ data' = [k \in DOMAIN data \ Matching(stmt.where) |-> data[k]]
    BY <1>4 DEF ExecDelete
  <2>2. RowsOK'
    BY <1>1, <2>1, FewerRows DEF SessionInv
  <2> QED
    BY <1>1, <1>2, <2>1, <2>2, Answered DEF SessionInv
<1> QED
  BY <1>3, <1>4

\* The last steps of SELECT, SHOW TABLES and DESCRIBE answer and store nothing.
LEMMA AnswerKeeps ==
    ASSUME SessionInv, LimitRows \/ ExecShowTables \/ ExecDescribe
    PROVE  SessionInv'
<1>1. UNCHANGED <<scenario, count, catalog, data>> /\ \E st \in {"ok", "error"} : Answer(st)
  <2>1. CASE LimitRows
    BY <2>1 DEF LimitRows, stored
  <2>2. CASE ExecShowTables
    BY <2>2 DEF ExecShowTables, stored
  <2>3. CASE ExecDescribe
    BY <2>3 DEF ExecDescribe, stored
  <2> QED
    BY <2>1, <2>2, <2>3
<1> QED
  BY <1>1, Kept, Answered DEF SessionInv

\* A step that changes nothing.
LEMMA StutterKeeps ==
    ASSUME SessionInv, UNCHANGED vars
    PROVE  SessionInv'
<1>1. /\ UNCHANGED <<scenario, phase, count, text, tokens, stmt, catalog, data, result, status>>
  BY DEF vars
<1>2. TableOK' /\ RowsOK' /\ Schema' = Schema
  BY <1>1, Kept, KeptTable DEF SessionInv
<1>3. PhaseOK' /\ SentOK' /\ StmtOK' /\ AnswerOK'
  BY <1>1, <1>2 DEF SessionInv, PhaseOK, SentOK, StmtOK, AnswerOK, KeyMarked, Readable, Fits
<1> QED
  BY <1>2, <1>3 DEF SessionInv

\* Every state of a session keeps what was submitted, parsed and stored well-formed.
THEOREM SessionInvariant == Spec => []SessionInv
<1>1. Init => SessionInv
  BY SessionInit
<1>2. SessionInv /\ [Next]_vars => SessionInv'
  <2> SUFFICES ASSUME SessionInv, [Next]_vars PROVE SessionInv'
    OBVIOUS
  <2>1. CASE Idle /\ LET sc == Scenarios[scenario] IN
                \/ \E s \in sc.texts : SubmitText(s)
                \/ \E s \in sc.statements : Submit(s)
                \/ \E s \in sc.statements, t \in sc.slips : \E i \in 1..Len(Write(s)) : SubmitSlip(s, i, t)
    BY <2>1, SubmitKeeps
  <2>2. CASE TokenizeText
    BY <2>2, TokenizeKeeps
  <2>3. CASE Parse
    BY <2>3, ParseKeeps
  <2>4. CASE ExecCreateTable
    BY <2>4, CreateKeeps
  <2>5. CASE ExecDropTable
    BY <2>5, DropKeeps
  <2>6. CASE ExecInsert
    BY <2>6, InsertKeeps
  <2>7. CASE FilterRows
    BY <2>7, FilterKeeps
  <2>8. CASE SortRows
    BY <2>8, SortKeeps
  <2>9. CASE ExecUpdate
    BY <2>9, UpdateKeeps
  <2>10. CASE ExecDelete
    BY <2>10, DeleteKeeps
  <2>11. CASE LimitRows \/ ExecShowTables \/ ExecDescribe
    BY <2>11, AnswerKeeps
  <2>12. CASE UNCHANGED vars
    BY <2>12, StutterKeeps
  <2> QED
    BY <2>1, <2>2, <2>3, <2>4, <2>5, <2>6, <2>7, <2>8, <2>9, <2>10, <2>11, <2>12 DEF Next
<1> QED
  BY <1>1, <1>2, PTL DEF Spec

\* In every state of every session, TypeOK holds: each row that a scan can see belongs to a table
\* and has one typed cell for each of its columns, whatever texts, statements and slips came before.
THEOREM SessionTyped == Spec => []TypeOK
<1>1. SessionInv => TypeOK
  <2> SUFFICES ASSUME SessionInv PROVE TypeOK
    OBVIOUS
  <2>1. ASSUME catalog # None, NEW col \in Range(Schema.columns) PROVE col.type \in ColumnType
    <3>1. Schema.columns \in Seq(ColumnDef)
      BY <2>1 DEF SessionInv, TableOK, TableSchema
    <3>2. PICK i \in DOMAIN Schema.columns : col = Schema.columns[i]
      BY DEF Range
    <3> QED
      BY <3>1, <3>2, ColumnTypes
  <2>2. ASSUME NEW v \in Values PROVE Cell(v)
    <3>1. CASE \E type \in ColumnType : v = MakeNull(type)
      BY <3>1 DEF MakeNull, Cell
    <3>2. CASE \E type \in ColumnType : \E x \in Typed(type) : v = Make(type, x)
      BY <3>2 DEF Make, Cell
    <3> QED
      BY <3>1, <3>2, ValueForms
  <2>3. ASSUME NEW k \in ScanKeys
        PROVE  /\ catalog # None
               /\ Len(Deserialize(data[k])) = Len(Schema.columns)
               /\ \A v \in Range(Deserialize(data[k])) : Cell(v)
    <3> DEFINE row == Deserialize(data[k])
    <3>1. catalog # None /\ row \in Seq(Values) /\ Len(row) = Len(Schema.columns)
      BY DEF SessionInv, RowsOK, Fits
    <3> HIDE DEF row
    <3>2. \A v \in Range(row) : v \in Values
      BY <3>1 DEF Range
    <3> QED
      BY <2>2, <3>1, <3>2 DEF row
  <2> QED
    BY <2>1, <2>3 DEF SessionInv, PhaseOK, TypeOK
<1> QED
  BY <1>1, SessionInvariant, PTL

\* In every state of every session, KeysAreGiven holds: an INSERT that exec_insert() does not refuse
\* has named its primary key, so next_row_id() is never reached.
THEOREM SessionKeysGiven == Spec => []KeysAreGiven
<1>1. SessionInv => KeysAreGiven
  BY KeysNeverGenerated DEF SessionInv, TableOK, TableSchema, KeysAreGiven, Exists
<1> QED
  BY <1>1, SessionInvariant, PTL

\* In every state of every session, CodecExact holds: the row that exec_insert() is about to store and
\* the schema that exec_create_table() is about to store are read back as they are.
THEOREM SessionCodecExact == Spec => []CodecExact
<1>1. SessionInv => CodecExact
  <2> SUFFICES ASSUME SessionInv PROVE CodecExact
    OBVIOUS
  <2>1. ASSUME phase = "insert", Exists, ~InsertRefused(Schema, stmt) PROVE BuildRow(Schema, stmt) \in Seq(Values)
    <3>1. Schema \in TableSchema
      BY <2>1 DEF SessionInv, TableOK, Exists
    <3>2. stmt.columns \in Seq(Text) /\ stmt.values \in Seq(Values)
      BY <2>1, StatementForms DEF SessionInv, StmtOK
    <3> QED
      BY <2>1, <3>1, <3>2, BuildRowFits DEF Fits
  <2>2. ASSUME phase = "create" PROVE NewSchema(stmt) \in TableSchema
    <3>1. stmt \in Statement /\ stmt.kind = "create"
      BY <2>2 DEF SessionInv, StmtOK
    <3> QED
      BY <3>1, StatementForms DEF NewSchema, TableSchema
  <2> QED
    BY <2>1, <2>2, TypedDataSurvives
<1> QED
  BY <1>1, SessionInvariant, PTL

\* In every state of every session, SortDefined holds: SELECT * hands std::sort whole, typed rows, so
\* without NULLs and unconverted values the comparator of ORDER BY is a strict weak order.
THEOREM SessionSortDefined == Spec => []SortDefined
<1>1. SessionInv => SortDefined
  <2> SUFFICES ASSUME SessionInv, phase = "sort", stmt.columns = <<>> PROVE SortDefined
    BY DEF SortDefined
  <2>1. Schema \in TableSchema /\ \A r \in Range(result) : Fits(r, Schema)
    BY DEF SessionInv, AnswerOK, TableOK
  <2> QED
    BY <2>1, TypedRowsSort DEF TableSchema, Fits
<1> QED
  BY <1>1, SessionInvariant, PTL

-----------------------------------------------------------------------------
(* WHERE.                                                                  *)

\* A cell of the condition's column that is comparable with its value: one type, not BOOL.
Ordered(c, row) ==
    LET i == FindColumn(Schema, c.column)
    IN  i # 0 => row[i].type # "BOOL" /\ Coerce(c.value, row[i].type).type = row[i].type

\* One of two different values of a type other than BOOL is less, and only one.
LEMMA LessTotal ==
    ASSUME NEW type \in ColumnType, type # "BOOL", NEW x \in Typed(type), NEW y \in Typed(type)
    PROVE  Less(type, y, x) <=> ~Less(type, x, y) /\ x # y
<1>1. CASE type \in {"INT", "FLOAT"}
  <2>1. x \in Int /\ y \in Int
    BY <1>1 DEF Typed
  <2>2. \A u, v : Less(type, u, v) <=> u < v
    BY <1>1 DEF Less
  <2> QED
    BY <2>1, <2>2
<1>2. CASE type = "TEXT"
  <2>1. x \in Text /\ y \in Text
    BY <1>2 DEF Typed
  <2>2. \A u, v : Less(type, u, v) <=> LexLess(u, v)
    BY <1>2 DEF Less
  <2>3. x # y => LexLess(x, y) \/ LexLess(y, x)
    BY <2>1, LexTotal
  <2>4. ~(LexLess(x, y) /\ LexLess(y, x)) /\ ~LexLess(x, x)
    BY <2>1, LexIrreflexive, LexTransitive
  <2> QED
    BY <2>2, <2>3, <2>4
<1> QED
  BY <1>1, <1>2 DEF ColumnType

\* evaluate_condition() is SQL's comparison.
LEMMA ConditionAgrees ==
    ASSUME Schema \in TableSchema, NEW row, Fits(row, Schema), NEW c, c \in Condition, Ordered(c, row)
    PROVE  EvaluateCondition(c, Schema, row) <=> RefCondition(c, row)
<1> DEFINE i == FindColumn(Schema, c.column)
           cell == row[i]
           v == Coerce(c.value, cell.type)
           eq == cell.val = v.val
           lt == Less(cell.type, cell.val, v.val)
           gt == Less(cell.type, v.val, cell.val)
<1>0. c.op \in CompOp /\ c.value \in Values
  BY DEF Condition
<1>1. CASE i = 0
  BY <1>1 DEF EvaluateCondition, RefCondition
<1>2. CASE i # 0
  <2>1. Schema.columns \in Seq(ColumnDef) /\ row \in Seq(Values) /\ Len(row) = Len(Schema.columns)
    BY DEF TableSchema, Fits
  <2>2. i \in DOMAIN Schema.columns
    BY <1>2, <2>1, FoundColumn
  <2>3. i \in 1..Len(row) /\ i <= Len(row)
    <3> HIDE DEF i
    <3> QED
      BY <2>1, <2>2
  <2>4. cell \in Values
    <3> HIDE DEF i
    <3> QED
      BY <2>1, <2>3
  <2>5. cell.type \in ColumnType
    <3> HIDE DEF cell
    <3> QED
      BY <2>4, ValueForms DEF Make, MakeNull
  <2>6. v \in Values
    BY <1>0, <2>4, <2>5, CoerceType
  <2>7. cell.type # "BOOL" /\ v.type = cell.type
    BY <1>2 DEF Ordered
  <2>8. Field(v, cell.type) = v.val
    BY <2>7 DEF Field
  <2>9. /\ CompareEq(cell, v) <=> Known(cell, v) /\ eq
        /\ CompareLt(cell, v) <=> Known(cell, v) /\ lt
        /\ CompareGt(cell, v) <=> Known(cell, v) /\ gt
    BY <2>8 DEF CompareEq, CompareLt, CompareGt
  <2>10. Known(cell, v) => (gt <=> ~lt /\ ~eq) /\ (eq => ~lt)
    <3> SUFFICES ASSUME Known(cell, v) PROVE (gt <=> ~lt /\ ~eq) /\ (eq => ~lt)
      OBVIOUS
    <3>1. ~cell.is_null /\ ~v.is_null
      BY DEF Known
    <3> HIDE DEF cell, v
    <3>2. cell.val \in Typed(cell.type) /\ v.val \in Typed(v.type)
      BY <2>4, <2>6, <3>1, CellsOf
    <3>3. gt <=> ~lt /\ ~eq
      BY <2>5, <2>7, <3>2, LessTotal
    <3>4. eq => ~lt
      BY <2>5, <2>7, <3>2, LessOrders
    <3> QED
      BY <3>3, <3>4
  <2>11. EvaluateCondition(c, Schema, row) <=>
             CASE c.op = "OP_EQ" -> CompareEq(cell, v)
               [] c.op = "OP_NE" -> ~CompareEq(cell, v)
               [] c.op = "OP_LT" -> CompareLt(cell, v)
               [] c.op = "OP_GT" -> CompareGt(cell, v)
               [] c.op = "OP_LE" -> CompareEq(cell, v) \/ CompareLt(cell, v)
               [] c.op = "OP_GE" -> CompareEq(cell, v) \/ CompareGt(cell, v)
    BY <1>2, <2>3 DEF EvaluateCondition
  <2>12. RefCondition(c, row) <=>
             IF cell.is_null \/ v.is_null THEN c.op = "OP_NE"
             ELSE CASE c.op = "OP_EQ" -> eq [] c.op = "OP_NE" -> ~eq
                    [] c.op = "OP_LT" -> lt [] c.op = "OP_GT" -> ~lt /\ ~eq
                    [] c.op = "OP_LE" -> lt \/ eq [] c.op = "OP_GE" -> ~lt
    BY <1>2 DEF RefCondition
  <2>13. Known(cell, v) <=> ~(cell.is_null \/ v.is_null)
    BY DEF Known
  <2> HIDE DEF i, cell, v, eq, lt, gt
  <2>14. CASE c.op = "OP_EQ"
    BY <2>9, <2>10, <2>11, <2>12, <2>13, <2>14
  <2>15. CASE c.op = "OP_NE"
    BY <2>9, <2>10, <2>11, <2>12, <2>13, <2>15
  <2>16. CASE c.op = "OP_LT"
    BY <2>9, <2>10, <2>11, <2>12, <2>13, <2>16
  <2>17. CASE c.op = "OP_GT"
    BY <2>9, <2>10, <2>11, <2>12, <2>13, <2>17
  <2>18. CASE c.op = "OP_LE"
    BY <2>9, <2>10, <2>11, <2>12, <2>13, <2>18
  <2>19. CASE c.op = "OP_GE"
    BY <2>9, <2>10, <2>11, <2>12, <2>13, <2>19
  <2> QED
    BY <1>0, <2>14, <2>15, <2>16, <2>17, <2>18, <2>19 DEF CompOp
<1> QED
  BY <1>1, <1>2

\* Among the first i conditions, a run joined by AND is true throughout; T are the true ones.
SomeRun(T, ops, i) ==
    \E a, b \in 1..i :
        /\ a <= b
        /\ a = 1 \/ ops[a - 1] = "KW_OR"
        /\ b = i \/ ops[b] = "KW_OR"
        /\ \A j \in a..b : j \in T

\* One more condition behind AND or OR, if no AND comes behind an OR.
LEMMA NextCondition ==
    ASSUME NEW T, NEW i \in Nat, i > 1, NEW ops, \A j \in 1..(i - 1) : ops[j] \in LogicOp,
           \A j, k \in 1..(i - 1) : j < k /\ ops[j] = "KW_OR" => ops[k] = "KW_OR"
    PROVE  SomeRun(T, ops, i) <=>
               IF ops[i - 1] = "KW_AND" THEN SomeRun(T, ops, i - 1) /\ i \in T ELSE SomeRun(T, ops, i - 1) \/ i \in T
<1>0. i - 1 \in 1..(i - 1) /\ i \in 1..i /\ i - 1 \in Nat /\ i - 1 >= 1
  OBVIOUS
<1>1. CASE ops[i - 1] = "KW_AND"
  <2>1. \A j \in 1..(i - 1) : ops[j] # "KW_OR"
    <3> SUFFICES ASSUME NEW j \in 1..(i - 1), ops[j] = "KW_OR" PROVE FALSE
      OBVIOUS
    <3>1. j = i - 1 \/ j < i - 1
      OBVIOUS
    <3> QED
      BY <1>0, <1>1, <3>1
  <2>2. SomeRun(T, ops, i) <=> \A j \in 1..i : j \in T
    <3>1. ASSUME SomeRun(T, ops, i) PROVE \A j \in 1..i : j \in T
      <4>1. PICK a \in 1..i, b \in 1..i : /\ a <= b
                                          /\ a = 1 \/ ops[a - 1] = "KW_OR"
                                          /\ b = i \/ ops[b] = "KW_OR"
                                          /\ \A j \in a..b : j \in T
        BY <3>1 DEF SomeRun
      <4>2. a = 1
        <5>1. a # 1 => a - 1 \in 1..(i - 1)
          OBVIOUS
        <5> QED
          BY <2>1, <4>1, <5>1
      <4>3. b = i
        <5>1. b # i => b \in 1..(i - 1)
          OBVIOUS
        <5> QED
          BY <2>1, <4>1, <5>1
      <4> QED
        BY <4>1, <4>2, <4>3
    <3>2. ASSUME \A j \in 1..i : j \in T PROVE SomeRun(T, ops, i)
      <4>1. 1 \in 1..i /\ 1 <= i
        OBVIOUS
      <4> QED
        BY <1>0, <3>2, <4>1 DEF SomeRun
    <3> QED
      BY <3>1, <3>2
  <2>3. SomeRun(T, ops, i - 1) <=> \A j \in 1..(i - 1) : j \in T
    <3>1. ASSUME SomeRun(T, ops, i - 1) PROVE \A j \in 1..(i - 1) : j \in T
      <4>1. PICK a \in 1..(i - 1), b \in 1..(i - 1) : /\ a <= b
                                                      /\ a = 1 \/ ops[a - 1] = "KW_OR"
                                                      /\ b = i - 1 \/ ops[b] = "KW_OR"
                                                      /\ \A j \in a..b : j \in T
        BY <3>1 DEF SomeRun
      <4>2. a = 1
        <5>1. a # 1 => a - 1 \in 1..(i - 1)
          OBVIOUS
        <5> QED
          BY <2>1, <4>1, <5>1
      <4>3. b = i - 1
        BY <2>1, <4>1
      <4> QED
        BY <4>1, <4>2, <4>3
    <3>2. ASSUME \A j \in 1..(i - 1) : j \in T PROVE SomeRun(T, ops, i - 1)
      <4>1. 1 \in 1..(i - 1) /\ 1 <= i - 1
        OBVIOUS
      <4> QED
        BY <1>0, <3>2, <4>1 DEF SomeRun
    <3> QED
      BY <3>1, <3>2
  <2>4. (\A j \in 1..i : j \in T) <=> (\A j \in 1..(i - 1) : j \in T) /\ i \in T
    <3>1. \A j \in 1..i : j \in 1..(i - 1) \/ j = i
      OBVIOUS
    <3>2. \A j \in 1..(i - 1) : j \in 1..i
      OBVIOUS
    <3> QED
      BY <1>0, <3>1, <3>2
  <2> QED
    BY <1>1, <2>2, <2>3, <2>4
<1>2. CASE ops[i - 1] # "KW_AND"
  <2>1. ops[i - 1] = "KW_OR"
    BY <1>0, <1>2 DEF LogicOp
  <2>2. ASSUME SomeRun(T, ops, i) PROVE SomeRun(T, ops, i - 1) \/ i \in T
    <3>1. PICK a \in 1..i, b \in 1..i : /\ a <= b
                                        /\ a = 1 \/ ops[a - 1] = "KW_OR"
                                        /\ b = i \/ ops[b] = "KW_OR"
                                        /\ \A j \in a..b : j \in T
      BY <2>2 DEF SomeRun
    <3>2. CASE b = i
      <4>1. i \in a..b
        BY <3>1, <3>2
      <4> QED
        BY <3>1, <4>1
    <3>3. CASE b # i
      <4>1. a \in 1..(i - 1) /\ b \in 1..(i - 1) /\ (b = i - 1 \/ ops[b] = "KW_OR")
        BY <3>1, <3>3
      <4> QED
        BY <3>1, <4>1 DEF SomeRun
    <3> QED
      BY <3>2, <3>3
  <2>3. ASSUME SomeRun(T, ops, i - 1) PROVE SomeRun(T, ops, i)
    <3>1. PICK a \in 1..(i - 1), b \in 1..(i - 1) : /\ a <= b
                                                    /\ a = 1 \/ ops[a - 1] = "KW_OR"
                                                    /\ b = i - 1 \/ ops[b] = "KW_OR"
                                                    /\ \A j \in a..b : j \in T
      BY <2>3 DEF SomeRun
    <3>2. a \in 1..i /\ b \in 1..i /\ ops[b] = "KW_OR"
      BY <2>1, <3>1
    <3> QED
      BY <3>1, <3>2 DEF SomeRun
  <2>4. ASSUME i \in T PROVE SomeRun(T, ops, i)
    <3>1. \A j \in i..i : j \in T
      BY <2>4
    <3>2. i <= i
      OBVIOUS
    <3> QED
      BY <1>0, <2>1, <3>1, <3>2 DEF SomeRun
  <2> QED
    BY <1>2, <2>2, <2>3, <2>4
<1> QED
  BY <1>1, <1>2

\* From left to right, evaluate_where() gives what SQL's precedence gives, unless an AND comes behind an OR:
\* for every number of conditions, every row that fits and every table.
THEOREM WhereAgrees ==
    ASSUME Schema \in TableSchema, NEW row, Fits(row, Schema), NEW w, w \in WhereClause, PlainWhere(w),
           \A c \in Range(w.conditions) : Ordered(c, row)
    PROVE  EvaluateWhere(w, Schema, row) <=> RefWhere(w, row)
<1> DEFINE cs == w.conditions
           ops == w.logic_ops
           n == Len(cs)
           e == [i \in 1..n |-> EvaluateCondition(cs[i], Schema, row)]
           T == {i \in 1..n : e[i] = TRUE}
           Body(f, i) == IF i = 1 THEN e[i] ELSE IF ops[i - 1] = "KW_AND" THEN f[i - 1] /\ e[i] ELSE f[i - 1] \/ e[i]
           Eq(f) == f = [i \in 1..n |-> Body(f, i)]
           h == CHOOSE f : Eq(f)
           g == [i \in 1..n |-> IF SomeRun(T, ops, i) THEN TRUE ELSE FALSE]
<1>1. cs \in Seq(Condition) /\ ops \in Seq(LogicOp) /\ (cs # <<>> => Len(cs) = Len(ops) + 1)
  BY DEF WhereClause
<1>2. n \in Nat /\ DOMAIN cs = 1..n
  BY <1>1
<1>3. CASE cs = <<>>
  <2>1. EvaluateWhere(w, Schema, row)
    BY <1>3 DEF EvaluateWhere
  <2>2. Len(w.conditions) = 0
    BY <1>3
  <2>3. RefWhere(w, row)
    BY <2>2 DEF RefWhere
  <2> QED
    BY <2>1, <2>3
<1>4. CASE cs # <<>>
  <2>0. n >= 1 /\ n \in 1..n /\ DOMAIN ops = 1..(n - 1) /\ \A j \in 1..(n - 1) : ops[j] \in LogicOp
    BY <1>1, <1>2, <1>4
  <2>p. \A j, k \in 1..(n - 1) : j < k /\ ops[j] = "KW_OR" => ops[k] = "KW_OR"
    BY <2>0 DEF PlainWhere
  <2>c. ASSUME NEW i \in 1..n PROVE e[i] \in BOOLEAN /\ (e[i] <=> RefCondition(cs[i], row))
    <3>1. cs[i] \in Condition /\ cs[i] \in Range(cs)
      BY <1>1, <1>2 DEF Range
    <3>2. EvaluateCondition(cs[i], Schema, row) <=> RefCondition(cs[i], row)
      BY <3>1, ConditionAgrees
    <3>3. EvaluateCondition(cs[i], Schema, row) \in BOOLEAN
      BY Zenon DEF EvaluateCondition
    <3>4. e[i] = EvaluateCondition(cs[i], Schema, row)
      OBVIOUS
    <3> QED
      BY <3>2, <3>3, <3>4, Zenon
  <2>u. EvaluateWhere(w, Schema, row) <=> h[n]
    <3> DEFINE EqE(f) == f = [i \in 1..Len(w.conditions) |->
                                LET c == EvaluateCondition(w.conditions[i], Schema, row) IN
                                IF i = 1 THEN c
                                ELSE IF w.logic_ops[i - 1] = "KW_AND" THEN f[i - 1] /\ c ELSE f[i - 1] \/ c]
    <3>1. \A f : EqE(f) <=> Eq(f)
      <4>1. \A i \in 1..n : e[i] = EvaluateCondition(w.conditions[i], Schema, row)
        OBVIOUS
      <4> HIDE DEF e
      <4> QED
        BY <4>1, Zenon
    <3>2. EvaluateWhere(w, Schema, row) <=> (CHOOSE f : EqE(f))[Len(w.conditions)]
      BY <1>4, Zenon DEF EvaluateWhere
    <3>3. (CHOOSE f : EqE(f)) = h
      <4> HIDE DEF EqE, Eq
      <4> QED
        BY <3>1, Zenon DEF h
    <3> QED
      BY <3>2, <3>3, Zenon
  <2> HIDE DEF e
  <2>t. ASSUME NEW i \in 1..n PROVE i \in T <=> e[i]
    BY <2>c
  <2> HIDE DEF T
  <2>g. ASSUME NEW i \in 1..n PROVE g[i] \in BOOLEAN /\ (g[i] <=> SomeRun(T, ops, i))
    OBVIOUS
  <2>1. ASSUME NEW i \in 1..n PROVE g[i] = Body(g, i)
    <3>1. CASE i = 1
      <4>1. SomeRun(T, ops, 1) <=> 1 \in T
        <5>1. \A a \in 1..1 : a = 1
          OBVIOUS
        <5>2. 1 \in 1..1 /\ 1 <= 1 /\ \A j \in 1..1 : j = 1
          OBVIOUS
        <5> QED
          BY <5>1, <5>2 DEF SomeRun
      <4>2. g[i] <=> e[i]
        BY <2>g, <2>t, <3>1, <4>1
      <4>3. g[i] \in BOOLEAN /\ e[i] \in BOOLEAN
        BY <2>g, <2>c
      <4> HIDE DEF g
      <4>4. g[i] = e[i]
        BY <4>2, <4>3
      <4> QED
        BY <3>1, <4>4, Zenon
    <3>2. CASE i # 1
      <4>1. i \in Nat /\ i > 1 /\ i - 1 \in 1..n /\ 1..(i - 1) \subseteq 1..(n - 1)
        BY <1>2, <3>2
      <4>2. SomeRun(T, ops, i) <=>
                IF ops[i - 1] = "KW_AND" THEN SomeRun(T, ops, i - 1) /\ i \in T ELSE SomeRun(T, ops, i - 1) \/ i \in T
        <5>1. /\ \A j \in 1..(i - 1) : ops[j] \in LogicOp
              /\ \A j, k \in 1..(i - 1) : j < k /\ ops[j] = "KW_OR" => ops[k] = "KW_OR"
          <6> HIDE DEF n, ops
          <6> QED
            BY <2>0, <2>p, <4>1
        <5> HIDE DEF ops, n
        <5> QED
          BY <4>1, <5>1, NextCondition
      <4>3. /\ g[i] \in BOOLEAN /\ g[i - 1] \in BOOLEAN /\ e[i] \in BOOLEAN
            /\ g[i] <=> SomeRun(T, ops, i)
            /\ g[i - 1] <=> SomeRun(T, ops, i - 1)
            /\ i \in T <=> e[i]
        BY <2>g, <2>t, <2>c, <4>1
      <4> HIDE DEF g, ops, n
      <4>4. g[i] <=> IF ops[i - 1] = "KW_AND" THEN g[i - 1] /\ e[i] ELSE g[i - 1] \/ e[i]
        BY <4>2, <4>3, Zenon
      <4>5. CASE ops[i - 1] = "KW_AND"
        <5>1. g[i] = (g[i - 1] /\ e[i])
          BY <4>3, <4>4, <4>5
        <5> QED
          BY <3>2, <4>5, <5>1, Zenon
      <4>6. CASE ops[i - 1] # "KW_AND"
        <5>1. g[i] = (g[i - 1] \/ e[i])
          BY <4>3, <4>4, <4>6
        <5> QED
          BY <3>2, <4>6, <5>1, Zenon
      <4> QED
        BY <4>5, <4>6
    <3> QED
      BY <3>1, <3>2
  <2>2. Eq(g)
    <3>1. g = [i \in 1..n |-> g[i]]
      BY Zenon
    <3> HIDE DEF g
    <3> QED
      BY <2>1, <3>1, Zenon
  <2>3. Eq(h)
    <3> HIDE DEF Eq, g
    <3> QED
      BY <2>2, Zenon DEF h
  <2> DEFINE S == {0} \cup {i \in 1..n : h[i] = g[i]}
  <2> HIDE DEF h, g
  <2>4. ASSUME NEW i \in 1..n, i - 1 \in S PROVE i \in S
    <3>1. h[i] = Body(h, i)
      BY <2>3, Zenon
    <3>2. Body(h, i) = Body(g, i)
      <4>1. CASE i = 1
        BY <4>1, Zenon
      <4>2. CASE i # 1
        <5>1. i - 1 # 0
          BY <1>2, <4>2
        <5>2. h[i - 1] = g[i - 1]
          BY <2>4, <5>1, Zenon
        <5> DEFINE x == h[i - 1]
                   y == g[i - 1]
                   z == e[i]
                   And == ops[i - 1] = "KW_AND"
        <5>3. /\ Body(h, i) = IF And THEN x /\ z ELSE x \/ z
              /\ Body(g, i) = IF And THEN y /\ z ELSE y \/ z
          BY <4>2, Zenon
        <5>4. x = y
          BY <5>2
        <5> HIDE DEF x, y, z, And
        <5>5. (IF And THEN x /\ z ELSE x \/ z) = (IF And THEN y /\ z ELSE y \/ z)
          BY <5>4
        <5> QED
          BY <5>3, <5>5, Zenon
      <4> QED
        BY <4>1, <4>2
    <3>3. h[i] = g[i]
      BY <2>1, <3>1, <3>2, Zenon
    <3> QED
      BY <3>3, Zenon
  <2>5. 0 \in S
    OBVIOUS
  <2>6. n \in S
    <3> HIDE DEF S, n
    <3>1. 0..n \subseteq S
      BY <1>2, <2>4, <2>5, Positions, Zenon
    <3> QED
      BY <1>2, <3>1
  <2>7. h[n] = g[n]
    <3>1. n # 0
      BY <2>0
    <3> HIDE DEF n
    <3> QED
      BY <2>6, <3>1, Zenon
  <2>8. EvaluateWhere(w, Schema, row) <=> SomeRun(T, ops, n)
    BY <2>0, <2>g, <2>u, <2>7, Zenon
  <2>9. SomeRun(T, ops, n) <=> RefWhere(w, row)
    <3>1. \A j \in 1..n : j \in T <=> RefCondition(w.conditions[j], row)
      BY <2>c, <2>t, Zenon
    <3>2. n # 0
      BY <2>0
    <3>3. RefWhere(w, row) <=> \E a, b \in 1..n :
              /\ a <= b
              /\ a = 1 \/ ops[a - 1] = "KW_OR"
              /\ b = n \/ ops[b] = "KW_OR"
              /\ \A j \in a..b : RefCondition(w.conditions[j], row)
      BY <3>2, Zenon DEF RefWhere
    <3>4. \A a, b \in 1..n : \A j \in a..b : j \in 1..n
      <4> HIDE DEF n
      <4> QED
        BY <1>2
    <3>5. ASSUME NEW a \in 1..n, NEW b \in 1..n
          PROVE  (\A j \in a..b : j \in T) <=> (\A j \in a..b : RefCondition(w.conditions[j], row))
      BY <3>1, <3>4, Zenon
    <3> QED
      BY <3>3, <3>5, Zenon DEF SomeRun
  <2> QED
    BY <2>8, <2>9, Zenon
<1> QED
  BY <1>3, <1>4

\* Values that the conditions of a statement can be compared with, and no AND behind an OR.
PlainConditions(s) ==
    /\ PlainWhere(s.where)
    /\ \A c \in Range(s.where.conditions) : \A k \in ScanKeys : Ordered(c, Deserialize(data[k]))

\* SELECT, UPDATE and DELETE are about to work on exactly the rows that satisfy their condition in SQL's sense.
WhereAsMeant ==
    phase \in {"select", "update", "delete"} /\ Exists /\ PlainConditions(stmt) =>
        Matching(stmt.where) = {k \in ScanKeys : RefWhere(stmt.where, Deserialize(data[k]))}

\* In every state of every session, WhereAsMeant holds: the rows that exec_select(), exec_update() and
\* exec_delete() pick are those that satisfy the condition in the sense of SQL, for any number of AND and OR.
THEOREM SessionWhereAsMeant == Spec => []WhereAsMeant
<1>1. SessionInv => WhereAsMeant
  <2> SUFFICES ASSUME SessionInv, phase \in {"select", "update", "delete"}, Exists, PlainConditions(stmt)
               PROVE  Matching(stmt.where) = {k \in ScanKeys : RefWhere(stmt.where, Deserialize(data[k]))}
    BY DEF WhereAsMeant
  <2>1. Schema \in TableSchema
    BY DEF SessionInv, TableOK, Exists
  <2>2. stmt.where \in WhereClause
    BY StatementForms DEF SessionInv, StmtOK
  <2>3. ASSUME NEW k \in ScanKeys
        PROVE  EvaluateWhere(stmt.where, Schema, Deserialize(data[k])) <=> RefWhere(stmt.where, Deserialize(data[k]))
    <3>1. Fits(Deserialize(data[k]), Schema)
      BY DEF SessionInv, RowsOK
    <3>2. PlainWhere(stmt.where) /\ \A c \in Range(stmt.where.conditions) : Ordered(c, Deserialize(data[k]))
      BY DEF PlainConditions
    <3> QED
      BY <2>1, <2>2, <3>1, <3>2, WhereAgrees
  <2> QED
    BY <2>3 DEF Matching
<1> QED
  BY <1>1, SessionInvariant, PTL

-----------------------------------------------------------------------------
(* The answer of SELECT.                                                   *)

\* The rows are those that d keeps under m of the keys K, cut down to the columns at; no key comes
\* twice, and without ORDER BY they come in their order.
Returns(rows, m, K, d, at, by) ==
    \E keys \in [1..m -> K] :
        /\ \A a, b \in 1..m : a # b => keys[a] # keys[b]
        /\ rows = [n \in 1..m |-> [i \in DOMAIN at |-> Deserialize(d[keys[n]])[at[i]]]]
        /\ by = <<>> => \A a, b \in 1..m : a < b => LexLess(keys[a], keys[b])

\* How many rows are found, and how many of them are returned.
HowMany(s) == Cardinality(Matching(s.where))
Limited(s) == IF s.limit >= 0 /\ s.limit < HowMany(s) THEN s.limit ELSE HowMany(s)

\* A SELECT answers with matching rows only, with none of them twice, and with all of them or as
\* many as LIMIT allows; without ORDER BY in the order of their keys.
SelectExact ==
    /\ phase \in {"sort", "limit"} =>
           Returns(result, HowMany(stmt), Matching(stmt.where), data, Projection(stmt), stmt.order_by)
    /\ phase = "idle" /\ status = "ok" /\ stmt # None /\ stmt.kind = "select" =>
           Returns(result, Limited(stmt), Matching(stmt.where), data, Projection(stmt), stmt.order_by)

\* The table holds finitely many rows.
LEMMA FiniteData ==
    ASSUME IsFiniteSet(DOMAIN data), [Next]_vars
    PROVE  IsFiniteSet(DOMAIN data)'
<1>0. /\ \A K : IsFiniteSet(DOMAIN data \ K)
      /\ \A x : IsFiniteSet(DOMAIN data \cup {x})
  BY FS_Difference, FS_AddElement, Zenon
<1>1. SUFFICES \/ DOMAIN data' = DOMAIN data
               \/ \E K : DOMAIN data' = DOMAIN data \ K
               \/ \E x : DOMAIN data' = DOMAIN data \cup {x}
  BY <1>0, Zenon
<1>2. CASE Idle /\ LET sc == Scenarios[scenario] IN
              \/ \E s \in sc.texts : SubmitText(s)
              \/ \E s \in sc.statements : Submit(s)
              \/ \E s \in sc.statements, t \in sc.slips : \E i \in 1..Len(Write(s)) : SubmitSlip(s, i, t)
  BY <1>2 DEF SubmitText, Submit, SubmitSlip, stored
<1>3. CASE TokenizeText \/ Parse \/ FilterRows \/ SortRows \/ LimitRows \/ ExecShowTables \/ ExecDescribe
  BY <1>3 DEF TokenizeText, Parse, FilterRows, SortRows, LimitRows, ExecShowTables, ExecDescribe, stored
<1>4. CASE ExecCreateTable
  BY <1>4 DEF ExecCreateTable
<1>5. CASE ExecDropTable
  <2>1. data' = data \/ data' = [k \in DOMAIN data \ ScanKeys |-> data[k]]
    BY <1>5 DEF ExecDropTable, stored
  <2> QED
    BY <2>1
<1>6. CASE ExecInsert
  <2>1. data' = data \/ \E pk, row : PutRow(pk, row)
    BY <1>6 DEF ExecInsert
  <2>2. ASSUME NEW pk, NEW row, PutRow(pk, row)
        PROVE  DOMAIN data' = DOMAIN data \/ \E x : DOMAIN data' = DOMAIN data \cup {x}
    BY <2>2 DEF PutRow
  <2> QED
    BY <2>1, <2>2
<1>7. CASE ExecUpdate
  BY <1>7 DEF ExecUpdate
<1>8. CASE ExecDelete
  <2>1. data' = data \/ data' = [k \in DOMAIN data \ Matching(stmt.where) |-> data[k]]
    BY <1>8 DEF ExecDelete
  <2> QED
    BY <2>1
<1>9. CASE UNCHANGED vars
  BY <1>9 DEF vars
<1> QED
  BY <1>2, <1>3, <1>4, <1>5, <1>6, <1>7, <1>8, <1>9 DEF Next

\* So a statement finds a number of rows.
LEMMA FoundType ==
    ASSUME IsFiniteSet(DOMAIN data), NEW s
    PROVE  HowMany(s) \in Nat
<1>1. Matching(s.where) \subseteq DOMAIN data
  BY DEF Matching, ScanKeys
<1>2. IsFiniteSet(Matching(s.where))
  BY <1>1, FS_Subset
<1> QED
  BY <1>2, FS_CardinalityType DEF HowMany

\* What a SELECT looks at is a matter of the statement, the catalog and the data.
LEMMA SameSource ==
    ASSUME UNCHANGED <<stmt, catalog, data>>
    PROVE  /\ Matching(stmt.where)' = Matching(stmt.where) /\ Projection(stmt)' = Projection(stmt)
           /\ HowMany(stmt)' = HowMany(stmt) /\ Limited(stmt)' = Limited(stmt)
<1>1. Schema' = Schema /\ ScanKeys' = ScanKeys
  BY DEF Schema, ScanKeys
<1>2. Matching(stmt.where)' = Matching(stmt.where)
  BY <1>1 DEF Matching
<1>3. Projection(stmt)' = Projection(stmt)
  BY <1>1 DEF Projection
<1> QED
  BY <1>2, <1>3 DEF HowMany, Limited

\* The scan finds every matching row.
LEMMA FilterExact ==
    ASSUME FilterRows
    PROVE  SelectExact'
<1>1. UNCHANGED <<stmt, catalog, data>>
  BY DEF FilterRows, stored
<1>2. CASE ~Exists \/ Projection(stmt) = <<>>
  <2>1. phase' = "idle" /\ status' = "error"
    BY <1>2 DEF FilterRows, Answer
  <2> QED
    BY <2>1 DEF SelectExact
<1>3. CASE ~(~Exists \/ Projection(stmt) = <<>>)
  <2> DEFINE at == Projection(stmt)
             M == Matching(stmt.where)
             m == Cardinality(M)
  <2>1. PICK keys \in InOrder(M) :
            /\ result' = [n \in DOMAIN keys |-> [i \in DOMAIN at |-> Deserialize(data[keys[n]])[at[i]]]]
            /\ phase' = "sort"
    BY <1>3 DEF FilterRows
  <2>2. /\ keys \in [1..m -> M] /\ \A a, b \in 1..m : a # b => keys[a] # keys[b]
        /\ \A a, b \in DOMAIN keys : a < b => LexLess(keys[a], keys[b])
    BY DEF InOrder, SetToSeqs
  <2>3. /\ DOMAIN keys = 1..m
        /\ \A a, b \in 1..m : a < b => LexLess(keys[a], keys[b])
    BY <2>2
  <2>4. result' = [n \in 1..m |-> [i \in DOMAIN at |-> Deserialize(data[keys[n]])[at[i]]]]
    BY <2>1, <2>3
  <2> HIDE DEF at, M, m
  <2>5. Returns(result', m, M, data, at, stmt.order_by)
    BY <2>2, <2>3, <2>4 DEF Returns
  <2>6. /\ Matching(stmt.where)' = M /\ HowMany(stmt)' = m /\ Projection(stmt)' = at
    BY <1>1, SameSource DEF M, m, at, HowMany
  <2>7. Returns(result, HowMany(stmt), Matching(stmt.where), data, Projection(stmt), stmt.order_by)'
    BY <1>1, <2>5, <2>6
  <2> QED
    BY <2>1, <2>7 DEF SelectExact
<1> QED
  BY <1>2, <1>3

\* The sort arranges all of them.
LEMMA SortExact ==
    ASSUME SelectExact, IsFiniteSet(DOMAIN data), SortRows
    PROVE  SelectExact'
<1> DEFINE m == HowMany(stmt)
           M == Matching(stmt.where)
           at == Projection(stmt)
<1>1. phase = "sort" /\ UNCHANGED <<stmt, catalog, data>>
  BY DEF SortRows, stored
<1>2. CASE stmt.order_by # <<>> /\ OrderIndex(stmt) = 0
  <2>1. phase' = "idle" /\ status' = "error"
    BY <1>2 DEF SortRows, Answer
  <2> QED
    BY <2>1 DEF SelectExact
<1>3. CASE ~(stmt.order_by # <<>> /\ OrderIndex(stmt) = 0)
  <2>1. phase' = "limit" /\ result' \in IF stmt.order_by = <<>> THEN {result} ELSE SortedResults(stmt, OrderIndex(stmt), result)
    BY <1>3 DEF SortRows
  <2>2. Returns(result, m, M, data, at, stmt.order_by)
    BY <1>1 DEF SelectExact
  <2>3. m \in Nat
    BY FoundType
  <2> HIDE DEF m, M, at
  <2>4. Returns(result', m, M, data, at, stmt.order_by)
    <3>1. CASE stmt.order_by = <<>>
      BY <2>1, <2>2, <3>1
    <3>2. CASE stmt.order_by # <<>>
      <4>1. result' \in Rearranged(result)
        BY <2>1, <3>2 DEF SortedResults
      <4>2. PICK keys \in [1..m -> M] :
                /\ \A a, b \in 1..m : a # b => keys[a] # keys[b]
                /\ result = [n \in 1..m |-> [i \in DOMAIN at |-> Deserialize(data[keys[n]])[at[i]]]]
        BY <2>2 DEF Returns
      <4>3. DOMAIN result = 1..m /\ Cardinality(1..m) = m
        <5>1. DOMAIN result = 1..m
          BY <4>2
        <5>2. Cardinality(1..m) = m
          <6>1. Cardinality(1..m) = IF 1 > m THEN 0 ELSE m - 1 + 1
            BY <2>3, FS_Interval
          <6> QED
            BY <2>3, <6>1
        <5> QED
          BY <5>1, <5>2
      <4>4. PICK f \in SetToSeqs(DOMAIN result) : result' = [n \in DOMAIN result |-> result[f[n]]]
        BY <4>1 DEF Rearranged
      <4>5. f \in [1..m -> 1..m] /\ \A a, b \in 1..m : a # b => f[a] # f[b]
        BY <4>3 DEF SetToSeqs
      <4> DEFINE g == [n \in 1..m |-> keys[f[n]]]
      <4>6. g \in [1..m -> M] /\ \A a, b \in 1..m : a # b => g[a] # g[b]
        BY <4>2, <4>5
      <4>7. \A n \in 1..m : result[f[n]] = [i \in DOMAIN at |-> Deserialize(data[g[n]])[at[i]]]
        <5> SUFFICES ASSUME NEW n \in 1..m PROVE result[f[n]] = [i \in DOMAIN at |-> Deserialize(data[g[n]])[at[i]]]
          OBVIOUS
        <5>1. f[n] \in 1..m /\ g[n] = keys[f[n]]
          BY <4>5
        <5> HIDE DEF g
        <5> QED
          BY <4>2, <5>1
      <4> HIDE DEF g
      <4>8. result' = [n \in 1..m |-> [i \in DOMAIN at |-> Deserialize(data[g[n]])[at[i]]]]
        BY <4>3, <4>4, <4>7, Zenon
      <4> QED
        BY <3>2, <4>6, <4>8 DEF Returns
    <3> QED
      BY <3>1, <3>2
  <2>5. Returns(result, HowMany(stmt), Matching(stmt.where), data, Projection(stmt), stmt.order_by)'
    BY <1>1, <2>4, SameSource DEF m, M, at
  <2> QED
    BY <2>1, <2>5 DEF SelectExact
<1> QED
  BY <1>2, <1>3

\* LIMIT keeps the first ones.
LEMMA LimitExact ==
    ASSUME SelectExact, IsFiniteSet(DOMAIN data), stmt.limit \in Int, LimitRows
    PROVE  SelectExact'
<1> DEFINE m == HowMany(stmt)
           l == Limited(stmt)
           M == Matching(stmt.where)
           at == Projection(stmt)
<1>1. phase = "limit" /\ phase' = "idle" /\ UNCHANGED <<stmt, catalog, data>>
  BY DEF LimitRows, Answer, stored
<1>2. result' = IF stmt.limit >= 0 /\ stmt.limit < Len(result) THEN SubSeq(result, 1, stmt.limit) ELSE result
  BY DEF LimitRows
<1>3. Returns(result, m, M, data, at, stmt.order_by)
  BY <1>1 DEF SelectExact
<1>4. m \in Nat
  BY FoundType
<1>5. l = IF stmt.limit >= 0 /\ stmt.limit < m THEN stmt.limit ELSE m
  BY DEF Limited
<1> HIDE DEF m, l, M, at
<1>6. PICK keys \in [1..m -> M] :
          /\ \A a, b \in 1..m : a # b => keys[a] # keys[b]
          /\ result = [n \in 1..m |-> [i \in DOMAIN at |-> Deserialize(data[keys[n]])[at[i]]]]
          /\ stmt.order_by = <<>> => \A a, b \in 1..m : a < b => LexLess(keys[a], keys[b])
  BY <1>3 DEF Returns
<1>7. Len(result) = m
  BY <1>4, <1>6
<1>8. Returns(result', l, M, data, at, stmt.order_by)
  <2>1. CASE ~(stmt.limit >= 0 /\ stmt.limit < m)
    BY <1>2, <1>3, <1>5, <1>7, <2>1
  <2>2. CASE stmt.limit >= 0 /\ stmt.limit < m
    <3>1. l = stmt.limit /\ l \in Nat /\ l < m /\ 1..l \subseteq 1..m
      BY <1>4, <1>5, <2>2
    <3>2. result' = SubSeq(result, 1, l)
      BY <1>2, <1>7, <2>2, <3>1
    <3>3. result' = [n \in 1..l |-> result[n]]
      <4> DEFINE A == {result[n] : n \in 1..m}
                 v == SubSeq(result, 1, l)
      <4>1. result \in Seq(A)
        <5>1. result = [n \in 1..m |-> result[n]]
          BY <1>6
        <5>2. \A n \in 1..m : result[n] \in A
          OBVIOUS
        <5> HIDE DEF A
        <5>3. result \in [1..m -> A]
          BY <5>1, <5>2
        <5> QED
          BY <1>4, <5>3
      <4> HIDE DEF A
      <4>2. v \in Seq(A) /\ Len(v) = l /\ \A n \in 1..l : v[n] = result[n]
        BY <1>7, <3>1, <4>1
      <4> HIDE DEF v
      <4>3. v = [n \in 1..l |-> v[n]]
        BY <4>2
      <4>4. v = [n \in 1..l |-> result[n]]
        BY <4>2, <4>3
      <4> QED
        BY <3>2, <4>4 DEF v
    <3> DEFINE g == [n \in 1..l |-> keys[n]]
    <3>4. /\ g \in [1..l -> M] /\ \A a, b \in 1..l : a # b => g[a] # g[b]
          /\ stmt.order_by = <<>> => \A a, b \in 1..l : a < b => LexLess(g[a], g[b])
      BY <1>6, <3>1
    <3>5. \A n \in 1..l : result[n] = [i \in DOMAIN at |-> Deserialize(data[g[n]])[at[i]]]
      BY <1>6, <3>1
    <3> HIDE DEF g
    <3>6. result' = [n \in 1..l |-> [i \in DOMAIN at |-> Deserialize(data[g[n]])[at[i]]]]
      BY <3>3, <3>5, Zenon
    <3> QED
      BY <3>4, <3>6 DEF Returns
  <2> QED
    BY <2>1, <2>2
<1>9. Returns(result, Limited(stmt), Matching(stmt.where), data, Projection(stmt), stmt.order_by)'
  BY <1>1, <1>8, SameSource DEF l, M, at
<1> QED
  BY <1>1, <1>9 DEF SelectExact

\* In every state of every session, SelectExact holds: whatever was stored, exec_select() answers with the
\* matching rows, each of them once, all of them or as many as LIMIT allows.
THEOREM SessionSelectExact == Spec => []SelectExact
<1> DEFINE Inv == SessionInv /\ IsFiniteSet(DOMAIN data) /\ SelectExact
<1>1. Init => IsFiniteSet(DOMAIN data) /\ SelectExact
  <2> SUFFICES ASSUME Init PROVE IsFiniteSet(DOMAIN data) /\ SelectExact
    OBVIOUS
  <2> DEFINE rows == Scenarios[scenario].rows
             K == {FormatPk(r[1]) : r \in rows}
  <2>1. IsFiniteSet(rows)
    BY StatementConstants DEF Init
  <2>2. DOMAIN data = K
    BY DEF Init
  <2> HIDE DEF rows
  <2>3. IsFiniteSet(K)
    <3> DEFINE f == [r \in rows |-> FormatPk(r[1])]
    <3>1. f \in Surjection(rows, K)
      BY DEF Surjection
    <3> HIDE DEF K, f
    <3> QED
      BY <2>1, <3>1, FS_Surjection
  <2>4. phase = "idle" /\ stmt = None
    BY DEF Init
  <2> QED
    BY <2>2, <2>3, <2>4 DEF SelectExact
<1>2. Inv /\ [Next]_vars => IsFiniteSet(DOMAIN data)' /\ SelectExact'
  <2> SUFFICES ASSUME SessionInv, IsFiniteSet(DOMAIN data), SelectExact, [Next]_vars PROVE SelectExact'
    BY FiniteData
  <2>1. CASE Idle /\ LET sc == Scenarios[scenario] IN
                \/ \E s \in sc.texts : SubmitText(s)
                \/ \E s \in sc.statements : Submit(s)
                \/ \E s \in sc.statements, t \in sc.slips : \E i \in 1..Len(Write(s)) : SubmitSlip(s, i, t)
    <3>1. phase' \in {"text", "tokens"}
      BY <2>1 DEF SubmitText, Submit, SubmitSlip
    <3> QED
      BY <3>1 DEF SelectExact
  <2>2. CASE TokenizeText
    BY <2>2 DEF TokenizeText, Answer, SelectExact
  <2>3. CASE Parse
    <3>1. CASE phase' = "idle" /\ status' = "error"
      BY <3>1 DEF SelectExact
    <3>2. CASE ~(phase' = "idle" /\ status' = "error")
      <4>1. phase' = ParseStatement(tokens).val.kind /\ stmt' = ParseStatement(tokens).val
        BY <2>3, <3>2 DEF Parse, Answer
      <4>2. SessionInv'
        BY <2>3, ParseKeeps
      <4>3. phase' \notin {"sort", "limit", "idle"}
        <5>1. ~Fails(ParseStatement(tokens))
          BY <2>3, <3>2 DEF Parse, Answer
        <5>2. Readable(tokens)
          BY <2>3, <5>1, NotAStatement DEF Parse, SessionInv, SentOK
        <5>3. ParseStatement(tokens).val \in Statement
          BY <5>1, <5>2, ParserTyped
        <5> QED
          BY <4>1, <5>3, StatementForms
      <4> QED
        BY <4>3 DEF SelectExact
    <3> QED
      BY <3>1, <3>2
  <2>4. CASE FilterRows
    BY <2>4, FilterExact
  <2>5. CASE SortRows
    BY <2>5, SortExact
  <2>6. CASE LimitRows
    <3>1. stmt.limit \in Int
      BY <2>6, StatementForms DEF LimitRows, SessionInv, StmtOK
    <3> QED
      BY <2>6, <3>1, LimitExact
  <2>7. CASE ExecCreateTable \/ ExecDropTable \/ ExecInsert \/ ExecUpdate \/ ExecDelete \/ ExecShowTables \/ ExecDescribe
    <3>1. phase' = "idle" /\ stmt' = stmt
      BY <2>7 DEF ExecCreateTable, ExecDropTable, ExecInsert, PutRow, ExecUpdate, ExecDelete, ExecShowTables, ExecDescribe, Answer
    <3>2. phase \in {"create", "drop", "insert", "update", "delete", "show", "describe"}
      BY <2>7 DEF ExecCreateTable, ExecDropTable, ExecInsert, ExecUpdate, ExecDelete, ExecShowTables, ExecDescribe
    <3>3. stmt.kind # "select"
      BY <3>2 DEF SessionInv, StmtOK
    <3> QED
      BY <3>1, <3>3 DEF SelectExact
  <2>8. CASE UNCHANGED vars
    <3>1. UNCHANGED <<stmt, catalog, data>> /\ UNCHANGED <<phase, status, result>>
      BY <2>8 DEF vars
    <3> QED
      BY <3>1, SameSource DEF SelectExact
  <2> QED
    BY <2>1, <2>2, <2>3, <2>4, <2>5, <2>6, <2>7, <2>8 DEF Next
<1> QED
  BY <1>1, <1>2, SessionInvariant, PTL DEF Spec

\* A table that CREATE made of whatever tokens, stored in the catalog and read back, needs its key:
\* an INSERT into it is refused or does not reach next_row_id().
THEOREM CreatedTablesNeedKeys ==
    ASSUME NEW ts, Readable(ts), ~Fails(ParseStatement(ts)), ParseStatement(ts).val.kind = "create",
           ParseStatement(ts).val.primary_key # <<>>, NEW s
    PROVE  LET schema == SchemaDeserialize(SchemaSerialize(NewSchema(ParseStatement(ts).val)))
           IN  InsertRefused(schema, s) \/ ~KeyGenerated(schema, s)
<1> DEFINE c == ParseStatement(ts).val
           new == NewSchema(c)
<1>1. c \in Statement /\ c.kind = "create" /\ KeyMarked(c)
  BY ParserTyped
<1> HIDE DEF c
<1>2. new \in TableSchema /\ new.columns = c.columns /\ new.primary_key = c.primary_key
  BY <1>1, StatementForms DEF NewSchema, TableSchema
<1>3. KeyMarked(new)
  BY <1>1, <1>2 DEF KeyMarked
<1> HIDE DEF new
<1>4. SchemaDeserialize(SchemaSerialize(new)) = new /\ new.columns \in Seq(ColumnDef)
  BY <1>2, SchemasSurvive DEF TableSchema
<1>5. InsertRefused(new, s) \/ ~KeyGenerated(new, s)
  BY <1>3, <1>4, KeysNeverGenerated
<1> QED
  BY <1>4, <1>5 DEF new, c
=============================================================================
