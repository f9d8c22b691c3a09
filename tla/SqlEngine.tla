----------------------------- MODULE SqlEngine -----------------------------
(***************************************************************************)
(* The SQL fragments the compilers produce, and what an engine makes of    *)
(* them over one row: three-valued logic (NULL is the value Null), integer *)
(* division, NULL-propagating operators.  The assemblers of valueSql.ts,   *)
(* shared by every SQL compiler, build the operator fragments.             *)
(***************************************************************************)
EXTENDS Expressions

\* A fragment is a record whose op names the SQL construct
Const(x)          == [op |-> "const", x |-> x]                 \* a bound parameter or an inlined literal
Col(path)         == [op |-> "col", path |-> path]             \* a column, or json_extract of the blob
JsonAt(path)      == [op |-> "json", path |-> path]            \* a type-exact extraction, compared as JSON
Element(path)     == [op |-> "element", path |-> path]         \* inside a json_each: json_extract(value, path)
TypeOf(col)       == [op |-> "jsontype", col |-> col]          \* json_type of what a column reads
Cmp(c, l, r)      == [op |-> "cmp", c |-> c, l |-> l, r |-> r]
Junction(k, ps)   == [op |-> k, parts |-> ps]                  \* k is "and" or "or"
Negate(p)         == [op |-> "not", p |-> p]
NullTest(p, neg)  == [op |-> "isnull", p |-> p, neg |-> neg]
Member(p, xs)     == [op |-> "in", p |-> p, xs |-> xs]
Within(p, lo, hi) == [op |-> "between", p |-> p, lo |-> lo, hi |-> hi]
Like(p, mode, s, ci) == [op |-> "like", p |-> p, mode |-> mode, s |-> s, ci |-> ci]
TextTest(p)       == [op |-> "istext", p |-> p]
Each(col, sub)    == [op |-> "each", col |-> col, sub |-> sub] \* EXISTS (SELECT 1 FROM json_each(col) WHERE sub)
SizeTest(col, n)  == [op |-> "size", col |-> col, n |-> n]
Case(whens, els)  == [op |-> "case", whens |-> whens, els |-> els]
Coalesce(ps)      == [op |-> "coalesce", parts |-> ps]
Arith(k, ps)      == [op |-> "arith", k |-> k, parts |-> ps]
Float(p)          == [op |-> "float", p |-> p]
Truncate(p)       == [op |-> "trunc", p |-> p]
Joined(ps)        == [op |-> "concat", parts |-> ps]
DateOf(p, part)   == [op |-> "date", p |-> p, part |-> part]
DateFmt(p, parts) == [op |-> "datefmt", p |-> p, parts |-> parts]

SqlTrue  == Const(Bool(TRUE))
SqlFalse == Const(Bool(FALSE))

----------------------------------------------------------------------------
\* valueSql.ts: each operand is COALESCEd, a division is by a guarded divisor and in floating point

Zeroed(p) == Coalesce(<<p, Const(Num(0))>>)
\* mutant: the dividend is not cast to a float
IntegerDivision(k, ps) ==
  LET A == Zeroed(ps[1])
      B == Zeroed(ps[2])
  IN  IF k = "/" THEN Case(<<[when |-> Cmp("=", B, Const(Num(0))), then |-> Const(Num(0))]>>, Arith("/", <<A, B>>))
      ELSE Arith(k, [i \in DOMAIN ps |-> Zeroed(ps[i])])
ArithFragment(k, ps) ==
  IF k \in {"/", "%"} /\ Len(ps) = 2
  THEN LET A == Zeroed(ps[1])
           B == Zeroed(ps[2])
           quotient == Arith("/", <<Float(A), B>>)
       IN  Case(<<[when |-> Cmp("=", B, Const(Num(0))), then |-> Const(Num(0))]>>,
                IF k = "/" THEN quotient
                ELSE Arith("-", <<A, Arith("*", <<B, Truncate(quotient)>>)>>))
  ELSE Arith(k, [i \in DOMAIN ps |-> Zeroed(ps[i])])
NegFragment(p)       == Arith("*", <<Const(Num(-1)), Zeroed(p)>>)
ConcatFragment(ps)   == Joined([i \in DOMAIN ps |-> Coalesce(<<ps[i], Const(Str(<<>>))>>)])
CoalesceFragment(ps) == Coalesce(ps)

----------------------------------------------------------------------------
\* The engine

IsTrue(x)  == x = Bool(TRUE) \/ (x.t = "number" /\ ~IsZero(x))
IsFalse(x) == ~IsTrue(x) /\ x # Null
Truth(yes, no) == IF yes THEN Bool(TRUE) ELSE IF no THEN Bool(FALSE) ELSE Null
Toward0(x) == Num(Sign(x.v[1]) * (Abs(x.v[1]) \div x.v[2]))
Whole(x)   == x.v[2] = 1

\* SQL arithmetic: integers divide with truncation unless one side was made a float
SqlArith(k, ps, xs) ==
  IF \E i \in DOMAIN xs : xs[i] = Null THEN Null
  ELSE IF k # "/" THEN ArithFold(k, xs)
  ELSE IF ps[1].op # "float" /\ Whole(xs[1]) /\ Whole(xs[2]) THEN Toward0(Over(xs[1], xs[2]))
  ELSE Over(xs[1], xs[2])
\* strftime over whole seconds: the division of the stored milliseconds by 1000 truncates
Seconds(x) == Toward0(Over(x, Num(1000))).v[1]

\* The order of SQLite: a true is stored as 1, and any number is below any text.  Of columns that hold
\* one type (Postgres, MySQL) it is the order of that type; JSON extracted type-exactly stays JSON.
Stored(f, x)    == IF f.op # "json" /\ x.t = "boolean" THEN Num(IF x.v THEN 1 ELSE 0) ELSE x
StorageClass(x) == IF x.t = "number" THEN 1 ELSE 2
SqlTest(a, op, b) ==
  IF op \in {"=", "!="} \/ StorageClass(a) = StorageClass(b) THEN CompareJson(a, op, b)
  ELSE (op \in {"<", "<="}) = (StorageClass(a) < StorageClass(b))

\* the row of the table joined with one element of json_each, whose column is named value
Itself       == <<"value">>
Inside(r, x) == [k \in DOMAIN r \cup {"json_each"} |-> IF k = "json_each" THEN x ELSE r[k]]
Raw(f, r) == IF f.op # "element" THEN GetPath(r, f.path)
             ELSE GetPath(r, <<"json_each">> \o (IF f.path = Itself THEN <<>> ELSE f.path))

\* json_extract of an element that is bare text fails (malformed JSON), and the statement with it, unless
\* the engine decides the row before it gets there
Operands(f) == (IF "p" \in DOMAIN f THEN {f.p} ELSE {}) \cup (IF "col" \in DOMAIN f THEN {f.col} ELSE {})
               \cup (IF f.op = "cmp" THEN {f.l, f.r} ELSE {})
               \cup (IF f.op \in {"and", "or"} THEN Range(f.parts) ELSE {})
RECURSIVE MayThrow(_, _)
MayThrow(f, r) ==
  \/ f.op = "element" /\ f.path # Itself /\ r["json_each"].t = "string"
  \/ \E g \in Operands(f) : MayThrow(g, r)
  \/ f.op = "each" /\ LET x == Raw(f.col, r)
                      IN  x.t = "array" /\ \E i \in DOMAIN x.v : MayThrow(f.sub, Inside(r, x.v[i]))

RECURSIVE SqlValue(_, _)
SqlValue(f, r) ==
  LET p  == IF "p" \in DOMAIN f THEN SqlValue(f.p, r) ELSE Null
      xs == IF "parts" \in DOMAIN f /\ f.op # "datefmt"
            THEN [i \in DOMAIN f.parts |-> SqlValue(f.parts[i], r)] ELSE <<>>
  IN CASE f.op = "const"    -> f.x
       [] f.op \in {"col", "element"} -> LET x == Raw(f, r) IN IF IsAbsent(x) THEN Null ELSE x
       [] f.op = "json"     -> LET x == GetPath(r, f.path)
                               IN  IF x = Undef THEN Null ELSE IF x = Null THEN [t |-> "jsonnull", v |-> None] ELSE x
       [] f.op = "jsontype" -> IF Raw(f.col, r) = Undef THEN Null ELSE Str(<<0>>)
       [] f.op = "cmp"      -> LET l == SqlValue(f.l, r)
                                   q == SqlValue(f.r, r)
                               IN  IF l = Null \/ q = Null THEN Null
                                   ELSE Bool(SqlTest(Stored(f.l, l), f.c, Stored(f.l, q)))
       [] f.op = "and"      -> Truth(\A i \in DOMAIN xs : IsTrue(xs[i]), \E i \in DOMAIN xs : IsFalse(xs[i]))
       [] f.op = "or"       -> Truth(\E i \in DOMAIN xs : IsTrue(xs[i]), \A i \in DOMAIN xs : IsFalse(xs[i]))
       [] f.op = "not"      -> Truth(IsFalse(p), IsTrue(p))
       [] f.op = "isnull"   -> Bool((p = Null) # f.neg)
       [] f.op = "in"       -> LET hit == \E i \in DOMAIN f.xs : f.xs[i] # Null /\ Identical(Stored(f.p, f.xs[i]), Stored(f.p, p))
                               IN  IF p = Null THEN Null
                                   ELSE Truth(hit, ~hit /\ \A i \in DOMAIN f.xs : f.xs[i] # Null)
       [] f.op = "between"  -> IF p = Null THEN Null
                               ELSE Bool(SqlTest(Stored(f.p, p), ">=", f.lo) /\ SqlTest(Stored(f.p, p), "<=", f.hi))
       [] f.op = "like"     -> IF p = Null THEN Null       \* a number is matched as its text
                               ELSE Bool(TextMatches(Str(TextOf(p)), [mode |-> f.mode, value |-> f.s, ci |-> f.ci]))
       [] f.op = "istext"   -> Bool(p.t = "string")
       [] f.op = "each"     -> LET x == Raw(f.col, r)
                               IN  Bool(x.t = "array" /\ \E i \in DOMAIN x.v : IsTrue(SqlValue(f.sub, Inside(r, x.v[i]))))
       [] f.op = "size"     -> LET x == Raw(f.col, r) IN Bool(x.t = "array" /\ Len(x.v) = f.n)
       [] f.op = "case"     -> LET hit == {i \in DOMAIN f.whens : IsTrue(SqlValue(f.whens[i].when, r))}
                               IN  IF hit = {} THEN SqlValue(f.els, r)
                                   ELSE SqlValue(f.whens[CHOOSE i \in hit : \A j \in hit : i <= j].then, r)
       [] f.op = "coalesce" -> FirstPresent(xs)
       [] f.op = "arith"    -> SqlArith(f.k, f.parts, xs)
       [] f.op = "float"    -> p
       [] f.op = "trunc"    -> IF p = Null THEN Null ELSE Toward0(p)
       [] f.op = "concat"   -> IF \E i \in DOMAIN xs : xs[i] = Null THEN Null ELSE ConcatText(xs)
       [] f.op = "date"     -> IF p = Null THEN Null ELSE Num(Clock(1000 * Seconds(p), 0)[f.part])
       [] f.op = "datefmt"  -> IF p = Null THEN Null
                               ELSE Str([i \in DOMAIN f.parts |-> Clock(1000 * Seconds(p), 0)[f.parts[i]]])

\* the rows a WHERE clause keeps
Selected(f, r) == SqlValue(f, r)                               \* an item of the SELECT list
Selects(f, r)  == IsTrue(SqlValue(f, r))                       \* the WHERE clause
=============================================================================
