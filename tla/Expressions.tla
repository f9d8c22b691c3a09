---------------------------- MODULE Expressions ----------------------------
(***************************************************************************)
(* The reference semantics of filters and value expressions: what          *)
(* Expression.match and ValueExpr.evaluate compute over one record.  Every *)
(* backend that pushes a filter down is measured against these operators.  *)
(*                                                                         *)
(* A JSON value is a record [t, v]: numbers are reduced fractions, strings *)
(* are sequences of code units, objects are functions from names to        *)
(* values; "undefined" is what reading an absent path returns.  A dotted   *)
(* path is the sequence of its segments.                                   *)
(***************************************************************************)
EXTENDS Integers, Sequences, SequencesExt

None     == <<>>
Undef    == [t |-> "undefined", v |-> None]
Null     == [t |-> "null", v |-> None]
Bool(b)  == [t |-> "boolean", v |-> b]
Str(s)   == [t |-> "string", v |-> s]
Arr(s)   == [t |-> "array", v |-> s]
Obj(f)   == [t |-> "object", v |-> f]

RECURSIVE Gcd(_, _)
Gcd(a, b) == IF b = 0 THEN a ELSE Gcd(b, a % b)
Abs(i)    == IF i < 0 THEN -i ELSE i
Sign(i)   == IF i < 0 THEN -1 ELSE IF i > 0 THEN 1 ELSE 0
Frac(p, q) == LET g == Gcd(Abs(p), Abs(q))
              IN  [t |-> "number", v |-> <<Sign(q) * (p \div g), Abs(q) \div g>>]
Num(n)    == Frac(n, 1)

IsAbsent(x) == x.t \in {"undefined", "null"}
\* JavaScript ===: arrays and objects are compared by identity, so a stored one never equals a literal
Identical(a, b) == a.t = b.t /\ a.t \notin {"array", "object"} /\ a.v = b.v
Includes(list, x) == \E i \in DOMAIN list : Identical(list[i], x)

LessText(a, b) == \/ IsStrictPrefix(a, b)
                  \/ \E i \in DOMAIN a \cap DOMAIN b :
                        SubSeq(a, 1, i - 1) = SubSeq(b, 1, i - 1) /\ a[i] < b[i]
LessThan(a, b) == CASE a.t = "number"  -> a.v[1] * b.v[2] < b.v[1] * a.v[2]
                    [] a.t = "string"  -> LessText(a.v, b.v)
                    [] a.t = "boolean" -> ~a.v /\ b.v
                    [] OTHER -> FALSE

\* relate(): ordered only when both are present and of one type (otherwise NaN, and every test fails)
Ordered(a, b) == ~IsAbsent(a) /\ ~IsAbsent(b) /\ a.t = b.t
Above(a, b) == Ordered(a, b) /\ ~Identical(a, b) /\ ~LessThan(a, b)
Below(a, b) == Ordered(a, b) /\ ~Identical(a, b) /\ LessThan(a, b)
CompareJson(a, op, b) ==
  CASE op = "="  -> Identical(a, b)
    [] op = "!=" -> ~Identical(a, b)
    [] op = ">"  -> Above(a, b)
    [] op = "<"  -> Below(a, b)
    [] op = ">=" -> Identical(a, b) \/ Above(a, b)
    [] op = "<=" -> Identical(a, b) \/ Below(a, b)

\* getPath: plain object access, one segment at a time
Step(x, key) == IF x.t = "object" /\ key \in DOMAIN x.v THEN x.v[key] ELSE Undef
GetPath(r, path) == FoldLeft(Step, Obj(r), path)
\* the record without the fields that hold x
Drop(f, x) == [k \in {j \in DOMAIN f : f[j] # x} |-> f[k]]

----------------------------------------------------------------------------
\* Text search

AsciiLower(s) == [i \in DOMAIN s |-> IF s[i] \in 65..90 THEN s[i] + 32 ELSE s[i]]
HasText(hay, mode, needle) ==
  CASE mode = "prefix" -> IsPrefix(needle, hay)
    [] mode = "suffix" -> IsSuffix(needle, hay)
    [] mode = "substring" -> \E i \in 0..Len(hay) : IsPrefix(needle, SubSeq(hay, i + 1, Len(hay)))
TextMatches(x, e) ==
  LET fold(s) == IF e.ci THEN AsciiLower(s) ELSE s
  IN  x.t = "string" /\ HasText(fold(x.v), e.mode, fold(e.value))

----------------------------------------------------------------------------
\* Numbers, text and dates inside a value expression

AllDigits(s) == s # <<>> /\ \A i \in DOMAIN s : s[i] \in 48..57
Digits(s)    == FoldLeft(LAMBDA acc, c : 10 * acc + (c - 48), 0, s)
\* num(): Number(x), with what is not a finite number read as 0
ToNum(x) == CASE x.t = "number"  -> x
              [] x.t = "boolean" -> IF x.v THEN Num(1) ELSE Num(0)
              [] x.t = "string"  -> IF AllDigits(x.v) THEN Num(Digits(x.v)) ELSE Num(0)
              [] OTHER -> Num(0)
IsZero(x) == x.v[1] = 0
\* JavaScript's remainder takes the sign of the dividend
Remainder(a, b) == LET x == a.v[1] * b.v[2]
                       y == b.v[1] * a.v[2]
                   IN  Frac(Sign(x) * (Abs(x) % Abs(y)), a.v[2] * b.v[2])
Times(a, b)   == Frac(a.v[1] * b.v[1], a.v[2] * b.v[2])
Plus(a, b)    == Frac(a.v[1] * b.v[2] + b.v[1] * a.v[2], a.v[2] * b.v[2])
Minus(a, b)   == Plus(a, Times(Num(-1), b))
Over(a, b)    == Frac(a.v[1] * b.v[2], a.v[2] * b.v[1])
ApplyArith(op, a, b) ==
  CASE op = "+" -> Plus(a, b)
    [] op = "-" -> Minus(a, b)
    [] op = "*" -> Times(a, b)
    [] op = "/" -> IF IsZero(b) THEN Num(0) ELSE Over(a, b)
    [] op = "%" -> IF IsZero(b) THEN Num(0) ELSE Remainder(a, b)
ArithFold(op, xs) == FoldLeft(LAMBDA a, b : ApplyArith(op, a, b), xs[1], Tail(xs))

\* String(x ?? "") of the values a concatenation meets: text, and numbers below ten
TextOf(x) == CASE x.t = "string" -> x.v
               [] x.t = "number" -> <<48 + x.v[1]>>
               [] OTHER -> <<>>
ConcatText(xs) == Str(FlattenSeq([i \in DOMAIN xs |-> TextOf(xs[i])]))
FirstPresent(xs) == LET present == SelectSeq(xs, LAMBDA x : ~IsAbsent(x))
                    IN  IF present = <<>> THEN Null ELSE present[1]

\* The wall clock of an instant within 24 days of the epoch (the range of the integers TLC has); an
\* instant is floored to its second, and a time zone moves it by its offset in milliseconds
Clock(ms, offset) ==
  LET s == (ms + offset) \div 1000
      d == s \div 86400
  IN  [second |-> s % 60, minute |-> (s \div 60) % 60, hour |-> (s \div 3600) % 24,
       dayOfWeek |-> ((d + 4) % 7) + 1,
       year |-> IF d < 0 THEN 1969 ELSE 1970, month |-> IF d < 0 THEN 12 ELSE 1,
       dayOfMonth |-> IF d < 0 THEN d + 32 ELSE d + 1]
Instant(x) == ToNum(x).v[1] \div ToNum(x).v[2]
DatePart(x, part, zone) ==
  IF IsAbsent(x) \/ (x.t = "string" /\ ~AllDigits(x.v)) THEN Null ELSE Num(Clock(Instant(x), zone)[part])
\* formatDate: the fields a format names, in its order (their digits and the text between are layout)
DateText(x, parts, zone) ==
  IF IsAbsent(x) \/ (x.t = "string" /\ ~AllDigits(x.v)) THEN Null
  ELSE Str([i \in DOMAIN parts |-> Clock(Instant(x), zone)[parts[i]]])

Truthy(x) == ~IsAbsent(x) /\ x # Bool(FALSE) /\ x # Num(0)

----------------------------------------------------------------------------
\* ValueExpr.evaluate

\* comparisons and connectives are conditions: booleans, over any operands
Condition(e, args) ==
  CASE e.type = "vcompare" -> CompareJson(args[1], e.op, args[2])
    [] e.type = "vand"     -> \A i \in DOMAIN args : Truthy(args[i])
    [] e.type = "vor"      -> \E i \in DOMAIN args : Truthy(args[i])
    [] e.type = "vnot"     -> ~Truthy(args[1])
FieldValue(e, r) == LET x == GetPath(r, e.path) IN IF IsAbsent(x) THEN Null ELSE x

RECURSIVE Evaluate(_, _), FirstBranch(_, _)
FirstBranch(e, r) ==
  LET hit == {i \in DOMAIN e.branches : Truthy(Evaluate(e.branches[i].when, r))}
  IN  IF hit = {} THEN Evaluate(e.otherwise, r)
      ELSE Evaluate(e.branches[CHOOSE i \in hit : \A j \in hit : i <= j].then, r)
Evaluate(e, r) ==
  LET args == IF "operands" \in DOMAIN e
              THEN [i \in DOMAIN e.operands |-> Evaluate(e.operands[i], r)] ELSE <<>>
  IN CASE e.type = "field"    -> FieldValue(e, r)
       [] e.type = "lit"      -> e.value
       [] e.type = "arith"    -> ArithFold(e.op, [i \in DOMAIN args |-> ToNum(args[i])])
       [] e.type = "neg"      -> Times(Num(-1), ToNum(args[1]))
       [] e.type = "concat"   -> ConcatText(args)
       [] e.type = "coalesce" -> FirstPresent(args)
       [] e.type = "datepart" -> DatePart(args[1], e.part, e.zone)
       [] e.type = "datestring" -> DateText(args[1], e.format, e.zone)
       [] e.type = "cond"     -> IF Truthy(args[1]) THEN args[2] ELSE args[3]
       [] e.type = "switch"   -> FirstBranch(e, r)
       [] OTHER               -> Bool(Condition(e, args))

----------------------------------------------------------------------------
\* Expression.match

\* an array element is matched as a record of its own, a bare value as the record [value |-> x]
AsRecord(x) == IF x.t = "object" THEN x.v ELSE [value |-> x]

MatchIn(e, x)       == Includes(e.values, x)
MatchContains(e, x) == x.t = "array" /\ Includes(x.v, e.value)
MatchBetween(e, x)  == CompareJson(x, ">=", e.lower) /\ CompareJson(x, "<=", e.upper)
\* a stored null exists, and is null
MatchExists(e, x)   == (x.t # "undefined") = e.should
MatchIsNull(e, x)   == IsAbsent(x) # e.negated
MatchSize(e, x)     == x.t = "array" /\ Len(x.v) = e.length

RECURSIVE Match(_, _)
Match(e, r) ==
  LET x == IF "property" \in DOMAIN e THEN GetPath(r, e.property) ELSE Undef
  IN CASE e.type = "all"     -> TRUE
       [] e.type = "compare" -> CompareJson(x, e.comparator, e.value)
       [] e.type = "expr"    -> CompareJson(Evaluate(e.left, r), e.comparator, Evaluate(e.right, r))
       [] e.type = "any"     -> x.t = "array" /\ \E i \in DOMAIN x.v : Match(e.predicate, AsRecord(x.v[i]))
       [] e.type = "in"      -> MatchIn(e, x)
       [] e.type = "nin"     -> ~MatchIn(e, x)
       [] e.type = "contains" -> MatchContains(e, x)
       [] e.type = "between" -> MatchBetween(e, x)
       [] e.type = "exists"  -> MatchExists(e, x)
       [] e.type = "isNull"  -> MatchIsNull(e, x)
       [] e.type = "size"    -> MatchSize(e, x)
       [] e.type = "textmatch" -> TextMatches(x, e)
       [] e.type = "and"     -> \A i \in DOMAIN e.parts : Match(e.parts[i], r)
       [] e.type = "or"      -> \E i \in DOMAIN e.parts : Match(e.parts[i], r)
       [] e.type = "not"     -> ~Match(e.part, r)
=============================================================================
