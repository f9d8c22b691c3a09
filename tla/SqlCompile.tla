----------------------------- MODULE SqlCompile -----------------------------
(***************************************************************************)
(* The compiler of the columnar SQL backends (Postgres, MySQL): a filter   *)
(* becomes a WHERE clause over typed columns, or Scan when some part of it *)
(* cannot be pushed down (the backend then fetches the rows and evaluates  *)
(* the filter itself).                                                     *)
(***************************************************************************)
EXTENDS SqlEngine

Scan == [op |-> "scan"]
Pushed(f) == f.op # "scan"
AllPushed(fs) == \A i \in DOMAIN fs : Pushed(fs[i])

IsTop(path) == Len(path) = 1
IsJsonScalar(x) == x.t \in {"string", "number", "boolean"}
\* columns: the declared columns of the model and their stored types; any other field is in _extra
InOverflow(path, columns) ==
  /\ path[1] # "uuid"
  /\ path[1] \in DOMAIN columns => columns[path[1]] = "embedded"

CompileCompare(e, columns) ==
  IF InOverflow(e.property, columns)
  THEN IF e.comparator = "=" /\ IsJsonScalar(e.value)
       THEN Cmp("=", JsonAt(e.property), Const(e.value)) ELSE Scan
  ELSE IF ~IsTop(e.property) \/ e.value.t \notin {"number", "string"} THEN Scan
  ELSE LET test == Cmp(e.comparator, Col(e.property), Const(e.value))
       IN  IF e.comparator = "!=" THEN Junction("or", <<test, NullTest(Col(e.property), FALSE)>>) ELSE test

CompileIn(e, columns) ==
  LET of(T) == \A i \in DOMAIN e.values : e.values[i].t = T
      col   == Col(e.property)
  IN  IF InOverflow(e.property, columns)
      THEN IF e.type # "in" THEN Scan
           ELSE IF e.values = <<>> THEN SqlFalse
           ELSE IF \A i \in DOMAIN e.values : IsJsonScalar(e.values[i])
           THEN Member(JsonAt(e.property), e.values) ELSE Scan
      ELSE IF ~IsTop(e.property) THEN Scan
      ELSE IF e.values = <<>> THEN (IF e.type = "in" THEN SqlFalse ELSE SqlTrue)
      ELSE IF ~of("number") /\ ~of("string") THEN Scan
      ELSE IF e.type = "in" THEN Member(col, e.values)
      ELSE Junction("or", <<NullTest(col, FALSE), Negate(Member(col, e.values))>>)

CompileIsNull(e, columns) ==
  IF IsTop(e.property) /\ (e.property[1] = "uuid" \/ e.property[1] \in DOMAIN columns)
  THEN NullTest(Col(e.property), e.negated) ELSE Scan

HasMeta(s) == \E i \in DOMAIN s : s[i] \in {37, 92, 95}          \* % \ _
CompileTextMatch(e, columns) ==
  IF /\ ~e.ci
     /\ IsTop(e.property) /\ e.property[1] \in DOMAIN columns /\ columns[e.property[1]] = "text"
     /\ ~HasMeta(e.value)
  THEN Like(Col(e.property), e.mode, e.value, FALSE) ELSE Scan

RECURSIVE CompileValue(_)
CompileValue(e) ==
  LET ps == IF "operands" \in DOMAIN e THEN [i \in DOMAIN e.operands |-> CompileValue(e.operands[i])] ELSE <<>>
  IN  IF ~AllPushed(ps) THEN Scan
      ELSE CASE e.type = "field" -> IF IsTop(e.path) THEN Col(e.path) ELSE Scan
             [] e.type = "lit"      -> Const(e.value)
             [] e.type = "arith"    -> IF e.op \in {"/", "%"} /\ Len(ps) # 2 THEN Scan ELSE ArithFragment(e.op, ps)
             [] e.type = "neg"      -> NegFragment(ps[1])
             [] e.type = "concat"   -> ConcatFragment(ps)
             [] e.type = "coalesce" -> CoalesceFragment(ps)
             [] e.type = "vcompare" -> Cmp(e.op, ps[1], ps[2])
             [] e.type = "vand"     -> IF ps = <<>> THEN SqlTrue ELSE Junction("and", ps)
             [] e.type = "vor"      -> IF ps = <<>> THEN SqlFalse ELSE Junction("or", ps)
             [] e.type = "vnot"     -> Negate(ps[1])
             [] e.type = "cond"     -> Case(<<[when |-> ps[1], then |-> ps[2]]>>, ps[3])
             [] e.type = "switch"   ->
                  LET whens == [i \in DOMAIN e.branches |-> [when |-> CompileValue(e.branches[i].when),
                                                             then |-> CompileValue(e.branches[i].then)]]
                      els   == CompileValue(e.otherwise)
                  IN  IF Pushed(els) /\ \A i \in DOMAIN whens : Pushed(whens[i].when) /\ Pushed(whens[i].then)
                      THEN Case(whens, els) ELSE Scan
             [] OTHER -> Scan                                    \* date parts

RECURSIVE CompileWhere(_, _)
CompileWhere(e, columns) ==
  CASE e.type = "all" -> SqlTrue
    [] e.type \in {"and", "or"} ->
         LET ps == [i \in DOMAIN e.parts |-> CompileWhere(e.parts[i], columns)]
         IN  IF ps = <<>> THEN (IF e.type = "and" THEN SqlTrue ELSE SqlFalse)
             ELSE IF AllPushed(ps) THEN Junction(e.type, ps) ELSE Scan
    [] e.type = "not" -> LET p == CompileWhere(e.part, columns) IN IF Pushed(p) THEN Negate(p) ELSE Scan
    [] e.type = "compare" -> CompileCompare(e, columns)
    [] e.type \in {"in", "nin"} -> CompileIn(e, columns)
    [] e.type = "between" -> IF e.lower.t = "number" /\ e.upper.t = "number" /\ IsTop(e.property)
                             THEN Within(Col(e.property), e.lower, e.upper) ELSE Scan
    [] e.type = "isNull" -> CompileIsNull(e, columns)
    [] e.type = "textmatch" -> CompileTextMatch(e, columns)
    [] e.type = "expr" -> LET l == CompileValue(e.left)
                              q == CompileValue(e.right)
                          IN  IF Pushed(l) /\ Pushed(q) THEN Cmp(e.comparator, l, q) ELSE Scan
    [] OTHER -> Scan                                             \* exists, size, contains, any

\* what the backend calls
WhereClause(e, columns) == CompileWhere(e, columns)
ValueColumn(e)          == CompileValue(e)
=============================================================================
