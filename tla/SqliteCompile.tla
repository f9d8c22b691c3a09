---------------------------- MODULE SqliteCompile ----------------------------
(***************************************************************************)
(* The compiler of the SQLite backend: records are JSON blobs, so a        *)
(* property is a json_extract of the blob (NULL for an absent path and for *)
(* a stored null alike) and its presence a json_type; every filter is      *)
(* pushed down.  Inside an array (json_each) the same visitor reads each   *)
(* element instead of the blob; value expressions read the blob even there. *)
(***************************************************************************)
EXTENDS SqlEngine

RECURSIVE SqliteValue(_)
SqliteValue(e) ==
  LET ps == IF "operands" \in DOMAIN e THEN [i \in DOMAIN e.operands |-> SqliteValue(e.operands[i])] ELSE <<>>
  IN CASE e.type = "field"    -> Col(e.path)
       [] e.type = "lit"      -> Const(e.value)
       [] e.type = "arith"    -> ArithFragment(e.op, ps)
       [] e.type = "neg"      -> NegFragment(ps[1])
       [] e.type = "concat"   -> ConcatFragment(ps)
       [] e.type = "coalesce" -> CoalesceFragment(ps)
       [] e.type = "datepart" -> DateOf(ps[1], e.part)            \* a time zone is refused
       [] e.type = "datestring" -> DateFmt(ps[1], e.format)
       [] e.type = "vcompare" -> Cmp(e.op, ps[1], ps[2])
       [] e.type \in {"vand", "vor"} ->
            IF ps = <<>> THEN Const(Bool(e.type = "vand"))
            ELSE Junction(IF e.type = "vand" THEN "and" ELSE "or", ps)
       [] e.type = "vnot"     -> Negate(ps[1])
       [] e.type = "cond"     -> Case(<<[when |-> ps[1], then |-> ps[2]]>>, ps[3])
       [] e.type = "switch"   ->
            Case([i \in DOMAIN e.branches |-> [when |-> SqliteValue(e.branches[i].when),
                                               then |-> SqliteValue(e.branches[i].then)]],
                 SqliteValue(e.otherwise))

\* mutant: the test is left bare, so a NULL column answers "!=" with NULL
CompareForgetsNull(e, col) == Cmp(e.comparator, col, Const(e.value))
SqliteCompareOp(e, col) ==
  LET test == Cmp(e.comparator, col, Const(e.value))
  IN  IF e.comparator = "!=" THEN Junction("or", <<test, NullTest(col, FALSE)>>) ELSE test
SqliteNotIn(e, col) ==
  IF e.values = <<>> THEN SqlTrue
  ELSE Junction("or", <<NullTest(col, FALSE), Negate(Member(col, e.values))>>)

\* the visitor, over the blob or over an element
SqliteColumnOf(path, inEach) == IF inEach THEN Element(path) ELSE Col(path)
RECURSIVE SqliteWhere(_, _)
SqliteWhere(e, inEach) ==
  LET col == IF "property" \in DOMAIN e THEN SqliteColumnOf(e.property, inEach) ELSE SqlTrue
  IN CASE e.type = "all"     -> SqlTrue
     [] e.type = "compare" -> SqliteCompareOp(e, col)
     [] e.type = "expr"    -> Cmp(e.comparator, SqliteValue(e.left), SqliteValue(e.right))
     [] e.type = "any"     -> Each(col, SqliteWhere(e.predicate, TRUE))
     [] e.type = "in"      -> IF e.values = <<>> THEN SqlFalse ELSE Member(col, e.values)
     [] e.type = "nin"     -> SqliteNotIn(e, col)
     [] e.type = "contains" -> Each(col, Cmp("=", Element(Itself), Const(e.value)))
     [] e.type = "between" -> Within(col, e.lower, e.upper)
     [] e.type = "exists"  -> NullTest(TypeOf(col), e.should)
     [] e.type = "isNull"  -> NullTest(col, e.negated)
     [] e.type = "size"    -> SizeTest(col, e.length)
     [] e.type = "textmatch" -> IF e.value = <<>> THEN TextTest(col)
                                ELSE Like(col, e.mode, e.value, e.ci)
     [] e.type \in {"and", "or"} ->
          IF e.parts = <<>> THEN Const(Bool(e.type = "and"))
          ELSE Junction(e.type, [i \in DOMAIN e.parts |-> SqliteWhere(e.parts[i], inEach)])
     [] e.type = "not"     -> Negate(SqliteWhere(e.part, inEach))

\* what the backend calls
SqliteClause(e) == SqliteWhere(e, FALSE)
SqliteColumn(e) == SqliteValue(e)

----------------------------------------------------------------------------
\* patchDataExpr: one UPDATE whose every operand reads the row as it was; what the statement leaves in
\* the field, or Undef when it drops the field

Elements(x) == IF x.t = "array" THEN x.v ELSE <<>>
NotAmong(xs, list) == SelectSeq(xs, LAMBDA x : ~Includes(list, x))
ArrayOpSql(op, x) ==
  CASE op.kind = "pull"     -> Arr(NotAmong(Elements(x), op.values))
    [] op.kind = "push"     -> Arr(Elements(x) \o op.values)
    [] op.kind = "addToSet" -> Arr(Elements(x) \o NotAmong(op.values, Elements(x)))
SqlitePatchField(op, field, r) ==
  LET x == GetPath(r, <<field>>)
  IN CASE op.kind = "set"     -> op.value
       [] op.kind = "unset"   -> Undef
       [] op.kind = "setExpr" -> SqlValue(SqliteValue(op.value), r)
       [] op.kind \in {"inc", "mul"} ->
            SqlValue(Arith(IF op.kind = "inc" THEN "+" ELSE "*", <<Zeroed(Col(<<field>>)), Const(op.by)>>), r)
       [] OTHER -> ArrayOpSql(op, x)
SqlitePatch(r, ops) ==
  Drop([k \in DOMAIN r \cup DOMAIN ops |->
          IF k \in DOMAIN ops THEN SqlitePatchField(ops[k], k, r) ELSE r[k]], Undef)
=============================================================================
