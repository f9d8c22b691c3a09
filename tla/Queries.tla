------------------------------ MODULE Queries ------------------------------
(***************************************************************************)
(* What a query, an aggregate, a window, a projection and a patch mean     *)
(* over a sequence of records (the reference semantics every backend is    *)
(* held to), and the SQL and MongoDB forms of aggregates and windows.      *)
(***************************************************************************)
EXTENDS MongoCompile, FiniteSets
S == INSTANCE SqlCompile
Q == INSTANCE SqliteCompile
X == INSTANCE IndexedCompile

\* scan(): filter, then order, then page
At(r, path) == GetPath(r, path)
\* compareValues: absent first, then by value
Precedes(a, b) == IF IsAbsent(a) THEN ~IsAbsent(b) ELSE ~IsAbsent(b) /\ ~Identical(a, b) /\ LessThan(a, b)
KeyBefore(k, a, b) == IF k.descending THEN Precedes(At(b, k.property), At(a, k.property))
                      ELSE Precedes(At(a, k.property), At(b, k.property))
Peer(order, a, b) == \A i \in DOMAIN order : ~KeyBefore(order[i], a, b) /\ ~KeyBefore(order[i], b, a)
RowBefore(order, a, b) ==
  \E i \in DOMAIN order : KeyBefore(order[i], a, b) /\ Peer(SubSeq(order, 1, i - 1), a, b)
\* a stable sort: positions that tie stay in the order of the input
Picked(rows, pos) == [i \in DOMAIN pos |-> rows[pos[i]]]
Sorted(order, rows) ==
  LET before(i, j) == RowBefore(order, rows[i], rows[j]) \/ (~RowBefore(order, rows[j], rows[i]) /\ i < j)
  IN  SortSeq([i \in DOMAIN rows |-> i], before)
Page(rows, paging) == SubSeq(rows, paging.start + 1, IF paging.end < Len(rows) THEN paging.end ELSE Len(rows))
InOrderOf(order, rows) == Picked(rows, Sorted(order, rows))
ScanRows(rows, plan) == Page(InOrderOf(plan.order, SelectSeq(rows, LAMBDA r : Match(plan.where, r))), plan.paging)

----------------------------------------------------------------------------
\* reduceWithExpr: non-numbers are dropped, an empty group reduces to 0

Numbers(value, rows) == SelectSeq([i \in DOMAIN rows |-> Evaluate(value, rows[i])], LAMBDA x : x.t = "number")
SumOf(xs) == FoldLeft(Plus, Num(0), xs)
LeastOf(xs) == FoldLeft(LAMBDA a, b : IF LessThan(b, a) THEN b ELSE a, xs[1], xs)
GreatestOf(xs) == FoldLeft(LAMBDA a, b : IF LessThan(a, b) THEN b ELSE a, xs[1], xs)
Reduced(op, xs) ==
  IF xs = <<>> THEN Num(0)
  ELSE CASE op = "sum" -> SumOf(xs)
         [] op = "avg" -> Over(SumOf(xs), Num(Len(xs)))
         [] op = "min" -> LeastOf(xs)
         [] op = "max" -> GreatestOf(xs)
Distinct(xs) == Num(Cardinality({xs[i] : i \in {j \in DOMAIN xs : ~IsAbsent(xs[j])}}))
ReduceWith(stage, rows) ==
  CASE stage.op = "count" -> Num(Len(rows))
    [] stage.op = "countDistinct" -> Distinct([i \in DOMAIN rows |-> Evaluate(stage.value, rows[i])])
    [] OTHER -> Reduced(stage.op, Numbers(stage.value, rows))

\* reduceAggregatePlan: one row per key tuple; without keys one row, even over no rows at all
KeysOf(plan, r) == [i \in DOMAIN plan.groupBy |-> Evaluate(plan.groupBy[i], r)]
Bucket(plan, rows, key) == SelectSeq(rows, LAMBDA r : KeysOf(plan, r) = key)
Aggregate(plan, rows) ==
  IF plan.groupBy = <<>>
  THEN {[key |-> <<>>, values |-> [i \in DOMAIN plan.stages |-> ReduceWith(plan.stages[i], rows)]]}
  ELSE {[key |-> key, values |-> [i \in DOMAIN plan.stages |-> ReduceWith(plan.stages[i], Bucket(plan, rows, key))]]
          : key \in {KeysOf(plan, rows[j]) : j \in DOMAIN rows}}

Having(rows, keys, key) == Picked(rows, SelectSeq([j \in DOMAIN rows |-> j], LAMBDA j : keys[j] = key))

\* compileAggregate / aggregateSql: COUNT(*), COUNT(DISTINCT v), COALESCE(SUM(v), 0); SQL reductions
\* skip NULL
Present(xs) == SelectSeq(xs, LAMBDA x : x # Null)
\* mutant: SUM, AVG, MIN and MAX are not COALESCEd, so a group without numbers is NULL
BareSqlReduce(op, xs) == IF xs = <<>> THEN Null ELSE Reduced(op, xs)
SqlReduce(op, xs)     == IF xs = <<>> THEN Num(0) ELSE Reduced(op, xs)
Compiled(backend, v) == IF backend = "sqlite" THEN Q!SqliteColumn(v) ELSE S!ValueColumn(v)
SqlItems(backend, v, rows) == [i \in DOMAIN rows |-> S!Selected(Compiled(backend, v), rows[i])]
SqlStage(backend, stage, rows) ==
  IF stage.op = "count" THEN Num(Len(rows))
  ELSE LET xs == Present(SqlItems(backend, stage.value, rows))
       IN  IF stage.op = "countDistinct" THEN Distinct(xs) ELSE SqlReduce(stage.op, xs)
SqlKeys(backend, vs, rows) ==
  [j \in DOMAIN rows |-> [i \in DOMAIN vs |-> S!Selected(Compiled(backend, vs[i]), rows[j])]]
SqlGroups(backend, plan, rows, keys) ==
  {[key |-> key, values |-> [i \in DOMAIN plan.stages |-> SqlStage(backend, plan.stages[i], Having(rows, keys, key))]]
     : key \in IF plan.groupBy = <<>> THEN {<<>>} ELSE Range(keys)}
SqlAggregate(backend, plan, rows) == SqlGroups(backend, plan, rows, SqlKeys(backend, plan.groupBy, rows))
\* an aggregate is pushed down only when each of its values is
AggregatePushed(plan) ==
  /\ \A i \in DOMAIN plan.groupBy : S!Pushed(S!ValueColumn(plan.groupBy[i]))
  /\ \A i \in DOMAIN plan.stages : plan.stages[i].op # "count" => S!Pushed(S!ValueColumn(plan.stages[i].value))

\* MongoBackend.aggregate: $group, then a null or absent accumulator read as 0; no input, no group
MongoStage(stage, rows) ==
  LET xs == [i \in DOMAIN rows |-> AggValue(stage.value, rows[i])]
  IN  CASE stage.op = "count" -> Num(Len(rows))
        [] stage.op = "countDistinct" -> Distinct(xs)
        [] OTHER -> Reduced(stage.op, SelectSeq(xs, LAMBDA x : x.t = "number"))
\* the _id is the key itself, read back as null when missing; of several keys a sub-document, which leaves
\* a missing one out (keyOf then reads undefined), so that missing and null are groups of their own
MongoKey(vs, r) == LET key == [i \in DOMAIN vs |-> AggValue(vs[i], r)]
                   IN  IF Len(vs) = 1 THEN <<IfNull(key[1], Null)>> ELSE key
MongoKeys(vs, rows) == [j \in DOMAIN rows |-> MongoKey(vs, rows[j])]
MongoGroups(plan, rows, keys) ==
  {[key |-> key, values |-> [i \in DOMAIN plan.stages |-> MongoStage(plan.stages[i], Having(rows, keys, key))]]
     : key \in Range(keys)}
MongoAggregate(plan, rows) == MongoGroups(plan, rows, MongoKeys(plan.groupBy, rows))

----------------------------------------------------------------------------
\* computeWindow: rows numbered within their partition, in the order of the plan (a column holds values
\* of one type, so compareForRank orders like compareValues)

RankOf(kind, order, part, sorted, i) ==       \* of the i-th row of the sorted partition
  LET newGroup(j) == j = 1 \/ ~Peer(order, part[sorted[j - 1]], part[sorted[j]])
      starts == {j \in 1..i : newGroup(j)}
  IN  CASE kind = "rowNumber" -> i
        [] kind = "rank"      -> CHOOSE j \in starts : \A k \in starts : k <= j
        [] kind = "denseRank" -> Cardinality(starts)
RankAmong(kind, order, part, pos, sorted, i) ==  \* pos: where the partition's rows are
  RankOf(kind, order, part, sorted, CHOOSE j \in DOMAIN sorted : pos[sorted[j]] = i)
RankWithin(kind, order, rows, pos, i) ==
  RankAmong(kind, order, Picked(rows, pos), pos, Sorted(order, Picked(rows, pos)), i)
Ranks(plan, rows, keys) ==
  LET mine(i) == SelectSeq([j \in DOMAIN rows |-> j], LAMBDA j : keys[j] = keys[i])
  IN  [i \in DOMAIN rows |-> [k \in DOMAIN plan.functions |->
         RankWithin(plan.functions[k], plan.order, rows, mine(i), i)]]
ComputeWindow(plan, rows) ==
  Ranks(plan, rows, [j \in DOMAIN rows |-> [i \in DOMAIN plan.partitionBy |-> Evaluate(plan.partitionBy[i], rows[j])]])

\* compileWindow: the SQL functions over (PARTITION BY .. ORDER BY .. with nulls where nullsOrder puts them)
\* mutant: the engine's default null placement is taken (Postgres: last when ascending)
NullsWhereTheEnginePutsThem(descending) == descending
NullsFirst(descending) == ~descending
SqlKeyBefore(k, a, b) ==
  LET x == IF k.descending THEN At(b, k.property) ELSE At(a, k.property)
      y == IF k.descending THEN At(a, k.property) ELSE At(b, k.property)
  IN  IF IsAbsent(At(a, k.property)) # IsAbsent(At(b, k.property))
      THEN IsAbsent(At(a, k.property)) = NullsFirst(k.descending)
      ELSE ~IsAbsent(x) /\ LessThan(x, y)
SqlBefore(order, a, b) ==
  \E i \in DOMAIN order : /\ SqlKeyBefore(order[i], a, b)
                          /\ \A j \in 1..(i - 1) : ~SqlKeyBefore(order[j], a, b) /\ ~SqlKeyBefore(order[j], b, a)
SqlRanks(plan, rows, keys) ==
  LET above(i) == {j \in DOMAIN rows : keys[j] = keys[i] /\ SqlBefore(plan.order, rows[j], rows[i])}
      peers(i, j) == ~SqlBefore(plan.order, rows[i], rows[j]) /\ ~SqlBefore(plan.order, rows[j], rows[i])
      value(i, kind) ==
        CASE kind = "rank" -> 1 + Cardinality(above(i))
          [] kind = "denseRank" -> 1 + Cardinality({{k \in above(i) : peers(j, k)} : j \in above(i)})
          [] kind = "rowNumber" ->              \* which of the peers comes first is the engine's choice
               1 + Cardinality(above(i))
                 + Cardinality({j \in DOMAIN rows : keys[j] = keys[i] /\ peers(i, j) /\ j < i})
  IN  [i \in DOMAIN rows |-> [k \in DOMAIN plan.functions |-> value(i, plan.functions[k])]]
SqlWindow(plan, rows) == SqlRanks(plan, rows, SqlKeys("columnar", plan.partitionBy, rows))

\* query(): SELECT .. WHERE .. ORDER BY .. LIMIT .. OFFSET ..; the columnar backends fall back to the scan
\* when the filter or the order cannot be pushed down
LimitOffset(xs, limit, offset) == SubSeq(xs, offset + 1, IF offset + limit < Len(xs) THEN offset + limit ELSE Len(xs))
SqlOrdered(order, rows) ==
  LET before(i, j) == SqlBefore(order, rows[i], rows[j]) \/ (~SqlBefore(order, rows[j], rows[i]) /\ i < j)
  IN  Picked(rows, SortSeq([i \in DOMAIN rows |-> i], before))
SqlRows(compiled, rows, plan) ==
  LimitOffset(SqlOrdered(plan.order, SelectSeq(rows, LAMBDA r : S!Selects(compiled, r))),
              plan.paging.end - plan.paging.start, plan.paging.start)
QueryOrScan(compiled, rows, plan) ==
  IF S!Pushed(compiled) /\ \A i \in DOMAIN plan.order : S!IsTop(plan.order[i].property)
  THEN SqlRows(compiled, rows, plan) ELSE ScanRows(rows, plan)
ColumnarRows(rows, plan, columns) == QueryOrScan(S!WhereClause(plan.where, columns), rows, plan)

\* IndexedDBBackend.query and count: the range narrows what is scanned, and is counted unrefined only when
\* it stands for the whole filter
IndexedRows(rows, plan, indexed) == ScanRows(X!Candidates(rows, X!IndexHint(plan.where, indexed)), plan)
IndexedCount(rows, where, indexed) ==
  LET cover == X!CoverableRange(where, indexed)
  IN  IF where.type # "all" /\ cover = X!NoHint
      THEN Len(IndexedRows(rows, [where |-> where, order |-> <<>>, paging |-> [start |-> 0, end |-> Len(rows)]], indexed))
      ELSE Len(X!Candidates(rows, cover))

----------------------------------------------------------------------------
\* Projection: the stored fields a selection needs, and what it returns

RECURSIVE FieldPaths(_)
FieldPaths(e) ==
  CASE e.type = "field" -> {e.path}
    [] e.type \in {"arith", "concat", "coalesce", "neg"} -> UNION {FieldPaths(e.operands[i]) : i \in DOMAIN e.operands}
    [] OTHER -> {}
NeededFields(sel) ==
  UNION {IF sel[k].kind = "expr" THEN {p[1] : p \in FieldPaths(sel[k].expr)} ELSE {k} : k \in DOMAIN sel}
RECURSIVE Project(_, _)
Project(x, sel) ==
  LET child(y, spec) == IF y.t = "array" THEN Arr([i \in DOMAIN y.v |-> Project(y.v[i], spec)])
                        ELSE IF IsAbsent(y) THEN Null ELSE Project(y, spec)
  IN  Obj([k \in DOMAIN sel |->
             CASE sel[k].kind = "true" -> Step(x, k)
               [] sel[k].kind = "expr" -> Evaluate(sel[k].expr, IF x.t = "object" THEN x.v ELSE <<>>)
               [] sel[k].kind = "nested" -> child(Step(x, k), sel[k].spec)])

----------------------------------------------------------------------------
\* applyPatch: every operand is read from the record as it was

ArrayAt(x) == IF x.t = "array" THEN x.v ELSE <<>>
PatchedField(op, x, before) ==
  CASE op.kind = "set"     -> op.value
    [] op.kind = "setExpr" -> Evaluate(op.value, before)
    [] op.kind = "unset"   -> Undef
    [] op.kind = "inc"     -> Plus(ToNum(x), op.by)
    [] op.kind = "mul"     -> Times(ToNum(x), op.by)
    [] op.kind = "push"    -> Arr(ArrayAt(x) \o op.values)
    [] op.kind = "addToSet" -> Arr(FoldLeft(LAMBDA acc, y : IF \E i \in DOMAIN acc : acc[i] = y THEN acc
                                                          ELSE Append(acc, y), ArrayAt(x), op.values))
    [] op.kind = "pull"    -> Arr(SelectSeq(ArrayAt(x), LAMBDA y : ~\E i \in DOMAIN op.values : op.values[i] = y))
ApplyPatch(r, ops) ==
  Drop([k \in DOMAIN r \cup DOMAIN ops |->
            IF k \in DOMAIN ops THEN PatchedField(ops[k], At(r, <<k>>), r) ELSE r[k]], Undef)
=============================================================================
