---------------------------- MODULE MongoCompile ----------------------------
(***************************************************************************)
(* The MongoDB side: filters compiled to query documents and back, value   *)
(* expressions to aggregation expressions, patches to update documents.    *)
(*                                                                         *)
(* A query document is a sequence of clauses: a logical one has a key and  *)
(* documents, a field clause a path and a body of operators (a plain value *)
(* is the operator "plain"), and an $expr clause two aggregation           *)
(* expressions, for which a value expression itself stands (the compiler   *)
(* maps it node by node).                                                  *)
(***************************************************************************)
EXTENDS Expressions

Logical(key, docs) == <<[key |-> key, docs |-> docs]>>
On(path, op, arg)  == <<[key |-> "field", path |-> path, body |-> <<[op |-> op, arg |-> arg]>>]>>
OpName(c) == CASE c = "!=" -> "$ne" [] c = ">" -> "$gt" [] c = "<" -> "$lt" [] c = ">=" -> "$gte" [] c = "<=" -> "$lte"

\* an element predicate on the bare value becomes an operator body, any other stays a document
ElementMatch(doc) ==
  IF doc # <<>> /\ doc[1].key = "field" /\ doc[1].path = <<"value">>
  THEN [doc |-> <<>>, body |-> doc[1].body] ELSE [doc |-> doc, body |-> <<>>]

CompileMongoCompare(e) ==
  IF e.comparator = "="
  THEN IF e.value = Null THEN On(e.property, "$type", "null") ELSE On(e.property, "plain", e.value)
  ELSE IF e.comparator = "!=" /\ e.value = Null
  THEN On(e.property, "$not", <<[op |-> "$type", arg |-> "null"]>>)
  ELSE On(e.property, OpName(e.comparator), e.value)

RECURSIVE CompileMongo(_)
CompileMongo(e) ==
  LET each(ps) == [i \in DOMAIN ps |-> CompileMongo(ps[i])]
  IN CASE e.type = "all"     -> <<>>
       [] e.type = "compare" -> CompileMongoCompare(e)
       [] e.type = "expr"    -> <<[key |-> "$expr", c |-> e.comparator, l |-> e.left, r |-> e.right]>>
       [] e.type = "any"     -> On(e.property, "$elemMatch", ElementMatch(CompileMongo(e.predicate)))
       [] e.type = "in"      -> On(e.property, "$in", e.values)
       [] e.type = "nin"     -> On(e.property, "$nin", e.values)
       [] e.type = "contains" -> On(e.property, "plain", e.value)
       [] e.type = "between" -> <<[key |-> "field", path |-> e.property,
                                   body |-> <<[op |-> "$gte", arg |-> e.lower], [op |-> "$lte", arg |-> e.upper]>>]>>
       [] e.type = "exists"  -> On(e.property, "$exists", e.should)
       [] e.type = "isNull"  -> On(e.property, IF e.negated THEN "$ne" ELSE "plain", Null)
       [] e.type = "size"    -> On(e.property, "$size", e.length)
       [] e.type = "textmatch" -> IF e.value = <<>> THEN On(e.property, "$type", "string")
                                  ELSE On(e.property, "$regex", [mode |-> e.mode, value |-> e.value, ci |-> e.ci])
       [] e.type = "and"     -> Logical("$and", each(e.parts))
       [] e.type = "or"      -> Logical("$or", each(e.parts))
       [] e.type = "not"     -> Logical("$nor", <<CompileMongo(e.part)>>)

----------------------------------------------------------------------------
\* parseMongoFilter: a query document back into a filter; Unsupported where the code throws

Unsupported == [type |-> "unsupported"]
\* mutant: several operators of one field are alternatives
AnyOf(es) == IF Len(es) = 1 THEN es[1] ELSE [type |-> "or", parts |-> es]
AllOf(es) == IF Len(es) = 1 THEN es[1] ELSE [type |-> "and", parts |-> es]
Compared(path, c, x) == [type |-> "compare", property |-> path, comparator |-> c, value |-> x]

RECURSIVE ParseMongo(_), ParseOperator(_, _)
ParseOperator(path, o) ==
  CASE o.op \in {"plain", "$eq"} -> Compared(path, "=", o.arg)
    [] o.op = "$ne"  -> Compared(path, "!=", o.arg)
    [] o.op = "$gt"  -> Compared(path, ">", o.arg)
    [] o.op = "$gte" -> Compared(path, ">=", o.arg)
    [] o.op = "$lt"  -> Compared(path, "<", o.arg)
    [] o.op = "$lte" -> Compared(path, "<=", o.arg)
    [] o.op = "$in"  -> [type |-> "in", property |-> path, values |-> o.arg]
    [] o.op = "$nin" -> [type |-> "nin", property |-> path, values |-> o.arg]
    [] o.op = "$exists" -> [type |-> "exists", property |-> path, should |-> o.arg]
    [] o.op = "$size"   -> [type |-> "size", property |-> path, length |-> o.arg]
    [] o.op = "$all"    -> [type |-> "and", parts |-> [i \in DOMAIN o.arg |->
                               [type |-> "contains", property |-> path, value |-> o.arg[i]]]]
    [] o.op = "$elemMatch" -> IF o.arg.body # <<>> THEN Unsupported
                              ELSE [type |-> "any", property |-> path, predicate |-> ParseMongo(o.arg.doc)]
    [] o.op = "$regex" -> [type |-> "textmatch", property |-> path] @@ o.arg
    [] o.op = "$not"   -> LET parts == [i \in DOMAIN o.arg |-> ParseOperator(path, o.arg[i])]
                          IN  [type |-> "not", part |-> AllOf(parts)]
    [] OTHER -> Unsupported
ParseClause(c) ==
  LET docs == IF "docs" \in DOMAIN c THEN [i \in DOMAIN c.docs |-> ParseMongo(c.docs[i])] ELSE <<>>
  IN CASE c.key = "$and"  -> [type |-> "and", parts |-> docs]
       [] c.key = "$or"   -> [type |-> "or", parts |-> docs]
       [] c.key = "$nor"  -> [type |-> "not", part |-> [type |-> "or", parts |-> docs]]
       [] c.key = "field" -> AllOf([i \in DOMAIN c.body |-> ParseOperator(c.path, c.body[i])])
       [] OTHER -> Unsupported
ParseMongo(doc) ==
  IF doc = <<>> THEN [type |-> "all"] ELSE AllOf([i \in DOMAIN doc |-> ParseClause(doc[i])])

\* the parse throws as a whole
RECURSIVE Supported(_)
Supported(e) == CASE e.type = "unsupported" -> FALSE
                  [] e.type \in {"and", "or"} -> \A i \in DOMAIN e.parts : Supported(e.parts[i])
                  [] e.type = "not" -> Supported(e.part)
                  [] e.type = "any" -> Supported(e.predicate)
                  [] OTHER -> TRUE

----------------------------------------------------------------------------
\* The MongoDB server: aggregation expressions order all types (a missing field below null, null below
\* a number, a number below text, text below a boolean), query operators compare within one type

Rank(x) == CASE x.t = "undefined" -> 0 [] x.t = "null" -> 1 [] x.t = "number" -> 2 [] x.t = "string" -> 3 [] OTHER -> 4
BsonLess(a, b) == Rank(a) < Rank(b) \/ (Rank(a) = Rank(b) /\ Below(a, b))
AggCompare(a, op, b) ==
  CASE op = "=" -> a = b
    [] op = "!=" -> a # b
    [] op = "<" -> BsonLess(a, b)
    [] op = ">" -> BsonLess(b, a)
    [] op = "<=" -> ~BsonLess(b, a)
    [] op = ">=" -> ~BsonLess(a, b)
IfNull(x, y) == IF IsAbsent(x) THEN y ELSE x

\* MONGO_VALUES, and what the server computes from it
RECURSIVE AggValue(_, _)
AggValue(e, r) ==
  LET args == IF "operands" \in DOMAIN e
              THEN [i \in DOMAIN e.operands |-> AggValue(e.operands[i], r)] ELSE <<>>
      nums == [i \in DOMAIN args |-> IfNull(args[i], Num(0))]
  IN CASE e.type = "field" -> GetPath(r, e.path)
       [] e.type = "lit"   -> e.value
       [] e.type = "arith" -> IF e.op \in {"/", "%"} /\ Len(nums) = 2 /\ IsZero(nums[2]) THEN Num(0)
                              ELSE ArithFold(e.op, nums)
       [] e.type = "neg"   -> Times(nums[1], Num(-1))
       [] e.type = "concat" -> ConcatText([i \in DOMAIN args |-> IfNull(args[i], Str(<<>>))])
       [] e.type = "coalesce" -> FoldRight(LAMBDA head, rest : IfNull(head, rest), Front(args), Last(args))
       [] e.type = "datepart" -> IF IsAbsent(args[1]) THEN Null ELSE Num(Clock(Instant(args[1]), e.zone)[e.part])
       [] e.type = "datestring" -> IF IsAbsent(args[1]) THEN Null ELSE DateText(args[1], e.format, e.zone)
       [] e.type = "vcompare" -> Bool(AggCompare(args[1], e.op, args[2]))
       [] e.type = "vand"  -> Bool(\A i \in DOMAIN args : Truthy(args[i]))
       [] e.type = "vor"   -> Bool(\E i \in DOMAIN args : Truthy(args[i]))
       [] e.type = "vnot"  -> Bool(~Truthy(args[1]))
       [] e.type = "cond"  -> IF Truthy(args[1]) THEN args[2] ELSE args[3]
       [] e.type = "switch" ->
            LET hit == {i \in DOMAIN e.branches : Truthy(AggValue(e.branches[i].when, r))}
            IN  IF hit = {} THEN AggValue(e.otherwise, r)
                ELSE AggValue(e.branches[CHOOSE i \in hit : \A j \in hit : i <= j].then, r)

Equals(x, y) == IF y = Null THEN IsAbsent(x)
                ELSE Identical(x, y) \/ (x.t = "array" /\ Includes(x.v, y))
RECURSIVE Accepts(_, _), Finds(_, _)
Accepts(o, x) ==
  CASE o.op \in {"plain", "$eq"} -> Equals(x, o.arg)
    [] o.op = "$ne"  -> ~Equals(x, o.arg)
    [] o.op = "$gt"  -> Above(x, o.arg)
    [] o.op = "$lt"  -> Below(x, o.arg)
    [] o.op = "$gte" -> Identical(x, o.arg) \/ Above(x, o.arg)
    [] o.op = "$lte" -> Identical(x, o.arg) \/ Below(x, o.arg)
    [] o.op = "$in"  -> \E i \in DOMAIN o.arg : Equals(x, o.arg[i])
    [] o.op = "$nin" -> ~\E i \in DOMAIN o.arg : Equals(x, o.arg[i])
    [] o.op = "$exists" -> (x # Undef) = o.arg
    [] o.op = "$type"   -> x.t = o.arg
    [] o.op = "$size"   -> x.t = "array" /\ Len(x.v) = o.arg
    [] o.op = "$regex"  -> TextMatches(x, o.arg)
    [] o.op = "$not"    -> ~\A i \in DOMAIN o.arg : Accepts(o.arg[i], x)
    [] o.op = "$elemMatch" ->
         /\ x.t = "array"
         /\ \E i \in DOMAIN x.v :
              IF o.arg.body # <<>> THEN \A j \in DOMAIN o.arg.body : Accepts(o.arg.body[j], x.v[i])
              ELSE x.v[i].t = "object" /\ Finds(o.arg.doc, x.v[i].v)
Finds(doc, r) ==
  \A i \in DOMAIN doc :
    LET c == doc[i]
    IN CASE c.key = "$and"  -> \A j \in DOMAIN c.docs : Finds(c.docs[j], r)
         [] c.key = "$or"   -> \E j \in DOMAIN c.docs : Finds(c.docs[j], r)
         [] c.key = "$nor"  -> ~\E j \in DOMAIN c.docs : Finds(c.docs[j], r)
         [] c.key = "$expr" -> AggCompare(AggValue(c.l, r), c.c, AggValue(c.r, r))
         [] c.key = "field" -> \A j \in DOMAIN c.body : Accepts(c.body[j], GetPath(r, c.path))

----------------------------------------------------------------------------
\* compileMongoUpdate: a classic update document, or, as soon as one field is computed, a pipeline of
\* one $set and one $unset stage

MongoArray(x) == IF x.t = "array" THEN x.v ELSE <<>>
\* mutant: $push with $each where $addToSet is meant
AddAlways(acc, x) == Append(acc, x)
AddMissing(acc, x) == IF Includes(acc, x) THEN acc ELSE Append(acc, x)
ClassicField(op, x) ==
  CASE op.kind = "set"   -> op.value
    [] op.kind = "unset" -> Undef
    [] op.kind = "inc"   -> Plus(IfNull(x, Num(0)), op.by)
    [] op.kind = "mul"   -> Times(IfNull(x, Num(0)), op.by)
    [] op.kind = "push"  -> Arr(MongoArray(x) \o op.values)
    [] op.kind = "addToSet" -> Arr(FoldLeft(AddMissing, MongoArray(x), op.values))
    [] op.kind = "pull"  -> IF x = Undef THEN Undef ELSE Arr(SelectSeq(MongoArray(x), LAMBDA y : ~Includes(op.values, y)))
PipelineField(op, x, r) ==
  CASE op.kind = "set"     -> op.value
    [] op.kind = "setExpr" -> AggValue(op.value, r)
    [] op.kind = "inc"     -> Plus(IfNull(x, Num(0)), op.by)
    [] op.kind = "mul"     -> Times(IfNull(x, Num(0)), op.by)
    [] op.kind = "unset"   -> Undef
    [] OTHER -> x                                     \* no case for push, addToSet and pull
MongoPatch(r, ops) ==
  LET computed == \E k \in DOMAIN ops : ops[k].kind = "setExpr"
      after == [k \in DOMAIN r \cup DOMAIN ops |->
                  IF k \notin DOMAIN ops THEN r[k]
                  ELSE IF computed THEN PipelineField(ops[k], GetPath(r, <<k>>), r)
                  ELSE ClassicField(ops[k], GetPath(r, <<k>>))]
  IN  [k \in {j \in DOMAIN after : after[j] # Undef} |-> after[k]]
=============================================================================
