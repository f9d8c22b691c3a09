---------------------------- MODULE MongoFacade ----------------------------
(***************************************************************************)
(* The MongoDB facade: find, aggregate and the writes of a collection in   *)
(* MongoDB's syntax, mapped onto the query builder and the patches, next   *)
(* to what the MongoDB server does with the same pipeline or update.       *)
(*                                                                         *)
(* A pipeline is a sequence of stages; an update is a function from its    *)
(* operators to the fields they touch; accumulators are named.             *)
(***************************************************************************)
EXTENDS QueryCollections

\* accumulate(): {$sum: 1} counts, any other number too
FieldAt(path) == [type |-> "field", path |-> path]
Accumulator(acc) ==
  IF acc.op = "$count" \/ (acc.op = "$sum" /\ "times" \in DOMAIN acc) THEN [op |-> "count"]
  ELSE [op |-> CASE acc.op = "$sum" -> "sum" [] acc.op = "$avg" -> "avg" [] acc.op = "$min" -> "min" [] acc.op = "$max" -> "max",
        value |-> FieldAt(acc.of)]
Accumulators(group) == [name \in DOMAIN group.acc |-> Accumulator(group.acc[name])]

\* runAggregate: the stages before $group are absorbed into one query and one window, and what follows
\* $group is applied to its rows
NoGroup == [op |-> "none"]
Pipeline0 == [query |-> EveryRow, skip |-> 0, limit |-> Unlimited, group |-> NoGroup, post |-> <<>>, counts |-> FALSE]
Lesser(m, n) == IF m = Unlimited \/ n < m THEN n ELSE m
\* mutant: the last $limit wins
AbsorbLastWindow(p, stage) ==
  IF stage.op = "$skip" THEN [p EXCEPT !.skip = @ + stage.n] ELSE [p EXCEPT !.limit = stage.n]
AbsorbWindow(p, stage) ==
  IF stage.op = "$skip" THEN [p EXCEPT !.skip = @ + stage.n] ELSE [p EXCEPT !.limit = Lesser(@, stage.n)]
AbsorbStage(p, stage) ==
  IF p.counts THEN p
  ELSE IF p.group # NoGroup THEN [p EXCEPT !.post = Append(@, stage)]
  ELSE CASE stage.op = "$match" -> [p EXCEPT !.query = FilterBy(@, ParseMongo(stage.doc))]
         [] stage.op = "$sort"  -> [p EXCEPT !.query = SortBy(@, stage.keys)]
         [] stage.op \in {"$skip", "$limit"} -> AbsorbWindow(p, stage)
         [] stage.op = "$count" -> [p EXCEPT !.counts = TRUE]
         [] stage.op = "$group" -> [p EXCEPT !.group = stage]
Windowed(p) == IF p.skip = 0 /\ p.limit = Unlimited THEN p.query ELSE Slice(p.query, p.skip, p.limit)

From(docs, n)  == SubSeq(docs, n + 1, Len(docs))
Upto(docs, n)  == SubSeq(docs, 1, IF n < Len(docs) THEN n ELSE Len(docs))
CountDoc(n)    == <<"count" :> Num(n)>>
PostGroup(docs, stage) ==
  CASE stage.op = "$sort"  -> InOrderOf(stage.keys, docs)
    [] stage.op = "$skip"  -> From(docs, stage.n)
    [] stage.op = "$limit" -> Upto(docs, stage.n)
    [] stage.op = "$count" -> CountDoc(Len(docs))
Documents(groups) == [i \in DOMAIN groups |-> ("_id" :> groups[i].key) @@ groups[i].values]
GroupDocs(p, rows) ==
  IF p.group.id = None THEN <<("_id" :> Null) @@ AggregateOf(p.query, Accumulators(p.group), rows)>>
  ELSE Documents(GroupByOf(p.query, FieldAt(p.group.id), Accumulators(p.group), rows))
RunAbsorbed(p, rows) ==
  IF p.counts THEN CountDoc(CountOf(Windowed(p), rows))
  ELSE IF p.group = NoGroup THEN ListOf(Windowed(p), rows)
  ELSE FoldLeft(PostGroup, GroupDocs(p, rows), p.post)
RunAggregate(pipeline, rows) == RunAbsorbed(FoldLeft(AbsorbStage, Pipeline0, pipeline), rows)

\* find(): the cursor sorts, then skips, then limits
Sliced(q, f) == IF f.skip = 0 /\ f.limit = Unlimited THEN q ELSE Slice(q, f.skip, f.limit)
FindRows(f, rows) == ListOf(Sliced(SortBy(FilterBy(EveryRow, ParseMongo(f.doc)), f.sort), f), rows)

----------------------------------------------------------------------------
\* parseMongoUpdate: the patch of an update, or Refused when two operators touch one field

Refused == [refused |-> TRUE]
EachValues(arg) == IF "each" \in DOMAIN arg THEN arg.each ELSE <<arg>>
UpdateOp(op, arg) ==
  CASE op = "$set"   -> [kind |-> "set", value |-> arg]
    [] op = "$unset" -> [kind |-> "unset"]
    [] op = "$inc"   -> [kind |-> "inc", by |-> arg]
    [] op = "$mul"   -> [kind |-> "mul", by |-> arg]
    [] op = "$push"  -> [kind |-> "push", values |-> EachValues(arg)]
    [] op = "$addToSet" -> [kind |-> "addToSet", values |-> EachValues(arg)]
    [] op \in {"$pull", "$pullAll"} -> [kind |-> "pull", values |-> EachValues(arg)]
ParseUpdate(update) ==
  LET ops     == DOMAIN update \ {"$setOnInsert"}
      fields  == UNION {DOMAIN update[op] : op \in ops}
      touch(f) == {op \in ops : f \in DOMAIN update[op]}
  IN  IF \E f \in fields : \E op1, op2 \in touch(f) : op1 # op2 THEN Refused
      ELSE [f \in fields |-> LET op == CHOOSE o \in touch(f) : TRUE IN UpdateOp(op, update[op][f])]

EqualityFields(doc) ==
  [f \in {doc[i].path[1] : i \in {j \in DOMAIN doc : doc[j].key = "field" /\ doc[j].body[1].op = "plain"}} |->
     (CHOOSE c \in Range(doc) : c.key = "field" /\ c.path[1] = f /\ c.body[1].op = "plain").body[1].arg]
FieldsOf(update, op) == IF op \in DOMAIN update THEN update[op] ELSE <<>>
InsertUpsert(w) ==                                           \* the later of the three wins
  FieldsOf(w.update, "$setOnInsert") @@ FieldsOf(w.update, "$set") @@ EqualityFields(w.doc)

\* The writes; all but the *Many ones touch the first match only
FirstOnly(w) == w.op \notin {"updateMany", "deleteMany"}
Hits(w, matching) ==
  IF FirstOnly(w) /\ matching # {} THEN {CHOOSE i \in matching : \A j \in matching : i <= j} ELSE matching
Upserts(w) == w.upsert /\ w.op \in {"updateOne", "updateMany", "findOneAndUpdate", "replaceOne"}
Written(w, hits, changed, inserted, rows) ==
  IF hits = {} THEN (IF Upserts(w) THEN Append(rows, inserted) ELSE rows)
  ELSE IF w.op \in {"deleteOne", "deleteMany"}
  THEN LET kept == SelectSeq([i \in DOMAIN rows |-> i], LAMBDA i : i \notin hits)
       IN  [k \in DOMAIN kept |-> rows[kept[k]]]
  ELSE [i \in DOMAIN rows |-> IF i \in hits THEN changed[i] ELSE rows[i]]
FacadeWriteTo(w, hits, rows) ==
  IF w.op = "replaceOne" THEN Written(w, hits, [i \in hits |-> w.replacement], w.replacement, rows)
  ELSE Written(w, hits, [i \in hits |-> ApplyPatch(rows[i], ParseUpdate(w.update))], InsertUpsert(w), rows)
FacadeWrite(w, rows) ==
  FacadeWriteTo(w, Hits(w, {i \in DOMAIN rows : Match(ParseMongo(w.doc), rows[i])}), rows)

----------------------------------------------------------------------------
\* The MongoDB server: each stage rewrites the documents of the one before

ServerAccumulate(acc, docs) ==
  LET xs == SelectSeq([i \in DOMAIN docs |-> GetPath(docs[i], acc.of)], LAMBDA x : x.t = "number")
  IN  CASE acc.op = "$count" -> Num(Len(docs))
        [] acc.op = "$sum" /\ "times" \in DOMAIN acc -> Num(acc.times * Len(docs))
        [] acc.op = "$sum" -> SumOf(xs)
        [] OTHER -> IF xs = <<>> THEN Null
                    ELSE CASE acc.op = "$avg" -> Over(SumOf(xs), Num(Len(xs)))
                           [] acc.op = "$min" -> LeastOf(xs)
                           [] acc.op = "$max" -> GreatestOf(xs)
ServerKeys(group, docs) ==
  [i \in DOMAIN docs |-> IF group.id = None THEN Null ELSE IfNull(GetPath(docs[i], group.id), Null)]
Accumulated(group, buckets) ==
  [i \in DOMAIN buckets |->
     ("_id" :> buckets[i].key)
       @@ [name \in DOMAIN group.acc |-> ServerAccumulate(group.acc[name], buckets[i].rows)]]
ServerGroup(group, docs) == Accumulated(group, Bucketed(docs, ServerKeys(group, docs)))
ServerStage(docs, stage) ==
  CASE stage.op = "$match" -> SelectSeq(docs, LAMBDA r : Finds(stage.doc, r))
    [] stage.op = "$sort"  -> InOrderOf(stage.keys, docs)
    [] stage.op = "$skip"  -> From(docs, stage.n)
    [] stage.op = "$limit" -> Upto(docs, stage.n)
    [] stage.op = "$count" -> IF docs = <<>> THEN <<>> ELSE CountDoc(Len(docs))
    [] stage.op = "$group" -> ServerGroup(stage, docs)
ServerAggregate(pipeline, rows) == FoldLeft(ServerStage, rows, pipeline)
ServerCut(f, docs) == IF f.limit = Unlimited THEN From(docs, f.skip) ELSE Upto(From(docs, f.skip), f.limit)
ServerFind(f, rows) == ServerCut(f, InOrderOf(f.sort, SelectSeq(rows, LAMBDA r : Finds(f.doc, r))))

ServerOp(op, arg, x) ==
  CASE op = "$set"   -> arg
    [] op = "$unset" -> Undef
    [] op = "$inc"   -> Plus(IfNull(x, Num(0)), arg)
    [] op = "$mul"   -> Times(IfNull(x, Num(0)), arg)
    [] op = "$push"  -> Arr(MongoArray(x) \o EachValues(arg))
    [] op = "$addToSet" -> Arr(FoldLeft(AddMissing, MongoArray(x), EachValues(arg)))
    [] op \in {"$pull", "$pullAll"} ->
         IF x = Undef THEN Undef ELSE Arr(SelectSeq(MongoArray(x), LAMBDA y : ~Includes(EachValues(arg), y)))
\* what the server refuses: arithmetic on a value that is no number, array operators on one that is no array
ServerTakes(update, r) ==
  \A op \in DOMAIN update \ {"$setOnInsert", "$set", "$unset"} : \A f \in DOMAIN update[op] :
    LET x == GetPath(r, <<f>>)
    IN  x.t \in {"undefined", IF op \in {"$inc", "$mul"} THEN "number" ELSE "array"}
ServerUpdate(update, r) ==
  LET ops   == DOMAIN update \ {"$setOnInsert"}
      touched == UNION {DOMAIN update[op] : op \in ops}
      after == [f \in DOMAIN r \cup touched |->
                  IF f \notin touched THEN r[f]
                  ELSE LET op == CHOOSE o \in ops : f \in DOMAIN update[o]
                       IN  ServerOp(op, update[op][f], GetPath(r, <<f>>))]
  IN  [f \in {g \in DOMAIN after : after[g] # Undef} |-> after[f]]
ServerInserts(w) == ServerUpdate(w.update, FieldsOf(w.update, "$setOnInsert") @@ EqualityFields(w.doc))
ServerWriteTo(w, hits, rows) ==
  IF w.op = "replaceOne" THEN Written(w, hits, [i \in hits |-> w.replacement], w.replacement, rows)
  ELSE Written(w, hits, [i \in hits |-> ServerUpdate(w.update, rows[i])], ServerInserts(w), rows)
ServerWrite(w, rows) == ServerWriteTo(w, Hits(w, {i \in DOMAIN rows : Finds(w.doc, rows[i])}), rows)
=============================================================================
