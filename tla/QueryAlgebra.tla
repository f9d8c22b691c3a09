---------------------------- MODULE QueryAlgebra ----------------------------
(***************************************************************************)
(* A table of records, and a client that asks a filter, an aggregate, a    *)
(* window, a patch, or a MongoDB pipeline or write of it, or walks it page *)
(* by page while it is written to.  The properties compare what the        *)
(* compiling backends and the MongoDB facade answer with the reference     *)
(* semantics.                                                              *)
(***************************************************************************)
EXTENDS MongoFacade
CONSTANTS Records, Bulk, Keyed, Filters, Pages, Selections, Patches, Plans, Windows, Pipelines, Finders, Writes,
          Walks, Columns, Indexes, MaxRows
ASSUME AlgebraAssumption == Bulk \subseteq Records /\ Keyed \cap Records = {} /\ MaxRows \in Nat

VARIABLES rows, asked,
          walk      \* a keyset traversal: its query and limit, the uuids of the rows it has returned, its
                    \* cursor, and the uuids written since it started
vars == <<rows, asked, walk>>

Asked(kind, q) == [kind |-> kind, q |-> q]
NoWalk == [state |-> "none"]
Init == rows = <<>> /\ asked = Asked("nothing", <<>>) /\ walk = NoWalk

Uuid(r) == r["uuid"]
Plain   == rows # <<>> => rows[1] \in Bulk
Single  == Len(rows) = 1 /\ rows[1] \in Records
Walked  == rows # <<>> /\ rows[1] \in Keyed
Save(r) ==
  /\ Len(rows) < MaxRows
  /\ walk = NoWalk
  /\ rows # <<>> => \/ r \in Bulk /\ rows[1] \in Bulk         \* one record of any kind, several plain ones,
                    \/ r \in Keyed /\ rows[1] \in Keyed /\ LessThan(Uuid(Last(rows)), Uuid(r))   \* or keyed ones
  /\ rows' = Append(rows, r)
  /\ UNCHANGED <<asked, walk>>
\* the answer is compared in the state that holds the question; then the client asks another
Answered == asked.kind # "nothing" /\ asked' = Asked("nothing", <<>>) /\ UNCHANGED <<rows, walk>>
Ask(kind, q) == walk = NoWalk /\ asked' = Asked(kind, q) /\ UNCHANGED <<rows, walk>>
AskFilter(e) == Ask("filter", e) /\ Single
AskPage(plan) == Ask("page", plan) /\ Plain
AskSelection(sel) == Ask("select", sel) /\ Single
AskPatch(ops) == Ask("patch", ops) /\ Single
AskAggregate(plan) == Ask("aggregate", plan) /\ Plain
AskWindow(plan) == Ask("window", plan) /\ rows # <<>> /\ Plain
AskPipeline(p) == Ask("pipeline", p) /\ Plain
AskFind(f) == Ask("find", f) /\ Plain
AskWrite(w) == Ask("write", w) /\ (Single \/ Plain)

\* walking a table with page({limit, after}), one write by anyone between two pages
StartWalk(w) ==
  /\ Walked /\ walk = NoWalk
  /\ walk' = [state |-> "open", query |-> w.query, limit |-> w.limit, after |-> NoCursor, seen |-> <<>>, touched |-> {}]
  /\ UNCHANGED <<rows, asked>>
Uuids(rs) == [i \in DOMAIN rs |-> Uuid(rs[i])]
Turned(page) == [walk EXCEPT !.state = IF page.hasMore THEN "open" ELSE "done", !.after = page.next,
                             !.seen = @ \o Uuids(page.items)]
NextPage ==
  /\ walk.state = "open"
  /\ walk' = Turned(PageOf(walk.query, walk.limit, ScanRows(rows, PagePlan(walk.query, walk.limit, walk.after))))
  /\ UNCHANGED <<rows, asked>>
Writing(u) == walk.state = "open" /\ walk.seen # <<>> /\ walk.touched = {} /\ walk' = [walk EXCEPT !.touched = {u}]
InsertRow(r) ==
  /\ Writing(Uuid(r))
  /\ \A i \in DOMAIN rows : Uuid(rows[i]) # Uuid(r)
  /\ rows' = Append(rows, r)
  /\ UNCHANGED asked
ChangeRow(i, r) == Writing(Uuid(r)) /\ Uuid(rows[i]) = Uuid(r) /\ rows' = [rows EXCEPT ![i] = r] /\ UNCHANGED asked
RemoveRow(i)    == Writing(Uuid(rows[i])) /\ rows' = RemoveAt(rows, i) /\ UNCHANGED asked
EndWalk == walk.state = "done" /\ walk' = NoWalk /\ rows' = <<>> /\ UNCHANGED asked      \* and the table is cleared

Question ==
  \/ \E r \in Records \cup Keyed : Save(r)
  \/ \E e \in Filters : AskFilter(e)
  \/ \E plan \in Pages : AskPage(plan)
  \/ \E sel \in Selections : AskSelection(sel)
  \/ \E ops \in Patches : AskPatch(ops)
  \/ \E plan \in Plans : AskAggregate(plan)
  \/ \E plan \in Windows : AskWindow(plan)
  \/ \E p \in Pipelines : AskPipeline(p)
  \/ \E f \in Finders : AskFind(f)
  \/ \E w \in Writes : AskWrite(w)
  \/ \E w \in Walks : StartWalk(w)
Walking ==
  \/ NextPage
  \/ \E r \in Keyed : InsertRow(r)
  \/ \E i \in DOMAIN rows, r \in Keyed : ChangeRow(i, r)
  \/ \E i \in DOMAIN rows : RemoveRow(i)
  \/ EndWalk
Next == \/ asked.kind = "nothing" /\ walk = NoWalk /\ Question
        \/ walk # NoWalk /\ Walking
        \/ Answered
Spec == Init /\ [][Next]_vars

----------------------------------------------------------------------------
\* Where SQL's NULL, and MongoDB's ordering of missing values, cannot show

NeverNull(e) == e.type \in {"arith", "neg", "concat"} \/ (e.type = "lit" /\ ~IsAbsent(e.value))
RECURSIVE NullSafeValue(_)
NullSafeValue(e) ==
  /\ e.type # "vnot"
  /\ e.type = "vcompare" => e.op # "!=" /\ \E i \in 1..2 : NeverNull(e.operands[i])
  /\ "operands" \in DOMAIN e => \A i \in DOMAIN e.operands : NullSafeValue(e.operands[i])
  /\ e.type = "switch" => /\ NullSafeValue(e.otherwise)
                          /\ \A i \in DOMAIN e.branches :
                               NullSafeValue(e.branches[i].when) /\ NullSafeValue(e.branches[i].then)
RECURSIVE NullSafe(_), Uses(_, _), Decided(_)
NullSafe(e) ==
  CASE e.type \in {"and", "or"} -> \A i \in DOMAIN e.parts : NullSafe(e.parts[i])
    [] e.type = "not"  -> FALSE
    [] e.type = "any"  -> NullSafe(e.predicate)
    [] e.type = "expr" -> /\ e.comparator # "!=" /\ (NeverNull(e.left) \/ NeverNull(e.right))
                          /\ NullSafeValue(e.left) /\ NullSafeValue(e.right)
    [] OTHER -> TRUE
Uses(e, types) ==
  CASE e.type \in {"and", "or"} -> \E i \in DOMAIN e.parts : Uses(e.parts[i], types)
    [] e.type = "not"  -> Uses(e.part, types)
    [] OTHER -> e.type \in types
\* a conditional decides on NULL, so its test must be free of it
Decided(e) ==
  CASE e.type \in {"and", "or"} -> \A i \in DOMAIN e.parts : Decided(e.parts[i])
    [] e.type = "not"  -> Decided(e.part)
    [] e.type = "expr" -> \A v \in {e.left, e.right} : v.type \in {"cond", "switch"} => NullSafeValue(v)
    [] OTHER -> TRUE
RECURSIVE Zoned(_)
Zoned(e) == CASE e.type \in {"and", "or"} -> \E i \in DOMAIN e.parts : Zoned(e.parts[i])
              [] e.type = "not"  -> Zoned(e.part)
              [] e.type = "expr" -> "zone" \in DOMAIN e.left /\ e.left.zone # 0
              [] OTHER -> FALSE
Total(r) == \A path \in {<<"n">>, <<"s">>, <<"d">>, <<"x">>, <<"e", "k">>} : ~IsAbsent(GetPath(r, path))

Filtering == asked.kind = "filter"
Row == rows[1]
\* what the compilers make of the filter asked, over the row
ColumnarFilters == {c \in {S!WhereClause(asked.q, Columns)} : S!Pushed(c)}
SqliteFilters   == IF Zoned(asked.q) THEN {} ELSE {Q!SqliteClause(asked.q)}
\* SQLite orders any number below any text, has no booleans, and matches text against numbers
Mixed(x, op, y) == /\ ~IsAbsent(x) /\ ~IsAbsent(y) /\ x.t # y.t
                   /\ op \notin {"=", "!="} \/ {x.t, y.t} = {"boolean", "number"}
RECURSIVE MixesTypes(_, _)
MixesTypes(e, r) ==
  CASE e.type \in {"and", "or"} -> \E i \in DOMAIN e.parts : MixesTypes(e.parts[i], r)
    [] e.type = "not"     -> MixesTypes(e.part, r)
    [] e.type = "compare" -> Mixed(GetPath(r, e.property), e.comparator, e.value)
    [] e.type \in {"in", "nin"} -> \E i \in DOMAIN e.values : Mixed(GetPath(r, e.property), "=", e.values[i])
    [] e.type = "expr"    -> Mixed(Evaluate(e.left, r), e.comparator, Evaluate(e.right, r))
    [] e.type = "between" -> \E end \in {e.lower, e.upper} : Mixed(GetPath(r, e.property), "<", end)
    [] e.type = "textmatch" -> Mixed(GetPath(r, e.property), "<", Str(e.value))
    [] e.type = "any"     -> LET x == GetPath(r, e.property)
                             IN  x.t = "array" /\ \E i \in DOMAIN x.v : MixesTypes(e.predicate, AsRecord(x.v[i]))
    [] e.type = "contains" -> LET x == GetPath(r, e.property)
                              IN  x.t = "array" /\ \E i \in DOMAIN x.v : Mixed(x.v[i], "=", e.value)
    [] OTHER -> FALSE
\* the filters SQLite answers, and answers by comparing values of one type
CompiledFilters == ColumnarFilters
                     \cup {c \in SqliteFilters : ~Q!MayThrow(c, Row) /\ ~MixesTypes(asked.q, Row)}

Indexed == X!IndexedProperties(Indexes)
Whole   == [where |-> asked.q, order |-> <<>>, paging |-> [start |-> 0, end |-> Len(rows)]]
\* the covered range is over values of the type the filter compares with
OneType == LET cover == X!CoverableRange(asked.q, Indexed)
           IN  cover # X!NoHint => \A b \in cover.range : GetPath(Row, cover.index).t \in {b.at.t, "null", "undefined"}

(* A pushed-down filter selects exactly the records the reference matches: on a record with every field   *)
(* the filter can read present, whatever the filter (negations and conditionals included), and on any     *)
(* record when the filter has no negation (the compilers of Postgres/MySQL and of SQLite).  SQLite is     *)
(* held to it where the filter compares values of one type (it orders text above numbers, where the       *)
(* reference answers no) and reads no field of an array's bare text (where it fails).  IndexedDB's        *)
(* key range loses no match of any filter, and its native count, which skips the filter when the range    *)
(* covers it, is the number of matches wherever the indexed values are of one type.                       *)
PushDownExact ==
  Filtering =>
    /\ Total(Row) \/ NullSafe(asked.q) => \A c \in CompiledFilters : S!Selects(c, Row) = Match(asked.q, Row)
    /\ ~X!Refused(X!IndexHint(asked.q, Indexed).range) =>
         /\ \A r \in Range(ScanRows(rows, Whole)) : r \in Range(IndexedRows(rows, Whole, Indexed))
         /\ OneType => IndexedCount(rows, asked.q, Indexed) = Len(ScanRows(rows, Whole))

(* The same of every filter and record, as the header of the compiler has it ("so every query stays       *)
(* correct"): a negation over a field that is absent answers NULL, and NOT of NULL drops a record the     *)
(* reference keeps; SQLite compares across types.                                                         *)
EveryPushDownExact ==
  Filtering => \A c \in ColumnarFilters \cup SqliteFilters : S!Selects(c, Row) = Match(asked.q, Row)

(* Absent fields make SQL's answer unknown, never wrong: whenever a compiled filter is definitely true or *)
(* definitely false of a record, nested negations over absent fields included, the reference agrees, so   *)
(* a pushed-down filter never returns a record the reference would not (of SQLite, where it compares      *)
(* values of one type, as above).                                                                         *)
DefiniteIsRight ==
  Filtering /\ Decided(asked.q) =>
     \A c \in CompiledFilters : LET x == S!Selected(c, Row)
                         IN  (S!IsTrue(x) => Match(asked.q, Row)) /\ (S!IsFalse(x) => ~Match(asked.q, Row))

(* MongoDB's answer to a compiled filter is the reference's, negations over absent fields included; only  *)
(* computed comparisons need the fields to be present (aggregation expressions order a missing value).    *)
(* The document parsed back, when the parser accepts it, is a filter that selects the same complete       *)
(* records.                                                                                               *)
MongoFindsExact ==
  Filtering =>
    LET doc  == CompileMongo(asked.q)
        back == ParseMongo(doc)
    IN  /\ Total(Row) \/ ~Uses(asked.q, {"expr"}) => Finds(doc, Row) = Match(asked.q, Row)
        /\ Total(Row) /\ Supported(back) /\ ~Uses(asked.q, {"expr", "contains"}) =>
             Match(back, Row) = Match(asked.q, Row)

SortKeys(plan, rs) ==
  [i \in DOMAIN rs |-> [k \in DOMAIN plan.order |->
      LET x == At(rs[i], plan.order[k].property) IN IF IsAbsent(x) THEN Null ELSE x]]
PagesAlike(plan, page) ==
  /\ SortKeys(plan, ColumnarRows(rows, plan, Columns)) = page
  /\ SortKeys(plan, SqlRows(Q!SqliteClause(plan.where), rows, plan)) = page
  /\ SortKeys(plan, IndexedRows(rows, plan, Indexed)) = page
\* valueFieldPaths follows fields, literals, arithmetic, negation, concatenation and coalesce only
Traversed(e) == e.type \in {"field", "lit", "arith", "neg", "concat", "coalesce"}
SelectsAll(sel) ==
  LET stored == NeededFields(sel) \cap DOMAIN Row
  IN  Project(Obj([k \in stored |-> Row[k]]), sel) = Project(Obj(Row), sel)
(* A page of rows is the same page wherever it is cut: filter, null placement and order, LIMIT and OFFSET *)
(* of the pushed-down query give, up to rows that tie, the rows of the scan.  And a projection that loads *)
(* only the stored fields it needs (neededFields) returns what it would from the whole record, for value  *)
(* expressions without dates, comparisons and conditionals.                                               *)
PagesAndProjections ==
  /\ asked.kind = "page" => PagesAlike(asked.q, SortKeys(asked.q, ScanRows(rows, asked.q)))
  /\ asked.kind = "select" /\ (\A k \in DOMAIN asked.q : asked.q[k].kind = "expr" => Traversed(asked.q[k].expr)) =>
       SelectsAll(asked.q)
\* the same of every selection, as the comment on valueFieldPaths has it
EverySelectionLoaded == asked.kind = "select" => SelectsAll(asked.q)

Mixes(ops) == /\ \E k \in DOMAIN ops : ops[k].kind = "setExpr"
              /\ \E k \in DOMAIN ops : ops[k].kind \in {"push", "addToSet", "pull"}
Repeats(ops) == \E k \in DOMAIN ops : ops[k].kind = "addToSet" /\ ~IsInjective(ops[k].values)
\* the server refuses $inc and $mul of a stored null, and $pullAll leaves an absent field absent
MongoTakes(r, ops) == \A k \in DOMAIN ops : /\ ops[k].kind \in {"inc", "mul"} => GetPath(r, <<k>>) # Null
                                            /\ ops[k].kind = "pull" => GetPath(r, <<k>>) # Undef
(* A patch run by the database (the SQLite statement, the MongoDB update) leaves the record the in-memory *)
(* read-modify-write would, computed fields reading the record as it was before the patch; outside the    *)
(* two patches named here, on which the backends do differ.                                               *)
PatchesAgree ==
  asked.kind = "patch" /\ ~Mixes(asked.q) =>
     /\ ~Repeats(asked.q) => Q!SqlitePatch(Row, asked.q) = ApplyPatch(Row, asked.q)
     /\ MongoTakes(Row, asked.q) => MongoPatch(Row, asked.q) = ApplyPatch(Row, asked.q)
\* the same of every patch, as the comments on compileMongoUpdate and on addToSet have it
EveryPatchAgrees ==
  asked.kind = "patch" => /\ Q!SqlitePatch(Row, asked.q) = ApplyPatch(Row, asked.q)
                          /\ MongoTakes(Row, asked.q) => MongoPatch(Row, asked.q) = ApplyPatch(Row, asked.q)

(* Grouping, reducing and ranking give the same numbers wherever they run: GROUP BY of the columnar and   *)
(* SQLite compilers and $group agree with the reference over rows with null and missing values, and       *)
(* RANK/DENSE_RANK/ROW_NUMBER with the window reduction.  Two $group answers do differ and are left out:  *)
(* a global $group over no document, and a compound key of which some row lacks a part.                   *)
LacksKeyPart(plan) == /\ Len(plan.groupBy) > 1
                      /\ \E i \in DOMAIN plan.groupBy, j \in DOMAIN rows : AggValue(plan.groupBy[i], rows[j]) = Undef
ReductionsAgree ==
  /\ asked.kind = "aggregate" =>
       /\ AggregatePushed(asked.q) => SqlAggregate("columnar", asked.q, rows) = Aggregate(asked.q, rows)
       /\ SqlAggregate("sqlite", asked.q, rows) = Aggregate(asked.q, rows)
       /\ (rows # <<>> \/ asked.q.groupBy # <<>>) /\ ~LacksKeyPart(asked.q) => MongoAggregate(asked.q, rows) = Aggregate(asked.q, rows)
  /\ asked.kind = "window" => SqlWindow(asked.q, rows) = ComputeWindow(asked.q, rows)

----------------------------------------------------------------------------
\* Where a pipeline's stages commute with the order in which the facade applies them

Positions(p, ops) == {i \in DOMAIN p : p[i].op \in ops}
FirstOf(p, ops) == LET at == Positions(p, ops) IN IF at = {} THEN Len(p) + 1 ELSE CHOOSE i \in at : \A j \in at : i <= j
InOrder(p) ==
  LET head == SubSeq(p, 1, FirstOf(p, {"$group"}) - 1)
      cut  == FirstOf(head, {"$skip", "$limit"})
  IN  /\ cut <= Len(head) => Positions(p, {"$group"}) = {} /\ Positions(head, {"$count"}) = {}
      /\ \A i \in Positions(head, {"$match", "$sort"}) : i < cut
      /\ Cardinality(Positions(head, {"$sort"})) <= 1
      /\ \A i \in Positions(head, {"$skip"}) : i < FirstOf(head, {"$limit"})
\* empty results that MongoDB has no row, or null, for
Empties(p) ==
  \E i \in Positions(p, {"$group", "$count"}) :
    LET docs == ServerAggregate(SubSeq(p, 1, i - 1), rows)
    IN  \/ docs = <<>>
        \/ p[i].op = "$group" /\ \E g \in Range(ServerGroup(p[i], docs)) : \E name \in DOMAIN g \ {"_id"} : g[name] = Null
CountsTwice(p) == \E i \in Positions(p, {"$group"}) : \E name \in DOMAIN p[i].acc : "times" \in DOMAIN p[i].acc[name]
                                                                                 /\ p[i].acc[name].times # 1
Sortless(p) == FirstOf(p, {"$group"}) >= Len(p)               \* groups come in any order unless sorted
SameDocs(p, docs1, docs2) == IF Sortless(p) /\ Positions(p, {"$group"}) # {}
                             THEN Range(docs1) = Range(docs2) /\ Len(docs1) = Len(docs2) ELSE docs1 = docs2
PipelineAgrees == SameDocs(asked.q, RunAggregate(asked.q, rows), ServerAggregate(asked.q, rows))

\* an upsert inserts what $set, $setOnInsert and top-level equalities give; other operators are for updates
SeedOnly(w) == /\ DOMAIN w.update \subseteq {"$set", "$setOnInsert"}
               /\ \A i \in DOMAIN w.doc : w.doc[i].key = "field" /\ Len(w.doc[i].path) = 1 /\ w.doc[i].body[1].op # "$eq"
Inserts(w) == Upserts(w) /\ \A i \in DOMAIN rows : ~Finds(w.doc, rows[i])
Taken(w) == \A r \in Range(rows) : ServerTakes(w.update, r)
PullsAbsent(w) == \E op \in DOMAIN w.update \cap {"$pull", "$pullAll"} : \E f \in DOMAIN w.update[op] :
                     \E r \in Range(rows) : GetPath(r, <<f>>) = Undef
WriteAgrees == FacadeWrite(asked.q, rows) = ServerWrite(asked.q, rows)
(* A collection used through MongoDB's syntax answers and changes as MongoDB would: cursors, pipelines    *)
(* whose stages come in the order the facade applies them (matches, one sort, skips, limits, then at most *)
(* a count or an unwindowed group) with no empty group, and the updates, replacements, deletes and        *)
(* upserts the server accepts.                                                                            *)
FacadeAgrees ==
  /\ asked.kind = "find" => FindRows(asked.q, rows) = ServerFind(asked.q, rows)
  /\ asked.kind = "pipeline" /\ InOrder(asked.q) /\ ~Empties(asked.q) /\ ~CountsTwice(asked.q) => PipelineAgrees
  /\ asked.kind = "write" /\ Taken(asked.q) /\ ~PullsAbsent(asked.q) /\ (Inserts(asked.q) => SeedOnly(asked.q)) => WriteAgrees
\* the same of every order of the stages, as the facade has it ("$sort/$skip/$limit/$count work on either side",
\* and what it cannot express "throws rather than guessing")
EveryPipelineAgrees == asked.kind = "pipeline" /\ ~Empties(asked.q) /\ ~CountsTwice(asked.q) => PipelineAgrees

----------------------------------------------------------------------------
Untouched(us) == SelectSeq(us, LAMBDA u : u \notin walk.touched)
\* the rows of the walk's query, in its order
Expected ==
  Untouched(Uuids(ScanRows(rows, [where |-> walk.query.where, order |-> PageKeys(walk.query),
                                  paging |-> [start |-> 0, end |-> Len(rows)]])))
\* every backend that seeks returns the page of the scan
SoughtAlike(plan, page) ==
  /\ Uuids(ColumnarRows(rows, plan, Columns)) = page
  /\ Uuids(SqlRows(Q!SqliteClause(plan.where), rows, plan)) = page
  /\ Uuids(IndexedRows(rows, plan, Indexed)) = page
SeeksAlike(plan) == SoughtAlike(plan, Uuids(ScanRows(rows, plan)))
(* A keyset walk is stable under writes: whatever is inserted, changed or removed between two pages, the  *)
(* rows nobody touched are returned in order, each once, and all of them by the last page, ties on the    *)
(* sort keys included; and every backend that seeks returns the page of the scan.                         *)
KeysetVisitsAll ==
  walk # NoWalk =>
    /\ IsPrefix(Untouched(walk.seen), Expected)
    /\ walk.state = "done" => Untouched(walk.seen) = Expected
    /\ walk.state = "open" => SeeksAlike(PagePlan(walk.query, walk.limit, walk.after))
=============================================================================
