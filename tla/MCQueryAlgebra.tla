--------------------------- MODULE MCQueryAlgebra ---------------------------
(***************************************************************************)
(* QueryAlgebra over a table with a number n, a text s, a date d (epoch    *)
(* milliseconds), an embedded object e, an array tags, and a field x the   *)
(* model does not declare.                                                 *)
(***************************************************************************)
EXTENDS QueryAlgebra

MCColumns == ("uuid" :> "text") @@ ("n" :> "integer") @@ ("s" :> "text") @@ ("d" :> "date") @@ ("e" :> "embedded") @@ ("tags" :> "array")
MCMaxRows == 3
\* indexes that narrow (n, s, e.k), and two that exist without narrowing: compound, and named otherwise
MCIndexes == {[name |-> <<"n">>, fields |-> <<<<"n">>>>], [name |-> <<"s">>, fields |-> <<<<"s">>>>],
              [name |-> <<"e", "k">>, fields |-> <<<<"e", "k">>>>], [name |-> <<"by d">>, fields |-> <<<<"d">>>>],
              [name |-> <<"x">>, fields |-> <<<<"x">>, <<"n">>>>]}

a == 97   B == 66   b == 98
Optional(k, x) == IF x.t = "undefined" THEN <<>> ELSE k :> x
Rec(n, s) == Optional("n", n) @@ Optional("s", s)
Ints == {Undef, Null, Num(-3), Num(0), Num(2)}
Texts   == {Undef, Null, Str(<<>>), Str(<<a, B>>), Str(<<b>>)}
\* complete records, and records with other fields present, null or absent
Rest(d, k, x) == ("d" :> Num(d)) @@ ("e" :> Obj("k" :> k)) @@ ("x" :> x)
Tagged(list)  == "tags" :> Arr(list)
Full == {Rec(n, s) @@ Rest(d, Num(1), Num(1)) @@ Tagged(<<Str(<<b>>)>>) :
           n \in {Num(-3), Num(2)}, s \in {Str(<<>>), Str(<<a, B>>)}, d \in {90061000, -1000}}
Odd  == {Rec(Num(2), Str(<<b>>)) @@ y : y \in
           {Rest(0, Null, Null), "e" :> Obj("k" :> Str(<<b>>)), "x" :> Num(0),
            Tagged(<<>>), Tagged(<<Str(<<b>>), Str(<<a, B>>)>>),
            "tags" :> Arr(<<Obj("n" :> Num(2)), Obj("n" :> Num(0)), Obj("s" :> Str(<<b>>))>>)}}
MCBulk == {Rec(n, s) : n \in {Undef, Null, Num(0), Num(2)}, s \in {Undef, Str(<<a, B>>)}}
\* records for a walk: two rows tie on n, or on n and s, often
MCKeyed == {Rec(n, s) @@ ("uuid" :> Str(<<48 + u>>)) : n \in {Num(0), Num(2)}, s \in {Str(<<a, B>>), Str(<<b>>)}, u \in 1..4}
MCRecords == {Rec(n, s) : n \in Ints, s \in Texts} \cup Full \cup Odd

Comparators == {"=", "!=", ">", "<", ">=", "<="}
Compare(p, c, x) == [type |-> "compare", property |-> p, comparator |-> c, value |-> x]
Listed(k, p, xs) == [type |-> k, property |-> p, values |-> xs]
Not(f) == [type |-> "not", part |-> f]
Join(k, fs) == [type |-> k, parts |-> fs]
Field(p) == [type |-> "field", path |-> p]
Lit(x)   == [type |-> "lit", value |-> x]
Op(k, xs) == [type |-> k, operands |-> xs]
Arith(op, xs) == [type |-> "arith", op |-> op, operands |-> xs]
Test(l, op, q) == [type |-> "vcompare", op |-> op, operands |-> <<l, q>>]
Date(part, zone) == [type |-> "datepart", part |-> part, zone |-> zone, operands |-> <<Field(<<"d">>)>>]
N == Field(<<"n">>)
Two == Lit(Num(2))
NBig(op) == Test(N, op, Lit(Num(1)))

Leaves ==
  {[type |-> "all"]}
  \cup {Compare(<<"n">>, c, Num(0)) : c \in Comparators}
  \cup {Compare(<<"s">>, c, Str(<<b>>)) : c \in {"=", "!=", "<", ">="}}
  \cup {Compare(<<"e", "k">>, "=", Num(1)), Compare(<<"e", "k">>, ">", Num(0)), Compare(<<"x">>, "=", Num(1)), Compare(<<"x">>, ">", Num(0))}
  \cup {Listed(k, <<"n">>, xs) : k \in {"in", "nin"}, xs \in {<<>>, <<Num(0), Num(2)>>}}
  \cup {Listed(k, <<"x">>, <<Num(1)>>) : k \in {"in", "nin"}}
  \cup {[type |-> "between", property |-> <<"n">>, lower |-> Num(i), upper |-> Num(2 - i)] : i \in {0, 2}}
  \cup {[type |-> "isNull", property |-> <<"n">>, negated |-> g] : g \in BOOLEAN}
  \cup {[type |-> "exists", property |-> <<"n">>, should |-> g] : g \in BOOLEAN}
  \cup {[type |-> "textmatch", property |-> <<"s">>, value |-> s, mode |-> m, ci |-> c] :
          s \in {<<>>, <<b>>, <<a>>}, m \in {"prefix", "suffix", "substring"}, c \in BOOLEAN}
Arrays ==
  {[type |-> "size", property |-> <<"tags">>, length |-> k] : k \in {0, 2}}
  \cup {[type |-> "contains", property |-> <<"tags">>, value |-> Str(<<b>>)]}
  \cup {[type |-> "any", property |-> <<"tags">>, predicate |-> Compare(<<"n">>, c, Num(1))] : c \in {">", "<"}}
Values ==
  {Arith(op, <<N, Two>>) : op \in {"+", "-", "*", "/", "%"}}
  \cup {Arith(op, <<Lit(Num(7)), N>>) : op \in {"/", "%"}}
  \cup {Op("neg", <<N>>), Op("coalesce", <<N, Two>>), N}
  \cup {Op("cond", <<t, Lit(Num(4)), Lit(Num(-1))>>) :
          t \in {NBig(op) : op \in {">", "!="}}
                \cup {Op(k, <<NBig(">"), Test(N, "<", Two)>>) : k \in {"vand", "vor"}} \cup {Op("vnot", <<NBig(">")>>)}}
  \cup {[type |-> "switch", branches |-> <<[when |-> NBig(">"), then |-> Two], [when |-> NBig("<"), then |-> Lit(Num(4))]>>,
         otherwise |-> Lit(Num(-1))]}
Dates == {[type |-> "expr", left |-> Date(part, z), comparator |-> "=", right |-> Lit(Num(v))] :
            part \in {"year", "hour", "dayOfWeek", "second"}, z \in {0, 3600000}, v \in {1, 2, 59, 1969}}
Exprs == {[type |-> "expr", left |-> v, comparator |-> c, right |-> w] :
            v \in Values, c \in Comparators, w \in {Lit(Num(1)), Lit(Frac(7, 2)), N}}
         \cup {[type |-> "expr", left |-> Op("concat", <<Field(<<"s">>), Lit(Str(<<b>>))>>), comparator |-> "=",
                right |-> Lit(Str(<<b>>))]}
Atoms == Leaves \cup Arrays \cup Exprs \cup Dates
MCFilters == Atoms \cup {Not(f) : f \in Atoms}
             \cup {Join(k, <<f, Not(g)>>) : k \in {"and", "or"}, f \in {x \in Leaves : x.type # "textmatch"},
                                            g \in {x \in Leaves : x.type \in {"compare", "in", "between", "isNull"}}}
             \cup {Join(k, <<>>) : k \in {"and", "or"}}

Key(p, desc) == [property |-> p, descending |-> desc]
MCPages == {[where |-> f, order |-> o, paging |-> [start |-> i, end |-> j]] :
              f \in {[type |-> "all"], Compare(<<"n">>, "!=", Num(2)), [type |-> "exists", property |-> <<"s">>, should |-> TRUE]},
              o \in {<<Key(<<"n">>, g)>> : g \in BOOLEAN} \cup {<<Key(<<"s">>, TRUE), Key(<<"n">>, FALSE)>>},
              i \in 0..1, j \in {1, 2, 9}}
MCSelections ==
  {("y" :> [kind |-> "expr", expr |-> v]) @@ k : v \in Values \cup {Date("year", 0)},
     k \in {"s" :> [kind |-> "true"],
            "e" :> [kind |-> "nested", spec |-> "k" :> [kind |-> "true"]],
            "tags" :> [kind |-> "nested", spec |-> "n" :> [kind |-> "expr", expr |-> Arith("+", <<N, Two>>)]]}}

PatchOp(kind, y) == IF kind \in {"inc", "mul"} THEN [kind |-> kind, by |-> y]
                    ELSE IF kind = "unset" THEN [kind |-> kind]
                    ELSE IF kind \in {"push", "addToSet", "pull"} THEN [kind |-> kind, values |-> y]
                    ELSE [kind |-> kind, value |-> y]
OnX == {PatchOp("set", Null), PatchOp("set", Num(5)), PatchOp("unset", 0), PatchOp("inc", Num(3)), PatchOp("mul", Num(2))}
OnY == {PatchOp("setExpr", Arith(op, <<Field(<<"x">>), N>>)) : op \in {"+", "/"}} \cup {PatchOp("set", Num(1))}
OnTags == {PatchOp(k, <<Str(<<c>>), Str(<<a>>)>>) : k \in {"push", "addToSet", "pull"}, c \in {a, b}}
MCPatches == {("x" :> p) @@ ("y" :> q) : p \in OnX, q \in OnY} \cup {("x" :> p) @@ ("tags" :> t) : p \in OnX, t \in OnTags}
             \cup {("y" :> q) @@ ("tags" :> t) : q \in OnY, t \in OnTags} \cup {"d" :> PatchOp("inc", Num(1))}

Stages == <<[op |-> "count"]>> \o [i \in 1..5 |-> [op |-> <<"countDistinct", "sum", "avg", "min", "max">>[i], value |-> N]]
MCPlans == {[groupBy |-> g, stages |-> st] :
              g \in {<<>>, <<Field(<<"s">>)>>, <<Field(<<"s">>), Arith("+", <<N, Two>>)>>, <<Op("coalesce", <<N, Two>>)>>},
              st \in {Stages, <<[op |-> "sum", value |-> Arith("%", <<Lit(Num(7)), N>>)]>>}}
MCWindows == {[partitionBy |-> p, order |-> o, functions |-> <<"rowNumber", "rank", "denseRank">>] :
                p \in {<<>>, <<Field(<<"s">>)>>},
                o \in {<<>>, <<[property |-> <<"n">>, descending |-> FALSE]>>, <<[property |-> <<"n">>, descending |-> TRUE]>>,
                       <<[property |-> <<"s">>, descending |-> TRUE], [property |-> <<"n">>, descending |-> FALSE]>>}}

Sort(order) == [op |-> "$sort", keys |-> order]
Skip(k)  == [op |-> "$skip", n |-> k]
Limit(k) == [op |-> "$limit", n |-> k]
Matching(doc) == [op |-> "$match", doc |-> doc]
Docs == {On(<<"n">>, "$gte", Num(0)), On(<<"s">>, "plain", Str(<<a, B>>)), On(<<"n">>, "$ne", Num(2)) \o On(<<"s">>, "$exists", TRUE)}
Group(id) == [op |-> "$group", id |-> id, acc |-> ("sum" :> [op |-> "$sum", of |-> <<"n">>]) @@ ("avg" :> [op |-> "$avg", of |-> <<"n">>])
                @@ ("min" :> [op |-> "$min", of |-> <<"n">>]) @@ ("max" :> [op |-> "$max", of |-> <<"n">>])
                @@ ("count" :> [op |-> "$sum", times |-> 1])]
ById == <<Key(<<"_id">>, TRUE)>>
ByN  == <<Key(<<"n">>, TRUE)>>
Heads == {<<>>, <<Sort(ByN), Matching(On(<<"n">>, "$gte", Num(0)))>>} \cup {<<Matching(d)>> : d \in Docs \ {On(<<"n">>, "$gte", Num(0))}}
Tails == {<<>>, <<Skip(1)>>, <<Limit(2)>>, <<Skip(1), Limit(1)>>, <<Limit(2), Skip(1)>>, <<Limit(1), Limit(2)>>, <<[op |-> "$count"]>>,
          <<Limit(1), [op |-> "$count"]>>, <<Limit(1), Sort(ByN)>>}
         \cup {<<Group(g)>> \o post : g \in {None, <<"s">>, <<"n">>},
                 post \in {<<>>, <<Sort(ById), Skip(1), Limit(1)>>, <<Sort(ById), Limit(2), Skip(1)>>, <<[op |-> "$count"]>>}}
         \cup {<<[op |-> "$group", id |-> <<"s">>, acc |-> "count" :> [op |-> "$sum", times |-> 2]]>>}
MCPipelines == {h \o t : h \in Heads, t \in Tails}
MCFinders == {[doc |-> d, sort |-> o, skip |-> i, limit |-> j] : d \in Docs, o \in {<<>>, ByN}, i \in 0..1, j \in {-1, 1, 2}}

Updates == {"$set" :> ("n" :> Num(5)), "$unset" :> ("n" :> Num(1)), "$inc" :> ("n" :> Num(3)), "$mul" :> ("n" :> Num(2)),
            ("$set" :> ("s" :> Str(<<b>>))) @@ ("$setOnInsert" :> ("n" :> Num(7))), ("$inc" :> ("n" :> Num(1))) @@ ("$set" :> ("x" :> Num(0))),
            "$push" :> ("tags" :> Str(<<b>>)), "$addToSet" :> ("tags" :> [each |-> <<Str(<<b>>), Str(<<a>>), Str(<<b>>)>>]),
            "$pull" :> ("tags" :> Str(<<b>>)), "$pullAll" :> ("tags" :> [each |-> <<Str(<<a, B>>), Str(<<b>>)>>])}
Write(op, doc, update, upsert) == [op |-> op, doc |-> doc, update |-> update, upsert |-> upsert]
MCWrites == {Write(op, d, y, g) : op \in {"updateOne", "updateMany", "findOneAndUpdate"}, d \in Docs, y \in Updates, g \in BOOLEAN}
            \cup {Write(op, d, <<>>, FALSE) : op \in {"deleteOne", "deleteMany"}, d \in Docs}
            \cup {Write("replaceOne", d, <<>>, g) @@ ("replacement" :> ("n" :> Num(5))) : d \in Docs, g \in BOOLEAN}

Walk(f, order, k) == [query |-> [EveryRow EXCEPT !.where = f, !.order = order], limit |-> k]
NThenS  == <<Key(<<"n">>, TRUE), Key(<<"s">>, FALSE)>>
MCWalks == {Walk(f, o, k) : f \in {All, Compare(<<"s">>, "=", Str(<<b>>))}, o \in {<<>>, ByN, NThenS}, k \in 1..2}
=============================================================================
