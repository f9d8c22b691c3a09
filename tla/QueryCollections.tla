-------------------------- MODULE QueryCollections --------------------------
(***************************************************************************)
(* QueryCollection: an immutable query that is filtered, sorted and sliced *)
(* step by step, read as a list, a count or an aggregate, or walked page   *)
(* by page behind a keyset cursor.                                         *)
(***************************************************************************)
EXTENDS Queries

All == [type |-> "all"]
AndAlso(e, f) == [type |-> "and", parts |-> <<e, f>>]
Unlimited == -1
EveryRow == [where |-> All, order |-> <<>>, start |-> 0, limit |-> Unlimited]

FilterBy(q, e) == [q EXCEPT !.where = IF @ = All THEN e ELSE AndAlso(@, e)]
SortBy(q, keys) == [q EXCEPT !.order = @ \o keys]
Slice(q, start, limit) == [q EXCEPT !.start = start, !.limit = limit]

ListOf(q, rows) ==
  ScanRows(rows, [where |-> q.where, order |-> q.order,
                  paging |-> [start |-> q.start, end |-> IF q.limit = Unlimited THEN Len(rows) ELSE q.start + q.limit]])
\* count, aggregate and groupBy read the whole filtered set, whatever the slice
Filtered(q, rows) == SelectSeq(rows, LAMBDA r : Match(q.where, r))
CountOf(q, rows) == Len(Filtered(q, rows))
\* spec: names of the result to stages; a global aggregate is one row, over no rows too
AggregateOf(q, spec, rows) == [name \in DOMAIN spec |-> ReduceWith(spec[name], Filtered(q, rows))]
\* buckets in the order in which their key is first seen
FirstSeen(keys) == FoldLeft(LAMBDA seen, key : IF key \in Range(seen) THEN seen ELSE Append(seen, key), <<>>, keys)
Buckets(rows, keys, firsts) == [i \in DOMAIN firsts |-> [key |-> firsts[i], rows |-> Having(rows, keys, firsts[i])]]
Bucketed(rows, keys) == Buckets(rows, keys, FirstSeen(keys))
Summaries(buckets, spec) ==
  [i \in DOMAIN buckets |->
     [key |-> buckets[i].key, values |-> [name \in DOMAIN spec |-> ReduceWith(spec[name], buckets[i].rows)]]]
KeyedBy(value, rows) == Bucketed(rows, [i \in DOMAIN rows |-> Evaluate(value, rows[i])])
GroupByOf(q, value, spec, rows) == Summaries(KeyedBy(value, Filtered(q, rows)), spec)

----------------------------------------------------------------------------
\* page({limit, after}): a row is after the cursor when it is beyond it in the first key in which they
\* differ; the uuid, appended to the keys, makes the order total

ByUuid == [property |-> <<"uuid">>, descending |-> FALSE]
PageKeys(q) == Append(q.order, ByUuid)
NoCursor == [order |-> None, bounds |-> None]

Beyond(key, bound) == Compared(key.property, IF key.descending THEN "<" ELSE ">", bound)
\* mutant: the first key alone, without the rows that tie with the cursor on it
KeysetAfterFirst(keys, bounds) == Beyond(keys[1], bounds[1])
RECURSIVE KeysetAfter(_, _)
KeysetAfter(keys, bounds) ==
  IF Len(keys) = 1 THEN Beyond(keys[1], bounds[1])
  ELSE [type |-> "or", parts |->
          <<Beyond(keys[1], bounds[1]),
            AndAlso(Compared(keys[1].property, "=", bounds[1]), KeysetAfter(Tail(keys), Tail(bounds)))>>]
\* one row more than the limit is fetched, to know whether there is a further page
PagePlan(q, limit, after) ==
  [where  |-> IF after = NoCursor THEN q.where ELSE FilterBy(q, KeysetAfter(after.order, after.bounds)).where,
   order  |-> PageKeys(q),
   paging |-> [start |-> 0, end |-> limit + 1]]
PageOf(q, limit, fetched) ==
  LET more  == Len(fetched) > limit
      items == IF more THEN SubSeq(fetched, 1, limit) ELSE fetched
      keys  == PageKeys(q)
  IN  [items |-> items, hasMore |-> more,
       next  |-> IF ~more THEN NoCursor
                 ELSE [order |-> keys, bounds |-> [i \in DOMAIN keys |-> At(Last(items), keys[i].property)]]]
=============================================================================
