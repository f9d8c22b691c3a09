--------------------------- MODULE IndexedCompile ---------------------------
(***************************************************************************)
(* Push-down of IndexedDBBackend: a filter becomes at most one key range   *)
(* over one index, which only narrows the candidates of the scan.          *)
(***************************************************************************)
EXTENDS Expressions

\* IndexedDB: only some values are keys, a record without one is not in the index, and keys of all types
\* share one order (numbers before text)
IsKey(x) == x.t \in {"number", "string"}
KeyBelow(a, b) == IF a.t = b.t THEN LessThan(a, b) ELSE a.t = "number"

Bound(side, at, open) == [side |-> side, at |-> at, open |-> open]
InRange(range, key) ==
  \A b \in range : \/ ~b.open /\ key = b.at
                   \/ IF b.side = "lower" THEN KeyBelow(b.at, key) ELSE KeyBelow(key, b.at)
\* IDBKeyRange throws DataError for a bound that is no key, and for bounds in the wrong order
Refused(range) == \/ \E b \in range : ~IsKey(b.at)
                  \/ \E b, c \in range : b.side = "lower" /\ c.side = "upper" /\ KeyBelow(c.at, b.at)

Between(lower, upper) == {Bound("lower", lower, FALSE), Bound("upper", upper, FALSE)}
\* mutant: the lower bound is open where the comparison includes it
RangeOpened(comparator, x) ==
  IF comparator = "=" THEN Between(x, x)
  ELSE {Bound(IF comparator \in {">", ">="} THEN "lower" ELSE "upper", x, comparator # "<=")}
RangeFor(comparator, x) ==
  IF comparator = "=" THEN Between(x, x)
  ELSE {Bound(IF comparator \in {">", ">="} THEN "lower" ELSE "upper", x, comparator \in {">", "<"})}

\* compound and renamed indexes exist but do not narrow; the primary key always does
IndexedProperties(indexes) ==
  {<<"uuid">>} \cup {i.name : i \in {j \in indexes : Len(j.fields) = 1 /\ j.fields[1] = j.name}}

NoHint == [index |-> None, range |-> {}]
CoverableRange(e, indexed) ==
  IF e.type \notin {"compare", "between"} THEN NoHint
  ELSE IF e.property \notin indexed THEN NoHint
  ELSE IF e.type = "between" THEN [index |-> e.property, range |-> Between(e.lower, e.upper)]
  ELSE IF e.comparator = "!=" THEN NoHint
  ELSE [index |-> e.property, range |-> RangeFor(e.comparator, e.value)]
\* IndexHintVisitor: of a conjunction, the first part with a range; of anything else but a comparison, none
RECURSIVE IndexHint(_, _)
IndexHint(e, indexed) ==
  IF e.type = "and"
  THEN LET hints == SelectSeq([i \in DOMAIN e.parts |-> IndexHint(e.parts[i], indexed)], LAMBDA h : h # NoHint)
       IN  IF hints = <<>> THEN NoHint ELSE hints[1]
  ELSE CoverableRange(e, indexed)

Candidates(rows, hint) ==
  IF hint = NoHint THEN rows
  ELSE SelectSeq(rows, LAMBDA r : LET key == GetPath(r, hint.index) IN IsKey(key) /\ InRange(hint.range, key))
=============================================================================
