------------------------ MODULE MCRepositoryCache ------------------------
(* Small instances of RepositoryCache, and the kinds of live query. *)
EXTENDS RepositoryCache

Kind(cached, filtered) == [cached |-> cached, filtered |-> filtered, patches |-> FALSE]
Patching(kind) == [kind EXCEPT !.patches = TRUE]

(* count() without and with a filter; list() with a filter, also on a backend
   with a patch of its own.  A list without one hears of every change. *)
Kinds == {Kind(FALSE, FALSE), Kind(FALSE, TRUE), Kind(TRUE, TRUE), Patching(Kind(TRUE, TRUE))}
(* count() with a filter: the rows it counts are never loaded. *)
FilteredCount == {Kind(FALSE, TRUE)}
==========================================================================
