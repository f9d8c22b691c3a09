--------------------------- MODULE MCUnitOfWork ---------------------------
(* Small instances of UnitOfWork. Its properties name no column and no call. *)
EXTENDS UnitOfWork

Symmetric == Permutations(Columns) \cup Permutations(Calls)
===========================================================================
