------------------------- MODULE MCMemoryBackend -------------------------
(* Small instances of MemoryBackend. *)
EXTENDS MemoryBackend, TLC

Symmetries == Permutations(Uuid) \cup Permutations(Value)
==========================================================================
