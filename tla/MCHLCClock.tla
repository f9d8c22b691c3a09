---------------------------- MODULE MCHLCClock ----------------------------
(* Small instances of HLCClock. *)
EXTENDS HLCClock

MCNode == {1, 2}
==========================================================================
