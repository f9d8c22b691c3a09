------------------------------- MODULE HLC -------------------------------
(***************************************************************************)
(* The hybrid logical clock of src/src/sync/hlc.ts as pure operators: the  *)
(* two ways a clock moves (now, update) and the order of its stamps.       *)
(*                                                                         *)
(* A clock is the pair of private fields lastPhysical and counter.  A      *)
(* stamp carries the node id too; node ids are naturals here because all   *)
(* the code asks of them is that they are different and ordered.           *)
(***************************************************************************)
EXTENDS Integers

Clock == [phys : Nat, ctr : Nat]
Stamp == [phys : Nat, ctr : Nat, node : Nat]

ZeroClock == [phys |-> 0, ctr |-> 0]

StampOf(c, node) == [phys |-> c.phys, ctr |-> c.ctr, node |-> node]

(* Date.now() against lastPhysical: a later reading resets the counter, any
   other one (the same millisecond, a clock stepped back) counts on. *)
HlcNow(c, wall) ==
  IF wall > c.phys THEN [phys |-> wall, ctr |-> 0]
                   ELSE [c EXCEPT !.ctr = @ + 1]

Larger(a, b) == IF a > b THEN a ELSE b

(* Mutants: remote stamps are not merged in, or taken over without counting
   on. *)
NoUpdate(c, remote, wall) == c
UpdateWithoutCount(c, remote, wall) ==
  IF remote \notin Stamp \/ ~(remote.phys >= c.phys /\ remote.phys > wall)
  THEN HlcNow(c, wall) ELSE [phys |-> remote.phys, ctr |-> 0]

(* A stamp whose numbers do not parse is ignored.  *)
HlcUpdate(c, remote, wall) ==
  IF remote \notin Stamp THEN c ELSE
  LET phys == Larger(wall, Larger(c.phys, remote.phys))
      ctr  == CASE phys = c.phys /\ phys = remote.phys -> Larger(c.ctr, remote.ctr) + 1
                [] phys = c.phys /\ phys # remote.phys -> c.ctr + 1
                [] phys # c.phys /\ phys = remote.phys -> remote.ctr + 1
                [] OTHER -> 0
  IN  [phys |-> phys, ctr |-> ctr]

(* The order the fixed-width format is meant to have. *)
ClockLess(a, b) == a.phys < b.phys \/ (a.phys = b.phys /\ a.ctr < b.ctr)
ClockLeq(a, b)  == a.phys < b.phys \/ (a.phys = b.phys /\ a.ctr <= b.ctr)
Before(s, t) ==
  ClockLess(s, t) \/ (s.phys = t.phys /\ s.ctr = t.ctr /\ s.node < t.node)

==========================================================================
