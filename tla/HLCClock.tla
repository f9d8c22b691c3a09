----------------------------- MODULE HLCClock -----------------------------
(***************************************************************************)
(* Nodes that stamp local events and receive each other's stamps through   *)
(* the clock of HLC.  Date.now() is whatever the machine says: it may lag, *)
(* lead, repeat or step back, so every reading is any value of 0..MaxWall. *)
(***************************************************************************)
EXTENDS HLCText

CONSTANTS Node,       \* the replicas, by node id
          Malformed,  \* a stamp that does not parse, from a faulty peer
          MaxWall,    \* bound: largest reading of Date.now()
          MaxIssued,  \* bound: local events of a node
          MaxCtr      \* bound: counter value past which no event is taken

ASSUME ClockAssumption ==
  /\ Node \subseteq Nat
  /\ Malformed \notin Stamp
  /\ MaxWall \in Nat

VARIABLES clk,     \* clk[n]: the clock of node n
          issued,  \* issued[n]: the stamps of n's local events, in order
          known    \* known[n]: stamps n has issued or received

vars == <<clk, issued, known>>

Init == /\ clk = [n \in Node |-> ZeroClock]
        /\ issued = [n \in Node |-> <<>>]
        /\ known = [n \in Node |-> {}]

Issued == UNION {known[n] : n \in Node}

(* A local event: SyncBackend stamps a save or a remove. *)
LocalEvent(n) ==
  \E wall \in 0..MaxWall :
    /\ Len(issued[n]) < MaxIssued /\ clk[n].ctr < MaxCtr
    /\ clk' = [clk EXCEPT ![n] = HlcNow(@, wall)]
    /\ issued' = [issued EXCEPT ![n] = Append(@, StampOf(clk'[n], n))]
    /\ known' = [known EXCEPT ![n] = @ \cup {StampOf(clk'[n], n)}]

(* A stamp of another replica arrives (a pulled change or a conflict). *)
Receive(n) ==
  \E wall \in 0..MaxWall, s \in Issued :
    /\ clk[n].ctr < MaxCtr /\ s.ctr < MaxCtr
    /\ clk' = [clk EXCEPT ![n] = HlcUpdate(@, s, wall)]
    /\ known' = [known EXCEPT ![n] = @ \cup {s}]
    /\ UNCHANGED issued

(* A peer sends a stamp that is no stamp. *)
ReceiveMalformed(n) ==
  \E wall \in 0..MaxWall :
    /\ clk' = [clk EXCEPT ![n] = HlcUpdate(@, Malformed, wall)]
    /\ UNCHANGED <<issued, known>>

Next == \E n \in Node : LocalEvent(n) \/ Receive(n) \/ ReceiveMalformed(n)

Spec == Init /\ [][Next]_vars

---------------------------------------------------------------------------
(* Every clock stays a pair of numbers, whatever a peer sends. *)
TypeOK == /\ clk \in [Node -> Clock]
          /\ issued \in [Node -> Seq(Stamp)]
          /\ known \in [Node -> SUBSET Stamp]

(* No clock falls behind a stamp its node has issued or received; the
   inductive core of CausalOrder. *)
Dominates == \A n \in Node : \A s \in known[n] : ClockLeq(s, clk[n])

(* "a stable causal order even within the same millisecond" (hlc.ts:3): a
   node's new stamp comes after every stamp it had issued or received, also
   when Date.now() repeats or steps back. *)
CausalOrder ==
  [][\A n \in Node : issued'[n] # issued[n] =>
       \A old \in known[n] : Before(old, issued'[n][Len(issued'[n])])]_vars

(* A clock never moves back, so what it once ordered stays ordered. *)
ClockMonotone ==
  [][\A n \in Node : ClockLeq(clk[n], clk'[n])]_vars

(* Two stamps that fit COUNTER_WIDTH compare as texts the way they compare
   as stamps, which is what lets lastWriteWins use plain "<" on strings. *)
TextOrderWithinWidth ==
  \A s, t \in Issued :
    s.ctr < Power[CounterWidth] /\ t.ctr < Power[CounterWidth]
      => (TextBefore(Format(s), Format(t)) <=> Before(s, t))

(* "formatted as fixed-width, lexicographically sortable strings"
   (hlc.ts:4): the same with no limit on the counter. *)
TextOrder ==
  \A s, t \in Issued : TextBefore(Format(s), Format(t)) <=> Before(s, t)
==========================================================================
