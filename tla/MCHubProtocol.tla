--------------------------- MODULE MCHubProtocol ---------------------------
(* Small instances of HubProtocol: two records, versions 1..3 of each. *)
EXTENDS HubProtocol

CONSTANTS c1, k1, k2, f

MCRecord(t) ==
  [ver |-> [phys |-> t, ctr |-> 0, node |-> 1], del |-> FALSE,
   val |-> [x \in {f} |-> [at |-> [phys |-> t, ctr |-> 0, node |-> 1], n |-> t]], fv |-> Absent]
MCPushable == [key : {k1}, rec : {MCRecord(t) : t \in 1..3}]
                \cup [key : {k2}, rec : {MCRecord(t) : t \in 1..2}]
==========================================================================
