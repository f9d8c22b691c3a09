--------------------------- MODULE LWWRegister ---------------------------
(***************************************************************************)
(* What a SyncTarget promises the replicas that pull from it: one register *)
(* per record, holding the last change a reader of the changelog sees, and *)
(* replaced only by a newer one.  A batch may replace several at once.     *)
(***************************************************************************)
EXTENDS HLC

CONSTANTS Key, Absent

VARIABLE reg    \* reg[k]: version of the last change served for k

Init == reg = [k \in Key |-> Absent]

Replace == /\ reg' \in [Key -> Stamp \cup {Absent}]
           /\ \A k \in Key : reg'[k] # reg[k] =>
                /\ reg'[k] # Absent
                /\ reg[k] = Absent \/ Before(reg[k], reg'[k])

Spec == Init /\ [][Replace]_reg
==========================================================================
