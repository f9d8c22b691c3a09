-------------------------- MODULE MCSyncBackend --------------------------
(* Small instances of SyncBackend: whose reconcile() calls there are, and
   how far the replicas' clocks may be apart. *)
EXTENDS SyncBackend

CONSTANTS t1, t2, t3, k1, k2, f, g

OneEach == [t \in Client |-> CASE t = t1 -> 1 [] t = t2 -> 2 [] t = t3 -> 3]
(* Replica 1 calls reconcile() again before the first call has ended. *)
Overlapping == [t \in Client |-> CASE t = t1 -> 1 [] t = t2 -> 2 [] t = t3 -> 1]

SameTime == [r \in Replica |-> 0]
OneAhead == [r \in Replica |-> IF r = 1 THEN 1 ELSE 0]
OtherAhead == [r \in Replica |-> IF r = 2 THEN 2 ELSE 0]
UpTo1 == [r \in Replica |-> 1]
UpTo2 == [r \in Replica |-> 2]
==========================================================================
