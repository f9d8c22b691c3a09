---------------------------- MODULE HubProtocol ----------------------------
(***************************************************************************)
(* The hub of SyncHub on its own: clients push whatever batches they like, *)
(* requests arrive in any order, and one reader pulls whenever it wants.   *)
(***************************************************************************)
EXTENDS SyncHub, FiniteSets

CONSTANTS Pushable,        \* the changes clients may push
          OrderedBatches,  \* a batch holds the changes of a record oldest first
          MaxBatch,        \* bound: changes in a batch
          MaxPushes        \* bound: pushes of a run

ASSUME ProtocolAssumption ==
  /\ Pushable \subseteq Change
  /\ OrderedBatches \in BOOLEAN
  /\ MaxBatch \in Nat /\ MaxPushes \in Nat

VARIABLES cursor,    \* the reader's cursor
          received,  \* the changes the reader has been given, in order
          pushes     \* pushes so far (bounds the model)

vars == <<hubVars, cursor, received, pushes>>

Init == HubInit /\ cursor = 0 /\ received = <<>> /\ pushes = 0

Batches == {b \in UNION {[1..n -> Pushable] : n \in 1..MaxBatch} :
              OrderedBatches => OldestFirst(b)}

(* A push request reaches the hub; the same change may be pushed again. *)
Push ==
  /\ pushes < MaxPushes
  /\ \E b \in Batches, c \in Client : inbox' = inbox \cup {[to |-> c, batch |-> b]}
  /\ pushes' = pushes + 1
  /\ UNCHANGED <<log, seq, ready, job, faults, cursor, received>>

Pull ==
  /\ \E i \in 1..(Len(log) + 1) :
       /\ HubPull(cursor, i)
       /\ cursor' = NextCursor(cursor, i)
       /\ received' = received \o ChangesFrom(i)
  /\ UNCHANGED pushes

Serve == /\ HubTake \/ HubAppend \/ HubReject \/ HubCommit \/ HubPersistFails \/ HubRestart
         /\ UNCHANGED <<cursor, received, pushes>>

Next == Push \/ Pull \/ Serve

Spec == Init /\ [][Next]_vars

---------------------------------------------------------------------------
TypeOK == /\ HubTypeOK
          /\ cursor \in Nat /\ received \in Seq(Change) /\ pushes \in 0..MaxPushes

(* "lands at the end of the log and is delivered to every client"
   (BackendSyncTarget.ts:41): whatever fails or restarts between two pulls,
   a reader has been given exactly the first rows of the log, once each. *)
ReaderHasPrefix ==
  /\ Len(received) <= Len(log)
  /\ \A i \in 1..Len(received) : received[i] = log[i].ch
  /\ \A i \in DOMAIN log : log[i].seq <= cursor <=> i <= Len(received)

(* The log is a last-writer-wins register per record. *)
Register == INSTANCE LWWRegister WITH reg <- Served
RefinesRegister == Register!Spec
==========================================================================
