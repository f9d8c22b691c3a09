-------------------------- MODULE MemoryBackend --------------------------
(***************************************************************************)
(* One model of src/src/backends/memory/InMemoryBackend.ts: the store, the *)
(* write queues, and the value -> uuid index that persist() checks unique  *)
(* constraints with instead of scanning the store.                         *)
(* persist() has no await: one step, and one caller at a time.             *)
(***************************************************************************)
EXTENDS UniqueStore

CONSTANTS MaxQueue    \* bound: queued saves, and queued removals

VARIABLE index    \* index[k][v]: the uuid the value v of key set k is held by

vars == <<store, saves, removes, index>>

MemoryInit == Init /\ index = [k \in KeySet |-> [v \in Value |-> Null]]

(* Records are stored and compared by their unique keys only. *)
MemorySave(u, rec) ==
  /\ Len(saves) < MaxQueue
  /\ Save(u, rec)
  /\ UNCHANGED index

MemoryRemove(u) ==
  /\ u \notin removes
  /\ Remove(u)
  /\ UNCHANGED index

Touched == removes \cup {saves[i].uuid : i \in DOMAIN saves}

(* checkUnique(): a value is taken if the index gives it to a record this
   batch does not touch, or if an earlier save of the batch took it. *)
Conflict(i, k) ==
  LET value == saves[i].rec[k] IN
  /\ value # Null
  /\ \/ index[k][value] \notin Touched \cup {Null}
     \/ \E j \in 1..(i - 1) : saves[j].rec[k] = value /\ saves[j].uuid # saves[i].uuid

(* Mutant: the batch is checked against the store only, not against itself. *)
CheckedAgainstStore ==
  \A i \in DOMAIN saves, k \in KeySet :
    saves[i].rec[k] # Null => index[k][saves[i].rec[k]] \in Touched \cup {Null}

ConstraintHolds == \A i \in DOMAIN saves, k \in KeySet : ~Conflict(i, k)

(* removeFromUniqueIndex() of every touched record that is stored and still
   the owner, then addToUniqueIndex() of every save. *)
Released(k, v) ==
  \E u \in Touched : store[u] # Null /\ store[u][k] = v /\ index[k][v] = u

Taken(k, v) == {i \in DOMAIN saves : saves[i].rec[k] = v}
LastTaken(k, v) == CHOOSE i \in Taken(k, v) : \A j \in Taken(k, v) : j <= i

(* Mutant: the old values are dropped after the new ones are in. *)
IndexInOnePass == [k \in KeySet |-> [v \in Value |->
  IF Released(k, v) THEN Null
  ELSE IF Taken(k, v) # {} THEN saves[LastTaken(k, v)].uuid ELSE index[k][v]]]

IndexAfter == [k \in KeySet |-> [v \in Value |->
  IF Taken(k, v) # {} THEN saves[LastTaken(k, v)].uuid
  ELSE IF Released(k, v) THEN Null ELSE index[k][v]]]

Persist ==
  /\ ConstraintHolds
  /\ store' = After /\ index' = IndexAfter
  /\ Emptied

(* Mutant: the store is written first and checked then. *)
PersistThrowsLate ==
  /\ ~ConstraintHolds
  /\ store' = After
  /\ Emptied
  /\ UNCHANGED index

(* checkUnique() throws: the queues have been swapped out already. *)
PersistThrows ==
  /\ ~ConstraintHolds
  /\ Emptied
  /\ UNCHANGED <<store, index>>

(* discardPending(): a transaction was rolled back. *)
DiscardPending == Emptied /\ UNCHANGED <<store, index>>

(* registerModel() again, as a second RepositoryManager on the same backend
   does: the index is built from the store. *)
RegisterModel ==
  /\ index' = [k \in KeySet |-> [v \in Value |->
       LET holders == {u \in Uuid : store[u] # Null /\ store[u][k] = v}
       IN  IF holders = {} THEN Null ELSE CHOOSE u \in holders : TRUE]]
  /\ UNCHANGED <<store, saves, removes>>

MemoryNext ==
  \/ \E u \in Uuid : MemoryRemove(u) \/ \E rec \in Record : MemorySave(u, rec)
  \/ Persist \/ PersistThrows \/ DiscardPending \/ RegisterModel

MemorySpec == MemoryInit /\ [][MemoryNext]_vars

---------------------------------------------------------------------------
TypeOK ==
  /\ store \in [Uuid -> Record \cup {Null}]
  /\ index \in [KeySet -> [Value -> Uuid \cup {Null}]]
  /\ saves \in Seq(Saved)
  /\ removes \in SUBSET Uuid

(* The unique constraint itself: no two stored records share a value. *)
UniqueHolds == Unique(store)

(* The check asks the index only, so the index must know the owner of every
   stored value, whatever batches came and went. *)
IndexCoversStore ==
  \A u \in Uuid, k \in KeySet :
    store[u] # Null /\ store[u][k] # Null => index[k][store[u][k]] = u

(* A batch is applied whole or not at all, and only if the result is unique. *)
ImplementsUniqueStore == Spec

(* "Validate the batch's unique constraints against the store and against
   itself" (InMemoryBackend.ts:155): a batch that takes no value twice and
   leaves the store unique is accepted. *)
BatchClean ==
  \A i, j \in DOMAIN saves, k \in KeySet :
    saves[i].rec[k] # Null /\ saves[i].rec[k] = saves[j].rec[k] => saves[i].uuid = saves[j].uuid
NoSpuriousRejection == BatchClean /\ Unique(After) => ConstraintHolds
==========================================================================
