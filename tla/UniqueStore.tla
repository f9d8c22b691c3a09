--------------------------- MODULE UniqueStore ---------------------------
(***************************************************************************)
(* What a backend promises of a model with unique constraints (the write   *)
(* half of src/src/core/Backend.ts): writes queue, and persist applies the *)
(* whole queue, or drops the whole queue and leaves the store as it was;   *)
(* no two stored records ever share a value of a unique key.               *)
(***************************************************************************)
EXTENDS Sequences, Integers

CONSTANTS Uuid,      \* record ids
          KeySet,    \* the unique key sets of the model
          Value,     \* what a record's fields of a key set amount to (uniqueKey)
          Null       \* some component is null or absent; also: no record

ASSUME StoreAssumption ==
  /\ Null \notin Value /\ Null \notin Uuid
  /\ Null \notin [KeySet -> Value \cup {Null}]

VARIABLES store,    \* store[u]: the stored record, or Null
          saves,    \* the save queue: records in the order they were saved
          removes   \* the remove queue

Record == [KeySet -> Value \cup {Null}]
Saved == [uuid : Uuid, rec : Record]

Init == /\ store = [u \in Uuid |-> Null]
        /\ saves = <<>> /\ removes = {}

(* Saves are applied in order, removals after them. *)
SavesOf(u) == {i \in DOMAIN saves : saves[i].uuid = u}
LastSave(u) == CHOOSE i \in SavesOf(u) : \A j \in SavesOf(u) : j <= i
After == [u \in Uuid |-> IF u \in removes THEN Null
                         ELSE IF SavesOf(u) # {} THEN saves[LastSave(u)].rec
                         ELSE store[u]]

(* Two records do not share a value of a key set; null shares with nothing. *)
Unique(records) ==
  \A k \in KeySet, u, v \in Uuid :
    (u # v /\ records[u] # Null /\ records[v] # Null /\ records[u][k] # Null)
      => records[u][k] # records[v][k]

Save(u, rec) == /\ saves' = Append(saves, [uuid |-> u, rec |-> rec])
                /\ UNCHANGED <<store, removes>>
Remove(u) == /\ removes' = removes \cup {u}
             /\ UNCHANGED <<store, saves>>
Emptied == saves' = <<>> /\ removes' = {}
Commit == Unique(After) /\ store' = After /\ Emptied
Drop == UNCHANGED store /\ Emptied

Next == (\E u \in Uuid : Remove(u) \/ \E rec \in Record : Save(u, rec)) \/ Commit \/ Drop

Spec == Init /\ [][Next]_<<store, saves, removes>>
==========================================================================
