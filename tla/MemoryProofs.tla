--------------------------- MODULE MemoryProofs ---------------------------
(***************************************************************************)
(* InMemoryBackend never stores two records with one unique value, for any *)
(* number of records, values and key sets, and implements UniqueStore.     *)
(* The inductive step rests on IndexCoversStore: checkUnique() looks only  *)
(* at the index, so what the store holds must be in it.                    *)
(***************************************************************************)
EXTENDS MemoryBackend, SequenceTheorems, FiniteSetTheorems, WellFoundedInduction, TLAPS

(* A set of natural numbers has a smallest element. *)
LEMMA SmallestOf ==
  ASSUME NEW T, T \subseteq Nat, T # {}
  PROVE  \E x \in T : \A y \in T : x <= y
<1>1. \E x \in T : \A y \in T : ~(<<y, x>> \in OpToRel(<, Nat))
  BY NatLessThanWellFounded, WFMin, Zenon
<1>2. ASSUME NEW x \in T, NEW y \in T, ~(<<y, x>> \in OpToRel(<, Nat))
      PROVE  x <= y
  BY <1>2 DEF OpToRel
<1> QED BY <1>1, <1>2

(* A set of positions up to n has a last one. *)
LEMMA LargestOf ==
  ASSUME NEW n \in Nat, NEW T, T \subseteq 1..n, T # {}
  PROVE  \E x \in T : \A y \in T : y <= x
<1> DEFINE D == {n - i : i \in T}
<1>1. D \subseteq Nat /\ D # {}
  <2>1. PICK i \in T : TRUE OBVIOUS
  <2>2. n - i \in D BY <2>1
  <2> QED BY <2>2
<1>2. PICK d \in D : \A e \in D : d <= e BY <1>1, SmallestOf
<1>3. PICK x \in T : d = n - x OBVIOUS
<1>4. \A y \in T : y <= x
  <2> TAKE y \in T
  <2>1. n - y \in D OBVIOUS
  <2>2. d <= n - y BY <2>1, <1>2
  <2> QED BY <2>2, <1>3
<1> QED BY <1>4

USE StoreAssumption DEF Record, Saved

LEMMA SaveEntry ==
  ASSUME TypeOK, NEW i \in DOMAIN saves
  PROVE  saves[i].uuid \in Uuid /\ saves[i].rec \in Record
<1>1. saves \in Seq([uuid : Uuid, rec : Record])
  BY DEF TypeOK
<1>2. saves[i] \in [uuid : Uuid, rec : Record]
  BY <1>1, ElementOfSeq, LenProperties
<1> QED BY <1>2

(* The last save of a record that the batch saves. *)
LEMMA LastSaveOf ==
  ASSUME TypeOK, NEW u \in Uuid, SavesOf(u) # {}
  PROVE  /\ LastSave(u) \in DOMAIN saves
         /\ saves[LastSave(u)].uuid = u
         /\ saves[LastSave(u)].rec \in Record
<1>1. SavesOf(u) \subseteq 1..Len(saves) /\ Len(saves) \in Nat
  BY DEF SavesOf, TypeOK
<1>2. \E i \in SavesOf(u) : \A j \in SavesOf(u) : j <= i
  BY <1>1, LargestOf
<1>3. LastSave(u) \in SavesOf(u)
  BY <1>2 DEF LastSave
<1> QED BY <1>3, SaveEntry DEF SavesOf

LEMMA LastTakenOf ==
  ASSUME TypeOK, NEW k \in KeySet, NEW v \in Value, Taken(k, v) # {}
  PROVE  LastTaken(k, v) \in Taken(k, v)
<1>1. Taken(k, v) \subseteq 1..Len(saves) /\ Len(saves) \in Nat
  BY DEF Taken, TypeOK
<1>2. \E i \in Taken(k, v) : \A j \in Taken(k, v) : j <= i
  BY <1>1, LargestOf
<1> QED BY <1>2 DEF LastTaken

(* A record of the new store is the last save of the batch, or it was stored
   and the batch does not touch it. *)
LEMMA WhereFrom ==
  ASSUME TypeOK, NEW u \in Uuid, After[u] # Null
  PROVE  \/ \E i \in DOMAIN saves : saves[i].uuid = u /\ After[u] = saves[i].rec
         \/ u \notin Touched /\ After[u] = store[u]
<1>1. u \notin removes
  BY DEF After
<1>2. CASE SavesOf(u) # {}
  BY <1>1, <1>2, LastSaveOf DEF After
<1>3. CASE SavesOf(u) = {}
  <2>1. After[u] = store[u]
    BY <1>1, <1>3 DEF After
  <2>2. u \notin Touched
    BY <1>1, <1>3 DEF Touched, SavesOf
  <2> QED BY <2>1, <2>2
<1> QED BY <1>2, <1>3

LEMMA AfterType ==
  ASSUME TypeOK
  PROVE  After \in [Uuid -> Record \cup {Null}]
<1>1. ASSUME NEW u \in Uuid
      PROVE  After[u] \in Record \cup {Null}
  <2>1. CASE SavesOf(u) # {} /\ u \notin removes
    BY <2>1, LastSaveOf DEF After
  <2>2. CASE SavesOf(u) = {} \/ u \in removes
    BY <2>2 DEF After, TypeOK
  <2> QED BY <2>1, <2>2
<1> QED BY <1>1 DEF After

(* Two saves that checkUnique() let pass share no value unless they are
   saves of the same record. *)
LEMMA SavesDiffer ==
  ASSUME TypeOK, ConstraintHolds, NEW k \in KeySet,
         NEW i \in DOMAIN saves, NEW j \in DOMAIN saves,
         saves[i].rec[k] # Null, saves[i].rec[k] = saves[j].rec[k]
  PROVE  saves[i].uuid = saves[j].uuid
<1>0. i \in Nat /\ j \in Nat /\ i >= 1 /\ j >= 1
  BY DEF TypeOK
<1>1. CASE i < j
  <2>1. i \in 1..(j - 1) BY <1>0, <1>1
  <2> QED BY <2>1 DEF ConstraintHolds, Conflict
<1>2. CASE j < i
  <2>1. j \in 1..(i - 1) BY <1>0, <1>2
  <2> QED BY <2>1 DEF ConstraintHolds, Conflict
<1>3. CASE i = j
  BY <1>3
<1> QED BY <1>0, <1>1, <1>2, <1>3

(* Nor does a save share a value with a stored record left alone. *)
LEMMA SaveAvoidsStored ==
  ASSUME TypeOK, ConstraintHolds, IndexCoversStore, NEW k \in KeySet,
         NEW i \in DOMAIN saves, NEW v \in Uuid, v \notin Touched,
         store[v] # Null, store[v][k] # Null
  PROVE  saves[i].rec[k] # store[v][k]
<1>1. index[k][store[v][k]] = v
  BY DEF IndexCoversStore
<1>2. v \notin Touched \cup {Null}
  OBVIOUS
<1> QED BY <1>1, <1>2 DEF ConstraintHolds, Conflict

LEMMA AcceptedIsUnique ==
  ASSUME TypeOK, UniqueHolds, IndexCoversStore, ConstraintHolds
  PROVE  Unique(After)
<1> SUFFICES ASSUME NEW k \in KeySet, NEW u \in Uuid, NEW v \in Uuid, u # v,
                    After[u] # Null, After[v] # Null, After[u][k] # Null,
                    After[u][k] = After[v][k]
             PROVE  FALSE
  BY DEF Unique
<1>1. CASE \E i \in DOMAIN saves : saves[i].uuid = u /\ After[u] = saves[i].rec
  <2>1. PICK i \in DOMAIN saves : saves[i].uuid = u /\ After[u] = saves[i].rec
    BY <1>1
  <2>2. CASE \E j \in DOMAIN saves : saves[j].uuid = v /\ After[v] = saves[j].rec
    BY <2>1, <2>2, SavesDiffer
  <2>3. CASE v \notin Touched /\ After[v] = store[v]
    BY <2>1, <2>3, SaveAvoidsStored
  <2> QED BY <2>2, <2>3, WhereFrom
<1>2. CASE u \notin Touched /\ After[u] = store[u]
  <2>1. CASE \E j \in DOMAIN saves : saves[j].uuid = v /\ After[v] = saves[j].rec
    BY <1>2, <2>1, SaveAvoidsStored
  <2>2. CASE v \notin Touched /\ After[v] = store[v]
    BY <1>2, <2>2 DEF UniqueHolds, Unique
  <2> QED BY <2>1, <2>2, WhereFrom
<1> QED BY <1>1, <1>2, WhereFrom

LEMMA IndexCoversAfter ==
  ASSUME TypeOK, UniqueHolds, IndexCoversStore, ConstraintHolds,
         NEW u \in Uuid, NEW k \in KeySet, After[u] # Null, After[u][k] # Null
  PROVE  IndexAfter[k][After[u][k]] = u
<1> DEFINE x == After[u][k]
<1>0. x \in Value
  BY AfterType
<1>1. CASE \E i \in DOMAIN saves : saves[i].uuid = u /\ After[u] = saves[i].rec
  <2>1. PICK i \in DOMAIN saves : saves[i].uuid = u /\ After[u] = saves[i].rec
    BY <1>1
  <2>2. i \in Taken(k, x)
    BY <2>1 DEF Taken
  <2>3. LastTaken(k, x) \in Taken(k, x)
    BY <1>0, <2>2, LastTakenOf
  <2>4. saves[LastTaken(k, x)].uuid = u
    BY <2>1, <2>3, SavesDiffer DEF Taken
  <2> QED BY <1>0, <2>2, <2>4 DEF IndexAfter
<1>2. CASE u \notin Touched /\ After[u] = store[u]
  <2>1. index[k][x] = u
    BY <1>2 DEF IndexCoversStore
  <2>2. Taken(k, x) = {}
    BY <1>2, SaveAvoidsStored DEF Taken
  <2>3. ~Released(k, x)
    BY <1>2, <2>1 DEF Released
  <2> QED BY <1>0, <2>1, <2>2, <2>3 DEF IndexAfter
<1> QED BY <1>1, <1>2, WhereFrom

LEMMA IndexAfterType ==
  ASSUME TypeOK
  PROVE  IndexAfter \in [KeySet -> [Value -> Uuid \cup {Null}]]
<1>1. ASSUME NEW k \in KeySet, NEW v \in Value
      PROVE  IndexAfter[k][v] \in Uuid \cup {Null}
  <2>1. CASE Taken(k, v) # {}
    <3>1. LastTaken(k, v) \in DOMAIN saves
      BY <2>1, LastTakenOf DEF Taken
    <3>2. saves[LastTaken(k, v)].uuid \in Uuid
      BY <3>1, SaveEntry
    <3> QED BY <2>1, <3>2 DEF IndexAfter
  <2>2. CASE Taken(k, v) = {}
    BY <2>2 DEF IndexAfter, TypeOK
  <2> QED BY <2>1, <2>2
<1> QED BY <1>1 DEF IndexAfter

---------------------------------------------------------------------------
(* The inductive invariant. *)
IInv == TypeOK /\ UniqueHolds /\ IndexCoversStore

LEMMA InitInv ==
  MemoryInit => IInv
BY DEF MemoryInit, Init, IInv, TypeOK, UniqueHolds, Unique, IndexCoversStore

LEMMA StepInv ==
  ASSUME IInv, [MemoryNext]_vars
  PROVE  IInv'
<1> USE DEF IInv
<1>1. ASSUME NEW u \in Uuid, MemoryRemove(u)
      PROVE  IInv'
  BY <1>1 DEF MemoryRemove, Remove, TypeOK, UniqueHolds, Unique, IndexCoversStore
<1>2. ASSUME NEW u \in Uuid, NEW rec \in Record, MemorySave(u, rec)
      PROVE  IInv'
  <2>1. saves' \in Seq([uuid : Uuid, rec : Record])
    <3>1. saves \in Seq([uuid : Uuid, rec : Record])
      BY DEF TypeOK
    <3>2. [uuid |-> u, rec |-> rec] \in [uuid : Uuid, rec : Record]
      OBVIOUS
    <3> QED BY <1>2, <3>1, <3>2 DEF MemorySave, Save
  <2>2. UNCHANGED <<store, removes, index>>
    BY <1>2 DEF MemorySave, Save
  <2> QED BY <2>1, <2>2 DEF TypeOK, UniqueHolds, Unique, IndexCoversStore
<1>3. CASE Persist
  <2>1. TypeOK'
    BY <1>3, AfterType, IndexAfterType DEF Persist, Emptied, TypeOK
  <2>2. UniqueHolds'
    BY <1>3, AcceptedIsUnique DEF Persist, UniqueHolds, Unique
  <2>3. IndexCoversStore'
    BY <1>3, IndexCoversAfter DEF Persist, IndexCoversStore
  <2> QED BY <2>1, <2>2, <2>3
<1>4. CASE PersistThrows \/ DiscardPending
  <2>1. saves' = <<>> /\ removes' = {} /\ UNCHANGED <<store, index>>
    BY <1>4 DEF PersistThrows, DiscardPending, Emptied
  <2> QED BY <2>1 DEF TypeOK, UniqueHolds, Unique, IndexCoversStore
<1>5. CASE RegisterModel
  <2>1. TypeOK'
    BY <1>5 DEF RegisterModel, TypeOK
  <2>2. UniqueHolds'
    BY <1>5 DEF RegisterModel, UniqueHolds, Unique
  <2>3. ASSUME NEW u \in Uuid, NEW k \in KeySet, store[u] # Null, store[u][k] # Null
        PROVE  index'[k][store[u][k]] = u
    <3> DEFINE holders == {w \in Uuid : store[w] # Null /\ store[w][k] = store[u][k]}
    <3>1. holders = {u}
      BY <2>3 DEF UniqueHolds, Unique
    <3>2. store[u][k] \in Value
      BY <2>3 DEF TypeOK
    <3>3. index'[k][store[u][k]] = IF holders = {} THEN Null ELSE CHOOSE w \in holders : TRUE
      BY <1>5, <3>2 DEF RegisterModel
    <3> QED BY <3>1, <3>3
  <2>4. IndexCoversStore'
    <3>1. UNCHANGED store
      BY <1>5 DEF RegisterModel
    <3> QED BY <2>3, <3>1 DEF IndexCoversStore
  <2> QED BY <2>1, <2>2, <2>4
<1>6. CASE UNCHANGED vars
  BY <1>6 DEF vars, TypeOK, UniqueHolds, Unique, IndexCoversStore
<1> QED BY <1>1, <1>2, <1>3, <1>4, <1>5, <1>6 DEF MemoryNext

LEMMA Inv == MemorySpec => []IInv
BY InitInv, StepInv, PTL DEF MemorySpec

(* No two stored records share a value of a unique key (checkUnique and the
   index of InMemoryBackend.persist). *)
THEOREM UniqueStored == MemorySpec => []UniqueHolds
<1>1. IInv => UniqueHolds BY DEF IInv
<1> QED BY <1>1, Inv, PTL

(* The index checkUnique() asks knows the owner of every stored value. *)
THEOREM IndexCovers == MemorySpec => []IndexCoversStore
<1>1. IInv => IndexCoversStore BY DEF IInv
<1> QED BY <1>1, Inv, PTL

(* persist() applies the queue whole, with a unique result, or not at all. *)
THEOREM MemoryIsUniqueStore == MemorySpec => ImplementsUniqueStore
<1>1. MemoryInit => Init
  BY DEF MemoryInit
<1>2. ASSUME IInv, [MemoryNext]_vars
      PROVE  [Next]_<<store, saves, removes>>
  <2>1. ASSUME NEW u \in Uuid, MemoryRemove(u)
        PROVE  Next
    BY <2>1 DEF MemoryRemove, Next
  <2>2. ASSUME NEW u \in Uuid, NEW rec \in Record, MemorySave(u, rec)
        PROVE  Next
    BY <2>2 DEF MemorySave, Next
  <2>3. CASE Persist
    BY <1>2, <2>3, AcceptedIsUnique DEF IInv, Persist, Next, Commit
  <2>4. CASE PersistThrows \/ DiscardPending
    BY <2>4 DEF PersistThrows, DiscardPending, Next, Drop
  <2>5. CASE RegisterModel \/ UNCHANGED vars
    BY <2>5 DEF RegisterModel, vars
  <2> QED BY <1>2, <2>1, <2>2, <2>3, <2>4, <2>5 DEF MemoryNext
<1> QED BY <1>1, <1>2, Inv, PTL DEF MemorySpec, Spec, ImplementsUniqueStore
===========================================================================
