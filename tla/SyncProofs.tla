---------------------------- MODULE SyncProofs ----------------------------
(***************************************************************************)
(* Theorems about SyncBackend: replicas that keep working without the hub  *)
(* and exchange changes with it when they can.  In the order of the file:  *)
(*   - types, of every step of every actor (SyncTypes);                    *)
(*   - pushes: an outbox entry leaves its outbox only once the changelog   *)
(*     has its change or a newer one (NothingForgotten);                   *)
(*   - stamps: a replica's clock is past all it holds (EditsFollow), so    *)
(*     versions never repeat (VersionsNeverRepeat);                        *)
(*   - origins: whatever is stored, sent or served was written somewhere;  *)
(*   - the order of the changelog, on the lemmas of HubLemmas;             *)
(*   - pulls: a cursor stands for rows that are stored, and stay stored;   *)
(*   - convergence (NewestWriteWins, CalmReplicasAgree, Convergence);      *)
(*   - field-level mode: what a replica stores of a field never goes back  *)
(*     to an older version (FieldsRise), and a version of a field stands   *)
(*     for one value (VersionsTellValues).                                 *)
(*                                                                         *)
(* From stamps to convergence the theorems are about whole-record mode.    *)
(* What else they assume of the constants, and what goes wrong otherwise:  *)
(*   MaxCrashes = 0      the clock starts over in every process, and a     *)
(*                       version may then repeat (sync_restart_stamp.cfg); *)
(*   OneCall             two overlapping reconcile() calls of a replica    *)
(*                       undo each other's work (sync_overlap.cfg);        *)
(*   Durable =>          a durable hub does not see the batch it serves,   *)
(*     OrderedOutbox     so the batch must hold a record's oldest first;   *)
(*   MaxLocalFaults = 0  the cursor moves before the changes it stands for *)
(*                       are persisted.                                    *)
(* FieldsRise assumes MaxCrashes = 0 and OneCall as well, and that nothing *)
(* is saved while a pull is applied (field_two.cfg with "whileSyncing").   *)
(* VersionsTellValues needs no OneCall, but assumes what keeps the version *)
(* cache, the dirty hint and the store in step: no local persist throws,   *)
(* and nothing is patched (no hint), edited before it is first persisted   *)
(* (no hint) or saved while a pull is applied.  Without "remove" every     *)
(* record has a version for each field; with it TLC finds no violation of  *)
(* either property (field_two.cfg).                                        *)
(***************************************************************************)
EXTENDS SyncBackend, HubLemmas

USE HubAssumption, SyncAssumption

---------------------------------------------------------------------------
(* Types. *)

StoreTypes ==
  /\ clk \in [Replica -> Clock]
  /\ local \in [Replica -> [Key -> Record \cup {Absent}]]
  /\ outbox \in [Replica -> SUBSET Entry]
  /\ saves \in [Replica -> [Key -> Record \cup {Absent}]]
  /\ enqueued \in [Replica -> SUBSET Entry]
  /\ versions \in [Replica -> [Key -> FieldStamps \cup {Absent}]]
  /\ committed \in SUBSET Change
  /\ edits \in 0..MaxEdits

LEMMA NoRecordsType == NoRecords \in [Key -> Record \cup {Absent}]
BY DEF NoRecords

LEMMA DropType ==
  ASSUME StoreTypes, NEW r \in Replica, DropQueue(r)
  PROVE  /\ saves' \in [Replica -> [Key -> Record \cup {Absent}]]
         /\ enqueued' \in [Replica -> SUBSET Entry]
BY NoRecordsType DEF StoreTypes, DropQueue

LEMMA FlushType ==
  ASSUME StoreTypes, NEW r \in Replica, NEW removed, FlushAnd(r, removed),
         UNCHANGED <<clk, versions, edits>>
  PROVE  StoreTypes'
<1>1. Flushed(r) \in [Key -> Record \cup {Absent}]
  BY DEF StoreTypes, Flushed
<1>2. local' \in [Replica -> [Key -> Record \cup {Absent}]]
  BY <1>1 DEF StoreTypes, FlushAnd
<1>3. outbox' \in [Replica -> SUBSET Entry]
  BY DEF StoreTypes, FlushAnd
<1>4. committed' \in SUBSET Change
  BY DEF StoreTypes, FlushAnd, Entry
<1> QED BY <1>2, <1>3, <1>4, DropType DEF StoreTypes, FlushAnd

LEMMA MaxOfType ==
  ASSUME NEW fv \in FieldStamps, NEW none \in Stamp
  PROVE  MaxOf(fv, none) \in Stamp
<1> DEFINE newest == {f \in Field : fv[f] # Absent /\ \A g \in Field : ~Newer(fv[g], fv[f])}
<1>1. CASE newest = {}
  BY <1>1 DEF MaxOf
<1>2. CASE newest # {}
  <2>1. (CHOOSE f \in newest : TRUE) \in newest
    BY <1>2
  <2> QED BY <1>2, <2>1 DEF MaxOf, FieldStamps
<1> QED BY <1>1, <1>2

LEMMA NextStamp ==
  ASSUME NEW c \in Clock, NEW w \in Nat, NEW n \in Nat
  PROVE  /\ HlcNow(c, w) \in Clock /\ ClockLess(c, HlcNow(c, w))
         /\ StampOf(HlcNow(c, w), n) \in Stamp
         /\ StampOf(HlcNow(c, w), n).node = n
         /\ ClockLeq(StampOf(HlcNow(c, w), n), HlcNow(c, w))
<1>1. HlcNow(c, w) \in Clock /\ ClockLess(c, HlcNow(c, w))
  BY DEF HlcNow, Clock, ClockLess
<1> DEFINE d == HlcNow(c, w)
<1> HIDE DEF d
<1>2. d \in Clock
  BY <1>1 DEF d
<1>3. StampOf(d, n) = [phys |-> d.phys, ctr |-> d.ctr, node |-> n]
  BY DEF StampOf
<1>4. StampOf(d, n) \in Stamp /\ StampOf(d, n).node = n /\ ClockLeq(StampOf(d, n), d)
  BY <1>2, <1>3 DEF Stamp, Clock, ClockLeq
<1> QED BY <1>1, <1>4 DEF d

(* A stamp made of a later clock comes after everything up to the clock. *)
LEMMA LaterStamp ==
  ASSUME NEW c \in Clock, NEW d \in Clock, ClockLess(c, d), NEW n \in Nat,
         NEW s \in Stamp, ClockLeq(s, c)
  PROVE  ClockLeq(s, d) /\ Before(s, StampOf(d, n))
<1>1. StampOf(d, n) = [phys |-> d.phys, ctr |-> d.ctr, node |-> n]
  BY DEF StampOf
<1> QED BY <1>1 DEF Stamp, Clock, ClockLeq, ClockLess, Before

(* A clock shown a stamp is past the stamp and past where it was. *)
LEMMA UpdatedClock ==
  ASSUME NEW c \in Clock, NEW w \in Nat, NEW s \in Stamp
  PROVE  /\ HlcUpdate(c, s, w) \in Clock
         /\ ClockLeq(s, HlcUpdate(c, s, w))
         /\ \A x \in Stamp : ClockLeq(x, c) => ClockLeq(x, HlcUpdate(c, s, w))
<1> DEFINE phys == Larger(w, Larger(c.phys, s.phys))
<1>1. c.phys \in Nat /\ c.ctr \in Nat /\ s.phys \in Nat /\ s.ctr \in Nat
  BY DEF Clock, Stamp
<1>2. phys \in Nat /\ phys >= c.phys /\ phys >= s.phys
  BY <1>1 DEF Larger
<1>3. /\ Larger(c.ctr, s.ctr) \in Nat
      /\ Larger(c.ctr, s.ctr) >= c.ctr /\ Larger(c.ctr, s.ctr) >= s.ctr
  BY <1>1 DEF Larger
<1>4. PICK d : HlcUpdate(c, s, w) = [phys |-> phys, ctr |-> d]
  BY DEF HlcUpdate
<1>5. /\ d \in Nat
      /\ phys = c.phys => d >= c.ctr
      /\ phys = s.phys => d >= s.ctr
  <2> HIDE DEF phys
  <2>1. HlcUpdate(c, s, w).ctr = d
    BY <1>4
  <2> QED BY <1>1, <1>2, <1>3, <2>1 DEF HlcUpdate, phys
<1> HIDE DEF phys
<1>6. HlcUpdate(c, s, w) \in Clock
  BY <1>2, <1>4, <1>5 DEF Clock
<1>7. ClockLeq(s, HlcUpdate(c, s, w)) /\ ClockLeq(c, HlcUpdate(c, s, w))
  BY <1>1, <1>2, <1>4, <1>5 DEF ClockLeq
<1>8. ASSUME NEW x \in Stamp, ClockLeq(x, c)
      PROVE  ClockLeq(x, HlcUpdate(c, s, w))
  BY <1>6, <1>7, <1>8 DEF Stamp, Clock, ClockLeq
<1> QED BY <1>6, <1>7, <1>8


LEMMA NowType ==
  ASSUME StoreTypes, wall \in [Replica -> Nat], NEW r \in Replica
  PROVE  /\ HlcNow(clk[r], wall[r]) \in Clock /\ Now(r) \in Stamp /\ Now(r).node = r
         /\ edits < MaxEdits => Written(r) \in Value /\ edits + 1 \in 1..MaxEdits
<1>1. clk[r] \in Clock /\ wall[r] \in Nat /\ r \in Nat /\ edits \in Nat
  BY DEF StoreTypes
<1>2. HlcNow(clk[r], wall[r]) \in Clock /\ Now(r) \in Stamp /\ Now(r).node = r
  <2> DEFINE d == HlcNow(clk[r], wall[r])
  <2> HIDE HubAssumption, SyncAssumption
  <2>1. d \in Clock /\ StampOf(d, r) \in Stamp /\ StampOf(d, r).node = r
    BY <1>1, NextStamp
  <2>2. Now(r) = StampOf(d, r)
    BY DEF Now
  <2> QED BY <2>1, <2>2
<1>3. edits < MaxEdits => Written(r) \in Value /\ edits + 1 \in 1..MaxEdits
  BY <1>1, <1>2 DEF Written, Value, StoreTypes
<1> QED BY <1>2, <1>3

LEMMA StampedType ==
  ASSUME StoreTypes, NEW r \in Replica, NEW k \in Key, NEW dirty, NEW now \in Stamp,
         NEW val \in [Field -> Value \cup {Absent}]
  PROVE  /\ Stamped(r, k, val, dirty, now) \in Record
         /\ ~Stamped(r, k, val, dirty, now).del
         /\ FieldLevel => Stamped(r, k, val, dirty, now).fv \in FieldStamps
         /\ ~FieldLevel => /\ Stamped(r, k, val, dirty, now).ver = now
                           /\ Stamped(r, k, val, dirty, now).fv = Absent
<1> DEFINE prior   == versions[r][k]
           changed == IF prior = Absent THEN Field ELSE dirty
           fv      == [f \in Field |-> IF f \in changed THEN now
                                       ELSE IF prior = Absent THEN Absent ELSE prior[f]]
<1>0. prior \in FieldStamps \cup {Absent}
  BY DEF StoreTypes
<1>1. fv \in FieldStamps
  <2> HIDE DEF prior
  <2> QED BY <1>0 DEF FieldStamps
<1>2. Stamped(r, k, val, dirty, now) =
        IF FieldLevel THEN [ver |-> MaxOf(fv, now), del |-> FALSE, val |-> val, fv |-> fv]
        ELSE [ver |-> now, del |-> FALSE, val |-> val, fv |-> Absent]
  BY DEF Stamped
<1> HIDE DEF fv
<1>3. MaxOf(fv, now) \in Stamp
  BY <1>1, MaxOfType
<1> QED BY <1>1, <1>2, <1>3 DEF Record

(* What a step does to the stores of the replicas. *)
NewEntry(k, rec) == [n |-> edits + 1, ch |-> [key |-> k, rec |-> rec]]
Stamps(r, rec) ==
  /\ rec \in Record /\ edits < MaxEdits
  /\ ~FieldLevel => rec.ver = Now(r) /\ rec.fv = Absent
  /\ clk' = [clk EXCEPT ![r] = HlcNow(@, wall[r])]
  /\ edits' = edits + 1
Queues(r, k, rec) ==
  /\ Stamps(r, rec)
  /\ saves' = [saves EXCEPT ![r][k] = rec]
  /\ enqueued' = [enqueued EXCEPT ![r] = @ \cup {NewEntry(k, rec)}]
  /\ UNCHANGED <<local, outbox, committed>>
Patches(r, k, rec) ==
  /\ Stamps(r, rec)
  /\ local' = [local EXCEPT ![r] = [Flushed(r) EXCEPT ![k] = rec]]
  /\ outbox' = [outbox EXCEPT ![r] = @ \cup enqueued[r] \cup {NewEntry(k, rec)}]
  /\ committed' = committed \cup {d.ch : d \in enqueued[r] \cup {NewEntry(k, rec)}}
  /\ DropQueue(r)
(* Field by field, a save stamps the record from the version cache. *)
Writes(r, k, rec) ==
  /\ Field # {}
  /\ \E val \in [Field -> Value \cup {Absent}] : \E dirty :
       rec = Stamped(r, k, val, dirty, Now(r))
  /\ versions' = [versions EXCEPT ![r][k] = rec.fv]
Flushes(r, removed) == FlushAnd(r, removed) /\ UNCHANGED <<clk, edits>>
Drops(r) == DropQueue(r) /\ UNCHANGED <<clk, local, outbox, committed, edits>>
Applies(t) ==
  LET r == Owner[t]
      change == Head(task[t].todo)
      new == Applied(change.rec, task[t].found[change.key])
  IN  /\ clk' = [clk EXCEPT ![r] = HlcUpdate(@, change.rec.ver, wall[r])]
      /\ saves' = IF new = Absent THEN saves ELSE [saves EXCEPT ![r][change.key] = new]
      /\ UNCHANGED <<local, outbox, enqueued, committed, edits>>
Rests == UNCHANGED <<clk, local, outbox, saves, enqueued, committed, edits>>

CachedVersions == versions \in [Replica -> [Key -> FieldStamps \cup {Absent}]]

LEMMA StampsType ==
  ASSUME StoreTypes, wall \in [Replica -> Nat], NEW r \in Replica, NEW k \in Key, NEW rec,
         Stamps(r, rec)
  PROVE  /\ NewEntry(k, rec) \in Entry
         /\ clk' \in [Replica -> Clock] /\ edits' \in 0..MaxEdits
<1>1. HlcNow(clk[r], wall[r]) \in Clock /\ edits + 1 \in 1..MaxEdits
  BY NowType DEF Stamps
<1>2. NewEntry(k, rec) \in Entry
  BY <1>1 DEF NewEntry, Entry, Change, Stamps
<1> QED BY <1>1, <1>2 DEF Stamps, StoreTypes

LEMMA QueuesType ==
  ASSUME StoreTypes, wall \in [Replica -> Nat], NEW r \in Replica, NEW k \in Key, NEW rec,
         Queues(r, k, rec), CachedVersions'
  PROVE  StoreTypes'
<1>1. NewEntry(k, rec) \in Entry /\ clk' \in [Replica -> Clock] /\ edits' \in 0..MaxEdits
  BY StampsType DEF Queues
<1>2. enqueued' \in [Replica -> SUBSET Entry]
  BY <1>1 DEF Queues, StoreTypes
<1>3. saves' \in [Replica -> [Key -> Record \cup {Absent}]]
  BY DEF Queues, Stamps, StoreTypes
<1> QED BY <1>1, <1>2, <1>3 DEF Queues, StoreTypes, CachedVersions

LEMMA FlushedType ==
  ASSUME StoreTypes, NEW r \in Replica
  PROVE  Flushed(r) \in [Key -> Record \cup {Absent}]
BY DEF StoreTypes, Flushed

LEMMA PatchesType ==
  ASSUME StoreTypes, wall \in [Replica -> Nat], NEW r \in Replica, NEW k \in Key, NEW rec,
         Patches(r, k, rec), CachedVersions'
  PROVE  StoreTypes'
<1>1. NewEntry(k, rec) \in Entry /\ clk' \in [Replica -> Clock] /\ edits' \in 0..MaxEdits
  BY StampsType DEF Patches
<1>2. outbox' \in [Replica -> SUBSET Entry]
  BY <1>1 DEF Patches, StoreTypes
<1>3. local' \in [Replica -> [Key -> Record \cup {Absent}]]
  BY FlushedType DEF Patches, Stamps, StoreTypes
<1>4. committed' \in SUBSET Change
  BY <1>1 DEF Patches, StoreTypes, Entry
<1> QED BY <1>1, <1>2, <1>3, <1>4, DropType DEF Patches, StoreTypes, CachedVersions

LEMMA HeldType ==
  ASSUME StoreTypes, NEW r \in Replica, NEW k \in Key, NEW held \in Holdable(r, k)
  PROVE  held \in Record \cup {Absent}
BY DEF Holdable, StoreTypes, Entry, Change

LEMMA CacheType ==
  ASSUME CachedVersions, NEW r \in Replica, NEW k \in Key, NEW fv,
         FieldLevel => fv \in FieldStamps,
         versions' = IF FieldLevel THEN [versions EXCEPT ![r][k] = fv] ELSE versions
  PROVE  CachedVersions'
BY DEF CachedVersions

(* The values, the dirty hint and the record of a save that finds an instance
   holding `held` and edits the fields of `edited`. *)
ValuesOf(r, held, edited) == [f \in Field |-> IF f \in edited THEN Written(r) ELSE held.val[f]]
DirtyOf(r, k, val) == IF Live(local[r][k]) THEN {f \in Field : val[f] # local[r][k].val[f]} ELSE NoHint
RecordOf(r, k, held, edited) ==
  LET val == ValuesOf(r, held, edited) IN Stamped(r, k, val, DirtyOf(r, k, val), Now(r))

LEMMA UserSaveQueues ==
  ASSUME StoreTypes, wall \in [Replica -> Nat], NEW r \in Replica, NEW k \in Key, UserSave(r, k)
  PROVE  /\ \E held \in Holdable(r, k), edited \in (SUBSET Field) \ {{}} :
              /\ Holds(r, k, held)
              /\ ~Live(held) => edited = Field
              /\ Live(held) /\ ~Live(local[r][k]) => "editNew" \in Ops
              /\ ValuesOf(r, held, edited) \in [Field -> Value \cup {Absent}]
              /\ Queues(r, k, RecordOf(r, k, held, edited))
              /\ FieldLevel => Writes(r, k, RecordOf(r, k, held, edited))
         /\ CachedVersions'
<1>0. PICK held \in Holdable(r, k), edited \in (SUBSET Field) \ {{}} :
        LET val == ValuesOf(r, held, edited)
        IN  /\ edits < MaxEdits /\ Holds(r, k, held)
            /\ ~Live(held) => edited = Field
            /\ Live(held) /\ ~Live(local[r][k]) => "editNew" \in Ops
            /\ Save(r, k, val, DirtyOf(r, k, val), Now(r))
  BY Zenon DEF UserSave, ValuesOf, DirtyOf
<1> DEFINE val == ValuesOf(r, held, edited)
           dirty == DirtyOf(r, k, val)
<1>1. edits < MaxEdits /\ (~Live(held) => edited = Field) /\ Save(r, k, val, dirty, Now(r))
  BY <1>0
<1>2. Written(r) \in Value /\ Now(r) \in Stamp
  BY <1>1, NowType
<1>3. held \in Record \/ edited = Field
  BY <1>1, HeldType DEF Live
<1>4. val \in [Field -> Value \cup {Absent}]
  <2>1. val = [f \in Field |-> IF f \in edited THEN Written(r) ELSE held.val[f]]
    BY DEF ValuesOf
  <2> HIDE DEF val
  <2> QED BY <1>2, <1>3, <2>1 DEF Record
<1> DEFINE rec == Stamped(r, k, val, dirty, Now(r))
<1>r. rec = RecordOf(r, k, held, edited)
  BY DEF RecordOf
<1> HIDE DEF val, dirty
<1>5. /\ clk' = [clk EXCEPT ![r] = HlcNow(@, wall[r])]
      /\ versions' = IF FieldLevel THEN [versions EXCEPT ![r][k] = rec.fv] ELSE versions
      /\ SaveAndEnqueue(r, k, rec)
  BY <1>1 DEF Save
<1>6. /\ rec \in Record
      /\ FieldLevel => rec.fv \in FieldStamps
      /\ ~FieldLevel => rec.ver = Now(r) /\ rec.fv = Absent
  BY <1>2, <1>4, StampedType
<1> HIDE DEF rec
<1>7. CachedVersions'
  BY <1>5, <1>6, CacheType DEF StoreTypes, CachedVersions
<1>8. Queues(r, k, rec)
  BY <1>1, <1>5, <1>6 DEF Queues, Stamps, SaveAndEnqueue, NewEntry
<1>9. FieldLevel => Writes(r, k, rec)
  <2>1. ASSUME FieldLevel
        PROVE  versions' = [versions EXCEPT ![r][k] = rec.fv]
    BY <1>5, <2>1, Zenon
  <2>2. \E v \in [Field -> Value \cup {Absent}] : \E d : rec = Stamped(r, k, v, d, Now(r))
    BY <1>4 DEF rec
  <2>3. Field # {}
    OBVIOUS
  <2> QED BY <2>1, <2>2, <2>3 DEF Writes
<1>10. val = ValuesOf(r, held, edited)
  BY DEF val
<1> QED BY <1>0, <1>4, <1>7, <1>8, <1>9, <1>10, <1>r

LEMMA UserRemoveQueues ==
  ASSUME StoreTypes, wall \in [Replica -> Nat], NEW r \in Replica, NEW k \in Key, UserRemove(r, k)
  PROVE  /\ \E rec : Queues(r, k, rec)
         /\ CachedVersions'
<1> DEFINE rec == [ver |-> Now(r), del |-> TRUE, val |-> NoValues, fv |-> Absent]
<1>1. rec \in Record /\ rec.ver = Now(r) /\ rec.fv = Absent
  BY NowType DEF Record, NoValues
<1>2. /\ edits < MaxEdits /\ SaveAndEnqueue(r, k, rec)
      /\ clk' = [clk EXCEPT ![r] = HlcNow(@, wall[r])]
      /\ versions' = versions
  BY DEF UserRemove
<1> HIDE DEF rec
<1>3. Queues(r, k, rec)
  BY <1>1, <1>2 DEF Queues, Stamps, SaveAndEnqueue, NewEntry
<1> QED BY <1>2, <1>3 DEF StoreTypes, CachedVersions

LEMMA PatchWritePatches ==
  ASSUME StoreTypes, wall \in [Replica -> Nat], NEW r \in Replica,
         patching[r] \in [key : Key, rec : Record] \cup {Absent}, PatchWrite(r)
  PROVE  /\ \E k \in Key : \E rec : Patches(r, k, rec) /\ (FieldLevel => Writes(r, k, rec))
         /\ CachedVersions'
<1>1. PICK edited \in (SUBSET Field) \ {{}} :
        LET k   == patching[r].key
            val == [f \in Field |-> IF f \in edited THEN Written(r) ELSE patching[r].rec.val[f]]
            new == Stamped(r, k, val, NoHint, Now(r))
            e   == NewEntry(k, new)
        IN  /\ patching[r] # Absent /\ edits < MaxEdits
            /\ clk' = [clk EXCEPT ![r] = HlcNow(@, wall[r])]
            /\ versions' = IF FieldLevel THEN [versions EXCEPT ![r][k] = new.fv] ELSE versions
            /\ local' = [local EXCEPT ![r] = [Flushed(r) EXCEPT ![k] = new]]
            /\ outbox' = [outbox EXCEPT ![r] = @ \cup enqueued[r] \cup {e}]
            /\ committed' = committed \cup {d.ch : d \in enqueued[r] \cup {e}}
            /\ DropQueue(r)
            /\ edits' = edits + 1
  BY Zenon DEF PatchWrite, NewEntry
<1> DEFINE k   == patching[r].key
           val == [f \in Field |-> IF f \in edited THEN Written(r) ELSE patching[r].rec.val[f]]
           new == Stamped(r, k, val, NoHint, Now(r))
<1>2. Written(r) \in Value /\ Now(r) \in Stamp
  BY <1>1, NowType
<1>3. k \in Key /\ val \in [Field -> Value \cup {Absent}]
  BY <1>1, <1>2 DEF Record
<1> HIDE DEF k, val
<1>4. /\ new \in Record
      /\ FieldLevel => new.fv \in FieldStamps
      /\ ~FieldLevel => new.ver = Now(r) /\ new.fv = Absent
  BY <1>2, <1>3, StampedType
<1> USE DEF k, val
<1>5. versions' = IF FieldLevel THEN [versions EXCEPT ![r][k] = new.fv] ELSE versions
  BY <1>1
<1>6. Patches(r, k, new)
  BY <1>1, <1>4 DEF Patches, Stamps
<1> HIDE DEF k, val
<1>8. FieldLevel => Writes(r, k, new)
  <2>1. ASSUME FieldLevel
        PROVE  versions' = [versions EXCEPT ![r][k] = new.fv]
    BY <1>5, <2>1, Zenon
  <2>2. \E v \in [Field -> Value \cup {Absent}] : \E dirty : new = Stamped(r, k, v, dirty, Now(r))
    BY <1>3
  <2>3. Field # {}
    OBVIOUS
  <2> HIDE DEF new
  <2> QED BY <2>1, <2>2, <2>3 DEF Writes
<1> HIDE DEF new
<1>7. CachedVersions'
  BY <1>3, <1>4, <1>5, CacheType DEF StoreTypes, CachedVersions
<1> QED BY <1>3, <1>6, <1>7, <1>8

(* A change applies as itself or merged by field with the stored record. *)
LEMMA AppliedType ==
  ASSUME NEW inc \in Record, NEW rec \in Record \cup {Absent}
  PROVE  /\ Applied(inc, rec) \in Record \cup {Absent}
         /\ Applied(inc, rec) # Absent => Applied(inc, rec).fv \in FieldStamps \cup {Absent}
         /\ ~FieldLevel => Applied(inc, rec) =
              IF rec = Absent \/ Before(rec.ver, inc.ver) THEN inc ELSE Absent
<1>0. Absent \notin Stamp /\ Absent \notin Record
  OBVIOUS
<1>1. ASSUME Merges(inc, rec)
      PROVE  MergedByField(rec, inc) \in Record
  <2> DEFINE take == {f \in Field : Newer(inc.fv[f], rec.fv[f])}
             fv   == [f \in Field |-> IF f \in take THEN inc.fv[f] ELSE rec.fv[f]]
  <2>1. rec \in Record /\ inc.fv \in FieldStamps /\ rec.fv \in FieldStamps
    BY <1>1 DEF Merges, Live, Record
  <2>2. fv \in FieldStamps
    BY <2>1 DEF FieldStamps
  <2>3. [f \in Field |-> IF f \in take THEN inc.val[f] ELSE rec.val[f]]
          \in [Field -> Value \cup {Absent}]
    BY <2>1 DEF Record
  <2>4. MergedByField(rec, inc) =
          [ver |-> MaxOf(fv, rec.ver), del |-> FALSE,
           val |-> [f \in Field |-> IF f \in take THEN inc.val[f] ELSE rec.val[f]], fv |-> fv]
    BY DEF MergedByField
  <2>5. rec.ver \in Stamp
    BY <2>1 DEF Record
  <2> HIDE DEF take, fv
  <2>6. MaxOf(fv, rec.ver) \in Stamp
    BY <2>2, <2>5, MaxOfType
  <2> QED BY <2>2, <2>3, <2>4, <2>6 DEF Record
<1>2. Applied(inc, rec) \in Record \cup {Absent}
  BY <1>1 DEF Applied
<1>3. ~FieldLevel => Applied(inc, rec) =
        IF rec = Absent \/ Before(rec.ver, inc.ver) THEN inc ELSE Absent
  <2>1. rec = Absent \/ rec.ver \in Stamp
    BY DEF Record
  <2>2. inc.ver \in Stamp
    BY DEF Record
  <2> QED BY <1>0, <2>1, <2>2 DEF Applied, Merges, Newer
<1>4. ASSUME NEW x \in Record
      PROVE  x.fv \in FieldStamps \cup {Absent}
  BY DEF Record
<1> QED BY <1>2, <1>3, <1>4

LEMMA AppliesType ==
  ASSUME StoreTypes, wall \in [Replica -> Nat], NEW t \in Client,
         Head(task[t].todo) \in Change,
         task[t].found \in [Key -> Record \cup {Absent}],
         ApplyIncoming(Owner[t], Head(task[t].todo), task[t].found[Head(task[t].todo).key]),
         UNCHANGED <<local, outbox, enqueued, committed, edits>>
  PROVE  Applies(t) /\ StoreTypes'
<1> DEFINE r == Owner[t]
           change == Head(task[t].todo)
           new == Applied(change.rec, task[t].found[change.key])
<1>1. r \in Replica /\ change.key \in Key /\ change.rec \in Record /\ change.rec.ver \in Stamp
  BY ChangeVersion DEF Change
<1>2. /\ new \in Record \cup {Absent}
      /\ new # Absent => new.fv \in FieldStamps \cup {Absent}
  BY <1>1, AppliedType
<1>3. HlcUpdate(clk[r], change.rec.ver, wall[r]) \in Clock
  BY <1>1, UpdatedClock DEF StoreTypes
<1>4. /\ clk' = [clk EXCEPT ![r] = HlcUpdate(@, change.rec.ver, wall[r])]
      /\ saves' = IF new = Absent THEN saves ELSE [saves EXCEPT ![r][change.key] = new]
      /\ versions' = IF new # Absent /\ FieldLevel /\ new.fv # Absent
                     THEN [versions EXCEPT ![r][change.key] = new.fv] ELSE versions
  BY DEF ApplyIncoming
<1>5. Applies(t)
  BY <1>4 DEF Applies
<1> HIDE DEF new
<1>6. clk' \in [Replica -> Clock] /\ saves' \in [Replica -> [Key -> Record \cup {Absent}]]
  BY <1>1, <1>2, <1>3, <1>4 DEF StoreTypes
<1>7. CachedVersions'
  BY <1>1, <1>2, <1>4 DEF StoreTypes, CachedVersions
<1> QED BY <1>5, <1>6, <1>7 DEF StoreTypes, CachedVersions

LEMMA ForgetType ==
  ASSUME HubTypeOK, NEW who \in SUBSET Client, Forget(who)
  PROVE  HubTypeOK' /\ RowsAlone
<1>1. inbox' = {[req EXCEPT !.to = IF @ \in who THEN Nobody ELSE @] : req \in inbox}
  BY DEF Forget
<1>2. inbox' \in SUBSET Request
  <2>1. ASSUME NEW req \in inbox
        PROVE  [req EXCEPT !.to = IF @ \in who THEN Nobody ELSE @] \in Request
    <3>1. req \in [to : Client \cup {Nobody}, batch : Seq(Change)]
      BY DEF HubTypeOK, Request
    <3> QED BY <3>1 DEF Request
  <2> QED BY <1>1, <2>1
<1>3. job' = IF job # Absent /\ job.to \in who THEN [job EXCEPT !.to = Nobody] ELSE job
  BY DEF Forget
<1>4. job' \in Job \cup {Absent} /\ JobRows' = JobRows /\ (job' = Absent <=> job = Absent)
  BY <1>3 DEF HubTypeOK, Job, JobRows
<1>5. UNCHANGED <<log, seq, ready, faults>>
  BY DEF Forget
<1> QED BY <1>2, <1>4, <1>5 DEF HubTypeOK, RowsAlone

LEMMA OutboxBatch ==
  ASSUME NEW entries \in SUBSET Entry, NEW read \in OutboxReads(entries)
  PROVE  /\ read \in Seq(entries) /\ [i \in DOMAIN read |-> read[i].ch] \in Seq(Change)
         /\ DOMAIN [i \in DOMAIN read |-> read[i].ch] = DOMAIN read
         /\ DOMAIN read = 1..Len(read) /\ Len(read) \in Nat
         /\ \A i \in DOMAIN read : read[i] \in entries
<1>1. PICK n \in 0..MaxEdits : read \in [1..n -> entries]
  BY DEF OutboxReads
<1>2. [i \in DOMAIN read |-> read[i].ch] \in [1..n -> Change]
  BY <1>1 DEF Entry
<1>3. n \in Nat
  BY <1>1
<1> QED BY <1>1, <1>2, <1>3

(* Seen from the hub, a step is one of its own or leaves its rows alone. *)
Sends(t) ==
  \E read \in OutboxReads(outbox[Owner[t]] \cup enqueued[Owner[t]]) :
    inbox' = inbox \cup {[to |-> t, batch |-> [i \in DOMAIN read |-> read[i].ch]]}

LEMMA AppLeaves ==
  ASSUME NEW r \in Replica, Application(r)
  PROVE  UNCHANGED <<hubVars, wall, cursor, task, lost, crashes>>
<1>1. ASSUME NEW k \in Key, UserSave(r, k)
      PROVE  UNCHANGED <<hubVars, wall, cursor, task, lost, crashes>>
  BY <1>1 DEF UserSave, Save, SaveAndEnqueue
<1>2. ASSUME NEW k \in Key, UserRemove(r, k) \/ PatchRead(r, k)
      PROVE  UNCHANGED <<hubVars, wall, cursor, task, lost, crashes>>
  BY <1>2 DEF UserRemove, SaveAndEnqueue, PatchRead, boundVars
<1>3. ASSUME PatchWrite(r) \/ UserPersist(r) \/ UserPersistFails(r)
      PROVE  UNCHANGED <<hubVars, wall, cursor, task, lost, crashes>>
  BY <1>3 DEF PatchWrite, UserPersist, UserPersistFails, LocalPersistFails, boundVars
<1> QED BY <1>1, <1>2, <1>3 DEF Application

LEMMA StepOfHub ==
  ASSUME TypeOK, [Next]_vars
  PROVE  \/ HubStep
         \/ UNCHANGED <<log, seq, ready, job, faults>> /\ inbox' \subseteq inbox
         \/ UNCHANGED <<log, seq, ready, job, faults>> /\ \E t \in Client : PushOutbox(t) /\ Sends(t)
         \/ \E who \in SUBSET Client : Forget(who)
<1>1. ASSUME NEW r \in Replica, Tick(r) \/ Application(r) \/ Crash(r)
      PROVE  UNCHANGED hubVars \/ \E who \in SUBSET Client : Forget(who)
  BY <1>1, AppLeaves DEF Tick, Crash
<1>2. ASSUME NEW t \in Client, Reconcile(t)
      PROVE  \/ HubStep
             \/ UNCHANGED hubVars
             \/ UNCHANGED <<log, seq, ready, job, faults>>
                  /\ ((PushOutbox(t) /\ Sends(t)) \/ UNCHANGED inbox)
  <2>1. ServePull(t) => HubStep
    BY DEF ServePull, HubStep, Pulls
  <2>2. PushOutbox(t) => UNCHANGED <<log, seq, ready, job, faults>> /\ (Sends(t) \/ UNCHANGED inbox)
    BY DEF PushOutbox, Sends
  <2> QED BY <1>2, <2>1, <2>2
      DEF Reconcile, StartPull, LoadLocalRecords, ApplyPulled, PullDone, LocalRecord,
          ApplyConflict, PushDone
<1>3. ASSUME NEW t \in Client, ReconcileFails(t)
      PROVE  \/ UNCHANGED hubVars
             \/ UNCHANGED <<log, seq, ready, job, faults>> /\ inbox' \subseteq inbox
             \/ Forget({t})
  BY <1>3
  DEF ReconcileFails, PullLost, PullDoneFails, PushOutboxFails, PushRequestLost, PushTimesOut,
      PushDoneFails
<1>4. ASSUME Hub
      PROVE  HubStep
  BY <1>4 DEF Hub, HubServes, HubReplies, HubThrows, HubRestarts, HubStep
<1>5. ASSUME UNCHANGED vars
      PROVE  UNCHANGED hubVars
  BY <1>5 DEF vars
<1> QED BY <1>1, <1>2, <1>3, <1>4, <1>5 DEF Next, hubVars

LEMMA HubPart ==
  ASSUME TypeOK, [Next]_vars
  PROVE  HubTypeOK' /\ (HubStep \/ RowsAlone)
<1>1. CASE HubStep
  BY <1>1, HubStepType DEF TypeOK
<1>2. CASE UNCHANGED <<log, seq, ready, job, faults>> /\ inbox' \subseteq inbox
  BY <1>2 DEF TypeOK, HubTypeOK, RowsAlone, JobRows
<1>3. ASSUME UNCHANGED <<log, seq, ready, job, faults>>, NEW t \in Client, Sends(t)
      PROVE  HubTypeOK' /\ RowsAlone
  <2>1. outbox[Owner[t]] \cup enqueued[Owner[t]] \in SUBSET Entry
    BY DEF TypeOK
  <2>2. PICK read \in OutboxReads(outbox[Owner[t]] \cup enqueued[Owner[t]]) :
          inbox' = inbox \cup {[to |-> t, batch |-> [i \in DOMAIN read |-> read[i].ch]]}
    BY <1>3 DEF Sends
  <2>3. [i \in DOMAIN read |-> read[i].ch] \in Seq(Change)
    BY <2>1, OutboxBatch
  <2>4. [to |-> t, batch |-> [i \in DOMAIN read |-> read[i].ch]] \in Request
    BY <2>3 DEF Request
  <2> QED BY <1>3, <2>2, <2>4 DEF TypeOK, HubTypeOK, RowsAlone, JobRows
<1>4. ASSUME NEW who \in SUBSET Client, Forget(who)
      PROVE  HubTypeOK' /\ RowsAlone
  BY <1>4, ForgetType DEF TypeOK
<1> QED BY <1>1, <1>2, <1>3, <1>4, StepOfHub

---------------------------------------------------------------------------
(* Types of what belongs to a reconcile() call. *)

TaskTypes ==
  /\ task \in [Client -> TaskState]
  /\ \A t \in Client : task[t].pc = "resolve" => task[t].todo # <<>>

TypeInv == TypeOK /\ TaskTypes

LEMMA TaskType ==
  ASSUME TypeInv, NEW t \in Client
  PROVE  /\ task[t] \in TaskState /\ task[t].todo \in Seq(Change) /\ task[t].next \in Nat
         /\ task[t].found \in [Key -> Record \cup {Absent}] /\ task[t].applied \in BOOLEAN
         /\ task[t].sent \in SUBSET Entry
         /\ task[t].pc = "resolve" => task[t].todo # <<>>
         /\ task[t].todo # <<>> =>
              /\ Head(task[t].todo) \in Change /\ Tail(task[t].todo) \in Seq(Change)
              /\ Head(task[t].todo).key \in Key /\ Head(task[t].todo).rec \in Record
         /\ Owner[t] \in Replica
<1>1. task[t] \in TaskState
  BY DEF TypeInv, TaskTypes
<1>2. task[t].todo \in Seq(Change)
  BY <1>1 DEF TaskState
<1>3. task[t].todo # <<>> => Head(task[t].todo) \in Change /\ Tail(task[t].todo) \in Seq(Change)
  BY <1>2, HeadTailProperties, LenProperties
<1>4. \A c \in Change : c.key \in Key /\ c.rec \in Record
  BY DEF Change
<1> QED BY <1>1, <1>2, <1>3, <1>4 DEF TaskState, TypeInv, TaskTypes

LEMMA IdleType == Idle \in TaskState /\ [Idle EXCEPT !.pc = "flushing"] \in TaskState
BY EmptySeq, NoRecordsType DEF Idle, TaskState

LEMMA StepTasks ==
  ASSUME TypeInv, [Next]_vars
  PROVE  TaskTypes'
<1> DEFINE Kind(t, s) == s \in TaskState /\ (s.pc = "resolve" => s.todo # <<>>)
<1>1. ASSUME NEW t \in Client, NEW s, Kind(t, s), task' = [task EXCEPT ![t] = s]
      PROVE  TaskTypes'
  BY <1>1 DEF TypeInv, TaskTypes
<1>2. ASSUME NEW r \in Replica, Tick(r) \/ Application(r) \/ Crash(r)
      PROVE  TaskTypes'
  <2>1. CASE task' = task
    BY <2>1 DEF TypeInv, TaskTypes
  <2>2. CASE Crash(r)
    BY <2>2, IdleType DEF Crash, TypeInv, TaskTypes, Idle
  <2> QED BY <1>2, <2>1, <2>2, AppLeaves DEF Tick
<1>3. ASSUME NEW t \in Client, Reconcile(t)
      PROVE  TaskTypes'
  <2> DEFINE old == task[t]
  <2>0. Kind(t, Idle) /\ Kind(t, [Idle EXCEPT !.pc = "flushing"])
    BY IdleType DEF Idle
  <2>1. CASE StartPull(t)
    <3>1. task' = [task EXCEPT ![t] = [old EXCEPT !.pc = "pulling", !.next = cursor[Owner[t]]]]
      BY <2>1 DEF StartPull
    <3>2. cursor[Owner[t]] \in Nat
      BY DEF TypeInv, TypeOK
    <3>3. Kind(t, [old EXCEPT !.pc = "pulling", !.next = cursor[Owner[t]]])
      BY <3>2, TaskType DEF TaskState
    <3> QED BY <1>1, <3>1, <3>3
  <2>2. CASE ServePull(t)
    <3>0. PICK i \in 1..(Len(log) + 1) :
            task' = [task EXCEPT ![t].pc = "pulled", ![t].todo = ChangesFrom(i),
                                 ![t].next = NextCursor(@, i)]
      BY <2>2 DEF ServePull
    <3>1. task' = [task EXCEPT ![t] = [old EXCEPT !.pc = "pulled", !.todo = ChangesFrom(i),
                                                  !.next = NextCursor(@, i)]]
      BY <3>0
    <3>2. ChangesFrom(i) \in Seq(Change) /\ NextCursor(old.next, i) \in Nat
      BY ChangesFromType, LastSeqType, TaskType DEF NextCursor, TypeInv, TypeOK
    <3>3. Kind(t, [old EXCEPT !.pc = "pulled", !.todo = ChangesFrom(i),
                              !.next = NextCursor(@, i)])
      BY <3>2, TaskType DEF TaskState
    <3> QED BY <1>1, <3>1, <3>3
  <2>3. CASE LoadLocalRecords(t)
    <3>1. PICK wanted :
            task' = [task EXCEPT ![t] = [old EXCEPT !.pc = "applying",
              !.found = [k \in Key |-> IF k \in wanted THEN local[Owner[t]][k] ELSE Absent]]]
      BY <2>3 DEF LoadLocalRecords
    <3>2. [k \in Key |-> IF k \in wanted THEN local[Owner[t]][k] ELSE Absent]
            \in [Key -> Record \cup {Absent}]
      BY DEF TypeInv, TypeOK
    <3>3. Kind(t, [old EXCEPT !.pc = "applying",
              !.found = [k \in Key |-> IF k \in wanted THEN local[Owner[t]][k] ELSE Absent]])
      BY <3>2, TaskType DEF TaskState
    <3> QED BY <1>1, <3>1, <3>3
  <2>4. CASE ApplyPulled(t)
    <3>1. PICK b \in BOOLEAN :
            task' = [task EXCEPT ![t] = [old EXCEPT !.todo = Tail(@), !.applied = @ \/ b]]
      BY <2>4 DEF ApplyPulled
    <3>2. old.pc = "applying" /\ old.todo # <<>>
      BY <2>4 DEF ApplyPulled
    <3>3. Kind(t, [old EXCEPT !.todo = Tail(@), !.applied = @ \/ b])
      BY <3>2, TaskType DEF TaskState
    <3> QED BY <1>1, <3>1, <3>3
  <2>5. CASE PullDone(t)
    BY <1>1, <2>0, <2>5 DEF PullDone
  <2>6. CASE PushOutbox(t)
    <3>1. \/ task' = [task EXCEPT ![t] = Idle]
          \/ task' = [task EXCEPT ![t] = [old EXCEPT !.pc = "pushing",
                                     !.sent = outbox[Owner[t]] \cup enqueued[Owner[t]]]]
      BY <2>6 DEF PushOutbox
    <3>2. outbox[Owner[t]] \cup enqueued[Owner[t]] \in SUBSET Entry
      BY DEF TypeInv, TypeOK
    <3>3. Kind(t, [old EXCEPT !.pc = "pushing",
                              !.sent = outbox[Owner[t]] \cup enqueued[Owner[t]]])
      BY <3>2, TaskType DEF TaskState
    <3> QED BY <1>1, <2>0, <3>1, <3>3
  <2>7. CASE LocalRecord(t)
    <3> DEFINE k == Head(old.todo).key
               found == [NoRecords EXCEPT ![k] = local[Owner[t]][k]]
    <3>1. /\ task' = [task EXCEPT ![t] = [old EXCEPT !.pc = "resolve", !.found = found]]
          /\ old.pc = "resolving" /\ old.todo # <<>>
      BY <2>7 DEF LocalRecord
    <3>2. found \in [Key -> Record \cup {Absent}]
      <4>1. k \in Key
        BY <3>1, TaskType
      <4> HIDE DEF k
      <4>2. local[Owner[t]] \in [Key -> Record \cup {Absent}]
        BY SyncAssumption DEF TypeInv, TypeOK
      <4> QED BY <4>1, <4>2, NoRecordsType
    <3> HIDE DEF found
    <3>3. Kind(t, [old EXCEPT !.pc = "resolve", !.found = found])
      BY <3>1, <3>2, TaskType DEF TaskState
    <3> QED BY <1>1, <3>1, <3>3
  <2>8. CASE ApplyConflict(t)
    <3>1. /\ task' = [task EXCEPT ![t] = [old EXCEPT !.pc = "resolving", !.todo = Tail(@),
                                                     !.found = NoRecords, !.applied = TRUE]]
          /\ old.pc = "resolve"
      BY <2>8 DEF ApplyConflict
    <3>2. Kind(t, [old EXCEPT !.pc = "resolving", !.todo = Tail(@),
                              !.found = NoRecords, !.applied = TRUE])
      BY <3>1, TaskType, NoRecordsType DEF TaskState
    <3> QED BY <1>1, <3>1, <3>2
  <2>9. CASE PushDone(t)
    BY <1>1, <2>0, <2>9 DEF PushDone
  <2> QED BY <1>3, <2>1, <2>2, <2>3, <2>4, <2>5, <2>6, <2>7, <2>8, <2>9 DEF Reconcile
<1>4. ASSUME NEW t \in Client, ReconcileFails(t)
      PROVE  TaskTypes'
  <2>1. task' = [task EXCEPT ![t] = Idle]
    BY <1>4
    DEF ReconcileFails, PullLost, PullDoneFails, PushOutboxFails, PushRequestLost, PushTimesOut,
        PushDoneFails
  <2> QED BY <1>1, <2>1, IdleType DEF Idle
<1>5. ASSUME Hub
      PROVE  TaskTypes'
  <2>1. CASE HubServes
    BY <2>1 DEF HubServes, TypeInv, TaskTypes
  <2>2. CASE HubReplies
    <3>1. /\ job # Absent
          /\ task' = IF job.to = Nobody THEN task
                     ELSE [task EXCEPT ![job.to] = [task[job.to] EXCEPT !.pc = "resolving",
                                                                        !.todo = job.conflicts]]
      BY <2>2 DEF HubReplies, HubCommit
    <3>2. job.conflicts \in Seq(Change) /\ job.to \in Client \cup {Nobody}
      BY <3>1, JobType DEF TypeInv, TypeOK
    <3>3. CASE job.to = Nobody
      BY <3>1, <3>3 DEF TypeInv, TaskTypes
    <3>4. CASE job.to # Nobody
      <4>1. job.to \in Client
        BY <3>2, <3>4
      <4>2. PICK t \in Client : t = job.to
        BY <4>1
      <4>3. task[t] \in TaskState
        BY TaskType
      <4>4. Kind(t, [task[t] EXCEPT !.pc = "resolving", !.todo = job.conflicts])
        BY <3>2, <4>3 DEF TaskState
      <4>5. task' = [task EXCEPT ![t] = [task[t] EXCEPT !.pc = "resolving", !.todo = job.conflicts]]
        BY <3>1, <3>4, <4>2
      <4> HIDE DEF Kind
      <4> QED BY <1>1, <4>4, <4>5
    <3> QED BY <3>3, <3>4
  <2>3. CASE HubThrows
    <3>1. job # Absent /\ task' = IF job.to = Nobody THEN task ELSE [task EXCEPT ![job.to] = Idle]
      BY <2>3 DEF HubThrows, HubPersistFails
    <3> QED BY <3>1, IdleType DEF TypeInv, TaskTypes, Idle
  <2>4. CASE HubRestarts
    BY <2>4, IdleType DEF HubRestarts, TypeInv, TaskTypes, Idle
  <2> QED BY <1>5, <2>1, <2>2, <2>3, <2>4 DEF Hub
<1>6. ASSUME UNCHANGED vars
      PROVE  TaskTypes'
  BY <1>6 DEF vars, TypeInv, TaskTypes
<1> QED BY <1>2, <1>3, <1>4, <1>5, <1>6 DEF Next

(* What the steps make of a call. *)

LEMMA CallAlone ==
  ASSUME TypeInv, NEW t \in Client, Reconcile(t) \/ ReconcileFails(t), NEW u \in Client, u # t
  PROVE  task'[u] = task[u]
<1>1. task \in [Client -> TaskState]
  BY DEF TypeInv, TaskTypes
<1>2. Reconcile(t) => task'[u] = task[u]
  BY <1>1
  DEF Reconcile, StartPull, ServePull, LoadLocalRecords, ApplyPulled, PullDone, PushOutbox,
      LocalRecord, ApplyConflict, PushDone
<1>3. ReconcileFails(t) => task'[u] = task[u]
  BY <1>1
  DEF ReconcileFails, PullLost, PullDoneFails, PushOutboxFails, PushRequestLost, PushTimesOut,
      PushDoneFails
<1> QED BY <1>2, <1>3

LEMMA PullSteps ==
  ASSUME TypeInv, NEW t \in Client
  PROVE  /\ StartPull(t) =>
              /\ task[t].pc = "idle" /\ task'[t].pc = "pulling"
              /\ task'[t].next = cursor[Owner[t]] /\ task'[t].applied = task[t].applied
              /\ task'[t].todo = task[t].todo
         /\ ServePull(t) =>
              /\ task[t].pc = "pulling" /\ task'[t].pc = "pulled"
              /\ \E i \in 1..(Len(log) + 1) :
                   /\ HubPull(task[t].next, i) /\ task'[t].todo = ChangesFrom(i)
                   /\ task'[t].next = NextCursor(task[t].next, i)
              /\ task'[t].applied = task[t].applied
         /\ LoadLocalRecords(t) =>
              /\ task[t].pc = "pulled" /\ task'[t].pc = "applying"
              /\ \A k \in Key : task'[t].found[k] =
                   IF \E i \in DOMAIN task[t].todo : task[t].todo[i].key = k
                   THEN local[Owner[t]][k] ELSE Absent
              /\ task'[t].todo = task[t].todo /\ task'[t].next = task[t].next
              /\ task'[t].applied = task[t].applied
         /\ ApplyPulled(t) =>
              /\ task[t].pc = "applying" /\ task'[t].pc = "applying"
              /\ task[t].todo # <<>> /\ task'[t].todo = Tail(task[t].todo)
              /\ LET change == Head(task[t].todo)
                 IN  task'[t].applied = (task[t].applied
                       \/ Applied(change.rec, task[t].found[change.key]) # Absent)
              /\ task'[t].found = task[t].found /\ task'[t].next = task[t].next
         /\ PullDone(t) =>
              /\ task[t].pc = "applying" /\ task[t].todo = <<>> /\ task'[t].pc = "flushing"
              /\ task'[t].todo = <<>> /\ task'[t].next = 0 /\ ~task'[t].applied
              /\ task'[t].sent = {} /\ task'[t].found = NoRecords
<1>0. task \in [Client -> TaskState] /\ task[t] \in TaskState
  BY TaskType DEF TypeInv, TaskTypes
<1>1. ASSUME StartPull(t)
      PROVE  /\ task[t].pc = "idle" /\ task'[t].pc = "pulling"
             /\ task'[t].next = cursor[Owner[t]] /\ task'[t].applied = task[t].applied
             /\ task'[t].todo = task[t].todo
  BY <1>0, <1>1 DEF StartPull, TaskState
<1>2. ASSUME ServePull(t)
      PROVE  /\ task[t].pc = "pulling" /\ task'[t].pc = "pulled"
             /\ \E i \in 1..(Len(log) + 1) :
                  /\ HubPull(task[t].next, i) /\ task'[t].todo = ChangesFrom(i)
                  /\ task'[t].next = NextCursor(task[t].next, i)
             /\ task'[t].applied = task[t].applied
  <2>1. PICK i \in 1..(Len(log) + 1) :
          /\ HubPull(task[t].next, i)
          /\ task' = [task EXCEPT ![t].pc = "pulled", ![t].todo = ChangesFrom(i),
                                  ![t].next = NextCursor(@, i)]
    BY <1>2 DEF ServePull
  <2>2. /\ task'[t].pc = "pulled" /\ task'[t].todo = ChangesFrom(i)
        /\ task'[t].next = NextCursor(task[t].next, i) /\ task'[t].applied = task[t].applied
    BY <1>0, <2>1 DEF TaskState
  <2> QED BY <1>2, <2>1, <2>2 DEF ServePull
<1>3. ASSUME LoadLocalRecords(t)
      PROVE  /\ task[t].pc = "pulled" /\ task'[t].pc = "applying"
             /\ \A k \in Key : task'[t].found[k] =
                  IF \E i \in DOMAIN task[t].todo : task[t].todo[i].key = k
                  THEN local[Owner[t]][k] ELSE Absent
             /\ task'[t].todo = task[t].todo /\ task'[t].next = task[t].next
             /\ task'[t].applied = task[t].applied
  BY <1>0, <1>3 DEF LoadLocalRecords, TaskState
<1>4. ASSUME ApplyPulled(t)
      PROVE  /\ task[t].pc = "applying" /\ task'[t].pc = "applying"
             /\ task[t].todo # <<>> /\ task'[t].todo = Tail(task[t].todo)
             /\ LET change == Head(task[t].todo)
                IN  task'[t].applied = (task[t].applied
                      \/ Applied(change.rec, task[t].found[change.key]) # Absent)
             /\ task'[t].found = task[t].found /\ task'[t].next = task[t].next
  BY <1>0, <1>4 DEF ApplyPulled, TaskState
<1>5. ASSUME PullDone(t)
      PROVE  /\ task[t].pc = "applying" /\ task[t].todo = <<>> /\ task'[t].pc = "flushing"
             /\ task'[t].todo = <<>> /\ task'[t].next = 0 /\ ~task'[t].applied
             /\ task'[t].sent = {} /\ task'[t].found = NoRecords
  <2>1. task[t].pc = "applying" /\ task[t].todo = <<>> /\ task'[t] = [Idle EXCEPT !.pc = "flushing"]
    BY <1>0, <1>5 DEF PullDone
  <2> QED BY <2>1 DEF Idle
<1> QED BY <1>1, <1>2, <1>3, <1>4, <1>5

LEMMA PushSteps ==
  ASSUME TypeInv, NEW t \in Client
  PROVE  /\ PushOutbox(t) =>
              LET entries == outbox[Owner[t]] \cup enqueued[Owner[t]] IN
              /\ task[t].pc = "flushing"
              /\ entries = {} => task'[t] = Idle
              /\ entries # {} => /\ task'[t].pc = "pushing" /\ task'[t].sent = entries
                                 /\ task'[t].applied = task[t].applied
                                 /\ task'[t].next = task[t].next
                                 /\ task'[t].todo = task[t].todo
         /\ LocalRecord(t) =>
              /\ task[t].pc = "resolving" /\ task[t].todo # <<>> /\ task'[t].pc = "resolve"
              /\ LET k == Head(task[t].todo).key
                 IN  task'[t].found = [NoRecords EXCEPT ![k] = local[Owner[t]][k]]
              /\ task'[t].todo = task[t].todo /\ task'[t].next = task[t].next
              /\ task'[t].applied = task[t].applied /\ task'[t].sent = task[t].sent
         /\ ApplyConflict(t) =>
              /\ task[t].pc = "resolve" /\ task'[t].pc = "resolving"
              /\ task'[t].todo = Tail(task[t].todo) /\ task'[t].found = NoRecords
              /\ task'[t].applied /\ task'[t].sent = task[t].sent /\ task'[t].next = task[t].next
         /\ PushDone(t) =>
              task[t].pc = "resolving" /\ task[t].todo = <<>> /\ task'[t] = Idle
<1>0. task \in [Client -> TaskState] /\ task[t] \in TaskState
  BY TaskType DEF TypeInv, TaskTypes
<1>1. ASSUME PushOutbox(t)
      PROVE  LET entries == outbox[Owner[t]] \cup enqueued[Owner[t]] IN
             /\ task[t].pc = "flushing"
             /\ entries = {} => task'[t] = Idle
             /\ entries # {} => /\ task'[t].pc = "pushing" /\ task'[t].sent = entries
                                /\ task'[t].applied = task[t].applied
                                /\ task'[t].next = task[t].next
                                /\ task'[t].todo = task[t].todo
  BY <1>0, <1>1 DEF PushOutbox, TaskState
<1>2. ASSUME LocalRecord(t)
      PROVE  /\ task[t].pc = "resolving" /\ task[t].todo # <<>> /\ task'[t].pc = "resolve"
             /\ LET k == Head(task[t].todo).key
                IN  task'[t].found = [NoRecords EXCEPT ![k] = local[Owner[t]][k]]
             /\ task'[t].todo = task[t].todo /\ task'[t].next = task[t].next
             /\ task'[t].applied = task[t].applied /\ task'[t].sent = task[t].sent
  BY <1>0, <1>2 DEF LocalRecord, TaskState
<1>3. ASSUME ApplyConflict(t)
      PROVE  /\ task[t].pc = "resolve" /\ task'[t].pc = "resolving"
             /\ task'[t].todo = Tail(task[t].todo) /\ task'[t].found = NoRecords
             /\ task'[t].applied /\ task'[t].sent = task[t].sent /\ task'[t].next = task[t].next
  BY <1>0, <1>3 DEF ApplyConflict, TaskState
<1>4. ASSUME PushDone(t)
      PROVE  task[t].pc = "resolving" /\ task[t].todo = <<>> /\ task'[t] = Idle
  BY <1>0, <1>4 DEF PushDone
<1> QED BY <1>1, <1>2, <1>3, <1>4

LEMMA FailedSteps ==
  ASSUME TypeInv, NEW t \in Client, ReconcileFails(t)
  PROVE  /\ task'[t] = Idle /\ Idle.pc = "idle"
         /\ PullLost(t) => task[t].pc \in {"pulling", "pulled"}
         /\ PullDoneFails(t) => task[t].pc = "applying"
         /\ PushOutboxFails(t) => task[t].pc = "flushing"
         /\ PushDoneFails(t) => task[t].pc = "resolving"
         /\ PushTimesOut(t) => task[t].pc = "pushing" \/ (task[t].pc = "resolving" /\ ~task[t].applied)
<1>0. task \in [Client -> TaskState]
  BY DEF TypeInv, TaskTypes
<1>1. task' = [task EXCEPT ![t] = Idle]
  BY DEF ReconcileFails, PullLost, PullDoneFails, PushOutboxFails, PushRequestLost, PushTimesOut,
         PushDoneFails
<1> QED BY <1>0, <1>1
    DEF Idle, PullLost, PullDoneFails, PushOutboxFails, PushTimesOut, PushDoneFails

LEMMA IdleFields ==
  /\ Idle.pc = "idle" /\ Idle.todo = <<>> /\ Idle.next = 0 /\ Idle.found = NoRecords
  /\ ~Idle.applied /\ Idle.sent = {}
BY DEF Idle

---------------------------------------------------------------------------
(* What every step does to the stores. *)

LEMMA TypeParts ==
  ASSUME TypeOK
  PROVE  StoreTypes /\ CachedVersions /\ wall \in [Replica -> Nat] /\ HubTypeOK
BY DEF TypeOK, StoreTypes, CachedVersions

LEMMA DropsType ==
  ASSUME StoreTypes, NEW r \in Replica, Drops(r), versions' = versions
  PROVE  StoreTypes'
BY DropType DEF Drops, StoreTypes

LEMMA RestsType ==
  ASSUME StoreTypes, Rests, versions' = versions
  PROVE  StoreTypes'
BY DEF Rests, StoreTypes

FailsToPersist(r) == Drops(r) /\ localFaults < MaxLocalFaults /\ localFaults' = localFaults + 1

LEMMA AppEffect ==
  ASSUME TypeOK, NEW r \in Replica, Application(r)
  PROVE  /\ \/ \E k \in Key : \E rec : Queues(r, k, rec) \/ Patches(r, k, rec)
            \/ Flushes(r, {}) \/ Rests
            \/ FailsToPersist(r)
         /\ StoreTypes'
         /\ patching' \in [Replica -> [key : Key, rec : Record] \cup {Absent}]
         /\ FailsToPersist(r) \/ localFaults' = localFaults
<1>0. StoreTypes /\ CachedVersions /\ wall \in [Replica -> Nat] /\ localFaults \in Nat
  BY TypeParts DEF TypeOK
<1>p. patching \in [Replica -> [key : Key, rec : Record] \cup {Absent}]
  BY DEF TypeOK
<1>1. ASSUME NEW k \in Key, UserSave(r, k) \/ UserRemove(r, k)
      PROVE  (\E rec : Queues(r, k, rec)) /\ StoreTypes' /\ UNCHANGED <<patching, localFaults>>
  <2>1. (\E rec : Queues(r, k, rec)) /\ CachedVersions'
    BY <1>0, <1>1, UserSaveQueues, UserRemoveQueues
  <2>2. UserSave(r, k) => UNCHANGED <<patching, localFaults>>
    BY DEF UserSave, Save, SaveAndEnqueue
  <2>3. UserRemove(r, k) => UNCHANGED <<patching, localFaults>>
    BY DEF UserRemove, SaveAndEnqueue
  <2> QED BY <1>0, <1>1, <2>1, <2>2, <2>3, QueuesType
<1>2. ASSUME NEW k \in Key, PatchRead(r, k)
      PROVE  /\ Rests /\ StoreTypes' /\ localFaults' = localFaults
             /\ patching' \in [Replica -> [key : Key, rec : Record] \cup {Absent}]
  <2>1. Rests /\ versions' = versions /\ localFaults' = localFaults
    BY <1>2 DEF PatchRead, Rests, boundVars
  <2>2. local[r][k] \in Record
    BY <1>0, <1>2 DEF PatchRead, Live, StoreTypes
  <2>3. patching' = [patching EXCEPT ![r] = [key |-> k, rec |-> local[r][k]]]
    BY <1>2 DEF PatchRead
  <2> QED BY <1>0, <1>p, <2>1, <2>2, <2>3, RestsType
<1>3. ASSUME PatchWrite(r)
      PROVE  /\ (\E k \in Key : \E rec : Patches(r, k, rec)) /\ StoreTypes' /\ localFaults' = localFaults
             /\ patching' \in [Replica -> [key : Key, rec : Record] \cup {Absent}]
  <2>1. (\E k \in Key : \E rec : Patches(r, k, rec)) /\ CachedVersions'
    BY <1>0, <1>p, <1>3, PatchWritePatches
  <2>2. patching' = [patching EXCEPT ![r] = Absent] /\ localFaults' = localFaults
    BY <1>3 DEF PatchWrite
  <2> QED BY <1>0, <1>p, <2>1, <2>2, PatchesType
<1>4. ASSUME UserPersist(r)
      PROVE  Flushes(r, {}) /\ StoreTypes' /\ UNCHANGED <<patching, localFaults>>
  <2>1. FlushAnd(r, {}) /\ UNCHANGED <<clk, versions, edits, patching, localFaults>>
    BY <1>4 DEF UserPersist, Flush, boundVars
  <2> QED BY <1>0, <2>1, FlushType DEF Flushes
<1>5. ASSUME UserPersistFails(r)
      PROVE  FailsToPersist(r) /\ StoreTypes' /\ patching' = patching
  BY <1>0, <1>5, DropsType DEF UserPersistFails, LocalPersistFails, Drops, FailsToPersist
<1> QED BY <1>1, <1>2, <1>3, <1>4, <1>5, <1>p DEF Application

(* The steps of a reconcile() call, and of the hub, that touch the stores. *)
LEMMA TaskEffect ==
  ASSUME TypeInv, NEW t \in Client, Reconcile(t) \/ ReconcileFails(t)
  PROVE  /\ StartPull(t) \/ ServePull(t) \/ LoadLocalRecords(t) \/ LocalRecord(t)
              \/ PullLost(t) \/ PushRequestLost(t) \/ PushTimesOut(t) => Rests
         /\ ApplyPulled(t) \/ ApplyConflict(t) => Applies(t) /\ task[t].todo # <<>>
         /\ PullDone(t) => IF task[t].applied THEN Flushes(Owner[t], {}) ELSE Rests
         /\ PushOutbox(t) => Flushes(Owner[t], {})
         /\ PushDone(t) => Flushes(Owner[t], task[t].sent)
         /\ PullDoneFails(t) \/ PushOutboxFails(t) \/ PushDoneFails(t) => FailsToPersist(Owner[t])
         /\ Reconcile(t) \/ PullLost(t) \/ PushRequestLost(t) \/ PushTimesOut(t)
              => localFaults' = localFaults
         /\ StoreTypes' /\ UNCHANGED <<wall, patching, crashes>>
         /\ cursor' \in [Replica -> Nat]
<1>0. /\ StoreTypes /\ CachedVersions /\ wall \in [Replica -> Nat] /\ localFaults \in Nat
      /\ Owner[t] \in Replica /\ cursor \in [Replica -> Nat] /\ task[t].next \in Nat
  BY TypeParts, TaskType DEF TypeOK, TypeInv
<1>1. ASSUME StartPull(t) \/ ServePull(t) \/ LoadLocalRecords(t) \/ LocalRecord(t)
               \/ PullLost(t) \/ PushRequestLost(t) \/ PushTimesOut(t)
      PROVE  Rests /\ UNCHANGED <<versions, localFaults, wall, patching, crashes, cursor>>
  <2>1. UNCHANGED <<replicaVars, committed, edits, localFaults, crashes>>
    BY <1>1
    DEF StartPull, ServePull, LoadLocalRecords, LocalRecord, PullLost, PushRequestLost,
        PushTimesOut, boundVars
  <2> QED BY <2>1 DEF replicaVars, Rests
<1>2. ASSUME ApplyPulled(t) \/ ApplyConflict(t)
      PROVE  /\ Applies(t) /\ task[t].todo # <<>> /\ StoreTypes'
             /\ UNCHANGED <<localFaults, wall, patching, crashes, cursor>>
  <2>1. /\ ApplyIncoming(Owner[t], Head(task[t].todo), task[t].found[Head(task[t].todo).key])
        /\ UNCHANGED <<wall, cursor, local, outbox, enqueued, patching, committed, boundVars>>
        /\ task[t].todo # <<>>
    BY <1>2, TaskType DEF ApplyPulled, ApplyConflict
  <2>2. Applies(t) /\ StoreTypes'
    BY <1>0, <2>1, TaskType, AppliesType DEF boundVars
  <2> QED BY <2>1, <2>2 DEF boundVars
<1>3. ASSUME PullDone(t)
      PROVE  /\ IF task[t].applied THEN Flushes(Owner[t], {}) ELSE Rests
             /\ UNCHANGED <<versions, localFaults, wall, patching, crashes>>
             /\ cursor' \in [Replica -> Nat]
  BY <1>0, <1>3 DEF PullDone, Flush, Flushes, Rests, boundVars
<1>4. ASSUME PushOutbox(t)
      PROVE  Flushes(Owner[t], {}) /\ UNCHANGED <<versions, localFaults, wall, patching, crashes, cursor>>
  BY <1>4 DEF PushOutbox, Flush, Flushes, boundVars
<1>5. ASSUME PushDone(t)
      PROVE  Flushes(Owner[t], task[t].sent)
             /\ UNCHANGED <<versions, localFaults, wall, patching, crashes, cursor>>
  BY <1>5 DEF PushDone, Flushes, boundVars
<1>6. ASSUME PullDoneFails(t) \/ PushOutboxFails(t) \/ PushDoneFails(t)
      PROVE  /\ FailsToPersist(Owner[t]) /\ UNCHANGED <<versions, wall, patching, crashes>>
             /\ cursor' \in [Replica -> Nat]
  BY <1>0, <1>6
  DEF PullDoneFails, PushOutboxFails, PushDoneFails, LocalPersistFails, FailsToPersist, Drops
<1>7. ASSUME Flushes(Owner[t], {}) \/ Flushes(Owner[t], task[t].sent), versions' = versions
      PROVE  StoreTypes'
  BY <1>0, <1>7, FlushType DEF Flushes
<1>8. ASSUME FailsToPersist(Owner[t]), versions' = versions
      PROVE  StoreTypes'
  BY <1>0, <1>8, DropsType DEF FailsToPersist
<1>9. ASSUME Rests, versions' = versions
      PROVE  StoreTypes'
  BY <1>0, <1>9, RestsType
<1> QED BY <1>0, <1>1, <1>2, <1>3, <1>4, <1>5, <1>6, <1>7, <1>8, <1>9 DEF Reconcile, ReconcileFails

LEMMA HubEffect ==
  ASSUME Hub
  PROVE  Rests /\ UNCHANGED <<versions, wall, cursor, patching, lost, localFaults, crashes>>
<1>1. UNCHANGED <<replicaVars, committed, boundVars>>
  BY DEF Hub, HubServes, HubReplies, HubThrows, HubRestarts
<1> QED BY <1>1 DEF replicaVars, boundVars, Rests

LEMMA StepType ==
  ASSUME TypeInv, [Next]_vars
  PROVE  TypeInv'
<1> DEFINE Others == /\ wall' \in [Replica -> Nat] /\ cursor' \in [Replica -> Nat]
                     /\ patching' \in [Replica -> [key : Key, rec : Record] \cup {Absent}]
                     /\ lost' \in Nat /\ localFaults' \in Nat /\ crashes' \in Nat
<1>0. /\ StoreTypes /\ CachedVersions /\ TypeOK
      /\ wall \in [Replica -> Nat] /\ cursor \in [Replica -> Nat]
      /\ patching \in [Replica -> [key : Key, rec : Record] \cup {Absent}]
      /\ lost \in Nat /\ localFaults \in Nat /\ crashes \in Nat
  BY TypeParts DEF TypeInv, TypeOK
<1>1. ASSUME NEW r \in Replica, Tick(r)
      PROVE  StoreTypes' /\ Others
  BY <1>0, <1>1, RestsType DEF Tick, Rests, boundVars
<1>2. ASSUME NEW r \in Replica, Application(r)
      PROVE  StoreTypes' /\ Others
  BY <1>0, <1>2, AppEffect, AppLeaves DEF FailsToPersist
<1>3. ASSUME NEW r \in Replica, Crash(r)
      PROVE  StoreTypes' /\ Others
  <2>1. /\ crashes' = crashes + 1 /\ wall' = [wall EXCEPT ![r] = @ + 1]
        /\ clk' = [clk EXCEPT ![r] = ZeroClock] /\ cursor' = [cursor EXCEPT ![r] = 0]
        /\ versions' = [versions EXCEPT ![r] = NoRecords]
        /\ patching' = [patching EXCEPT ![r] = Absent]
        /\ DropQueue(r)
        /\ local' \in {local, [local EXCEPT ![r] = NoRecords]}
        /\ outbox' \in {outbox, [outbox EXCEPT ![r] = {}]}
        /\ UNCHANGED <<committed, edits, lost, localFaults>>
    BY <1>3 DEF Crash
  <2>2. ZeroClock \in Clock /\ NoRecords \in [Key -> FieldStamps \cup {Absent}]
    BY DEF ZeroClock, Clock, NoRecords
  <2>3. clk' \in [Replica -> Clock] /\ CachedVersions'
    BY <1>0, <2>1, <2>2 DEF StoreTypes, CachedVersions
  <2>4. local' \in [Replica -> [Key -> Record \cup {Absent}]] /\ outbox' \in [Replica -> SUBSET Entry]
    <3>1. [local EXCEPT ![r] = NoRecords] \in [Replica -> [Key -> Record \cup {Absent}]]
      BY <1>0, NoRecordsType DEF StoreTypes
    <3>2. [outbox EXCEPT ![r] = {}] \in [Replica -> SUBSET Entry]
      BY <1>0 DEF StoreTypes
    <3> QED BY <1>0, <2>1, <3>1, <3>2 DEF StoreTypes
  <2>5. StoreTypes'
    BY <1>0, <2>1, <2>3, <2>4, DropType DEF StoreTypes, CachedVersions
  <2>6. Others
    BY <1>0, <2>1
  <2> QED BY <2>5, <2>6
<1>4. ASSUME NEW t \in Client, Reconcile(t) \/ ReconcileFails(t)
      PROVE  StoreTypes' /\ Others
  <2>1. localFaults' \in Nat
    BY <1>0, <1>4, TaskEffect DEF FailsToPersist, ReconcileFails
  <2>2. lost' \in Nat
    <3>1. Reconcile(t) => lost' = lost
      BY DEF Reconcile, StartPull, ServePull, LoadLocalRecords, ApplyPulled, PullDone,
          PushOutbox, LocalRecord, ApplyConflict, PushDone, boundVars
    <3>2. PullLost(t) \/ PushRequestLost(t) \/ PushTimesOut(t) => lost' = lost + 1
      BY DEF PullLost, PushRequestLost, PushTimesOut
    <3>3. PullDoneFails(t) \/ PushOutboxFails(t) \/ PushDoneFails(t) => lost' = lost
      BY DEF PullDoneFails, PushOutboxFails, PushDoneFails
    <3> QED BY <1>0, <1>4, <3>1, <3>2, <3>3 DEF ReconcileFails
  <2> QED BY <1>0, <1>4, <2>1, <2>2, TaskEffect
<1>5. ASSUME Hub
      PROVE  StoreTypes' /\ Others
  BY <1>0, <1>5, HubEffect, RestsType
<1>6. ASSUME UNCHANGED vars
      PROVE  StoreTypes' /\ Others
  BY <1>0, <1>6, RestsType DEF vars, replicaVars, boundVars, Rests
<1>7. StoreTypes' /\ Others
  BY <1>1, <1>2, <1>3, <1>4, <1>5, <1>6 DEF Next
<1>8. HubTypeOK' /\ TaskTypes'
  BY <1>0, HubPart, StepTasks
<1> QED BY <1>7, <1>8 DEF TypeInv, TypeOK, StoreTypes, TaskTypes

(* Every value a replica, a call or the hub holds keeps its type. *)
LEMMA TypeInvariant == Spec => []TypeInv
<1>1. Init => TypeInv
  <2> SUFFICES ASSUME Init PROVE TypeInv
    OBVIOUS
  <2>1. task \in [Client -> TaskState] /\ \A t \in Client : task[t].pc = "idle"
    BY IdleType DEF Init, Idle
  <2>2. ZeroClock \in Clock
    BY DEF ZeroClock, Clock
  <2>3. HubTypeOK
    BY EmptySeq DEF Init, HubInit, HubTypeOK
  <2> QED BY <2>1, <2>2, <2>3, NoRecordsType DEF Init, TypeInv, TypeOK, TaskTypes, NoRecords
<1> QED BY <1>1, StepType, PTL DEF Spec

(* Whatever save(), remove(), persist(), reconcile() (SyncBackend.ts), the hub,
   the transport and restarts do, every store, queue, message and cursor keeps
   the shape the code gives it. *)
THEOREM SyncTypes == Spec => []TypeOK
BY TypeInvariant, PTL DEF TypeInv

---------------------------------------------------------------------------
(* A push.  At most one request of a call is on its way or being served, and
   only while the call waits for it; what the call will drop from the outbox
   when it is answered is in the request, or already served. *)

Reached(rows, c) ==
  \E i \in DOMAIN rows : rows[i].ch.key = c.key /\ ~Before(rows[i].ch.rec.ver, c.rec.ver)

OneRequest ==
  /\ \A p, q \in inbox : p.to = q.to /\ p.to # Nobody => p = q
  /\ \A q \in inbox : q.to # Nobody =>
       task[q.to].pc = "pushing" /\ (job # Absent => job.to # q.to)
  /\ job # Absent /\ job.to # Nobody => task[job.to].pc = "pushing"

Holding(batch) == {batch[i] : i \in DOMAIN batch}

SentIsCarried ==
  /\ \A q \in inbox : q.to # Nobody => \A e \in task[q.to].sent : e.ch \in Holding(q.batch)
  /\ job # Absent /\ job.to # Nobody =>
       \A e \in task[job.to].sent : e.ch \in Holding(job.rest) \/ Reached(AllRows, e.ch)
  /\ \A t \in Client : task[t].pc \in {"resolving", "resolve"} =>
       \A e \in task[t].sent : Reached(log, e.ch)

PushInv == OneRequest /\ SentIsCarried

(* A step that leaves pushes under way alone. *)
Quiet ==
  /\ UNCHANGED <<log, inbox, job>>
  /\ \A t \in Client :
       /\ task[t].pc = "pushing" => task'[t] = task[t]
       /\ task'[t].pc = "pushing" => task[t].pc = "pushing"
       /\ task'[t].pc \in {"resolving", "resolve"} =>
            task[t].pc \in {"resolving", "resolve"} /\ task'[t].sent = task[t].sent

LEMMA RequestType ==
  ASSUME HubTypeOK
  PROVE  /\ \A q \in inbox : q.to \in Client \cup {Nobody} /\ q.batch \in Seq(Change)
         /\ job # Absent => job.to \in Client \cup {Nobody} /\ job.rest \in Seq(Change)
BY JobType DEF HubTypeOK, Request

LEMMA QuietKeeps ==
  ASSUME TypeInv, PushInv, Quiet
  PROVE  PushInv'
<1>1. AllRows' = AllRows
  BY DEF Quiet, AllRows, JobRows
<1>2. /\ \A q \in inbox : q.to # Nobody => q.to \in Client /\ task'[q.to] = task[q.to]
      /\ job # Absent /\ job.to # Nobody => job.to \in Client /\ task'[job.to] = task[job.to]
  BY RequestType DEF TypeInv, TypeOK, PushInv, OneRequest, Quiet
<1>3. OneRequest'
  BY <1>2 DEF PushInv, OneRequest, Quiet
<1>4. SentIsCarried'
  BY <1>1, <1>2 DEF PushInv, SentIsCarried, Quiet
<1> QED BY <1>3, <1>4 DEF PushInv

LEMMA CallIsQuiet ==
  ASSUME TypeInv, NEW t \in Client,
         \/ StartPull(t) \/ ServePull(t) \/ LoadLocalRecords(t) \/ ApplyPulled(t) \/ PullDone(t)
         \/ LocalRecord(t) \/ ApplyConflict(t) \/ PushDone(t)
         \/ PullLost(t) \/ PullDoneFails(t) \/ PushOutboxFails(t) \/ PushDoneFails(t)
         \/ PushOutbox(t) /\ outbox[Owner[t]] \cup enqueued[Owner[t]] = {}
  PROVE  Quiet
<1>1. UNCHANGED <<log, inbox, job>>
  BY DEF StartPull, ServePull, HubPull, LoadLocalRecords, ApplyPulled, PullDone, LocalRecord,
         ApplyConflict, PushDone, PullLost, PullDoneFails, PushOutboxFails, PushDoneFails,
         PushOutbox, hubVars
<1>2. \A u \in Client : u # t => task'[u] = task[u]
  BY CallAlone DEF Reconcile, ReconcileFails
<1>3. /\ task[t].pc # "pushing" /\ task'[t].pc # "pushing"
      /\ task'[t].pc \in {"resolving", "resolve"} =>
           task[t].pc \in {"resolving", "resolve"} /\ task'[t].sent = task[t].sent
  BY PullSteps, PushSteps, FailedSteps, IdleFields DEF ReconcileFails
<1> QED BY <1>1, <1>2, <1>3 DEF Quiet

LEMMA SendKeeps ==
  ASSUME TypeInv, PushInv, NEW t \in Client, PushOutbox(t),
         outbox[Owner[t]] \cup enqueued[Owner[t]] # {}
  PROVE  PushInv'
<1> DEFINE entries == outbox[Owner[t]] \cup enqueued[Owner[t]]
<1>1. PICK read \in OutboxReads(entries) :
        inbox' = inbox \cup {[to |-> t, batch |-> [i \in DOMAIN read |-> read[i].ch]]}
  BY DEF PushOutbox
<1> DEFINE new == [to |-> t, batch |-> [i \in DOMAIN read |-> read[i].ch]]
<1>2. UNCHANGED <<log, job>> /\ AllRows' = AllRows
  BY DEF PushOutbox, AllRows, JobRows
<1>3. task[t].pc = "flushing" /\ task'[t].pc = "pushing" /\ task'[t].sent = entries
  BY PushSteps
<1>4. \A u \in Client : u # t => task'[u] = task[u]
  BY CallAlone DEF Reconcile
<1>5. /\ \A q \in inbox : q.to \in Client \cup {Nobody} /\ q.to # t
      /\ job # Absent => job.to \in Client \cup {Nobody} /\ job.to # t
  BY <1>3, RequestType DEF TypeInv, TypeOK, PushInv, OneRequest
<1>6. \A e \in entries : e.ch \in Holding(new.batch)
  <2>1. entries \in SUBSET Entry
    BY DEF TypeInv, TypeOK
  <2>2. \A e \in entries : \E i \in DOMAIN read : read[i] = e
    BY DEF OutboxReads
  <2> QED BY <2>2 DEF Holding
<1>7. inbox' = inbox \cup {new} /\ new.to = t
  BY <1>1
<1> HIDE DEF entries, new
<1>8. OneRequest'
  BY <1>2, <1>3, <1>4, <1>5, <1>7 DEF PushInv, OneRequest
<1>9. SentIsCarried'
  BY <1>2, <1>3, <1>4, <1>5, <1>6, <1>7 DEF PushInv, SentIsCarried
<1> QED BY <1>8, <1>9 DEF PushInv

(* What a row of the batch does for a change: appended, the change is there;
   rejected, what is there is no older. *)
LEMMA ServesKeep ==
  ASSUME TypeInv, PushInv, HubServes
  PROVE  PushInv'
<1>0. HubTypeOK /\ task' = task
  BY DEF TypeInv, TypeOK, HubServes
<1>r. /\ \A q \in inbox : q.to \in Client \cup {Nobody}
      /\ job # Absent => job.to \in Client \cup {Nobody} /\ job.rest \in Seq(Change)
  BY <1>0, RequestType
<1>1. CASE HubTake
  <2>1. PICK req \in inbox :
          /\ inbox' = inbox \ {req}
          /\ job' = [to |-> req.to, rest |-> req.batch, rows |-> <<>>, conflicts |-> <<>>]
    BY <1>1 DEF HubTake
  <2>2. job = Absent /\ log' = log /\ job'.to = req.to /\ job'.rest = req.batch /\ job' # Absent
    <3>1. job = Absent /\ log' = log /\ job'.to = req.to /\ job'.rest = req.batch
      BY <1>1, <2>1 DEF HubTake
    <3>2. req \in [to : Client \cup {Nobody}, batch : Seq(Change)]
      BY <1>0 DEF HubTypeOK, Request
    <3>3. job' \in Job
      BY <2>1, <3>2, EmptySeq DEF Job
    <3> QED BY <3>1, <3>3
  <2>3. OneRequest'
    BY <1>0, <2>1, <2>2 DEF PushInv, OneRequest
  <2>4. SentIsCarried'
    BY <1>0, <2>1, <2>2 DEF PushInv, SentIsCarried
  <2> QED BY <2>3, <2>4 DEF PushInv
<1>2. ASSUME job # Absent, job.rest # <<>>, job' # Absent, job'.to = job.to,
             job'.rest = Tail(job.rest), inbox' = inbox, log' = log,
             \A i \in DOMAIN AllRows : i \in DOMAIN AllRows' /\ AllRows'[i] = AllRows[i],
             Reached(AllRows', Head(job.rest))
      PROVE  PushInv'
  <2>1. OneRequest'
    BY <1>0, <1>2 DEF PushInv, OneRequest
  <2>2. ASSUME NEW c \in Holding(job.rest)
        PROVE  c \in Holding(job'.rest) \/ Reached(AllRows', c)
    <3>1. PICK i \in DOMAIN job.rest : c = job.rest[i]
      BY DEF Holding
    <3>2. CASE i = 1
      BY <1>r, <1>2, <3>1, <3>2
    <3>3. CASE i # 1
      <4>1. i - 1 \in DOMAIN Tail(job.rest) /\ Tail(job.rest)[i - 1] = c
        BY <1>r, <1>2, <3>1, <3>3
      <4> QED BY <1>2, <4>1 DEF Holding
    <3> QED BY <3>2, <3>3
  <2>3. \A c : Reached(AllRows, c) => Reached(AllRows', c)
    BY <1>2 DEF Reached
  <2>4. SentIsCarried'
    BY <1>0, <1>2, <2>2, <2>3 DEF PushInv, SentIsCarried
  <2> QED BY <2>1, <2>4 DEF PushInv
<1>3. CASE HubAppend
  <2>1. /\ job # Absent /\ job.rest # <<>> /\ job' \in Job /\ job'.rest = Tail(job.rest)
        /\ NewRow \in Row /\ NewRow.ch = Head(job.rest)
    BY <1>0, <1>3, AppendType
  <2>2. job' # Absent /\ job'.to = job.to /\ inbox' = inbox /\ log' = log
    BY <1>0, <1>3, <2>1, JobType DEF HubAppend, Job
  <2>3. /\ AllRows' = Append(AllRows, NewRow) /\ AllRows \in Seq(Row)
    BY <1>0, <1>3, StepRows, RowsType DEF Extended
  <2>4. /\ \A i \in DOMAIN AllRows : i \in DOMAIN AllRows' /\ AllRows'[i] = AllRows[i]
        /\ Len(AllRows) + 1 \in DOMAIN AllRows' /\ AllRows'[Len(AllRows) + 1] = NewRow
    BY <2>1, <2>3
  <2>5. Head(job.rest).rec.ver \in Stamp
    <3>1. Head(job.rest) \in Change
      BY <1>r, <2>1
    <3> QED BY <3>1, ChangeVersion
  <2>6. ~Before(Head(job.rest).rec.ver, Head(job.rest).rec.ver)
    BY <2>5, BeforeIsOrder
  <2>7. Reached(AllRows', Head(job.rest))
    BY <2>1, <2>4, <2>6 DEF Reached
  <2> QED BY <1>2, <2>1, <2>2, <2>4, <2>7
<1>4. CASE HubReject
  <2> DEFINE change == Head(job.rest)
             current == Latest(Visible, change.key)
  <2>1. /\ job # Absent /\ job.rest # <<>> /\ job' \in Job /\ job'.rest = Tail(job.rest)
    BY <1>0, <1>4, RejectType
  <2>2. job' # Absent /\ job'.to = job.to /\ inbox' = inbox /\ log' = log
    BY <1>0, <1>4, <2>1, JobType DEF HubReject, Job
  <2>3. AllRows' = AllRows
    BY <1>0, <1>4, StepRows DEF Kept
  <2>4. ~Accepted(change)
    BY <1>4 DEF HubReject
  <2>5. Visible \in Seq(Row) /\ Visible = (IF Durable THEN log ELSE AllRows)
    BY <1>0, <2>1, VisibleType
  <2>6. current # Absent /\ ~Before(current.rec.ver, change.rec.ver)
    BY <2>4 DEF Accepted
  <2>7. current \in ChangesOf(Visible, change.key)
    BY <2>5, <2>6, LatestIsNewest, LatestOfNone
  <2>8. PICK i \in DOMAIN Visible : Visible[i].ch = current /\ Visible[i].ch.key = change.key
    BY <2>7 DEF ChangesOf
  <2>9. i \in DOMAIN AllRows /\ AllRows[i] = Visible[i]
    BY <1>0, <2>5, <2>8, LogIsPrefix, RowsType
  <2> HIDE DEF current
  <2>10. Reached(AllRows', change)
    BY <2>3, <2>6, <2>8, <2>9 DEF Reached
  <2> QED BY <1>2, <2>1, <2>2, <2>3, <2>10
<1> QED BY <1>1, <1>3, <1>4 DEF HubServes

(* A push ends: its caller is answered, or not. *)
LEMMA RepliesKeep ==
  ASSUME TypeInv, PushInv, HubReplies
  PROVE  PushInv'
<1>1. /\ HubTypeOK /\ task \in [Client -> TaskState] /\ job # Absent /\ job.rest = <<>>
      /\ log' = log \o job.rows /\ job' = Absent /\ inbox' = inbox
      /\ task' = IF job.to = Nobody THEN task
                 ELSE [task EXCEPT ![job.to].pc = "resolving", ![job.to].todo = job.conflicts]
  BY DEF TypeInv, TypeOK, HubReplies, HubCommit
<1>2. log' = AllRows
  BY <1>1 DEF AllRows, JobRows
<1>3. \A u \in Client : u # job.to => task'[u] = task[u]
  BY <1>1
<1>4. job.to # Nobody =>
        /\ job.to \in Client /\ task'[job.to].sent = task[job.to].sent
        /\ task'[job.to].pc = "resolving"
  BY <1>1, RequestType DEF TaskState
<1>5. \A q \in inbox : q.to # Nobody => q.to \in Client /\ q.to # job.to
  BY <1>1, RequestType DEF PushInv, OneRequest
<1>6. OneRequest'
  BY <1>1, <1>3, <1>5 DEF PushInv, OneRequest
<1>7. \A c : Reached(log, c) => Reached(log', c)
  BY <1>1, <1>2, LogIsPrefix, RowsType DEF Reached
<1>8. job.to # Nobody => \A e \in task[job.to].sent : Reached(log', e.ch)
  BY <1>1, <1>2 DEF PushInv, SentIsCarried, Holding
<1>9. SentIsCarried'
  BY <1>1, <1>3, <1>4, <1>5, <1>7, <1>8 DEF PushInv, SentIsCarried
<1> QED BY <1>6, <1>9 DEF PushInv

LEMMA EndsKeep ==
  ASSUME TypeInv, PushInv, NEW who, log' = log, inbox' \subseteq inbox, job' = Absent,
         \A t \in Client : task'[t] = IF t \in who THEN Idle ELSE task[t],
         \A q \in inbox' : q.to \notin who
  PROVE  PushInv'
<1>1. \A q \in inbox : q.to # Nobody => q.to \in Client
  BY RequestType DEF TypeInv, TypeOK
<1>2. OneRequest' /\ SentIsCarried'
  BY <1>1, IdleFields DEF PushInv, OneRequest, SentIsCarried
<1> QED BY <1>2 DEF PushInv

LEMMA HubEndsKeep ==
  ASSUME TypeInv, PushInv, HubThrows \/ HubRestarts
  PROVE  PushInv'
<1>0. HubTypeOK /\ task \in [Client -> TaskState]
  BY DEF TypeInv, TypeOK
<1>1. CASE HubThrows
  <2>1. /\ job # Absent /\ job' = Absent /\ inbox' = inbox /\ log' = log
        /\ task' = IF job.to = Nobody THEN task ELSE [task EXCEPT ![job.to] = Idle]
    BY <1>1 DEF HubThrows, HubPersistFails
  <2> DEFINE who == {job.to} \ {Nobody}
  <2>2. \A t \in Client : task'[t] = IF t \in who THEN Idle ELSE task[t]
    BY <1>0, <2>1
  <2>3. \A q \in inbox : q.to \notin who
    BY <2>1 DEF PushInv, OneRequest
  <2> HIDE DEF who
  <2> QED BY <2>1, <2>2, <2>3, EndsKeep
<1>2. CASE HubRestarts
  <2>1. /\ job' = Absent /\ inbox' = {} /\ log' = log
        /\ task' = [t \in Client |-> IF task[t].pc \in {"pulling", "pushing"} THEN Idle ELSE task[t]]
    BY <1>2 DEF HubRestarts, HubRestart
  <2> DEFINE who == {t \in Client : task[t].pc \in {"pulling", "pushing"}}
  <2>2. \A t \in Client : task'[t] = IF t \in who THEN Idle ELSE task[t]
    BY <2>1
  <2> HIDE DEF who
  <2> QED BY <2>1, <2>2, EndsKeep
<1> QED BY <1>1, <1>2

(* Callers that give up are answered by nobody. *)
LEMMA ForgetKeeps ==
  ASSUME TypeInv, PushInv, NEW who \in SUBSET Client, Forget(who),
         \A t \in Client : task'[t] = IF t \in who THEN Idle ELSE task[t]
  PROVE  PushInv'
<1>0. HubTypeOK /\ Nobody \notin who
  BY DEF TypeInv, TypeOK
<1>1. /\ inbox' = {[req EXCEPT !.to = IF @ \in who THEN Nobody ELSE @] : req \in inbox}
      /\ job' = IF job # Absent /\ job.to \in who THEN [job EXCEPT !.to = Nobody] ELSE job
      /\ log' = log
  BY DEF Forget
<1>2. /\ AllRows' = AllRows /\ (job' = Absent <=> job = Absent)
  BY <1>0, <1>1, ForgetType DEF AllRows, RowsAlone
<1>3. ASSUME NEW q \in inbox', q.to # Nobody
      PROVE  q \in inbox /\ q.to \in Client /\ q.to \notin who
  <2>1. PICK p \in inbox : q = [p EXCEPT !.to = IF @ \in who THEN Nobody ELSE @]
    BY <1>1
  <2>2. p \in [to : Client \cup {Nobody}, batch : Seq(Change)]
    BY <1>0 DEF HubTypeOK, Request
  <2>3. q.to = IF p.to \in who THEN Nobody ELSE p.to
    BY <2>1, <2>2
  <2>4. p.to \notin who /\ q.to = p.to
    BY <1>3, <2>3
  <2>5. q = p
    BY <2>1, <2>2, <2>4
  <2> QED BY <1>3, <2>2, <2>4, <2>5
<1>4. ASSUME job' # Absent, job'.to # Nobody
      PROVE  job' = job /\ job.to \in Client /\ job.to \notin who
  BY <1>0, <1>1, <1>2, <1>4, JobType DEF Job
<1>5. \A t \in Client : t \notin who => task'[t] = task[t]
  OBVIOUS
<1>6. OneRequest'
  <2>1. \A p, q \in inbox' : p.to = q.to /\ p.to # Nobody => p = q
    BY <1>3 DEF PushInv, OneRequest
  <2>2. ASSUME NEW q \in inbox', q.to # Nobody
        PROVE  task'[q.to].pc = "pushing" /\ (job' # Absent => job'.to # q.to)
    <3>1. q \in inbox /\ q.to \in Client /\ task'[q.to] = task[q.to]
      BY <1>3, <1>5, <2>2
    <3> QED BY <1>2, <1>4, <2>2, <3>1 DEF PushInv, OneRequest
  <2>3. job' # Absent /\ job'.to # Nobody => task'[job'.to].pc = "pushing"
    BY <1>2, <1>4, <1>5 DEF PushInv, OneRequest
  <2> QED BY <2>1, <2>2, <2>3 DEF OneRequest
<1>7. SentIsCarried'
  <2>1. \A q \in inbox' : q.to # Nobody => \A e \in task'[q.to].sent : e.ch \in Holding(q.batch)
    BY <1>3, <1>5 DEF PushInv, SentIsCarried
  <2>2. job' # Absent /\ job'.to # Nobody =>
          \A e \in task'[job'.to].sent : e.ch \in Holding(job'.rest) \/ Reached(AllRows', e.ch)
    BY <1>2, <1>4, <1>5 DEF PushInv, SentIsCarried
  <2>3. \A t \in Client : task'[t].pc \in {"resolving", "resolve"} =>
          \A e \in task'[t].sent : Reached(log', e.ch)
    BY <1>1, <1>5, IdleFields DEF PushInv, SentIsCarried
  <2> QED BY <2>1, <2>2, <2>3 DEF SentIsCarried
<1> QED BY <1>6, <1>7 DEF PushInv

LEMMA LostKeeps ==
  ASSUME TypeInv, PushInv, NEW t \in Client, PushRequestLost(t)
  PROVE  PushInv'
<1>0. HubTypeOK /\ t # Nobody
  BY DEF TypeInv, TypeOK
<1>1. PICK req \in inbox : req.to = t /\ inbox' = inbox \ {req}
  BY DEF PushRequestLost
<1>2. UNCHANGED <<log, job>> /\ AllRows' = AllRows
  BY DEF PushRequestLost, AllRows, JobRows
<1>3. task'[t] = Idle /\ \A u \in Client : u # t => task'[u] = task[u]
  BY CallAlone, FailedSteps DEF ReconcileFails
<1>4. \A q \in inbox' : q \in inbox /\ q.to # t /\ (q.to # Nobody => q.to \in Client)
  BY <1>0, <1>1, RequestType DEF PushInv, OneRequest
<1>5. job # Absent => job.to # t /\ (job.to # Nobody => job.to \in Client)
  BY <1>0, <1>1, RequestType DEF PushInv, OneRequest
<1>6. OneRequest'
  BY <1>2, <1>3, <1>4, <1>5 DEF PushInv, OneRequest
<1>7. SentIsCarried'
  BY <1>2, <1>3, <1>4, <1>5, IdleFields DEF PushInv, SentIsCarried
<1> QED BY <1>6, <1>7 DEF PushInv

LEMMA StepPush ==
  ASSUME TypeInv, PushInv, [Next]_vars
  PROVE  PushInv'
<1>1. ASSUME UNCHANGED <<hubVars, task>>
      PROVE  PushInv'
  <2>1. Quiet
    BY <1>1 DEF hubVars, Quiet
  <2> QED BY <2>1, QuietKeeps
<1>2. ASSUME NEW r \in Replica, Tick(r) \/ Application(r)
      PROVE  PushInv'
  BY <1>1, <1>2, AppLeaves DEF Tick
<1>3. ASSUME NEW r \in Replica, Crash(r)
      PROVE  PushInv'
  <2> DEFINE mine == {t \in Client : Owner[t] = r}
  <2>1. Forget(mine) /\ task' = [t \in Client |-> IF t \in mine THEN Idle ELSE task[t]]
    BY <1>3 DEF Crash
  <2>2. \A t \in Client : task'[t] = IF t \in mine THEN Idle ELSE task[t]
    BY <2>1
  <2>3. mine \in SUBSET Client
    OBVIOUS
  <2> HIDE DEF mine
  <2> QED BY <2>1, <2>2, <2>3, ForgetKeeps
<1>4. ASSUME NEW t \in Client, Reconcile(t)
      PROVE  PushInv'
  BY <1>4, CallIsQuiet, QuietKeeps, SendKeeps DEF Reconcile
<1>5. ASSUME NEW t \in Client, ReconcileFails(t)
      PROVE  PushInv'
  <2>1. CASE PushTimesOut(t)
    <3>1. Forget({t}) /\ task'[t] = Idle
      BY <1>5, <2>1, FailedSteps DEF PushTimesOut
    <3>2. \A u \in Client : task'[u] = IF u \in {t} THEN Idle ELSE task[u]
      BY <1>5, <3>1, CallAlone
    <3> QED BY <3>1, <3>2, ForgetKeeps
  <2> QED BY <1>5, <2>1, CallIsQuiet, QuietKeeps, LostKeeps DEF ReconcileFails
<1>6. ASSUME Hub
      PROVE  PushInv'
  BY <1>6, ServesKeep, RepliesKeep, HubEndsKeep DEF Hub
<1>7. ASSUME UNCHANGED vars
      PROVE  PushInv'
  BY <1>1, <1>7 DEF vars
<1> QED BY <1>2, <1>3, <1>4, <1>5, <1>6, <1>7 DEF Next

---------------------------------------------------------------------------
(* No committed write is forgotten. *)

LEMMA LogGrows ==
  ASSUME TypeOK, [Next]_vars
  PROVE  \A c : Reached(log, c) => Reached(log', c)
<1>0. HubTypeOK
  BY DEF TypeOK
<1>1. CASE log' = log
  BY <1>1
<1>2. CASE HubCommit
  <2>1. log' = AllRows
    BY <1>2 DEF HubCommit, AllRows, JobRows
  <2> QED BY <1>0, <2>1, LogIsPrefix, RowsType DEF Reached
<1>3. HubStep => log' = log \/ HubCommit
  BY DEF HubStep, HubTake, HubAppend, HubReject, HubPersistFails, HubRestart, Pulls, HubPull
<1> QED BY <1>1, <1>2, <1>3, HubPart DEF RowsAlone

(* A change is committed with its outbox entry, and an entry leaves the outbox
   only once the log has reached it. *)
Carried ==
  /\ \A c \in committed' : \/ c \in committed
                           \/ \E r \in Replica : \E e \in outbox'[r] : e.ch = c
                           \/ Reached(log, c)
  /\ \A r \in Replica : \A e \in outbox[r] : e \in outbox'[r] \/ Reached(log, e.ch)

LEMMA FlushCarries ==
  ASSUME StoreTypes, NEW r \in Replica, NEW removed, FlushAnd(r, removed),
         \A e \in removed : Reached(log, e.ch)
  PROVE  Carried
<1>1. /\ outbox' = [outbox EXCEPT ![r] = (@ \cup enqueued[r]) \ removed]
      /\ committed' = committed \cup {e.ch : e \in enqueued[r]}
      /\ outbox \in [Replica -> SUBSET Entry]
  BY DEF FlushAnd, StoreTypes
<1>2. outbox'[r] = (outbox[r] \cup enqueued[r]) \ removed
      /\ \A s \in Replica : s # r => outbox'[s] = outbox[s]
  BY <1>1
<1> QED BY <1>1, <1>2 DEF Carried

LEMMA PatchCarries ==
  ASSUME StoreTypes, NEW r \in Replica, NEW k, NEW rec, Patches(r, k, rec)
  PROVE  Carried
<1> DEFINE new == NewEntry(k, rec)
<1>1. /\ outbox' = [outbox EXCEPT ![r] = @ \cup enqueued[r] \cup {new}]
      /\ committed' = committed \cup {d.ch : d \in enqueued[r] \cup {new}}
      /\ outbox \in [Replica -> SUBSET Entry]
  BY DEF Patches, StoreTypes
<1> HIDE DEF new
<1>2. outbox'[r] = outbox[r] \cup enqueued[r] \cup {new}
      /\ \A s \in Replica : s # r => outbox'[s] = outbox[s]
  BY <1>1
<1> QED BY <1>1, <1>2 DEF Carried

LEMMA StepCarries ==
  ASSUME TypeInv, PushInv, [Next]_vars, DurableLocal \/ MaxCrashes = 0
  PROVE  Carried
<1>0. StoreTypes /\ TypeOK
  BY TypeParts DEF TypeInv
<1>1. UNCHANGED <<outbox, committed>> => Carried
  BY DEF Carried
<1>2. /\ \A r \in Replica : \A k, rec : Queues(r, k, rec) => Carried
      /\ \A r \in Replica : FailsToPersist(r) => Carried
      /\ \A t : Applies(t) => Carried
      /\ Rests => Carried
  BY <1>1 DEF Queues, FailsToPersist, Drops, Applies, Rests
<1>3. ASSUME NEW r \in Replica, Flushes(r, {})
      PROVE  Carried
  BY <1>0, <1>3, FlushCarries DEF Flushes
<1>4. ASSUME NEW r \in Replica, Application(r)
      PROVE  Carried
  BY <1>0, <1>2, <1>3, <1>4, AppEffect, PatchCarries
<1>5. ASSUME NEW t \in Client, Reconcile(t) \/ ReconcileFails(t)
      PROVE  Carried
  <2>1. Owner[t] \in Replica
    BY DEF TypeInv
  <2>2. CASE PushDone(t)
    <3>1. \A e \in task[t].sent : Reached(log, e.ch)
      BY <2>2, PushSteps DEF PushInv, SentIsCarried
    <3>2. FlushAnd(Owner[t], task[t].sent)
      BY <2>2 DEF PushDone
    <3> QED BY <1>0, <2>1, <3>1, <3>2, FlushCarries
  <2> QED BY <1>2, <1>3, <1>5, <2>1, <2>2, TaskEffect DEF Reconcile, ReconcileFails
<1>6. ASSUME NEW r \in Replica, Crash(r)
      PROVE  Carried
  <2>1. DurableLocal
    BY <1>0, <1>6 DEF Crash, TypeOK
  <2> QED BY <1>1, <1>6, <2>1 DEF Crash
<1>7. ASSUME NEW r \in Replica, Tick(r)
      PROVE  Carried
  BY <1>1, <1>7 DEF Tick
<1>8. Hub \/ UNCHANGED vars => Carried
  BY <1>1, <1>2, HubEffect DEF vars, replicaVars
<1> QED BY <1>4, <1>5, <1>6, <1>7, <1>8 DEF Next

LEMMA StepNotForgotten ==
  ASSUME TypeInv, PushInv, NoEditForgotten, [Next]_vars, DurableLocal \/ MaxCrashes = 0
  PROVE  NoEditForgotten'
<1>1. Carried
  BY StepCarries
<1>2. \A c : Reached(log, c) => Reached(log', c)
  BY LogGrows DEF TypeInv
<1> QED BY <1>1, <1>2 DEF Carried, NoEditForgotten, Reached

LEMMA PushInvariant ==
  ASSUME DurableLocal \/ MaxCrashes = 0
  PROVE  Spec => [](TypeInv /\ PushInv /\ NoEditForgotten)
<1>1. Init => PushInv /\ NoEditForgotten
  BY IdleFields DEF Init, HubInit, PushInv, OneRequest, SentIsCarried, NoEditForgotten
<1>2. /\ TypeInv /\ PushInv /\ NoEditForgotten /\ [Next]_vars
      => PushInv' /\ NoEditForgotten'
  BY StepPush, StepNotForgotten
<1> QED BY <1>1, <1>2, TypeInvariant, PTL DEF Spec

(* "it survives restart" (SyncBackend.ts:148): a committed write is in an
   outbox, to be pushed (again), until the changelog holds it or a newer
   version of the record: lost requests and replies, persists that throw on
   either side, and restarts of the hub included.  push() (SyncBackend.ts:208)
   removes only the entries it sent, and only once the hub has answered.  The
   store must outlive the process, or no process end. *)
THEOREM NothingForgotten ==
  ASSUME DurableLocal \/ MaxCrashes = 0
  PROVE  Spec => []NoEditForgotten
BY PushInvariant, PTL

---------------------------------------------------------------------------
(* Whole-record mode.  A clock is past everything its replica holds, so the
   next stamp comes after all of it. *)

LEMMA StepEffect ==
  ASSUME TypeInv, [Next]_vars
  PROVE  \/ \E r \in Replica, k \in Key : \E rec : Queues(r, k, rec) \/ Patches(r, k, rec)
         \/ \E r \in Replica : \E removed : Flushes(r, removed)
         \/ \E r \in Replica : Drops(r) /\ localFaults' = localFaults + 1
         \/ \E t \in Client : /\ ApplyPulled(t) \/ ApplyConflict(t)
                             /\ Applies(t) /\ task[t].todo # <<>>
         \/ Rests
         \/ \E r \in Replica : Crash(r)
<1>1. ASSUME NEW r \in Replica, Tick(r)
      PROVE  Rests
  BY <1>1 DEF Tick, Rests, boundVars
<1>2. ASSUME NEW r \in Replica, Application(r)
      PROVE  \/ \E k \in Key : \E rec : Queues(r, k, rec) \/ Patches(r, k, rec)
             \/ Flushes(r, {}) \/ Rests
             \/ Drops(r) /\ localFaults' = localFaults + 1
  BY <1>2, AppEffect DEF TypeInv, FailsToPersist
<1>3. ASSUME NEW t \in Client, Reconcile(t) \/ ReconcileFails(t)
      PROVE  \/ \E removed : Flushes(Owner[t], removed)
             \/ Drops(Owner[t]) /\ localFaults' = localFaults + 1
             \/ Rests
             \/ (ApplyPulled(t) \/ ApplyConflict(t)) /\ Applies(t) /\ task[t].todo # <<>>
  BY <1>3, TaskEffect DEF Reconcile, ReconcileFails, FailsToPersist
<1>4. ASSUME Hub
      PROVE  Rests
  BY <1>4, HubEffect
<1>5. ASSUME UNCHANGED vars
      PROVE  Rests
  BY <1>5 DEF vars, replicaVars, boundVars, Rests
<1>6. \A t \in Client : Owner[t] \in Replica
  OBVIOUS
<1> QED BY <1>1, <1>2, <1>3, <1>4, <1>5, <1>6 DEF Next

ClockedAt(r) ==
  /\ \A k \in Key : local[r][k] # Absent => ClockLeq(local[r][k].ver, clk[r])
  /\ \A k \in Key : saves[r][k] # Absent => ClockLeq(saves[r][k].ver, clk[r])
  /\ \A e \in outbox[r] \cup enqueued[r] : e.n <= edits /\ ClockLeq(e.ch.rec.ver, clk[r])
  /\ \A e, d \in outbox[r] \cup enqueued[r] :
       e.n < d.n => Before(e.ch.rec.ver, d.ch.rec.ver)

Clocked == \A r \in Replica : ClockedAt(r)

(* The next stamp follows all the clock is past. *)
LEMMA NowFollows ==
  ASSUME TypeInv, NEW r \in Replica
  PROVE  /\ Now(r) \in Stamp /\ Now(r).node = r /\ ClockLeq(Now(r), HlcNow(clk[r], wall[r]))
         /\ \A s \in Stamp : ClockLeq(s, clk[r]) =>
              ClockLeq(s, HlcNow(clk[r], wall[r])) /\ Before(s, Now(r))
<1>1. clk[r] \in Clock /\ wall[r] \in Nat /\ r \in Nat
  BY DEF TypeInv, TypeOK
<1> DEFINE d == HlcNow(clk[r], wall[r])
<1>2. /\ d \in Clock /\ ClockLess(clk[r], d)
      /\ StampOf(d, r) \in Stamp /\ StampOf(d, r).node = r /\ ClockLeq(StampOf(d, r), d)
  <2> HIDE HubAssumption, SyncAssumption
  <2>1. clk[r] \in Clock /\ wall[r] \in Nat /\ r \in Nat BY <1>1
  <2> QED BY <2>1, NextStamp
<1>3. Now(r) = StampOf(d, r)
  BY DEF Now
<1> HIDE DEF d
<1>4. \A s \in Stamp : ClockLeq(s, clk[r]) => ClockLeq(s, d) /\ Before(s, StampOf(d, r))
  BY <1>1, <1>2, LaterStamp
<1>5. d = HlcNow(clk[r], wall[r])
  BY DEF d
<1> QED BY <1>2, <1>3, <1>4, <1>5

(* Whatever the clock is past, it stays past. *)
LEMMA StampedClock ==
  ASSUME TypeInv, NEW r \in Replica, NEW rec, Stamps(r, rec)
  PROVE  /\ \A q \in Replica : q # r => clk'[q] = clk[q]
         /\ clk'[r] = HlcNow(clk[r], wall[r])
         /\ ~FieldLevel => rec.ver = Now(r)
<1>1. clk \in [Replica -> Clock]
  BY DEF TypeInv, TypeOK
<1> QED BY <1>1 DEF Stamps

LEMMA StampsFollow ==
  ASSUME TypeInv, ~FieldLevel, NEW r \in Replica, NEW rec, Stamps(r, rec)
  PROVE  /\ rec.ver \in Stamp /\ rec.ver.node = r /\ ClockLeq(rec.ver, clk'[r])
         /\ \A s \in Stamp : ClockLeq(s, clk[r]) => ClockLeq(s, clk'[r]) /\ Before(s, rec.ver)
BY NowFollows, StampedClock

(* Versions are stamps. *)
LEMMA StoredStamps ==
  ASSUME TypeInv, NEW r \in Replica
  PROVE  /\ \A k \in Key : local[r][k] # Absent => local[r][k] \in Record /\ local[r][k].ver \in Stamp
         /\ \A k \in Key : saves[r][k] # Absent => saves[r][k] \in Record /\ saves[r][k].ver \in Stamp
         /\ \A e \in outbox[r] \cup enqueued[r] :
              e.n \in Nat /\ e.ch \in Change /\ e.ch.rec.ver \in Stamp
         /\ \A c \in committed : c \in Change /\ c.rec.ver \in Stamp
<1>1. \A x \in Record : x.ver \in Stamp
  BY DEF Record
<1>2. \A e \in Entry : e.n \in Nat /\ e.ch \in Change /\ e.ch.rec.ver \in Stamp
  BY ChangeVersion DEF Entry
<1>3. \A c \in Change : c.rec.ver \in Stamp
  BY ChangeVersion
<1>4. /\ \A k \in Key : local[r][k] \in Record \cup {Absent} /\ saves[r][k] \in Record \cup {Absent}
      /\ outbox[r] \cup enqueued[r] \subseteq Entry /\ committed \subseteq Change
  BY DEF TypeInv, TypeOK
<1> QED BY <1>1, <1>2, <1>3, <1>4

(* Applying a change shows its version to the clock. *)
LEMMA AppliesClock ==
  ASSUME TypeInv, NEW t \in Client, Applies(t), task[t].todo # <<>>
  PROVE  LET r == Owner[t]
             change == Head(task[t].todo)
         IN  /\ r \in Replica /\ change \in Change /\ change.key \in Key
             /\ change.rec \in Record /\ change.rec.ver \in Stamp
             /\ task[t].found[change.key] \in Record \cup {Absent}
             /\ \A s \in Replica : s # r => clk'[s] = clk[s]
             /\ ClockLeq(change.rec.ver, clk'[r])
             /\ \A x \in Stamp : ClockLeq(x, clk[r]) => ClockLeq(x, clk'[r])
<1> DEFINE r == Owner[t]
           change == Head(task[t].todo)
<1>1. /\ r \in Replica /\ change \in Change /\ change.key \in Key /\ change.rec \in Record
      /\ task[t].found[change.key] \in Record \cup {Absent} /\ change.rec.ver \in Stamp
  BY TaskType, ChangeVersion
<1>2. clk' = [clk EXCEPT ![r] = HlcUpdate(clk[r], change.rec.ver, wall[r])]
  BY DEF Applies
<1>3. clk \in [Replica -> Clock] /\ clk[r] \in Clock /\ wall[r] \in Nat
  BY <1>1 DEF TypeInv, TypeOK
<1>4. /\ \A s \in Replica : s # r => clk'[s] = clk[s]
      /\ clk'[r] = HlcUpdate(clk[r], change.rec.ver, wall[r])
  BY <1>1, <1>2, <1>3
<1>5. /\ ClockLeq(change.rec.ver, clk'[r])
      /\ \A x \in Stamp : ClockLeq(x, clk[r]) => ClockLeq(x, clk'[r])
  BY <1>1, <1>3, <1>4, UpdatedClock
<1> QED BY <1>1, <1>4, <1>5

(* Whole-record, a change applies as it is or not at all. *)
LEMMA AppliesWhole ==
  ASSUME TypeInv, ~FieldLevel, NEW t \in Client, Applies(t), task[t].todo # <<>>
  PROVE  LET r == Owner[t]
             change == Head(task[t].todo)
             found == task[t].found[change.key]
         IN  /\ r \in Replica /\ change \in Change /\ change.key \in Key
             /\ change.rec \in Record /\ change.rec.ver \in Stamp
             /\ found \in Record \cup {Absent}
             /\ saves' = IF found = Absent \/ Before(found.ver, change.rec.ver)
                         THEN [saves EXCEPT ![r][change.key] = change.rec] ELSE saves
             /\ (Applied(change.rec, found) # Absent) <=>
                  (found = Absent \/ Before(found.ver, change.rec.ver))
             /\ \A s \in Replica : s # r => clk'[s] = clk[s]
             /\ ClockLeq(change.rec.ver, clk'[r])
             /\ \A x \in Stamp : ClockLeq(x, clk[r]) => ClockLeq(x, clk'[r])
<1> DEFINE r == Owner[t]
           change == Head(task[t].todo)
           found == task[t].found[change.key]
<1>1. /\ r \in Replica /\ change \in Change /\ change.key \in Key /\ change.rec \in Record
      /\ found \in Record \cup {Absent} /\ change.rec.ver \in Stamp
      /\ \A s \in Replica : s # r => clk'[s] = clk[s]
      /\ ClockLeq(change.rec.ver, clk'[r])
      /\ \A x \in Stamp : ClockLeq(x, clk[r]) => ClockLeq(x, clk'[r])
  BY AppliesClock
<1>2. Applied(change.rec, found) =
        IF found = Absent \/ Before(found.ver, change.rec.ver) THEN change.rec ELSE Absent
  BY <1>1, AppliedType
<1>3. change.rec # Absent
  BY <1>1
<1>4. saves' = IF Applied(change.rec, found) = Absent THEN saves
               ELSE [saves EXCEPT ![r][change.key] = Applied(change.rec, found)]
  BY DEF Applies
<1> HIDE DEF found, change, r
<1>5. /\ saves' = IF found = Absent \/ Before(found.ver, change.rec.ver)
                  THEN [saves EXCEPT ![r][change.key] = change.rec] ELSE saves
      /\ (Applied(change.rec, found) # Absent) <=> (found = Absent \/ Before(found.ver, change.rec.ver))
  BY <1>2, <1>3, <1>4
<1> USE DEF found, change, r
<1> QED BY <1>1, <1>5

LEMMA NewStampClocked ==
  ASSUME TypeInv, ~FieldLevel, Clocked, NEW r \in Replica, NEW k \in Key, NEW rec,
         Queues(r, k, rec) \/ Patches(r, k, rec)
  PROVE  ClockedAt(r)'
<1> DEFINE new == NewEntry(k, rec)
<1>1. Stamps(r, rec)
  BY DEF Queues, Patches
<1>2. /\ rec.ver \in Stamp /\ ClockLeq(rec.ver, clk'[r])
      /\ \A s \in Stamp : ClockLeq(s, clk[r]) => ClockLeq(s, clk'[r]) /\ Before(s, rec.ver)
      /\ edits' = edits + 1 /\ edits \in Nat /\ rec \in Record
  <2>1. edits \in Nat
    BY DEF TypeInv, TypeOK
  <2>2. edits' = edits + 1 /\ rec \in Record
    BY <1>1 DEF Stamps
  <2> QED BY <1>1, <2>1, <2>2, StampsFollow
<1>3. new.n = edits + 1 /\ new.ch.rec = rec
  BY DEF NewEntry
<1>4. /\ local \in [Replica -> [Key -> Record \cup {Absent}]]
      /\ saves \in [Replica -> [Key -> Record \cup {Absent}]]
      /\ outbox \in [Replica -> SUBSET Entry] /\ enqueued \in [Replica -> SUBSET Entry]
  BY DEF TypeInv, TypeOK
<1>5. ClockedAt(r)
  BY DEF Clocked
<1>6. /\ \A j \in Key : local'[r][j] \in {local[r][j], saves[r][j], rec}
      /\ \A j \in Key : saves'[r][j] \in {saves[r][j], rec, Absent}
      /\ outbox'[r] \cup enqueued'[r] \subseteq outbox[r] \cup enqueued[r] \cup {new}
  <2>1. CASE Queues(r, k, rec)
    BY <1>4, <2>1 DEF Queues
  <2>2. CASE Patches(r, k, rec)
    <3>1. local'[r] = [Flushed(r) EXCEPT ![k] = rec] /\ saves'[r] = NoRecords /\ enqueued'[r] = {}
          /\ outbox'[r] = outbox[r] \cup enqueued[r] \cup {new}
      BY <1>4, <2>2 DEF Patches, DropQueue
    <3>2. \A j \in Key : local'[r][j] \in {local[r][j], saves[r][j], rec}
      BY <3>1 DEF Flushed
    <3>3. \A j \in Key : saves'[r][j] = Absent
      BY <3>1 DEF NoRecords
    <3> QED BY <3>1, <3>2, <3>3
  <2> QED BY <2>1, <2>2
<1> HIDE DEF new
<1>7. \A j \in Key : local'[r][j] # Absent => ClockLeq(local'[r][j].ver, clk'[r])
  BY <1>2, <1>5, <1>6, StoredStamps DEF ClockedAt
<1>8. \A j \in Key : saves'[r][j] # Absent => ClockLeq(saves'[r][j].ver, clk'[r])
  BY <1>2, <1>5, <1>6, StoredStamps DEF ClockedAt
<1>9. \A e \in outbox'[r] \cup enqueued'[r] : e.n <= edits' /\ ClockLeq(e.ch.rec.ver, clk'[r])
  BY <1>2, <1>3, <1>5, <1>6, StoredStamps DEF ClockedAt
<1>10. ASSUME NEW e \in outbox'[r] \cup enqueued'[r], NEW d \in outbox'[r] \cup enqueued'[r], e.n < d.n
       PROVE  Before(e.ch.rec.ver, d.ch.rec.ver)
  <2>1. e = new \/ e \in outbox[r] \cup enqueued[r]
    BY <1>6
  <2>2. d = new \/ d \in outbox[r] \cup enqueued[r]
    BY <1>6
  <2>3. \A x \in outbox[r] \cup enqueued[r] :
          x.n \in Nat /\ x.n <= edits /\ x.ch.rec.ver \in Stamp /\ ClockLeq(x.ch.rec.ver, clk[r])
    BY <1>5, StoredStamps DEF ClockedAt
  <2>4. e # new
    BY <1>2, <1>3, <1>10, <2>2, <2>3
  <2>5. CASE d = new
    BY <1>2, <1>3, <2>1, <2>3, <2>4, <2>5
  <2>6. CASE d # new
    BY <1>5, <1>10, <2>1, <2>2, <2>4, <2>6 DEF ClockedAt
  <2> QED BY <2>5, <2>6
<1> QED BY <1>7, <1>8, <1>9, <1>10 DEF ClockedAt

LEMMA FlushClocked ==
  ASSUME TypeInv, Clocked, NEW r \in Replica, NEW removed, Flushes(r, removed)
  PROVE  ClockedAt(r)'
<1>1. /\ local \in [Replica -> [Key -> Record \cup {Absent}]]
      /\ saves \in [Replica -> [Key -> Record \cup {Absent}]]
      /\ outbox \in [Replica -> SUBSET Entry] /\ enqueued \in [Replica -> SUBSET Entry]
  BY DEF TypeInv, TypeOK
<1>2. /\ local'[r] = Flushed(r) /\ saves'[r] = NoRecords /\ enqueued'[r] = {}
      /\ outbox'[r] = (outbox[r] \cup enqueued[r]) \ removed /\ UNCHANGED <<clk, edits>>
  BY <1>1 DEF Flushes, FlushAnd, DropQueue
<1>3. /\ \A j \in Key : local'[r][j] \in {local[r][j], saves[r][j]}
      /\ \A j \in Key : saves'[r][j] = Absent
      /\ outbox'[r] \cup enqueued'[r] \subseteq outbox[r] \cup enqueued[r]
  BY <1>2 DEF Flushed, NoRecords
<1>4. ClockedAt(r)
  BY DEF Clocked
<1> QED BY <1>2, <1>3, <1>4 DEF ClockedAt

LEMMA DropClocked ==
  ASSUME TypeInv, Clocked, NEW r \in Replica, Drops(r)
  PROVE  ClockedAt(r)'
<1>1. /\ saves \in [Replica -> [Key -> Record \cup {Absent}]]
      /\ enqueued \in [Replica -> SUBSET Entry]
  BY DEF TypeInv, TypeOK
<1>2. /\ saves'[r] = NoRecords /\ enqueued'[r] = {} /\ UNCHANGED <<clk, local, outbox, edits>>
  BY <1>1 DEF Drops, DropQueue
<1>3. ClockedAt(r)
  BY DEF Clocked
<1> QED BY <1>2, <1>3 DEF ClockedAt, NoRecords

LEMMA ApplyClocked ==
  ASSUME TypeInv, ~FieldLevel, Clocked, NEW t \in Client, Applies(t), task[t].todo # <<>>
  PROVE  ClockedAt(Owner[t])'
<1> DEFINE r == Owner[t]
           change == Head(task[t].todo)
<1>1. /\ r \in Replica /\ change.rec.ver \in Stamp /\ ClockLeq(change.rec.ver, clk'[r])
      /\ \A x \in Stamp : ClockLeq(x, clk[r]) => ClockLeq(x, clk'[r])
      /\ saves' = saves \/ saves' = [saves EXCEPT ![r][change.key] = change.rec]
  BY AppliesWhole
<1>2. UNCHANGED <<local, outbox, enqueued, edits>>
  BY DEF Applies
<1>3. saves \in [Replica -> [Key -> Record \cup {Absent}]]
  BY DEF TypeInv, TypeOK
<1> HIDE DEF r, change
<1>4. \A k \in Key : saves'[r][k] \in {saves[r][k], change.rec}
  <2>1. CASE saves' = saves
    BY <2>1
  <2>2. CASE saves' = [saves EXCEPT ![r][change.key] = change.rec]
    BY <1>1, <1>3, <2>2
  <2> QED BY <1>1, <2>1, <2>2
<1>5. ClockedAt(r)
  BY <1>1 DEF Clocked
<1>6. \A k \in Key : local'[r][k] # Absent => ClockLeq(local'[r][k].ver, clk'[r])
  BY <1>1, <1>2, <1>5, StoredStamps DEF ClockedAt
<1>7. \A k \in Key : saves'[r][k] # Absent => ClockLeq(saves'[r][k].ver, clk'[r])
  BY <1>1, <1>4, <1>5, StoredStamps DEF ClockedAt
<1>8. \A e \in outbox[r] \cup enqueued[r] : e.n <= edits /\ ClockLeq(e.ch.rec.ver, clk'[r])
  BY <1>1, <1>5, StoredStamps DEF ClockedAt
<1>9. ClockedAt(r)'
  BY <1>2, <1>5, <1>6, <1>7, <1>8 DEF ClockedAt
<1> QED BY <1>9 DEF r

(* A step at one replica leaves the others as they are. *)
LEMMA OthersClocked ==
  ASSUME TypeInv, Clocked, NEW r \in Replica, NEW s \in Replica, s # r,
         edits' = edits \/ edits' = edits + 1,
         clk'[s] = clk[s], local'[s] = local[s], saves'[s] = saves[s],
         outbox'[s] = outbox[s], enqueued'[s] = enqueued[s]
  PROVE  ClockedAt(s)'
<1>1. edits \in Nat
  BY DEF TypeInv, TypeOK
<1>2. edits' \in Nat /\ edits <= edits'
  BY <1>1
<1>3. \A e \in outbox[s] \cup enqueued[s] : e.n \in Nat /\ e.n <= edits
  BY StoredStamps DEF Clocked, ClockedAt
<1>4. \A e \in outbox[s] \cup enqueued[s] : e.n <= edits'
  BY <1>1, <1>2, <1>3
<1>5. ClockedAt(s)
  BY DEF Clocked
<1> QED BY <1>4, <1>5 DEF ClockedAt

LEMMA StepClocked ==
  ASSUME TypeInv, ~FieldLevel, Clocked, [Next]_vars, MaxCrashes = 0 \/ ~DurableLocal
  PROVE  Clocked'
<1>0. /\ clk \in [Replica -> Clock] /\ crashes \in Nat
      /\ local \in [Replica -> [Key -> Record \cup {Absent}]]
      /\ saves \in [Replica -> [Key -> Record \cup {Absent}]]
      /\ outbox \in [Replica -> SUBSET Entry] /\ enqueued \in [Replica -> SUBSET Entry]
  BY DEF TypeInv, TypeOK
<1>1. ASSUME NEW r \in Replica, NEW k \in Key, NEW rec, Queues(r, k, rec) \/ Patches(r, k, rec)
      PROVE  Clocked'
  <2>1. ASSUME NEW s \in Replica, s # r
        PROVE  ClockedAt(s)'
    <3>1. /\ edits' = edits + 1 /\ clk'[s] = clk[s] /\ local'[s] = local[s]
          /\ saves'[s] = saves[s] /\ outbox'[s] = outbox[s] /\ enqueued'[s] = enqueued[s]
      BY <1>0, <1>1, <2>1 DEF Queues, Patches, Stamps, DropQueue
    <3> QED BY <2>1, <3>1, OthersClocked
  <2> QED BY <1>1, <2>1, NewStampClocked DEF Clocked
<1>2. ASSUME NEW r \in Replica, NEW removed, Flushes(r, removed)
      PROVE  Clocked'
  <2>1. ASSUME NEW s \in Replica, s # r
        PROVE  ClockedAt(s)'
    <3>1. /\ edits' = edits /\ clk'[s] = clk[s] /\ local'[s] = local[s]
          /\ saves'[s] = saves[s] /\ outbox'[s] = outbox[s] /\ enqueued'[s] = enqueued[s]
      BY <1>0, <1>2, <2>1 DEF Flushes, FlushAnd, DropQueue
    <3> QED BY <2>1, <3>1, OthersClocked
  <2> QED BY <1>2, <2>1, FlushClocked DEF Clocked
<1>3. ASSUME NEW r \in Replica, Drops(r)
      PROVE  Clocked'
  <2>1. ASSUME NEW s \in Replica, s # r
        PROVE  ClockedAt(s)'
    <3>1. /\ edits' = edits /\ clk'[s] = clk[s] /\ local'[s] = local[s]
          /\ saves'[s] = saves[s] /\ outbox'[s] = outbox[s] /\ enqueued'[s] = enqueued[s]
      BY <1>0, <1>3, <2>1 DEF Drops, DropQueue
    <3> QED BY <2>1, <3>1, OthersClocked
  <2> QED BY <1>3, <2>1, DropClocked DEF Clocked
<1>4. ASSUME NEW t \in Client, Applies(t), task[t].todo # <<>>
      PROVE  Clocked'
  <2> DEFINE r == Owner[t]
             change == Head(task[t].todo)
  <2>1. ASSUME NEW s \in Replica, s # r
        PROVE  ClockedAt(s)'
    <3>1. /\ r \in Replica /\ clk'[s] = clk[s]
          /\ saves' = saves \/ saves' = [saves EXCEPT ![r][change.key] = change.rec]
      BY <1>4, <2>1, AppliesWhole
    <3>2. saves'[s] = saves[s]
      BY <1>0, <2>1, <3>1
    <3>3. UNCHANGED <<local, outbox, enqueued, edits>>
      BY <1>4 DEF Applies
    <3> QED BY <2>1, <3>1, <3>2, <3>3, OthersClocked
  <2>2. ClockedAt(r)'
    BY <1>4, ApplyClocked
  <2> QED BY <2>1, <2>2 DEF Clocked
<1>5. CASE Rests
  BY <1>5 DEF Rests, Clocked, ClockedAt
<1>6. ASSUME NEW r \in Replica, Crash(r)
      PROVE  Clocked'
  <2>1. crashes < MaxCrashes
    BY <1>6 DEF Crash
  <2>2. ~DurableLocal
    BY <1>0, <2>1
  <2>3. /\ clk' = [clk EXCEPT ![r] = ZeroClock] /\ DropQueue(r) /\ edits' = edits
        /\ local' = [local EXCEPT ![r] = NoRecords] /\ outbox' = [outbox EXCEPT ![r] = {}]
    BY <1>6, <2>2 DEF Crash
  <2>4. ClockedAt(r)'
    <3>1. local'[r] = NoRecords /\ saves'[r] = NoRecords /\ outbox'[r] = {} /\ enqueued'[r] = {}
      BY <1>0, <2>3 DEF DropQueue
    <3> QED BY <3>1 DEF ClockedAt, NoRecords
  <2>5. ASSUME NEW s \in Replica, s # r
        PROVE  ClockedAt(s)'
    <3>1. /\ edits' = edits /\ clk'[s] = clk[s] /\ local'[s] = local[s]
          /\ saves'[s] = saves[s] /\ outbox'[s] = outbox[s] /\ enqueued'[s] = enqueued[s]
      BY <1>0, <2>3, <2>5 DEF DropQueue
    <3> QED BY <2>5, <3>1, OthersClocked
  <2> QED BY <2>4, <2>5 DEF Clocked
<1> QED BY <1>1, <1>2, <1>3, <1>4, <1>5, <1>6, StepEffect

LEMMA ClocksLead ==
  ASSUME ~FieldLevel, MaxCrashes = 0 \/ ~DurableLocal
  PROVE  Spec => []Clocked
<1>1. Init => Clocked
  BY DEF Init, Clocked, ClockedAt, NoRecords
<1> QED BY <1>1, TypeInvariant, StepClocked, PTL DEF Spec

(* A new entry of an outbox carries the next stamp of its replica. *)
LEMMA NewEntries ==
  ASSUME TypeInv, [Next]_vars, NEW r \in Replica,
         NEW e \in (enqueued'[r] \cup outbox'[r]) \ (enqueued[r] \cup outbox[r])
  PROVE  \E k \in Key : \E rec : Stamps(r, rec) /\ e = NewEntry(k, rec)
<1>0. outbox \in [Replica -> SUBSET Entry] /\ enqueued \in [Replica -> SUBSET Entry]
  BY DEF TypeInv, TypeOK
<1>1. ASSUME NEW s \in Replica, NEW k \in Key, NEW rec, Queues(s, k, rec) \/ Patches(s, k, rec)
      PROVE  s = r /\ Stamps(s, rec) /\ e = NewEntry(k, rec)
  BY <1>0, <1>1 DEF Queues, Patches, DropQueue
<1>2. ASSUME NEW s \in Replica, NEW removed, Flushes(s, removed)
      PROVE  FALSE
  BY <1>0, <1>2 DEF Flushes, FlushAnd, DropQueue
<1>3. ASSUME NEW s \in Replica, Drops(s)
      PROVE  FALSE
  BY <1>0, <1>3 DEF Drops, DropQueue
<1>4. ~Rests /\ \A t \in Client : ~Applies(t)
  BY DEF Rests, Applies
<1>5. ASSUME NEW s \in Replica, Crash(s)
      PROVE  FALSE
  <2>1. DropQueue(s) /\ outbox' \in {outbox, [outbox EXCEPT ![s] = {}]}
    BY <1>5 DEF Crash
  <2> QED BY <1>0, <2>1 DEF DropQueue
<1> QED BY <1>1, <1>2, <1>3, <1>4, <1>5, StepEffect

(* "edits from different devices have a stable causal order" (hlc.ts:3): the
   stamp save(), remove() and patch() give a record (SyncBackend.ts) follows
   the version of the stored record it replaces, for any wall clocks, because
   a pull has shown the clock every version before the record was stored.
   A process that ends must take its store with it: the clock starts over. *)
THEOREM EditsFollow ==
  ASSUME ~FieldLevel, MaxCrashes = 0 \/ ~DurableLocal
  PROVE  Spec => EditFollowsWhatItReplaces
<1> DEFINE A == \A r \in Replica :
                  \A e \in (enqueued'[r] \cup outbox'[r]) \ (enqueued[r] \cup outbox[r]) :
                    local[r][e.ch.key] = Absent
                      \/ Before(local[r][e.ch.key].ver, e.ch.rec.ver)
<1>1. ASSUME TypeInv, Clocked, [Next]_vars
      PROVE  A
  <2> SUFFICES ASSUME NEW r \in Replica,
                      NEW e \in (enqueued'[r] \cup outbox'[r]) \ (enqueued[r] \cup outbox[r]),
                      local[r][e.ch.key] # Absent
               PROVE  Before(local[r][e.ch.key].ver, e.ch.rec.ver)
    OBVIOUS
  <2>1. PICK k \in Key : \E rec : Stamps(r, rec) /\ e = NewEntry(k, rec)
    BY <1>1, NewEntries
  <2>2. PICK rec : Stamps(r, rec) /\ e = NewEntry(k, rec)
    BY <2>1
  <2>3. e.ch.key = k /\ e.ch.rec = rec
    BY <2>2 DEF NewEntry
  <2>4. local[r][k].ver \in Stamp /\ ClockLeq(local[r][k].ver, clk[r])
    BY <1>1, <2>3, StoredStamps DEF Clocked, ClockedAt
  <2>5. \A s \in Stamp : ClockLeq(s, clk[r]) => Before(s, rec.ver)
    BY <1>1, <2>2, StampsFollow
  <2> QED BY <2>3, <2>4, <2>5
<1>2. TypeInv /\ Clocked /\ [Next]_vars => [A]_vars
  BY <1>1
<1> QED BY <1>2, TypeInvariant, ClocksLead, PTL DEF Spec, EditFollowsWhatItReplaces

---------------------------------------------------------------------------
(* Where everything comes from.  Whatever is stored, sent, served or pulled
   is a change an application made, and no two of them share a version. *)

Known(c) == c \in committed \/ \E r \in Replica : \E e \in enqueued[r] : e.ch = c

OwnClocked == \A c, r : Known(c) /\ r \in Replica /\ c.rec.ver.node = r => ClockLeq(c.rec.ver, clk[r])
Whole == \A c : Known(c) => c.rec.fv = Absent
Unique == \A c, d : Known(c) /\ Known(d) /\ c.rec.ver = d.rec.ver => c = d
Stamping == OwnClocked /\ Whole /\ Unique

LEMMA KnownType ==
  ASSUME TypeInv, NEW c, Known(c)
  PROVE  c \in Change /\ c.rec.ver \in Stamp
<1>1. c \in Change
  BY DEF Known, TypeInv, TypeOK, Entry
<1> QED BY <1>1, ChangeVersion

(* A save adds its own change to what is known. *)
LEMMA WritesKnown ==
  ASSUME TypeInv, NEW r \in Replica, NEW k \in Key, NEW rec, Queues(r, k, rec) \/ Patches(r, k, rec)
  PROVE  /\ committed \subseteq committed' /\ Stamps(r, rec)
         /\ \A c : Known(c)' <=> Known(c) \/ c = NewEntry(k, rec).ch
         /\ \A s \in Replica : s # r => clk'[s] = clk[s]
<1>0. enqueued \in [Replica -> SUBSET Entry] /\ clk \in [Replica -> Clock]
  BY DEF TypeInv, TypeOK
<1>1. Stamps(r, rec) /\ \A s \in Replica : s # r => clk'[s] = clk[s]
  BY <1>0 DEF Queues, Patches, Stamps
<1>2. CASE Queues(r, k, rec)
  <2>1. /\ committed' = committed
        /\ \A s \in Replica : s # r => enqueued'[s] = enqueued[s]
        /\ enqueued'[r] = enqueued[r] \cup {NewEntry(k, rec)}
    BY <1>0, <1>2 DEF Queues
  <2> QED BY <1>1, <2>1 DEF Known
<1>3. CASE Patches(r, k, rec)
  <2>1. /\ committed' = committed \cup {d.ch : d \in enqueued[r] \cup {NewEntry(k, rec)}}
        /\ \A s \in Replica : s # r => enqueued'[s] = enqueued[s]
        /\ enqueued'[r] = {}
    BY <1>0, <1>3 DEF Patches, DropQueue
  <2>2. \A c : Known(c)' => Known(c) \/ c = NewEntry(k, rec).ch
    BY <2>1 DEF Known
  <2>3. \A c : Known(c) \/ c = NewEntry(k, rec).ch => Known(c)'
    BY <2>1 DEF Known
  <2> QED BY <1>1, <2>1, <2>2, <2>3
<1> QED BY <1>2, <1>3

(* What a step can add to what is known. *)
LEMMA KnownSteps ==
  ASSUME TypeInv, [Next]_vars
  PROVE  /\ committed \subseteq committed'
         /\ \/ \A c : Known(c)' => Known(c)
            \/ \E r \in Replica, k \in Key : \E rec :
                 /\ Stamps(r, rec)
                 /\ \A c : Known(c)' => Known(c) \/ c = NewEntry(k, rec).ch
                 /\ \A s \in Replica : s # r => clk'[s] = clk[s]
<1>0. enqueued \in [Replica -> SUBSET Entry] /\ clk \in [Replica -> Clock]
  BY DEF TypeInv, TypeOK
<1>1. ASSUME NEW r \in Replica, NEW k \in Key, NEW rec, Queues(r, k, rec) \/ Patches(r, k, rec)
      PROVE  /\ committed \subseteq committed' /\ Stamps(r, rec)
             /\ \A c : Known(c)' => Known(c) \/ c = NewEntry(k, rec).ch
             /\ \A s \in Replica : s # r => clk'[s] = clk[s]
  BY <1>1, WritesKnown
<1>2. ASSUME NEW r \in Replica, NEW removed, Flushes(r, removed)
      PROVE  committed \subseteq committed' /\ \A c : Known(c)' => Known(c)
  <2>1. /\ committed' = committed \cup {e.ch : e \in enqueued[r]}
        /\ \A s \in Replica : enqueued'[s] \subseteq enqueued[s]
    BY <1>0, <1>2 DEF Flushes, FlushAnd, DropQueue
  <2> QED BY <2>1 DEF Known
<1>3. ASSUME NEW r \in Replica, Drops(r) \/ Crash(r)
      PROVE  committed \subseteq committed' /\ \A c : Known(c)' => Known(c)
  <2>1. committed' = committed /\ DropQueue(r)
    BY <1>3 DEF Drops, Crash
  <2>2. \A s \in Replica : enqueued'[s] \subseteq enqueued[s]
    BY <1>0, <2>1 DEF DropQueue
  <2> QED BY <2>1, <2>2 DEF Known
<1>4. ASSUME Rests \/ \E t \in Client : Applies(t)
      PROVE  committed \subseteq committed' /\ \A c : Known(c)' => Known(c)
  BY <1>4 DEF Rests, Applies, Known
<1> QED BY <1>1, <1>2, <1>3, <1>4, StepEffect

(* Clocks only move forward, as long as no process ends. *)
LEMMA ClocksAdvance ==
  ASSUME TypeInv, [Next]_vars, MaxCrashes = 0
  PROVE  \A r \in Replica, s \in Stamp : ClockLeq(s, clk[r]) => ClockLeq(s, clk'[r])
<1>0. crashes \in Nat
  BY DEF TypeInv, TypeOK
<1>1. ASSUME NEW r \in Replica, NEW rec, Stamps(r, rec)
      PROVE  \A q \in Replica, s \in Stamp : ClockLeq(s, clk[q]) => ClockLeq(s, clk'[q])
  <2>1. /\ \A q \in Replica : q # r => clk'[q] = clk[q]
        /\ clk'[r] = HlcNow(clk[r], wall[r])
    BY <1>1, StampedClock
  <2>2. \A s \in Stamp : ClockLeq(s, clk[r]) => ClockLeq(s, clk'[r])
    BY <2>1, NowFollows
  <2> QED BY <2>1, <2>2
<1>2. ASSUME NEW t \in Client, Applies(t), task[t].todo # <<>>
      PROVE  \A q \in Replica, s \in Stamp : ClockLeq(s, clk[q]) => ClockLeq(s, clk'[q])
  BY <1>2, AppliesClock
<1>3. \A r \in Replica : ~Crash(r)
  BY <1>0 DEF Crash
<1> QED BY <1>1, <1>2, <1>3, StepEffect DEF Queues, Patches, Flushes, Drops, Rests

LEMMA StepStamping ==
  ASSUME TypeInv, ~FieldLevel, Stamping, [Next]_vars, MaxCrashes = 0
  PROVE  Stamping'
<1>1. CASE \A c : Known(c)' => Known(c)
  <2>1. OwnClocked'
    BY <1>1, KnownType, ClocksAdvance DEF Stamping, OwnClocked
  <2> QED BY <1>1, <2>1 DEF Stamping, Whole, Unique
<1>2. ASSUME NEW r \in Replica, NEW k \in Key, NEW rec, Stamps(r, rec),
             \A c : Known(c)' => Known(c) \/ c = NewEntry(k, rec).ch
      PROVE  Stamping'
  <2> DEFINE new == NewEntry(k, rec).ch
  <2>1. /\ new.rec = rec /\ rec.ver \in Stamp /\ rec.ver.node = r /\ rec.fv = Absent
        /\ ClockLeq(rec.ver, clk'[r])
        /\ \A s \in Stamp : ClockLeq(s, clk[r]) => Before(s, rec.ver)
    BY <1>2, StampsFollow DEF Stamps, NewEntry
  <2> HIDE DEF new
  <2>2. OwnClocked'
    <3> SUFFICES ASSUME NEW c, NEW q \in Replica, Known(c)', c.rec.ver.node = q
                 PROVE  ClockLeq(c.rec.ver, clk'[q])
      BY DEF OwnClocked
    <3>1. CASE Known(c)
      BY <3>1, KnownType, ClocksAdvance DEF Stamping, OwnClocked
    <3>2. CASE c = new
      BY <2>1, <3>2
    <3> QED BY <1>2, <3>1, <3>2 DEF new
  <2>3. Whole'
    BY <1>2, <2>1 DEF new, Stamping, Whole
  <2>4. ASSUME NEW c, Known(c)
        PROVE  c.rec.ver # rec.ver
    <3>1. c.rec.ver \in Stamp
      BY <2>4, KnownType
    <3>2. SUFFICES ASSUME c.rec.ver = rec.ver PROVE FALSE
      OBVIOUS
    <3>3. ClockLeq(c.rec.ver, clk[r])
      BY <2>1, <2>4, <3>2 DEF Stamping, OwnClocked
    <3>4. Before(rec.ver, rec.ver)
      BY <2>1, <3>2, <3>3
    <3> QED BY <2>1, <3>4, BeforeIsOrder
  <2>5. Unique'
    BY <1>2, <2>1, <2>4 DEF new, Stamping, Unique
  <2> QED BY <2>2, <2>3, <2>5 DEF Stamping
<1> QED BY <1>1, <1>2, KnownSteps

(* Two writes never share a version, and a version's own node is past it. *)
LEMMA StampsAreUnique ==
  ASSUME ~FieldLevel, MaxCrashes = 0
  PROVE  Spec => []Stamping
<1>1. Init => Stamping
  BY DEF Init, Stamping, OwnClocked, Whole, Unique, Known
<1> QED BY <1>1, TypeInvariant, StepStamping, PTL DEF Spec

(* The versions save(), remove() and patch() give are all different: on one
   replica because its clock moves on with every now() (hlc.ts:14), between
   replicas because of the node id.  So "remote.version > local.version"
   (SyncBackend.ts:32) decides between any two writes. *)
THEOREM VersionsNeverRepeat ==
  ASSUME ~FieldLevel, MaxCrashes = 0
  PROVE  Spec => []VersionsUnique
<1>1. Stamping => VersionsUnique
  BY DEF Stamping, Unique, Known, VersionsUnique
<1> QED BY <1>1, StampsAreUnique, PTL

(* What a replica stores is committed, what it has queued is committed or on
   its way there; the same of what the hub and the calls carry. *)
OutboxOrigin == \A r \in Replica : \A e \in outbox[r] : e.ch \in committed

StoreOrigin ==
  /\ \A r \in Replica, k \in Key :
       local[r][k] # Absent => [key |-> k, rec |-> local[r][k]] \in committed
  /\ \A r \in Replica, k \in Key : saves[r][k] # Absent =>
       \/ [key |-> k, rec |-> saves[r][k]] \in committed
       \/ \E e \in enqueued[r] : e.ch = [key |-> k, rec |-> saves[r][k]]
  /\ OutboxOrigin

HubOrigin ==
  /\ \A i \in DOMAIN AllRows : AllRows[i].ch \in committed
  /\ \A q \in inbox : Holding(q.batch) \subseteq committed
  /\ job # Absent => Holding(job.rest) \subseteq committed /\ Holding(job.conflicts) \subseteq committed

CallOrigin == \A t \in Client : Holding(task[t].todo) \subseteq committed

Travels == OutboxOrigin /\ HubOrigin /\ CallOrigin

Origin == StoreOrigin /\ HubOrigin /\ CallOrigin

LEMMA HoldingType ==
  ASSUME NEW S, NEW s \in Seq(S)
  PROVE  /\ Holding(s) \subseteq S /\ Holding(<<>>) = {}
         /\ s # <<>> => Head(s) \in Holding(s) /\ Holding(Tail(s)) \subseteq Holding(s)
         /\ \A e \in S : Holding(Append(s, e)) = Holding(s) \cup {e}
<1>1. s # <<>> => Head(s) \in Holding(s) /\ Holding(Tail(s)) \subseteq Holding(s)
  BY HeadTailProperties, LenProperties DEF Holding
<1>2. ASSUME NEW e \in S
      PROVE  Holding(Append(s, e)) = Holding(s) \cup {e}
  <2>1. /\ DOMAIN Append(s, e) = 1..(Len(s) + 1) /\ DOMAIN s = 1..Len(s) /\ Len(s) \in Nat
        /\ Append(s, e)[Len(s) + 1] = e /\ \A i \in 1..Len(s) : Append(s, e)[i] = s[i]
    BY AppendProperties, LenProperties
  <2> QED BY <2>1 DEF Holding
<1>3. Holding(s) \subseteq S
  BY ElementOfSeq, LenProperties DEF Holding
<1>4. Holding(<<>>) = {}
  BY DEF Holding
<1> QED BY <1>1, <1>2, <1>3, <1>4

LEMMA StoreOriginKept ==
  ASSUME TypeInv, ~FieldLevel, Origin, [Next]_vars
  PROVE  StoreOrigin'
<1>0. /\ local \in [Replica -> [Key -> Record \cup {Absent}]]
      /\ saves \in [Replica -> [Key -> Record \cup {Absent}]]
      /\ outbox \in [Replica -> SUBSET Entry] /\ enqueued \in [Replica -> SUBSET Entry]
  BY DEF TypeInv, TypeOK
<1>1. ASSUME NEW r \in Replica, NEW k \in Key, NEW rec, Queues(r, k, rec)
      PROVE  StoreOrigin'
  <2>1. /\ saves' = [saves EXCEPT ![r][k] = rec]
        /\ enqueued' = [enqueued EXCEPT ![r] = @ \cup {NewEntry(k, rec)}]
        /\ UNCHANGED <<local, outbox, committed>>
    BY <1>1 DEF Queues
  <2>2. NewEntry(k, rec).ch = [key |-> k, rec |-> rec]
    BY DEF NewEntry
  <2>3. ASSUME NEW s \in Replica, NEW j \in Key, saves'[s][j] # Absent
        PROVE  \/ [key |-> j, rec |-> saves'[s][j]] \in committed'
               \/ \E e \in enqueued'[s] : e.ch = [key |-> j, rec |-> saves'[s][j]]
    <3>1. CASE s = r /\ j = k
      <4>1. saves'[s][j] = rec /\ NewEntry(k, rec) \in enqueued'[s]
        BY <1>0, <2>1, <3>1
      <4> QED BY <2>2, <3>1, <4>1
    <3>2. CASE ~(s = r /\ j = k)
      <4>1. saves'[s][j] = saves[s][j] /\ enqueued[s] \subseteq enqueued'[s]
        BY <1>0, <2>1, <3>2
      <4> QED BY <2>1, <2>3, <4>1 DEF Origin, StoreOrigin, OutboxOrigin
    <3> QED BY <3>1, <3>2
  <2> QED BY <2>1, <2>3 DEF Origin, StoreOrigin, OutboxOrigin
<1>2. ASSUME NEW r \in Replica, NEW more \in SUBSET Entry, NEW x,
             committed' = committed \cup {e.ch : e \in enqueued[r] \cup more},
             \A s \in Replica : /\ s # r => /\ local'[s] = local[s] /\ saves'[s] = saves[s]
                                            /\ outbox'[s] = outbox[s] /\ enqueued'[s] = enqueued[s]
                                /\ s = r => /\ saves'[s] = NoRecords
                                            /\ outbox'[s] \subseteq outbox[s] \cup enqueued[s] \cup more,
             \A j \in Key : \/ local'[r][j] = Flushed(r)[j]
                            \/ \E e \in more : e.ch = [key |-> j, rec |-> local'[r][j]]
      PROVE  StoreOrigin'
  <2>1. ASSUME NEW s \in Replica, NEW j \in Key, local'[s][j] # Absent
        PROVE  [key |-> j, rec |-> local'[s][j]] \in committed'
    <3>1. CASE s # r
      BY <1>2, <2>1, <3>1 DEF Origin, StoreOrigin, OutboxOrigin
    <3>2. CASE s = r /\ local'[s][j] = Flushed(r)[j]
      <4>1. local'[s][j] \in {local[s][j], saves[s][j]}
        BY <3>2 DEF Flushed
      <4>2. CASE local'[s][j] = local[s][j]
        BY <1>2, <2>1, <4>2 DEF Origin, StoreOrigin, OutboxOrigin
      <4>3. CASE local'[s][j] = saves[s][j]
        <5>1. \/ [key |-> j, rec |-> local'[s][j]] \in committed
              \/ \E e \in enqueued[s] : e.ch = [key |-> j, rec |-> local'[s][j]]
          BY <2>1, <4>3 DEF Origin, StoreOrigin
        <5> QED BY <1>2, <3>2, <5>1
      <4> QED BY <4>1, <4>2, <4>3
    <3>3. CASE s = r /\ \E e \in more : e.ch = [key |-> j, rec |-> local'[r][j]]
      BY <1>2, <3>3
    <3> QED BY <1>2, <3>1, <3>2, <3>3
  <2>2. ASSUME NEW s \in Replica, NEW j \in Key, saves'[s][j] # Absent
        PROVE  \/ [key |-> j, rec |-> saves'[s][j]] \in committed'
               \/ \E e \in enqueued'[s] : e.ch = [key |-> j, rec |-> saves'[s][j]]
    <3>1. s # r
      BY <1>2, <2>2 DEF NoRecords
    <3>2. saves'[s] = saves[s] /\ enqueued'[s] = enqueued[s]
      BY <1>2, <3>1
    <3> QED BY <1>2, <2>2, <3>2 DEF Origin, StoreOrigin, OutboxOrigin
  <2>3. ASSUME NEW s \in Replica, NEW e \in outbox'[s]
        PROVE  e.ch \in committed'
    <3>1. CASE s # r
      BY <1>2, <2>3, <3>1 DEF Origin, StoreOrigin, OutboxOrigin
    <3>2. CASE s = r
      BY <1>2, <2>3, <3>2 DEF Origin, StoreOrigin, OutboxOrigin
    <3> QED BY <3>1, <3>2
  <2> QED BY <2>1, <2>2, <2>3 DEF StoreOrigin, OutboxOrigin
<1>3. ASSUME NEW r \in Replica, NEW k \in Key, NEW rec, Patches(r, k, rec)
      PROVE  StoreOrigin'
  <2> DEFINE more == {NewEntry(k, rec)}
  <2>1. more \in SUBSET Entry
    <3>1. Stamps(r, rec) /\ StoreTypes /\ wall \in [Replica -> Nat]
      BY <1>3, TypeParts DEF Patches, TypeInv
    <3> QED BY <3>1, StampsType
  <2>2. committed' = committed \cup {e.ch : e \in enqueued[r] \cup more}
    BY <1>3 DEF Patches
  <2>3. \A s \in Replica : /\ s # r => /\ local'[s] = local[s] /\ saves'[s] = saves[s]
                                       /\ outbox'[s] = outbox[s] /\ enqueued'[s] = enqueued[s]
                           /\ s = r => /\ saves'[s] = NoRecords
                                       /\ outbox'[s] \subseteq outbox[s] \cup enqueued[s] \cup more
    BY <1>0, <1>3 DEF Patches, DropQueue
  <2>4. \A j \in Key : \/ local'[r][j] = Flushed(r)[j]
                       \/ \E e \in more : e.ch = [key |-> j, rec |-> local'[r][j]]
    <3>1. local'[r] = [Flushed(r) EXCEPT ![k] = rec]
      BY <1>0, <1>3 DEF Patches
    <3>2. k \in DOMAIN Flushed(r)
      BY DEF Flushed
    <3> QED BY <3>1, <3>2 DEF NewEntry
  <2> HIDE DEF more
  <2> QED BY <1>2, <2>1, <2>2, <2>3, <2>4
<1>4. ASSUME NEW r \in Replica, NEW removed, Flushes(r, removed)
      PROVE  StoreOrigin'
  <2> DEFINE none == {}
  <2>1. committed' = committed \cup {e.ch : e \in enqueued[r] \cup none}
    BY <1>4 DEF Flushes, FlushAnd
  <2>2. \A s \in Replica : /\ s # r => /\ local'[s] = local[s] /\ saves'[s] = saves[s]
                                       /\ outbox'[s] = outbox[s] /\ enqueued'[s] = enqueued[s]
                           /\ s = r => /\ saves'[s] = NoRecords
                                       /\ outbox'[s] \subseteq outbox[s] \cup enqueued[s] \cup none
    BY <1>0, <1>4 DEF Flushes, FlushAnd, DropQueue
  <2>3. \A j \in Key : \/ local'[r][j] = Flushed(r)[j]
                       \/ \E e \in none : e.ch = [key |-> j, rec |-> local'[r][j]]
    BY <1>0, <1>4 DEF Flushes, FlushAnd
  <2>4. none \in SUBSET Entry OBVIOUS
  <2> HIDE DEF none
  <2> QED BY <1>2, <2>1, <2>2, <2>3, <2>4
<1>5. ASSUME NEW r \in Replica, Drops(r)
      PROVE  StoreOrigin'
  <2>1. /\ UNCHANGED <<local, outbox, committed>> /\ saves'[r] = NoRecords
        /\ \A s \in Replica : s # r => saves'[s] = saves[s] /\ enqueued'[s] = enqueued[s]
    BY <1>0, <1>5 DEF Drops, DropQueue
  <2>2. \A s \in Replica, j \in Key : saves'[s][j] # Absent =>
          saves'[s][j] = saves[s][j] /\ enqueued'[s] = enqueued[s]
    BY <2>1 DEF NoRecords
  <2>3. /\ \A s \in Replica, j \in Key :
             local'[s][j] # Absent => [key |-> j, rec |-> local'[s][j]] \in committed'
        /\ \A s \in Replica : \A e \in outbox'[s] : e.ch \in committed'
    BY <2>1 DEF Origin, StoreOrigin, OutboxOrigin
  <2>4. \A s \in Replica, j \in Key : saves'[s][j] # Absent =>
          \/ [key |-> j, rec |-> saves'[s][j]] \in committed'
          \/ \E e \in enqueued'[s] : e.ch = [key |-> j, rec |-> saves'[s][j]]
    <3> SUFFICES ASSUME NEW s \in Replica, NEW j \in Key, saves'[s][j] # Absent
                 PROVE  \/ [key |-> j, rec |-> saves'[s][j]] \in committed'
                        \/ \E e \in enqueued'[s] : e.ch = [key |-> j, rec |-> saves'[s][j]]
      OBVIOUS
    <3>1. saves'[s][j] = saves[s][j] /\ enqueued'[s] = enqueued[s] /\ committed' = committed
      BY <2>1, <2>2
    <3> QED BY <3>1 DEF Origin, StoreOrigin, OutboxOrigin
  <2> QED BY <2>3, <2>4 DEF StoreOrigin, OutboxOrigin
<1>6. ASSUME NEW t \in Client, Applies(t), task[t].todo # <<>>
      PROVE  StoreOrigin'
  <2> DEFINE r == Owner[t]
             change == Head(task[t].todo)
  <2>1. /\ r \in Replica /\ change \in Change /\ change.key \in Key
        /\ saves' = saves \/ saves' = [saves EXCEPT ![r][change.key] = change.rec]
    BY <1>6, AppliesWhole
  <2>2. UNCHANGED <<local, outbox, enqueued, committed>>
    BY <1>6 DEF Applies
  <2>3. change \in committed
    BY <1>6, TaskType, HoldingType DEF Origin, CallOrigin
  <2>4. change = [key |-> change.key, rec |-> change.rec]
    BY <2>1 DEF Change
  <2> HIDE DEF r, change
  <2>5. ASSUME NEW s \in Replica, NEW j \in Key, saves'[s][j] # Absent
        PROVE  \/ [key |-> j, rec |-> saves'[s][j]] \in committed
               \/ \E e \in enqueued[s] : e.ch = [key |-> j, rec |-> saves'[s][j]]
    <3>1. CASE saves'[s][j] = saves[s][j]
      BY <2>5, <3>1 DEF Origin, StoreOrigin, OutboxOrigin
    <3>2. CASE saves'[s][j] # saves[s][j]
      <4>1. saves' = [saves EXCEPT ![r][change.key] = change.rec]
        BY <2>1, <3>2
      <4>2. s = r /\ j = change.key /\ saves'[s][j] = change.rec
        BY <1>0, <2>1, <3>2, <4>1
      <4> QED BY <2>3, <2>4, <4>2
    <3> QED BY <3>1, <3>2
  <2> QED BY <2>2, <2>5 DEF Origin, StoreOrigin, OutboxOrigin
<1>7. CASE Rests
  BY <1>7 DEF Rests, Origin, StoreOrigin, OutboxOrigin
<1>8. ASSUME NEW r \in Replica, Crash(r)
      PROVE  StoreOrigin'
  <2>1. /\ DropQueue(r) /\ committed' = committed
        /\ local' \in {local, [local EXCEPT ![r] = NoRecords]}
        /\ outbox' \in {outbox, [outbox EXCEPT ![r] = {}]}
    BY <1>8 DEF Crash
  <2>2. /\ committed' = committed /\ saves'[r] = NoRecords
        /\ \A s \in Replica : s # r => saves'[s] = saves[s] /\ enqueued'[s] = enqueued[s]
        /\ \A s \in Replica : local'[s] \in {local[s], NoRecords} /\ outbox'[s] \subseteq outbox[s]
    BY <1>0, <2>1 DEF DropQueue
  <2>3. \A s \in Replica, j \in Key : saves'[s][j] # Absent =>
          saves'[s][j] = saves[s][j] /\ enqueued'[s] = enqueued[s]
    BY <2>2 DEF NoRecords
  <2>4. \A s \in Replica, j \in Key : local'[s][j] # Absent => local'[s][j] = local[s][j]
    BY <2>2 DEF NoRecords
  <2>5. \A s \in Replica : \A e \in outbox'[s] : e \in outbox[s]
    BY <2>2
  <2> QED BY <2>2, <2>3, <2>4, <2>5 DEF Origin, StoreOrigin, OutboxOrigin
<1> QED BY <1>1, <1>3, <1>4, <1>5, <1>6, <1>7, <1>8, StepEffect

(* The change a rejected one lost against is a row. *)
LEMMA ConflictIsRow ==
  ASSUME HubTypeOK, HubReject
  PROVE  /\ job # Absent /\ job' # Absent /\ job.rest # <<>>
         /\ job'.rest = Tail(job.rest) /\ job'.rows = job.rows /\ job'.to = job.to
         /\ \E i \in DOMAIN AllRows : job'.conflicts = Append(job.conflicts, AllRows[i].ch)
<1> DEFINE change == Head(job.rest)
           current == Latest(Visible, change.key)
<1>1. /\ job # Absent /\ job.rest # <<>> /\ job' \in Job /\ job'.rest = Tail(job.rest)
      /\ job'.rows = job.rows
  BY RejectType
<1>2. ~Accepted(change) /\ job' = [job EXCEPT !.rest = Tail(@), !.conflicts = Append(@, current)]
  BY DEF HubReject
<1>3. Visible \in Seq(Row) /\ Visible = (IF Durable THEN log ELSE AllRows)
  BY <1>1, VisibleType
<1>4. current # Absent
  BY <1>2 DEF Accepted
<1>5. current \in ChangesOf(Visible, change.key)
  BY <1>3, <1>4, LatestIsNewest, LatestOfNone
<1>6. PICK i \in DOMAIN Visible : Visible[i].ch = current
  BY <1>5 DEF ChangesOf
<1>7. i \in DOMAIN AllRows /\ AllRows[i] = Visible[i]
  BY <1>3, <1>6, LogIsPrefix, RowsType
<1> HIDE DEF current
<1>8. job \in Job
  BY <1>1, JobType
<1>9. job'.conflicts = Append(job.conflicts, current) /\ job'.to = job.to
  BY <1>2, <1>8 DEF Job
<1> QED BY <1>1, <1>6, <1>7, <1>9

LEMMA HubOriginKept ==
  ASSUME TypeInv, Travels, [Next]_vars
  PROVE  HubOrigin'
<1>0. HubTypeOK /\ committed \subseteq committed'
  BY KnownSteps DEF TypeInv, TypeOK
<1> DEFINE Requests == \A q \in inbox' : Holding(q.batch) \subseteq committed'
           Serving == job' # Absent =>
             Holding(job'.rest) \subseteq committed' /\ Holding(job'.conflicts) \subseteq committed'
<1>r. Kept \/ CutBack => \A i \in DOMAIN AllRows' : AllRows'[i].ch \in committed'
  BY <1>0, LogIsPrefix, RowsType DEF Kept, CutBack, Travels, HubOrigin
<1>1. ASSUME UNCHANGED <<log, job>>
      PROVE  Kept /\ Serving
  BY <1>0, <1>1 DEF Kept, AllRows, JobRows, Travels, HubOrigin
<1>2. ASSUME inbox' \subseteq inbox
      PROVE  Requests
  BY <1>0, <1>2 DEF Travels, HubOrigin
<1>3. CASE HubTake
  <2>1. PICK req \in inbox :
          /\ inbox' = inbox \ {req}
          /\ job' = [to |-> req.to, rest |-> req.batch, rows |-> <<>>, conflicts |-> <<>>]
    BY <1>3 DEF HubTake
  <2>2. job'.rest = req.batch /\ job'.conflicts = <<>>
    BY <2>1
  <2>3. Serving
    BY <1>0, <2>1, <2>2 DEF Travels, HubOrigin, Holding
  <2> QED BY <1>0, <1>2, <1>3, <1>r, <2>1, <2>3, StepRows DEF HubOrigin
<1>4. CASE HubAppend
  <2>1. /\ job # Absent /\ job.rest # <<>> /\ job' \in Job /\ job'.rest = Tail(job.rest)
        /\ NewRow \in Row /\ NewRow.ch = Head(job.rest)
    BY <1>0, <1>4, AppendType
  <2>2. job'.conflicts = job.conflicts /\ inbox' = inbox
    BY <1>0, <1>4, <2>1, JobType DEF HubAppend, Job
  <2>3. Head(job.rest) \in Holding(job.rest) /\ Holding(Tail(job.rest)) \subseteq Holding(job.rest)
    BY <1>0, <2>1, JobType, HoldingType
  <2>4. Serving
    BY <1>0, <2>1, <2>2, <2>3 DEF Travels, HubOrigin
  <2>5. AllRows' = Append(AllRows, NewRow) /\ AllRows \in Seq(Row)
    BY <1>0, <1>4, StepRows, RowsType DEF Extended
  <2>6. \A i \in DOMAIN AllRows' : AllRows'[i] = NewRow \/ (i \in DOMAIN AllRows /\ AllRows'[i] = AllRows[i])
    BY <2>1, <2>5
  <2>7. \A i \in DOMAIN AllRows' : AllRows'[i].ch \in committed'
    BY <1>0, <2>1, <2>3, <2>6 DEF Travels, HubOrigin
  <2> QED BY <1>2, <2>2, <2>4, <2>7 DEF HubOrigin
<1>5. CASE HubReject
  <2>1. /\ job # Absent /\ job' # Absent /\ job.rest # <<>> /\ job'.rest = Tail(job.rest)
        /\ \E i \in DOMAIN AllRows : job'.conflicts = Append(job.conflicts, AllRows[i].ch)
    BY <1>0, <1>5, ConflictIsRow
  <2>2. PICK i \in DOMAIN AllRows : job'.conflicts = Append(job.conflicts, AllRows[i].ch)
    BY <2>1
  <2>3. AllRows[i].ch \in committed /\ AllRows[i].ch \in Change
    BY <1>0, RowsType, RowSeq DEF Travels, HubOrigin
  <2>4. Holding(job'.conflicts) = Holding(job.conflicts) \cup {AllRows[i].ch}
    BY <1>0, <2>1, <2>2, <2>3, JobType, HoldingType
  <2>5. Holding(job'.rest) \subseteq Holding(job.rest)
    BY <1>0, <2>1, JobType, HoldingType
  <2>6. Serving
    BY <1>0, <2>1, <2>3, <2>4, <2>5 DEF Travels, HubOrigin
  <2>7. inbox' = inbox
    BY <1>5 DEF HubReject
  <2> QED BY <1>0, <1>2, <1>5, <1>r, <2>6, <2>7, StepRows DEF HubOrigin
<1>6. CASE HubCommit \/ HubPersistFails \/ HubRestart
  <2>1. job' = Absent /\ inbox' \subseteq inbox
    BY <1>6 DEF HubCommit, HubPersistFails, HubRestart
  <2> QED BY <1>0, <1>2, <1>6, <1>r, <2>1, StepRows DEF HubOrigin
<1>7. CASE Pulls
  <2>1. UNCHANGED <<log, inbox, job>>
    BY <1>7 DEF Pulls, HubPull
  <2> QED BY <1>1, <1>2, <1>r, <2>1 DEF HubOrigin
<1>8. CASE UNCHANGED <<log, seq, ready, job, faults>> /\ inbox' \subseteq inbox
  BY <1>1, <1>2, <1>8, <1>r DEF HubOrigin
<1>9. ASSUME UNCHANGED <<log, seq, ready, job, faults>>, NEW t \in Client, PushOutbox(t), Sends(t)
      PROVE  HubOrigin'
  <2> DEFINE entries == outbox[Owner[t]] \cup enqueued[Owner[t]]
  <2>1. PICK read \in OutboxReads(entries) :
          inbox' = inbox \cup {[to |-> t, batch |-> [i \in DOMAIN read |-> read[i].ch]]}
    BY <1>9 DEF Sends
  <2>2. entries \in SUBSET Entry
    BY DEF TypeInv, TypeOK
  <2>3. \A i \in DOMAIN read : read[i] \in entries
    BY <2>2, OutboxBatch
  <2>4. committed' = committed \cup {e.ch : e \in enqueued[Owner[t]]}
    BY <1>9 DEF PushOutbox, Flush, FlushAnd
  <2>5. \A e \in entries : e.ch \in committed'
    BY <2>4 DEF Travels, OutboxOrigin
  <2>6. Holding([i \in DOMAIN read |-> read[i].ch]) \subseteq committed'
    BY <2>3, <2>5 DEF Holding
  <2>7. Requests
    BY <1>0, <2>1, <2>6 DEF Travels, HubOrigin
  <2> QED BY <1>1, <1>9, <1>r, <2>7 DEF HubOrigin
<1>10. ASSUME NEW who \in SUBSET Client, Forget(who)
       PROVE  HubOrigin'
  <2>1. /\ inbox' = {[req EXCEPT !.to = IF @ \in who THEN Nobody ELSE @] : req \in inbox}
        /\ job' = IF job # Absent /\ job.to \in who THEN [job EXCEPT !.to = Nobody] ELSE job
    BY <1>10 DEF Forget
  <2>2. Kept
    BY <1>0, <1>10, ForgetType, StepRows
  <2>3. Requests
    <3>1. \A req \in inbox : [req EXCEPT !.to = IF @ \in who THEN Nobody ELSE @].batch = req.batch
      BY <1>0 DEF HubTypeOK, Request
    <3> QED BY <1>0, <2>1, <3>1 DEF Travels, HubOrigin
  <2>4. Serving
    <3>1. job # Absent => job \in Job
      BY <1>0, JobType
    <3>2. job' # Absent => job # Absent /\ job'.rest = job.rest /\ job'.conflicts = job.conflicts
      BY <2>1, <3>1 DEF Job
    <3> QED BY <1>0, <3>2 DEF Travels, HubOrigin
  <2> QED BY <1>r, <2>2, <2>3, <2>4 DEF HubOrigin
<1>11. TypeOK
  BY DEF TypeInv
<1> HIDE DEF Requests, Serving
<1> QED BY <1>3, <1>4, <1>5, <1>6, <1>7, <1>8, <1>9, <1>10, <1>11, StepOfHub DEF HubStep

(* What a call works off is what it was given: the changes of a pull, the
   conflicts of a push, and what remains of them. *)
LEMMA TodoSteps ==
  ASSUME TypeInv, [Next]_vars, NEW t \in Client
  PROVE  \/ task'[t].todo = task[t].todo
         \/ task'[t].todo = <<>>
         \/ task[t].todo # <<>> /\ task'[t].todo = Tail(task[t].todo)
         \/ \E i \in 1..(Len(log) + 1) : task'[t].todo = ChangesFrom(i)
         \/ job # Absent /\ task'[t].todo = job.conflicts
<1>0. task \in [Client -> TaskState] /\ Idle.todo = <<>>
  BY IdleFields DEF TypeInv, TaskTypes
<1>1. ASSUME NEW r \in Replica, Tick(r) \/ Application(r) \/ Crash(r)
      PROVE  task'[t] = task[t] \/ task'[t] = Idle
  <2>1. Tick(r) \/ Application(r) => task' = task
    BY AppLeaves DEF Tick
  <2>2. Crash(r) => task'[t] = task[t] \/ task'[t] = Idle
    BY DEF Crash
  <2> QED BY <1>1, <2>1, <2>2
<1>2. ASSUME NEW u \in Client, Reconcile(u) \/ ReconcileFails(u), u # t
      PROVE  task'[t] = task[t]
  BY <1>2, CallAlone
<1>3. ASSUME Reconcile(t)
      PROVE  \/ task'[t].todo = task[t].todo
             \/ task'[t].todo = <<>>
             \/ task[t].todo # <<>> /\ task'[t].todo = Tail(task[t].todo)
             \/ \E i \in 1..(Len(log) + 1) : task'[t].todo = ChangesFrom(i)
  <2>1. ApplyConflict(t) => task[t].todo # <<>>
    BY TaskType DEF ApplyConflict
  <2> QED BY <1>0, <1>3, <2>1, PullSteps, PushSteps DEF Reconcile
<1>4. ASSUME ReconcileFails(t)
      PROVE  task'[t].todo = <<>>
  BY <1>0, <1>4, FailedSteps
<1>5. ASSUME Hub
      PROVE  \/ task'[t].todo = task[t].todo
             \/ task'[t].todo = <<>>
             \/ job # Absent /\ task'[t].todo = job.conflicts
  <2>1. HubServes => task' = task
    BY DEF HubServes
  <2>2. HubThrows \/ HubRestarts => task'[t] = task[t] \/ task'[t] = Idle
    BY <1>0 DEF HubThrows, HubRestarts
  <2>3. ASSUME HubReplies
        PROVE  task'[t] = task[t] \/ (job # Absent /\ task'[t].todo = job.conflicts)
    <3>1. /\ job # Absent
          /\ task' = IF job.to = Nobody THEN task
                     ELSE [task EXCEPT ![job.to] = [task[job.to] EXCEPT !.pc = "resolving",
                                                                        !.todo = job.conflicts]]
      BY <2>3 DEF HubReplies, HubCommit
    <3>2. task[t] \in TaskState
      BY <1>0
    <3> QED BY <1>0, <3>1, <3>2 DEF TaskState
  <2> QED BY <1>0, <1>5, <2>1, <2>2, <2>3 DEF Hub
<1>6. UNCHANGED vars => task' = task
  BY DEF vars
<1> QED BY <1>0, <1>1, <1>2, <1>3, <1>4, <1>5, <1>6 DEF Next

LEMMA CallOriginKept ==
  ASSUME TypeInv, Travels, [Next]_vars
  PROVE  CallOrigin'
<1> SUFFICES ASSUME NEW t \in Client
             PROVE  Holding(task'[t].todo) \subseteq committed'
  BY DEF CallOrigin
<1>0. committed \subseteq committed' /\ HubTypeOK
  BY KnownSteps DEF TypeInv, TypeOK
<1>1. task[t].todo \in Seq(Change) /\ Holding(task[t].todo) \subseteq committed
  BY TaskType DEF Travels, CallOrigin
<1>2. task[t].todo # <<>> => Holding(Tail(task[t].todo)) \subseteq committed
  BY <1>1, HoldingType
<1>3. Holding(<<>>) \subseteq committed
  BY DEF Holding
<1>4. ASSUME NEW i \in 1..(Len(log) + 1)
      PROVE  Holding(ChangesFrom(i)) \subseteq committed
  <2>1. \A j \in DOMAIN ChangesFrom(i) : \E x \in DOMAIN log : ChangesFrom(i)[j] = log[x].ch
    <3>1. /\ ChangesFrom(i) \in Seq(Change) /\ Len(ChangesFrom(i)) = Len(log) + 1 - i
          /\ \A j \in 1..(Len(log) + 1 - i) : ChangesFrom(i)[j] = log[i + j - 1].ch
          /\ DOMAIN log = 1..Len(log) /\ Len(log) \in Nat
      BY <1>0, <1>4, ChangesFromType, RowsType
    <3>2. DOMAIN ChangesFrom(i) = 1..(Len(log) + 1 - i)
      BY <3>1, LenProperties
    <3>3. ASSUME NEW j \in DOMAIN ChangesFrom(i)
          PROVE  i + j - 1 \in DOMAIN log /\ ChangesFrom(i)[j] = log[i + j - 1].ch
      BY <1>4, <3>1, <3>2
    <3> QED BY <3>3
  <2>2. \A x \in DOMAIN log : log[x].ch \in committed
    BY <1>0, LogIsPrefix, RowsType DEF Travels, HubOrigin
  <2> QED BY <2>1, <2>2 DEF Holding
<1>5. job # Absent => Holding(job.conflicts) \subseteq committed
  BY DEF Travels, HubOrigin
<1> QED BY <1>0, <1>1, <1>2, <1>3, <1>4, <1>5, TodoSteps

LEMMA EverythingWritten ==
  ASSUME ~FieldLevel
  PROVE  Spec => []Origin
<1>1. Init => Origin
  <2> SUFFICES ASSUME Init PROVE Origin
    OBVIOUS
  <2>1. AllRows = <<>> /\ job = Absent /\ inbox = {} /\ \A t \in Client : task[t].todo = <<>>
    BY InitSeq, IdleFields DEF Init, HubInit
  <2>2. StoreOrigin
    BY DEF Init, NoRecords, StoreOrigin, OutboxOrigin
  <2> QED BY <2>1, <2>2 DEF Origin, HubOrigin, CallOrigin, Holding
<1>2. ASSUME TypeInv, Origin, [Next]_vars
      PROVE  Origin'
  <2>1. Travels
    BY <1>2 DEF Origin, StoreOrigin, Travels
  <2> QED BY <1>2, <2>1, StoreOriginKept, HubOriginKept, CallOriginKept DEF Origin
<1> QED BY <1>1, <1>2, TypeInvariant, PTL DEF Spec

---------------------------------------------------------------------------
(* The changelog.  A replica sends what it wrote in the order of its stamps,
   if its store gives the outbox back in order, so that the rows of a record
   are served oldest first. *)

OrderInv ==
  /\ SeqInv
  /\ OrderedOutbox => InOrder
  /\ NewestLast(AllRows)

LEMMA SentInOrder ==
  ASSUME TypeInv, Clocked, OrderedOutbox, NEW t \in Client, Sends(t),
         \A q \in inbox : OldestFirst(q.batch)
  PROVE  \A q \in inbox' : OldestFirst(q.batch)
<1> DEFINE entries == outbox[Owner[t]] \cup enqueued[Owner[t]]
<1>1. PICK read \in OutboxReads(entries) :
        inbox' = inbox \cup {[to |-> t, batch |-> [i \in DOMAIN read |-> read[i].ch]]}
  BY DEF Sends
<1>2. entries \in SUBSET Entry /\ Owner[t] \in Replica
  BY DEF TypeInv, TypeOK
<1>3. \A i \in DOMAIN read : read[i] \in entries
  BY <1>2, OutboxBatch
<1>4. \A i, j \in DOMAIN read : i < j => read[i].n < read[j].n
  BY DEF OutboxReads
<1>5. \A e, d \in entries : e.n < d.n => Before(e.ch.rec.ver, d.ch.rec.ver)
  BY <1>2 DEF Clocked, ClockedAt
<1>6. OldestFirst([i \in DOMAIN read |-> read[i].ch])
  BY <1>3, <1>4, <1>5 DEF OldestFirst
<1> QED BY <1>1, <1>6

LEMMA StepOrder ==
  ASSUME TypeInv, Clocked, OrderInv, [Next]_vars, Durable => OrderedOutbox
  PROVE  OrderInv'
<1>0. HubTypeOK /\ TypeOK
  BY DEF TypeInv, TypeOK
<1>1. HubStep \/ RowsAlone
  BY <1>0, HubPart
<1>2. SeqInv'
  BY <1>0, <1>1, StepSeq DEF OrderInv
<1>3. NewestLast(AllRows)'
  BY <1>0, <1>1, StepNewestLast DEF OrderInv
<1>4. ASSUME OrderedOutbox
      PROVE  InOrder'
  <2>0. InOrder
    BY <1>4 DEF OrderInv
  <2>1. CASE HubStep
    BY <1>0, <2>0, <2>1, StepInOrder
  <2>2. CASE UNCHANGED <<log, seq, ready, job, faults>> /\ inbox' \subseteq inbox
    BY <2>0, <2>2 DEF InOrder
  <2>3. ASSUME UNCHANGED <<log, seq, ready, job, faults>>, NEW t \in Client, Sends(t)
        PROVE  InOrder'
    BY <1>4, <2>0, <2>3, SentInOrder DEF InOrder
  <2>4. ASSUME NEW who \in SUBSET Client, Forget(who)
        PROVE  InOrder'
    <3>1. /\ inbox' = {[req EXCEPT !.to = IF @ \in who THEN Nobody ELSE @] : req \in inbox}
          /\ job' = IF job # Absent /\ job.to \in who THEN [job EXCEPT !.to = Nobody] ELSE job
      BY <2>4 DEF Forget
    <3>2. \A req \in inbox : [req EXCEPT !.to = IF @ \in who THEN Nobody ELSE @].batch = req.batch
      BY <1>0 DEF HubTypeOK, Request
    <3>3. job # Absent => job \in Job
      BY <1>0, JobType
    <3>4. job' # Absent => job # Absent /\ job'.rest = job.rest /\ job'.rows = job.rows
      BY <3>1, <3>3 DEF Job
    <3>5. \A q \in inbox' : OldestFirst(q.batch)
      BY <2>0, <3>1, <3>2 DEF InOrder
    <3> QED BY <2>0, <3>4, <3>5 DEF InOrder
  <2> QED BY <1>0, <2>1, <2>2, <2>3, <2>4, StepOfHub
<1> QED BY <1>2, <1>3, <1>4 DEF OrderInv

LEMMA RowsInOrder ==
  ASSUME ~FieldLevel, MaxCrashes = 0 \/ ~DurableLocal, Durable => OrderedOutbox
  PROVE  Spec => []OrderInv
<1>1. Init => OrderInv
  <2> SUFFICES ASSUME Init PROVE OrderInv
    OBVIOUS
  <2>1. AllRows = <<>> /\ SeqInv /\ inbox = {} /\ job = Absent
    BY InitSeq DEF Init, HubInit
  <2> QED BY <2>1 DEF OrderInv, InOrder, NewestLast
<1> QED BY <1>1, TypeInvariant, ClocksLead, StepOrder, PTL DEF Spec

---------------------------------------------------------------------------
(* Pulling.  What a replica has stored, and what its next persist will store
   (Flushed), is followed against the rows of the log. *)

AtLeast(rec, ver) == rec # Absent /\ ~Before(rec.ver, ver)
HasRow(r, i) == AtLeast(local[r][log[i].ch.key], log[i].ch.rec.ver)
WillHaveRow(r, i) == AtLeast(Flushed(r)[log[i].ch.key], log[i].ch.rec.ver)

LEMMA LastRow ==
  ASSUME NEW rows \in Seq(Row), rows # <<>>
  PROVE  Last(rows) = rows[Len(rows)] /\ Last(rows).seq \in Nat
<1>1. Len(rows) \in DOMAIN rows
  OBVIOUS
<1> QED BY <1>1, RowSeq DEF Last

(* The log is only appended to, past the number any cursor can stand at. *)
LEMMA LogAppends ==
  ASSUME TypeInv, SeqInv, [Next]_vars
  PROVE  /\ Len(log) \in Nat /\ Len(log') \in Nat /\ Len(log) <= Len(log')
         /\ DOMAIN log = 1..Len(log) /\ DOMAIN log' = 1..Len(log')
         /\ \A i \in DOMAIN log : log'[i] = log[i]
         /\ \A i \in DOMAIN log' : i > Len(log) => log'[i].seq > LastSeq
         /\ LastSeq \in Nat /\ LastSeq' \in Nat /\ LastSeq <= LastSeq'
<1>0. HubTypeOK /\ HubTypeOK' /\ TypeOK
  BY HubPart DEF TypeInv, TypeOK
<1>1. /\ log \in Seq(Row) /\ Len(log) \in Nat /\ DOMAIN log = 1..Len(log)
      /\ DOMAIN AllRows = 1..Len(AllRows) /\ Len(log) <= Len(AllRows)
      /\ LastSeq \in Nat /\ LastSeq' \in Nat /\ Len(AllRows) \in Nat
      /\ \A i \in DOMAIN AllRows : AllRows[i].seq \in Nat
  <2>1. LastSeq' \in Nat
    <3>1. log' \in Seq(Row)
      BY <1>0 DEF HubTypeOK
    <3> QED BY <3>1, LastRow DEF LastSeq
  <2> QED BY <1>0, <2>1, RowsType, LogIsPrefix, LastSeqType, RowSeq
<1>2. ASSUME NEW i \in DOMAIN AllRows, i > Len(log)
      PROVE  AllRows[i].seq > LastSeq
  <2>1. CASE log = <<>>
    <3>1. LastSeq = 0
      BY <2>1 DEF LastSeq
    <3> QED BY <3>1 DEF SeqInv, Numbered
  <2>2. CASE log # <<>>
    <3>1. LastSeq = AllRows[Len(log)].seq /\ Len(log) \in DOMAIN AllRows
      BY <1>0, <1>1, <2>2, LastSeqType, LogIsPrefix
    <3> QED BY <1>1, <1>2, <3>1 DEF SeqInv, Numbered
  <2> QED BY <2>1, <2>2
<1>3. log' = log \/ log' = AllRows
  <2>1. HubCommit => log' = AllRows
    BY DEF HubCommit, AllRows, JobRows
  <2>2. HubStep => log' = log \/ HubCommit
    BY DEF HubStep, HubTake, HubAppend, HubReject, HubPersistFails, HubRestart, Pulls, HubPull
  <2> QED BY <1>0, <2>1, <2>2, HubPart DEF RowsAlone
<1>4. CASE log' = log
  <2>1. LastSeq' = LastSeq
    BY <1>4 DEF LastSeq
  <2> QED BY <1>1, <1>4, <2>1
<1>5. CASE log' = AllRows
  <2>1. \A i \in DOMAIN log : log'[i] = log[i]
    BY <1>0, <1>1, <1>5, LogIsPrefix
  <2>2. LastSeq <= LastSeq'
    <3>1. CASE AllRows = log
      BY <1>1, <1>5, <3>1 DEF LastSeq
    <3>2. CASE Len(AllRows) > Len(log)
      <4>1. log' # <<>> /\ Len(AllRows) \in DOMAIN AllRows
        BY <1>0, <1>1, <1>5, <3>2, RowsType
      <4>2. LastSeq' = AllRows[Len(AllRows)].seq
        BY <1>0, <1>5, <4>1 DEF LastSeq, Last
      <4> QED BY <1>1, <1>2, <3>2, <4>1, <4>2
    <3>3. CASE Len(AllRows) = Len(log)
      <4>1. AllRows = log
        BY <1>0, <1>1, <3>3, LogIsPrefix, RowsType
      <4> QED BY <3>1, <4>1
    <3>4. Len(AllRows) > Len(log) \/ Len(AllRows) = Len(log)
      <4>1. \A a, b \in Nat : a <= b => b > a \/ b = a
        OBVIOUS
      <4> QED BY <1>1, <4>1, Zenon
    <3> QED BY <3>2, <3>3, <3>4
  <2> QED BY <1>0, <1>1, <1>2, <1>5, <2>1, <2>2, RowsType
<1> QED BY <1>3, <1>4, <1>5

LEMMA AtLeastMore ==
  ASSUME NEW a \in Record, NEW b \in Record, NEW v \in Stamp, AtLeast(a, v),
         ~Before(b.ver, a.ver)
  PROVE  AtLeast(b, v)
<1>1. a.ver \in Stamp /\ b.ver \in Stamp /\ b # Absent
  BY DEF Record
<1>2. Before(b.ver, v) => Before(b.ver, a.ver)
  <2> DEFINE Nats == /\ a.ver.phys \in Nat /\ a.ver.ctr \in Nat /\ a.ver.node \in Nat
                     /\ b.ver.phys \in Nat /\ b.ver.ctr \in Nat /\ b.ver.node \in Nat
                     /\ v.phys \in Nat /\ v.ctr \in Nat /\ v.node \in Nat
  <2>1. Nats
    BY <1>1 DEF Stamp
  <2> QED BY <2>1 DEF AtLeast, Before, ClockLess
<1> QED BY <1>1, <1>2 DEF AtLeast

(* What is stored, and what the next persist will store, only becomes newer:
   true of every step of r but the application of a change that was read
   earlier, and a persist that throws. *)
Grows(r) ==
  \A k \in Key, v \in Stamp :
    /\ AtLeast(Flushed(r)[k], v) => AtLeast(Flushed(r)[k], v)'
    /\ AtLeast(Flushed(r)[k], v) /\ AtLeast(local[r][k], v) => AtLeast(local[r][k], v)'

LEMMA FlushGrows ==
  ASSUME TypeInv, NEW r \in Replica, saves'[r] = NoRecords,
         \A k \in Key : \/ local'[r][k] = Flushed(r)[k]
                        \/ /\ local'[r][k] \in Record
                           /\ Flushed(r)[k] # Absent => ~Before(local'[r][k].ver, Flushed(r)[k].ver)
  PROVE  Grows(r)
<1> SUFFICES ASSUME NEW k \in Key, NEW v \in Stamp, AtLeast(Flushed(r)[k], v)
             PROVE  AtLeast(Flushed(r)[k], v)' /\ AtLeast(local[r][k], v)'
  BY DEF Grows
<1>1. Flushed(r)'[k] = local'[r][k]
  BY DEF Flushed, NoRecords
<1>2. Flushed(r)[k] \in Record
  <2>1. Flushed(r)[k] \in Record \cup {Absent}
    BY FlushedType, TypeParts DEF TypeInv
  <2> QED BY <2>1 DEF AtLeast
<1>3. AtLeast(local'[r][k], v)
  <2>1. CASE local'[r][k] = Flushed(r)[k]
    BY <2>1
  <2>2. CASE local'[r][k] # Flushed(r)[k]
    BY <1>2, <2>2, AtLeastMore DEF AtLeast
  <2> QED BY <2>1, <2>2
<1> QED BY <1>1, <1>3

LEMMA QueueGrows ==
  ASSUME TypeInv, ~FieldLevel, Clocked, NEW r \in Replica, NEW k \in Key, NEW rec,
         Queues(r, k, rec) \/ Patches(r, k, rec)
  PROVE  Grows(r)
<1>0. /\ local \in [Replica -> [Key -> Record \cup {Absent}]]
      /\ saves \in [Replica -> [Key -> Record \cup {Absent}]]
  BY DEF TypeInv, TypeOK
<1>1. Stamps(r, rec) /\ rec \in Record
  BY DEF Queues, Patches, Stamps
<1>2. \A j \in Key : Flushed(r)[j] # Absent =>
        /\ Flushed(r)[j] \in Record /\ Flushed(r)[j].ver \in Stamp
        /\ Before(Flushed(r)[j].ver, rec.ver) /\ rec.ver \in Stamp
  <2> SUFFICES ASSUME NEW j \in Key, Flushed(r)[j] # Absent
               PROVE  /\ Flushed(r)[j] \in Record /\ Flushed(r)[j].ver \in Stamp
                      /\ Before(Flushed(r)[j].ver, rec.ver) /\ rec.ver \in Stamp
    OBVIOUS
  <2>1. Flushed(r)[j] = local[r][j] \/ Flushed(r)[j] = saves[r][j]
    BY DEF Flushed
  <2>2. Flushed(r)[j] \in Record /\ Flushed(r)[j].ver \in Stamp
    BY <2>1, StoredStamps
  <2>3. ClockLeq(Flushed(r)[j].ver, clk[r])
    BY <2>1 DEF Clocked, ClockedAt
  <2> QED BY <1>1, <2>2, <2>3, StampsFollow
<1>3. \A j \in Key : Flushed(r)[j] # Absent => ~Before(rec.ver, Flushed(r)[j].ver)
  BY <1>2, BeforeIsOrder
<1>4. CASE Queues(r, k, rec)
  <2>1. /\ local' = local /\ rec # Absent
        /\ \A j \in Key : saves'[r][j] = IF j = k THEN rec ELSE saves[r][j]
    BY <1>0, <1>1, <1>4 DEF Queues
  <2>2. \A j \in Key : Flushed(r)'[j] = IF j = k THEN rec ELSE Flushed(r)[j]
    BY <2>1 DEF Flushed
  <2> SUFFICES ASSUME NEW j \in Key, NEW v \in Stamp, AtLeast(Flushed(r)[j], v)
               PROVE  AtLeast(Flushed(r)'[j], v)
    BY <2>1 DEF Grows
  <2>3. CASE j = k
    <3>1. Flushed(r)[j] \in Record /\ ~Before(rec.ver, Flushed(r)[j].ver)
      BY <1>2, <1>3 DEF AtLeast
    <3> QED BY <1>1, <2>2, <2>3, <3>1, AtLeastMore
  <2>4. CASE j # k
    BY <2>2, <2>4
  <2> QED BY <2>3, <2>4
<1>5. CASE Patches(r, k, rec)
  <2>1. local'[r] = [Flushed(r) EXCEPT ![k] = rec] /\ saves'[r] = NoRecords
    BY <1>0, <1>5 DEF Patches, DropQueue
  <2>2. \A j \in Key : local'[r][j] = IF j = k THEN rec ELSE Flushed(r)[j]
    BY <2>1 DEF Flushed
  <2> QED BY <1>1, <1>3, <2>1, <2>2, FlushGrows
<1> QED BY <1>4, <1>5

LEMMA StepGrows ==
  ASSUME TypeInv, ~FieldLevel, Clocked, [Next]_vars, MaxCrashes = 0, localFaults' = 0,
         NEW r \in Replica
  PROVE  Grows(r) \/ \E t \in Client : Owner[t] = r /\ (ApplyPulled(t) \/ ApplyConflict(t))
<1>0. /\ local \in [Replica -> [Key -> Record \cup {Absent}]]
      /\ saves \in [Replica -> [Key -> Record \cup {Absent}]]
      /\ localFaults \in Nat /\ crashes \in Nat
  BY DEF TypeInv, TypeOK
<1>1. ASSUME local'[r] = local[r], saves'[r] = saves[r]
      PROVE  Grows(r)
  BY <1>1 DEF Grows, Flushed
<1>2. ASSUME NEW s \in Replica, NEW k \in Key, NEW rec, Queues(s, k, rec) \/ Patches(s, k, rec)
      PROVE  Grows(r)
  <2>1. s # r => local'[r] = local[r] /\ saves'[r] = saves[r]
    BY <1>0, <1>2 DEF Queues, Patches, DropQueue
  <2> QED BY <1>1, <1>2, <2>1, QueueGrows
<1>3. ASSUME NEW s \in Replica, NEW removed, Flushes(s, removed)
      PROVE  Grows(r)
  <2>1. s # r => local'[r] = local[r] /\ saves'[r] = saves[r]
    BY <1>0, <1>3 DEF Flushes, FlushAnd, DropQueue
  <2>2. s = r => local'[r] = Flushed(r) /\ saves'[r] = NoRecords
    BY <1>0, <1>3 DEF Flushes, FlushAnd, DropQueue
  <2> QED BY <1>1, <2>1, <2>2, FlushGrows
<1>4. ASSUME NEW t \in Client, ApplyPulled(t) \/ ApplyConflict(t), Applies(t), task[t].todo # <<>>,
             Owner[t] # r
      PROVE  Grows(r)
  <2>1. /\ local' = local
        /\ \E k, x : saves' = saves \/ saves' = [saves EXCEPT ![Owner[t]][k] = x]
    BY <1>4, AppliesWhole DEF Applies
  <2>2. saves'[r] = saves[r]
    BY <1>0, <1>4, <2>1
  <2> QED BY <1>1, <2>1, <2>2
<1>5. Rests => Grows(r)
  BY <1>1 DEF Rests
<1>6. localFaults' # localFaults + 1 /\ \A s \in Replica : ~Crash(s)
  BY <1>0 DEF Crash
<1> QED BY <1>2, <1>3, <1>4, <1>5, <1>6, StepEffect

(* One reconcile() at a time, per replica. *)
OneCall == \A t, u \in Client : Owner[t] = Owner[u] => t = u

Answered(t) ==
  /\ job # Absent /\ task[t].pc = "pushing" /\ task'[t].pc = "resolving"
  /\ task'[t].applied = task[t].applied /\ task'[t].next = task[t].next
  /\ task'[t].found = task[t].found /\ task'[t].todo = job.conflicts

CutOff(t) == task[t].pc \in {"pulling", "pushing"} /\ task'[t] = Idle

(* What a step does to a call: its own step, the hub's answer, or a broken
   connection. *)
LEMMA CallSteps ==
  ASSUME TypeInv, PushInv, [Next]_vars, MaxCrashes = 0, NEW t \in Client
  PROVE  \/ task'[t] = task[t]
         \/ Reconcile(t) \/ ReconcileFails(t)
         \/ Answered(t) \/ CutOff(t)
<1>0. task \in [Client -> TaskState] /\ crashes \in Nat /\ HubTypeOK
  BY DEF TypeInv, TypeOK, TaskTypes
<1>1. ASSUME NEW r \in Replica, Tick(r) \/ Application(r) \/ Crash(r)
      PROVE  task'[t] = task[t]
  BY <1>0, <1>1, AppLeaves DEF Tick, Crash
<1>2. ASSUME NEW u \in Client, Reconcile(u) \/ ReconcileFails(u), u # t
      PROVE  task'[t] = task[t]
  BY <1>2, CallAlone
<1>3. ASSUME Hub
      PROVE  task'[t] = task[t] \/ Answered(t) \/ CutOff(t)
  <2>1. HubServes => task' = task
    BY DEF HubServes
  <2>2. HubRestarts => task'[t] = task[t] \/ CutOff(t)
    BY DEF HubRestarts, CutOff
  <2>3. HubThrows => task'[t] = task[t] \/ CutOff(t)
    BY <1>0 DEF HubThrows, HubPersistFails, CutOff, PushInv, OneRequest
  <2>4. ASSUME HubReplies
        PROVE  task'[t] = task[t] \/ Answered(t)
    <3>1. /\ job # Absent
          /\ task' = IF job.to = Nobody THEN task
                     ELSE [task EXCEPT ![job.to] = [task[job.to] EXCEPT !.pc = "resolving",
                                                                        !.todo = job.conflicts]]
      BY <2>4 DEF HubReplies, HubCommit
    <3>2. CASE job.to # t
      BY <1>0, <3>1, <3>2
    <3>3. CASE job.to = t
      <4>1. task[t].pc = "pushing" /\ task[t] \in TaskState /\ t # Nobody
        BY <1>0, <3>1, <3>3 DEF PushInv, OneRequest
      <4>2. task'[t] = [task[t] EXCEPT !.pc = "resolving", !.todo = job.conflicts]
        BY <1>0, <3>1, <3>3, <4>1
      <4> QED BY <3>1, <4>1, <4>2 DEF TaskState, Answered
    <3> QED BY <3>2, <3>3
  <2> QED BY <1>3, <2>1, <2>2, <2>3, <2>4 DEF Hub
<1>4. UNCHANGED vars => task' = task
  BY DEF vars
<1> QED BY <1>1, <1>2, <1>3, <1>4 DEF Next

LEMMA CursorSteps ==
  ASSUME TypeInv, [Next]_vars, MaxCrashes = 0, localFaults' = 0, NEW r \in Replica
  PROVE  \/ cursor'[r] = cursor[r]
         \/ \E t \in Client : Owner[t] = r /\ PullDone(t) /\ cursor'[r] = task[t].next
<1>0. cursor \in [Replica -> Nat] /\ crashes \in Nat /\ localFaults \in Nat
  BY DEF TypeInv, TypeOK
<1>1. ASSUME NEW s \in Replica, Tick(s) \/ Application(s) \/ Crash(s)
      PROVE  cursor' = cursor
  BY <1>0, <1>1, AppLeaves DEF Tick, Crash
<1>2. ASSUME NEW t \in Client, Reconcile(t)
      PROVE  cursor' = cursor \/ PullDone(t)
  BY <1>2
  DEF Reconcile, StartPull, ServePull, LoadLocalRecords, ApplyPulled, PushOutbox, LocalRecord,
      ApplyConflict, PushDone, replicaVars
<1>3. ASSUME NEW t \in Client, PullDone(t)
      PROVE  cursor' = [cursor EXCEPT ![Owner[t]] = task[t].next]
  BY <1>3 DEF PullDone
<1>4. ASSUME NEW t \in Client, ReconcileFails(t)
      PROVE  cursor' = cursor
  <2>1. ~PullDoneFails(t)
    BY <1>0 DEF PullDoneFails, LocalPersistFails
  <2> QED BY <1>4, <2>1
      DEF ReconcileFails, PullLost, PushOutboxFails, PushRequestLost, PushTimesOut,
          PushDoneFails, replicaVars
<1>5. Hub => cursor' = cursor
  BY HubEffect
<1>6. UNCHANGED vars => cursor' = cursor
  BY DEF vars, replicaVars
<1> QED BY <1>0, <1>1, <1>2, <1>3, <1>4, <1>5, <1>6 DEF Next

(* Cursors are numbers of rows that were served, and a request carries the
   cursor as it is; a call that has applied something is past its answer. *)
CursorInLog ==
  /\ \A r \in Replica : cursor[r] <= LastSeq
  /\ \A t \in Client : task[t].next <= LastSeq
  /\ \A t \in Client : task[t].pc = "pulling" => task[t].next = cursor[Owner[t]]

AppliedWhen == \A t \in Client : task[t].applied => task[t].pc \in {"applying", "resolving", "resolve"}

LEMMA StepCursor ==
  ASSUME TypeInv, PushInv, SeqInv, CursorInLog, [Next]_vars, MaxCrashes = 0, localFaults' = 0,
         OneCall
  PROVE  CursorInLog'
<1>0. /\ LastSeq \in Nat /\ LastSeq' \in Nat /\ LastSeq <= LastSeq'
      /\ cursor \in [Replica -> Nat] /\ \A t \in Client : task[t].next \in Nat /\ Owner[t] \in Replica
  BY LogAppends, TaskType DEF TypeInv, TypeOK
<1>1. ASSUME NEW r \in Replica
      PROVE  cursor'[r] <= LastSeq'
  <2>1. cursor'[r] \in Nat /\ cursor'[r] <= LastSeq
    BY <1>0, CursorSteps DEF CursorInLog
  <2> QED BY <1>0, <2>1
<1>2. ASSUME NEW t \in Client
      PROVE  /\ task'[t].next <= LastSeq'
             /\ task'[t].pc = "pulling" => task'[t].next = cursor'[Owner[t]]
  <2>1. CASE task'[t] = task[t]
    <3>1. task[t].pc = "pulling" => cursor'[Owner[t]] = cursor[Owner[t]]
      <4>1. \A u \in Client : PullDone(u) => task[u].pc = "applying"
        BY PullSteps
      <4> QED BY <1>0, <4>1, CursorSteps DEF OneCall
    <3> QED BY <1>0, <2>1, <3>1 DEF CursorInLog
  <2>2. CASE ReconcileFails(t) \/ CutOff(t)
    BY <1>0, <2>2, FailedSteps, IdleFields DEF CutOff
  <2>3. CASE Answered(t)
    BY <1>0, <2>3 DEF Answered, CursorInLog
  <2>4. CASE StartPull(t)
    <3>1. cursor' = cursor
      BY <2>4 DEF StartPull, replicaVars
    <3>2. task'[t].next = cursor[Owner[t]]
      BY <2>4, PullSteps
    <3>3. cursor[Owner[t]] \in Nat /\ cursor[Owner[t]] <= LastSeq
      BY <1>0 DEF CursorInLog
    <3> QED BY <1>0, <3>1, <3>2, <3>3
  <2>5. CASE ServePull(t)
    <3>1. task'[t].pc = "pulled" /\ task'[t].next \in {task[t].next, LastSeq}
      BY <2>5, PullSteps DEF NextCursor
    <3> QED BY <1>0, <3>1 DEF CursorInLog
  <2>6. CASE LoadLocalRecords(t) \/ ApplyPulled(t) \/ PullDone(t)
    BY <1>0, <2>6, PullSteps DEF CursorInLog
  <2>7. CASE PushOutbox(t) \/ LocalRecord(t) \/ ApplyConflict(t) \/ PushDone(t)
    <3>1. task'[t].next \in {task[t].next, 0} /\ task'[t].pc # "pulling"
      BY <2>7, PushSteps, IdleFields
    <3> QED BY <1>0, <3>1 DEF CursorInLog
  <2> QED BY <2>1, <2>2, <2>3, <2>4, <2>5, <2>6, <2>7, CallSteps DEF Reconcile
<1> QED BY <1>1, <1>2 DEF CursorInLog

LEMMA StepApplied ==
  ASSUME TypeInv, PushInv, AppliedWhen, [Next]_vars, MaxCrashes = 0
  PROVE  AppliedWhen'
<1> SUFFICES ASSUME NEW t \in Client, task'[t].applied
             PROVE  task'[t].pc \in {"applying", "resolving", "resolve"}
  BY DEF AppliedWhen
<1>1. CASE task'[t] = task[t]
  BY <1>1 DEF AppliedWhen
<1>2. CASE ReconcileFails(t) \/ CutOff(t)
  BY <1>2, FailedSteps, IdleFields DEF CutOff
<1>3. CASE Answered(t)
  BY <1>3 DEF Answered
<1>4. CASE StartPull(t) \/ ServePull(t) \/ LoadLocalRecords(t) \/ ApplyPulled(t) \/ PullDone(t)
  BY <1>4, PullSteps DEF AppliedWhen
<1>5. CASE PushOutbox(t) \/ LocalRecord(t) \/ ApplyConflict(t) \/ PushDone(t)
  BY <1>5, PushSteps, IdleFields DEF AppliedWhen
<1> QED BY <1>1, <1>2, <1>3, <1>4, <1>5, CallSteps DEF Reconcile

---------------------------------------------------------------------------
(* What is queued, against what is stored. *)

(* Nothing queued is older than what is stored, unless a call that has applied
   changes it read before is still to flush. *)
SaveIsNewer ==
  \A r \in Replica : (\A t \in Client : Owner[t] = r => ~task[t].applied) =>
    \A k \in Key : saves[r][k] # Absent /\ local[r][k] # Absent
                     => AtLeast(saves[r][k], local[r][k].ver)

(* A call that has applied changes ends in a persist. *)
LEMMA AppliedEnds ==
  ASSUME TypeInv, PushInv, AppliedWhen, [Next]_vars, MaxCrashes = 0, localFaults' = 0,
         NEW t \in Client, task[t].applied, ~task'[t].applied
  PROVE  saves'[Owner[t]] = NoRecords /\ enqueued'[Owner[t]] = {}
<1>0. /\ Owner[t] \in Replica /\ localFaults \in Nat
      /\ saves \in [Replica -> [Key -> Record \cup {Absent}]]
      /\ enqueued \in [Replica -> SUBSET Entry]
      /\ task[t].pc \in {"applying", "resolving", "resolve"}
  BY DEF TypeInv, TypeOK, AppliedWhen
<1>1. ASSUME NEW removed, Flushes(Owner[t], removed)
      PROVE  saves'[Owner[t]] = NoRecords /\ enqueued'[Owner[t]] = {}
  BY <1>0, <1>1 DEF Flushes, FlushAnd, DropQueue
<1>2. CASE Reconcile(t)
  <2>1. PullDone(t) \/ PushOutbox(t) \/ PushDone(t)
    BY <1>2, PullSteps, PushSteps DEF Reconcile
  <2> QED BY <1>1, <1>2, <2>1, TaskEffect
<1>3. CASE ReconcileFails(t)
  <2>1. ~PullDoneFails(t) /\ ~PushOutboxFails(t) /\ ~PushDoneFails(t)
    BY <1>0, <1>3, TaskEffect DEF FailsToPersist
  <2>2. ~PullLost(t) /\ ~PushTimesOut(t)
    BY <1>0, <1>3, FailedSteps
  <2>3. ~PushRequestLost(t)
    <3>1. PushRequestLost(t) => \E req \in inbox : req.to = t
      BY DEF PushRequestLost
    <3> QED BY <1>0, <3>1 DEF PushInv, OneRequest
  <2> QED BY <1>3, <2>1, <2>2, <2>3 DEF ReconcileFails
<1>4. ~Answered(t) /\ ~CutOff(t) /\ task'[t] # task[t]
  BY <1>0 DEF Answered, CutOff
<1> QED BY <1>2, <1>3, <1>4, CallSteps

LEMMA StepSaveNewer ==
  ASSUME TypeInv, PushInv, ~FieldLevel, Clocked, AppliedWhen, SaveIsNewer, [Next]_vars,
         MaxCrashes = 0, localFaults' = 0
  PROVE  SaveIsNewer'
<1> SUFFICES ASSUME NEW r \in Replica, \A t \in Client : Owner[t] = r => ~task'[t].applied,
                    NEW k \in Key, saves'[r][k] # Absent, local'[r][k] # Absent
             PROVE  AtLeast(saves'[r][k], local'[r][k].ver)
  BY DEF SaveIsNewer
<1>0. /\ local \in [Replica -> [Key -> Record \cup {Absent}]]
      /\ saves \in [Replica -> [Key -> Record \cup {Absent}]]
      /\ localFaults \in Nat /\ crashes \in Nat
  BY DEF TypeInv, TypeOK
<1>1. saves'[r] # NoRecords
  BY DEF NoRecords
<1>2. \A t \in Client : Owner[t] = r => ~task[t].applied
  BY <1>1, AppliedEnds
<1>3. saves[r][k] # Absent /\ local[r][k] # Absent => AtLeast(saves[r][k], local[r][k].ver)
  BY <1>2 DEF SaveIsNewer
<1>4. ASSUME saves'[r] = saves[r], local'[r] = local[r]
      PROVE  AtLeast(saves'[r][k], local'[r][k].ver)
  BY <1>3, <1>4
<1>5. ASSUME NEW s \in Replica, NEW j \in Key, NEW rec, Queues(s, j, rec)
      PROVE  AtLeast(saves'[r][k], local'[r][k].ver)
  <2>1. CASE s # r
    BY <1>0, <1>4, <1>5, <2>1 DEF Queues
  <2>2. CASE s = r /\ j # k
    <3>1. saves'[r][k] = saves[r][k] /\ local' = local
      BY <1>0, <1>5, <2>2 DEF Queues
    <3> QED BY <1>3, <3>1
  <2>3. CASE s = r /\ j = k
    <3>1. saves'[r][k] = rec /\ local' = local /\ Stamps(r, rec) /\ rec \in Record
      BY <1>0, <1>5, <2>3 DEF Queues, Stamps
    <3>2. local[r][k].ver \in Stamp /\ ClockLeq(local[r][k].ver, clk[r])
      BY <3>1, StoredStamps DEF Clocked, ClockedAt
    <3>3. Before(local[r][k].ver, rec.ver) /\ rec.ver \in Stamp
      BY <3>1, <3>2, StampsFollow
    <3>4. ~Before(rec.ver, local[r][k].ver)
      BY <3>2, <3>3, BeforeIsOrder
    <3> QED BY <3>1, <3>4 DEF AtLeast
  <2> QED BY <2>1, <2>2, <2>3
<1>6. ASSUME NEW s \in Replica, NEW j \in Key, NEW rec, Patches(s, j, rec)
      PROVE  AtLeast(saves'[r][k], local'[r][k].ver)
  <2>1. s # r
    BY <1>0, <1>1, <1>6 DEF Patches, DropQueue
  <2> QED BY <1>0, <1>4, <1>6, <2>1 DEF Patches, DropQueue
<1>7. ASSUME NEW s \in Replica, NEW removed, Flushes(s, removed)
      PROVE  AtLeast(saves'[r][k], local'[r][k].ver)
  <2>1. s # r
    BY <1>0, <1>1, <1>7 DEF Flushes, FlushAnd, DropQueue
  <2> QED BY <1>0, <1>4, <1>7, <2>1 DEF Flushes, FlushAnd, DropQueue
<1>8. ASSUME NEW t \in Client, ApplyPulled(t) \/ ApplyConflict(t), Applies(t), task[t].todo # <<>>
      PROVE  AtLeast(saves'[r][k], local'[r][k].ver)
  <2>1. local' = local
    BY <1>8 DEF Applies
  <2>2. CASE Owner[t] # r
    <3>1. saves'[r] = saves[r]
      BY <1>0, <1>8, <2>2, AppliesWhole
    <3> QED BY <1>4, <2>1, <3>1
  <2>3. CASE Owner[t] = r
    <3>1. ~task'[t].applied
      BY <2>3
    <3>2. ApplyPulled(t)
      BY <1>8, <3>1, PushSteps
    <3>3. Applied(Head(task[t].todo).rec, task[t].found[Head(task[t].todo).key]) = Absent
      BY <3>1, <3>2, PullSteps
    <3>4. saves' = saves
      BY <1>8, <3>3 DEF Applies
    <3> QED BY <1>4, <2>1, <3>4
  <2> QED BY <2>2, <2>3
<1>9. Rests => AtLeast(saves'[r][k], local'[r][k].ver)
  BY <1>4 DEF Rests
<1>10. localFaults' # localFaults + 1 /\ \A s \in Replica : ~Crash(s)
  BY <1>0 DEF Crash
<1> QED BY <1>5, <1>6, <1>7, <1>8, <1>9, <1>10, StepEffect

---------------------------------------------------------------------------
(* The rows a cursor stands for are stored, and stay. *)
BehindCursor ==
  \A r \in Replica, i \in DOMAIN log :
    log[i].seq <= cursor[r] => HasRow(r, i) /\ WillHaveRow(r, i)

(* A call that was answered has the rows m + 1 to n of the log still to apply,
   and its replica has, or is about to have, those before them. *)
Pulling(t, m, n) ==
  LET r == Owner[t] IN
  /\ Len(task[t].todo) = n - m
  /\ \A j \in 1..(n - m) : task[t].todo[j] = log[m + j].ch
  /\ \A i \in 1..m : WillHaveRow(r, i) /\ (~task[t].applied => HasRow(r, i))
  /\ \A i \in DOMAIN log : i > m => log[i].seq > cursor[r]
  /\ \A i \in DOMAIN log : i > n => log[i].seq > task[t].next

PullInv ==
  \A t \in Client : task[t].pc \in {"pulled", "applying"} =>
    \E m, n \in 0..Len(log) : m <= n /\ Pulling(t, m, n)

(* A record read earlier is not newer than what is now stored; one read to
   resolve a conflict has every row behind the cursor. *)
FoundInv ==
  \A t \in Client :
    LET r == Owner[t] IN
    /\ task[t].pc = "applying" =>
         \A k \in Key : task[t].found[k] # Absent =>
           /\ AtLeast(Flushed(r)[k], task[t].found[k].ver)
           /\ ~task[t].applied => AtLeast(local[r][k], task[t].found[k].ver)
    /\ task[t].pc = "resolve" =>
         \A i \in DOMAIN log :
           log[i].ch.key = Head(task[t].todo).key /\ log[i].seq <= cursor[r]
             => AtLeast(task[t].found[log[i].ch.key], log[i].ch.rec.ver)

(* What holds of every behaviour, and what holds as long as no persist of a
   local store has thrown. *)
BaseInv == TypeInv /\ PushInv /\ OrderInv /\ Clocked /\ Origin /\ Stamping

ReplicaInv == CursorInLog /\ AppliedWhen /\ SaveIsNewer /\ BehindCursor /\ PullInv /\ FoundInv

(* A step such a behaviour takes. *)
CalmStep ==
  /\ BaseInv /\ ReplicaInv /\ [Next]_vars
  /\ ~FieldLevel /\ MaxCrashes = 0 /\ localFaults' = 0 /\ OneCall

(* With one call per replica, only the call's own steps apply changes and move
   its replica's cursor. *)
LEMMA MineAlone ==
  ASSUME CalmStep, NEW t \in Client
  PROVE  /\ Owner[t] \in Replica
         /\ ApplyPulled(t) \/ ApplyConflict(t) \/ Grows(Owner[t])
         /\ PullDone(t) \/ cursor'[Owner[t]] = cursor[Owner[t]]
<1>1. Owner[t] \in Replica
  BY DEF TypeInv, TypeOK, CalmStep, BaseInv
<1>2. ApplyPulled(t) \/ ApplyConflict(t) \/ Grows(Owner[t])
  <2>1. Grows(Owner[t]) \/ \E u \in Client : Owner[u] = Owner[t] /\ (ApplyPulled(u) \/ ApplyConflict(u))
    BY <1>1, StepGrows DEF CalmStep, BaseInv
  <2>2. \A u \in Client : Owner[u] = Owner[t] => u = t
    BY DEF CalmStep, OneCall
  <2> QED BY <2>1, <2>2
<1>3. PullDone(t) \/ cursor'[Owner[t]] = cursor[Owner[t]]
  <2>1. \/ cursor'[Owner[t]] = cursor[Owner[t]]
        \/ \E u \in Client : Owner[u] = Owner[t] /\ PullDone(u)
    BY <1>1, CursorSteps DEF CalmStep, BaseInv
  <2>2. \A u \in Client : Owner[u] = Owner[t] => u = t
    BY DEF CalmStep, OneCall
  <2> QED BY <2>1, <2>2
<1> QED BY <1>1, <1>2, <1>3

LEMMA LogRowType ==
  ASSUME TypeInv, NEW i \in DOMAIN log
  PROVE  /\ log[i] \in Row /\ log[i].seq \in Nat /\ log[i].ch \in Change
         /\ log[i].ch.key \in Key /\ log[i].ch.rec \in Record /\ log[i].ch.rec.ver \in Stamp
         /\ Len(log) \in Nat /\ i \in 1..Len(log) /\ i \in DOMAIN AllRows /\ AllRows[i] = log[i]
<1>1. HubTypeOK /\ log \in Seq(Row)
  BY DEF TypeInv, TypeOK, HubTypeOK
<1>2. log[i] \in Row /\ log[i].seq \in Nat /\ log[i].ch \in Change
  BY <1>1, RowSeq
<1>3. log[i].ch.key \in Key /\ log[i].ch.rec \in Record /\ log[i].ch.rec.ver \in Stamp
  BY <1>2 DEF Change, Record
<1>4. Len(log) \in Nat /\ i \in 1..Len(log)
  BY <1>1, LenProperties
<1> QED BY <1>1, <1>2, <1>3, <1>4, LogIsPrefix

LEMMA RowsStay ==
  ASSUME TypeInv, SeqInv, [Next]_vars, NEW r \in Replica, Grows(r), NEW i \in DOMAIN log
  PROVE  /\ i \in DOMAIN log' /\ log'[i] = log[i]
         /\ WillHaveRow(r, i) => WillHaveRow(r, i)'
         /\ WillHaveRow(r, i) /\ HasRow(r, i) => HasRow(r, i)'
<1>1. i \in DOMAIN log' /\ log'[i] = log[i]
  BY LogAppends
<1>2. log[i].ch.key \in Key /\ log[i].ch.rec.ver \in Stamp
  BY LogRowType
<1> QED BY <1>1, <1>2 DEF Grows, WillHaveRow, HasRow

LEMMA PullingKept ==
  ASSUME CalmStep, NEW t \in Client, Grows(Owner[t]), cursor'[Owner[t]] = cursor[Owner[t]],
         task'[t].todo = task[t].todo, task'[t].next = task[t].next,
         task'[t].applied = task[t].applied,
         \E m, n \in 0..Len(log) : m <= n /\ Pulling(t, m, n)
  PROVE  \E m, n \in 0..Len(log') : m <= n /\ Pulling(t, m, n)'
<1>0. /\ TypeInv /\ SeqInv /\ [Next]_vars /\ Owner[t] \in Replica
      /\ cursor[Owner[t]] \in Nat /\ task[t].next \in Nat
      /\ cursor[Owner[t]] <= LastSeq /\ task[t].next <= LastSeq
  <2>1. TypeInv /\ SeqInv /\ [Next]_vars /\ Owner[t] \in Replica
    BY MineAlone DEF CalmStep, BaseInv, OrderInv
  <2> QED BY <2>1, TaskType DEF CalmStep, ReplicaInv, CursorInLog, TypeInv, TypeOK
<1>1. /\ Len(log) \in Nat /\ Len(log') \in Nat /\ Len(log) <= Len(log')
      /\ DOMAIN log = 1..Len(log) /\ DOMAIN log' = 1..Len(log')
      /\ \A i \in DOMAIN log : log'[i] = log[i]
      /\ \A i \in DOMAIN log' : i > Len(log) => log'[i].seq > LastSeq
      /\ LastSeq \in Nat
  BY <1>0, LogAppends
<1>2. \A i \in DOMAIN log' : log'[i].seq \in Nat
  <2>1. log' \in Seq(Row)
    BY <1>0, HubPart DEF TypeInv, TypeOK, HubTypeOK
  <2> QED BY <2>1, RowSeq
<1>3. PICK m \in 0..Len(log), n \in 0..Len(log) : m <= n /\ Pulling(t, m, n)
  OBVIOUS
<1>4. m \in 0..Len(log') /\ n \in 0..Len(log')
  BY <1>1
<1>5. Len(task'[t].todo) = n - m
  BY <1>3 DEF Pulling
<1>6. ASSUME NEW j \in 1..(n - m)
      PROVE  task'[t].todo[j] = log'[m + j].ch
  <2>1. m + j \in DOMAIN log
    BY <1>1, <1>3
  <2> QED BY <1>1, <1>3, <2>1 DEF Pulling
<1>7. ASSUME NEW i \in 1..m
      PROVE  WillHaveRow(Owner[t], i)' /\ (~task'[t].applied => HasRow(Owner[t], i)')
  <2>1. i \in DOMAIN log
    BY <1>1
  <2> QED BY <1>0, <1>3, <2>1, RowsStay DEF Pulling
<1>8. ASSUME NEW i \in DOMAIN log', i > m
      PROVE  log'[i].seq > cursor'[Owner[t]]
  <2>1. CASE i \in DOMAIN log
    BY <1>1, <1>3, <1>8, <2>1 DEF Pulling
  <2>2. CASE i > Len(log)
    <3>1. log'[i].seq > LastSeq
      BY <1>1, <2>2
    <3> QED BY <1>0, <1>1, <1>2, <3>1
  <2> QED BY <1>1, <2>1, <2>2
<1>9. ASSUME NEW i \in DOMAIN log', i > n
      PROVE  log'[i].seq > task'[t].next
  <2>1. CASE i \in DOMAIN log
    BY <1>1, <1>3, <1>9, <2>1 DEF Pulling
  <2>2. CASE i > Len(log)
    <3>1. log'[i].seq > LastSeq
      BY <1>1, <2>2
    <3> QED BY <1>0, <1>1, <1>2, <3>1
  <2> QED BY <1>1, <2>1, <2>2
<1>10. Pulling(t, m, n)'
  BY <1>5, <1>6, <1>7, <1>8, <1>9 DEF Pulling
<1> QED BY <1>3, <1>4, <1>10

LEMMA ServedPulling ==
  ASSUME CalmStep, NEW t \in Client, ServePull(t)
  PROVE  \E m, n \in 0..Len(log') : m <= n /\ Pulling(t, m, n)'
<1>0. /\ TypeInv /\ Owner[t] \in Replica /\ HubTypeOK
      /\ cursor[Owner[t]] \in Nat /\ Len(log) \in Nat /\ DOMAIN log = 1..Len(log)
  <2>1. TypeInv /\ Owner[t] \in Replica
    BY MineAlone DEF CalmStep, BaseInv
  <2> QED BY <2>1, RowsType DEF TypeInv, TypeOK
<1>1. PICK i \in 1..(Len(log) + 1) :
        /\ HubPull(task[t].next, i) /\ task'[t].todo = ChangesFrom(i)
        /\ task'[t].next = NextCursor(task[t].next, i)
  BY <1>0, PullSteps
<1>2. /\ task[t].pc = "pulling" /\ task'[t].applied = task[t].applied
      /\ UNCHANGED <<log, cursor, local, saves>>
  <2>1. UNCHANGED <<cursor, local, saves>>
    BY DEF ServePull, replicaVars
  <2>2. log' = log
    BY <1>1 DEF HubPull
  <2> QED BY <1>0, <2>1, <2>2, PullSteps
<1>3. task[t].next = cursor[Owner[t]] /\ ~task[t].applied
  BY <1>2 DEF CalmStep, ReplicaInv, CursorInLog, AppliedWhen
<1>4. /\ \A j \in 1..(i - 1) : log[j].seq <= cursor[Owner[t]]
      /\ \A j \in i..Len(log) : log[j].seq > cursor[Owner[t]]
  BY <1>1, <1>3 DEF HubPull, StartsAfter
<1> DEFINE m == i - 1
<1>5. m \in 0..Len(log) /\ Len(log) \in 0..Len(log) /\ m <= Len(log) /\ m \in Nat /\ m + 1 = i
  BY <1>0
<1>6. Len(task'[t].todo) = Len(log) - m
  BY <1>0, <1>1, ChangesFromType
<1>7. ASSUME NEW j \in 1..(Len(log) - m)
      PROVE  task'[t].todo[j] = log'[m + j].ch
  <2>1. j \in 1..(Len(log) + 1 - i) /\ i + j - 1 = m + j
    BY <1>0
  <2> QED BY <1>0, <1>1, <1>2, <2>1, ChangesFromType
<1>8. ASSUME NEW j \in 1..m
      PROVE  WillHaveRow(Owner[t], j)' /\ HasRow(Owner[t], j)'
  <2>1. j \in DOMAIN log /\ log[j].seq <= cursor[Owner[t]]
    BY <1>0, <1>4
  <2>2. WillHaveRow(Owner[t], j) /\ HasRow(Owner[t], j)
    BY <1>0, <2>1 DEF CalmStep, ReplicaInv, BehindCursor
  <2> QED BY <1>2, <2>2 DEF WillHaveRow, HasRow, Flushed
<1>9. \A j \in DOMAIN log' : j > m => log'[j].seq > cursor'[Owner[t]]
  BY <1>0, <1>2, <1>4
<1>10. \A j \in DOMAIN log' : ~(j > Len(log))
  BY <1>0, <1>2
<1>11. Pulling(t, m, Len(log))'
  BY <1>2, <1>6, <1>7, <1>8, <1>9, <1>10 DEF Pulling
<1> HIDE DEF m
<1> QED BY <1>2, <1>5, <1>11

(* What the application of the next pulled change does to the stored records:
   the change is the newest of its record so far. *)
LEMMA NextPulled ==
  ASSUME CalmStep, NEW t \in Client, task[t].pc = "applying", task[t].todo # <<>>,
         NEW m \in 0..Len(log), NEW n \in 0..Len(log), m <= n, Pulling(t, m, n)
  PROVE  /\ m + 1 \in DOMAIN log /\ m + 1 <= n /\ Head(task[t].todo) = log[m + 1].ch
         /\ Len(Tail(task[t].todo)) = n - (m + 1)
         /\ \A j \in 1..(n - (m + 1)) : Tail(task[t].todo)[j] = log[(m + 1) + j].ch
         /\ \A i \in 1..m : log[i].ch.key = log[m + 1].ch.key
              => Before(log[i].ch.rec.ver, log[m + 1].ch.rec.ver)
<1>0. /\ TypeInv /\ HubTypeOK /\ Len(log) \in Nat /\ DOMAIN log = 1..Len(log)
      /\ task[t].todo \in Seq(Change) /\ NewestLast(AllRows) /\ HubOrigin /\ Whole
  <2>1. TypeInv /\ NewestLast(AllRows) /\ HubOrigin /\ Whole
    BY DEF CalmStep, BaseInv, OrderInv, Origin, Stamping
  <2> QED BY <2>1, RowsType, TaskType DEF TypeInv, TypeOK
<1>1. /\ Len(task[t].todo) = n - m
      /\ \A j \in 1..(n - m) : task[t].todo[j] = log[m + j].ch
  BY DEF Pulling
<1>2. /\ Head(task[t].todo) = task[t].todo[1] /\ 1 \in DOMAIN task[t].todo
      /\ Tail(task[t].todo) \in Seq(Change) /\ Len(Tail(task[t].todo)) = Len(task[t].todo) - 1
      /\ \A i \in DOMAIN Tail(task[t].todo) :
           i + 1 \in DOMAIN task[t].todo /\ Tail(task[t].todo)[i] = task[t].todo[i + 1]
      /\ DOMAIN task[t].todo = 1..Len(task[t].todo)
      /\ DOMAIN Tail(task[t].todo) = 1..Len(Tail(task[t].todo))
  BY <1>0, HeadTailProperties, LenProperties
<1>3. m + 1 \in DOMAIN log /\ m + 1 <= n /\ 1 \in 1..(n - m)
  BY <1>0, <1>1, <1>2
<1>4. Head(task[t].todo) = log[m + 1].ch
  BY <1>1, <1>2, <1>3
<1>5. Len(Tail(task[t].todo)) = n - (m + 1)
  BY <1>1, <1>2
<1>6. ASSUME NEW j \in 1..(n - (m + 1))
      PROVE  Tail(task[t].todo)[j] = log[(m + 1) + j].ch
  <2>1. j \in DOMAIN Tail(task[t].todo) /\ j + 1 \in 1..(n - m) /\ m + (j + 1) = (m + 1) + j
    BY <1>2, <1>5
  <2> QED BY <1>1, <1>2, <2>1
<1>7. ASSUME NEW i \in 1..m, log[i].ch.key = log[m + 1].ch.key
      PROVE  Before(log[i].ch.rec.ver, log[m + 1].ch.rec.ver)
  <2>1. i \in DOMAIN log /\ i < m + 1
    BY <1>0, <1>3
  <2>2. /\ i \in DOMAIN AllRows /\ AllRows[i] = log[i]
        /\ m + 1 \in DOMAIN AllRows /\ AllRows[m + 1] = log[m + 1]
    BY <1>0, <1>3, <2>1, LogRowType
  <2>3. log[m + 1].ch.rec.fv = Absent
    BY <1>0, <2>2 DEF HubOrigin, Whole, Known
  <2> QED BY <1>0, <1>7, <2>1, <2>2, <2>3 DEF NewestLast
<1> QED BY <1>3, <1>4, <1>5, <1>6, <1>7

LEMMA AppliedPulling ==
  ASSUME CalmStep, NEW t \in Client, ApplyPulled(t)
  PROVE  /\ UNCHANGED <<log, cursor, local>>
         /\ \E m, n \in 0..Len(log') : m <= n /\ Pulling(t, m, n)'
         /\ \A i \in DOMAIN log : log[i].seq <= cursor[Owner[t]]
              => HasRow(Owner[t], i)' /\ WillHaveRow(Owner[t], i)'
         /\ \A k \in Key : task'[t].found[k] # Absent =>
              /\ AtLeast(Flushed(Owner[t])'[k], task'[t].found[k].ver)
              /\ ~task'[t].applied => AtLeast(local'[Owner[t]][k], task'[t].found[k].ver)
<1> DEFINE r == Owner[t]
           change == Head(task[t].todo)
           found == task[t].found[change.key]
           Wins == found = Absent \/ Before(found.ver, change.rec.ver)
<1>0. /\ TypeInv /\ r \in Replica /\ ~FieldLevel
      /\ saves \in [Replica -> [Key -> Record \cup {Absent}]]
      /\ local \in [Replica -> [Key -> Record \cup {Absent}]]
      /\ cursor[r] \in Nat /\ Len(log) \in Nat /\ DOMAIN log = 1..Len(log)
      /\ Flushed(r) \in [Key -> Record \cup {Absent}]
  <2>1. TypeInv /\ r \in Replica /\ ~FieldLevel
    BY MineAlone DEF CalmStep, BaseInv
  <2> QED BY <2>1, RowsType, FlushedType, TypeParts DEF TypeInv, TypeOK
<1>1. /\ task[t].pc = "applying" /\ task[t].todo # <<>> /\ task'[t].todo = Tail(task[t].todo)
      /\ task'[t].applied = (task[t].applied \/ Applied(change.rec, found) # Absent)
      /\ task'[t].found = task[t].found /\ task'[t].next = task[t].next
  BY <1>0, PullSteps
<1>2. UNCHANGED <<log, cursor, local>>
  BY DEF ApplyPulled, hubVars
<1>3. Applies(t)
  BY <1>0, TaskEffect DEF Reconcile
<1>4. /\ change \in Change /\ change.key \in Key /\ change.rec \in Record /\ change.rec.ver \in Stamp
      /\ found \in Record \cup {Absent}
      /\ saves' = IF Wins THEN [saves EXCEPT ![r][change.key] = change.rec] ELSE saves
      /\ (Applied(change.rec, found) # Absent) <=> Wins
  BY <1>0, <1>1, <1>3, AppliesWhole
<1>5. PICK m \in 0..Len(log), n \in 0..Len(log) : m <= n /\ Pulling(t, m, n)
  BY <1>1 DEF CalmStep, ReplicaInv, PullInv
<1>6. /\ m + 1 \in DOMAIN log /\ m + 1 <= n /\ change = log[m + 1].ch
      /\ Len(Tail(task[t].todo)) = n - (m + 1)
      /\ \A j \in 1..(n - (m + 1)) : Tail(task[t].todo)[j] = log[(m + 1) + j].ch
      /\ \A i \in 1..m : log[i].ch.key = log[m + 1].ch.key
           => Before(log[i].ch.rec.ver, log[m + 1].ch.rec.ver)
  BY <1>1, <1>5, NextPulled
<1>7. \A k \in Key : task[t].found[k] # Absent =>
        /\ AtLeast(Flushed(r)[k], task[t].found[k].ver)
        /\ ~task[t].applied => AtLeast(local[r][k], task[t].found[k].ver)
  BY <1>1 DEF CalmStep, ReplicaInv, FoundInv
<1> HIDE DEF change, found
<1>8. \A i \in DOMAIN log : /\ log[i].ch.key \in Key /\ log[i].ch.rec.ver \in Stamp
                            /\ log[i].seq \in Nat
  BY <1>0, LogRowType
<1>9. Flushed(r)' = IF Wins THEN [Flushed(r) EXCEPT ![change.key] = change.rec] ELSE Flushed(r)
  <2>1. CASE Wins
    <3>1. change.rec # Absent
      BY <1>4
    <3>2. \A k \in Key : saves'[r][k] = IF k = change.key THEN change.rec ELSE saves[r][k]
      BY <1>0, <1>4, <2>1
    <3> QED BY <1>2, <1>4, <2>1, <3>1, <3>2 DEF Flushed
  <2>2. CASE ~Wins
    BY <1>2, <1>4, <2>2 DEF Flushed
  <2> QED BY <2>1, <2>2
(* What is newer than the change that wins is not lost to it. *)
<1>10. ASSUME NEW k \in Key, NEW v \in Stamp, AtLeast(Flushed(r)[k], v),
              Wins /\ k = change.key => Before(v, change.rec.ver)
       PROVE  AtLeast(Flushed(r)'[k], v)
  <2>1. CASE Wins /\ k = change.key
    <3>1. Flushed(r)'[k] = change.rec
      BY <1>0, <1>9, <2>1
    <3>2. ~Before(change.rec.ver, v)
      BY <1>4, <1>10, <2>1, BeforeIsOrder
    <3> QED BY <1>4, <3>1, <3>2 DEF AtLeast
  <2>2. CASE ~(Wins /\ k = change.key)
    BY <1>0, <1>9, <1>10, <2>2
  <2> QED BY <2>1, <2>2
<1>11. ASSUME NEW i \in 1..m
       PROVE  /\ i \in DOMAIN log /\ WillHaveRow(r, i)'
              /\ ~task[t].applied => HasRow(r, i)'
  <2>1. i \in DOMAIN log /\ WillHaveRow(r, i) /\ (~task[t].applied => HasRow(r, i))
    BY <1>0, <1>5 DEF Pulling
  <2>2. AtLeast(Flushed(r)'[log[i].ch.key], log[i].ch.rec.ver)
    BY <1>6, <1>8, <1>10, <2>1 DEF WillHaveRow
  <2> QED BY <1>2, <2>1, <2>2 DEF WillHaveRow, HasRow
<1>12. /\ WillHaveRow(r, m + 1)'
       /\ ~task'[t].applied => HasRow(r, m + 1)'
  <2>1. CASE Wins
    <3>1. Flushed(r)'[change.key] = change.rec /\ ~Before(change.rec.ver, change.rec.ver)
      BY <1>0, <1>4, <1>9, <2>1, BeforeIsOrder
    <3>2. task'[t].applied /\ change.rec # Absent
      BY <1>1, <1>4, <2>1
    <3> QED BY <1>2, <1>6, <3>1, <3>2 DEF WillHaveRow, AtLeast
  <2>2. CASE ~Wins
    <3>1. found \in Record /\ AtLeast(found, change.rec.ver) /\ task'[t].applied = task[t].applied
      <4>1. task[t].applied \in BOOLEAN
        BY <1>0, TaskType
      <4> QED BY <1>1, <1>4, <2>2, <4>1 DEF AtLeast
    <3>2. /\ AtLeast(Flushed(r)[change.key], found.ver)
          /\ ~task[t].applied => AtLeast(local[r][change.key], found.ver)
      BY <1>4, <1>7, <2>2 DEF found
    <3>3. ASSUME NEW b \in Record \cup {Absent}, AtLeast(b, found.ver)
          PROVE  AtLeast(b, change.rec.ver)
      BY <1>4, <3>1, <3>3, AtLeastMore DEF AtLeast
    <3>4. Flushed(r)[change.key] \in Record \cup {Absent} /\ local[r][change.key] \in Record \cup {Absent}
      BY <1>0, <1>4
    <3>5. /\ AtLeast(Flushed(r)[change.key], change.rec.ver)
          /\ ~task[t].applied => AtLeast(local[r][change.key], change.rec.ver)
      BY <3>2, <3>3, <3>4
    <3> QED BY <1>2, <1>6, <1>9, <2>2, <3>1, <3>5 DEF WillHaveRow, HasRow
  <2> QED BY <2>1, <2>2
<1>13. \E p, q \in 0..Len(log') : p <= q /\ Pulling(t, p, q)'
  <2>1. m + 1 \in 0..Len(log') /\ n \in 0..Len(log') /\ m \in Nat
    BY <1>0, <1>2, <1>6
  <2>2. ASSUME NEW i \in 1..(m + 1)
        PROVE  WillHaveRow(r, i)' /\ (~task'[t].applied => HasRow(r, i)')
    <3>1. i \in 1..m \/ i = m + 1
      BY <2>1
    <3>2. task[t].applied => task'[t].applied
      BY <1>1
    <3> QED BY <1>11, <1>12, <3>1, <3>2
  <2>3. \A i \in DOMAIN log' : i > m + 1 => log'[i].seq > cursor'[r]
    <3>1. \A i \in DOMAIN log : i > m => log[i].seq > cursor[r]
      BY <1>5 DEF Pulling
    <3> QED BY <1>0, <1>2, <2>1, <3>1
  <2>4. \A i \in DOMAIN log' : i > n => log'[i].seq > task'[t].next
    BY <1>1, <1>2, <1>5 DEF Pulling
  <2>5. Pulling(t, m + 1, n)'
    BY <1>1, <1>2, <1>6, <2>2, <2>3, <2>4 DEF Pulling
  <2> QED BY <1>6, <2>1, <2>5
<1>14. ASSUME NEW i \in DOMAIN log, log[i].seq <= cursor[r]
       PROVE  HasRow(r, i)' /\ WillHaveRow(r, i)'
  <2>1. i \in 1..m
    <3>1. ~(i > m)
      <4>1. i > m => log[i].seq > cursor[r]
        BY <1>5 DEF Pulling
      <4> QED BY <1>0, <1>8, <1>14, <4>1
    <3> QED BY <1>0, <3>1
  <2>2. HasRow(r, i)
    BY <1>0, <1>14 DEF CalmStep, ReplicaInv, BehindCursor
  <2> QED BY <1>2, <1>11, <2>1, <2>2 DEF HasRow
<1>15. ASSUME NEW k \in Key, task'[t].found[k] # Absent
       PROVE  /\ AtLeast(Flushed(r)'[k], task'[t].found[k].ver)
              /\ ~task'[t].applied => AtLeast(local'[r][k], task'[t].found[k].ver)
  <2>1. /\ AtLeast(Flushed(r)[k], task[t].found[k].ver)
        /\ ~task[t].applied => AtLeast(local[r][k], task[t].found[k].ver)
    BY <1>1, <1>7, <1>15
  <2>2. task[t].found[k].ver \in Stamp
    <3>1. task[t].found[k] \in Record
      BY <1>0, <1>1, <1>15, TaskType
    <3> QED BY <3>1 DEF Record
  <2>3. Wins /\ k = change.key => Before(task[t].found[k].ver, change.rec.ver)
    BY <1>1, <1>15 DEF found
  <2> QED BY <1>1, <1>2, <1>10, <2>1, <2>2, <2>3
<1> QED BY <1>2, <1>13, <1>14, <1>15

LEMMA ResolvedRows ==
  ASSUME CalmStep, NEW t \in Client, ApplyConflict(t)
  PROVE  /\ UNCHANGED <<log, cursor, local>>
         /\ \A i \in DOMAIN log : log[i].seq <= cursor[Owner[t]]
              => HasRow(Owner[t], i)' /\ WillHaveRow(Owner[t], i)'
<1> DEFINE r == Owner[t]
           change == Head(task[t].todo)
           found == task[t].found[change.key]
           Wins == found = Absent \/ Before(found.ver, change.rec.ver)
<1>0. /\ TypeInv /\ r \in Replica /\ ~FieldLevel
      /\ saves \in [Replica -> [Key -> Record \cup {Absent}]]
      /\ Flushed(r) \in [Key -> Record \cup {Absent}]
  <2>1. TypeInv /\ r \in Replica /\ ~FieldLevel
    BY MineAlone DEF CalmStep, BaseInv
  <2> QED BY <2>1, FlushedType, TypeParts DEF TypeInv, TypeOK
<1>1. task[t].pc = "resolve" /\ task[t].todo # <<>>
  BY <1>0, PushSteps, TaskType
<1>2. UNCHANGED <<log, cursor, local>>
  BY DEF ApplyConflict, hubVars
<1>3. Applies(t)
  BY <1>0, TaskEffect DEF Reconcile
<1>4. /\ change \in Change /\ change.key \in Key /\ change.rec \in Record /\ change.rec.ver \in Stamp
      /\ found \in Record \cup {Absent}
      /\ saves' = IF Wins THEN [saves EXCEPT ![r][change.key] = change.rec] ELSE saves
  BY <1>0, <1>1, <1>3, AppliesWhole
<1>5. \A i \in DOMAIN log : log[i].ch.key = change.key /\ log[i].seq <= cursor[r]
        => AtLeast(found, log[i].ch.rec.ver)
  BY <1>1 DEF CalmStep, ReplicaInv, FoundInv
<1> HIDE DEF change, found
<1> SUFFICES ASSUME NEW i \in DOMAIN log, log[i].seq <= cursor[r]
             PROVE  HasRow(r, i)' /\ WillHaveRow(r, i)'
  BY <1>2
<1>6. HasRow(r, i) /\ WillHaveRow(r, i)
  BY <1>0 DEF CalmStep, ReplicaInv, BehindCursor
<1>7. HasRow(r, i)'
  BY <1>2, <1>6 DEF HasRow
<1>8. log[i].ch.key \in Key /\ log[i].ch.rec.ver \in Stamp
  BY <1>0, LogRowType
<1>9. CASE Wins /\ log[i].ch.key = change.key
  <2>1. found \in Record /\ AtLeast(found, log[i].ch.rec.ver) /\ Before(found.ver, change.rec.ver)
    BY <1>4, <1>5, <1>9 DEF AtLeast
  <2>2. found.ver \in Stamp
    BY <2>1 DEF Record
  <2>3. ~Before(change.rec.ver, found.ver)
    BY <1>4, <2>1, <2>2, BeforeIsOrder
  <2>4. AtLeast(change.rec, log[i].ch.rec.ver)
    BY <1>4, <1>8, <2>1, <2>3, AtLeastMore
  <2>5. saves'[r][change.key] = change.rec
    BY <1>0, <1>4, <1>9
  <2>6. Flushed(r)'[change.key] = change.rec
    BY <1>4, <2>5 DEF Flushed
  <2> QED BY <1>2, <1>7, <1>9, <2>4, <2>6 DEF WillHaveRow
<1>10. CASE ~(Wins /\ log[i].ch.key = change.key)
  <2>1. saves'[r][log[i].ch.key] = saves[r][log[i].ch.key]
    BY <1>0, <1>4, <1>8, <1>10
  <2>2. Flushed(r)'[log[i].ch.key] = Flushed(r)[log[i].ch.key]
    BY <1>2, <1>8, <2>1 DEF Flushed
  <2> QED BY <1>2, <1>6, <1>7, <2>2 DEF WillHaveRow
<1> QED BY <1>9, <1>10

LEMMA DoneRows ==
  ASSUME CalmStep, NEW t \in Client, PullDone(t)
  PROVE  /\ log' = log
         /\ \A i \in DOMAIN log : log[i].seq <= cursor'[Owner[t]]
              => HasRow(Owner[t], i)' /\ WillHaveRow(Owner[t], i)'
<1> DEFINE r == Owner[t]
<1>0. /\ TypeInv /\ r \in Replica /\ cursor \in [Replica -> Nat]
      /\ saves \in [Replica -> [Key -> Record \cup {Absent}]]
      /\ local \in [Replica -> [Key -> Record \cup {Absent}]]
      /\ Len(log) \in Nat /\ DOMAIN log = 1..Len(log) /\ task[t].next \in Nat
  <2>1. TypeInv /\ r \in Replica
    BY MineAlone DEF CalmStep, BaseInv
  <2> QED BY <2>1, RowsType, TaskType DEF TypeInv, TypeOK
<1>1. task[t].pc = "applying" /\ task[t].todo = <<>>
  BY <1>0, PullSteps
<1>2. log' = log /\ cursor'[r] = task[t].next
  BY <1>0 DEF PullDone, hubVars
<1>3. PICK m \in 0..Len(log), n \in 0..Len(log) : m <= n /\ Pulling(t, m, n)
  BY <1>1 DEF CalmStep, ReplicaInv, PullInv
<1>4. m = n
  <2>1. Len(task[t].todo) = n - m
    BY <1>3 DEF Pulling
  <2>2. Len(task[t].todo) = 0
    BY <1>1, EmptySeq
  <2> QED BY <1>3, <2>1, <2>2
<1> SUFFICES ASSUME NEW i \in DOMAIN log, log[i].seq <= cursor'[r]
             PROVE  HasRow(r, i)' /\ WillHaveRow(r, i)'
  BY <1>2
<1>5. log[i].seq \in Nat /\ log[i].ch.key \in Key
  BY <1>0, LogRowType
<1>6. i \in 1..m
  <2>1. i > n => log[i].seq > task[t].next
    BY <1>3 DEF Pulling
  <2> QED BY <1>0, <1>2, <1>4, <1>5, <2>1
<1>7. WillHaveRow(r, i) /\ (~task[t].applied => HasRow(r, i))
  BY <1>3, <1>6 DEF Pulling
<1>8. CASE task[t].applied
  <2>1. local'[r] = Flushed(r) /\ saves'[r] = NoRecords
    BY <1>0, <1>8 DEF PullDone, Flush, FlushAnd, DropQueue
  <2>2. Flushed(r)'[log[i].ch.key] = local'[r][log[i].ch.key]
    BY <1>5, <2>1 DEF Flushed, NoRecords
  <2> QED BY <1>2, <1>7, <2>1, <2>2 DEF WillHaveRow, HasRow
<1>9. CASE ~task[t].applied
  <2>1. local' = local /\ saves' = saves
    BY <1>9 DEF PullDone
  <2> QED BY <1>2, <1>7, <1>9, <2>1 DEF WillHaveRow, HasRow, Flushed
<1> QED BY <1>8, <1>9

LEMMA StepBehind ==
  ASSUME CalmStep
  PROVE  BehindCursor'
<1> SUFFICES ASSUME NEW r \in Replica, NEW i \in DOMAIN log', log'[i].seq <= cursor'[r]
             PROVE  HasRow(r, i)' /\ WillHaveRow(r, i)'
  BY DEF BehindCursor
<1>0. /\ TypeInv /\ SeqInv /\ [Next]_vars /\ cursor[r] \in Nat /\ cursor[r] <= LastSeq
      /\ ~FieldLevel /\ Clocked /\ MaxCrashes = 0 /\ localFaults' = 0
  BY DEF CalmStep, BaseInv, OrderInv, ReplicaInv, CursorInLog, TypeInv, TypeOK
<1>1. CASE \E t \in Client : Owner[t] = r /\ (ApplyPulled(t) \/ ApplyConflict(t) \/ PullDone(t))
  <2>1. PICK t \in Client : Owner[t] = r /\ (ApplyPulled(t) \/ ApplyConflict(t) \/ PullDone(t))
    BY <1>1
  <2> QED BY <2>1, AppliedPulling, ResolvedRows, DoneRows
<1>2. CASE ~\E t \in Client : Owner[t] = r /\ (ApplyPulled(t) \/ ApplyConflict(t) \/ PullDone(t))
  <2>1. Grows(r)
    BY <1>0, <1>2, StepGrows
  <2>2. cursor'[r] = cursor[r]
    BY <1>0, <1>2, CursorSteps
  <2>3. i \in DOMAIN log /\ log'[i] = log[i]
    <3>1. /\ DOMAIN log = 1..Len(log) /\ DOMAIN log' = 1..Len(log') /\ Len(log) \in Nat
          /\ \A j \in DOMAIN log : log'[j] = log[j]
          /\ \A j \in DOMAIN log' : j > Len(log) => log'[j].seq > LastSeq
          /\ LastSeq \in Nat
      BY <1>0, LogAppends
    <3>2. log'[i].seq \in Nat
      <4>1. log' \in Seq(Row)
        BY <1>0, HubPart DEF TypeInv, TypeOK, HubTypeOK
      <4> QED BY <4>1, RowSeq
    <3>3. ~(i > Len(log))
      BY <1>0, <2>2, <3>1, <3>2
    <3> QED BY <3>1, <3>3
  <2>4. HasRow(r, i) /\ WillHaveRow(r, i)
    BY <2>2, <2>3 DEF CalmStep, ReplicaInv, BehindCursor
  <2> QED BY <1>0, <2>1, <2>3, <2>4, RowsStay
<1> QED BY <1>1, <1>2

LEMMA StepPullInv ==
  ASSUME CalmStep
  PROVE  PullInv'
<1> SUFFICES ASSUME NEW t \in Client, task'[t].pc \in {"pulled", "applying"}
             PROVE  \E m, n \in 0..Len(log') : m <= n /\ Pulling(t, m, n)'
  BY DEF PullInv
<1>0. TypeInv /\ PushInv /\ [Next]_vars /\ MaxCrashes = 0
  BY DEF CalmStep, BaseInv
<1>1. ~ApplyConflict(t) /\ ~PullDone(t)
  BY <1>0, PullSteps, PushSteps
<1>2. \/ task'[t] = task[t] \/ ServePull(t) \/ LoadLocalRecords(t) \/ ApplyPulled(t)
  <2>1. ~ReconcileFails(t) /\ ~CutOff(t) /\ ~Answered(t)
    BY <1>0, FailedSteps, IdleFields DEF CutOff, Answered
  <2>2. ~StartPull(t) /\ ~PushOutbox(t) /\ ~LocalRecord(t) /\ ~PushDone(t)
    BY <1>0, PullSteps, PushSteps, IdleFields
  <2> QED BY <1>0, <1>1, <2>1, <2>2, CallSteps DEF Reconcile
<1>3. CASE ServePull(t)
  BY <1>3, ServedPulling
<1>4. CASE ApplyPulled(t)
  BY <1>4, AppliedPulling
<1>5. CASE ~ApplyPulled(t) /\ (task'[t] = task[t] \/ LoadLocalRecords(t))
  <2>1. Grows(Owner[t]) /\ cursor'[Owner[t]] = cursor[Owner[t]]
    BY <1>1, <1>5, MineAlone
  <2>2. /\ task'[t].todo = task[t].todo /\ task'[t].next = task[t].next
        /\ task'[t].applied = task[t].applied /\ task[t].pc \in {"pulled", "applying"}
    BY <1>0, <1>5, PullSteps
  <2>3. \E m, n \in 0..Len(log) : m <= n /\ Pulling(t, m, n)
    BY <2>2 DEF CalmStep, ReplicaInv, PullInv
  <2> QED BY <2>1, <2>2, <2>3, PullingKept
<1> QED BY <1>2, <1>3, <1>4, <1>5

(* FoundInv, of one call. *)
FoundApplying(t) ==
  \A k \in Key : task[t].found[k] # Absent =>
    /\ AtLeast(Flushed(Owner[t])[k], task[t].found[k].ver)
    /\ ~task[t].applied => AtLeast(local[Owner[t]][k], task[t].found[k].ver)
FoundResolving(t) ==
  \A i \in DOMAIN log :
    log[i].ch.key = Head(task[t].todo).key /\ log[i].seq <= cursor[Owner[t]]
      => AtLeast(task[t].found[log[i].ch.key], log[i].ch.rec.ver)

LEMMA LoadedFound ==
  ASSUME CalmStep, NEW t \in Client, LoadLocalRecords(t)
  PROVE  FoundApplying(t)'
<1> DEFINE r == Owner[t]
<1>0. TypeInv /\ r \in Replica
  BY MineAlone DEF CalmStep, BaseInv
<1>1. /\ task[t].pc = "pulled" /\ UNCHANGED <<local, saves>>
      /\ \A k \in Key : task'[t].found[k] # Absent => task'[t].found[k] = local[r][k]
  <2>1. UNCHANGED <<local, saves>>
    BY DEF LoadLocalRecords, replicaVars
  <2>2. task[t].pc = "pulled" /\ \A k \in Key : task'[t].found[k] \in {local[r][k], Absent}
    BY <1>0, PullSteps
  <2> QED BY <2>1, <2>2
<1>2. \A u \in Client : Owner[u] = r => ~task[u].applied
  BY <1>1 DEF CalmStep, OneCall, ReplicaInv, AppliedWhen
<1>3. ASSUME NEW k \in Key, local[r][k] # Absent
      PROVE  AtLeast(local[r][k], local[r][k].ver) /\ AtLeast(Flushed(r)[k], local[r][k].ver)
  <2>1. AtLeast(local[r][k], local[r][k].ver)
    <3>1. local[r][k].ver \in Stamp
      BY <1>0, <1>3, StoredStamps
    <3> QED BY <1>3, <3>1, BeforeIsOrder DEF AtLeast
  <2>2. saves[r][k] # Absent => AtLeast(saves[r][k], local[r][k].ver)
    BY <1>0, <1>2, <1>3 DEF CalmStep, ReplicaInv, SaveIsNewer
  <2> QED BY <2>1, <2>2 DEF Flushed
<1> QED BY <1>1, <1>3 DEF FoundApplying, Flushed

LEMMA ApplyingKept ==
  ASSUME CalmStep, NEW t \in Client, FoundApplying(t), Grows(Owner[t]),
         task'[t].found = task[t].found, task'[t].applied = task[t].applied
  PROVE  FoundApplying(t)'
<1> SUFFICES ASSUME NEW k \in Key, task[t].found[k] # Absent
             PROVE  /\ AtLeast(Flushed(Owner[t])[k], task[t].found[k].ver)'
                    /\ ~task[t].applied => AtLeast(local[Owner[t]][k], task[t].found[k].ver)'
  BY DEF FoundApplying
<1>1. task[t].found[k].ver \in Stamp
  <2>1. task[t].found[k] \in Record
    BY TaskType DEF CalmStep, BaseInv
  <2> QED BY <2>1 DEF Record
<1>2. /\ AtLeast(Flushed(Owner[t])[k], task[t].found[k].ver)
      /\ ~task[t].applied => AtLeast(local[Owner[t]][k], task[t].found[k].ver)
  BY DEF FoundApplying
<1> DEFINE v == task[t].found[k].ver
<1>3. \A u \in Stamp :
        /\ AtLeast(Flushed(Owner[t])[k], u) => AtLeast(Flushed(Owner[t])[k], u)'
        /\ AtLeast(Flushed(Owner[t])[k], u) /\ AtLeast(local[Owner[t]][k], u)
             => AtLeast(local[Owner[t]][k], u)'
  BY DEF Grows
<1> QED BY <1>1, <1>2, <1>3

LEMMA ResolvingFound ==
  ASSUME CalmStep, NEW t \in Client, task'[t].pc = "resolve"
  PROVE  FoundResolving(t)'
<1> DEFINE r == Owner[t]
<1>0. /\ TypeInv /\ PushInv /\ [Next]_vars /\ MaxCrashes = 0 /\ SeqInv /\ r \in Replica
      /\ cursor[r] \in Nat /\ cursor[r] <= LastSeq
  <2>1. TypeInv /\ PushInv /\ [Next]_vars /\ MaxCrashes = 0 /\ SeqInv /\ r \in Replica
    BY MineAlone DEF CalmStep, BaseInv, OrderInv
  <2> QED BY <2>1 DEF CalmStep, ReplicaInv, CursorInLog, TypeInv, TypeOK
<1>1. task'[t] = task[t] \/ LocalRecord(t)
  <2>1. ~ReconcileFails(t) /\ ~CutOff(t) /\ ~Answered(t)
    BY <1>0, FailedSteps, IdleFields DEF CutOff, Answered
  <2>2. /\ ~StartPull(t) /\ ~ServePull(t) /\ ~LoadLocalRecords(t) /\ ~ApplyPulled(t)
        /\ ~PullDone(t) /\ ~ApplyConflict(t) /\ ~PushDone(t)
    BY <1>0, PullSteps, PushSteps, IdleFields
  <2>3. ~PushOutbox(t)
    BY <1>0, PushSteps, IdleFields
  <2> QED BY <1>0, <2>1, <2>2, <2>3, CallSteps DEF Reconcile
<1>2. cursor'[r] = cursor[r]
  <2>1. ~PullDone(t)
    BY <1>0, PullSteps
  <2> QED BY <2>1, MineAlone
<1>3. ASSUME NEW i \in DOMAIN log', log'[i].seq <= cursor'[r]
      PROVE  i \in DOMAIN log /\ log'[i] = log[i] /\ log[i].seq <= cursor[r]
  <2>1. /\ DOMAIN log = 1..Len(log) /\ DOMAIN log' = 1..Len(log') /\ Len(log) \in Nat
        /\ \A j \in DOMAIN log : log'[j] = log[j]
        /\ \A j \in DOMAIN log' : j > Len(log) => log'[j].seq > LastSeq
        /\ LastSeq \in Nat
    BY <1>0, LogAppends
  <2>2. log'[i].seq \in Nat
    <3>1. log' \in Seq(Row)
      BY <1>0, HubPart DEF TypeInv, TypeOK, HubTypeOK
    <3> QED BY <3>1, RowSeq
  <2>3. ~(i > Len(log))
    BY <1>0, <1>2, <1>3, <2>1, <2>2
  <2> QED BY <1>2, <1>3, <2>1, <2>3
<1>4. CASE task'[t] = task[t]
  <2>1. FoundResolving(t)
    BY <1>4 DEF CalmStep, ReplicaInv, FoundInv, FoundResolving
  <2> QED BY <1>3, <1>4, <2>1 DEF FoundResolving
<1>5. CASE LocalRecord(t)
  <2> DEFINE k == Head(task[t].todo).key
  <2>1. /\ task[t].todo # <<>> /\ task'[t].todo = task[t].todo
        /\ task'[t].found = [NoRecords EXCEPT ![k] = local[r][k]]
    BY <1>0, <1>5, PushSteps
  <2>2. k \in Key
    BY <1>0, <2>1, TaskType
  <2>3. task'[t].found[k] = local[r][k]
    BY <2>1, <2>2, NoRecordsType
  <2>4. \A i \in DOMAIN log : log[i].seq <= cursor[r]
          => AtLeast(local[r][log[i].ch.key], log[i].ch.rec.ver)
    BY <1>0 DEF CalmStep, ReplicaInv, BehindCursor, HasRow
  <2> HIDE DEF k
  <2>5. Head(task'[t].todo).key = k
    BY <2>1 DEF k
  <2> QED BY <1>3, <2>3, <2>4, <2>5 DEF FoundResolving
<1> QED BY <1>1, <1>4, <1>5

LEMMA StepFound ==
  ASSUME CalmStep
  PROVE  FoundInv'
<1>0. TypeInv /\ PushInv /\ [Next]_vars /\ MaxCrashes = 0
  BY DEF CalmStep, BaseInv
<1>1. ASSUME NEW t \in Client, task'[t].pc = "applying"
      PROVE  FoundApplying(t)'
  <2>1. ~ApplyConflict(t)
    BY <1>0, <1>1, PushSteps
  <2>2. \/ task'[t] = task[t] \/ LoadLocalRecords(t) \/ ApplyPulled(t)
    <3>1. ~ReconcileFails(t) /\ ~CutOff(t) /\ ~Answered(t)
      BY <1>0, <1>1, FailedSteps, IdleFields DEF CutOff, Answered
    <3>2. ~StartPull(t) /\ ~ServePull(t) /\ ~PullDone(t) /\ ~LocalRecord(t) /\ ~PushDone(t)
      BY <1>0, <1>1, PullSteps, PushSteps, IdleFields
    <3>3. ~PushOutbox(t)
      BY <1>0, <1>1, PushSteps, IdleFields
    <3> QED BY <1>0, <2>1, <3>1, <3>2, <3>3, CallSteps DEF Reconcile
  <2>3. CASE LoadLocalRecords(t)
    BY <2>3, LoadedFound
  <2>4. CASE ApplyPulled(t)
    BY <2>4, AppliedPulling DEF FoundApplying
  <2>5. CASE task'[t] = task[t] /\ ~ApplyPulled(t)
    <3>1. Grows(Owner[t])
      BY <2>1, <2>5, MineAlone
    <3>2. FoundApplying(t)
      BY <1>1, <2>5 DEF CalmStep, ReplicaInv, FoundInv, FoundApplying
    <3> QED BY <2>5, <3>1, <3>2, ApplyingKept
  <2> QED BY <2>2, <2>3, <2>4, <2>5
<1> QED BY <1>1, ResolvingFound DEF FoundInv, FoundApplying, FoundResolving

---------------------------------------------------------------------------
(* Convergence. *)

LEMMA FaultsCount ==
  ASSUME TypeInv, [Next]_vars
  PROVE  \/ localFaults' = localFaults
         \/ localFaults < MaxLocalFaults /\ localFaults' = localFaults + 1
<1>0. TypeOK
  BY DEF TypeInv
<1>1. ASSUME NEW r \in Replica, Tick(r) \/ Application(r) \/ Crash(r)
      PROVE  \/ localFaults' = localFaults
             \/ localFaults < MaxLocalFaults /\ localFaults' = localFaults + 1
  BY <1>0, <1>1, AppEffect DEF Tick, Crash, boundVars, FailsToPersist
<1>2. ASSUME NEW t \in Client, Reconcile(t) \/ ReconcileFails(t)
      PROVE  \/ localFaults' = localFaults
             \/ localFaults < MaxLocalFaults /\ localFaults' = localFaults + 1
  <2>1. Reconcile(t) \/ PullLost(t) \/ PushRequestLost(t) \/ PushTimesOut(t)
          \/ FailsToPersist(Owner[t])
    BY <1>2, TaskEffect DEF ReconcileFails
  <2> QED BY <1>2, <2>1, TaskEffect DEF FailsToPersist
<1>3. Hub => localFaults' = localFaults
  BY HubEffect
<1>4. UNCHANGED vars => localFaults' = localFaults
  BY DEF vars, boundVars
<1> QED BY <1>1, <1>2, <1>3, <1>4 DEF Next

LEMMA StepReplica ==
  ASSUME BaseInv, localFaults = 0 => ReplicaInv, [Next]_vars,
         ~FieldLevel, MaxCrashes = 0, OneCall
  PROVE  localFaults' = 0 => ReplicaInv'
<1> SUFFICES ASSUME localFaults' = 0
             PROVE  ReplicaInv'
  OBVIOUS
<1>1. localFaults = 0
  BY FaultsCount DEF BaseInv, TypeInv, TypeOK
<1>2. CalmStep
  BY <1>1 DEF CalmStep
<1>3. CursorInLog' /\ AppliedWhen' /\ SaveIsNewer'
  BY <1>1, StepCursor, StepApplied, StepSaveNewer DEF BaseInv, ReplicaInv, OrderInv
<1>4. BehindCursor' /\ PullInv' /\ FoundInv'
  BY <1>2, StepBehind, StepPullInv, StepFound
<1> QED BY <1>3, <1>4 DEF ReplicaInv

LEMMA InitReplica ==
  ASSUME Init
  PROVE  ReplicaInv
<1>1. \A t \in Client : task[t].pc = "idle" /\ task[t].next = 0 /\ ~task[t].applied /\ task[t] = Idle
  BY IdleFields DEF Init
<1>2. /\ LastSeq = 0 /\ DOMAIN log = {} /\ \A r \in Replica : cursor[r] = 0
      /\ \A r \in Replica, k \in Key : saves[r][k] = Absent
  BY DEF Init, HubInit, LastSeq, NoRecords
<1>3. CursorInLog
  BY <1>1, <1>2 DEF CursorInLog
<1>4. AppliedWhen /\ SaveIsNewer /\ BehindCursor
  BY <1>1, <1>2 DEF AppliedWhen, SaveIsNewer, BehindCursor
<1>5. PullInv /\ FoundInv
  BY <1>1 DEF PullInv, FoundInv
<1> QED BY <1>3, <1>4, <1>5 DEF ReplicaInv

LEMMA ReplicasFollow ==
  ASSUME ~FieldLevel, MaxCrashes = 0, Durable => OrderedOutbox, OneCall
  PROVE  Spec => [](BaseInv /\ NoEditForgotten /\ (localFaults = 0 => ReplicaInv)
                    /\ (MaxLocalFaults = 0 => localFaults = 0))
<1> DEFINE Inv == BaseInv /\ NoEditForgotten
<1>1. Spec => []Inv
  <2>1. BaseInv /\ NoEditForgotten <=>
          TypeInv /\ PushInv /\ OrderInv /\ Clocked /\ Origin /\ Stamping /\ NoEditForgotten
    BY DEF BaseInv
  <2> QED BY <2>1, PushInvariant, RowsInOrder, ClocksLead, EverythingWritten, StampsAreUnique, PTL
<1>2. Init => (localFaults = 0 => ReplicaInv) /\ (MaxLocalFaults = 0 => localFaults = 0)
  BY InitReplica DEF Init
<1>3. BaseInv /\ (localFaults = 0 => ReplicaInv) /\ [Next]_vars => (localFaults = 0 => ReplicaInv)'
  BY StepReplica
<1>4. BaseInv /\ (MaxLocalFaults = 0 => localFaults = 0) /\ [Next]_vars
        => (MaxLocalFaults = 0 => localFaults = 0)'
  <2> SUFFICES ASSUME BaseInv, MaxLocalFaults = 0, localFaults = 0, [Next]_vars
               PROVE  localFaults' = 0
    OBVIOUS
  <2> QED BY FaultsCount DEF BaseInv
<1> QED BY <1>1, <1>2, <1>3, <1>4, PTL DEF Spec

(* What the log reached of a committed write is behind every cursor. *)
LEMMA NewestStored ==
  ASSUME BaseInv, NoEditForgotten, ReplicaInv, Quiescent,
         NEW r \in Replica, NEW c \in committed
  PROVE  AtLeast(local[r][c.key], c.rec.ver)
<1>0. /\ TypeInv /\ HubTypeOK /\ c \in Change /\ c.rec.ver \in Stamp /\ c.key \in Key
      /\ SeqInv /\ log \in Seq(Row) /\ Len(log) \in Nat /\ DOMAIN log = 1..Len(log)
      /\ local[r][c.key] \in Record \cup {Absent}
  <2>1. TypeInv /\ SeqInv /\ c.rec.ver \in Stamp /\ c \in Change
    BY StoredStamps DEF BaseInv, OrderInv
  <2>2. HubTypeOK /\ local \in [Replica -> [Key -> Record \cup {Absent}]]
    BY <2>1 DEF TypeInv, TypeOK
  <2>3. c.key \in Key
    BY <2>1 DEF Change
  <2>4. log \in Seq(Row) /\ Len(log) \in Nat /\ DOMAIN log = 1..Len(log)
    BY <2>2, RowsType
  <2> QED BY <2>1, <2>2, <2>3, <2>4
<1>1. PICK i \in DOMAIN log : log[i].ch.key = c.key /\ ~Before(log[i].ch.rec.ver, c.rec.ver)
  BY DEF NoEditForgotten, Quiescent
<1>2. log[i].seq \in Nat /\ log[i].ch.rec \in Record /\ log[i].ch.rec.ver \in Stamp
  BY <1>0, LogRowType
<1>3. log[i].seq <= LastSeq
  <2>1. log # <<>> /\ LastSeq = log[Len(log)].seq /\ Len(log) \in DOMAIN log
    <3>1. log # <<>>
      BY <1>0
    <3> QED BY <1>0, <3>1, LastSeqType
  <2>2. CASE i = Len(log)
    BY <1>2, <2>1, <2>2
  <2>3. CASE i < Len(log)
    <3>1. Numbered(log)
      BY <1>0, LogNumbered DEF SeqInv
    <3>2. log[i].seq < LastSeq /\ LastSeq \in Nat
      BY <1>0, <2>1, <2>3, <3>1, LastSeqType DEF Numbered
    <3> QED BY <1>2, <3>2
  <2> QED BY <1>0, <2>2, <2>3
<1>4. HasRow(r, i)
  BY <1>3 DEF Quiescent, ReplicaInv, BehindCursor
<1>5. AtLeast(log[i].ch.rec, c.rec.ver)
  BY <1>1, <1>2 DEF AtLeast
<1>6. local[r][c.key] \in Record /\ ~Before(local[r][c.key].ver, log[i].ch.rec.ver)
  BY <1>0, <1>1, <1>4 DEF HasRow, AtLeast
<1> QED BY <1>0, <1>2, <1>5, <1>6, AtLeastMore

(* "Last-write-wins by HLC version" (SyncBackend.ts:30): once nothing is queued,
   under way or left to pull, every replica holds, of every record, a version
   that is at least as new as every committed write of it, in whatever order
   the writes travelled and however many requests or replies were lost. *)
THEOREM NewestWriteWins ==
  ASSUME ~FieldLevel, MaxCrashes = 0, MaxLocalFaults = 0, Durable => OrderedOutbox, OneCall
  PROVE  Spec => []NewestWins
<1>1. BaseInv /\ NoEditForgotten /\ ReplicaInv => NewestWins
  BY NewestStored DEF NewestWins, AtLeast
<1> QED BY <1>1, ReplicasFollow, PTL

(* Stamps are ordered totally. *)
LEMMA SameStamp ==
  ASSUME NEW a \in Stamp, NEW b \in Stamp, ~Before(a, b), ~Before(b, a)
  PROVE  a = b
<1>1. /\ a.phys \in Nat /\ a.ctr \in Nat /\ a.node \in Nat
      /\ b.phys \in Nat /\ b.ctr \in Nat /\ b.node \in Nat
  BY DEF Stamp
<1>2. a.phys = b.phys /\ a.ctr = b.ctr /\ a.node = b.node
  BY <1>1 DEF Before, ClockLess
<1> QED BY <1>2 DEF Stamp

(* Each replica's record was written by someone, so the other is no older. *)
LEMMA StoredAgree ==
  ASSUME BaseInv, NoEditForgotten, ReplicaInv, Quiescent,
         NEW r \in Replica, NEW s \in Replica, NEW k \in Key, local[r][k] # Absent
  PROVE  local[s][k] = local[r][k]
<1> DEFINE c == [key |-> k, rec |-> local[r][k]]
           d == [key |-> k, rec |-> local[s][k]]
<1>1. c \in committed
  BY DEF BaseInv, Origin, StoreOrigin
<1>2. local[s][k] # Absent /\ ~Before(local[s][k].ver, local[r][k].ver)
  BY <1>1, NewestStored DEF AtLeast
<1>3. d \in committed
  BY <1>2 DEF BaseInv, Origin, StoreOrigin
<1>4. ~Before(local[r][k].ver, local[s][k].ver)
  BY <1>3, NewestStored DEF AtLeast
<1>5. local[r][k].ver \in Stamp /\ local[s][k].ver \in Stamp
  BY <1>2, StoredStamps DEF BaseInv
<1>6. c.rec.ver = d.rec.ver
  BY <1>2, <1>4, <1>5, SameStamp
<1>7. c = d
  BY <1>1, <1>3, <1>6 DEF BaseInv, Stamping, Unique, Known
<1> QED BY <1>7

LEMMA AgreeWhenQuiescent ==
  ASSUME BaseInv, NoEditForgotten, ReplicaInv
  PROVE  ReplicasAgree
<1> SUFFICES ASSUME Quiescent, NEW r \in Replica, NEW s \in Replica, NEW k \in Key
             PROVE  local[r][k] = local[s][k]
  BY DEF ReplicasAgree
<1>1. local[r][k] # Absent => local[s][k] = local[r][k]
  BY StoredAgree
<1>2. local[s][k] # Absent => local[r][k] = local[s][k]
  BY StoredAgree
<1> QED BY <1>1, <1>2

(* "Two clients through the durable server converge" (docs/sync.md:73): with
   nothing left to exchange, replicas show their applications the same records,
   in every behaviour in which no persist of a local store has thrown so far. *)
THEOREM CalmReplicasAgree ==
  ASSUME ~FieldLevel, MaxCrashes = 0, Durable => OrderedOutbox, OneCall
  PROVE  Spec => []AgreeUnlessPersistFailed
<1>1. BaseInv /\ NoEditForgotten /\ (localFaults = 0 => ReplicaInv) => AgreeUnlessPersistFailed
  BY AgreeWhenQuiescent DEF AgreeUnlessPersistFailed
<1> QED BY <1>1, ReplicasFollow, PTL

(* The same without a condition on the behaviour, where local stores do not
   fail at all. *)
THEOREM Convergence ==
  ASSUME ~FieldLevel, MaxCrashes = 0, MaxLocalFaults = 0, Durable => OrderedOutbox, OneCall
  PROVE  Spec => []ReplicasAgree
<1>1. BaseInv /\ NoEditForgotten /\ ReplicaInv => ReplicasAgree
  BY AgreeWhenQuiescent
<1> QED BY <1>1, ReplicasFollow, PTL

---------------------------------------------------------------------------
(* Field-level mode.  Without removes every record carries a version for
   each of its fields, and its own version is the newest of them. *)

Tops(fv, ver) ==
  /\ \E f \in Field : fv[f] = ver
  /\ \A f \in Field : fv[f] # Absent /\ ~Before(ver, fv[f])
FieldRec(rec) == ~rec.del /\ rec.fv # Absent /\ Tops(rec.fv, rec.ver)

(* No field of fv has an older version than in old. *)
NotBelow(fv, old) == \A f \in Field : ~Before(fv[f], old[f])

LEMMA NotBelowOrder ==
  ASSUME NEW a \in [Field -> Stamp], NEW b \in [Field -> Stamp], NEW c \in [Field -> Stamp]
  PROVE  /\ NotBelow(a, a)
         /\ NotBelow(a, b) /\ NotBelow(b, c) => NotBelow(a, c)
<1>1. NotBelow(a, a)
  BY BeforeIsOrder DEF NotBelow
<1>2. ASSUME NotBelow(a, b), NotBelow(b, c), NEW f \in Field
      PROVE  ~Before(a[f], c[f])
  <2>1. ~Before(a[f], b[f]) /\ ~Before(b[f], c[f])
    BY <1>2 DEF NotBelow
  <2>2. a[f] \in Stamp /\ b[f] \in Stamp /\ c[f] \in Stamp
    OBVIOUS
  <2> QED BY <2>1, <2>2, BeforeIsOrder
<1> QED BY <1>1, <1>2 DEF NotBelow

LEMMA TopsType ==
  ASSUME NEW fv \in FieldStamps, NEW ver, Tops(fv, ver)
  PROVE  fv \in [Field -> Stamp] /\ ver \in Stamp
<1>1. fv \in [Field -> Stamp]
  BY DEF FieldStamps, Tops
<1>2. ver \in Stamp
  BY <1>1 DEF Tops
<1> QED BY <1>1, <1>2

(* What is not after a stamp the clock is past, the clock is past. *)
LEMMA NotAfterClock ==
  ASSUME NEW s \in Stamp, NEW v \in Stamp, NEW c \in Clock, ClockLeq(v, c), ~Before(v, s)
  PROVE  ClockLeq(s, c)
<1>1. /\ s.phys \in Nat /\ s.ctr \in Nat /\ s.node \in Nat /\ v.phys \in Nat /\ v.ctr \in Nat
      /\ v.node \in Nat /\ c.phys \in Nat /\ c.ctr \in Nat
  BY DEF Stamp, Clock
<1> QED BY <1>1 DEF ClockLeq, Before, ClockLess

(* maxOf() of such a map is its newest version. *)
LEMMA MaxOfTops ==
  ASSUME NEW fv \in FieldStamps, NEW ver, Tops(fv, ver), NEW none
  PROVE  MaxOf(fv, none) = ver
<1> DEFINE newest == {f \in Field : fv[f] # Absent /\ \A g \in Field : ~Newer(fv[g], fv[f])}
<1>0. fv \in [Field -> Stamp] /\ ver \in Stamp /\ Absent \notin Stamp
  BY TopsType
<1>1. \A f, g \in Field : Newer(fv[g], fv[f]) <=> Before(fv[f], fv[g])
  BY <1>0 DEF Newer
<1>2. PICK top \in Field : fv[top] = ver
  BY DEF Tops
<1>3. top \in newest
  BY <1>0, <1>1, <1>2 DEF Tops
<1>4. ASSUME NEW f \in newest
      PROVE  fv[f] = ver
  <2>1. f \in Field /\ ~Before(fv[f], ver)
    BY <1>1, <1>2
  <2>2. ~Before(ver, fv[f]) /\ fv[f] \in Stamp
    BY <1>0, <2>1 DEF Tops
  <2> QED BY <1>0, <2>1, <2>2, SameStamp
<1>5. MaxOf(fv, none) = IF newest = {} THEN none ELSE fv[CHOOSE f \in newest : TRUE]
  BY DEF MaxOf
<1> HIDE DEF newest
<1>6. (CHOOSE f \in newest : TRUE) \in newest
  BY <1>3
<1> QED BY <1>3, <1>4, <1>5, <1>6

(* The record a save makes. *)
LEMMA StampedRec ==
  ASSUME TypeInv, FieldLevel, NEW r \in Replica, NEW k \in Key, NEW val, NEW dirty,
         Field # {},
         versions[r][k] # Absent =>
           \E ver \in Stamp : Tops(versions[r][k], ver) /\ ClockLeq(ver, clk[r])
  PROVE  LET rec == Stamped(r, k, val, dirty, Now(r))
             prior == versions[r][k]
         IN  /\ FieldRec(rec) /\ rec.val = val /\ rec.fv \in [Field -> Stamp]
             /\ ClockLeq(rec.ver, HlcNow(clk[r], wall[r]))
             /\ \A f \in Field : rec.fv[f] = IF prior = Absent \/ f \in dirty
                                            THEN Now(r) ELSE prior[f]
             /\ prior # Absent => NotBelow(rec.fv, prior)
<1> DEFINE now == Now(r)
           prior == versions[r][k]
           fv == [f \in Field |-> IF f \in (IF prior = Absent THEN Field ELSE dirty) THEN now
                                  ELSE IF prior = Absent THEN Absent ELSE prior[f]]
           rec == Stamped(r, k, val, dirty, now)
<1>1. /\ now \in Stamp /\ ClockLeq(now, HlcNow(clk[r], wall[r]))
      /\ \A s \in Stamp : ClockLeq(s, clk[r]) =>
           ClockLeq(s, HlcNow(clk[r], wall[r])) /\ Before(s, now)
      /\ ~Before(now, now)
  BY NowFollows, BeforeIsOrder
<1>2. prior \in FieldStamps \cup {Absent}
  BY DEF TypeInv, TypeOK
<1>3. rec = [ver |-> MaxOf(fv, now), del |-> FALSE, val |-> val, fv |-> fv]
  BY DEF Stamped
<1>4. \A f \in Field : fv[f] = IF prior = Absent \/ f \in dirty THEN now ELSE prior[f]
  OBVIOUS
<1> HIDE DEF now, prior
<1>5. prior # Absent => /\ prior \in [Field -> Stamp]
                        /\ \A f \in Field : ClockLeq(prior[f], clk[r])
                        /\ \E ver \in Stamp : Tops(prior, ver) /\ ClockLeq(ver, clk[r])
  <2> SUFFICES ASSUME prior # Absent
               PROVE  /\ prior \in [Field -> Stamp]
                      /\ \A f \in Field : ClockLeq(prior[f], clk[r])
                      /\ \E ver \in Stamp : Tops(prior, ver) /\ ClockLeq(ver, clk[r])
    OBVIOUS
  <2>1. PICK ver \in Stamp : Tops(prior, ver) /\ ClockLeq(ver, clk[r])
    BY DEF prior
  <2>2. prior \in [Field -> Stamp]
    BY <1>2, <2>1, TopsType
  <2>3. clk[r] \in Clock
    BY DEF TypeInv, TypeOK
  <2>4. ASSUME NEW f \in Field
        PROVE  ClockLeq(prior[f], clk[r])
    <3>1. prior[f] \in Stamp /\ ~Before(ver, prior[f])
      BY <2>1, <2>2 DEF Tops
    <3> QED BY <2>1, <2>3, <3>1, NotAfterClock
  <2> QED BY <2>1, <2>2, <2>4
<1>6. fv \in [Field -> Stamp]
  BY <1>1, <1>4, <1>5
<1> HIDE DEF fv
<1>7. \E ver : Tops(fv, ver) /\ ClockLeq(ver, HlcNow(clk[r], wall[r]))
  <2>1. CASE \E f \in Field : fv[f] = now
    <3>1. \A f \in Field : fv[f] # Absent /\ ~Before(now, fv[f])
      <4> SUFFICES ASSUME NEW f \in Field
                   PROVE  fv[f] # Absent /\ ~Before(now, fv[f])
        OBVIOUS
      <4>1. fv[f] \in Stamp /\ Absent \notin Stamp
        BY <1>6
      <4>2. fv[f] = now \/ Before(fv[f], now)
        BY <1>1, <1>4, <1>5
      <4> QED BY <1>1, <4>1, <4>2, BeforeIsOrder
    <3> QED BY <1>1, <2>1, <3>1 DEF Tops
  <2>2. CASE ~\E f \in Field : fv[f] = now
    <3>1. prior # Absent /\ \A f \in Field : fv[f] = prior[f]
      BY <1>4, <2>2
    <3>2. PICK ver \in Stamp : Tops(prior, ver) /\ ClockLeq(ver, clk[r])
      BY <1>5, <3>1
    <3>3. Tops(fv, ver)
      BY <3>1, <3>2 DEF Tops
    <3> QED BY <1>1, <3>2, <3>3
  <2> QED BY <2>1, <2>2
<1>8. PICK ver : Tops(fv, ver) /\ ClockLeq(ver, HlcNow(clk[r], wall[r]))
  BY <1>7
<1>9. rec.ver = ver /\ rec.fv = fv /\ ~rec.del /\ rec.val = val
  <2>1. fv \in FieldStamps
    BY <1>6 DEF FieldStamps
  <2>2. MaxOf(fv, now) = ver
    BY <1>8, <2>1, MaxOfTops
  <2> HIDE DEF rec
  <2> QED BY <1>3, <2>2
<1>10. rec.fv # Absent
  <2>1. fv \in FieldStamps
    BY <1>6 DEF FieldStamps
  <2> HIDE DEF rec
  <2> QED BY <1>9, <2>1
<1>11. prior # Absent => NotBelow(fv, prior)
  <2> SUFFICES ASSUME prior # Absent, NEW f \in Field
               PROVE  ~Before(fv[f], prior[f])
    BY DEF NotBelow
  <2>1. prior[f] \in Stamp /\ ClockLeq(prior[f], clk[r])
    BY <1>5
  <2>2. Before(prior[f], now) /\ (fv[f] = now \/ fv[f] = prior[f])
    BY <1>1, <1>4, <2>1
  <2> QED BY <1>1, <2>1, <2>2, BeforeIsOrder
<1> HIDE DEF rec
<1>12. FieldRec(rec) /\ ClockLeq(rec.ver, HlcNow(clk[r], wall[r]))
  BY <1>8, <1>9, <1>10 DEF FieldRec
<1>13. rec.fv \in [Field -> Stamp] /\ (prior # Absent => NotBelow(rec.fv, prior))
       /\ \A f \in Field : rec.fv[f] = IF prior = Absent \/ f \in dirty THEN now ELSE prior[f]
  BY <1>4, <1>6, <1>9, <1>11
<1> QED BY <1>9, <1>12, <1>13 DEF rec, now, prior

(* What a change makes of the record it finds: a record again, with the newer
   version of each field and the value that goes with it. *)
LEMMA MergedRec ==
  ASSUME FieldLevel, NEW inc \in Record, NEW rec \in Record \cup {Absent},
         FieldRec(inc), rec # Absent => FieldRec(rec), Applied(inc, rec) # Absent
  PROVE  LET new == Applied(inc, rec) IN
         /\ new \in Record /\ FieldRec(new)
         /\ new.ver = inc.ver \/ (rec # Absent /\ new.ver = rec.ver)
         /\ rec # Absent => NotBelow(new.fv, rec.fv)
         /\ \A f \in Field :
              \/ new.fv[f] = inc.fv[f] /\ new.val[f] = inc.val[f]
              \/ rec # Absent /\ new.fv[f] = rec.fv[f] /\ new.val[f] = rec.val[f]
<1>1. Applied(inc, rec) \in Record
  BY AppliedType
<1>2. CASE rec = Absent
  BY <1>2 DEF Applied, Merges, Live
<1>3. CASE rec # Absent
  <2> DEFINE take == {f \in Field : Newer(inc.fv[f], rec.fv[f])}
             fv   == [f \in Field |-> IF f \in take THEN inc.fv[f] ELSE rec.fv[f]]
             new  == Applied(inc, rec)
  <2>1. /\ FieldRec(rec) /\ rec \in Record /\ Merges(inc, rec)
        /\ inc.fv \in FieldStamps /\ rec.fv \in FieldStamps
    BY <1>3 DEF Merges, Live, FieldRec, Record
  <2>2. new = [ver |-> MaxOf(fv, rec.ver), del |-> FALSE,
               val |-> [f \in Field |-> IF f \in take THEN inc.val[f] ELSE rec.val[f]], fv |-> fv]
    BY <2>1 DEF Applied, MergedByField
  <2>3. /\ Tops(inc.fv, inc.ver) /\ Tops(rec.fv, rec.ver)
        /\ inc.fv \in [Field -> Stamp] /\ rec.fv \in [Field -> Stamp]
        /\ inc.ver \in Stamp /\ rec.ver \in Stamp /\ Absent \notin Stamp
    BY <2>1, TopsType DEF FieldRec
  <2>4. \A f \in Field : fv[f] = IF Before(rec.fv[f], inc.fv[f]) THEN inc.fv[f] ELSE rec.fv[f]
    BY <2>3 DEF Newer
  <2>5. fv \in [Field -> Stamp]
    BY <2>3
  <2>6. /\ new.fv = fv /\ new.ver = MaxOf(fv, rec.ver) /\ ~new.del
        /\ \A f \in Field : new.val[f] = IF f \in take THEN inc.val[f] ELSE rec.val[f]
        /\ \A f \in Field : fv[f] = IF f \in take THEN inc.fv[f] ELSE rec.fv[f]
    <3> HIDE DEF new, take
    <3> QED BY <2>2
  <2> HIDE DEF new, fv, take
  <2>7. \E ver \in {inc.ver, rec.ver} : Tops(fv, ver)
    <3>1. CASE Before(rec.ver, inc.ver)
      <4>1. PICK top \in Field : inc.fv[top] = inc.ver
        BY <2>3 DEF Tops
      <4>2. ~Before(rec.ver, rec.fv[top]) /\ rec.fv[top] \in Stamp
        BY <2>3 DEF Tops
      <4>3. Before(rec.fv[top], inc.ver)
        <5>1. \A x, y, z \in Stamp : ~Before(x, y) /\ Before(x, z) => Before(y, z)
          BY BeforeIsOrder
        <5> QED BY <2>3, <3>1, <4>2, <5>1
      <4>4. fv[top] = inc.ver
        BY <2>4, <4>1, <4>3
      <4>5. ASSUME NEW f \in Field
            PROVE  fv[f] # Absent /\ ~Before(inc.ver, fv[f])
        <5>1. ~Before(inc.ver, inc.fv[f]) /\ ~Before(rec.ver, rec.fv[f])
          BY <2>3 DEF Tops
        <5>2. rec.fv[f] \in Stamp /\ fv[f] \in Stamp
          BY <2>3, <2>5
        <5>3. ~Before(inc.ver, rec.fv[f])
          BY <2>3, <3>1, <5>1, <5>2, BeforeIsOrder
        <5> QED BY <2>3, <2>4, <5>1, <5>2, <5>3
      <4> QED BY <4>4, <4>5 DEF Tops
    <3>2. CASE ~Before(rec.ver, inc.ver)
      <4>1. PICK top \in Field : rec.fv[top] = rec.ver
        BY <2>3 DEF Tops
      <4>2. ASSUME NEW f \in Field
            PROVE  ~Before(rec.ver, inc.fv[f]) /\ ~Before(rec.ver, rec.fv[f])
        <5>1. ~Before(inc.ver, inc.fv[f]) /\ ~Before(rec.ver, rec.fv[f]) /\ inc.fv[f] \in Stamp
          BY <2>3 DEF Tops
        <5>2. \A x, y, z \in Stamp : ~Before(x, y) /\ Before(x, z) => Before(y, z)
          BY BeforeIsOrder
        <5> QED BY <2>3, <3>2, <5>1, <5>2
      <4>3. fv[top] = rec.ver
        BY <2>4, <4>1, <4>2
      <4>4. \A f \in Field : fv[f] # Absent /\ ~Before(rec.ver, fv[f])
        BY <2>3, <2>4, <2>5, <4>2
      <4> QED BY <4>3, <4>4 DEF Tops
    <3> QED BY <3>1, <3>2
  <2>8. PICK ver \in {inc.ver, rec.ver} : Tops(fv, ver)
    BY <2>7
  <2>9. fv \in FieldStamps
    BY <2>5 DEF FieldStamps
  <2>10. new.ver = ver /\ FieldRec(new)
    BY <2>6, <2>8, <2>9, MaxOfTops DEF FieldRec
  <2>11. NotBelow(fv, rec.fv)
    <3> SUFFICES ASSUME NEW f \in Field
                 PROVE  ~Before(fv[f], rec.fv[f])
      BY DEF NotBelow
    <3>1. rec.fv[f] \in Stamp /\ inc.fv[f] \in Stamp
      BY <2>3
    <3> QED BY <2>4, <3>1, BeforeIsOrder
  <2>12. \A f \in Field : \/ new.fv[f] = inc.fv[f] /\ new.val[f] = inc.val[f]
                          \/ rec # Absent /\ new.fv[f] = rec.fv[f] /\ new.val[f] = rec.val[f]
    BY <1>3, <2>6
  <2>13. new \in Record
    BY <1>1 DEF new
  <2>14. /\ new.ver = inc.ver \/ (rec # Absent /\ new.ver = rec.ver)
         /\ rec # Absent => NotBelow(new.fv, rec.fv)
    BY <1>3, <2>6, <2>8, <2>10, <2>11
  <2> QED BY <2>10, <2>12, <2>13, <2>14, Zenon DEF new
<1> QED BY <1>2, <1>3

---------------------------------------------------------------------------
(* What a step does to the stores and to the version cache, and whose it is. *)

Acts(r) == Application(r) \/ \E t \in Client : Owner[t] = r /\ (Reconcile(t) \/ ReconcileFails(t))

Caches(t) ==
  LET r == Owner[t]
      change == Head(task[t].todo)
      new == Applied(change.rec, task[t].found[change.key])
  IN  versions' = IF new # Absent /\ FieldLevel /\ new.fv # Absent
                  THEN [versions EXCEPT ![r][change.key] = new.fv] ELSE versions

FieldStep(r) ==
  \/ \E k \in Key : \E rec :
       Application(r) /\ (Queues(r, k, rec) \/ Patches(r, k, rec)) /\ Writes(r, k, rec)
  \/ versions' = versions /\ \E removed : Flushes(r, removed)
  \/ versions' = versions /\ FailsToPersist(r)
  \/ \E t \in Client : /\ Owner[t] = r /\ (ApplyPulled(t) \/ ApplyConflict(t))
                       /\ Applies(t) /\ Caches(t) /\ task[t].todo # <<>>
  \/ versions' = versions /\ Rests

LEMMA FieldEffect ==
  ASSUME TypeInv, FieldLevel, [Next]_vars, MaxCrashes = 0, "remove" \notin Ops
  PROVE  (versions' = versions /\ Rests) \/ \E r \in Replica : Acts(r) /\ FieldStep(r)
<1>0. StoreTypes /\ wall \in [Replica -> Nat] /\ crashes \in Nat /\ TypeOK
      /\ patching \in [Replica -> [key : Key, rec : Record] \cup {Absent}]
      /\ \A t \in Client : Owner[t] \in Replica
  BY TypeParts DEF TypeInv, TypeOK
<1>1. ASSUME NEW r \in Replica, Tick(r)
      PROVE  versions' = versions /\ Rests
  BY <1>1 DEF Tick, Rests, boundVars
<1>2. ASSUME NEW r \in Replica, Application(r)
      PROVE  FieldStep(r)
  <2>1. ASSUME NEW k \in Key, UserSave(r, k)
        PROVE  \E rec : Queues(r, k, rec) /\ Writes(r, k, rec)
    BY <1>0, <2>1, UserSaveQueues
  <2>2. ASSUME NEW k \in Key
        PROVE  ~UserRemove(r, k)
    BY DEF UserRemove
  <2>3. ASSUME NEW k \in Key, PatchRead(r, k)
        PROVE  versions' = versions /\ Rests
    BY <2>3 DEF PatchRead, Rests, boundVars
  <2>4. ASSUME PatchWrite(r)
        PROVE  \E k \in Key : \E rec : Patches(r, k, rec) /\ Writes(r, k, rec)
    BY <1>0, <2>4, PatchWritePatches
  <2>5. ASSUME UserPersist(r)
        PROVE  versions' = versions /\ Flushes(r, {})
    BY <2>5 DEF UserPersist, Flush, Flushes, boundVars
  <2>6. ASSUME UserPersistFails(r)
        PROVE  versions' = versions /\ FailsToPersist(r)
    BY <2>6 DEF UserPersistFails, LocalPersistFails, Drops, FailsToPersist
  <2>7. (\E k \in Key : UserSave(r, k) \/ PatchRead(r, k)) \/ PatchWrite(r) \/ UserPersist(r)
          \/ UserPersistFails(r)
    BY <1>2, <2>2 DEF Application
  <2> HIDE HubAssumption, SyncAssumption
  <2> QED BY <1>2, <2>1, <2>3, <2>4, <2>5, <2>6, <2>7 DEF FieldStep
<1>3. ASSUME NEW t \in Client, Reconcile(t) \/ ReconcileFails(t)
      PROVE  FieldStep(Owner[t])
  <2>1. ASSUME StartPull(t) \/ ServePull(t) \/ LoadLocalRecords(t) \/ LocalRecord(t)
                 \/ PullLost(t) \/ PushRequestLost(t) \/ PushTimesOut(t)
        PROVE  versions' = versions /\ Rests
    <3>1. UNCHANGED <<replicaVars, committed, edits>>
      BY <2>1
      DEF StartPull, ServePull, LoadLocalRecords, LocalRecord, PullLost, PushRequestLost,
          PushTimesOut, boundVars
    <3> QED BY <3>1 DEF replicaVars, Rests
  <2>2. ASSUME ApplyPulled(t) \/ ApplyConflict(t)
        PROVE  Applies(t) /\ Caches(t) /\ task[t].todo # <<>>
    <3>1. Applies(t) /\ task[t].todo # <<>>
      BY <2>2, TaskEffect DEF Reconcile
    <3>2. ApplyIncoming(Owner[t], Head(task[t].todo), task[t].found[Head(task[t].todo).key])
      BY <2>2 DEF ApplyPulled, ApplyConflict
    <3>3. Caches(t)
      BY <3>2 DEF ApplyIncoming, Caches
    <3> QED BY <3>1, <3>3
  <2>3. ASSUME PullDone(t) \/ PushOutbox(t) \/ PushDone(t)
        PROVE  versions' = versions /\ (Rests \/ \E removed : Flushes(Owner[t], removed))
    <3>1. versions' = versions
      BY <2>3 DEF PullDone, PushOutbox, PushDone
    <3> QED BY <2>3, <3>1, TaskEffect DEF Reconcile
  <2>4. ASSUME PullDoneFails(t) \/ PushOutboxFails(t) \/ PushDoneFails(t)
        PROVE  versions' = versions /\ FailsToPersist(Owner[t])
    <3>1. versions' = versions
      BY <2>4 DEF PullDoneFails, PushOutboxFails, PushDoneFails
    <3> QED BY <2>4, <3>1, TaskEffect DEF ReconcileFails
  <2>5. \/ StartPull(t) \/ ServePull(t) \/ LoadLocalRecords(t) \/ LocalRecord(t)
        \/ PullLost(t) \/ PushRequestLost(t) \/ PushTimesOut(t)
        \/ ApplyPulled(t) \/ ApplyConflict(t)
        \/ PullDone(t) \/ PushOutbox(t) \/ PushDone(t)
        \/ PullDoneFails(t) \/ PushOutboxFails(t) \/ PushDoneFails(t)
    BY <1>3 DEF Reconcile, ReconcileFails
  <2> HIDE HubAssumption, SyncAssumption
  <2> QED BY <2>1, <2>2, <2>3, <2>4, <2>5 DEF FieldStep
<1>4. ASSUME NEW r \in Replica
      PROVE  ~Crash(r)
  BY <1>0 DEF Crash
<1>5. Hub => versions' = versions /\ Rests
  BY HubEffect
<1>6. UNCHANGED vars => versions' = versions /\ Rests
  BY DEF vars, replicaVars, boundVars, Rests
<1> HIDE HubAssumption, SyncAssumption
<1> QED BY <1>0, <1>1, <1>2, <1>3, <1>4, <1>5, <1>6 DEF Next, Acts

(* Without removes: every record stored, queued, sent, read or known has a
   version for each field, which its replica's clock is past, and nothing is
   ever rejected. *)
FieldMode == FieldLevel /\ MaxCrashes = 0 /\ "remove" \notin Ops

HeldAt(c, rec) == FieldRec(rec) /\ ClockLeq(rec.ver, c)
CachedAt(r, k) ==
  versions[r][k] # Absent => \E ver \in Stamp : Tops(versions[r][k], ver) /\ ClockLeq(ver, clk[r])

FieldHeld ==
  \A r \in Replica, k \in Key :
    /\ local[r][k] # Absent => HeldAt(clk[r], local[r][k])
    /\ saves[r][k] # Absent => HeldAt(clk[r], saves[r][k])
    /\ CachedAt(r, k)
FieldFound ==
  \A t \in Client, k \in Key : task[t].found[k] # Absent => HeldAt(clk[Owner[t]], task[t].found[k])
FieldKnown == \A c : Known(c) => FieldRec(c.rec)
NoConflict ==
  /\ job # Absent => job.conflicts = <<>>
  /\ \A t \in Client : task[t].pc # "resolve" /\ (task[t].pc = "resolving" => task[t].todo = <<>>)

FieldInv == TypeInv /\ PushInv /\ Travels /\ FieldHeld /\ FieldFound /\ FieldKnown /\ NoConflict

(* The record an application writes, and what a pulled change makes of one. *)
WrittenBy(r, k, rec) ==
  Application(r) /\ (Queues(r, k, rec) \/ Patches(r, k, rec)) /\ Writes(r, k, rec)
AppliedBy(t, k, rec) ==
  /\ ApplyPulled(t) \/ ApplyConflict(t)
  /\ Applies(t) /\ task[t].todo # <<>> /\ Head(task[t].todo).key = k
  /\ rec = Applied(Head(task[t].todo).rec, task[t].found[k])
FreshAt(r, k, rec) ==
  /\ rec # Absent
  /\ WrittenBy(r, k, rec) \/ \E t \in Client : Owner[t] = r /\ AppliedBy(t, k, rec)

(* A record a save makes. *)
LEMMA WrittenRec ==
  ASSUME FieldInv, FieldMode, NEW r \in Replica, NEW k \in Key, NEW rec, WrittenBy(r, k, rec)
  PROVE  /\ HeldAt(clk'[r], rec) /\ rec \in Record
         /\ versions[r][k] # Absent => NotBelow(rec.fv, versions[r][k])
<1>1. TypeInv /\ FieldLevel /\ Field # {} /\ CachedAt(r, k)
  BY DEF FieldInv, FieldMode, FieldHeld, WrittenBy, Writes
<1>2. Stamps(r, rec) /\ rec \in Record
  BY DEF WrittenBy, Queues, Patches, Stamps
<1>3. clk'[r] = HlcNow(clk[r], wall[r])
  BY <1>1, <1>2, StampedClock
<1>4. PICK val, dirty : rec = Stamped(r, k, val, dirty, Now(r))
  BY DEF WrittenBy, Writes
<1>5. /\ FieldRec(rec) /\ ClockLeq(rec.ver, HlcNow(clk[r], wall[r]))
      /\ versions[r][k] # Absent => NotBelow(rec.fv, versions[r][k])
  BY <1>1, <1>4, StampedRec DEF CachedAt
<1> QED BY <1>2, <1>3, <1>5 DEF HeldAt

(* A record a pulled change makes. *)
LEMMA AppliedRec ==
  ASSUME FieldInv, FieldMode, NEW t \in Client, NEW k \in Key, NEW rec, rec # Absent,
         AppliedBy(t, k, rec)
  PROVE  LET inc == Head(task[t].todo).rec
             old == task[t].found[k]
         IN  /\ HeldAt(clk'[Owner[t]], rec) /\ rec \in Record
             /\ Head(task[t].todo) \in committed
             /\ old # Absent => old \in Record /\ FieldRec(old) /\ NotBelow(rec.fv, old.fv)
             /\ \A f \in Field :
                  \/ rec.fv[f] = inc.fv[f] /\ rec.val[f] = inc.val[f]
                  \/ old # Absent /\ rec.fv[f] = old.fv[f] /\ rec.val[f] = old.val[f]
<1> DEFINE inc == Head(task[t].todo).rec
           old == task[t].found[k]
           r == Owner[t]
<1>1. TypeInv /\ FieldLevel /\ task[t].todo # <<>> /\ Applies(t) /\ Head(task[t].todo).key = k
      /\ rec = Applied(inc, old)
  BY DEF FieldInv, FieldMode, AppliedBy
<1>2. /\ r \in Replica /\ inc \in Record /\ inc.ver \in Stamp /\ old \in Record \cup {Absent}
      /\ ClockLeq(inc.ver, clk'[r])
      /\ \A x \in Stamp : ClockLeq(x, clk[r]) => ClockLeq(x, clk'[r])
  BY <1>1, AppliesClock
<1>3. Head(task[t].todo) \in committed
  <2>1. task[t].todo \in Seq(Change) /\ Holding(task[t].todo) \subseteq committed
    BY <1>1, TaskType DEF FieldInv, Travels, CallOrigin
  <2> QED BY <1>1, <2>1, HoldingType
<1>4. FieldRec(inc)
  BY <1>3 DEF FieldInv, FieldKnown, Known
<1>5. old # Absent => HeldAt(clk[r], old) /\ old \in Record /\ old.ver \in Stamp
  <2>1. old # Absent => HeldAt(clk[r], old)
    BY DEF FieldInv, FieldFound
  <2> QED BY <1>2, <2>1 DEF Record
<1> HIDE DEF inc, old, r
<1>6. old # Absent => FieldRec(old) /\ ClockLeq(old.ver, clk'[r])
  BY <1>2, <1>5 DEF HeldAt
<1>7. /\ rec \in Record /\ FieldRec(rec)
      /\ rec.ver = inc.ver \/ (old # Absent /\ rec.ver = old.ver)
      /\ old # Absent => NotBelow(rec.fv, old.fv)
      /\ \A f \in Field :
           \/ rec.fv[f] = inc.fv[f] /\ rec.val[f] = inc.val[f]
           \/ old # Absent /\ rec.fv[f] = old.fv[f] /\ rec.val[f] = old.val[f]
  BY <1>1, <1>2, <1>4, <1>6, MergedRec
<1>8. HeldAt(clk'[r], rec)
  <2>1. ClockLeq(rec.ver, clk'[r])
    BY <1>2, <1>6, <1>7
  <2> QED BY <1>7, <2>1 DEF HeldAt, r
<1> QED BY <1>3, <1>5, <1>6, <1>7, <1>8 DEF inc, old, r

LEMMA FreshRec ==
  ASSUME FieldInv, FieldMode, NEW r \in Replica, NEW k \in Key, NEW rec, FreshAt(r, k, rec)
  PROVE  HeldAt(clk'[r], rec) /\ rec \in Record
BY WrittenRec, AppliedRec DEF FreshAt

(* What a step does to a record: nothing, a new one, or its flush or loss. *)
LEMMA RecordMoves ==
  ASSUME FieldInv, FieldMode, [Next]_vars, NEW r \in Replica, NEW k \in Key
  PROVE  \/ UNCHANGED <<local[r][k], saves[r][k], versions[r][k]>>
         \/ /\ versions'[r][k] = versions[r][k] /\ saves'[r][k] = Absent
            /\ local'[r][k] \in {local[r][k], Flushed(r)[k]}
         \/ \E rec : /\ FreshAt(r, k, rec) /\ versions'[r][k] = rec.fv
                     /\ \/ saves'[r][k] = rec /\ local'[r][k] = local[r][k]
                        \/ saves'[r][k] = Absent /\ local'[r][k] = rec
<1> DEFINE Same == UNCHANGED <<local[r][k], saves[r][k], versions[r][k]>>
           Flushing == /\ versions'[r][k] = versions[r][k] /\ saves'[r][k] = Absent
                       /\ local'[r][k] \in {local[r][k], Flushed(r)[k]}
           Making == \E rec : /\ FreshAt(r, k, rec) /\ versions'[r][k] = rec.fv
                              /\ \/ saves'[r][k] = rec /\ local'[r][k] = local[r][k]
                                 \/ saves'[r][k] = Absent /\ local'[r][k] = rec
           Goal == Same \/ Flushing \/ Making
<1>0. /\ TypeInv /\ FieldLevel
      /\ local \in [Replica -> [Key -> Record \cup {Absent}]]
      /\ saves \in [Replica -> [Key -> Record \cup {Absent}]]
      /\ versions \in [Replica -> [Key -> FieldStamps \cup {Absent}]]
  BY DEF FieldInv, FieldMode, TypeInv, TypeOK
<1>1. ASSUME versions' = versions, Rests
      PROVE  Same
  BY <1>1 DEF Rests
<1>2. ASSUME NEW s \in Replica, NEW j \in Key, NEW rec, WrittenBy(s, j, rec)
      PROVE  Goal
  <2>1. rec # Absent /\ versions' = [versions EXCEPT ![s][j] = rec.fv]
    BY <1>2 DEF WrittenBy, Queues, Patches, Stamps, Writes
  <2>2. FreshAt(s, j, rec)
    BY <1>2, <2>1 DEF FreshAt
  <2>3. versions'[r][k] = IF s = r /\ j = k THEN rec.fv ELSE versions[r][k]
    BY <1>0, <2>1
  <2>4. CASE Queues(s, j, rec)
    <3>1. local' = local /\ saves' = [saves EXCEPT ![s][j] = rec]
      BY <2>4 DEF Queues
    <3>2. saves'[r][k] = IF s = r /\ j = k THEN rec ELSE saves[r][k]
      BY <1>0, <3>1
    <3> QED BY <2>2, <2>3, <3>1, <3>2
  <2>5. CASE Patches(s, j, rec)
    <3>1. /\ local' = [local EXCEPT ![s] = [Flushed(s) EXCEPT ![j] = rec]]
          /\ saves' = [saves EXCEPT ![s] = NoRecords]
      BY <2>5 DEF Patches, DropQueue
    <3>2. local'[r][k] = IF s # r THEN local[r][k]
                         ELSE IF j = k THEN rec ELSE Flushed(r)[k]
      BY <1>0, <3>1 DEF Flushed
    <3>3. saves'[r][k] = IF s # r THEN saves[r][k] ELSE Absent
      BY <1>0, <3>1 DEF NoRecords
    <3>4. CASE s # r
      BY <2>3, <3>2, <3>3, <3>4
    <3>5. CASE s = r /\ j = k
      BY <2>2, <2>3, <3>2, <3>3, <3>5
    <3>6. CASE s = r /\ j # k
      BY <2>3, <3>2, <3>3, <3>6
    <3> QED BY <3>4, <3>5, <3>6
  <2> QED BY <1>2, <2>4, <2>5 DEF WrittenBy
<1>3. ASSUME NEW s \in Replica, versions' = versions,
             (\E removed : Flushes(s, removed)) \/ FailsToPersist(s)
      PROVE  Same \/ Flushing
  <2>1. /\ local' = local \/ local' = [local EXCEPT ![s] = Flushed(s)]
        /\ saves' = [saves EXCEPT ![s] = NoRecords]
    BY <1>3 DEF Flushes, FlushAnd, DropQueue, FailsToPersist, Drops
  <2>2. saves'[r][k] = IF s # r THEN saves[r][k] ELSE Absent
    BY <1>0, <2>1 DEF NoRecords
  <2>3. local'[r][k] = local[r][k] \/ (s = r /\ local'[r][k] = Flushed(r)[k])
    <3>1. CASE local' = local
      BY <3>1
    <3>2. CASE local' = [local EXCEPT ![s] = Flushed(s)]
      <4>1. s = r => local'[r] = Flushed(r)
        BY <1>0, <3>2
      <4>2. s # r => local'[r] = local[r]
        BY <1>0, <3>2
      <4> QED BY <4>1, <4>2
    <3> QED BY <2>1, <3>1, <3>2
  <2>4. versions' = versions
    BY <1>3
  <2>5. s # r => Same
    BY <2>2, <2>3, <2>4
  <2>6. s = r => Flushing
    BY <2>2, <2>3, <2>4
  <2> HIDE DEF Same, Flushing
  <2> QED BY <2>5, <2>6
<1>4. ASSUME NEW t \in Client, ApplyPulled(t) \/ ApplyConflict(t), Applies(t), Caches(t),
             task[t].todo # <<>>
      PROVE  Same \/ Making
  <2> DEFINE j == Head(task[t].todo).key
             new == Applied(Head(task[t].todo).rec, task[t].found[j])
  <2>1. Owner[t] \in Replica /\ j \in Key
    BY <1>0, <1>4, TaskType
  <2>2. /\ local' = local
        /\ saves' = IF new = Absent THEN saves ELSE [saves EXCEPT ![Owner[t]][j] = new]
        /\ versions' = IF new # Absent /\ new.fv # Absent
                       THEN [versions EXCEPT ![Owner[t]][j] = new.fv] ELSE versions
    BY <1>0, <1>4 DEF Applies, Caches
  <2>3. new # Absent => FreshAt(Owner[t], j, new)
    BY <1>4 DEF FreshAt, AppliedBy
  <2> HIDE DEF new, j
  <2>4. new # Absent => new.fv # Absent
    BY <2>1, <2>3, FreshRec DEF HeldAt, FieldRec
  <2>5. saves'[r][k] = IF new # Absent /\ Owner[t] = r /\ j = k THEN new ELSE saves[r][k]
    BY <1>0, <2>1, <2>2
  <2>6. versions'[r][k] = IF new # Absent /\ Owner[t] = r /\ j = k THEN new.fv ELSE versions[r][k]
    BY <1>0, <2>1, <2>2, <2>4
  <2> QED BY <2>2, <2>3, <2>5, <2>6
<1> HIDE DEF Same, Flushing, Making
<1>5. (versions' = versions /\ Rests) \/ \E s \in Replica : FieldStep(s)
  BY <1>0, FieldEffect DEF FieldMode
<1>6. ASSUME NEW s \in Replica, FieldStep(s)
      PROVE  Goal
  <2> HIDE HubAssumption, SyncAssumption
  <2>1. \/ \E j \in Key : \E rec : WrittenBy(s, j, rec)
        \/ versions' = versions /\ \E removed : Flushes(s, removed)
        \/ versions' = versions /\ FailsToPersist(s)
        \/ \E t \in Client : /\ ApplyPulled(t) \/ ApplyConflict(t)
                             /\ Applies(t) /\ Caches(t) /\ task[t].todo # <<>>
        \/ versions' = versions /\ Rests
    BY <1>6 DEF FieldStep, WrittenBy
  <2> QED BY <1>1, <1>2, <1>3, <1>4, <1>6, <2>1
<1>7. Goal
  BY <1>1, <1>5, <1>6
<1> QED BY <1>7 DEF Same, Flushing, Making

LEMMA FieldHeldKept ==
  ASSUME FieldInv, FieldMode, [Next]_vars
  PROVE  FieldHeld'
<1> SUFFICES ASSUME NEW r \in Replica, NEW k \in Key
             PROVE  /\ local'[r][k] # Absent => HeldAt(clk'[r], local'[r][k])
                    /\ saves'[r][k] # Absent => HeldAt(clk'[r], saves'[r][k])
                    /\ CachedAt(r, k)'
  BY DEF FieldHeld
<1>0. /\ TypeInv /\ MaxCrashes = 0
      /\ \A s \in Stamp : ClockLeq(s, clk[r]) => ClockLeq(s, clk'[r])
  BY ClocksAdvance DEF FieldInv, FieldMode
<1>1. ASSUME NEW rec \in Record, HeldAt(clk[r], rec)
      PROVE  HeldAt(clk'[r], rec)
  <2>1. rec.ver \in Stamp
    BY DEF Record
  <2> QED BY <1>0, <1>1, <2>1 DEF HeldAt
<1>2. /\ local[r][k] # Absent => local[r][k] \in Record /\ HeldAt(clk[r], local[r][k])
      /\ saves[r][k] # Absent => saves[r][k] \in Record /\ HeldAt(clk[r], saves[r][k])
      /\ CachedAt(r, k)
  BY <1>0, StoredStamps DEF FieldInv, FieldHeld
<1>3. Flushed(r)[k] \in {local[r][k], saves[r][k]}
  BY DEF Flushed
<1>4. ASSUME NEW rec, FreshAt(r, k, rec)
      PROVE  /\ HeldAt(clk'[r], rec)
             /\ versions'[r][k] = rec.fv => CachedAt(r, k)'
  <2>1. HeldAt(clk'[r], rec) /\ rec.ver \in Stamp
    BY <1>4, FreshRec DEF Record
  <2>2. Tops(rec.fv, rec.ver) /\ ClockLeq(rec.ver, clk'[r])
    BY <2>1 DEF HeldAt, FieldRec
  <2> QED BY <2>1, <2>2 DEF CachedAt
<1>5. versions'[r][k] = versions[r][k] => CachedAt(r, k)'
  BY <1>0, <1>2 DEF CachedAt
<1>6. /\ local[r][k] # Absent => HeldAt(clk'[r], local[r][k])
      /\ saves[r][k] # Absent => HeldAt(clk'[r], saves[r][k])
  BY <1>1, <1>2
<1> QED BY <1>3, <1>4, <1>5, <1>6, RecordMoves

(* A field-level change is never rejected, so no push ends in a conflict. *)
LEMMA NeverRejected ==
  ASSUME FieldInv
  PROVE  ~HubReject
<1>1. HubTypeOK
  BY DEF FieldInv, TypeInv, TypeOK
<1>2. ASSUME job # Absent, job.rest # <<>>
      PROVE  Accepted(Head(job.rest))
  <2>1. Head(job.rest) \in Holding(job.rest)
    BY <1>1, <1>2, JobType, HoldingType
  <2>2. Head(job.rest) \in committed
    BY <1>2, <2>1 DEF FieldInv, Travels, HubOrigin
  <2>3. Head(job.rest).rec.fv # Absent
    BY <2>2 DEF FieldInv, FieldKnown, FieldRec, Known
  <2> QED BY <2>3 DEF Accepted
<1> QED BY <1>2 DEF HubReject

LEMMA NoConflictKept ==
  ASSUME FieldInv, FieldMode, [Next]_vars
  PROVE  NoConflict'
<1>0. TypeInv /\ PushInv /\ TypeOK /\ HubTypeOK /\ MaxCrashes = 0 /\ NoConflict
  BY DEF FieldInv, FieldMode, TypeInv, TypeOK
<1>1. job' # Absent => job'.conflicts = <<>>
  <2>1. ASSUME job' = job
        PROVE  job' # Absent => job'.conflicts = <<>>
    BY <1>0, <2>1 DEF NoConflict
  <2>2. ASSUME HubTake
        PROVE  job' # Absent => job'.conflicts = <<>>
    BY <2>2 DEF HubTake
  <2>3. ASSUME HubAppend
        PROVE  job' # Absent => job'.conflicts = <<>>
    <3>1. job # Absent /\ job \in Job /\ job.conflicts = <<>>
      BY <1>0, <2>3, JobType DEF HubAppend, NoConflict
    <3>2. job'.conflicts = job.conflicts
      BY <2>3, <3>1 DEF HubAppend, Job
    <3> QED BY <3>1, <3>2
  <2>4. ASSUME HubCommit \/ HubPersistFails \/ HubRestart
        PROVE  job' = Absent
    BY <2>4 DEF HubCommit, HubPersistFails, HubRestart
  <2>5. Pulls => job' = job
    BY DEF Pulls, HubPull
  <2>6. ASSUME NEW who \in SUBSET Client, Forget(who)
        PROVE  job' # Absent => job'.conflicts = <<>>
    <3>1. job' = IF job # Absent /\ job.to \in who THEN [job EXCEPT !.to = Nobody] ELSE job
      BY <2>6 DEF Forget
    <3>2. job # Absent => job \in Job /\ job.conflicts = <<>>
      BY <1>0, JobType DEF NoConflict
    <3> QED BY <3>1, <3>2 DEF Job
  <2>7. HubStep => HubTake \/ HubAppend \/ HubCommit \/ HubPersistFails \/ HubRestart \/ Pulls
    BY NeverRejected DEF HubStep
  <2> QED BY <1>0, <2>1, <2>2, <2>3, <2>4, <2>5, <2>6, <2>7, StepOfHub
<1>2. ASSUME NEW t \in Client
      PROVE  task'[t].pc # "resolve" /\ (task'[t].pc = "resolving" => task'[t].todo = <<>>)
  <2>1. CASE task'[t] = task[t]
    BY <1>0, <2>1 DEF NoConflict
  <2>2. CASE ReconcileFails(t) \/ CutOff(t)
    BY <1>0, <2>2, FailedSteps, IdleFields DEF CutOff
  <2>3. CASE Answered(t)
    BY <1>0, <2>3 DEF Answered, NoConflict
  <2>4. CASE StartPull(t) \/ ServePull(t) \/ LoadLocalRecords(t) \/ ApplyPulled(t) \/ PullDone(t)
    BY <1>0, <2>4, PullSteps
  <2>5. CASE PushOutbox(t) \/ PushDone(t)
    BY <1>0, <2>5, PushSteps, IdleFields
  <2>6. ~LocalRecord(t) /\ ~ApplyConflict(t)
    BY <1>0, PushSteps DEF NoConflict
  <2> QED BY <1>0, <2>1, <2>2, <2>3, <2>4, <2>5, <2>6, CallSteps DEF Reconcile
<1> QED BY <1>1, <1>2 DEF NoConflict

(* What a call has found it has read, now or before. *)
LEMMA FoundSteps ==
  ASSUME TypeInv, PushInv, [Next]_vars, MaxCrashes = 0, NEW t \in Client, NEW k \in Key
  PROVE  task'[t].found[k] \in {task[t].found[k], local[Owner[t]][k], Absent}
<1>0. task \in [Client -> TaskState] /\ task[t] \in TaskState
      /\ Idle.found[k] = Absent /\ NoRecords[k] = Absent
  BY TaskType, IdleFields DEF TypeInv, TaskTypes, NoRecords
<1>1. CASE task'[t] = task[t]
  BY <1>1
<1>2. CASE ReconcileFails(t) \/ CutOff(t)
  BY <1>0, <1>2, FailedSteps DEF CutOff
<1>3. CASE Answered(t)
  BY <1>3 DEF Answered
<1>4. CASE StartPull(t) \/ ServePull(t)
  <2>1. StartPull(t) => task'[t].found = task[t].found
    BY <1>0 DEF StartPull, TaskState
  <2>2. ASSUME ServePull(t)
        PROVE  task'[t].found = task[t].found
    <3>1. PICK i \in 1..(Len(log) + 1) :
            task' = [task EXCEPT ![t].pc = "pulled", ![t].todo = ChangesFrom(i),
                                 ![t].next = NextCursor(@, i)]
      BY <2>2 DEF ServePull
    <3> QED BY <1>0, <3>1 DEF TaskState
  <2> QED BY <1>4, <2>1, <2>2
<1>5. CASE LoadLocalRecords(t)
  BY <1>5, PullSteps
<1>6. CASE ApplyPulled(t) \/ PullDone(t)
  BY <1>0, <1>6, PullSteps
<1>7. CASE PushOutbox(t)
  <2>1. task'[t] = Idle \/ task'[t] = [task[t] EXCEPT !.pc = "pushing",
                                       !.sent = outbox[Owner[t]] \cup enqueued[Owner[t]]]
    BY <1>0, <1>7 DEF PushOutbox
  <2> QED BY <1>0, <2>1 DEF TaskState
<1>8. CASE LocalRecord(t)
  <2> DEFINE j == Head(task[t].todo).key
  <2>1. task'[t].found = [NoRecords EXCEPT ![j] = local[Owner[t]][j]]
    BY <1>8, PushSteps
  <2> HIDE DEF j
  <2> QED BY <1>0, <2>1 DEF NoRecords
<1>9. CASE ApplyConflict(t) \/ PushDone(t)
  BY <1>0, <1>9, PushSteps
<1> QED BY <1>1, <1>2, <1>3, <1>4, <1>5, <1>6, <1>7, <1>8, <1>9, CallSteps DEF Reconcile

LEMMA FieldFoundKept ==
  ASSUME FieldInv, FieldMode, [Next]_vars
  PROVE  FieldFound'
<1> SUFFICES ASSUME NEW t \in Client, NEW k \in Key, task'[t].found[k] # Absent
             PROVE  HeldAt(clk'[Owner[t]], task'[t].found[k])
  BY DEF FieldFound
<1> DEFINE r == Owner[t]
           old == task'[t].found[k]
<1>0. /\ TypeInv /\ PushInv /\ MaxCrashes = 0 /\ r \in Replica
      /\ \A s \in Stamp : ClockLeq(s, clk[r]) => ClockLeq(s, clk'[r])
  BY ClocksAdvance, TaskType DEF FieldInv, FieldMode
<1>1. old \in {task[t].found[k], local[r][k]}
  BY <1>0, FoundSteps
<1>2. old \in Record /\ HeldAt(clk[r], old)
  <2>1. task[t].found[k] \in Record \cup {Absent} /\ local[r][k] \in Record \cup {Absent}
    <3>1. local \in [Replica -> [Key -> Record \cup {Absent}]]
      BY <1>0 DEF TypeInv, TypeOK
    <3>2. task[t].found \in [Key -> Record \cup {Absent}]
      BY <1>0, TaskType
    <3> QED BY <1>0, <3>1, <3>2
  <2>2. /\ task[t].found[k] # Absent => HeldAt(clk[r], task[t].found[k])
        /\ local[r][k] # Absent => HeldAt(clk[r], local[r][k])
    BY <1>0 DEF FieldInv, FieldFound, FieldHeld
  <2> QED BY <1>1, <2>1, <2>2
<1> HIDE DEF old, r
<1>3. old.ver \in Stamp
  BY <1>2 DEF Record
<1>4. HeldAt(clk'[r], old)
  BY <1>0, <1>2, <1>3 DEF HeldAt
<1> QED BY <1>4 DEF old, r

(* What a step adds to what is known. *)
LEMMA KnownGrows ==
  ASSUME FieldInv, FieldMode, [Next]_vars
  PROVE  \/ \A c : Known(c)' => Known(c)
         \/ \E r \in Replica, k \in Key : \E rec :
              WrittenBy(r, k, rec) /\ \A c : Known(c)' <=> Known(c) \/ c = NewEntry(k, rec).ch
<1>0. TypeInv /\ FieldLevel /\ MaxCrashes = 0 /\ "remove" \notin Ops
      /\ enqueued \in [Replica -> SUBSET Entry]
  BY DEF FieldInv, FieldMode, TypeInv, TypeOK
<1>1. ASSUME NEW r \in Replica, NEW k \in Key, NEW rec, WrittenBy(r, k, rec)
      PROVE  \A c : Known(c)' <=> Known(c) \/ c = NewEntry(k, rec).ch
  BY <1>0, <1>1, WritesKnown DEF WrittenBy
<1>2. ASSUME NEW r \in Replica, NEW removed, Flushes(r, removed)
      PROVE  \A c : Known(c)' => Known(c)
  <2>1. /\ committed' = committed \cup {e.ch : e \in enqueued[r]}
        /\ \A s \in Replica : enqueued'[s] \subseteq enqueued[s]
    BY <1>0, <1>2 DEF Flushes, FlushAnd, DropQueue
  <2> QED BY <2>1 DEF Known
<1>3. ASSUME NEW r \in Replica, FailsToPersist(r)
      PROVE  \A c : Known(c)' => Known(c)
  <2>1. /\ committed' = committed
        /\ \A s \in Replica : enqueued'[s] \subseteq enqueued[s]
    BY <1>0, <1>3 DEF FailsToPersist, Drops, DropQueue
  <2> QED BY <2>1 DEF Known
<1>4. ASSUME Rests \/ \E t \in Client : Applies(t)
      PROVE  \A c : Known(c)' => Known(c)
  BY <1>4 DEF Rests, Applies, Known
<1>5. (versions' = versions /\ Rests) \/ \E r \in Replica : FieldStep(r)
  BY <1>0, FieldEffect
<1>6. ASSUME NEW r \in Replica, FieldStep(r)
      PROVE  \/ \E k \in Key : \E rec : WrittenBy(r, k, rec)
             \/ (\E removed : Flushes(r, removed)) \/ FailsToPersist(r)
             \/ Rests \/ \E t \in Client : Applies(t)
  <2> HIDE HubAssumption, SyncAssumption
  <2> QED BY <1>6 DEF FieldStep, WrittenBy
<1> QED BY <1>1, <1>2, <1>3, <1>4, <1>5, <1>6

LEMMA FieldKnownKept ==
  ASSUME FieldInv, FieldMode, [Next]_vars
  PROVE  FieldKnown'
<1>1. FieldKnown
  BY DEF FieldInv
<1>2. CASE \A c : Known(c)' => Known(c)
  BY <1>1, <1>2 DEF FieldKnown
<1>3. ASSUME NEW r \in Replica, NEW k \in Key, NEW rec, WrittenBy(r, k, rec),
             \A c : Known(c)' <=> Known(c) \/ c = NewEntry(k, rec).ch
      PROVE  FieldKnown'
  <2>1. FieldRec(rec) /\ NewEntry(k, rec).ch.rec = rec
    BY <1>3, WrittenRec DEF HeldAt, NewEntry
  <2> QED BY <1>1, <1>3, <2>1 DEF FieldKnown
<1> QED BY <1>2, <1>3, KnownGrows

LEMMA OutboxOriginKept ==
  ASSUME TypeInv, OutboxOrigin, [Next]_vars, MaxCrashes = 0
  PROVE  OutboxOrigin'
<1>0. outbox \in [Replica -> SUBSET Entry] /\ committed \subseteq committed' /\ crashes \in Nat
  BY KnownSteps DEF TypeInv, TypeOK
<1> DEFINE Added(r) == \A s \in Replica : outbox'[s] \subseteq outbox[s]
                          \cup (IF s = r THEN {e \in outbox'[r] : e.ch \in committed'} ELSE {})
<1>1. ASSUME NEW r \in Replica, Added(r)
      PROVE  OutboxOrigin'
  BY <1>0, <1>1 DEF OutboxOrigin
<1>2. ASSUME NEW r \in Replica, NEW k \in Key, NEW rec, Queues(r, k, rec)
      PROVE  OutboxOrigin'
  BY <1>0, <1>2 DEF Queues, OutboxOrigin
<1>3. ASSUME NEW r \in Replica, NEW k \in Key, NEW rec, Patches(r, k, rec)
      PROVE  OutboxOrigin'
  <2>1. /\ \A s \in Replica : s # r => outbox'[s] = outbox[s]
        /\ outbox'[r] = outbox[r] \cup (enqueued[r] \cup {NewEntry(k, rec)})
        /\ committed' = committed \cup {d.ch : d \in enqueued[r] \cup {NewEntry(k, rec)}}
    BY <1>0, <1>3 DEF Patches
  <2> QED BY <2>1 DEF OutboxOrigin
<1>4. ASSUME NEW r \in Replica, NEW removed, Flushes(r, removed)
      PROVE  OutboxOrigin'
  <2>1. /\ \A s \in Replica : s # r => outbox'[s] = outbox[s]
        /\ outbox'[r] \subseteq outbox[r] \cup enqueued[r]
        /\ committed' = committed \cup {d.ch : d \in enqueued[r]}
    BY <1>0, <1>4 DEF Flushes, FlushAnd
  <2> QED BY <2>1 DEF OutboxOrigin
<1>5. ASSUME Rests \/ (\E r \in Replica : Drops(r)) \/ \E t \in Client : Applies(t)
      PROVE  OutboxOrigin'
  BY <1>5 DEF Rests, Drops, Applies, OutboxOrigin
<1>6. \A r \in Replica : ~Crash(r)
  BY <1>0 DEF Crash
<1> QED BY <1>2, <1>3, <1>4, <1>5, <1>6, StepEffect

LEMMA FieldInvKept ==
  ASSUME FieldInv, FieldMode, [Next]_vars
  PROVE  FieldInv'
<1>1. TypeInv /\ PushInv /\ Travels /\ MaxCrashes = 0
  BY DEF FieldInv, FieldMode
<1>2. TypeInv' /\ PushInv'
  BY <1>1, StepType, StepPush
<1>3. Travels'
  BY <1>1, OutboxOriginKept, HubOriginKept, CallOriginKept DEF Travels
<1> QED BY <1>2, <1>3, FieldHeldKept, FieldFoundKept, FieldKnownKept, NoConflictKept DEF FieldInv

LEMMA FieldInvariant ==
  ASSUME FieldLevel, MaxCrashes = 0, "remove" \notin Ops
  PROVE  Spec => []FieldInv
<1>1. Init => Travels /\ FieldHeld /\ FieldFound /\ FieldKnown /\ NoConflict
  <2> SUFFICES ASSUME Init PROVE Travels /\ FieldHeld /\ FieldFound /\ FieldKnown /\ NoConflict
    OBVIOUS
  <2>1. AllRows = <<>> /\ job = Absent /\ inbox = {} /\ \A t \in Client : task[t] = Idle
    BY InitSeq DEF Init, HubInit
  <2>2. Travels
    BY <2>1, IdleFields DEF Init, Travels, OutboxOrigin, HubOrigin, CallOrigin, Holding
  <2>3. FieldHeld
    BY DEF Init, NoRecords, FieldHeld, CachedAt
  <2>4. FieldFound
    BY <2>1, IdleFields DEF NoRecords, FieldFound
  <2>5. FieldKnown
    BY DEF Init, Known, FieldKnown
  <2>6. NoConflict
    BY <2>1, IdleFields DEF NoConflict
  <2> QED BY <2>2, <2>3, <2>4, <2>5, <2>6
<1> DEFINE Rest == Travels /\ FieldHeld /\ FieldFound /\ FieldKnown /\ NoConflict
<1>2. TypeInv /\ PushInv /\ Rest /\ [Next]_vars => Rest'
  <2> SUFFICES ASSUME TypeInv, PushInv, Rest, [Next]_vars
               PROVE  Rest'
    OBVIOUS
  <2>1. FieldInv
    BY DEF FieldInv
  <2>2. FieldInv'
    BY <2>1, FieldInvKept DEF FieldMode
  <2> QED BY <2>2 DEF FieldInv
<1>3. FieldInv <=> TypeInv /\ PushInv /\ Rest
  BY DEF FieldInv
<1>4. Init => Rest
  BY <1>1
<1> HIDE DEF Rest
<1> QED BY <1>2, <1>3, <1>4, TypeInvariant, PushInvariant, PTL DEF Spec

---------------------------------------------------------------------------
(* Field versions never regress, where a replica runs one reconcile() at a
   time and its application does not write while a pull is being applied: what
   is queued is at least as new as what is stored, the version cache at least
   as new as both, and a change is merged with what is still stored. *)

Wanted(t, k) == \E i \in DOMAIN task[t].todo : task[t].todo[i].key = k

SaveRises(r, k) ==
  saves[r][k] # Absent /\ local[r][k] # Absent => NotBelow(saves[r][k].fv, local[r][k].fv)
CacheRises(r, k) ==
  Flushed(r)[k] # Absent =>
    versions[r][k] # Absent /\ NotBelow(versions[r][k], Flushed(r)[k].fv)
FoundIsStored ==
  \A t \in Client, k \in Key : task[t].pc = "applying" /\ Wanted(t, k) =>
    task[t].found[k] = local[Owner[t]][k]
RiseInv == (\A r \in Replica, k \in Key : SaveRises(r, k) /\ CacheRises(r, k)) /\ FoundIsStored

LEMMA FieldVersions ==
  ASSUME FieldInv, NEW r \in Replica, NEW k \in Key
  PROVE  /\ local[r][k] # Absent => local[r][k].fv \in [Field -> Stamp]
         /\ saves[r][k] # Absent => saves[r][k].fv \in [Field -> Stamp]
         /\ versions[r][k] # Absent => versions[r][k] \in [Field -> Stamp]
<1>1. /\ local[r][k] # Absent => local[r][k] \in Record /\ FieldRec(local[r][k])
      /\ saves[r][k] # Absent => saves[r][k] \in Record /\ FieldRec(saves[r][k])
      /\ CachedAt(r, k)
  BY StoredStamps DEF FieldInv, FieldHeld, HeldAt
<1>2. ASSUME NEW rec \in Record, FieldRec(rec)
      PROVE  rec.fv \in [Field -> Stamp]
  <2>1. rec.fv \in FieldStamps /\ Tops(rec.fv, rec.ver)
    BY <1>2 DEF Record, FieldRec
  <2> QED BY <2>1, TopsType
<1>3. versions[r][k] \in FieldStamps \cup {Absent}
  BY DEF FieldInv, TypeInv, TypeOK
<1>4. versions[r][k] # Absent => versions[r][k] \in [Field -> Stamp]
  BY <1>1, <1>3, TopsType DEF CachedAt
<1> QED BY <1>1, <1>2, <1>4

(* Whatever makes a new record starts from what is stored. *)
LEMMA FreshRises ==
  ASSUME FieldInv, FieldMode, RiseInv, NEW r \in Replica, NEW k \in Key, NEW rec,
         FreshAt(r, k, rec), local[r][k] # Absent
  PROVE  NotBelow(rec.fv, local[r][k].fv)
<1>0. rec.fv \in [Field -> Stamp]
  <2>1. rec.fv \in FieldStamps /\ Tops(rec.fv, rec.ver)
    BY FreshRec DEF HeldAt, FieldRec, Record
  <2> QED BY <2>1, TopsType
<1>1. CASE WrittenBy(r, k, rec)
  <2>1. NotBelow(Flushed(r)[k].fv, local[r][k].fv) /\ Flushed(r)[k] # Absent
        /\ Flushed(r)[k].fv \in [Field -> Stamp]
    BY FieldVersions, NotBelowOrder DEF RiseInv, SaveRises, Flushed
  <2>2. versions[r][k] # Absent /\ NotBelow(versions[r][k], Flushed(r)[k].fv)
    BY <2>1 DEF RiseInv, CacheRises
  <2>3. NotBelow(rec.fv, versions[r][k])
    BY <1>1, <2>2, WrittenRec
  <2>4. versions[r][k] \in [Field -> Stamp] /\ local[r][k].fv \in [Field -> Stamp]
    BY <2>2, FieldVersions
  <2>5. NotBelow(rec.fv, Flushed(r)[k].fv)
    BY <1>0, <2>1, <2>2, <2>3, <2>4, NotBelowOrder
  <2> QED BY <1>0, <2>1, <2>4, <2>5, NotBelowOrder
<1>2. ASSUME NEW t \in Client, Owner[t] = r, AppliedBy(t, k, rec)
      PROVE  NotBelow(rec.fv, local[r][k].fv)
  <2>1. TypeInv /\ NoConflict /\ task[t].todo # <<>> /\ Head(task[t].todo).key = k
        /\ (ApplyPulled(t) \/ ApplyConflict(t)) /\ rec # Absent
    BY <1>2 DEF FieldInv, AppliedBy, FreshAt
  <2>2. task[t].pc = "applying"
    BY <2>1, PullSteps, PushSteps DEF NoConflict
  <2>3. Wanted(t, k)
    <3>1. task[t].todo \in Seq(Change)
      BY <2>1, TaskType
    <3>2. Head(task[t].todo) = task[t].todo[1] /\ 1 \in DOMAIN task[t].todo
      BY <2>1, <3>1, HeadTailProperties, LenProperties
    <3> QED BY <2>1, <3>2 DEF Wanted
  <2>4. task[t].found[k] = local[r][k]
    BY <1>2, <2>2, <2>3 DEF RiseInv, FoundIsStored
  <2> QED BY <1>2, <2>1, <2>4, AppliedRec
<1> QED BY <1>1, <1>2 DEF FreshAt

(* A step of one record keeps it so. *)
LEMMA RecordRises ==
  ASSUME FieldInv, FieldMode, RiseInv, [Next]_vars, NEW r \in Replica, NEW k \in Key
  PROVE  /\ SaveRises(r, k)' /\ CacheRises(r, k)'
         /\ local[r][k] # Absent /\ local'[r][k] # Absent =>
              NotBelow(local'[r][k].fv, local[r][k].fv)
<1>1. /\ SaveRises(r, k) /\ CacheRises(r, k)
      /\ Flushed(r)[k] = IF saves[r][k] = Absent THEN local[r][k] ELSE saves[r][k]
  BY DEF RiseInv, Flushed
<1>2. /\ local[r][k] # Absent =>
           local[r][k].fv \in [Field -> Stamp] /\ NotBelow(local[r][k].fv, local[r][k].fv)
      /\ saves[r][k] # Absent => saves[r][k].fv \in [Field -> Stamp]
      /\ versions[r][k] # Absent => versions[r][k] \in [Field -> Stamp]
  BY FieldVersions, NotBelowOrder
<1>3. Flushed(r)[k]' = IF saves'[r][k] = Absent THEN local'[r][k] ELSE saves'[r][k]
  BY DEF Flushed
<1>4. CASE UNCHANGED <<local[r][k], saves[r][k], versions[r][k]>>
  BY <1>1, <1>2, <1>3, <1>4 DEF SaveRises, CacheRises
<1>5. CASE /\ versions'[r][k] = versions[r][k] /\ saves'[r][k] = Absent
           /\ local'[r][k] \in {local[r][k], Flushed(r)[k]}
  <2>1. local[r][k] # Absent /\ Flushed(r)[k] # Absent => NotBelow(Flushed(r)[k].fv, local[r][k].fv)
    BY <1>1, <1>2 DEF SaveRises
  <2>2. /\ Flushed(r)[k] # Absent => Flushed(r)[k].fv \in [Field -> Stamp]
        /\ local[r][k] # Absent => Flushed(r)[k] # Absent
    BY <1>1, <1>2
  <2>3. local[r][k] # Absent => versions[r][k] # Absent /\ NotBelow(versions[r][k], local[r][k].fv)
    BY <1>1, <1>2, <2>1, <2>2, NotBelowOrder DEF CacheRises
  <2>4. CacheRises(r, k)'
    BY <1>1, <1>3, <1>5, <2>3 DEF CacheRises
  <2>5. local[r][k] # Absent /\ local'[r][k] # Absent => NotBelow(local'[r][k].fv, local[r][k].fv)
    BY <1>2, <1>5, <2>1
  <2> QED BY <1>5, <2>4, <2>5 DEF SaveRises
<1>6. ASSUME NEW rec, FreshAt(r, k, rec), versions'[r][k] = rec.fv,
             \/ saves'[r][k] = rec /\ local'[r][k] = local[r][k]
             \/ saves'[r][k] = Absent /\ local'[r][k] = rec
      PROVE  /\ SaveRises(r, k)' /\ CacheRises(r, k)'
             /\ local[r][k] # Absent /\ local'[r][k] # Absent =>
                  NotBelow(local'[r][k].fv, local[r][k].fv)
  <2>1. rec # Absent /\ rec.fv \in FieldStamps /\ Tops(rec.fv, rec.ver) /\ rec.fv # Absent
    BY <1>6, FreshRec DEF HeldAt, FieldRec, Record
  <2>2. NotBelow(rec.fv, rec.fv)
    <3>1. rec.fv \in [Field -> Stamp]
      BY <2>1, TopsType
    <3> QED BY <3>1, NotBelowOrder
  <2>3. local[r][k] # Absent => NotBelow(rec.fv, local[r][k].fv)
    BY <1>6, FreshRises
  <2>4. CacheRises(r, k)'
    BY <1>3, <1>6, <2>1, <2>2 DEF CacheRises
  <2>5. SaveRises(r, k)'
    BY <1>6, <2>1, <2>3 DEF SaveRises
  <2> QED BY <1>2, <1>6, <2>1, <2>3, <2>4, <2>5
<1> QED BY <1>4, <1>5, <1>6, RecordMoves

(* While a call of a replica applies a pull, and nothing else does, its store
   stays what it was. *)
LEMMA StoreStays ==
  ASSUME TypeInv, [Next]_vars, MaxCrashes = 0, OneCall, "whileSyncing" \notin Ops,
         NEW t \in Client, task[t].pc = "applying", task'[t].pc = "applying"
  PROVE  local'[Owner[t]] = local[Owner[t]]
<1> DEFINE r == Owner[t]
<1>0. /\ r \in Replica /\ crashes \in Nat /\ TypeOK
      /\ local \in [Replica -> [Key -> Record \cup {Absent}]]
  BY TaskType DEF TypeInv, TypeOK
<1>1. ASSUME NEW s \in Replica, s # r,
             \/ \E k \in Key : \E rec : Queues(s, k, rec) \/ Patches(s, k, rec)
             \/ \E removed : Flushes(s, removed)
             \/ Drops(s) \/ Rests
      PROVE  local'[r] = local[r]
  BY <1>0, <1>1 DEF Queues, Patches, Flushes, FlushAnd, Drops, Rests
<1>2. ASSUME NEW s \in Replica, Application(s)
      PROVE  local'[r] = local[r]
  <2>1. s # r
    BY <1>2 DEF Application, Syncing
  <2> QED BY <1>0, <1>1, <1>2, <2>1, AppEffect DEF FailsToPersist
<1>3. ASSUME NEW u \in Client, u # t, Reconcile(u) \/ ReconcileFails(u)
      PROVE  local'[r] = local[r]
  <2>1. Owner[u] \in Replica /\ Owner[u] # r
    BY <1>3 DEF OneCall
  <2>2. \/ Rests \/ Applies(u) \/ (\E removed : Flushes(Owner[u], removed)) \/ Drops(Owner[u])
    BY <1>3, TaskEffect DEF Reconcile, ReconcileFails, FailsToPersist
  <2>3. Applies(u) => local' = local
    BY DEF Applies
  <2> QED BY <1>1, <2>1, <2>2, <2>3
<1>4. ASSUME Reconcile(t) \/ ReconcileFails(t)
      PROVE  local'[r] = local[r]
  <2>1. ~ReconcileFails(t)
    BY FailedSteps
  <2>2. ApplyPulled(t)
    BY <1>4, <2>1, PullSteps, PushSteps, IdleFields DEF Reconcile
  <2> QED BY <2>2 DEF ApplyPulled
<1>5. (\E s \in Replica : Tick(s)) \/ Hub \/ UNCHANGED vars => local' = local
  BY HubEffect DEF Tick, Rests, vars, replicaVars
<1>6. \A s \in Replica : ~Crash(s)
  BY <1>0 DEF Crash
<1> QED BY <1>2, <1>3, <1>4, <1>5, <1>6 DEF Next

LEMMA FoundIsStoredKept ==
  ASSUME FieldInv, FieldMode, FoundIsStored, [Next]_vars, OneCall, "whileSyncing" \notin Ops
  PROVE  FoundIsStored'
<1> SUFFICES ASSUME NEW t \in Client, NEW k \in Key, task'[t].pc = "applying", Wanted(t, k)'
             PROVE  task'[t].found[k] = local'[Owner[t]][k]
  BY DEF FoundIsStored
<1>0. TypeInv /\ PushInv /\ MaxCrashes = 0
  BY DEF FieldInv, FieldMode
<1>1. CASE task'[t] = task[t]
  <2>1. task[t].found[k] = local[Owner[t]][k]
    BY <1>1 DEF FoundIsStored, Wanted
  <2>2. local'[Owner[t]] = local[Owner[t]]
    BY <1>0, <1>1, StoreStays
  <2> QED BY <1>1, <2>1, <2>2
<1>2. CASE LoadLocalRecords(t)
  <2>1. /\ task'[t].todo = task[t].todo
        /\ task'[t].found[k] = IF \E i \in DOMAIN task[t].todo : task[t].todo[i].key = k
                               THEN local[Owner[t]][k] ELSE Absent
    BY <1>0, <1>2, PullSteps
  <2>2. local' = local
    BY <1>2 DEF LoadLocalRecords, replicaVars
  <2> QED BY <2>1, <2>2 DEF Wanted
<1>3. CASE ApplyPulled(t)
  <2>1. /\ task[t].pc = "applying" /\ task[t].todo # <<>> /\ task'[t].todo = Tail(task[t].todo)
        /\ task'[t].found = task[t].found /\ task[t].todo \in Seq(Change)
    BY <1>0, <1>3, PullSteps, TaskType
  <2>2. \A i \in DOMAIN Tail(task[t].todo) :
          i + 1 \in DOMAIN task[t].todo /\ Tail(task[t].todo)[i] = task[t].todo[i + 1]
    BY <2>1, HeadTailProperties, LenProperties
  <2>3. Wanted(t, k)
    BY <2>1, <2>2 DEF Wanted
  <2>4. local' = local
    BY <1>3 DEF ApplyPulled
  <2> QED BY <2>1, <2>3, <2>4 DEF FoundIsStored
<1>4. ~ReconcileFails(t) /\ ~CutOff(t) /\ ~Answered(t)
  BY <1>0, FailedSteps, IdleFields DEF CutOff, Answered
<1>5. /\ ~StartPull(t) /\ ~ServePull(t) /\ ~PullDone(t) /\ ~PushOutbox(t) /\ ~LocalRecord(t)
      /\ ~ApplyConflict(t) /\ ~PushDone(t)
  <2>1. ~StartPull(t) /\ ~ServePull(t) /\ ~PullDone(t)
    BY <1>0, PullSteps
  <2>2. ~PushOutbox(t)
    BY <1>0, PushSteps, IdleFields
  <2>3. ~LocalRecord(t) /\ ~ApplyConflict(t) /\ ~PushDone(t)
    BY <1>0, PushSteps, IdleFields
  <2> QED BY <2>1, <2>2, <2>3
<1> QED BY <1>0, <1>1, <1>2, <1>3, <1>4, <1>5, CallSteps DEF Reconcile

(* "keep the higher-versioned value per field" (SyncBackend.ts:238): whatever a
   replica saves, patches, merges, persists or fails to persist, the version it
   stores for a field never goes down. *)
THEOREM FieldsRise ==
  ASSUME FieldLevel, MaxCrashes = 0, OneCall, "remove" \notin Ops, "whileSyncing" \notin Ops
  PROVE  Spec => FieldsNeverRegress
<1> DEFINE A == \A r \in Replica, k \in Key :
                  FieldLevel /\ Live(local[r][k]) /\ Live(local'[r][k]) =>
                    \A f \in Field : ~Newer(local[r][k].fv[f], local'[r][k].fv[f])
<1>1. ASSUME Init
      PROVE  RiseInv
  <2>1. \A t \in Client : task[t].pc = "idle"
    BY <1>1, IdleFields DEF Init
  <2>2. \A r \in Replica, k \in Key : SaveRises(r, k) /\ CacheRises(r, k)
    BY <1>1 DEF Init, NoRecords, SaveRises, CacheRises, Flushed
  <2> QED BY <2>1, <2>2 DEF RiseInv, FoundIsStored
<1>2. ASSUME FieldInv, RiseInv, [Next]_vars
      PROVE  RiseInv'
  <2>1. FieldMode
    BY DEF FieldMode
  <2>2. FoundIsStored'
    BY <1>2, <2>1, FoundIsStoredKept DEF RiseInv
  <2> QED BY <1>2, <2>1, <2>2, RecordRises DEF RiseInv
<1>3. ASSUME FieldInv, FieldInv', RiseInv, [Next]_vars
      PROVE  A
  <2> SUFFICES ASSUME NEW r \in Replica, NEW k \in Key, Live(local[r][k]), Live(local'[r][k]),
                      NEW f \in Field
               PROVE  ~Newer(local[r][k].fv[f], local'[r][k].fv[f])
    OBVIOUS
  <2>1. local[r][k] # Absent /\ local'[r][k] # Absent /\ FieldMode
    BY DEF Live, FieldMode
  <2>2. NotBelow(local'[r][k].fv, local[r][k].fv)
    BY <1>3, <2>1, RecordRises
  <2>3. local[r][k].fv \in [Field -> Stamp]
    BY <1>3, <2>1, FieldVersions
  <2>4. local'[r][k].fv \in [Field -> Stamp]
    <3>1. TypeOK' /\ FieldHeld'
      BY <1>3 DEF FieldInv, TypeInv
    <3>2. local'[r][k] \in Record
      BY <2>1, <3>1 DEF TypeOK
    <3>3. FieldRec(local'[r][k])
      BY <2>1, <3>1 DEF FieldHeld, HeldAt
    <3>4. local'[r][k].fv \in FieldStamps /\ Tops(local'[r][k].fv, local'[r][k].ver)
      BY <3>2, <3>3 DEF Record, FieldRec
    <3> QED BY <3>4, TopsType
  <2>5. local[r][k].fv[f] \in Stamp /\ local'[r][k].fv[f] \in Stamp /\ Absent \notin Stamp
    BY <2>3, <2>4
  <2> QED BY <2>2, <2>5 DEF NotBelow, Newer
<1>4. FieldInv /\ FieldInv' /\ RiseInv /\ [Next]_vars => [A]_vars
  BY <1>3
<1> QED BY <1>1, <1>2, <1>4, FieldInvariant, PTL DEF Spec, FieldsNeverRegress

---------------------------------------------------------------------------
(* A version of a field stands for one value.  Nothing is patched, nothing is
   edited before it is first persisted or while a pull is applied, and local
   persists do not throw: in each of these cases a value gets away from its
   version. *)

ValueMode ==
  /\ FieldMode /\ MaxLocalFaults = 0
  /\ "patch" \notin Ops /\ "editNew" \notin Ops /\ "whileSyncing" \notin Ops

(* Some known write of k gave its field f this version and this value. *)
Given(k, f, ver, val) ==
  \E c : Known(c) /\ c.key = k /\ c.rec.fv[f] = ver /\ c.rec.val[f] = val
Sourced(k, rec) == \A f \in Field : Given(k, f, rec.fv[f], rec.val[f])

Plain == localFaults = 0 /\ \A r \in Replica : patching[r] = Absent
OneValue ==
  \A c, d : Known(c) /\ Known(d) /\ c.key = d.key =>
    \A f \in Field : c.rec.fv[f] = d.rec.fv[f] => c.rec.val[f] = d.rec.val[f]
StoresSourced ==
  \A r \in Replica, k \in Key : /\ local[r][k] # Absent => Sourced(k, local[r][k])
                                /\ saves[r][k] # Absent => Sourced(k, saves[r][k])
FoundSourced ==
  \A t \in Client, k \in Key : task[t].found[k] # Absent => Sourced(k, task[t].found[k])
OwnStamps ==
  \A c : Known(c) => \A f \in Field, r \in Replica :
    c.rec.fv[f].node = r => ClockLeq(c.rec.fv[f], clk[r])
Counted ==
  /\ \A r \in Replica : \A e \in enqueued[r] : e.n <= edits
  /\ \A c : Known(c) => \A f \in Field : c.rec.val[f] \in Value /\ c.rec.val[f].n <= edits

(* The version cache has the versions of what a flush would leave. *)
CacheExact ==
  \A r \in Replica, k \in Key :
    versions[r][k] = IF Flushed(r)[k] = Absent THEN Absent ELSE Flushed(r)[k].fv
(* Unless a pull is being applied, what is queued is what the application
   saved last. *)
LastOf(r, k, e) ==
  e \in enqueued[r] /\ e.ch.key = k /\ \A d \in enqueued[r] : d.ch.key = k => d.n <= e.n
QueueOwn ==
  \A r \in Replica : (\A t \in Client : Owner[t] = r => ~task[t].applied) =>
    \A k \in Key : /\ saves[r][k] # Absent => \E e \in enqueued[r] : e.ch.key = k
                   /\ \A e : LastOf(r, k, e) => saves[r][k] = e.ch.rec
AppliedOnly == \A t \in Client : task[t].applied => task[t].pc = "applying"

ValueInv ==
  /\ Plain /\ OneValue /\ StoresSourced /\ FoundSourced /\ OwnStamps /\ Counted
  /\ CacheExact /\ QueueOwn /\ AppliedOnly

(* A save between two calls. *)
SavedBy(r, k, rec) ==
  /\ UserSave(r, k) /\ ~Syncing(r) /\ WrittenBy(r, k, rec) /\ Queues(r, k, rec)
  /\ versions' = [versions EXCEPT ![r][k] = rec.fv] /\ task' = task

(* Only saves, flushes and pulled changes are left. *)
ValueStep ==
  \/ versions' = versions /\ Rests
  \/ \E r \in Replica, k \in Key : \E rec : SavedBy(r, k, rec)
  \/ versions' = versions /\ \E r \in Replica : \E removed : Flushes(r, removed)
  \/ \E t \in Client : ApplyPulled(t) /\ Applies(t) /\ Caches(t) /\ task[t].todo # <<>>

LEMMA StepIsPlain ==
  ASSUME FieldInv, ValueMode, Plain, [Next]_vars
  PROVE  ValueStep
<1>0. /\ TypeInv /\ FieldMode /\ FieldLevel /\ MaxCrashes = 0 /\ "remove" \notin Ops
      /\ StoreTypes /\ wall \in [Replica -> Nat] /\ localFaults \in Nat
      /\ MaxLocalFaults = 0
  BY TypeParts DEF FieldInv, ValueMode, FieldMode, TypeInv, TypeOK
<1>1. \A r \in Replica : ~FailsToPersist(r) /\ ~UserPersistFails(r)
  BY <1>0 DEF FailsToPersist, UserPersistFails, LocalPersistFails
<1>2. \A t \in Client : ~ApplyConflict(t)
  BY DEF FieldInv, NoConflict, ApplyConflict
<1>3. ASSUME NEW r \in Replica, Application(r)
      PROVE  ValueStep
  <2>1. ASSUME NEW k \in Key, UserSave(r, k)
        PROVE  ValueStep
    <3>1. PICK rec : Queues(r, k, rec) /\ Writes(r, k, rec)
      BY <1>0, <2>1, UserSaveQueues
    <3>2. ~Syncing(r)
      BY <1>3 DEF Application, ValueMode
    <3>3. task' = task
      BY <2>1 DEF UserSave, Save, SaveAndEnqueue
    <3>4. SavedBy(r, k, rec)
      BY <1>3, <2>1, <3>1, <3>2, <3>3 DEF SavedBy, WrittenBy, Writes
    <3> QED BY <3>4 DEF ValueStep
  <2>2. ASSUME NEW k \in Key
        PROVE  ~UserRemove(r, k) /\ ~PatchRead(r, k)
    BY <1>0 DEF UserRemove, PatchRead, ValueMode
  <2>3. ~PatchWrite(r)
    BY DEF Plain, PatchWrite
  <2>4. ASSUME UserPersist(r)
        PROVE  ValueStep
    <3>1. versions' = versions /\ Flushes(r, {})
      BY <2>4 DEF UserPersist, Flush, Flushes, boundVars
    <3> QED BY <3>1 DEF ValueStep
  <2> QED BY <1>1, <1>3, <2>1, <2>2, <2>3, <2>4 DEF Application
<1>4. (versions' = versions /\ Rests) \/ \E r \in Replica : Acts(r) /\ FieldStep(r)
  BY <1>0, FieldEffect
<1>5. ASSUME NEW r \in Replica, FieldStep(r)
      PROVE  Application(r) \/ ValueStep
  <2> HIDE HubAssumption, SyncAssumption
  <2>1. (\E t \in Client : (ApplyPulled(t) \/ ApplyConflict(t)) /\ Applies(t) /\ Caches(t)
                             /\ task[t].todo # <<>>) => ValueStep
    BY <1>2 DEF ValueStep
  <2> QED BY <1>1, <1>5, <2>1 DEF FieldStep, ValueStep
<1> QED BY <1>3, <1>4, <1>5 DEF ValueStep

(* What is known stays known. *)
LEMMA KnownStays ==
  ASSUME TypeInv, ValueStep
  PROVE  /\ \A c : Known(c) => Known(c)'
         /\ \/ \A c : Known(c)' => Known(c)
            \/ \E r \in Replica, k \in Key : \E rec :
                 SavedBy(r, k, rec) /\ \A c : Known(c)' <=> Known(c) \/ c = NewEntry(k, rec).ch
<1>0. enqueued \in [Replica -> SUBSET Entry]
  BY DEF TypeInv, TypeOK
<1>1. ASSUME NEW r \in Replica, NEW k \in Key, NEW rec, SavedBy(r, k, rec)
      PROVE  \A c : Known(c)' <=> Known(c) \/ c = NewEntry(k, rec).ch
  BY <1>1, WritesKnown DEF SavedBy
<1>2. ASSUME NEW r \in Replica, NEW removed, Flushes(r, removed)
      PROVE  \A c : Known(c)' <=> Known(c)
  <2>1. /\ committed' = committed \cup {e.ch : e \in enqueued[r]}
        /\ \A s \in Replica : s # r => enqueued'[s] = enqueued[s]
        /\ enqueued'[r] = {}
    BY <1>0, <1>2 DEF Flushes, FlushAnd, DropQueue
  <2>2. \A c : Known(c)' => Known(c)
    BY <2>1 DEF Known
  <2>3. \A c : Known(c) => Known(c)'
    BY <2>1 DEF Known
  <2> QED BY <2>2, <2>3
<1>3. ASSUME Rests \/ \E t \in Client : Applies(t)
      PROVE  \A c : Known(c)' <=> Known(c)
  BY <1>3 DEF Rests, Applies, Known
<1> QED BY <1>1, <1>2, <1>3 DEF ValueStep

LEMMA SourcedStays ==
  ASSUME TypeInv, ValueStep, NEW k \in Key, NEW rec, Sourced(k, rec)
  PROVE  Sourced(k, rec)'
BY KnownStays DEF Sourced, Given

(* Types of what is known. *)
LEMMA KnownFields ==
  ASSUME FieldInv, NEW c, Known(c), NEW f \in Field
  PROVE  c \in Change /\ c.rec \in Record /\ c.key \in Key /\ c.rec.fv[f] \in Stamp
<1>1. TypeInv /\ FieldRec(c.rec)
  BY DEF FieldInv, FieldKnown
<1>2. c \in Change /\ c.rec \in Record /\ c.key \in Key
  BY <1>1, KnownType DEF Change
<1>3. c.rec.fv \in FieldStamps /\ Tops(c.rec.fv, c.rec.ver)
  BY <1>1, <1>2 DEF Record, FieldRec
<1> QED BY <1>2, <1>3, TopsType

LEMMA GivenCounted ==
  ASSUME ValueInv, NEW k \in Key, NEW f \in Field, NEW ver, NEW val, Given(k, f, ver, val)
  PROVE  val \in Value /\ val.n <= edits
BY DEF ValueInv, Counted, Given

(* Between two calls the application's instance is what a flush would leave. *)
LEMMA HeldIsFlushed ==
  ASSUME FieldInv, ValueInv, NEW r \in Replica, NEW k \in Key, ~Syncing(r),
         NEW held, Holds(r, k, held)
  PROVE  held = Flushed(r)[k]
<1>1. \A t \in Client : Owner[t] = r => ~task[t].applied
  BY DEF ValueInv, AppliedOnly, Syncing
<1>2. /\ saves[r][k] # Absent => \E e \in enqueued[r] : e.ch.key = k
      /\ \A e : LastOf(r, k, e) => saves[r][k] = e.ch.rec
  BY <1>1 DEF ValueInv, QueueOwn
<1>3. Flushed(r)[k] = IF saves[r][k] = Absent THEN local[r][k] ELSE saves[r][k]
  BY DEF Flushed
<1>4. CASE {e \in enqueued[r] : e.ch.key = k} = {}
  <2>1. held = local[r][k]
    BY <1>4 DEF Holds
  <2>2. saves[r][k] = Absent
    BY <1>2, <1>4
  <2> QED BY <1>3, <2>1, <2>2
<1>5. CASE {e \in enqueued[r] : e.ch.key = k} # {}
  <2>1. PICK e \in enqueued[r] : /\ e.ch.key = k /\ held = e.ch.rec
                                 /\ \A d \in enqueued[r] : d.ch.key = k => d.n <= e.n
    BY <1>5 DEF Holds
  <2>2. saves[r][k] = held
    BY <1>2, <2>1 DEF LastOf
  <2>3. held \in Record
    <3>1. enqueued[r] \subseteq Entry
      BY DEF FieldInv, TypeInv, TypeOK
    <3> QED BY <2>1, <3>1 DEF Entry, Change
  <2> QED BY <1>3, <2>2, <2>3
<1> QED BY <1>4, <1>5

(* Of each field a save has a new version, or the version and the value of a
   write before it. *)
LEMMA SavedPairs ==
  ASSUME FieldInv, ValueMode, ValueInv, NEW r \in Replica, NEW k \in Key, NEW rec,
         SavedBy(r, k, rec), NEW f \in Field
  PROVE  /\ rec.val[f] \in Value /\ rec.val[f].n <= edits + 1
         /\ rec.fv[f] = Now(r) \/ Given(k, f, rec.fv[f], rec.val[f])
<1>0. /\ TypeInv /\ FieldLevel /\ Field # {} /\ CachedAt(r, k) /\ StoreTypes
      /\ wall \in [Replica -> Nat] /\ UserSave(r, k) /\ ~Syncing(r) /\ edits \in Nat
      /\ saves \in [Replica -> [Key -> Record \cup {Absent}]]
      /\ local \in [Replica -> [Key -> Record \cup {Absent}]]
  BY TypeParts DEF FieldInv, FieldHeld, ValueMode, FieldMode, TypeInv, TypeOK, SavedBy, WrittenBy, Writes
<1>1. PICK held \in Holdable(r, k), edited \in (SUBSET Field) \ {{}} :
        /\ Holds(r, k, held)
        /\ ~Live(held) => edited = Field
        /\ Live(held) /\ ~Live(local[r][k]) => "editNew" \in Ops
        /\ ValuesOf(r, held, edited) \in [Field -> Value \cup {Absent}]
        /\ Queues(r, k, RecordOf(r, k, held, edited))
  BY <1>0, UserSaveQueues
<1> DEFINE val == ValuesOf(r, held, edited)
           dirty == DirtyOf(r, k, val)
           prior == versions[r][k]
<1>2. rec = RecordOf(r, k, held, edited)
  <2>1. /\ saves' = [saves EXCEPT ![r][k] = rec]
        /\ saves' = [saves EXCEPT ![r][k] = RecordOf(r, k, held, edited)]
    BY <1>1 DEF SavedBy, Queues
  <2>2. saves'[r][k] = rec
    BY <1>0, <2>1
  <2>3. saves'[r][k] = RecordOf(r, k, held, edited)
    BY <1>0, <2>1
  <2> QED BY <2>2, <2>3
<1>3. held = Flushed(r)[k]
  BY <1>0, <1>1, HeldIsFlushed
<1>4. rec = Stamped(r, k, val, dirty, Now(r))
  BY <1>2 DEF RecordOf
<1> HIDE DEF val, dirty
<1>5. /\ rec.val = val
      /\ rec.fv[f] = IF prior = Absent \/ f \in dirty THEN Now(r) ELSE prior[f]
  <2>1. versions[r][k] # Absent =>
          \E ver \in Stamp : Tops(versions[r][k], ver) /\ ClockLeq(ver, clk[r])
    BY <1>0 DEF CachedAt
  <2> QED BY <1>0, <1>4, <2>1, StampedRec
<1>6. val[f] = IF f \in edited THEN Written(r) ELSE held.val[f]
  BY DEF val, ValuesOf
<1>7. Written(r) \in Value /\ Written(r).n = edits + 1
  BY <1>0, NowFollows DEF Written, Value
<1>8. prior = IF held = Absent THEN Absent ELSE held.fv
  BY <1>3 DEF ValueInv, CacheExact
<1> HIDE DEF prior
<1>9. CASE held = Absent
  <2>1. edited = Field
    BY <1>1, <1>9 DEF Live
  <2>2. rec.val[f] = Written(r) /\ rec.fv[f] = Now(r)
    BY <1>5, <1>6, <1>8, <1>9, <2>1
  <2> QED BY <1>0, <1>7, <2>2
<1>10. CASE held # Absent
  <2>1. held \in {local[r][k], saves[r][k]}
    BY <1>3 DEF Flushed
  <2>2. FieldRec(held) /\ Sourced(k, held)
    BY <1>10, <2>1 DEF FieldInv, FieldHeld, HeldAt, ValueInv, StoresSourced
  <2>3. Given(k, f, held.fv[f], held.val[f])
    BY <2>2 DEF Sourced
  <2>4. held.val[f] \in Value /\ held.val[f].n <= edits
    BY <2>3, GivenCounted
  <2>5. Live(held) /\ Live(local[r][k])
    BY <1>1, <1>10, <2>2 DEF Live, FieldRec, ValueMode
  <2>6. local[r][k].val[f] \in Value /\ local[r][k].val[f].n <= edits
    <3>1. Sourced(k, local[r][k])
      BY <2>5 DEF Live, ValueInv, StoresSourced
    <3> QED BY <3>1, GivenCounted DEF Sourced
  <2>7. f \in dirty <=> val[f] # local[r][k].val[f]
    BY <2>5 DEF dirty, DirtyOf
  <2>8. rec.val[f] \in Value /\ rec.val[f].n <= edits + 1
    <3>1. CASE f \in edited
      BY <1>0, <1>5, <1>6, <1>7, <3>1
    <3>2. CASE f \notin edited
      <4>1. rec.val[f] = held.val[f] /\ held.val[f].n \in Nat
        BY <1>5, <1>6, <2>4, <3>2 DEF Value
      <4> QED BY <1>0, <2>4, <4>1
    <3> QED BY <3>1, <3>2
  <2>9. ASSUME f \notin dirty
        PROVE  Given(k, f, rec.fv[f], rec.val[f])
    <3>1. val[f] = local[r][k].val[f]
      BY <2>7, <2>9
    <3>2. f \notin edited
      <4>1. local[r][k].val[f].n # edits + 1
        <5>1. local[r][k].val[f].n \in Nat
          BY <2>6 DEF Value
        <5> QED BY <1>0, <2>6, <5>1
      <4> QED BY <1>6, <1>7, <3>1, <4>1
    <3>3. rec.val[f] = held.val[f] /\ prior = held.fv /\ prior # Absent
      BY <1>5, <1>6, <1>8, <1>10, <2>2, <3>2 DEF FieldRec
    <3>4. rec.fv[f] = held.fv[f]
      BY <1>5, <2>9, <3>3
    <3> QED BY <2>3, <3>3, <3>4
  <2> QED BY <1>5, <2>8, <2>9
<1> QED BY <1>9, <1>10

LEMMA PlainKept ==
  ASSUME FieldInv, ValueMode, Plain, [Next]_vars
  PROVE  Plain'
<1>0. /\ TypeInv /\ TypeInv' /\ MaxLocalFaults = 0 /\ MaxCrashes = 0
      /\ "patch" \notin Ops /\ "remove" \notin Ops
      /\ localFaults = 0 /\ \A r \in Replica : patching[r] = Absent
  BY StepType DEF FieldInv, ValueMode, FieldMode, Plain
<1>1. localFaults' = 0
  BY <1>0, FaultsCount
<1>2. ASSUME NEW r \in Replica, Application(r)
      PROVE  patching' = patching
  <2>1. \A k \in Key : ~PatchRead(r, k) /\ ~UserRemove(r, k)
    BY <1>0 DEF PatchRead, UserRemove
  <2>2. ~PatchWrite(r)
    BY <1>0 DEF PatchWrite
  <2>3. ASSUME NEW k \in Key, UserSave(r, k)
        PROVE  patching' = patching
    BY <2>3 DEF UserSave, Save, SaveAndEnqueue
  <2>4. UserPersist(r) \/ UserPersistFails(r) => patching' = patching
    BY DEF UserPersist, UserPersistFails
  <2> QED BY <1>2, <2>1, <2>2, <2>3, <2>4 DEF Application
<1>3. ASSUME NEW t \in Client, Reconcile(t) \/ ReconcileFails(t)
      PROVE  patching' = patching
  BY <1>0, <1>3, TaskEffect
<1>4. \A r \in Replica : (Tick(r) => patching' = patching) /\ ~Crash(r)
  <2>1. crashes \in Nat
    BY <1>0 DEF TypeInv, TypeOK
  <2> QED BY <1>0, <2>1 DEF Tick, Crash
<1>5. Hub => patching' = patching
  BY HubEffect
<1>6. UNCHANGED vars => patching' = patching
  BY DEF vars, replicaVars
<1>7. patching' = patching
  BY <1>2, <1>3, <1>4, <1>5, <1>6 DEF Next
<1> QED BY <1>0, <1>1, <1>7 DEF Plain

(* What a save makes known: for each field a version no known write has, or
   one that a known write gave the same value. *)
LEMMA OneValueKept ==
  ASSUME FieldInv, ValueMode, ValueInv, [Next]_vars
  PROVE  OneValue'
<1>0. TypeInv /\ OneValue /\ OwnStamps /\ ValueStep
  BY StepIsPlain DEF FieldInv, ValueInv
<1>1. CASE \A c : Known(c)' => Known(c)
  BY <1>0, <1>1 DEF OneValue
<1>2. ASSUME NEW r \in Replica, NEW k \in Key, NEW rec, SavedBy(r, k, rec),
             \A c : Known(c)' <=> Known(c) \/ c = NewEntry(k, rec).ch
      PROVE  OneValue'
  <2> DEFINE new == NewEntry(k, rec).ch
  <2>1. new.key = k /\ new.rec = rec
    BY DEF NewEntry
  <2>2. ASSUME NEW d, Known(d), d.key = k, NEW f \in Field, d.rec.fv[f] = rec.fv[f]
        PROVE  d.rec.val[f] = rec.val[f]
    <3>1. d.rec.fv[f] \in Stamp
      BY <2>2, KnownFields
    <3>2. rec.fv[f] # Now(r)
      <4>1. Now(r) \in Stamp /\ Now(r).node = r
            /\ \A s \in Stamp : ClockLeq(s, clk[r]) => Before(s, Now(r))
        BY <1>0, NowFollows
      <4>2. d.rec.fv[f].node = r => ClockLeq(d.rec.fv[f], clk[r])
        BY <1>0, <2>2 DEF OwnStamps
      <4>3. d.rec.fv[f] = Now(r) => Before(Now(r), Now(r))
        BY <4>1, <4>2
      <4>4. ~Before(Now(r), Now(r))
        BY <4>1, BeforeIsOrder
      <4> QED BY <2>2, <4>3, <4>4
    <3>3. Given(k, f, rec.fv[f], rec.val[f])
      BY <1>2, <3>2, SavedPairs
    <3>4. PICK c : Known(c) /\ c.key = k /\ c.rec.fv[f] = rec.fv[f] /\ c.rec.val[f] = rec.val[f]
      BY <3>3 DEF Given
    <3>5. d.rec.val[f] = c.rec.val[f]
      BY <1>0, <2>2, <3>4 DEF OneValue
    <3> QED BY <3>4, <3>5
  <2> HIDE DEF new
  <2>3. ASSUME NEW c, NEW d, Known(c)', Known(d)', c.key = d.key, NEW f \in Field,
               c.rec.fv[f] = d.rec.fv[f]
        PROVE  c.rec.val[f] = d.rec.val[f]
    <3>1. (Known(c) \/ c = new) /\ (Known(d) \/ d = new)
      BY <1>2, <2>3 DEF new
    <3>2. CASE Known(c) /\ Known(d)
      BY <1>0, <2>3, <3>2 DEF OneValue
    <3>3. CASE Known(c) /\ d = new
      BY <2>1, <2>2, <2>3, <3>3
    <3>4. CASE c = new /\ Known(d)
      BY <2>1, <2>2, <2>3, <3>4
    <3>5. CASE c = new /\ d = new
      BY <3>5
    <3> QED BY <3>1, <3>2, <3>3, <3>4, <3>5
  <2> QED BY <2>3 DEF OneValue
<1> QED BY <1>0, <1>1, <1>2, KnownStays

(* Whatever a step puts in a store comes from known writes. *)
LEMMA FreshSourced ==
  ASSUME FieldInv, ValueMode, ValueInv, [Next]_vars,
         NEW r \in Replica, NEW k \in Key, NEW rec, FreshAt(r, k, rec)
  PROVE  Sourced(k, rec)'
<1>0. TypeInv /\ ValueStep /\ FieldMode
  BY StepIsPlain DEF FieldInv, ValueInv, ValueMode
<1>1. CASE WrittenBy(r, k, rec)
  <2>1. \A c : Known(c)' <=> Known(c) \/ c = NewEntry(k, rec).ch
    BY <1>0, <1>1, WritesKnown DEF WrittenBy
  <2>2. \A c : c = NewEntry(k, rec).ch => Known(c)' /\ c.key = k /\ c.rec = rec
    BY <2>1 DEF NewEntry
  <2>3. PICK c : Known(c)' /\ c.key = k /\ c.rec = rec
    BY <2>2
  <2> QED BY <2>3 DEF Sourced, Given
<1>2. ASSUME NEW t \in Client, AppliedBy(t, k, rec)
      PROVE  Sourced(k, rec)'
  <2> DEFINE inc == Head(task[t].todo)
             old == task[t].found[k]
  <2>1. /\ inc \in committed /\ inc.key = k
        /\ \A f \in Field :
             \/ rec.fv[f] = inc.rec.fv[f] /\ rec.val[f] = inc.rec.val[f]
             \/ old # Absent /\ rec.fv[f] = old.fv[f] /\ rec.val[f] = old.val[f]
    <3>1. rec # Absent /\ inc.key = k
      BY <1>2 DEF FreshAt, AppliedBy
    <3> QED BY <1>0, <1>2, <3>1, AppliedRec
  <2>2. old # Absent => Sourced(k, old)
    BY DEF ValueInv, FoundSourced
  <2> HIDE DEF inc, old
  <2>3. Known(inc)
    BY <2>1 DEF Known
  <2>4. \A f \in Field : Given(k, f, rec.fv[f], rec.val[f])
    BY <2>1, <2>2, <2>3 DEF Sourced, Given
  <2>5. Sourced(k, rec)
    BY <2>4 DEF Sourced
  <2> QED BY <1>0, <2>5, SourcedStays
<1> QED BY <1>1, <1>2 DEF FreshAt

LEMMA StoresSourcedKept ==
  ASSUME FieldInv, ValueMode, ValueInv, [Next]_vars
  PROVE  StoresSourced'
<1>0. TypeInv /\ ValueStep /\ FieldMode
  BY StepIsPlain DEF FieldInv, ValueInv, ValueMode
<1>1. ASSUME NEW r \in Replica, NEW k \in Key, NEW rec, rec # Absent,
             rec \in {local'[r][k], saves'[r][k]}
      PROVE  Sourced(k, rec)'
  <2>1. ASSUME rec \in {local[r][k], saves[r][k]}
        PROVE  Sourced(k, rec)'
    <3>1. Sourced(k, rec)
      BY <1>1, <2>1 DEF ValueInv, StoresSourced
    <3> QED BY <1>0, <3>1, SourcedStays
  <2>2. FreshAt(r, k, rec) => Sourced(k, rec)'
    BY FreshSourced
  <2>3. Flushed(r)[k] \in {local[r][k], saves[r][k]}
    BY DEF Flushed
  <2>4. rec \in {local[r][k], saves[r][k]} \/ FreshAt(r, k, rec)
    <3>1. CASE UNCHANGED <<local[r][k], saves[r][k], versions[r][k]>>
      BY <1>1, <3>1
    <3>2. CASE saves'[r][k] = Absent /\ local'[r][k] \in {local[r][k], Flushed(r)[k]}
      BY <1>1, <2>3, <3>2
    <3>3. ASSUME NEW made, FreshAt(r, k, made),
                 \/ saves'[r][k] = made /\ local'[r][k] = local[r][k]
                 \/ saves'[r][k] = Absent /\ local'[r][k] = made
          PROVE  rec \in {local[r][k], saves[r][k]} \/ FreshAt(r, k, rec)
      <4>1. rec = made \/ rec = local[r][k]
        BY <1>1, <3>3
      <4> QED BY <3>3, <4>1
    <3> QED BY <1>0, <3>1, <3>2, <3>3, RecordMoves
  <2> QED BY <2>1, <2>2, <2>4
<1> QED BY <1>1 DEF StoresSourced, Sourced, Given

LEMMA FoundSourcedKept ==
  ASSUME FieldInv, ValueMode, ValueInv, [Next]_vars
  PROVE  FoundSourced'
<1>0. TypeInv /\ PushInv /\ MaxCrashes = 0 /\ ValueStep
  BY StepIsPlain DEF FieldInv, ValueInv, ValueMode, FieldMode
<1>1. ASSUME NEW t \in Client, NEW k \in Key, NEW rec, rec # Absent, rec = task'[t].found[k]
      PROVE  Sourced(k, rec)'
  <2>1. rec = task[t].found[k] \/ rec = local[Owner[t]][k]
    BY <1>0, <1>1, FoundSteps
  <2>2. Owner[t] \in Replica
    BY <1>0, TaskType
  <2>3. Sourced(k, rec)
    BY <1>1, <2>1, <2>2 DEF ValueInv, StoresSourced, FoundSourced
  <2> QED BY <1>0, <2>3, SourcedStays
<1> QED BY <1>1 DEF FoundSourced, Sourced, Given

LEMMA OwnStampsKept ==
  ASSUME FieldInv, ValueMode, ValueInv, [Next]_vars
  PROVE  OwnStamps'
<1>0. /\ TypeInv /\ MaxCrashes = 0 /\ OwnStamps /\ ValueStep
      /\ \A r \in Replica, s \in Stamp : ClockLeq(s, clk[r]) => ClockLeq(s, clk'[r])
  BY StepIsPlain, ClocksAdvance DEF FieldInv, ValueInv, ValueMode, FieldMode
<1>1. ASSUME NEW c, Known(c), NEW f \in Field, NEW r \in Replica, c.rec.fv[f].node = r
      PROVE  ClockLeq(c.rec.fv[f], clk'[r])
  <2>1. c.rec.fv[f] \in Stamp
    BY <1>1, KnownFields
  <2>2. ClockLeq(c.rec.fv[f], clk[r])
    BY <1>0, <1>1 DEF OwnStamps
  <2> QED BY <1>0, <2>1, <2>2
<1>2. CASE \A c : Known(c)' => Known(c)
  BY <1>1, <1>2 DEF OwnStamps
<1>3. ASSUME NEW r \in Replica, NEW k \in Key, NEW rec, SavedBy(r, k, rec),
             \A c : Known(c)' <=> Known(c) \/ c = NewEntry(k, rec).ch
      PROVE  OwnStamps'
  <2>1. NewEntry(k, rec).ch.rec = rec
    BY DEF NewEntry
  <2>2. ASSUME NEW f \in Field, NEW s \in Replica, rec.fv[f].node = s
        PROVE  ClockLeq(rec.fv[f], clk'[s])
    <3>1. CASE rec.fv[f] = Now(r)
      <4>1. Now(r).node = r /\ ClockLeq(Now(r), HlcNow(clk[r], wall[r]))
        BY <1>0, NowFollows
      <4>2. clk'[r] = HlcNow(clk[r], wall[r])
        <5>1. Stamps(r, rec)
          BY <1>3 DEF SavedBy, Queues
        <5> QED BY <1>0, <5>1, StampedClock
      <4> QED BY <2>2, <3>1, <4>1, <4>2
    <3>2. CASE Given(k, f, rec.fv[f], rec.val[f])
      BY <1>1, <2>2, <3>2 DEF Given
    <3> QED BY <1>3, <3>1, <3>2, SavedPairs
  <2> QED BY <1>1, <1>3, <2>1, <2>2 DEF OwnStamps
<1> QED BY <1>0, <1>2, <1>3, KnownStays

LEMMA CountedKept ==
  ASSUME FieldInv, ValueMode, ValueInv, [Next]_vars
  PROVE  Counted'
<1>0. /\ TypeInv /\ Counted /\ ValueStep /\ edits \in Nat
      /\ enqueued \in [Replica -> SUBSET Entry]
  BY StepIsPlain DEF FieldInv, ValueInv, TypeInv, TypeOK
<1>1. ASSUME NEW r \in Replica, NEW k \in Key, NEW rec, SavedBy(r, k, rec)
      PROVE  Counted'
  <2>1. /\ edits' = edits + 1 /\ enqueued' = [enqueued EXCEPT ![r] = @ \cup {NewEntry(k, rec)}]
        /\ Queues(r, k, rec)
    BY <1>1 DEF SavedBy, Queues, Stamps
  <2>2. NewEntry(k, rec).n = edits + 1 /\ NewEntry(k, rec).ch.rec = rec
    BY DEF NewEntry
  <2>3. ASSUME NEW s \in Replica, NEW e \in enqueued'[s]
        PROVE  e.n <= edits'
    <3>1. e \in enqueued[s] \/ e = NewEntry(k, rec)
      BY <1>0, <2>1, <2>3
    <3>2. CASE e \in enqueued[s]
      <4>1. e \in Entry /\ e.n <= edits
        BY <1>0, <3>2 DEF Counted
      <4>2. e.n \in Nat
        BY <4>1 DEF Entry
      <4> QED BY <1>0, <2>1, <4>1, <4>2
    <3>3. CASE e = NewEntry(k, rec)
      BY <1>0, <2>1, <2>2, <3>3
    <3> QED BY <3>1, <3>2, <3>3
  <2>4. ASSUME NEW c, Known(c)', NEW f \in Field
        PROVE  c.rec.val[f] \in Value /\ c.rec.val[f].n <= edits'
    <3>1. Known(c) \/ c = NewEntry(k, rec).ch
      BY <1>0, <2>1, <2>4, WritesKnown
    <3>2. CASE Known(c)
      <4>1. c.rec.val[f] \in Value /\ c.rec.val[f].n <= edits
        BY <1>0, <3>2 DEF Counted
      <4>2. c.rec.val[f].n \in Nat
        BY <4>1 DEF Value
      <4> QED BY <1>0, <2>1, <4>1, <4>2
    <3>3. CASE c = NewEntry(k, rec).ch
      BY <1>1, <2>1, <2>2, <3>3, SavedPairs
    <3> QED BY <3>1, <3>2, <3>3
  <2> QED BY <2>3, <2>4 DEF Counted
<1>2. ASSUME ~\E r \in Replica, k \in Key : \E rec : SavedBy(r, k, rec)
      PROVE  Counted'
  <2>1. edits' = edits
    BY <1>0, <1>2 DEF ValueStep, Rests, Flushes, Applies
  <2>2. \A c : Known(c)' => Known(c)
    BY <1>0, <1>2, KnownStays
  <2>3. \A r \in Replica : enqueued'[r] \subseteq enqueued[r]
    BY <1>0, <1>2 DEF ValueStep, Rests, Flushes, FlushAnd, DropQueue, Applies
  <2> QED BY <1>0, <2>1, <2>2, <2>3 DEF Counted
<1> QED BY <1>1, <1>2

LEMMA CacheExactKept ==
  ASSUME FieldInv, ValueMode, ValueInv, [Next]_vars
  PROVE  CacheExact'
<1>0. /\ TypeInv /\ ValueStep /\ FieldMode /\ FieldLevel
      /\ local \in [Replica -> [Key -> Record \cup {Absent}]]
      /\ saves \in [Replica -> [Key -> Record \cup {Absent}]]
      /\ versions \in [Replica -> [Key -> FieldStamps \cup {Absent}]]
  BY StepIsPlain DEF FieldInv, ValueInv, ValueMode, FieldMode, TypeInv, TypeOK
<1> SUFFICES ASSUME NEW r \in Replica, NEW k \in Key
             PROVE  versions'[r][k] = IF (Flushed(r)[k])' = Absent THEN Absent
                                      ELSE (Flushed(r)[k])'.fv
  BY DEF CacheExact
<1>1. /\ Flushed(r)[k] = IF saves[r][k] = Absent THEN local[r][k] ELSE saves[r][k]
      /\ (Flushed(r)[k])' = IF saves'[r][k] = Absent THEN local'[r][k] ELSE saves'[r][k]
  BY DEF Flushed
<1>2. versions[r][k] = IF Flushed(r)[k] = Absent THEN Absent ELSE Flushed(r)[k].fv
  BY DEF ValueInv, CacheExact
<1> DEFINE Goal == versions'[r][k] = IF (Flushed(r)[k])' = Absent THEN Absent
                                     ELSE (Flushed(r)[k])'.fv
<1>3. ASSUME UNCHANGED <<versions[r][k], saves[r][k], local[r][k]>>
      PROVE  Goal
  BY <1>1, <1>2, <1>3
<1>4. ASSUME NEW rec, rec # Absent, versions'[r][k] = rec.fv, saves'[r][k] = rec
      PROVE  Goal
  BY <1>1, <1>4
<1>5. ASSUME versions'[r][k] = versions[r][k], saves'[r][k] = Absent,
             local'[r][k] = Flushed(r)[k]
      PROVE  Goal
  BY <1>1, <1>2, <1>5
<1> HIDE DEF Goal
<1>6. ASSUME NEW s \in Replica, NEW j \in Key, NEW rec, SavedBy(s, j, rec)
      PROVE  Goal
  <2>1. /\ rec # Absent /\ versions' = [versions EXCEPT ![s][j] = rec.fv]
        /\ saves' = [saves EXCEPT ![s][j] = rec] /\ local' = local
    BY <1>6 DEF SavedBy, Queues, Stamps
  <2>2. /\ versions'[r][k] = IF s = r /\ j = k THEN rec.fv ELSE versions[r][k]
        /\ saves'[r][k] = IF s = r /\ j = k THEN rec ELSE saves[r][k]
    BY <1>0, <2>1
  <2> QED BY <1>3, <1>4, <2>1, <2>2
<1>7. ASSUME NEW s \in Replica, NEW removed, Flushes(s, removed), versions' = versions
      PROVE  Goal
  <2>1. local' = [local EXCEPT ![s] = Flushed(s)] /\ saves' = [saves EXCEPT ![s] = NoRecords]
    BY <1>7 DEF Flushes, FlushAnd, DropQueue
  <2>2. CASE s = r
    <3>1. local'[r] = Flushed(r) /\ saves'[r][k] = Absent
      BY <1>0, <2>1, <2>2 DEF NoRecords
    <3> QED BY <1>5, <1>7, <3>1
  <2>3. CASE s # r
    <3>1. local'[r] = local[r] /\ saves'[r] = saves[r]
      BY <1>0, <2>1, <2>3
    <3> QED BY <1>3, <1>7, <3>1
  <2> QED BY <2>2, <2>3
<1>8. ASSUME NEW t \in Client, ApplyPulled(t), Applies(t), Caches(t), task[t].todo # <<>>
      PROVE  Goal
  <2> DEFINE j == Head(task[t].todo).key
             new == Applied(Head(task[t].todo).rec, task[t].found[j])
  <2>1. Owner[t] \in Replica /\ j \in Key
    BY <1>0, <1>8, TaskType
  <2>2. /\ local' = local
        /\ saves' = IF new = Absent THEN saves ELSE [saves EXCEPT ![Owner[t]][j] = new]
        /\ versions' = IF new # Absent /\ new.fv # Absent
                       THEN [versions EXCEPT ![Owner[t]][j] = new.fv] ELSE versions
    BY <1>0, <1>8 DEF Applies, Caches
  <2>3. new # Absent => FreshAt(Owner[t], j, new)
    BY <1>8 DEF FreshAt, AppliedBy
  <2> HIDE DEF new, j
  <2>4. new # Absent => new.fv # Absent
    BY <1>0, <2>1, <2>3, FreshRec DEF HeldAt, FieldRec
  <2>5. saves'[r][k] = IF new # Absent /\ Owner[t] = r /\ j = k THEN new ELSE saves[r][k]
    BY <1>0, <2>1, <2>2
  <2>6. versions'[r][k] = IF new # Absent /\ Owner[t] = r /\ j = k THEN new.fv ELSE versions[r][k]
    BY <1>0, <2>1, <2>2, <2>4
  <2> QED BY <1>3, <1>4, <2>2, <2>5, <2>6
<1>9. versions' = versions /\ Rests => Goal
  BY <1>3 DEF Rests
<1>10. Goal
  BY <1>0, <1>6, <1>7, <1>8, <1>9 DEF ValueStep
<1> QED BY <1>10 DEF Goal

LEMMA AppliedOnlyKept ==
  ASSUME FieldInv, ValueMode, ValueInv, [Next]_vars
  PROVE  AppliedOnly'
<1>0. TypeInv /\ PushInv /\ NoConflict /\ NoConflict' /\ AppliedOnly /\ MaxCrashes = 0
  BY NoConflictKept DEF FieldInv, ValueInv, ValueMode, FieldMode
<1> SUFFICES ASSUME NEW t \in Client, task'[t].applied
             PROVE  task'[t].pc = "applying"
  BY DEF AppliedOnly
<1>1. CASE task'[t] = task[t]
  BY <1>0, <1>1 DEF AppliedOnly
<1>2. ~ReconcileFails(t) /\ ~CutOff(t)
  BY <1>0, FailedSteps, IdleFields DEF CutOff
<1>3. ~Answered(t)
  BY <1>0 DEF Answered, AppliedOnly
<1>4. CASE StartPull(t) \/ ServePull(t) \/ LoadLocalRecords(t) \/ ApplyPulled(t) \/ PullDone(t)
  BY <1>0, <1>4, PullSteps DEF AppliedOnly
<1>5. ~LocalRecord(t) /\ ~ApplyConflict(t)
  BY <1>0, PushSteps DEF NoConflict
<1>6. ~PushOutbox(t) /\ ~PushDone(t)
  BY <1>0, PushSteps, IdleFields DEF AppliedOnly
<1> QED BY <1>0, <1>1, <1>2, <1>3, <1>4, <1>5, <1>6, CallSteps DEF Reconcile

LEMMA QueueOwnKept ==
  ASSUME FieldInv, ValueMode, ValueInv, [Next]_vars
  PROVE  QueueOwn'
<1>0. /\ TypeInv /\ PushInv /\ ValueStep /\ MaxCrashes = 0 /\ edits \in Nat
      /\ AppliedWhen /\ localFaults' = 0
      /\ saves \in [Replica -> [Key -> Record \cup {Absent}]]
      /\ enqueued \in [Replica -> SUBSET Entry]
  BY StepIsPlain, PlainKept
  DEF FieldInv, ValueInv, ValueMode, FieldMode, TypeInv, TypeOK, AppliedOnly, AppliedWhen, Plain
<1> SUFFICES ASSUME NEW r \in Replica, \A t \in Client : Owner[t] = r => ~task'[t].applied,
                    NEW k \in Key
             PROVE  /\ saves'[r][k] # Absent => \E e \in enqueued'[r] : e.ch.key = k
                    /\ \A e : LastOf(r, k, e)' => saves'[r][k] = e.ch.rec
  BY DEF QueueOwn
<1> DEFINE Goal == /\ saves'[r][k] # Absent => \E e \in enqueued'[r] : e.ch.key = k
                   /\ \A e : LastOf(r, k, e)' => saves'[r][k] = e.ch.rec
<1>1. ASSUME saves'[r] = NoRecords, enqueued'[r] = {}
      PROVE  Goal
  BY <1>1 DEF NoRecords, LastOf
<1>2. CASE \E t \in Client : Owner[t] = r /\ task[t].applied
  <2>1. saves'[r] = NoRecords /\ enqueued'[r] = {}
    BY <1>0, <1>2, AppliedEnds
  <2> QED BY <1>1, <2>1
<1>3. CASE \A t \in Client : Owner[t] = r => ~task[t].applied
  <2>1. /\ saves[r][k] # Absent => \E e \in enqueued[r] : e.ch.key = k
        /\ \A e : LastOf(r, k, e) => saves[r][k] = e.ch.rec
    BY <1>3 DEF ValueInv, QueueOwn
  <2>2. ASSUME saves'[r] = saves[r], enqueued'[r] = enqueued[r]
        PROVE  Goal
    BY <2>1, <2>2 DEF LastOf
  <2>3. ASSUME NEW s \in Replica, NEW j \in Key, NEW rec, SavedBy(s, j, rec)
        PROVE  Goal
    <3> DEFINE new == NewEntry(j, rec)
    <3>1. saves' = [saves EXCEPT ![s][j] = rec] /\ enqueued' = [enqueued EXCEPT ![s] = @ \cup {new}]
      BY <2>3 DEF SavedBy, Queues
    <3>2. new.n = edits + 1 /\ new.ch.key = j /\ new.ch.rec = rec
      BY DEF NewEntry
    <3> HIDE DEF new
    <3>3. CASE s # r
      <4>1. saves'[r] = saves[r] /\ enqueued'[r] = enqueued[r]
        BY <1>0, <3>1, <3>3
      <4> QED BY <2>2, <4>1
    <3>4. CASE s = r
      <4>1. /\ saves'[r][k] = IF j = k THEN rec ELSE saves[r][k]
            /\ enqueued'[r] = enqueued[r] \cup {new}
        BY <1>0, <3>1, <3>4
      <4>2. saves'[r][k] # Absent => \E e \in enqueued'[r] : e.ch.key = k
        BY <2>1, <3>2, <4>1
      <4>3. ASSUME NEW e, LastOf(r, k, e)'
            PROVE  saves'[r][k] = e.ch.rec
        <5>1. /\ e \in enqueued[r] \cup {new} /\ e.ch.key = k
              /\ \A d \in enqueued[r] \cup {new} : d.ch.key = k => d.n <= e.n
          BY <4>1, <4>3 DEF LastOf
        <5>2. CASE j = k
          <6>1. new.n <= e.n
            BY <3>2, <5>1, <5>2
          <6>2. e \notin enqueued[r]
            <7>1. \A d \in enqueued[r] : d.n \in Nat /\ d.n <= edits
              BY <1>0 DEF ValueInv, Counted, Entry
            <7> QED BY <1>0, <3>2, <6>1, <7>1
          <6>3. e = new
            BY <5>1, <6>2
          <6> QED BY <3>2, <4>1, <5>2, <6>3
        <5>3. CASE j # k
          <6>1. e \in enqueued[r]
            BY <3>2, <5>1, <5>3
          <6>2. LastOf(r, k, e)
            BY <5>1, <6>1 DEF LastOf
          <6> QED BY <2>1, <4>1, <5>3, <6>2
        <5> QED BY <5>2, <5>3
      <4> QED BY <4>2, <4>3
    <3> QED BY <3>3, <3>4
  <2>4. ASSUME NEW s \in Replica, NEW removed, Flushes(s, removed)
        PROVE  Goal
    <3>1. saves' = [saves EXCEPT ![s] = NoRecords] /\ enqueued' = [enqueued EXCEPT ![s] = {}]
      BY <2>4 DEF Flushes, FlushAnd, DropQueue
    <3>2. \/ saves'[r] = NoRecords /\ enqueued'[r] = {}
          \/ saves'[r] = saves[r] /\ enqueued'[r] = enqueued[r]
      BY <1>0, <3>1
    <3> HIDE DEF Goal
    <3> QED BY <1>1, <2>2, <3>2
  <2>5. ASSUME NEW t \in Client, ApplyPulled(t), Applies(t)
        PROVE  Goal
    <3> DEFINE j == Head(task[t].todo).key
               new == Applied(Head(task[t].todo).rec, task[t].found[j])
    <3>1. /\ enqueued' = enqueued
          /\ saves' = IF new = Absent THEN saves ELSE [saves EXCEPT ![Owner[t]][j] = new]
      BY <2>5 DEF Applies
    <3>2. new # Absent => task'[t].applied
      BY <1>0, <2>5, PullSteps
    <3> HIDE DEF new, j
    <3>3. new = Absent \/ Owner[t] # r
      BY <3>2
    <3>4. saves'[r] = saves[r]
      BY <1>0, <3>1, <3>3
    <3> HIDE DEF Goal
    <3> QED BY <2>2, <3>1, <3>4
  <2>6. Rests => Goal
    BY <2>2 DEF Rests
  <2> HIDE DEF Goal
  <2>7. Goal
    BY <1>0, <2>3, <2>4, <2>5, <2>6 DEF ValueStep
  <2> QED BY <2>7 DEF Goal
<1> QED BY <1>2, <1>3

LEMMA ValueInvKept ==
  ASSUME FieldInv, ValueMode, ValueInv, [Next]_vars
  PROVE  ValueInv'
BY PlainKept, OneValueKept, StoresSourcedKept, FoundSourcedKept, OwnStampsKept, CountedKept,
   CacheExactKept, QueueOwnKept, AppliedOnlyKept DEF ValueInv

(* "a stale value never re-clobbers a concurrent edit to another field"
   (SyncBackend.ts:119): whoever has the version of a field has the one value
   that was ever written with it, so that a merge by versions may skip it. *)
THEOREM VersionsTellValues ==
  ASSUME FieldLevel, MaxCrashes = 0, MaxLocalFaults = 0, "remove" \notin Ops,
         "patch" \notin Ops, "editNew" \notin Ops, "whileSyncing" \notin Ops
  PROVE  Spec => []OneValuePerVersion
<1>1. ASSUME Init
      PROVE  ValueInv
  <2>1. \A t \in Client : task[t] = Idle
    BY <1>1 DEF Init
  <2>2. \A c : ~Known(c)
    BY <1>1 DEF Init, Known
  <2>3. Plain /\ StoresSourced /\ QueueOwn /\ CacheExact
    BY <1>1 DEF Init, Plain, StoresSourced, QueueOwn, LastOf, CacheExact, Flushed, NoRecords
  <2>4. FoundSourced /\ AppliedOnly
    BY <2>1, IdleFields DEF FoundSourced, AppliedOnly, NoRecords
  <2>5. OneValue /\ OwnStamps
    BY <2>2 DEF OneValue, OwnStamps
  <2>6. Counted
    BY <1>1, <2>2 DEF Init, Counted
  <2> QED BY <2>3, <2>4, <2>5, <2>6 DEF ValueInv
<1>2. ASSUME FieldInv, ValueInv, [Next]_vars
      PROVE  ValueInv'
  <2>1. ValueMode
    BY DEF ValueMode, FieldMode
  <2> QED BY <1>2, <2>1, ValueInvKept
<1>3. ASSUME ValueInv
      PROVE  OneValuePerVersion
  BY <1>3 DEF ValueInv, OneValue, Known, OneValuePerVersion
<1> QED BY <1>1, <1>2, <1>3, FieldInvariant, PTL DEF Spec
===========================================================================
