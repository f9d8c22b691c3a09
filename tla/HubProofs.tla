----------------------------- MODULE HubProofs -----------------------------
(***************************************************************************)
(* The changelog of SyncHub for any clients, records, versions, batches    *)
(* and number of failures: its rows are numbered in order, a reader gets   *)
(* them all once each, and it is a last-writer-wins register per record.   *)
(* HubLemmas holds what the hub's own steps do.                            *)
(***************************************************************************)
EXTENDS HubProtocol, HubLemmas

USE HubAssumption, ProtocolAssumption

(* Seen from the hub, a step of the protocol is one of its own, or leaves its
   rows alone. *)
LEMMA StepOfHub ==
  ASSUME [Next]_vars
  PROVE  /\ HubStep \/ RowsAlone
         /\ Push \/ UNCHANGED vars => RowsAlone
         /\ Pull => Pulls
<1>1. Push \/ UNCHANGED vars => RowsAlone
  BY DEF Push, vars, hubVars, RowsAlone, JobRows
<1>2. Pull => Pulls
  BY DEF Pull, Pulls
<1> QED BY <1>1, <1>2 DEF Next, Serve, HubStep

---------------------------------------------------------------------------
(* Types. *)

LEMMA BatchType ==
  ASSUME NEW b \in Batches
  PROVE  b \in Seq(Pushable) /\ b \in Seq(Change)
<1>1. PICK n \in 1..MaxBatch : b \in [1..n -> Pushable]
  BY DEF Batches
<1>2. b \in [1..n -> Change]
  BY <1>1
<1> QED BY <1>1, <1>2

LEMMA StepType ==
  ASSUME TypeOK, [Next]_vars
  PROVE  TypeOK'
<1> USE DEF TypeOK
<1>1. CASE Push
  <2>1. PICK b \in Batches, c \in Client : inbox' = inbox \cup {[to |-> c, batch |-> b]}
    BY <1>1 DEF Push
  <2>2. [to |-> c, batch |-> b] \in Request
    BY BatchType DEF Request
  <2>3. pushes' \in 0..MaxPushes
    BY <1>1 DEF Push
  <2>4. inbox' \in SUBSET Request
    BY <2>1, <2>2 DEF HubTypeOK
  <2> QED BY <1>1, <2>3, <2>4 DEF Push, HubTypeOK
<1>2. CASE Pull
  <2>1. PICK i \in 1..(Len(log) + 1) :
          /\ HubPull(cursor, i)
          /\ cursor' = NextCursor(cursor, i)
          /\ received' = received \o ChangesFrom(i)
    BY <1>2 DEF Pull
  <2>2. HubTypeOK' /\ pushes' = pushes
    BY <1>2, StepOfHub, HubStepType DEF HubStep, Pull
  <2>3. cursor' \in Nat
    BY <2>1, LastSeqType DEF NextCursor
  <2>4. received' \in Seq(Change)
    BY <2>1, ChangesFromType, ConcatProperties
  <2> QED BY <2>2, <2>3, <2>4
<1>3. CASE Serve
  BY <1>3, HubStepType DEF Serve, HubStep
<1>4. CASE UNCHANGED vars
  BY <1>4 DEF vars, hubVars, HubTypeOK
<1> QED BY <1>1, <1>2, <1>3, <1>4 DEF Next

(* Every value of the hub and its reader keeps its type. *)
THEOREM HubTypes == Spec => []TypeOK
<1>1. Init => TypeOK
  BY EmptySeq DEF Init, HubInit, TypeOK, HubTypeOK
<1> QED BY <1>1, StepType, PTL DEF Spec

---------------------------------------------------------------------------
(* The reader.  Its cursor is the number of the last row it was given. *)

LEMMA SeqInvariant == Spec => [](TypeOK /\ SeqInv)
<1>1. TypeOK /\ SeqInv /\ [Next]_vars => SeqInv'
  BY StepSeq, StepOfHub DEF TypeOK
<1>2. Init => SeqInv
  BY InitSeq DEF Init
<1> QED BY <1>1, <1>2, HubTypes, PTL DEF Spec

(* Sequence numbers never collide and grow in the order changes are served,
   through failed persists and restarts (BackendSyncTarget.append and
   ensureReady). *)
THEOREM SeqNeverCollides == Spec => []SeqIncreasing
<1>1. SeqInv => SeqIncreasing
  BY DEF SeqInv, Numbered, AllRows, JobRows, SeqIncreasing
<1> QED BY <1>1, SeqInvariant, PTL

ReadInv ==
  /\ Len(received) <= Len(log)
  /\ \A i \in 1..Len(received) : received[i] = log[i].ch
  /\ cursor = IF Len(received) = 0 THEN 0 ELSE log[Len(received)].seq

(* The cursor separates the rows the reader has from those it has not. *)
LEMMA CursorSeparates ==
  ASSUME TypeOK, SeqInv, ReadInv, NEW i \in DOMAIN log
  PROVE  log[i].seq <= cursor <=> i <= Len(received)
<1> HubTypeOK /\ Len(received) \in Nat BY DEF TypeOK
<1>1. /\ Numbered(log) /\ i \in 1..Len(log) /\ Len(log) \in Nat /\ DOMAIN log = 1..Len(log)
  BY LogNumbered, RowsType DEF SeqInv
<1>2. \A j \in 1..Len(log) : log[j].seq \in Nat
  BY <1>1, RowsType, RowSeq
<1>3. CASE Len(received) = 0
  BY <1>1, <1>2, <1>3 DEF ReadInv, Numbered
<1>4. CASE Len(received) # 0
  <2>1. Len(received) \in 1..Len(log) /\ cursor = log[Len(received)].seq
    BY <1>1, <1>4 DEF ReadInv
  <2>2. i < Len(received) => log[i].seq < cursor
    BY <1>1, <2>1 DEF Numbered
  <2>3. Len(received) < i => cursor < log[i].seq
    BY <1>1, <2>1 DEF Numbered
  <2> QED BY <1>1, <1>2, <2>1, <2>2, <2>3
<1> QED BY <1>3, <1>4

LEMMA StepRead ==
  ASSUME TypeOK, SeqInv, ReadInv, [Next]_vars
  PROVE  ReadInv'
<1> HubTypeOK /\ Len(received) \in Nat BY DEF TypeOK
<1>0. log \in Seq(Row) /\ Len(log) \in Nat /\ DOMAIN log = 1..Len(log)
  BY RowsType
<1>1. CASE UNCHANGED <<log, cursor, received>>
  BY <1>1 DEF ReadInv
<1>2. CASE HubCommit /\ UNCHANGED <<cursor, received, pushes>>
  <2>1. job # Absent /\ log' = log \o job.rows
    BY <1>2 DEF HubCommit
  <2>2. Len(log') = Len(log) + Len(job.rows) /\ Len(job.rows) \in Nat
        /\ \A i \in 1..Len(log) : log'[i] = log[i]
    BY <1>0, <2>1, JobType, ConcatProperties, LenProperties
  <2>3. Len(received) \in 0..Len(log)
    BY <1>0 DEF ReadInv
  <2> QED BY <1>0, <1>2, <2>2, <2>3 DEF ReadInv
<1>3. CASE Pull
  <2>1. PICK i \in 1..(Len(log) + 1) :
          /\ HubPull(cursor, i)
          /\ cursor' = NextCursor(cursor, i)
          /\ received' = received \o ChangesFrom(i)
    BY <1>3 DEF Pull
  <2>2. log' = log /\ StartsAfter(cursor, i)
    BY <2>1 DEF HubPull
  <2>3. i = Len(received) + 1
    <3>1. \A j \in 1..Len(log) : log[j].seq <= cursor <=> j <= Len(received)
      BY <1>0, CursorSeparates
    <3>2. \A j \in 1..(i - 1) : j <= Len(received)
      BY <1>0, <2>2, <3>1 DEF StartsAfter
    <3>3. \A j \in i..Len(log) : ~(j <= Len(received))
      <4> TAKE j \in i..Len(log)
      <4>1. j \in 1..Len(log) /\ log[j].seq > cursor
        BY <1>0, <2>2 DEF StartsAfter
      <4>2. log[j].seq \in Nat /\ cursor \in Nat
        BY <1>0, <4>1, RowSeq DEF TypeOK
      <4> QED BY <3>1, <4>1, <4>2
    <3>4. i - 1 <= Len(received)
      BY <1>0, <3>2
    <3>5. Len(received) <= i - 1
      <4>1. Len(received) \in 0..Len(log) BY <1>0 DEF ReadInv
      <4>2. CASE i \in 1..Len(log) /\ i <= Len(received)
        BY <1>0, <3>3, <4>2
      <4> QED BY <1>0, <4>1, <4>2
    <3> QED BY <1>0, <3>4, <3>5
  <2>4. /\ ChangesFrom(i) \in Seq(Change) /\ Len(ChangesFrom(i)) = Len(log) - Len(received)
        /\ \A j \in 1..(Len(log) - Len(received)) :
             ChangesFrom(i)[j] = log[Len(received) + j].ch
    <3>1. /\ ChangesFrom(i) \in Seq(Change) /\ Len(ChangesFrom(i)) = Len(log) + 1 - i
          /\ \A j \in 1..(Len(log) + 1 - i) : ChangesFrom(i)[j] = log[i + j - 1].ch
      BY ChangesFromType
    <3>2. Len(log) + 1 - i = Len(log) - Len(received)
      <4>1. \A m, n \in Nat : m + 1 - (n + 1) = m - n
        OBVIOUS
      <4> QED BY <1>0, <2>3, <4>1, Zenon
    <3>3. \A j \in 1..(Len(log) - Len(received)) : i + j - 1 = Len(received) + j
      BY <1>0, <2>3
    <3>4. ASSUME NEW j \in 1..(Len(log) - Len(received))
          PROVE  ChangesFrom(i)[j] = log[Len(received) + j].ch
      <4>1. j \in 1..(Len(log) + 1 - i)
        BY <3>2
      <4>2. ChangesFrom(i)[j] = log[i + j - 1].ch
        BY <3>1, <4>1
      <4> QED BY <3>3, <4>2
    <3> QED BY <3>1, <3>2, <3>4
  <2>5. /\ Len(received') = Len(log)
        /\ \A j \in 1..Len(received) : received'[j] = received[j]
        /\ \A j \in 1..(Len(log) - Len(received)) :
             received'[Len(received) + j] = log[Len(received) + j].ch
    <3> DEFINE more == ChangesFrom(i)
    <3>1. received \in Seq(Change) /\ more \in Seq(Change)
      BY <2>4 DEF TypeOK
    <3>2. received' = received \o more /\ Len(more) = Len(log) - Len(received)
      BY <2>1, <2>4
    <3>3. \A j \in 1..(Len(log) - Len(received)) : more[j] = log[Len(received) + j].ch
      BY <2>4
    <3> HIDE DEF more
    <3>4. /\ Len(received') = Len(received) + Len(more)
          /\ \A j \in 1..Len(received) : received'[j] = received[j]
          /\ \A j \in 1..Len(more) : received'[Len(received) + j] = more[j]
      BY <3>1, <3>2, ConcatProperties
    <3> QED BY <1>0, <3>2, <3>3, <3>4
  <2>6. ASSUME NEW j \in 1..Len(log)
        PROVE  received'[j] = log[j].ch
    <3>1. CASE j <= Len(received)
      BY <1>0, <2>5, <3>1 DEF ReadInv
    <3>2. CASE j > Len(received)
      <4>1. j - Len(received) \in 1..(Len(log) - Len(received))
            /\ j = Len(received) + (j - Len(received))
        BY <1>0, <3>2
      <4> QED BY <2>5, <4>1
    <3> QED BY <1>0, <3>1, <3>2
  <2>7. cursor' = IF Len(log) = 0 THEN 0 ELSE log[Len(log)].seq
    <3>1. CASE i > Len(log)
      <4>1. Len(received) = Len(log)
        BY <1>0, <2>3, <3>1 DEF ReadInv
      <4> QED BY <2>1, <3>1, <4>1 DEF NextCursor, ReadInv
    <3>2. CASE i <= Len(log)
      <4>1. log # <<>> /\ Len(log) # 0
        BY <1>0, <3>2
      <4>2. ~(i > Len(log))
        BY <1>0, <3>2
      <4> QED BY <2>1, <4>1, <4>2, LastSeqType DEF NextCursor
    <3> QED BY <1>0, <3>1, <3>2
  <2> QED BY <1>0, <2>2, <2>5, <2>6, <2>7 DEF ReadInv
<1> QED BY <1>1, <1>2, <1>3
    DEF Next, Serve, Push, HubTake, HubAppend, HubReject, HubPersistFails, HubRestart, vars, hubVars

LEMMA ReadInvariant == Spec => [](TypeOK /\ SeqInv /\ ReadInv)
<1>1. Init => ReadInv
  BY DEF Init, HubInit, ReadInv
<1>2. TypeOK /\ SeqInv /\ ReadInv /\ [Next]_vars => ReadInv'
  BY StepRead
<1> QED BY <1>1, <1>2, SeqInvariant, PTL DEF Spec

(* Whatever fails or restarts between two pulls, the reader has been given
   exactly the first rows of the log, once each (BackendSyncTarget.pull). *)
THEOREM ReaderMissesNothing == Spec => []ReaderHasPrefix
<1>1. TypeOK /\ SeqInv /\ ReadInv => ReaderHasPrefix
  BY CursorSeparates DEF ReaderHasPrefix, ReadInv
<1> QED BY <1>1, ReadInvariant, PTL

---------------------------------------------------------------------------
(* Order. *)

BatchesInOrder == OrderedBatches => InOrder

LEMMA StepBatches ==
  ASSUME TypeOK, BatchesInOrder, [Next]_vars
  PROVE  BatchesInOrder'
<1> HubTypeOK BY DEF TypeOK
<1> USE DEF BatchesInOrder
<1>1. CASE Push
  BY <1>1 DEF Push, Batches, InOrder
<1>2. CASE HubStep
  BY <1>2, StepInOrder
<1>3. CASE UNCHANGED vars
  BY <1>3 DEF vars, hubVars, InOrder
<1> QED BY <1>1, <1>2, <1>3, StepOfHub DEF Next, Serve, HubStep

LEMMA OrderInvariant ==
  ASSUME Durable => OrderedBatches
  PROVE  Spec => [](TypeOK /\ BatchesInOrder /\ NewestLast(AllRows))
<1>1. Init => BatchesInOrder /\ NewestLast(AllRows)
  BY InitSeq DEF Init, HubInit, BatchesInOrder, InOrder, NewestLast
<1>2. /\ TypeOK /\ BatchesInOrder /\ NewestLast(AllRows) /\ [Next]_vars
      => BatchesInOrder' /\ NewestLast(AllRows)'
  BY StepBatches, StepNewestLast, StepOfHub DEF TypeOK, BatchesInOrder
<1> QED BY <1>1, <1>2, HubTypes, PTL DEF Spec

(* Whole-record changes of one record are served oldest first, by either
   target, as long as a batch for the durable one holds them oldest first
   (BackendSyncTarget.applyPush and latest, InMemorySyncTarget.push). *)
THEOREM LogStaysMonotone ==
  ASSUME Durable => OrderedBatches
  PROVE  Spec => []LogMonotone
<1>1. TypeOK /\ NewestLast(AllRows) => LogMonotone
  BY LogIsPrefix, RowsType DEF TypeOK, NewestLast, LogMonotone
<1> QED BY <1>1, OrderInvariant, PTL

---------------------------------------------------------------------------
(* The register.  Nothing is in the log that no client has pushed. *)

OnlyPushed ==
  /\ \A req \in inbox : req.batch \in Seq(Pushable)
  /\ job # Absent => job.rest \in Seq(Pushable)
  /\ \A i \in DOMAIN AllRows : AllRows[i].ch \in Pushable

LEMMA StepPushed ==
  ASSUME TypeOK, OnlyPushed, [Next]_vars
  PROVE  OnlyPushed'
<1> HubTypeOK BY DEF TypeOK
<1> USE DEF OnlyPushed
<1>1. CASE Push
  <2>1. PICK b \in Batches, c \in Client : inbox' = inbox \cup {[to |-> c, batch |-> b]}
    BY <1>1 DEF Push
  <2>2. b \in Seq(Pushable) /\ job' = job /\ AllRows' = AllRows
    BY <1>1, BatchType, StepRows, StepOfHub DEF Push, Kept
  <2> QED BY <2>1, <2>2
<1>2. CASE HubTake
  <2>1. PICK req \in inbox :
          /\ inbox' = inbox \ {req}
          /\ job' = [to |-> req.to, rest |-> req.batch, rows |-> <<>>, conflicts |-> <<>>]
    BY <1>2 DEF HubTake
  <2>2. job'.rest = req.batch /\ AllRows' = AllRows
    BY <1>2, <2>1, StepRows DEF Kept
  <2> QED BY <2>1, <2>2
<1>3. CASE HubAppend
  <2>1. /\ job # Absent /\ job.rest # <<>> /\ inbox' = inbox /\ job'.rest = Tail(job.rest)
        /\ NewRow \in Row /\ NewRow.ch = Head(job.rest) /\ AllRows' = Append(AllRows, NewRow)
    BY <1>3, AppendType, StepRows DEF HubAppend, Extended
  <2>2. job.rest \in Seq(Pushable)
    BY <2>1
  <2>3. Head(job.rest) \in Pushable /\ Tail(job.rest) \in Seq(Pushable)
    BY <2>1, <2>2, HeadTailProperties, LenProperties
  <2>4. /\ DOMAIN AllRows' = 1..(Len(AllRows) + 1) /\ Len(AllRows) \in Nat
        /\ DOMAIN AllRows = 1..Len(AllRows)
        /\ AllRows'[Len(AllRows) + 1] = NewRow
        /\ \A i \in 1..Len(AllRows) : AllRows'[i] = AllRows[i]
    BY <2>1, RowsType, AppendProperties, LenProperties
  <2>5. \A i \in DOMAIN AllRows' : AllRows'[i].ch \in Pushable
    BY <2>1, <2>3, <2>4
  <2> QED BY <2>1, <2>3, <2>5
<1>4. CASE HubReject
  <2>1. /\ job # Absent /\ job.rest # <<>> /\ inbox' = inbox /\ job'.rest = Tail(job.rest)
        /\ AllRows' = AllRows
    BY <1>4, RejectType, StepRows DEF HubReject, Kept
  <2>2. job.rest \in Seq(Pushable)
    BY <2>1
  <2>3. Tail(job.rest) \in Seq(Pushable)
    BY <2>1, <2>2, HeadTailProperties, LenProperties
  <2> QED BY <2>1, <2>3
<1>5. CASE HubCommit
  BY <1>5, StepRows DEF HubCommit, Kept
<1>6. CASE HubPersistFails \/ HubRestart
  <2>1. AllRows' = log /\ job' = Absent /\ inbox' \subseteq inbox
    BY <1>6, StepRows DEF CutBack, HubPersistFails, HubRestart
  <2>2. \A i \in DOMAIN log : log[i].ch \in Pushable
    BY LogIsPrefix, RowsType
  <2> QED BY <2>1, <2>2
<1>7. CASE Pull
  BY <1>7, StepRows, StepOfHub DEF Kept, Pull, HubPull
<1>8. CASE UNCHANGED vars
  BY <1>8, StepRows, StepOfHub DEF Kept, vars, hubVars
<1> QED BY <1>1, <1>2, <1>3, <1>4, <1>5, <1>6, <1>7, <1>8 DEF Next, Serve

LEMMA PushedInvariant == Spec => []OnlyPushed
<1>1. Init => OnlyPushed
  <2> SUFFICES ASSUME Init PROVE OnlyPushed
    OBVIOUS
  <2>1. AllRows = <<>> /\ inbox = {} /\ job = Absent
    BY DEF Init, HubInit, AllRows, JobRows
  <2> QED BY <2>1 DEF OnlyPushed
<1>2. TypeOK /\ OnlyPushed /\ [Next]_vars => OnlyPushed'
  BY StepPushed
<1> QED BY <1>1, <1>2, HubTypes, PTL DEF Spec

(* What a reader of some rows ends up with for a record. *)
LEMMA ServedIsLast ==
  ASSUME NEW rows \in Seq(Row), NEW k \in Key, RowsOf(rows, k) # {}
  PROVE  \E m \in RowsOf(rows, k) :
           /\ \A j \in RowsOf(rows, k) : j <= m
           /\ ServedBy(rows)[k] = rows[m].ch.rec.ver
<1>1. RowsOf(rows, k) \subseteq 1..Len(rows) /\ Len(rows) \in Nat
  BY LenProperties DEF RowsOf
<1>2. \E m \in RowsOf(rows, k) : \A j \in RowsOf(rows, k) : j <= m
  BY <1>1, LargestOf
<1> DEFINE last == CHOOSE i \in RowsOf(rows, k) : \A j \in RowsOf(rows, k) : j <= i
<1>3. last \in RowsOf(rows, k) /\ \A j \in RowsOf(rows, k) : j <= last
  BY <1>2
<1>4. ServedBy(rows)[k] = rows[last].ch.rec.ver
  BY DEF ServedBy
<1> HIDE DEF last
<1> QED BY <1>3, <1>4

LEMMA ServedByNone ==
  ASSUME NEW rows, NEW k \in Key, RowsOf(rows, k) = {}
  PROVE  ServedBy(rows)[k] = Absent
BY DEF ServedBy

LEMMA ServedType ==
  ASSUME NEW rows \in Seq(Row)
  PROVE  ServedBy(rows) \in [Key -> Stamp \cup {Absent}]
<1>1. ASSUME NEW k \in Key
      PROVE  ServedBy(rows)[k] \in Stamp \cup {Absent}
  <2>1. CASE RowsOf(rows, k) = {}
    BY <2>1, ServedByNone
  <2>2. CASE RowsOf(rows, k) # {}
    <3>1. PICK m \in RowsOf(rows, k) : ServedBy(rows)[k] = rows[m].ch.rec.ver
      BY <2>2, ServedIsLast
    <3>2. rows[m].ch \in Change
      BY RowSeq DEF RowsOf
    <3> QED BY <3>1, <3>2, ChangeVersion
  <2> QED BY <2>1, <2>2
<1>2. ServedBy(rows) = [k \in Key |-> ServedBy(rows)[k]]
  BY DEF ServedBy
<1> QED BY <1>1, <1>2

(* Rows added at the end replace what is served by something newer. *)
LEMMA CommitReplaces ==
  ASSUME TypeOK, NewestLast(AllRows), OnlyPushed,
         \A c \in Pushable : c.rec.fv = Absent,
         NEW k \in Key, ServedBy(AllRows)[k] # Served[k]
  PROVE  /\ ServedBy(AllRows)[k] # Absent
         /\ Served[k] = Absent \/ Before(Served[k], ServedBy(AllRows)[k])
<1> HubTypeOK BY DEF TypeOK
<1>1. /\ log \in Seq(Row) /\ DOMAIN log = 1..Len(log) /\ Len(log) \in Nat
      /\ AllRows \in Seq(Row) /\ DOMAIN AllRows = 1..Len(AllRows) /\ Len(AllRows) \in Nat
      /\ \A i \in DOMAIN log : i \in DOMAIN AllRows /\ AllRows[i] = log[i]
  BY RowsType, LogIsPrefix
<1>2. RowsOf(log, k) \subseteq RowsOf(AllRows, k)
  BY <1>1 DEF RowsOf
<1>3. RowsOf(AllRows, k) # {}
  BY <1>2, ServedByNone DEF Served
<1>4. PICK n \in RowsOf(AllRows, k) :
        /\ \A j \in RowsOf(AllRows, k) : j <= n
        /\ ServedBy(AllRows)[k] = AllRows[n].ch.rec.ver
  BY <1>1, <1>3, ServedIsLast
<1>5. AllRows[n].ch \in Change /\ n \in DOMAIN AllRows /\ AllRows[n].ch.key = k
  BY <1>1, RowSeq DEF RowsOf
<1>6. ServedBy(AllRows)[k] # Absent
  BY <1>4, <1>5, ChangeVersion
<1>7. CASE RowsOf(log, k) = {}
  BY <1>6, <1>7, ServedByNone DEF Served
<1>8. CASE RowsOf(log, k) # {}
  <2>1. PICK m \in RowsOf(log, k) : Served[k] = log[m].ch.rec.ver
    BY <1>1, <1>8, ServedIsLast DEF Served
  <2>2. m \in DOMAIN AllRows /\ AllRows[m] = log[m] /\ m <= n /\ AllRows[m].ch.key = k
    BY <1>1, <1>2, <1>4 DEF RowsOf
  <2>3. m # n
    BY <1>4, <2>1, <2>2
  <2>4. m < n
    BY <1>1, <1>5, <2>2, <2>3
  <2>5. AllRows[n].ch.rec.fv = Absent
    BY <1>5 DEF OnlyPushed
  <2>6. Before(AllRows[m].ch.rec.ver, AllRows[n].ch.rec.ver)
    BY <1>5, <2>2, <2>4, <2>5 DEF NewestLast
  <2> QED BY <1>4, <1>6, <2>1, <2>2, <2>6
<1> QED BY <1>7, <1>8

(* The changelog of whole-record changes is a last-writer-wins register per
   record: a commit replaces what a reader ends up with by newer versions,
   and nothing else changes it, a failed persist or a restart included. *)
THEOREM HubIsRegister ==
  ASSUME Durable => OrderedBatches, \A c \in Pushable : c.rec.fv = Absent
  PROVE  Spec => RefinesRegister
<1>1. Init => Register!Init
  BY DEF Init, HubInit, Register!Init, Served, ServedBy, RowsOf
<1>2. TypeOK /\ NewestLast(AllRows) /\ OnlyPushed /\ [Next]_vars
      => [Register!Replace]_Served
  <2> SUFFICES ASSUME TypeOK, NewestLast(AllRows), OnlyPushed, [Next]_vars
               PROVE  [Register!Replace]_Served
    OBVIOUS
  <2>1. CASE HubCommit
    <3>1. log' = AllRows
      BY <2>1 DEF HubCommit, AllRows, JobRows
    <3>2. Served' = ServedBy(AllRows)
      BY <3>1 DEF Served
    <3>3. Served' \in [Key -> Stamp \cup {Absent}]
      BY <3>2, ServedType, RowsType DEF TypeOK
    <3>4. ASSUME NEW k \in Key, Served'[k] # Served[k]
          PROVE  Served'[k] # Absent /\ (Served[k] = Absent \/ Before(Served[k], Served'[k]))
      BY <3>2, <3>4, CommitReplaces
    <3> QED BY <3>3, <3>4
        DEF Register!Replace, Register!Before, Register!ClockLess, Before, ClockLess,
            Register!Stamp, Stamp
  <2>2. CASE UNCHANGED log
    BY <2>2 DEF Served
  <2> QED BY <2>1, <2>2
      DEF Next, Serve, Push, Pull, HubPull, HubTake, HubAppend, HubReject, HubPersistFails,
          HubRestart, vars, hubVars
<1> QED BY <1>1, <1>2, OrderInvariant, PushedInvariant, PTL DEF Spec, RefinesRegister, Register!Spec
===========================================================================
