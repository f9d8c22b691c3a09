----------------------------- MODULE HubLemmas -----------------------------
(***************************************************************************)
(* What every step of the hub of SyncHub does to its rows, for any clients,*)
(* records, versions and batches: the lemmas of HubProofs, where clients   *)
(* push what they like, and of SyncProofs, where they are replicas.        *)
(* The rows of the log and of the push being served are followed as one    *)
(* sequence, AllRows: every action keeps it, extends it by one row, or     *)
(* cuts it back to the log.                                                *)
(***************************************************************************)
EXTENDS SyncHub, SequenceTheorems, FiniteSetTheorems, WellFoundedInduction, TLAPS

(* A set of natural numbers has a smallest element. *)
LEMMA SmallestOf ==
  ASSUME NEW T, T \subseteq Nat, T # {}
  PROVE  \E x \in T : \A y \in T : x <= y
<1>1. \E x \in T : \A y \in T : ~(<<y, x>> \in OpToRel(<, Nat))
  BY NatLessThanWellFounded, WFMin, Zenon
<1>2. ASSUME NEW x \in T, NEW y \in T, ~(<<y, x>> \in OpToRel(<, Nat))
      PROVE  x <= y
  BY <1>2 DEF OpToRel
<1> QED BY <1>1, <1>2

(* A set of positions up to n has a last one. *)
LEMMA LargestOf ==
  ASSUME NEW n \in Nat, NEW T, T \subseteq 1..n, T # {}
  PROVE  \E x \in T : \A y \in T : y <= x
<1> DEFINE D == {n - i : i \in T}
<1>1. D \subseteq Nat /\ D # {}
  <2>1. PICK i \in T : TRUE OBVIOUS
  <2>2. n - i \in D BY <2>1
  <2> QED BY <2>2
<1>2. PICK d \in D : \A e \in D : d <= e BY <1>1, SmallestOf
<1>3. PICK x \in T : d = n - x OBVIOUS
<1>4. \A y \in T : y <= x
  <2> TAKE y \in T
  <2>1. n - y \in D OBVIOUS
  <2>2. d <= n - y BY <2>1, <1>2
  <2> QED BY <2>2, <1>3
<1> QED BY <1>4

(* A finite set has a last element in any strict order of it: one with the
   fewest elements after it. *)
LEMMA LastInOrder ==
  ASSUME NEW S, IsFiniteSet(S), S # {}, NEW R,
         \A x \in S : <<x, x>> \notin R,
         \A x, y, z \in S : <<x, y>> \in R /\ <<y, z>> \in R => <<x, z>> \in R
  PROVE  \E x \in S : \A y \in S : <<x, y>> \notin R
<1> DEFINE Later(x) == {y \in S : <<x, y>> \in R}
           Counts == {Cardinality(Later(x)) : x \in S}
<1>1. ASSUME NEW x \in S
      PROVE  IsFiniteSet(Later(x)) /\ Cardinality(Later(x)) \in Nat
  BY FS_Subset, FS_CardinalityType
<1>2. Counts \subseteq Nat /\ Counts # {}
  <2>1. PICK x \in S : TRUE OBVIOUS
  <2>2. Cardinality(Later(x)) \in Counts BY <2>1
  <2>3. ASSUME NEW d \in Counts
        PROVE  d \in Nat
    <3>1. PICK y \in S : d = Cardinality(Later(y)) OBVIOUS
    <3> HIDE DEF Later
    <3> QED BY <1>1, <3>1
  <2> HIDE DEF Counts
  <2> QED BY <2>2, <2>3
<1>3. PICK c \in Counts : \A d \in Counts : c <= d
  BY <1>2, SmallestOf
<1>4. PICK x \in S : c = Cardinality(Later(x))
  OBVIOUS
<1>5. ASSUME NEW y \in S, <<x, y>> \in R
      PROVE  FALSE
  <2>1. Later(y) \subseteq Later(x)
    BY <1>5
  <2>2. y \in Later(x) /\ y \notin Later(y)
    BY <1>5
  <2>3. Cardinality(Later(y)) <= Cardinality(Later(x))
        /\ Cardinality(Later(y)) # Cardinality(Later(x))
    BY <1>1, <2>1, <2>2, FS_Subset
  <2>4. Cardinality(Later(y)) \in Counts
    OBVIOUS
  <2>5. Cardinality(Later(x)) <= Cardinality(Later(y))
    BY <1>3, <1>4, <2>4
  <2> HIDE DEF Later
  <2> QED BY <1>1, <2>3, <2>5
<1> QED BY <1>5

USE HubAssumption

JobRows == IF job = Absent THEN <<>> ELSE job.rows
AllRows == log \o JobRows

LEMMA JobType ==
  ASSUME HubTypeOK, job # Absent
  PROVE  /\ job \in Job /\ job.to \in Client \cup {Nobody}
         /\ job.rest \in Seq(Change) /\ job.rows \in Seq(Row)
         /\ job.conflicts \in Seq(Change)
BY DEF HubTypeOK, Job

LEMMA RowsType ==
  ASSUME HubTypeOK
  PROVE  /\ log \in Seq(Row) /\ JobRows \in Seq(Row) /\ AllRows \in Seq(Row)
         /\ Len(log) \in Nat /\ Len(AllRows) \in Nat
         /\ DOMAIN log = 1..Len(log) /\ DOMAIN AllRows = 1..Len(AllRows)
<1>1. log \in Seq(Row) BY DEF HubTypeOK
<1>2. JobRows \in Seq(Row)
  BY JobType, EmptySeq DEF JobRows
<1>3. AllRows \in Seq(Row)
  BY <1>1, <1>2, ConcatProperties DEF AllRows
<1> QED BY <1>1, <1>3, <1>2, LenProperties

(* The log is the first part of AllRows. *)
LEMMA LogIsPrefix ==
  ASSUME HubTypeOK
  PROVE  /\ Len(log) <= Len(AllRows)
         /\ \A i \in 1..Len(log) : i \in DOMAIN AllRows /\ AllRows[i] = log[i]
<1>1. Len(AllRows) = Len(log) + Len(JobRows)
      /\ \A i \in 1..Len(log) : AllRows[i] = log[i]
  BY RowsType, ConcatProperties DEF AllRows
<1>2. Len(JobRows) \in Nat BY RowsType
<1> QED BY <1>1, <1>2, RowsType

(* latest() answers with a change of the record, whose version no other one
   exceeds, if there is one at all. *)
StampOrder == {p \in Change \X Change : Before(p[1].rec.ver, p[2].rec.ver)}

LEMMA ChangeVersion ==
  ASSUME NEW c \in Change
  PROVE  c.rec.ver \in Stamp
BY DEF Change, Record

LEMMA BeforeIsOrder ==
  ASSUME NEW x \in Stamp, NEW y \in Stamp, NEW z \in Stamp
  PROVE  /\ ~Before(x, x)
         /\ Before(x, y) /\ Before(y, z) => Before(x, z)
         /\ ~Before(x, y) /\ Before(x, z) => Before(y, z)
<1> DEFINE Nats == /\ x.phys \in Nat /\ x.ctr \in Nat /\ x.node \in Nat
                   /\ y.phys \in Nat /\ y.ctr \in Nat /\ y.node \in Nat
                   /\ z.phys \in Nat /\ z.ctr \in Nat /\ z.node \in Nat
<1>1. Nats BY DEF Stamp
<1>2. ~Before(x, x) BY <1>1 DEF Before, ClockLess
<1>3. Before(x, y) /\ Before(y, z) => Before(x, z)
  BY <1>1 DEF Before, ClockLess
<1>4. ~Before(x, y) /\ Before(x, z) => Before(y, z)
  BY <1>1 DEF Before, ClockLess
<1> QED BY <1>2, <1>3, <1>4

LEMMA ChangesOfRows ==
  ASSUME NEW rows \in Seq(Row), NEW k
  PROVE  /\ ChangesOf(rows, k) \subseteq Change
         /\ IsFiniteSet(ChangesOf(rows, k))
<1> DEFINE P == {j \in DOMAIN rows : rows[j].ch.key = k}
<1>1. ASSUME NEW j \in P
      PROVE  rows[j].ch \in Change
  <2>1. rows[j] \in Row BY ElementOfSeq, LenProperties
  <2> QED BY <2>1 DEF Row
<1>2. IsFiniteSet(P)
  <2>1. P \subseteq 1..Len(rows) /\ Len(rows) \in Nat BY LenProperties
  <2>2. IsFiniteSet(1..Len(rows)) BY <2>1, FS_Interval
  <2> QED BY <2>1, <2>2, FS_Subset
<1>3. ChangesOf(rows, k) = {rows[i].ch : i \in P}
  BY DEF ChangesOf
<1>4. IsFiniteSet(ChangesOf(rows, k))
  <2> DEFINE g == [i \in P |-> rows[i].ch]
  <2>1. g \in Surjection(P, ChangesOf(rows, k))
    BY <1>3 DEF Surjection
  <2> HIDE DEF g, P
  <2> QED BY <1>2, <2>1, FS_Surjection
<1> QED BY <1>1, <1>3, <1>4

LEMMA LatestIsNewest ==
  ASSUME NEW rows \in Seq(Row), NEW k, ChangesOf(rows, k) # {}
  PROVE  /\ Latest(rows, k) \in ChangesOf(rows, k) /\ Latest(rows, k) \in Change
         /\ \A d \in ChangesOf(rows, k) : ~Before(Latest(rows, k).rec.ver, d.rec.ver)
<1> DEFINE C == ChangesOf(rows, k)
<1>1. C \subseteq Change /\ IsFiniteSet(C) BY ChangesOfRows
<1>2. \A x \in C : <<x, x>> \notin StampOrder
  BY <1>1, ChangeVersion, BeforeIsOrder DEF StampOrder
<1>3. ASSUME NEW x \in C, NEW y \in C, NEW z \in C,
             <<x, y>> \in StampOrder, <<y, z>> \in StampOrder
      PROVE  <<x, z>> \in StampOrder
  <2>1. x.rec.ver \in Stamp /\ y.rec.ver \in Stamp /\ z.rec.ver \in Stamp
    BY <1>1, ChangeVersion
  <2>2. Before(x.rec.ver, y.rec.ver) /\ Before(y.rec.ver, z.rec.ver)
    BY <1>3 DEF StampOrder
  <2>3. Before(x.rec.ver, z.rec.ver) BY <2>1, <2>2, BeforeIsOrder
  <2> QED BY <1>1, <2>3 DEF StampOrder
<1>4. \E x \in C : \A y \in C : <<x, y>> \notin StampOrder
  <2>1. C # {} OBVIOUS
  <2> HIDE DEF C
  <2> QED BY <1>1, <1>2, <1>3, <2>1, LastInOrder
<1>5. Newest(C) # {}
  BY <1>1, <1>4 DEF Newest, StampOrder
<1>6. Latest(rows, k) \in Newest(C)
  BY <1>5 DEF Latest
<1> QED BY <1>1, <1>6 DEF Newest

LEMMA LatestOfNone ==
  ASSUME NEW rows, NEW k, ChangesOf(rows, k) = {}
  PROVE  Latest(rows, k) = Absent
BY DEF Latest, Newest

LEMMA VisibleType ==
  ASSUME HubTypeOK, job # Absent
  PROVE  Visible \in Seq(Row) /\ Visible = (IF Durable THEN log ELSE AllRows)
BY RowsType DEF Visible, AllRows, JobRows

LEMMA LastSeqType ==
  ASSUME HubTypeOK
  PROVE  LastSeq \in Nat /\ (log # <<>> => LastSeq = log[Len(log)].seq /\ Len(log) \in DOMAIN log)
<1>1. CASE log = <<>>
  BY <1>1 DEF LastSeq
<1>2. CASE log # <<>>
  <2>1. log \in Seq(Row) /\ Len(log) \in 1..Len(log) /\ DOMAIN log = 1..Len(log)
    BY <1>2 DEF HubTypeOK
  <2>2. log[Len(log)] \in Row
    BY <2>1, ElementOfSeq, LenProperties
  <2> QED BY <1>2, <2>1, <2>2 DEF LastSeq, Last, Row
<1> QED BY <1>1, <1>2

LEMMA EnsureReadyType ==
  ASSUME HubTypeOK, EnsureReady
  PROVE  seq' \in Nat /\ ready' \in BOOLEAN
BY LastSeqType DEF EnsureReady, HubTypeOK

LEMMA ChangesFromType ==
  ASSUME HubTypeOK, NEW i \in 1..(Len(log) + 1)
  PROVE  /\ ChangesFrom(i) \in Seq(Change) /\ Len(ChangesFrom(i)) = Len(log) + 1 - i
         /\ \A j \in 1..(Len(log) + 1 - i) : ChangesFrom(i)[j] = log[i + j - 1].ch
<1>0. log \in Seq(Row) /\ DOMAIN log = 1..Len(log) /\ Len(log) \in Nat
  BY RowsType
<1>1. Len(log) + 1 - i \in Nat
  BY <1>0
<1>2. \A j \in 1..(Len(log) + 1 - i) : log[i + j - 1].ch \in Change
  <2> TAKE j \in 1..(Len(log) + 1 - i)
  <2>1. i + j - 1 \in DOMAIN log BY <1>0
  <2>2. log[i + j - 1] \in Row BY <1>0, <2>1, ElementOfSeq, LenProperties
  <2> QED BY <2>2 DEF Row
<1>3. ChangesFrom(i) \in [1..(Len(log) + 1 - i) -> Change]
  BY <1>2 DEF ChangesFrom
<1>4. ChangesFrom(i) \in Seq(Change) /\ Len(ChangesFrom(i)) = Len(log) + 1 - i
  BY <1>1, <1>3
<1> QED BY <1>4 DEF ChangesFrom

NewRow == [seq |-> seq + 1, ch |-> Head(job.rest)]

LEMMA AppendType ==
  ASSUME HubTypeOK, HubAppend
  PROVE  /\ job # Absent /\ job.rest # <<>> /\ job' \in Job
         /\ job'.rows = Append(job.rows, NewRow) /\ job'.rest = Tail(job.rest)
         /\ NewRow \in Row /\ NewRow.ch = Head(job.rest) /\ NewRow.seq = seq + 1
         /\ seq' \in Nat
<1>1. /\ job # Absent /\ job.rest # <<>> /\ seq' = seq + 1
      /\ job' = [job EXCEPT !.rest = Tail(@), !.rows = Append(@, NewRow)]
  BY DEF HubAppend, NewRow
<1>2. Head(job.rest) \in Change /\ Tail(job.rest) \in Seq(Change)
  BY <1>1, JobType, HeadTailProperties, LenProperties
<1>3. NewRow \in Row /\ NewRow.ch = Head(job.rest) /\ NewRow.seq = seq + 1 /\ seq + 1 \in Nat
  BY <1>2 DEF NewRow, Row, HubTypeOK
<1>4. Append(job.rows, NewRow) \in Seq(Row)
  BY <1>1, <1>3, JobType, AppendProperties
<1> QED BY <1>1, <1>2, <1>3, <1>4, JobType DEF Job

LEMMA RejectType ==
  ASSUME HubTypeOK, HubReject
  PROVE  /\ job # Absent /\ job.rest # <<>> /\ job' \in Job
         /\ job'.rows = job.rows /\ job'.rest = Tail(job.rest)
<1> DEFINE current == Latest(Visible, Head(job.rest).key)
<1>1. job # Absent /\ job.rest # <<>> /\ ~Accepted(Head(job.rest))
  BY DEF HubReject
<1>2. Head(job.rest) \in Change /\ Tail(job.rest) \in Seq(Change)
  BY <1>1, JobType, HeadTailProperties, LenProperties
<1>3. current \in Change
  BY <1>1, LatestIsNewest, LatestOfNone, VisibleType, RowsType DEF Accepted
<1>4. job' = [job EXCEPT !.rest = Tail(@), !.conflicts = Append(@, current)]
  BY DEF HubReject
<1>5. Append(job.conflicts, current) \in Seq(Change)
  BY <1>1, <1>3, JobType, AppendProperties
<1> HIDE DEF current
<1> QED BY <1>1, <1>2, <1>4, <1>5, JobType DEF Job

---------------------------------------------------------------------------
(* The steps of the hub, and the steps of others that leave its rows alone:
   a request arrives, or is forgotten by whoever sent it. *)

Pulls == \E cursor, i : HubPull(cursor, i)
HubStep == HubTake \/ HubAppend \/ HubReject \/ HubCommit \/ HubPersistFails \/ HubRestart \/ Pulls
RowsAlone == UNCHANGED <<log, seq, ready>> /\ JobRows' = JobRows /\ (job' = Absent <=> job = Absent)

LEMMA HubStepType ==
  ASSUME HubTypeOK, HubStep
  PROVE  HubTypeOK'
<1>1. CASE HubTake
  <2>1. PICK req \in inbox :
          /\ inbox' = inbox \ {req}
          /\ job' = [to |-> req.to, rest |-> req.batch, rows |-> <<>>, conflicts |-> <<>>]
    BY <1>1 DEF HubTake
  <2>2. req \in Request
    BY DEF HubTypeOK
  <2>3. job' \in Job
    BY <2>1, <2>2, EmptySeq DEF Job, Request
  <2>4. seq' \in Nat /\ ready' \in BOOLEAN /\ UNCHANGED <<log, faults>>
    BY <1>1, EnsureReadyType DEF HubTake
  <2> QED BY <2>1, <2>3, <2>4 DEF HubTypeOK
<1>2. CASE HubAppend
  BY <1>2, AppendType DEF HubAppend, HubTypeOK
<1>3. CASE HubReject
  BY <1>3, RejectType DEF HubReject, HubTypeOK
<1>4. CASE HubCommit
  <2>1. log' = log \o job.rows /\ job' = Absent /\ UNCHANGED <<seq, ready, inbox, faults>>
    BY <1>4 DEF HubCommit
  <2>2. log' \in Seq(Row)
    BY <1>4, <2>1, JobType, RowsType, ConcatProperties DEF HubCommit
  <2> QED BY <2>1, <2>2 DEF HubTypeOK
<1>5. CASE HubPersistFails
  BY <1>5 DEF HubPersistFails, HubTypeOK
<1>6. CASE HubRestart
  <2>1. seq' = 0 /\ ready' = FALSE /\ inbox' = {} /\ job' = Absent /\ log' = log
    BY <1>6 DEF HubRestart
  <2>2. faults' \in 0..MaxFaults
    BY <1>6 DEF HubRestart, HubTypeOK
  <2> QED BY <2>1, <2>2, Zenon DEF HubTypeOK
<1>7. CASE Pulls
  BY <1>7, EnsureReadyType DEF Pulls, HubPull, HubTypeOK
<1> QED BY <1>1, <1>2, <1>3, <1>4, <1>5, <1>6, <1>7 DEF HubStep

LEMMA RowSeq ==
  ASSUME NEW rows \in Seq(Row), NEW i \in DOMAIN rows
  PROVE  rows[i] \in Row /\ rows[i].seq \in Nat /\ rows[i].ch \in Change
<1>1. rows[i] \in Row BY ElementOfSeq, LenProperties
<1> QED BY <1>1 DEF Row

(* What the steps do to the rows. *)
Kept == AllRows' = AllRows
Extended == AllRows' = Append(AllRows, NewRow)
CutBack == AllRows' = log

LEMMA StepRows ==
  ASSUME HubTypeOK
  PROVE  /\ RowsAlone \/ Pulls \/ HubTake \/ HubReject \/ HubCommit => Kept
         /\ HubAppend => Extended
         /\ HubPersistFails \/ HubRestart => CutBack
<1>1. RowsAlone \/ Pulls => Kept
  BY DEF Kept, AllRows, JobRows, RowsAlone, Pulls, HubPull
<1>3. ASSUME HubTake
      PROVE  Kept
  <2>1. job = Absent /\ log' = log
    BY <1>3 DEF HubTake
  <2>2. job' = Absent \/ job'.rows = <<>>
    BY <1>3 DEF HubTake
  <2> QED BY <2>1, <2>2 DEF Kept, AllRows, JobRows
<1>4. ASSUME HubReject
      PROVE  Kept
  <2>1. job # Absent /\ job' # Absent /\ job'.rows = job.rows /\ log' = log
    BY <1>4, RejectType DEF HubReject
  <2> QED BY <2>1 DEF Kept, AllRows, JobRows
<1>5. ASSUME HubCommit
      PROVE  Kept
  <2>1. job # Absent /\ log' = log \o job.rows /\ job' = Absent
    BY <1>5 DEF HubCommit
  <2>2. log' = AllRows
    BY <2>1 DEF AllRows, JobRows
  <2>3. AllRows' = log' \o <<>>
    BY <2>1 DEF AllRows, JobRows
  <2> QED BY <2>2, <2>3, RowsType, ConcatEmptySeq DEF Kept
<1>6. ASSUME HubAppend
      PROVE  Extended
  <2>1. /\ job # Absent /\ job' # Absent /\ log' = log
        /\ job'.rows = Append(job.rows, NewRow) /\ NewRow \in Row
    BY <1>6, AppendType DEF HubAppend
  <2>2. AllRows' = log \o Append(job.rows, NewRow) /\ AllRows = log \o job.rows
    BY <2>1 DEF AllRows, JobRows
  <2>3. log \o Append(job.rows, NewRow) = Append(log \o job.rows, NewRow)
    <3>1. log \in Seq(Row) /\ job.rows \in Seq(Row)
      BY <2>1, JobType, RowsType
    <3>2. \A s, t \in Seq(Row), e \in Row : s \o Append(t, e) = Append(s \o t, e)
      OBVIOUS
    <3> QED BY <2>1, <3>1, <3>2, Zenon
  <2> QED BY <2>2, <2>3 DEF Extended
<1>7. ASSUME HubPersistFails \/ HubRestart
      PROVE  CutBack
  <2>1. AllRows' = log \o <<>>
    BY <1>7 DEF HubPersistFails, HubRestart, AllRows, JobRows
  <2> QED BY <2>1, RowsType, ConcatEmptySeq DEF CutBack
<1> QED BY <1>1, <1>3, <1>4, <1>5, <1>6, <1>7

---------------------------------------------------------------------------
(* Numbering.  Once the counter is seeded it is at or past every row. *)

Numbered(rows) ==
  /\ \A i, j \in DOMAIN rows : i < j => rows[i].seq < rows[j].seq
  /\ \A i \in DOMAIN rows : rows[i].seq > 0

SeqInv ==
  /\ Numbered(AllRows)
  /\ ready => \A i \in DOMAIN AllRows : AllRows[i].seq <= seq
  /\ job # Absent => ready

LEMMA LogNumbered ==
  ASSUME HubTypeOK, Numbered(AllRows)
  PROVE  Numbered(log)
BY LogIsPrefix, RowsType DEF Numbered

LEMMA StepSeq ==
  ASSUME HubTypeOK, SeqInv, HubStep \/ RowsAlone
  PROVE  SeqInv'
<1> USE DEF SeqInv
<1>1. ASSUME EnsureReady, Kept, job = Absent \/ job' = job
      PROVE  SeqInv'
  <2>1. CASE ready
    BY <1>1, <2>1 DEF EnsureReady, Kept
  <2>2. CASE ~ready
    <3>1. AllRows = log
      BY <2>2, RowsType, ConcatEmptySeq DEF AllRows, JobRows
    <3>2. seq' = LastSeq /\ ready'
      BY <1>1, <2>2 DEF EnsureReady
    <3>3. ASSUME NEW i \in DOMAIN log
          PROVE  log[i].seq <= LastSeq
      <4>1. i \in 1..Len(log) /\ Len(log) \in DOMAIN log /\ log # <<>>
        BY RowsType, <3>3
      <4>2. log[i].seq \in Nat /\ log[Len(log)].seq \in Nat
        BY <4>1, RowsType, RowSeq
      <4>3. i < Len(log) \/ i = Len(log)
        BY <4>1, RowsType
      <4> QED BY <3>1, <4>1, <4>2, <4>3, LastSeqType DEF Numbered
    <3> QED BY <1>1, <3>1, <3>2, <3>3 DEF Kept
  <2> QED BY <2>1, <2>2
<1>2. CASE RowsAlone
  BY <1>2, StepRows DEF RowsAlone, Kept
<1>3. CASE Pulls
  BY <1>1, <1>3, StepRows DEF Pulls, HubPull
<1>4. CASE HubTake
  BY <1>1, <1>4, StepRows DEF HubTake
<1>5. CASE HubAppend
  <2>1. job # Absent /\ seq' = seq + 1 /\ ready' = ready
    BY <1>5 DEF HubAppend
  <2>2. NewRow \in Row /\ NewRow.seq = seq + 1 /\ seq \in Nat
    BY <1>5, AppendType DEF HubTypeOK
  <2>3. AllRows' = Append(AllRows, NewRow)
    BY <1>5, StepRows DEF Extended
  <2>4. /\ AllRows' \in Seq(Row) /\ Len(AllRows') = Len(AllRows) + 1
        /\ AllRows'[Len(AllRows) + 1] = NewRow
        /\ \A i \in 1..Len(AllRows) : AllRows'[i] = AllRows[i]
    BY <2>2, <2>3, RowsType, AppendProperties
  <2>5. DOMAIN AllRows' = 1..(Len(AllRows) + 1)
    BY <2>4, LenProperties
  <2>6. \A i \in 1..Len(AllRows) : AllRows[i].seq \in Nat /\ AllRows[i].seq <= seq
    BY <2>1, RowsType, RowSeq
  <2>7. ASSUME NEW i \in DOMAIN AllRows'
        PROVE  \/ i \in DOMAIN AllRows /\ AllRows'[i].seq = AllRows[i].seq
               \/ i = Len(AllRows) + 1 /\ AllRows'[i].seq = seq + 1
    BY <2>2, <2>4, <2>5, RowsType
  <2>8. Numbered(AllRows)'
    <3>1. ASSUME NEW i \in DOMAIN AllRows', NEW j \in DOMAIN AllRows', i < j
          PROVE  AllRows'[i].seq < AllRows'[j].seq
      <4>1. i \in DOMAIN AllRows /\ AllRows'[i].seq = AllRows[i].seq
        BY <2>5, <2>7, <3>1, RowsType
      <4>2. AllRows[i].seq < seq + 1
        BY <2>2, <2>6, <4>1, RowsType
      <4> QED BY <2>7, <3>1, <4>1, <4>2 DEF Numbered
    <3>2. ASSUME NEW i \in DOMAIN AllRows'
          PROVE  AllRows'[i].seq > 0
      BY <2>2, <2>7 DEF Numbered
    <3> QED BY <3>1, <3>2 DEF Numbered
  <2>9. \A i \in DOMAIN AllRows' : AllRows'[i].seq <= seq'
    <3>1. \A i \in DOMAIN AllRows : AllRows[i].seq \in Nat /\ AllRows[i].seq <= seq
      BY <2>6, RowsType
    <3>2. ASSUME NEW i \in DOMAIN AllRows'
          PROVE  AllRows'[i].seq <= seq + 1
      <4>1. CASE i \in DOMAIN AllRows /\ AllRows'[i].seq = AllRows[i].seq
        BY <2>2, <3>1, <4>1
      <4>2. CASE AllRows'[i].seq = seq + 1
        BY <2>2, <4>2
      <4> QED BY <2>7, <4>1, <4>2
    <3> QED BY <2>1, <3>2
  <2> QED BY <2>1, <2>8, <2>9
<1>6. CASE HubReject
  BY <1>6, StepRows DEF HubReject, Kept
<1>7. CASE HubCommit
  BY <1>7, StepRows DEF HubCommit, Kept
<1>8. CASE HubPersistFails \/ HubRestart
  <2>1. AllRows' = log /\ job' = Absent
    BY <1>8, StepRows DEF CutBack, HubPersistFails, HubRestart
  <2>2. ready' => ready /\ seq' = seq
    BY <1>8 DEF HubPersistFails, HubRestart
  <2>3. ready => \A i \in DOMAIN log : log[i].seq <= seq
    BY LogIsPrefix, RowsType
  <2> QED BY <2>1, <2>2, <2>3, LogNumbered
<1> QED BY <1>2, <1>3, <1>4, <1>5, <1>6, <1>7, <1>8 DEF HubStep

LEMMA InitSeq ==
  HubInit => AllRows = <<>> /\ SeqInv
<1> SUFFICES ASSUME HubInit PROVE AllRows = <<>> /\ SeqInv
  OBVIOUS
<1>1. AllRows = <<>>
  BY DEF HubInit, AllRows, JobRows
<1> QED BY <1>1 DEF HubInit, SeqInv, Numbered

---------------------------------------------------------------------------
(* Order.  A durable target decides by committed rows alone, so what is left
   of a batch must follow the rows the batch has appended already. *)

InOrder ==
  /\ \A req \in inbox : OldestFirst(req.batch)
  /\ job # Absent =>
       /\ OldestFirst(job.rest)
       /\ \A i \in DOMAIN job.rows, j \in DOMAIN job.rest :
            job.rows[i].ch.key = job.rest[j].key
              => Before(job.rows[i].ch.rec.ver, job.rest[j].rec.ver)

NewestLast(rows) ==
  \A i, j \in DOMAIN rows :
    i < j /\ rows[i].ch.key = rows[j].ch.key /\ rows[j].ch.rec.fv = Absent
      => Before(rows[i].ch.rec.ver, rows[j].ch.rec.ver)

LEMMA TailInOrder ==
  ASSUME NEW b \in Seq(Change), b # <<>>, OldestFirst(b)
  PROVE  OldestFirst(Tail(b))
<1>1. \A i \in DOMAIN Tail(b) : i \in Nat /\ i + 1 \in DOMAIN b /\ Tail(b)[i] = b[i + 1]
  BY HeadTailProperties, LenProperties
<1> QED BY <1>1 DEF OldestFirst

LEMMA StepInOrder ==
  ASSUME HubTypeOK, InOrder, HubStep
  PROVE  InOrder'
<1> USE DEF InOrder
<1>2. CASE HubTake
  <2>1. PICK req \in inbox :
          /\ inbox' = inbox \ {req}
          /\ job' = [to |-> req.to, rest |-> req.batch, rows |-> <<>>, conflicts |-> <<>>]
    BY <1>2 DEF HubTake
  <2>2. job'.rows = <<>> /\ job'.rest = req.batch
    BY <2>1
  <2> QED BY <2>1, <2>2
<1>3. CASE HubAppend
  <2>1. /\ job # Absent /\ job.rest # <<>> /\ inbox' = inbox
        /\ job'.rows = Append(job.rows, NewRow) /\ job'.rest = Tail(job.rest)
        /\ NewRow \in Row /\ NewRow.ch = Head(job.rest)
    BY <1>3, AppendType DEF HubAppend
  <2>2. /\ job.rest \in Seq(Change) /\ job.rows \in Seq(Row)
        /\ DOMAIN job.rows = 1..Len(job.rows) /\ Len(job.rows) \in Nat
    BY <2>1, JobType, LenProperties
  <2>3. ASSUME NEW i \in DOMAIN job'.rows, NEW j \in DOMAIN job'.rest,
               job'.rows[i].ch.key = job'.rest[j].key
        PROVE  Before(job'.rows[i].ch.rec.ver, job'.rest[j].rec.ver)
    <3>1. /\ j \in Nat /\ j >= 1 /\ j + 1 \in DOMAIN job.rest
          /\ job'.rest[j] = job.rest[j + 1]
          /\ 1 \in DOMAIN job.rest /\ Head(job.rest) = job.rest[1]
      BY <2>1, <2>2, <2>3, HeadTailProperties, LenProperties
    <3>2. /\ DOMAIN job'.rows = 1..(Len(job.rows) + 1)
          /\ job'.rows[Len(job.rows) + 1] = NewRow
          /\ \A x \in 1..Len(job.rows) : job'.rows[x] = job.rows[x]
      BY <2>1, <2>2, AppendProperties, LenProperties
    <3>3. CASE i = Len(job.rows) + 1
      <4>1. OldestFirst(job.rest) /\ job.rest[1].key = job.rest[j + 1].key
        BY <2>1, <2>3, <3>1, <3>2, <3>3
      <4>2. Before(job.rest[1].rec.ver, job.rest[j + 1].rec.ver)
        BY <3>1, <4>1 DEF OldestFirst
      <4> QED BY <2>1, <3>1, <3>2, <3>3, <4>2
    <3>4. CASE i \in 1..Len(job.rows)
      <4>1. job'.rows[i] = job.rows[i] /\ i \in DOMAIN job.rows
        BY <2>2, <3>2, <3>4
      <4> QED BY <2>1, <2>3, <3>1, <4>1
    <3> QED BY <2>2, <2>3, <3>2, <3>3, <3>4
  <2>4. OldestFirst(job'.rest)
    BY <2>1, <2>2, TailInOrder
  <2> QED BY <2>1, <2>3, <2>4
<1>4. CASE HubReject
  <2>1. /\ job # Absent /\ job.rest # <<>> /\ inbox' = inbox
        /\ job'.rows = job.rows /\ job'.rest = Tail(job.rest)
    BY <1>4, RejectType DEF HubReject
  <2>2. job.rest \in Seq(Change)
    BY <2>1, JobType
  <2>3. \A j \in DOMAIN job'.rest : j + 1 \in DOMAIN job.rest /\ job'.rest[j] = job.rest[j + 1]
    BY <2>1, <2>2, HeadTailProperties, LenProperties
  <2>4. OldestFirst(job'.rest)
    BY <2>1, <2>2, TailInOrder
  <2> QED BY <2>1, <2>3, <2>4
<1>5. CASE HubCommit \/ HubPersistFails \/ HubRestart
  BY <1>5 DEF HubCommit, HubPersistFails, HubRestart
<1>6. CASE Pulls
  BY <1>6 DEF Pulls, HubPull
<1> QED BY <1>2, <1>3, <1>4, <1>5, <1>6 DEF HubStep

(* A change the hub accepts is newer than every row of its record. *)
LEMMA AcceptedIsNewest ==
  ASSUME HubTypeOK, Durable => InOrder, HubAppend,
         NEW i \in DOMAIN AllRows, AllRows[i].ch.key = NewRow.ch.key,
         NewRow.ch.rec.fv = Absent
  PROVE  Before(AllRows[i].ch.rec.ver, NewRow.ch.rec.ver)
<1> DEFINE change == Head(job.rest)
           current == Latest(Visible, change.key)
<1>1. /\ job # Absent /\ job.rest # <<>> /\ Accepted(change) /\ NewRow.ch = change
      /\ job.rest \in Seq(Change) /\ job.rows \in Seq(Row) /\ change \in Change
      /\ change = job.rest[1] /\ 1 \in DOMAIN job.rest
  BY AppendType, JobType, HeadTailProperties, LenProperties DEF HubAppend
<1>2. Visible \in Seq(Row) /\ Visible = (IF Durable THEN log ELSE AllRows)
  BY <1>1, VisibleType
<1>3. ASSUME NEW j \in DOMAIN Visible, AllRows[i] = Visible[j]
      PROVE  Before(AllRows[i].ch.rec.ver, NewRow.ch.rec.ver)
  <2>1. AllRows[i].ch \in ChangesOf(Visible, change.key)
    BY <1>1, <1>3 DEF ChangesOf
  <2>2. current \in Change /\ ~Before(current.rec.ver, AllRows[i].ch.rec.ver)
    BY <1>2, <2>1, LatestIsNewest
  <2>3. Before(current.rec.ver, change.rec.ver)
    BY <1>1, <2>2 DEF Accepted
  <2>4. AllRows[i].ch \in Change
    BY <1>2, <1>3, RowSeq
  <2> HIDE DEF current
  <2>5. /\ current.rec.ver \in Stamp /\ AllRows[i].ch.rec.ver \in Stamp
        /\ change.rec.ver \in Stamp
    BY <1>1, <2>2, <2>4, ChangeVersion
  <2> QED BY <1>1, <2>2, <2>3, <2>5, BeforeIsOrder
<1>4. CASE ~Durable
  BY <1>2, <1>3, <1>4
<1>5. CASE Durable
  <2>1. /\ i \in Nat /\ DOMAIN log = 1..Len(log) /\ Len(log) \in Nat
        /\ DOMAIN AllRows = 1..Len(AllRows)
    BY RowsType
  <2>2. CASE i \in DOMAIN log
    BY <1>2, <1>3, <1>5, <2>1, <2>2, LogIsPrefix
  <2>3. CASE i \notin DOMAIN log
    <3>1. /\ AllRows = log \o job.rows
          /\ Len(AllRows) = Len(log) + Len(job.rows)
          /\ \A x \in 1..Len(job.rows) : AllRows[Len(log) + x] = job.rows[x]
      BY <1>1, RowsType, ConcatProperties DEF AllRows, JobRows
    <3>2. Len(job.rows) \in Nat /\ DOMAIN job.rows = 1..Len(job.rows)
      BY <1>1, LenProperties
    <3>3. i - Len(log) \in 1..Len(job.rows) /\ i = Len(log) + (i - Len(log))
      BY <2>1, <2>3, <3>1, <3>2
    <3>4. AllRows[i] = job.rows[i - Len(log)] /\ i - Len(log) \in DOMAIN job.rows
      BY <3>1, <3>2, <3>3
    <3> HIDE DEF change
    <3> QED BY <1>1, <1>5, <3>4 DEF InOrder
  <2> QED BY <2>2, <2>3
<1> QED BY <1>4, <1>5

LEMMA StepNewestLast ==
  ASSUME HubTypeOK, Durable => InOrder, NewestLast(AllRows), HubStep \/ RowsAlone
  PROVE  NewestLast(AllRows)'
<1>1. CASE Kept
  BY <1>1 DEF Kept, NewestLast
<1>2. CASE CutBack
  BY <1>2, LogIsPrefix, RowsType DEF CutBack, NewestLast
<1>3. CASE HubAppend
  <2>1. AllRows' = Append(AllRows, NewRow) /\ NewRow \in Row
    BY <1>3, StepRows, AppendType DEF Extended
  <2>2. /\ DOMAIN AllRows' = 1..(Len(AllRows) + 1) /\ Len(AllRows) \in Nat
        /\ DOMAIN AllRows = 1..Len(AllRows)
        /\ AllRows'[Len(AllRows) + 1] = NewRow
        /\ \A i \in 1..Len(AllRows) : AllRows'[i] = AllRows[i]
    BY <2>1, RowsType, AppendProperties, LenProperties
  <2>3. ASSUME NEW i \in DOMAIN AllRows', NEW j \in DOMAIN AllRows', i < j,
               AllRows'[i].ch.key = AllRows'[j].ch.key, AllRows'[j].ch.rec.fv = Absent
        PROVE  Before(AllRows'[i].ch.rec.ver, AllRows'[j].ch.rec.ver)
    <3>1. i \in DOMAIN AllRows /\ AllRows'[i] = AllRows[i]
      BY <2>2, <2>3
    <3>2. CASE j = Len(AllRows) + 1
      BY <1>3, <2>2, <2>3, <3>1, <3>2, AcceptedIsNewest
    <3>3. CASE j \in DOMAIN AllRows
      BY <2>2, <2>3, <3>1, <3>3 DEF NewestLast
    <3> QED BY <2>2, <3>2, <3>3
  <2> QED BY <2>3 DEF NewestLast
<1> QED BY <1>1, <1>2, <1>3, StepRows DEF HubStep
==========================================================================
