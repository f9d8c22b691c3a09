----------------------------- MODULE SyncHub -----------------------------
(***************************************************************************)
(* The server end of offline sync: an append-only changelog that accepts a *)
(* change only if it is newer than the last one of its record.             *)
(*   Durable = FALSE  InMemorySyncTarget: latest() sees every append.      *)
(*   Durable = TRUE   BackendSyncTarget: append() only queues a row, one   *)
(*                    persist() commits the batch, and latest() queries    *)
(*                    committed rows, so it does not see its own batch.    *)
(* pushChain serves one push at a time: `job` is the batch being served.   *)
(* In memory a push has no await at all; serving it in steps adds nothing, *)
(* because nobody reads job and a pull between the steps sees the log it   *)
(* would have seen before them.                                            *)
(***************************************************************************)
EXTENDS HLC, Sequences, SequencesExt

CONSTANTS Key,       \* records, by (model, uuid)
          Field,     \* data fields of a record, versioned in field-level mode
          Durable,   \* which of the two targets
          Client,    \* whoever can be waiting for a push to return
          Nobody,    \* the waiter of a push whose caller has given up
          Absent,    \* no record, no change, no version
          MaxFaults  \* bound: failed persists and restarts of the hub

VARIABLES log,     \* committed rows: the seq column and the change
          seq,     \* this.seq: last sequence handed out
          ready,   \* ensureReady() has seeded seq
          inbox,   \* push requests that have arrived and wait for their turn
          job,     \* the push being served, or Absent
          faults   \* failures so far (bounds the model)

hubVars == <<log, seq, ready, inbox, job, faults>>

(* A SyncChange carries a whole stored record: ver is _version, del is
   _deleted (kind "removed"), fv is _fieldVersions (Absent: a whole-record
   change).  The value of a field is abstracted to the save that gave it to
   the field: its stamp, and n, which tells any two saves apart. *)
FieldStamps == [Field -> Stamp \cup {Absent}]
Value == [at : Stamp, n : Nat]
Record == [ver : Stamp, del : BOOLEAN, val : [Field -> Value \cup {Absent}],
           fv : FieldStamps \cup {Absent}]
Change == [key : Key, rec : Record]
Row == [seq : Nat, ch : Change]
Request == [to : Client \cup {Nobody}, batch : Seq(Change)]
Job == [to : Client \cup {Nobody}, rest : Seq(Change),
        rows : Seq(Row), conflicts : Seq(Change)]

ASSUME HubAssumption ==
  /\ Durable \in BOOLEAN
  /\ Nobody \notin Client
  /\ Absent \notin Stamp /\ Absent \notin FieldStamps /\ Absent \notin Record /\ Absent \notin Change /\ Absent \notin Job
  /\ MaxFaults \in Nat

(* A batch holds the changes of a record oldest first. *)
OldestFirst(batch) ==
  \A i, j \in DOMAIN batch :
    i < j /\ batch[i].key = batch[j].key => Before(batch[i].rec.ver, batch[j].rec.ver)

HubInit ==
  /\ log = <<>> /\ seq = 0 /\ ready = ~Durable
  /\ inbox = {} /\ job = Absent /\ faults = 0

ChangesOf(rows, k) == {rows[i].ch : i \in {j \in DOMAIN rows : rows[j].ch.key = k}}

(* latest(): the change of a record with the highest version, if any. *)
Newest(changes) == {c \in changes : \A d \in changes : ~Before(c.rec.ver, d.rec.ver)}
(* Mutant: sorted the wrong way round, the lowest version. *)
Oldest(rows, k) ==
  LET oldest == {c \in ChangesOf(rows, k) :
                   \A d \in ChangesOf(rows, k) : ~Before(d.rec.ver, c.rec.ver)}
  IN  IF oldest = {} THEN Absent ELSE CHOOSE c \in oldest : TRUE
Latest(rows, k) ==
  LET newest == Newest(ChangesOf(rows, k))
  IN  IF newest = {} THEN Absent ELSE CHOOSE c \in newest : TRUE

Visible == IF Durable THEN log ELSE log \o job.rows

LastSeq == IF log = <<>> THEN 0 ELSE Last(log).seq

(* Mutant: the counter starts over after a restart. *)
NeverSeeded == seq' = seq /\ ready' = TRUE

(* ensureReady(): the first pull or push seeds seq from the stored maximum. *)
EnsureReady == /\ seq' = IF ready THEN seq ELSE LastSeq
               /\ ready' = TRUE

(* pull(cursor): the changes past the cursor, which start at row i, and the
   cursor to ask with next.  The in-memory log numbers its rows from 1, so
   its slice(from) is the same filter. *)
(* Mutants: the first new change is skipped; the cursor is the counter. *)
StartsPast(cursor, i) ==
  /\ \A j \in 1..(i - 1) : log[j].seq <= cursor + 1
  /\ \A j \in i..Len(log) : log[j].seq > cursor + 1
CursorFromCounter(cursor, i) == seq

StartsAfter(cursor, i) ==
  /\ \A j \in 1..(i - 1) : log[j].seq <= cursor
  /\ \A j \in i..Len(log) : log[j].seq > cursor
ChangesFrom(i) == [j \in 1..(Len(log) + 1 - i) |-> log[i + j - 1].ch]
NextCursor(cursor, i) == IF i > Len(log) THEN cursor ELSE LastSeq

HubPull(cursor, i) ==
  /\ StartsAfter(cursor, i)
  /\ EnsureReady
  /\ UNCHANGED <<log, inbox, job, faults>>

(* The turn of a push comes in pushChain.  Requests of different callers
   arrive in any order. *)
HubTake ==
  /\ job = Absent
  /\ \E req \in inbox :
       /\ inbox' = inbox \ {req}
       /\ job' = [to |-> req.to, rest |-> req.batch, rows |-> <<>>, conflicts |-> <<>>]
  /\ EnsureReady
  /\ UNCHANGED <<log, faults>>

(* push(): a field-level change always, a whole-record change if it is newer
   than what latest() finds. *)
(* Mutants: a version already there is accepted again; anything is. *)
AcceptedAgain(change) ==
  LET current == Latest(Visible, change.key)
  IN  current # Absent => ~Before(change.rec.ver, current.rec.ver)
AcceptedAlways(change) == TRUE

Accepted(change) ==
  LET current == Latest(Visible, change.key)
  IN  change.rec.fv = Absent /\ current # Absent => Before(current.rec.ver, change.rec.ver)

HubAppend ==
  /\ job # Absent /\ job.rest # <<>>
  /\ Accepted(Head(job.rest))
  /\ seq' = seq + 1
  /\ job' = [job EXCEPT !.rest = Tail(@),
                        !.rows = Append(@, [seq |-> seq + 1, ch |-> Head(job.rest)])]
  /\ UNCHANGED <<log, ready, inbox, faults>>

HubReject ==
  /\ job # Absent /\ job.rest # <<>>
  /\ ~Accepted(Head(job.rest))
  /\ job' = [job EXCEPT !.rest = Tail(@),
                        !.conflicts = Append(@, Latest(Visible, Head(job.rest).key))]
  /\ UNCHANGED <<log, seq, ready, inbox, faults>>

(* The end of a push: the rows are committed together and the reply leaves. *)
HubCommit ==
  /\ job # Absent /\ job.rest = <<>>
  /\ log' = log \o job.rows
  /\ job' = Absent
  /\ UNCHANGED <<seq, ready, inbox, faults>>

(* persist() throws: the backend has dropped the queued rows, seq keeps its
   advance, and the next push of the chain is served all the same. *)
HubPersistFails ==
  /\ Durable /\ faults < MaxFaults
  /\ job # Absent /\ job.rest = <<>>
  /\ job' = Absent
  /\ faults' = faults + 1
  /\ UNCHANGED <<log, seq, ready, inbox>>

(* The server process restarts over the same store. *)
HubRestart ==
  /\ Durable /\ faults < MaxFaults
  /\ seq' = 0 /\ ready' = FALSE /\ inbox' = {} /\ job' = Absent
  /\ faults' = faults + 1
  /\ UNCHANGED log

---------------------------------------------------------------------------
HubTypeOK ==
  /\ log \in Seq(Row) /\ seq \in Nat /\ ready \in BOOLEAN
  /\ inbox \in SUBSET Request
  /\ job \in Job \cup {Absent}
  /\ faults \in 0..MaxFaults

(* "sequence numbers never collide" (docs/sync.md:72): the rows of the log
   are numbered in the order they are served, restarts and failed persists
   included, so a cursor stands for exactly the rows before it. *)
SeqIncreasing ==
  LET all == log \o (IF job = Absent THEN <<>> ELSE job.rows)
  IN  \A i, j \in DOMAIN all : i < j => all[i].seq < all[j].seq

(* Whole-record changes of one record are served oldest first, so a reader
   that keeps the last one it sees keeps the newest. *)
LogMonotone ==
  \A i, j \in DOMAIN log :
    i < j /\ log[i].ch.key = log[j].ch.key /\ log[j].ch.rec.fv = Absent
      => Before(log[i].ch.rec.ver, log[j].ch.rec.ver)

(* The register a reader of the log sees: the last change of each record. *)
RowsOf(rows, k) == {i \in DOMAIN rows : rows[i].ch.key = k}
ServedBy(rows) == [k \in Key |->
  IF RowsOf(rows, k) = {} THEN Absent
  ELSE rows[CHOOSE i \in RowsOf(rows, k) : \A j \in RowsOf(rows, k) : j <= i].ch.rec.ver]
Served == ServedBy(log)
==========================================================================
