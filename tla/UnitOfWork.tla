---------------------------- MODULE UnitOfWork ----------------------------
(***************************************************************************)
(* The unit of work: Repository.save() computes which columns are dirty    *)
(* against a write baseline and queues the row on the backend; persist()   *)
(* writes the queue in a database transaction and then emits the change    *)
(* events that move the baseline; RepositoryManager.transaction() runs a   *)
(* callback fn whose writes commit or are discarded together.              *)
(* Three engines: SqlBackend on Postgres and on MySQL, behind the retrying *)
(* executor of resilience.ts, and SQLiteBackend, one shared connection     *)
(* whose transaction the manager only batches.                             *)
(*                                                                         *)
(* One record, loaded or new. Write number n gives one column the value n  *)
(* (with Reverts, also a value it had before). The numbers are the model's *)
(* bookkeeping: hist says what became of each write.                       *)
(***************************************************************************)
EXTENDS Naturals, Sequences, FiniteSets, SequencesExt

CONSTANTS
  Columns, Calls,   \* declared columns; calls of persist(), transaction() or patch()
  Engines, None,
  MaxWrites,        \* bound: writes of the run
  Retries,          \* resilience.ts: attempts after the first
  MaxSteps,         \* bound: writes of one fn through the tx scope
  Reverts           \* whether a column may get a value back

ASSUME NoneIsNothingElse == None # "transaction" /\ None \notin Calls /\ None \notin [Columns -> Nat]

VARIABLES
  engine,   \* "postgres", "mysql" or "sqlite"
  db,       \* the row, or None: what the connection the queries use reads
  repo,     \* the outer Repository: the instance and its write baseline
  queue,    \* saveQueue of the outer backend
  mode,     \* txState.mode: "none", "interactive" or "batching"
  call,     \* call[c]: one call in flight
  conn,     \* SQLite: whose BEGIN is open, and what ROLLBACK restores
  hist      \* what became of the writes

vars == <<engine, db, repo, queue, mode, call, conn, hist>>

Row == [Columns -> 0..MaxWrites]
Zero == [c \in Columns |-> 0]
Free == [owner |-> None, db |-> None, landed |-> {}]
NewCall == [pc |-> "idle", kind |-> None, attempt |-> 0, prev |-> "none", batch |-> <<>>,
            written |-> <<>>, squeue |-> <<>>, scope |-> [inst |-> Zero, base |-> None]]

Ended(c, how) == [call EXCEPT ![c] = [NewCall EXCEPT !.pc = how]]

Ids(saves) == {saves[i].id : i \in DOMAIN saves}
Running == {c \in Calls : call[c].pc \notin {"idle", "resolved", "rejected"}}
Sql == engine # "sqlite"

Init ==
  /\ engine \in Engines
  /\ db \in {None, Zero}
  /\ repo = [inst |-> Zero, base |-> db]
  /\ queue = <<>> /\ mode = "none" /\ conn = Free
  /\ call = [c \in Calls |-> NewCall]
  /\ hist = [n |-> 0, last |-> Zero, landed |-> {}, dropped |-> {}, forgone |-> {}, exempt |-> {}]

---------------------------------------------------------------------------
(* Repository.save(). A hint of {} is none: the whole row is written.      *)

(* Mutant: compared with the instance as it was last saved. *)
DirtySinceSave(r, row) ==
  IF r.base = None THEN {} ELSE {c \in Columns : row[c] # r.inst[c]}

ComputeDirty(r, row) ==
  IF r.base = None THEN {} ELSE {c \in Columns : row[c] # r.base[c]}

(* The next write: the row it leaves in the instance, and its queue entry. *)
Edited(r, col, value) == [r.inst EXCEPT ![col] = value]
Entry(r, row) == [id |-> hist.n + 1, row |-> row, dirty |-> ComputeDirty(r, row)]
Values == {hist.n + 1} \cup IF Reverts THEN 0..hist.n ELSE {}

Save ==
  /\ hist.n < MaxWrites
  /\ \E col \in Columns, value \in Values :
       LET row == Edited(repo, col, value) IN
       /\ queue' = Append(queue, Entry(repo, row))
       /\ repo' = [repo EXCEPT !.inst = row]
       /\ hist' = [hist EXCEPT !.n = @ + 1, !.last = row]
  /\ UNCHANGED <<engine, db, mode, call, conn>>

(* The change feed: the last row written becomes the baseline. *)
Heard(r, saves) == IF saves = <<>> THEN r ELSE [r EXCEPT !.base = Last(saves).row]

---------------------------------------------------------------------------
(* bucketByDirtyColumns(): one statement per set of dirty columns, in the
   order the sets first appear. *)
BucketOf(saves, i) == CHOOSE j \in 1..i : /\ saves[j].dirty = saves[i].dirty
                                          /\ \A k \in 1..(j - 1) : saves[k].dirty # saves[i].dirty
Earlier(saves, i, j) ==
  \/ BucketOf(saves, i) < BucketOf(saves, j)
  \/ BucketOf(saves, i) = BucketOf(saves, j) /\ i < j
Place(saves, i) == Cardinality({j \in DOMAIN saves : Earlier(saves, j, i)}) + 1
Bucketed(saves) ==
  IF ~Sql THEN saves
  ELSE [k \in DOMAIN saves |-> saves[CHOOSE i \in DOMAIN saves : Place(saves, i) = k]]

(* Postgres refuses a statement that upserts the same key twice. *)
Refused(saves) == engine = "postgres" /\ \E i \in DOMAIN saves : BucketOf(saves, i) # i

(* An INSERT writes the whole row, an update the dirty columns. *)
Sets(e) == IF e.dirty = {} \/ ~Sql THEN Columns ELSE e.dirty

After(row, saves) ==
  LET Of(c) == {i \in DOMAIN saves : c \in Sets(saves[i]) \/ (row = None /\ i = 1)}
  IN  IF saves = <<>> THEN row
      ELSE [c \in Columns |-> IF Of(c) = {} THEN row[c] ELSE saves[Max(Of(c))].row[c]]

(* A database transaction commits. A write that lands after a later one sets
   columns to what they were: because calls overlap, or because the bucket of
   the older write comes after that of the newer. *)
Overtaken(saves) ==
  \E i, j \in DOMAIN saves :
    /\ i < j /\ saves[j].id < saves[i].id
    /\ \E c \in Sets(saves[j]) : saves[j].row[c] # saves[i].row[c]

Commit(saves) ==
  /\ db' = After(db, saves)
  /\ hist' = [hist EXCEPT !.landed = @ \cup Ids(saves),
       !.exempt = @ \cup (IF \E i \in Ids(saves) : \E j \in hist.landed : i < j THEN {"crossed"} ELSE {})
                    \cup (IF Overtaken(saves) THEN {"bucketed"} ELSE {})]

---------------------------------------------------------------------------
(* persist(): the queue is taken before anything is awaited. *)
Taken(c, kind, saves) ==
  /\ call' = IF saves = <<>> THEN Ended(c, "resolved")
             ELSE [call EXCEPT ![c].kind = kind, ![c].batch = saves, ![c].pc = IF Sql THEN "writing" ELSE "begin"]
  /\ queue' = <<>>

StartPersist(c) ==
  /\ call[c].pc = "idle"
  /\ Taken(c, "persist", queue)
  /\ UNCHANGED <<engine, db, repo, mode, conn, hist>>

(* SqlBackend: the batch is one transaction of the executor. *)
CommitBatch(c) ==
  /\ call[c].pc = "writing" /\ ~Refused(call[c].batch)
  /\ Commit(Bucketed(call[c].batch))
  /\ call' = [call EXCEPT ![c].pc = "emitting"]
  /\ UNCHANGED <<engine, repo, queue, mode, conn>>

Emit(c) ==
  /\ call[c].pc = "emitting"
  /\ repo' = Heard(repo, call[c].batch)
  /\ call' = Ended(c, "resolved")
  /\ UNCHANGED <<engine, db, queue, mode, conn, hist>>

(* SQLiteBackend.runAtomic(): BEGIN is outside the try. While another call
   holds the connection it is an error, and the batch is gone. *)
Begin(c) ==
  /\ call[c].pc = "begin"
  /\ IF conn.owner = None
       THEN /\ conn' = [owner |-> c, db |-> db, landed |-> hist.landed]
            /\ call' = [call EXCEPT ![c].pc = "open"]
            /\ UNCHANGED hist
       ELSE /\ call' = Ended(c, "rejected")
            /\ hist' = [hist EXCEPT !.dropped = @ \cup Ids(call[c].batch)]
            /\ UNCHANGED conn
  /\ UNCHANGED <<engine, db, repo, queue, mode>>

WriteAndCommit(c) ==
  /\ call[c].pc = "open"
  /\ Commit(call[c].batch)
  /\ conn' = Free
  /\ call' = [call EXCEPT ![c].pc = "emitting"]
  /\ UNCHANGED <<engine, repo, queue, mode>>

(* A statement fails. ROLLBACK also undoes what others ran on the connection. *)
Rollback(c) ==
  /\ call[c].pc = "open"
  /\ db' = conn.db /\ conn' = Free
  /\ call' = Ended(c, "rejected")
  /\ hist' = [hist EXCEPT !.landed = conn.landed, !.forgone = @ \cup (hist.landed \ conn.landed),
                          !.dropped = @ \cup Ids(call[c].batch)]
  /\ UNCHANGED <<engine, repo, queue, mode>>

---------------------------------------------------------------------------
(* patch() on the outer repository, refused while a transaction's fn runs. *)

AssertImmediateWriteAllowed == mode = "none"

(* The refreshed instance and its baseline are loaded back. *)
Refreshed(row) == [inst |-> row, base |-> row]

PatchNative(c) ==
  /\ call[c].pc = "idle" /\ ~Sql /\ hist.n < MaxWrites /\ AssertImmediateWriteAllowed
  /\ db # None
  /\ \E col \in Columns : LET row == [db EXCEPT ![col] = hist.n + 1] IN
       /\ db' = row /\ repo' = Refreshed(row)
  /\ hist' = [hist EXCEPT !.n = @ + 1, !.landed = @ \cup {hist.n + 1}, !.exempt = @ \cup {"patch"}]
  /\ call' = Ended(c, "resolved")
  /\ UNCHANGED <<engine, queue, mode, conn>>

(* The SQL backends have no patch: read the row, save it, persist. *)
PatchRead(c) ==
  /\ call[c].pc = "idle" /\ Sql /\ hist.n < MaxWrites /\ AssertImmediateWriteAllowed
  /\ db # None
  /\ \E col \in Columns :
       call' = [call EXCEPT ![c].pc = "patching", ![c].kind = "patch", ![c].batch =
         <<[id |-> hist.n + 1, dirty |-> {}, row |-> [db EXCEPT ![col] = hist.n + 1]]>>]
  /\ hist' = [hist EXCEPT !.n = @ + 1, !.exempt = @ \cup {"patch"}]
  /\ UNCHANGED <<engine, db, repo, queue, mode, conn>>

PatchWrite(c) ==
  /\ call[c].pc = "patching"
  /\ Taken(c, "patch", queue \o call[c].batch)
  /\ UNCHANGED <<engine, db, repo, mode, conn, hist>>

---------------------------------------------------------------------------
(* RepositoryManager.transaction(). The mode is read before the database
   transaction is open and restored when fn returns. *)
StartTransaction(c) ==
  /\ call[c].pc = "idle"
  /\ call' = [call EXCEPT ![c].kind = "transaction", ![c].prev = mode,
                          ![c].pc = IF Sql THEN "connecting" ELSE "fn"]
  /\ mode' = IF Sql THEN mode ELSE "batching"
  /\ hist' = [hist EXCEPT !.exempt = @ \cup
       IF \E d \in Running : call[d].kind = "transaction" THEN {"overlap"} ELSE {}]
  /\ UNCHANGED <<engine, db, repo, queue, conn>>

(* The tx scope has repositories of its own, with nothing loaded. *)
Connected(c) ==
  /\ call[c].pc = "connecting"
  /\ call' = [call EXCEPT ![c].pc = "fn", ![c].scope = [inst |-> IF db = None THEN Zero ELSE db, base |-> db]]
  /\ mode' = "interactive"
  /\ UNCHANGED <<engine, db, repo, queue, conn, hist>>

(* fn saves through the scope: on the tx backend's queue, or, when the scope
   only batches, on the one queue there is. *)
ScopedSave(c) ==
  /\ call[c].pc = "fn" /\ hist.n < MaxWrites /\ Sql
  /\ Len(call[c].squeue) + Len(call[c].written) < MaxSteps
  /\ \E col \in Columns, value \in Values :
       LET row == Edited(call[c].scope, col, value) IN
       /\ call' = [call EXCEPT ![c].scope.inst = row,
                               ![c].squeue = Append(@, Entry(call[c].scope, row))]
       /\ hist' = [hist EXCEPT !.n = @ + 1, !.exempt = @ \cup {"mixed"}]
  /\ UNCHANGED <<engine, db, repo, queue, mode, conn>>

(* fn persists through the scope: written on the tx connection, and the
   outer repositories hear of it before it is committed. *)
ScopedPersist(c) ==
  /\ call[c].pc = "fn" /\ call[c].squeue # <<>> /\ ~Refused(call[c].squeue)
  /\ repo' = Heard(repo, call[c].squeue)
  /\ call' = [call EXCEPT ![c].written = @ \o Bucketed(call[c].squeue), ![c].squeue = <<>>,
                          ![c].scope = Heard(@, call[c].squeue)]
  /\ UNCHANGED <<engine, db, queue, mode, conn, hist>>

(* Mutant: the mode is restored only when fn returns. *)
LeftOnThrow(c, threw) == IF threw THEN mode ELSE call[c].prev

Left(c, threw) == call[c].prev

(* Mutant: the outer queue is emptied, not folded. *)
NotFolded(c) == call[c].squeue

Folded(c) == queue \o call[c].squeue

(* fn returned: the outer queue is folded in, or persisted. *)
FnReturns(c) ==
  /\ call[c].pc = "fn"
  /\ mode' = Left(c, FALSE)
  /\ IF Sql THEN /\ call' = [call EXCEPT ![c].batch = Folded(c), ![c].squeue = <<>>, ![c].pc = "flushing"]
                 /\ queue' = <<>>
            ELSE Taken(c, "transaction", queue)
  /\ UNCHANGED <<engine, db, repo, conn, hist>>

(* scoped.persist(): written on the tx connection, events emitted. *)
Flush(c) ==
  /\ call[c].pc = "flushing" /\ ~Refused(call[c].batch)
  /\ repo' = Heard(repo, call[c].batch)
  /\ call' = [call EXCEPT ![c].written = @ \o Bucketed(call[c].batch), ![c].pc = "committing"]
  /\ UNCHANGED <<engine, db, queue, mode, conn, hist>>

CommitTransaction(c) ==
  /\ call[c].pc = "committing"
  /\ Commit(call[c].written)
  /\ call' = Ended(c, "resolved")
  /\ UNCHANGED <<engine, repo, queue, mode, conn>>

---------------------------------------------------------------------------
(* Failures. What a SQL call has not committed is rolled back. *)

Uncommitted(c) == Ids(call[c].batch) \cup Ids(call[c].written) \cup Ids(call[c].squeue)
Events(c) == IF call[c].kind = "transaction" /\ call[c].written # <<>> THEN {"early"} ELSE {}

(* Mutant: the queue of the outer backend is kept. *)
KeptPending(c) == queue

Discarded(c) == <<>>

(* discardPending(): whatever the outer queue holds by now. *)
Discard(c) ==
  /\ queue' = Discarded(c)
  /\ hist' = [hist EXCEPT !.dropped = @ \cup Ids(queue) \cup Uncommitted(c), !.exempt = @ \cup Events(c)]
  /\ call' = Ended(c, "rejected")

FnThrows(c) ==
  /\ call[c].pc = "fn"
  /\ mode' = Left(c, TRUE)
  /\ IF Sql THEN /\ call' = [call EXCEPT ![c].pc = "undoing"]
                 /\ UNCHANGED <<queue, hist>>
            ELSE Discard(c)
  /\ UNCHANGED <<engine, db, repo, conn>>

(* ROLLBACK was awaited: the catch of SqlBackend.transaction(). *)
Undone(c) ==
  /\ call[c].pc = "undoing"
  /\ Discard(c)
  /\ UNCHANGED <<engine, db, repo, mode, conn>>

Failing(c) == Sql /\ call[c].pc \in {"connecting", "writing", "flushing", "committing", "unanswered"}

(* Not transient, or the attempts are used up. *)
Reject(c) ==
  /\ Failing(c)
  /\ IF call[c].kind = "transaction"
       THEN call' = [call EXCEPT ![c].pc = "undoing"] /\ UNCHANGED hist
       ELSE /\ call' = Ended(c, "rejected")
            /\ hist' = [hist EXCEPT !.dropped = @ \cup Ids(call[c].batch)]
  /\ UNCHANGED <<engine, db, repo, queue, mode, conn>>

(* withRetry(): a batch is written again; fn is run again, on a new scope,
   and what the failed attempt had folded in is forgone. *)
Retry(c) ==
  /\ Failing(c) /\ call[c].attempt < Retries
  /\ ~(call[c].pc \in {"writing", "flushing"} /\ Refused(call[c].batch))
  /\ IF call[c].kind = "transaction"
       THEN /\ call' = [call EXCEPT ![c] = [NewCall EXCEPT !.kind = "transaction", !.pc = "connecting",
                                              !.prev = call[c].prev, !.attempt = call[c].attempt + 1]]
            /\ hist' = [hist EXCEPT !.forgone = @ \cup Uncommitted(c), !.exempt = @ \cup Events(c)]
       ELSE call' = [call EXCEPT ![c].attempt = call[c].attempt + 1, ![c].pc = "writing"] /\ UNCHANGED hist
  /\ UNCHANGED <<engine, db, repo, queue, mode, conn>>

(* The commit is done and its answer lost: to the caller it failed. *)
LoseAnswer(c) ==
  /\ \/ call[c].pc = "committing" /\ db' = After(db, call[c].written)
     \/ call[c].pc = "writing" /\ ~Refused(call[c].batch) /\ db' = After(db, Bucketed(call[c].batch))
  /\ call' = [call EXCEPT ![c].pc = "unanswered"]
  /\ hist' = [hist EXCEPT !.landed = @ \cup Ids(call[c].written) \cup Ids(call[c].batch),
                          !.exempt = @ \cup {"unanswered"}]
  /\ UNCHANGED <<engine, repo, queue, mode, conn>>

---------------------------------------------------------------------------
Ends(c) ==
  \/ CommitBatch(c) \/ Emit(c) \/ Begin(c) \/ WriteAndCommit(c) \/ PatchWrite(c) \/ Connected(c)
  \/ Flush(c) \/ CommitTransaction(c) \/ Undone(c) \/ Rollback(c) \/ Reject(c) \/ Retry(c)
  \/ LoseAnswer(c) \/ FnReturns(c) \/ FnThrows(c)

Next ==
  \/ Save
  \/ \E c \in Calls :
       \/ StartPersist(c) \/ StartTransaction(c) \/ PatchNative(c) \/ PatchRead(c)
       \/ ScopedSave(c) \/ ScopedPersist(c) \/ Ends(c)

Spec == Init /\ [][Next]_vars

---------------------------------------------------------------------------
(* "Refuse an immediately-persisting write that would silently escape a
   transaction" (Repository.ts:334): the guard is up exactly while the fn of
   a transaction runs, unless two transactions of the manager overlap. *)
GuardFollowsFn == mode # "none" <=> \E c \in Calls : call[c].pc = "fn"
GuardStands == "overlap" \notin hist.exempt => GuardFollowsFn

(* "queued writes are discarded" (RepositoryManager.ts:170): a write of a
   failed call, or one discarded with it, is not stored then or later, unless
   the commit was done and only its answer was lost. *)
DiscardedStaysOut == "unanswered" \notin hist.exempt => hist.dropped \cap hist.landed = {}

(* Every write is queued, carried by a call in flight, stored, or was failed
   with a call: no fold, flush or retry loses one on the way, but for what a
   retried transaction forgoes. *)
NoWriteVanishes ==
  1..hist.n \subseteq Ids(queue) \cup hist.landed \cup hist.dropped \cup hist.forgone
                     \cup UNION {Uncommitted(c) : c \in Running}

(* "`record` is always the complete, authoritative row, so ignoring `dirty` is
   always correct" (Backend.ts:37), and so must minding it be: at rest, if the
   last save was written then the row is what it saved, though only the dirty
   columns are updated and calls before it may have failed. *)
Stored == Running = {} /\ queue = <<>> /\ hist.n \in hist.landed => db = hist.last
LastSaveStored == hist.exempt = {} => Stored

(* The same of a batch whose statements leave the order of the saves. *)
LastSaveStoredInBuckets == hist.exempt \subseteq {"bucketed"} => Stored

(* The same where a transaction failed after it had emitted its events: the
   baseline is then a row that was never confirmed. *)
LastSaveStoredAfterRollback == hist.exempt \subseteq {"early"} => Stored
===========================================================================
