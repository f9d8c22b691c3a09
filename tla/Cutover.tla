------------------------------ MODULE Cutover ------------------------------
(***************************************************************************)
(* Moving a model to another store while the application runs:             *)
(* copyBackend() backfills the new store page by page in uuid order, while *)
(* the application's writes go through multiWriteBackend(), to the old     *)
(* store (primary) first and then to the new one. Both write through the   *)
(* new store's one queue.                                                  *)
(*                                                                         *)
(* A record is its uuid and the number of the write that made it what it   *)
(* is; writes of the application are numbered from 2 on. A queue entry has *)
(* the number of its write, a removal too; a row that is copied has the    *)
(* number of the write that made it.                                       *)
(***************************************************************************)
EXTENDS Naturals, Sequences, FiniteSets, SequencesExt

CONSTANTS
  Keys,        \* uuids, as numbers in their order
  BatchSize,   \* copy: rows per page
  MaxWrites,   \* bound: writes of the application
  MaxCopies,   \* bound: runs of copyBackend()
  Strict       \* subset of BOOLEAN: the policies for a secondary's errors

ASSUME CutoverAssumption == Keys \subseteq Nat \ {0} /\ BatchSize \in Nat \ {0}

VARIABLES old, new,  \* the stores: key -> version, or Absent
          queue,     \* the write queue of each store
          app,       \* the application's persist() or patch()
          copy,      \* the copyBackend() run
          hist,      \* bookkeeping: what has happened
          contended  \* bookkeeping: the records whose writes met (Contended, Torn)

vars == <<old, new, queue, app, copy, hist, contended>>

Absent == 0
Idle == [pc |-> "idle", batch |-> <<>>]

Init ==
  /\ old \in [Keys -> {Absent, 1}]
  /\ new = [k \in Keys |-> Absent]
  /\ queue = [old |-> <<>>, new |-> <<>>]
  /\ app = Idle
  /\ copy = [pc |-> "idle", after |-> 0, rows |-> <<>>, batch |-> <<>>, runs |-> 0]
  /\ \E strict \in Strict :
       hist = [strict |-> strict, n |-> 1, failed |-> FALSE, quiet |-> FALSE]
  /\ contended = {}

(* persist() of a backend: the saves in order, then the removals. *)
Of(batch, k) == SelectSeq(batch, LAMBDA e : e.key = k)
After(store, batch) ==
  [k \in Keys |-> IF Of(batch, k) = <<>> THEN store[k]
                  ELSE IF \E e \in Range(Of(batch, k)) : e.val = Absent THEN Absent
                  ELSE Last(Of(batch, k)).val]

(* The places that hold writes: the copy, from reading its page to its commit;
   the application's persist() or patch(); the queues. An application write
   that waits in both queues, or in one while the other's batch is persisted,
   is one write. A record is contended when two places hold different writes
   of it. *)
WritesOf(batch, k) == {e.write : e \in Range(Of(batch, k))}
Places == {copy.rows \o copy.batch, app.batch, queue.old, queue.new}
Contended ==
  {k \in Keys : Cardinality({WritesOf(place, k) : place \in Places} \ {{}}) > 1}
(* The records with a write in one queue that the other store's persist has
   already taken: where discardPending() drops half of a write. *)
Torn == {k \in Keys : Of(queue.old, k) # Of(queue.new, k)}

---------------------------------------------------------------------------
(* save() and remove(): every target queues its own copy. *)

FannedOut(e) == [old |-> Append(queue.old, e), new |-> Append(queue.new, e)]

Write(k, removed) ==
  /\ hist.n <= MaxWrites
  /\ queue' = FannedOut([key |-> k, val |-> IF removed THEN Absent ELSE hist.n + 1,
                         write |-> hist.n + 1])
  /\ hist' = [hist EXCEPT !.n = @ + 1, !.quiet = FALSE]
  /\ UNCHANGED <<old, new, app, copy>>

(* The primary's persist() takes its queue. *)
Persist ==
  /\ app.pc = "idle" /\ queue.old # <<>>
  /\ app' = [pc |-> "primary", batch |-> queue.old]
  /\ queue' = [queue EXCEPT !.old = <<>>]
  /\ hist' = [hist EXCEPT !.quiet = FALSE]
  /\ UNCHANGED <<old, new, copy>>

(* It commits, and the secondary's persist() takes what is queued there by now. *)
PrimaryCommits ==
  /\ app.pc = "primary"
  /\ old' = After(old, app.batch)
  /\ app' = [pc |-> "secondary", batch |-> queue.new]
  /\ queue' = [queue EXCEPT !.new = <<>>]
  /\ hist' = [hist EXCEPT !.quiet = FALSE]
  /\ UNCHANGED <<new, copy>>

(* It rejects: the secondaries are not persisted, and keep their queues. *)
PrimaryRejects ==
  /\ app.pc = "primary"
  /\ app' = Idle
  /\ hist' = [hist EXCEPT !.failed = TRUE, !.quiet = FALSE]
  /\ UNCHANGED <<old, new, queue, copy>>

(* Mutant: the secondary's persist() is left out. *)
NotFanned(batch) == new

FannedPersist(batch) == After(new, batch)

SecondaryCommits ==
  /\ app.pc = "secondary"
  /\ new' = FannedPersist(app.batch)
  /\ app' = Idle
  /\ UNCHANGED <<old, queue, copy, hist>>

(* Strict or not, that store has lost the batch; strict tells the caller. *)
SecondaryRejects ==
  /\ app.pc \in {"secondary", "patched"}
  /\ app' = IF hist.strict THEN [Idle EXCEPT !.pc = "thrown"] ELSE Idle
  /\ hist' = [hist EXCEPT !.failed = TRUE]
  /\ UNCHANGED <<old, new, queue, copy>>

Caught ==
  /\ app.pc = "thrown" /\ app' = Idle
  /\ UNCHANGED <<old, new, queue, copy, hist>>

(* patch(), where every store has one: in place, and nothing without a row. *)
Patched(store, e) == IF store[e.key] = Absent THEN store ELSE [store EXCEPT ![e.key] = e.val]

Patch(k) ==
  /\ app.pc = "idle" /\ hist.n <= MaxWrites
  /\ LET e == [key |-> k, val |-> hist.n + 1, write |-> hist.n + 1] IN
     /\ old' = Patched(old, e)
     /\ app' = [pc |-> "patched", batch |-> <<e>>]
  /\ hist' = [hist EXCEPT !.n = @ + 1, !.quiet = FALSE]
  /\ UNCHANGED <<new, queue, copy>>

PatchSecondary ==
  /\ app.pc = "patched"
  /\ new' = Patched(new, app.batch[1])
  /\ app' = Idle
  /\ UNCHANGED <<old, queue, copy, hist>>

(* discardPending() of a transaction that threw reaches every store. *)
DiscardPending ==
  /\ queue.old # <<>>
  /\ queue' = [old |-> <<>>, new |-> <<>>]
  /\ UNCHANGED <<old, new, app, copy, hist>>

---------------------------------------------------------------------------
(* copyBackend(). *)
CopyStart ==
  /\ copy.pc \in {"idle", "done", "failed"} /\ copy.runs < MaxCopies
  /\ copy' = [copy EXCEPT !.pc = "query", !.after = 0, !.runs = @ + 1]
  /\ hist' = [hist EXCEPT !.quiet = app.pc = "idle" /\ queue.old = <<>> /\ queue.new = <<>>]
  /\ UNCHANGED <<old, new, queue, app>>

Present == {k \in Keys : old[k] # Absent}

Beyond(after) == {k \in Present : k > after}

Page == LET keys == SetToSortSeq(Beyond(copy.after), <)
        IN  [i \in 1..(IF Len(keys) < BatchSize THEN Len(keys) ELSE BatchSize) |->
               [key |-> keys[i], val |-> old[keys[i]], write |-> old[keys[i]]]]

CopyReads ==
  /\ copy.pc = "query"
  /\ copy' = [copy EXCEPT !.pc = IF Page = <<>> THEN "done" ELSE "read", !.rows = Page]
  /\ UNCHANGED <<old, new, queue, app, hist>>

(* The rows are queued behind whatever is queued there, and persisted. *)
CopyWrites ==
  /\ copy.pc = "read"
  /\ copy' = [copy EXCEPT !.pc = "writing", !.batch = queue.new \o copy.rows, !.after = Last(copy.rows).key]
  /\ queue' = [queue EXCEPT !.new = <<>>]
  /\ UNCHANGED <<old, new, app, hist>>

(* Mutant: a page as long as the limit is taken for the last. *)
DrainedWhenFull(rows) == Len(rows) <= BatchSize

Drained(rows) == Len(rows) < BatchSize

CopyCommits ==
  /\ copy.pc = "writing"
  /\ new' = After(new, copy.batch)
  /\ copy' = [copy EXCEPT !.pc = IF Drained(copy.rows) THEN "done" ELSE "query", !.rows = <<>>, !.batch = <<>>]
  /\ UNCHANGED <<old, queue, app, hist>>

CopyFails ==
  /\ copy.pc \in {"query", "writing"}
  /\ copy' = [copy EXCEPT !.pc = "failed", !.rows = <<>>, !.batch = <<>>]
  /\ hist' = [hist EXCEPT !.failed = TRUE]
  /\ UNCHANGED <<old, new, queue, app>>

Step ==
  \/ \E k \in Keys : Patch(k) \/ \E removed \in BOOLEAN : Write(k, removed)
  \/ Persist \/ PrimaryCommits \/ PrimaryRejects \/ SecondaryCommits \/ SecondaryRejects
  \/ Caught \/ PatchSecondary
  \/ CopyStart \/ CopyReads \/ CopyWrites \/ CopyCommits \/ CopyFails

Next == \/ Step /\ contended' = contended \cup Contended'
        \/ DiscardPending /\ contended' = contended \cup Torn

Spec == Init /\ [][Next]_vars

---------------------------------------------------------------------------
AtRest == copy.pc = "done" /\ app.pc = "idle" /\ queue.old = <<>> /\ queue.new = <<>>

(* "live traffic keeps the new store in lock-step with the old one while
   copyBackend backfills the history" (MultiWriteBackend.ts:5): after the copy
   the stores agree on every record, except one of which different writes
   were under way at the same time, or of which half a write was discarded, if
   no write failed. *)
LockStep == AtRest /\ ~hist.failed => \A k \in Keys \ contended : new[k] = old[k]

(* The same for every record. *)
LockStepWhileCopying == AtRest /\ ~hist.failed => new = old

(* "a secondary can lag; re-run copyBackend to reconcile"
   (MultiWriteBackend.ts:15): after a copy with no write in the meantime, every
   record of the old store is in the new one, whatever failed before. *)
CopyReconciles ==
  AtRest /\ hist.quiet => \A k \in Keys : old[k] # Absent => new[k] = old[k]

(* The same for records that the old store no longer has. *)
CopyReconcilesRemovals == AtRest /\ hist.quiet => new = old
===========================================================================
