--------------------------- MODULE SyncBackend ---------------------------
(***************************************************************************)
(* Offline-first replicas (src/src/sync/SyncBackend.ts) around one hub.    *)
(* Every await of pull() and push() is a point where the application, or a *)
(* second reconcile() of the same replica, may run.  A save, a remove and  *)
(* the body of persist up to its commit have no await and are one step.    *)
(*                                                                         *)
(* The local store is a backend whose persist commits all queued writes or *)
(* drops them all (every backend of the repository swaps its queue out     *)
(* first).  The clock, the cursor, the field version cache and the queue   *)
(* do not outlive the process.                                             *)
(***************************************************************************)
EXTENDS SyncHub, FiniteSets

CONSTANTS Replica,        \* node ids
          Owner,          \* Owner[t]: the replica whose reconcile() call t is
          FieldLevel,     \* options.fieldLevel, uniform across replicas
          Ops,            \* what applications do: "save", "remove", "recreate",
                        \* "patch", "sharedIds", "editNew" (edit a record again
                        \* before it is first persisted), "whileSyncing" (do any
                        \* of it while a pull is being applied)
          DurableLocal,   \* the local store outlives the process (InMemoryBackend does not)
          OrderedOutbox,  \* the local store returns the outbox oldest first
          MaxTime,        \* bound: MaxTime[r] is the largest Date.now() of r
          MaxEdits,       \* bound: saves and removes of a run
          MaxLost,        \* bound: requests or replies that never arrive
          MaxLocalFaults, \* bound: persists of a local store that throw
          MaxCrashes      \* bound: restarts of replicas

ASSUME SyncAssumption ==
  /\ Replica \subseteq Nat
  /\ Owner \in [Client -> Replica]
  /\ FieldLevel \in BOOLEAN /\ OrderedOutbox \in BOOLEAN
  /\ MaxEdits \in Nat /\ MaxTime \in [Replica -> Nat]

VARIABLES wall,       \* wall[r]: Date.now() on r
          clk,        \* hlc
          cursor,     \* cursor (0 stands for null)
          local,      \* local[r][k]: the stored record
          outbox,     \* stored records of the _outbox model
          saves,      \* queued writes of the local backend: the last save of each record
          enqueued,   \* queued outbox records
          versions,   \* fieldVersions cache
          patching,   \* the patch between its read and its write
          task,       \* task[t]: where the reconcile() call t stands
          committed,  \* every change the applications' flushed writes enqueued
          edits,      \* saves and removes so far (numbers the outbox entries)
          lost, localFaults, crashes    \* what went wrong so far (bounds)

replicaVars == <<wall, clk, cursor, local, outbox, saves, enqueued, versions, patching>>
boundVars == <<edits, lost, localFaults, crashes>>
vars == <<hubVars, replicaVars, task, committed, boundVars>>

(* n is the order the entries were enqueued in; the code keeps none. *)
Entry == [n : 1..MaxEdits, ch : Change]

NoRecords == [k \in Key |-> Absent]
NoValues == [f \in Field |-> Absent]

Idle == [pc |-> "idle", todo |-> <<>>, next |-> 0, found |-> NoRecords,
         applied |-> FALSE, sent |-> {}]

Init ==
  /\ HubInit
  /\ wall = [r \in Replica |-> 0]
  /\ clk = [r \in Replica |-> ZeroClock]
  /\ cursor = [r \in Replica |-> 0]
  /\ local = [r \in Replica |-> NoRecords]
  /\ outbox = [r \in Replica |-> {}]
  /\ saves = [r \in Replica |-> NoRecords]
  /\ enqueued = [r \in Replica |-> {}]
  /\ versions = [r \in Replica |-> NoRecords]
  /\ patching = [r \in Replica |-> Absent]
  /\ task = [t \in Client |-> Idle]
  /\ committed = {}
  /\ edits = 0 /\ lost = 0 /\ localFaults = 0 /\ crashes = 0

Live(rec) == rec # Absent /\ ~rec.del

(* a is a version and b is none or an older one: "a > b" on version texts,
   where a missing version is the empty text. *)
Newer(a, b) == IF a = Absent THEN FALSE ELSE IF b = Absent THEN TRUE ELSE Before(b, a)

(* maxOf(): the newest version of a map, or the given one when it is empty. *)
MaxOf(fv, none) ==
  LET newest == {f \in Field : fv[f] # Absent /\ \A g \in Field : ~Newer(fv[g], fv[f])}
  IN  IF newest = {} THEN none ELSE fv[CHOOSE f \in newest : TRUE]

---------------------------------------------------------------------------
(* local.persist(): the queued writes land together. *)
Flushed(r) == [k \in Key |-> IF saves[r][k] = Absent THEN local[r][k] ELSE saves[r][k]]

DropQueue(r) == /\ saves' = [saves EXCEPT ![r] = NoRecords]
                /\ enqueued' = [enqueued EXCEPT ![r] = {}]

FlushAnd(r, removed) ==
  /\ local' = [local EXCEPT ![r] = Flushed(r)]
  /\ outbox' = [outbox EXCEPT ![r] = (@ \cup enqueued[r]) \ removed]
  /\ committed' = committed \cup {e.ch : e \in enqueued[r]}
  /\ DropQueue(r)

Flush(r) == FlushAnd(r, {})

(* local.persist() throws: a unique constraint, a quota.  The queue is gone. *)
LocalPersistFails(r) ==
  /\ localFaults < MaxLocalFaults
  /\ saves[r] # NoRecords
  /\ localFaults' = localFaults + 1
  /\ DropQueue(r)
  /\ UNCHANGED <<local, outbox, committed>>

---------------------------------------------------------------------------
(* Date.now() moves on. *)
Tick(r) ==
  /\ wall[r] < MaxTime[r]
  /\ wall' = [wall EXCEPT ![r] = @ + 1]
  /\ UNCHANGED <<hubVars, clk, cursor, local, outbox, saves, enqueued, versions, patching,
                 task, committed, boundVars>>

(* What the application's instance of k holds: its own unsaved edit if there
   is one (instances are shared), what is stored otherwise. *)
Holds(r, k, rec) ==
  LET own == {e \in enqueued[r] : e.ch.key = k}
  IN  IF own = {} THEN rec = local[r][k]
      ELSE \E e \in own : rec = e.ch.rec /\ \A d \in own : d.n <= e.n

Holdable(r, k) == {local[r][k]} \cup {e.ch.rec : e \in enqueued[r]}

(* local.save + enqueue of a stamped record. *)
SaveAndEnqueue(r, k, rec) ==
  /\ saves' = [saves EXCEPT ![r][k] = rec]
  /\ enqueued' = [enqueued EXCEPT ![r] = @ \cup {[n |-> edits + 1, ch |-> [key |-> k, rec |-> rec]]}]
  /\ edits' = edits + 1
  /\ UNCHANGED <<hubVars, wall, cursor, local, outbox, patching, task, committed,
                 lost, localFaults, crashes>>

(* save(): stamp the record.  Field-level, a record with cached versions
   bumps the fields of the dirty hint only (no hint, none: NoHint). *)
NoHint == {}
Stamped(r, k, val, dirty, now) ==
  LET prior   == versions[r][k]
      changed == IF prior = Absent THEN Field ELSE dirty
      fv      == [f \in Field |-> IF f \in changed THEN now
                                  ELSE IF prior = Absent THEN Absent ELSE prior[f]]
  IN  IF FieldLevel THEN [ver |-> MaxOf(fv, now), del |-> FALSE, val |-> val, fv |-> fv]
      ELSE [ver |-> now, del |-> FALSE, val |-> val, fv |-> Absent]

Save(r, k, val, dirty, now) ==
  LET rec == Stamped(r, k, val, dirty, now) IN
  /\ clk' = [clk EXCEPT ![r] = HlcNow(@, wall[r])]
  /\ versions' = IF FieldLevel THEN [versions EXCEPT ![r][k] = rec.fv] ELSE versions
  /\ SaveAndEnqueue(r, k, rec)

Now(r) == StampOf(HlcNow(clk[r], wall[r]), r)

(* The value the next save gives to a field. *)
Written(r) == [at |-> Now(r), n |-> edits + 1]

(* A generated uuid is no other record's; an application that chooses its
   ids ("sharedIds") may create the same record on two replicas. *)
Unused(k) == /\ \A c \in committed : c.key # k
             /\ \A r \in Replica : saves[r][k] = Absent

(* Repository.save of an instance with the fields of `edited` set: the dirty
   hint compares the record with the stored one and is missing for a record
   that is not stored (a new one, or one made again after its removal). *)
UserSave(r, k) ==
  \E held \in Holdable(r, k), edited \in (SUBSET Field) \ {{}} :
    LET val == [f \in Field |-> IF f \in edited THEN Written(r) ELSE held.val[f]]
    IN  /\ "save" \in Ops /\ edits < MaxEdits
        /\ Holds(r, k, held)
        /\ ~Live(held) => edited = Field
        /\ Live(held) /\ ~Live(local[r][k]) => "editNew" \in Ops
        /\ held = Absent => Unused(k) \/ "sharedIds" \in Ops
        /\ held # Absent /\ held.del => "recreate" \in Ops
        /\ Save(r, k, val,
                IF Live(local[r][k]) THEN {f \in Field : val[f] # local[r][k].val[f]} ELSE NoHint,
                Now(r))

(* Repository.remove of a loaded instance: a versioned tombstone. *)
UserRemove(r, k) ==
  /\ "remove" \in Ops /\ edits < MaxEdits
  /\ \E held \in Holdable(r, k) : Holds(r, k, held) /\ Live(held)
  /\ clk' = [clk EXCEPT ![r] = HlcNow(@, wall[r])]
  /\ SaveAndEnqueue(r, k, [ver |-> Now(r), del |-> TRUE, val |-> NoValues, fv |-> Absent])
  /\ UNCHANGED versions

UserPersist(r) ==
  /\ saves[r] # NoRecords
  /\ Flush(r)
  /\ UNCHANGED <<hubVars, wall, clk, cursor, versions, patching, task, boundVars>>

UserPersistFails(r) ==
  /\ LocalPersistFails(r)
  /\ UNCHANGED <<hubVars, wall, clk, cursor, versions, patching, task, edits, lost, crashes>>

(* Repository.patch / patchWhere: SyncBackend has no native patch, so the
   stored record is read ... *)
PatchRead(r, k) ==
  /\ "patch" \in Ops /\ edits < MaxEdits
  /\ patching[r] = Absent /\ Live(local[r][k])
  /\ patching' = [patching EXCEPT ![r] = [key |-> k, rec |-> local[r][k]]]
  /\ UNCHANGED <<hubVars, wall, clk, cursor, local, outbox, saves, enqueued, versions,
                 task, committed, boundVars>>

(* ... changed, saved with no dirty hint, and persisted. *)
PatchWrite(r) ==
  \E edited \in (SUBSET Field) \ {{}} :
    LET k   == patching[r].key
        val == [f \in Field |-> IF f \in edited THEN Written(r) ELSE patching[r].rec.val[f]]
        new == Stamped(r, k, val, NoHint, Now(r))
        e   == [n |-> edits + 1, ch |-> [key |-> k, rec |-> new]]
    IN  /\ patching[r] # Absent /\ edits < MaxEdits
        /\ clk' = [clk EXCEPT ![r] = HlcNow(@, wall[r])]
        /\ versions' = IF FieldLevel THEN [versions EXCEPT ![r][k] = new.fv] ELSE versions
        /\ local' = [local EXCEPT ![r] = [Flushed(r) EXCEPT ![k] = new]]
        /\ outbox' = [outbox EXCEPT ![r] = @ \cup enqueued[r] \cup {e}]
        /\ committed' = committed \cup {d.ch : d \in enqueued[r] \cup {e}}
        /\ DropQueue(r)
        /\ patching' = [patching EXCEPT ![r] = Absent]
        /\ edits' = edits + 1
        /\ UNCHANGED <<hubVars, wall, cursor, task, lost, localFaults, crashes>>

---------------------------------------------------------------------------
(* Mutant: no merge by field at all. *)
NeverMerges(inc, rec) == FALSE

(* mergeByField(): per field the side with the higher version.  *)
Merges(inc, rec) ==
  /\ FieldLevel /\ inc.fv # Absent /\ ~inc.del
  /\ Live(rec) /\ rec.fv # Absent

(* Mutant: the values without their versions. *)
MergedValuesOnly(rec, inc) ==
  [rec EXCEPT !.val = [f \in Field |-> IF Newer(inc.fv[f], rec.fv[f]) THEN inc.val[f] ELSE @[f]]]

MergedByField(rec, inc) ==
  LET take == {f \in Field : Newer(inc.fv[f], rec.fv[f])}
      fv   == [f \in Field |-> IF f \in take THEN inc.fv[f] ELSE rec.fv[f]]
  IN  [ver |-> MaxOf(fv, rec.ver), del |-> FALSE,
       val |-> [f \in Field |-> IF f \in take THEN inc.val[f] ELSE rec.val[f]],
       fv |-> fv]

(* applyIncoming(): what the change makes of the record the caller read
   (rec), or Absent if it does not apply. *)
(* Mutant: a stored record is never replaced. *)
AppliedIfNew(inc, rec) == IF rec = Absent THEN inc ELSE Absent

Applied(inc, rec) ==
  IF Merges(inc, rec)
  THEN IF \E f \in Field : Newer(inc.fv[f], rec.fv[f]) THEN MergedByField(rec, inc) ELSE Absent
  ELSE IF rec = Absent \/ Newer(inc.ver, rec.ver) THEN inc ELSE Absent

(* applyIncoming(): the clock first, then the queued save and the cache. *)
ApplyIncoming(r, change, rec) ==
  LET new == Applied(change.rec, rec) IN
  /\ clk' = [clk EXCEPT ![r] = HlcUpdate(@, change.rec.ver, wall[r])]
  /\ IF new = Absent THEN UNCHANGED <<saves, versions>> ELSE
       /\ saves' = [saves EXCEPT ![r][change.key] = new]
       /\ versions' = IF FieldLevel /\ new.fv # Absent
                       THEN [versions EXCEPT ![r][change.key] = new.fv] ELSE versions

---------------------------------------------------------------------------
(* reconcile() of task t.  pull: ask the remote with the cursor as it is. *)
StartPull(t) ==
  /\ task[t].pc = "idle"
  /\ task' = [task EXCEPT ![t].pc = "pulling", ![t].next = cursor[Owner[t]]]
  /\ UNCHANGED <<hubVars, replicaVars, committed, boundVars>>

(* The hub answers; the answer travels back. *)
ServePull(t) ==
  /\ task[t].pc = "pulling"
  /\ \E i \in 1..(Len(log) + 1) :
       /\ HubPull(task[t].next, i)
       /\ task' = [task EXCEPT ![t].pc = "pulled", ![t].todo = ChangesFrom(i),
                               ![t].next = NextCursor(@, i)]
  /\ UNCHANGED <<replicaVars, committed, boundVars>>

(* The request or its answer is lost, or the caller times out. *)
PullLost(t) ==
  /\ task[t].pc \in {"pulling", "pulled"} /\ lost < MaxLost
  /\ task' = [task EXCEPT ![t] = Idle]
  /\ lost' = lost + 1
  /\ UNCHANGED <<hubVars, replicaVars, committed, edits, localFaults, crashes>>

(* loadLocalRecords(): one read for all the changes, ahead of the loop. *)
LoadLocalRecords(t) ==
  LET r == Owner[t]
      wanted == {task[t].todo[i].key : i \in DOMAIN task[t].todo}
  IN  /\ task[t].pc = "pulled"
      /\ task' = [task EXCEPT ![t].pc = "applying",
                     ![t].found = [k \in Key |-> IF k \in wanted THEN local[r][k] ELSE Absent]]
      /\ UNCHANGED <<hubVars, replicaVars, committed, boundVars>>

ApplyPulled(t) ==
  LET r == Owner[t]
      change == Head(task[t].todo)
      rec == task[t].found[change.key]
  IN  /\ task[t].pc = "applying" /\ task[t].todo # <<>>
      /\ ApplyIncoming(r, change, rec)
      /\ task' = [task EXCEPT ![t].todo = Tail(@),
                     ![t].applied = @ \/ Applied(change.rec, rec) # Absent]
      /\ UNCHANGED <<hubVars, wall, cursor, local, outbox, enqueued, patching, committed, boundVars>>

(* The cursor moves, then what applied is persisted. *)
PullDone(t) ==
  LET r == Owner[t] IN
  /\ task[t].pc = "applying" /\ task[t].todo = <<>>
  /\ cursor' = [cursor EXCEPT ![r] = task[t].next]
  /\ IF task[t].applied THEN Flush(r)
     ELSE UNCHANGED <<local, outbox, saves, enqueued, committed>>
  /\ task' = [task EXCEPT ![t] = [Idle EXCEPT !.pc = "flushing"]]
  /\ UNCHANGED <<hubVars, wall, clk, versions, patching, boundVars>>

PullDoneFails(t) ==
  LET r == Owner[t] IN
  /\ task[t].pc = "applying" /\ task[t].todo = <<>> /\ task[t].applied
  /\ cursor' = [cursor EXCEPT ![r] = task[t].next]
  /\ LocalPersistFails(r)
  /\ task' = [task EXCEPT ![t] = Idle]
  /\ UNCHANGED <<hubVars, wall, clk, versions, patching, edits, lost, crashes>>

(* The order a stored outbox is read in. *)
OutboxReads(entries) ==
  {b \in UNION {[1..n -> entries] : n \in 0..MaxEdits} :
     /\ \A e \in entries : \E i \in DOMAIN b : b[i] = e
     /\ \A i, j \in DOMAIN b : i # j => b[i] # b[j]
     /\ OrderedOutbox => \A i, j \in DOMAIN b : i < j => b[i].n < b[j].n}

(* push: flush, read the outbox back, send it if it holds anything. *)
PushOutbox(t) ==
  LET r == Owner[t]
      entries == outbox[r] \cup enqueued[r]
  IN  /\ task[t].pc = "flushing"
      /\ Flush(r)
      /\ \/ /\ entries = {}
            /\ task' = [task EXCEPT ![t] = Idle]
            /\ UNCHANGED inbox
         \/ /\ entries # {}
            /\ \E read \in OutboxReads(entries) :
                 inbox' = inbox \cup {[to |-> t, batch |-> [i \in DOMAIN read |-> read[i].ch]]}
            /\ task' = [task EXCEPT ![t].pc = "pushing", ![t].sent = entries]
      /\ UNCHANGED <<log, seq, ready, job, faults, wall, clk, cursor, versions, patching, boundVars>>

PushOutboxFails(t) ==
  /\ task[t].pc = "flushing"
  /\ LocalPersistFails(Owner[t])
  /\ task' = [task EXCEPT ![t] = Idle]
  /\ UNCHANGED <<hubVars, wall, clk, cursor, versions, patching, edits, lost, crashes>>

(* The hub at work on pushes; its reply resumes the caller, if still there. *)
HubServes ==
  /\ HubTake \/ HubAppend \/ HubReject
  /\ UNCHANGED <<replicaVars, task, committed, boundVars>>

HubReplies ==
  /\ HubCommit
  /\ task' = IF job.to = Nobody THEN task
             ELSE [task EXCEPT ![job.to].pc = "resolving", ![job.to].todo = job.conflicts]
  /\ UNCHANGED <<replicaVars, committed, boundVars>>

(* Mutant: the caller gets the pushChain that swallows the error, not the run. *)
HubSwallows ==
  /\ HubPersistFails
  /\ task' = IF job.to = Nobody THEN task
             ELSE [task EXCEPT ![job.to].pc = "resolving", ![job.to].todo = job.conflicts]
  /\ UNCHANGED <<replicaVars, committed, boundVars>>

HubThrows ==
  /\ HubPersistFails
  /\ task' = IF job.to = Nobody THEN task ELSE [task EXCEPT ![job.to] = Idle]
  /\ UNCHANGED <<replicaVars, committed, boundVars>>

(* Connections to a restarting hub break. *)
HubRestarts ==
  /\ HubRestart
  /\ task' = [t \in Client |-> IF task[t].pc \in {"pulling", "pushing"} THEN Idle ELSE task[t]]
  /\ UNCHANGED <<replicaVars, committed, boundVars>>

(* The hub goes on with a push nobody waits for any more. *)
Forget(who) ==
  /\ inbox' = {[req EXCEPT !.to = IF @ \in who THEN Nobody ELSE @] : req \in inbox}
  /\ job' = IF job # Absent /\ job.to \in who THEN [job EXCEPT !.to = Nobody] ELSE job
  /\ UNCHANGED <<log, seq, ready, faults>>

(* The request never arrives. *)
PushRequestLost(t) ==
  /\ lost < MaxLost
  /\ \E req \in inbox : req.to = t /\ inbox' = inbox \ {req}
  /\ task' = [task EXCEPT ![t] = Idle]
  /\ lost' = lost + 1
  /\ UNCHANGED <<log, seq, ready, job, faults, replicaVars, committed, edits, localFaults, crashes>>

(* The caller gives up on a push the hub serves later, or has served. *)
PushTimesOut(t) ==
  /\ task[t].pc = "pushing" \/ (task[t].pc = "resolving" /\ ~task[t].applied)
  /\ lost < MaxLost
  /\ Forget({t})
  /\ task' = [task EXCEPT ![t] = Idle]
  /\ lost' = lost + 1
  /\ UNCHANGED <<replicaVars, committed, edits, localFaults, crashes>>

(* A conflict: read the record as it is now ... *)
LocalRecord(t) ==
  LET k == Head(task[t].todo).key IN
  /\ task[t].pc = "resolving" /\ task[t].todo # <<>>
  /\ task' = [task EXCEPT ![t].pc = "resolve", ![t].found = [NoRecords EXCEPT ![k] = local[Owner[t]][k]]]
  /\ UNCHANGED <<hubVars, replicaVars, committed, boundVars>>

(* ... and adopt the remote's if it wins. *)
ApplyConflict(t) ==
  LET change == Head(task[t].todo) IN
  /\ task[t].pc = "resolve"
  /\ ApplyIncoming(Owner[t], change, task[t].found[change.key])
  /\ task' = [task EXCEPT ![t].pc = "resolving", ![t].todo = Tail(@),
                          ![t].found = NoRecords, ![t].applied = TRUE]
  /\ UNCHANGED <<hubVars, wall, cursor, local, outbox, enqueued, patching, committed, boundVars>>

(* Drop what was pushed and persist. *)
PushDone(t) ==
  /\ task[t].pc = "resolving" /\ task[t].todo = <<>>
  /\ FlushAnd(Owner[t], task[t].sent)
  /\ task' = [task EXCEPT ![t] = Idle]
  /\ UNCHANGED <<hubVars, wall, clk, cursor, versions, patching, boundVars>>

PushDoneFails(t) ==
  /\ task[t].pc = "resolving" /\ task[t].todo = <<>>
  /\ LocalPersistFails(Owner[t])
  /\ task' = [task EXCEPT ![t] = Idle]
  /\ UNCHANGED <<hubVars, wall, clk, cursor, versions, patching, edits, lost, crashes>>

(* The process of r ends and starts again, at a later Date.now(). *)
Crash(r) ==
  LET mine == {t \in Client : Owner[t] = r} IN
  /\ crashes < MaxCrashes
  /\ crashes' = crashes + 1
  /\ wall' = [wall EXCEPT ![r] = @ + 1]
  /\ clk' = [clk EXCEPT ![r] = ZeroClock]
  /\ cursor' = [cursor EXCEPT ![r] = 0]
  /\ versions' = [versions EXCEPT ![r] = NoRecords]
  /\ patching' = [patching EXCEPT ![r] = Absent]
  /\ DropQueue(r)
  /\ task' = [t \in Client |-> IF t \in mine THEN Idle ELSE task[t]]
  /\ Forget(mine)
  /\ IF DurableLocal THEN UNCHANGED <<local, outbox>>
     ELSE /\ local' = [local EXCEPT ![r] = NoRecords]
          /\ outbox' = [outbox EXCEPT ![r] = {}]
  /\ UNCHANGED <<committed, edits, lost, localFaults>>

---------------------------------------------------------------------------
(* A reconcile() of r is between loadLocalRecords and the end of its pull. *)
Syncing(r) == \E t \in Client : Owner[t] = r /\ task[t].pc = "applying"

Application(r) ==
  /\ Syncing(r) => "whileSyncing" \in Ops
  /\ \/ \E k \in Key : UserSave(r, k) \/ UserRemove(r, k) \/ PatchRead(r, k)
     \/ PatchWrite(r) \/ UserPersist(r) \/ UserPersistFails(r)

Reconcile(t) ==
  \/ StartPull(t) \/ ServePull(t) \/ LoadLocalRecords(t) \/ ApplyPulled(t) \/ PullDone(t)
  \/ PushOutbox(t) \/ LocalRecord(t) \/ ApplyConflict(t) \/ PushDone(t)

ReconcileFails(t) ==
  \/ PullLost(t) \/ PullDoneFails(t) \/ PushOutboxFails(t) \/ PushRequestLost(t)
  \/ PushTimesOut(t) \/ PushDoneFails(t)

Hub == HubServes \/ HubReplies \/ HubThrows \/ HubRestarts

Next ==
  \/ \E r \in Replica : Tick(r) \/ Application(r) \/ Crash(r)
  \/ \E t \in Client : Reconcile(t) \/ ReconcileFails(t)
  \/ Hub

Spec == Init /\ [][Next]_vars

(* What the scheduler and the deployment owe for convergence: a started call
   runs on, the hub serves, reconcile() is called again and again ("on
   connect, on a timer, on reconnect").  Nothing is owed by the application:
   it may stop saving, and may leave queued writes to the next reconcile. *)
FairSpec == /\ Spec
            /\ \A t \in Client : WF_vars(Reconcile(t))
            /\ WF_vars(HubServes \/ HubReplies)

---------------------------------------------------------------------------
TaskState ==
  [pc : {"idle", "pulling", "pulled", "applying", "flushing", "pushing", "resolving", "resolve"},
   todo : Seq(Change), next : Nat, found : [Key -> Record \cup {Absent}],
   applied : BOOLEAN, sent : SUBSET Entry]

TypeOK ==
  /\ HubTypeOK
  /\ wall \in [Replica -> Nat]
  /\ clk \in [Replica -> Clock]
  /\ cursor \in [Replica -> Nat]
  /\ local \in [Replica -> [Key -> Record \cup {Absent}]]
  /\ outbox \in [Replica -> SUBSET Entry]
  /\ saves \in [Replica -> [Key -> Record \cup {Absent}]]
  /\ enqueued \in [Replica -> SUBSET Entry]
  /\ versions \in [Replica -> [Key -> FieldStamps \cup {Absent}]]
  /\ patching \in [Replica -> [key : Key, rec : Record] \cup {Absent}]
  /\ task \in [Client -> TaskState]
  /\ committed \in SUBSET Change
  /\ edits \in 0..MaxEdits
  /\ lost \in Nat /\ localFaults \in Nat /\ crashes \in Nat

(* Nothing is queued, stored to be pushed, under way or left to pull. *)
Quiescent ==
  /\ \A r \in Replica : /\ outbox[r] = {} /\ saves[r] = NoRecords
                        /\ patching[r] = Absent /\ cursor[r] = LastSeq
  /\ \A t \in Client : task[t].pc = "idle"
  /\ inbox = {} /\ job = Absent

Content(rec) == IF Live(rec) THEN rec.val ELSE Absent

(* "converge" (docs/sync.md:73): replicas that have nothing left to exchange
   show the application the same records. *)
ReplicasAgree ==
  Quiescent => \A r, s \in Replica, k \in Key : Content(local[r][k]) = Content(local[s][k])

(* The same where no persist of a local store has thrown: then the cursor may
   have passed changes that were never stored. *)
AgreeUnlessPersistFailed == localFaults = 0 => ReplicasAgree

(* Last-write-wins: what they then hold is the newest committed write of the
   record, whoever wrote it and in whatever order it travelled. *)
NewestWins ==
  Quiescent => \A r \in Replica, c \in committed :
    local[r][c.key] # Absent /\ ~Before(local[r][c.key].ver, c.rec.ver)

(* "keep the higher-versioned value per field" (SyncBackend.ts:238): the
   version a replica stores for a field never goes down, whatever it merges,
   saves or fails to persist in between. *)
FieldsNeverRegress ==
  [][\A r \in Replica, k \in Key :
       FieldLevel /\ Live(local[r][k]) /\ Live(local'[r][k]) =>
         \A f \in Field : ~Newer(local[r][k].fv[f], local'[r][k].fv[f])]_vars

(* "a stale value never re-clobbers a concurrent edit to another field"
   (SyncBackend.ts:119): a version of a field stands for one value, so that
   whoever has the version has the value and a merge may skip it. That needs
   saves to be complete and ordered as they mostly are: it does not hold where
   a removed record is saved again ("recreate": no dirty hint, and the version
   cache of the removed record), where a pull is under way ("whileSyncing"),
   or for a patch ("patch", no dirty hint). *)
OneValuePerVersion ==
  \A c, d \in committed, f \in Field :
    (c.key = d.key /\ Live(c.rec) /\ Live(d.rec) /\ FieldLevel
       /\ c.rec.fv[f] = d.rec.fv[f]) => c.rec.val[f] = d.rec.val[f]

(* No committed write is forgotten: until the log holds it or something
   newer, its outbox entry is there to be pushed (again). *)
NoEditForgotten ==
  \A c \in committed :
    \/ \E r \in Replica : \E e \in outbox[r] : e.ch = c
    \/ \E i \in DOMAIN log : log[i].ch.key = c.key /\ ~Before(log[i].ch.rec.ver, c.rec.ver)

(* "edits from different devices have a stable causal order" (hlc.ts:3): a
   write is stamped after the stored record it replaces, so that it cannot
   lose to the very version its author saw. *)
EditFollowsWhatItReplaces ==
  [][\A r \in Replica :
       \A e \in (enqueued'[r] \cup outbox'[r]) \ (enqueued[r] \cup outbox[r]) :
         local[r][e.ch.key] = Absent
           \/ Before(local[r][e.ch.key].ver, e.ch.rec.ver)]_vars

(* Two writes never share a version, or no replica could order them. *)
VersionsUnique ==
  \A c, d \in committed : c.rec.ver = d.rec.ver => c = d

(* Last-write-wins (SyncBackend.ts:30): a stored record is only ever
   replaced by a newer one. *)
StoreNeverRegresses ==
  [][\A r \in Replica, k \in Key :
       local'[r][k] = local[r][k] \/ local[r][k] = Absent
         \/ Newer(local'[r][k].ver, local[r][k].ver)]_vars

(* "pulls only the delta since its last cursor" (docs/sync.md:65). *)
CursorNeverGoesBack == [][\A r \in Replica : cursor[r] <= cursor'[r]]_vars

(* Once the applications stop, all replicas come to show the same. *)
EventuallyAgree ==
  <>[](\A r, s \in Replica, k \in Key : Content(local[r][k]) = Content(local[s][k]))
===========================================================================
