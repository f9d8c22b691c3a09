------------------------- MODULE RepositoryCache -------------------------
(***************************************************************************)
(* One Repository (src/src/repository/Repository.ts) over an asynchronous  *)
(* backend: its identity map, write baselines and result cache             *)
(* (QueryCache.ts), kept by the backend's change feed, and one live query  *)
(* (liveQuery.ts) that runs again when the feed reports a relevant change. *)
(* A read is under way from its call to the arrival of its answer, and the *)
(* backend reads its store somewhere in between; writes of this repository *)
(* and of others (a sibling, a sync, a peer), and their events, fall       *)
(* anywhere around it.                                                     *)
(* Scalars only: loading relations repeats the same reads on other models. *)
(***************************************************************************)
EXTENDS Integers, Sequences, FiniteSets, SequencesExt

CONSTANTS Uuid,       \* records
          Value,      \* what a record's fields amount to
          Matching,   \* the values the live query's filter accepts
          Query,      \* the kinds of live query (QueryKind) a behaviour may have
          Slot,       \* bound: reads that can be under way at once
          None,       \* no record, no result, nothing
          MaxWrites,  \* bound: writes of a behaviour
          MaxReads,   \* bound: subscriptions, refetches and one-off reads
          MaxErrors   \* bound: reads that throw

(* cached: read with list(), through the result cache (else with count());
   filtered: the query has a filter of its own; patches: the backend patches
   records itself (isPatching). *)
QueryKind == [cached : BOOLEAN, filtered : BOOLEAN, patches : BOOLEAN]

ASSUME CacheAssumption ==
  /\ Query \subseteq QueryKind /\ Matching \subseteq Value
  /\ None \notin Value /\ None \notin Uuid
  /\ IsFiniteSet(Uuid)
  /\ MaxWrites \in Nat /\ MaxReads \in Nat /\ MaxErrors \in Nat

VARIABLES query,     \* the live query of this behaviour
          store,     \* store[u]: the stored value
          feed,      \* change events on their way to this repository
          saves, removes,  \* the backend's write queues
          instance,  \* identity map: instance[u], as its fields are now
          baseline,  \* write baselines
          result,    \* result cache: {} or the result of the query's plan, and its date
          reads,     \* reads[s]: a read under way
          live,      \* the live query; detached: run again while nobody subscribes
          patching,  \* the record of a patch() that has not returned
          writes, asked, errors,  \* so far (bounds)
          \* History, which the properties speak of and no step reads:
          commits,   \* commits so far: the date of the store
          reported,  \* the latest commit this repository has heard of
          behind     \* records whose instance a late row has set

storeVars == <<store, feed, saves, removes>>
cacheVars == <<instance, baseline, result>>
boundVars == <<writes, asked, errors>>
history == <<commits, reported, behind>>
vars == <<query, storeVars, cacheVars, reads, live, patching, boundVars, history>>

Stored == Value \cup {None}
(* at and was are history: the commit, and the record before. *)
Event == [uuid : Uuid, val : Stored, was : Stored, at : Nat]
Rows == [Uuid -> Stored]
NoRows == [u \in Uuid |-> None]

(* "live": a run of the live query; "list": the same query by the
   application; "get": one record.  History: asOf dates the answer; hit, the
   result cache gave it, and late, that was filled late; heard is the latest
   commit heard of when the rows were taken in. *)
Idle == [for |-> "none", pc |-> "idle", token |-> 0, wanted |-> {}, rows |-> NoRows,
         found |-> {}, asOf |-> 0, hit |-> FALSE, late |-> FALSE, heard |-> 0]
(* data is {} before the first answer, {found} after one. *)
Unloaded == [data |-> {}, error |-> FALSE, asOf |-> 0, hit |-> FALSE, late |-> FALSE]
NoPatch  == [uuid |-> None, at |-> 0]

Init ==
  /\ query \in Query
  /\ store \in [Uuid -> Stored]
  /\ feed = <<>> /\ saves = NoRows /\ removes = {}
  /\ instance = NoRows /\ baseline = NoRows /\ result = {}
  /\ reads = [s \in Slot |-> Idle]
  /\ live = [on |-> FALSE, token |-> 0, detached |-> FALSE, state |-> Unloaded, missed |-> 0]
  /\ patching = NoPatch
  /\ writes = 0 /\ asked = 0 /\ errors = 0
  /\ commits = 0 /\ reported = 0 /\ behind = {}

(* Expression.match(), and the rows of the query's plan. *)
Matches(val) == val # None /\ (query.filtered => val \in Matching)
Select(records) == [u \in Uuid |-> IF Matches(records[u]) THEN records[u] ELSE None]
Present(rows) == {u \in Uuid : rows[u] # None}

---------------------------------------------------------------------------
(* execute(): the next token, and a run that carries it. *)
Run(token) == [Idle EXCEPT !.for = "live", !.token = token,
                           !.pc = IF query.cached THEN "start" ELSE "asked"]

(* Room is the bound on Slot: the application asks and writes only while
   every change that is not reported yet has a slot for the run it wakes. *)
Free == {s \in Slot : reads[s] = Idle}
Unreported == Len(feed) + Cardinality(Present(saves)) + Cardinality(removes)
Room == Cardinality(Free) > Unreported + (IF patching = NoPatch THEN 0 ELSE 1)
MayAsk == Room /\ asked < MaxReads
MayWrite == Room /\ writes < MaxWrites

Begin(read) == Free # {} /\ reads' = [reads EXCEPT ![CHOOSE s \in Free : TRUE] = read]

(* Mutant: a run does not take a token of its own. *)
ExecuteSameToken(now) == Begin(Run(now.token)) /\ live' = now

(* The token of the latest run is the live query's. *)
Execute(now) == Begin(Run(now.token + 1)) /\ live' = [now EXCEPT !.token = @ + 1]

(* The first subscriber: the feed is wired up and the query runs. *)
Subscribe ==
  /\ ~live.on /\ MayAsk
  /\ Execute([live EXCEPT !.on = TRUE])
  /\ asked' = asked + 1
  /\ UNCHANGED <<query, storeVars, cacheVars, patching, writes, errors, history>>

Reset == [live EXCEPT !.on = FALSE, !.token = @ + 1, !.detached = FALSE, !.state = Unloaded]

(* The last subscriber leaves. *)
Unsubscribe ==
  /\ live.on
  /\ live' = Reset
  /\ UNCHANGED <<query, storeVars, cacheVars, reads, patching, boundVars, history>>

(* refetch(), which asks for no subscriber. *)
Refetch ==
  /\ MayAsk
  /\ Execute([live EXCEPT !.detached = @ \/ ~live.on])
  /\ asked' = asked + 1
  /\ UNCHANGED <<query, storeVars, cacheVars, patching, writes, errors, history>>

---------------------------------------------------------------------------
(* The application reads: the query's list(), or get() of a record that is
   not in the identity map. *)
List ==
  /\ MayAsk
  /\ Begin([Idle EXCEPT !.for = "list", !.pc = "start"])
  /\ asked' = asked + 1
  /\ UNCHANGED <<query, storeVars, cacheVars, live, patching, writes, errors, history>>

LoadOne(u) == Begin([Idle EXCEPT !.for = "get", !.pc = "asked", !.wanted = {u}])

Get(u) ==
  /\ MayAsk /\ instance[u] = None
  /\ LoadOne(u)
  /\ asked' = asked + 1
  /\ UNCHANGED <<query, storeVars, cacheVars, live, patching, writes, errors, history>>

(* runQuery(): after preprocessWhere() the result cache is asked. *)
LookUp(s) ==
  /\ reads[s].pc = "start"
  /\ \/ /\ result = {}
        /\ reads' = [reads EXCEPT ![s].pc = "asked"]
     \/ \E hit \in result :
          reads' = [reads EXCEPT ![s].pc = "done", ![s].found = hit.found, ![s].asOf = hit.asOf,
                                 ![s].hit = TRUE, ![s].late = hit.late]
  /\ UNCHANGED <<query, storeVars, cacheVars, live, patching, boundVars, history>>

(* The backend reads its store for the query or the record asked for. *)
Answer(read) ==
  LET rows == IF read.for = "get"
              THEN [u \in Uuid |-> IF u \in read.wanted THEN store[u] ELSE None]
              ELSE Select(store)
  IN  [read EXCEPT !.rows = rows, !.asOf = commits]

(* Mutant: an instance that is held stays as it is. *)
KeptInstance(u, row) == IF instance[u] = None THEN row ELSE instance[u]

(* materialize(): a row refreshes the instance that is held, or makes one. *)
Materialized(u, row) == row

(* The rows refresh the instances and the baselines; a count() has none, and
   only a list() has a result to keep. *)
Uncached(read) == read.for = "live" /\ ~query.cached
Absorb(s, read) ==
  LET loaded == IF Uncached(read) THEN {} ELSE Present(read.rows)
      kept   == read.for # "get" /\ ~Uncached(read)
  IN
  /\ instance' = [u \in Uuid |-> IF u \in loaded THEN Materialized(u, read.rows[u]) ELSE instance[u]]
  /\ baseline' = [u \in Uuid |-> IF u \in loaded THEN read.rows[u] ELSE baseline[u]]
  /\ behind' = IF read.asOf < reported THEN behind \cup loaded ELSE behind \ loaded
  /\ reads' = [reads EXCEPT ![s] = [read EXCEPT !.pc = IF kept THEN "loaded" ELSE "done",
                                                !.heard = IF kept THEN reported ELSE 0,
                                                !.found = Present(read.rows), !.rows = NoRows]]

Read(s) ==
  /\ reads[s].pc = "asked"
  /\ reads' = [reads EXCEPT ![s] = [Answer(@) EXCEPT !.pc = "read"]]
  /\ UNCHANGED <<query, storeVars, cacheVars, live, patching, boundVars, history>>

Arrive(s) ==
  /\ reads[s].pc = "read"
  /\ Absorb(s, reads[s])
  /\ UNCHANGED <<query, storeVars, result, live, patching, boundVars, commits, reported>>

(* setResult(), which follows when execute() has returned: late, if there has
   been news of a later commit by then, or since the rows were taken in. *)
SetResult(s) ==
  /\ reads[s].pc = "loaded"
  /\ result' = {[found |-> reads[s].found, asOf |-> reads[s].asOf,
                 late |-> reads[s].asOf < reported \/ reads[s].heard < reported]}
  /\ reads' = [reads EXCEPT ![s] = [@ EXCEPT !.pc = "done", !.heard = 0]]
  /\ UNCHANGED <<query, storeVars, instance, baseline, live, patching, boundVars, history>>

(* A run superseded by a newer one is dropped. *)
Current(s) == reads[s].for = "live" /\ reads[s].token = live.token

Resolve(s) ==
  /\ reads[s].pc = "done"
  /\ live' = IF Current(s)
             THEN [live EXCEPT !.state = [data |-> {reads[s].found}, error |-> FALSE, asOf |-> reads[s].asOf,
                                          hit |-> reads[s].hit, late |-> reads[s].late]]
             ELSE live
  /\ reads' = [reads EXCEPT ![s] = Idle]
  /\ UNCHANGED <<query, storeVars, cacheVars, patching, boundVars, history>>

(* The backend's answer is an error; the last data stay. *)
Reject(s) ==
  /\ reads[s].pc = "asked" /\ errors < MaxErrors
  /\ live' = IF Current(s) THEN [live EXCEPT !.state.error = TRUE] ELSE live
  /\ reads' = [reads EXCEPT ![s] = Idle]
  /\ errors' = errors + 1
  /\ UNCHANGED <<query, storeVars, cacheVars, patching, writes, asked, history>>

---------------------------------------------------------------------------
(* save(): the instance goes into the identity map as it is, its record into
   the queue.  An application may save any instance it holds or makes; it
   saves each once before a persist(). *)
Save(u) ==
  /\ MayWrite /\ saves[u] = None
  /\ \E val \in Value : /\ instance' = [instance EXCEPT ![u] = val]
                        /\ saves' = [saves EXCEPT ![u] = val]
  /\ writes' = writes + 1
  /\ behind' = behind \ {u}
  /\ UNCHANGED <<query, store, feed, removes, baseline, result, reads, live, patching, asked, errors,
                 commits, reported>>

RemoveRecord(u) ==
  /\ MayWrite /\ instance[u] # None /\ u \notin removes
  /\ removes' = removes \cup {u}
  /\ writes' = writes + 1
  /\ UNCHANGED <<query, store, feed, saves, cacheVars, reads, live, patching, asked, errors, history>>

(* A commit and its events: the saved records, then the removed ones. *)
Commit(saved, removed) ==
  LET kept(u)  == IF saved[u] # None THEN saved[u] ELSE store[u]
      event(u, val, was) == [uuid |-> u, val |-> val, was |-> was, at |-> commits + 1]
  IN  /\ store' = [u \in Uuid |-> IF u \in removed THEN None ELSE kept(u)]
      /\ \E first \in SetToSeqs(Present(saved)), rest \in SetToSeqs(removed) :
           feed' = feed \o [i \in DOMAIN first |-> event(first[i], saved[first[i]], store[first[i]])]
                        \o [i \in DOMAIN rest |-> event(rest[i], None, kept(rest[i]))]
      /\ commits' = commits + 1

(* persist() of this repository's backend. *)
Persist ==
  /\ saves # NoRows \/ removes # {}
  /\ Commit(saves, removes)
  /\ saves' = NoRows /\ removes' = {}
  /\ UNCHANGED <<query, cacheVars, reads, live, patching, boundVars, reported, behind>>

(* The same of another writer that this feed reports. *)
WriteElsewhere(u) ==
  /\ MayWrite
  /\ \/ \E val \in Value : Commit([NoRows EXCEPT ![u] = val], {})
     \/ store[u] # None /\ Commit(NoRows, {u})
  /\ writes' = writes + 1
  /\ UNCHANGED <<query, saves, removes, cacheVars, reads, live, patching, asked, errors, reported, behind>>

(* patch() on a backend that does it itself: the record changes at once and
   no event tells. *)
Patch(u) ==
  /\ query.patches /\ MayWrite /\ patching = NoPatch /\ store[u] # None
  /\ \E val \in Value : store' = [store EXCEPT ![u] = val]
  /\ patching' = [uuid |-> u, at |-> commits + 1]
  /\ writes' = writes + 1 /\ commits' = commits + 1
  /\ UNCHANGED <<query, feed, saves, removes, cacheVars, reads, live, asked, errors, reported, behind>>

Heard(at) == reported' = IF reported < at THEN at ELSE reported

(* It returns: the caches forget, and the record is loaded. *)
PatchReturns ==
  /\ patching # NoPatch
  /\ result' = {}
  /\ instance' = [instance EXCEPT ![patching.uuid] = None]
  /\ LoadOne(patching.uuid)
  /\ patching' = NoPatch
  /\ Heard(patching.at)
  /\ UNCHANGED <<query, storeVars, baseline, live, boundVars, commits, behind>>

---------------------------------------------------------------------------
(* Mutants: only the new state is tested; the result cache is kept. *)
AffectsAfterOnly(event) == Matches(event.val)
KeptResult == result

(* changeAffects(): a filter sees a change if it matches the record before
   or after; before is what the baseline says. *)
Affects(event) == ~query.filtered \/ Matches(event.val) \/ Matches(baseline[event.uuid])

InvalidatedResult == {}

(* History: the latest commit that took a record out of the filter while the
   baseline did not say that it was in. *)
Misjudging(event) ==
  IF Matches(event.was) /\ ~Matches(event.val) /\ ~Matches(baseline[event.uuid])
  THEN [live EXCEPT !.missed = IF @ < event.at THEN event.at ELSE @] ELSE live

(* The repository's handler of the change feed, and the live query's. *)
Change ==
  LET event == Head(feed) IN
  /\ feed # <<>>
  /\ feed' = Tail(feed)
  /\ result' = InvalidatedResult
  /\ instance' = IF event.val = None THEN [instance EXCEPT ![event.uuid] = None] ELSE instance
  /\ baseline' = [baseline EXCEPT ![event.uuid] = event.val]
  /\ Heard(event.at)
  /\ IF live.on /\ Affects(event) THEN Execute(Misjudging(event)) ELSE live' = Misjudging(event) /\ UNCHANGED reads
  /\ UNCHANGED <<query, store, saves, removes, patching, boundVars, commits, behind>>

---------------------------------------------------------------------------
Next ==
  \/ Subscribe \/ Unsubscribe \/ Refetch \/ List \/ Persist \/ PatchReturns \/ Change
  \/ \E u \in Uuid : Get(u) \/ Save(u) \/ RemoveRecord(u) \/ WriteElsewhere(u) \/ Patch(u)
  \/ \E s \in Slot : LookUp(s) \/ Read(s) \/ Arrive(s) \/ SetResult(s) \/ Resolve(s) \/ Reject(s)

Spec == Init /\ [][Next]_vars

(* The backend answers, the feed delivers, promises that are resolved run
   on.  Nothing is owed by the application. *)
FairSpec == /\ Spec
            /\ WF_vars(PatchReturns) /\ WF_vars(Change)
            /\ \A s \in Slot : WF_vars(LookUp(s) \/ Read(s) \/ Arrive(s) \/ SetResult(s) \/ Resolve(s))

---------------------------------------------------------------------------
ReadState == [for : {"none", "live", "list", "get"},
              pc : {"idle", "start", "asked", "read", "loaded", "done"}, token : Nat,
              wanted : SUBSET Uuid, rows : Rows, found : SUBSET Uuid, asOf : Nat,
              hit : BOOLEAN, late : BOOLEAN, heard : Nat]
LiveState == [data : SUBSET SUBSET Uuid, error : BOOLEAN, asOf : Nat, hit : BOOLEAN, late : BOOLEAN]
Entry     == [found : SUBSET Uuid, asOf : Nat, late : BOOLEAN]

(* Every variable has its type; nothing is queued twice. *)
TypeOK ==
  /\ query \in Query
  /\ store \in Rows /\ saves \in Rows /\ removes \in SUBSET Uuid
  /\ feed \in Seq(Event)
  /\ instance \in Rows /\ baseline \in Rows
  /\ result \in SUBSET Entry /\ Cardinality(result) <= 1
  /\ reads \in [Slot -> ReadState]
  /\ live \in [on : BOOLEAN, token : Nat, detached : BOOLEAN, state : LiveState, missed : Nat]
  /\ patching \in [uuid : Uuid, at : Nat] \cup {NoPatch}
  /\ writes \in 0..MaxWrites /\ asked \in 0..MaxReads /\ errors \in 0..MaxErrors
  /\ commits \in Nat /\ reported \in Nat /\ behind \in SUBSET Uuid

(* All that was written is reported, all that was asked is answered. *)
Settled == feed = <<>> /\ patching = NoPatch /\ \A s \in Slot : reads[s] = Idle

Shown == live.state.data = {Present(Select(store))}

(* "pushing a fresh snapshot each time" (liveQuery.ts:36): once the feed and
   the reads have settled, a subscribed live query that shows no error shows
   what is stored.  Code: changeAffects(), execute(), the result cache. *)
LiveFresh == Settled /\ live.on /\ ~live.state.error => Shown

(* What the code does not keep of it.  The result cache may be filled by rows
   that arrive after the news of a later commit, which it does not know of, and
   a run may be answered with them; and changeAffects() goes by the baseline,
   which need not be what was stored before (a count() loads none, a late row
   sets it back, a row read ahead of the feed sets it forward). *)
Excused == live.state.late \/ (query.filtered /\ live.state.asOf < live.missed)

(* The same outside these two cases, on a backend that reports every write (the
   repository's native patch() is one the feed does not report,
   Repository.ts:365): however reads, writes, events and subscriptions are
   interleaved, an unfiltered count without exception. *)
LiveFreshIfReported == ~query.patches /\ ~Excused => LiveFresh

(* "Invalidation is coarse and correct" (QueryCache.ts:16): a result the
   cache would answer with is what the backend would answer. *)
CacheFresh == Settled => \A hit \in result : hit.found = Present(Select(store))

(* The same of every result but one whose rows arrived after the news of a
   later commit: the feed's handler and patch() clear the cache whenever the
   store has changed, a result read ahead of the feed included. *)
CacheFreshUnlessLate == Settled => \A hit \in result : hit.late \/ hit.found = Present(Select(store))

(* "guards against a slow earlier run resolving after a newer one"
   (liveQuery.ts:58): what a live query shows never goes back to an earlier
   state of the store, unless the result cache answers it (a list() that was
   answered before it may have filled the cache after it). *)
LiveNeverRegresses ==
  [][live.on /\ live'.on /\ ~live'.state.hit => live.state.asOf <= live'.state.asOf]_vars

(* A live query whose last subscriber has left shows nothing, whatever runs of
   it are still under way ("a clean loading state", liveQuery.ts:95), until it
   is refetched. *)
NothingUnsubscribed == ~live.on /\ ~live.detached => live.state = Unloaded

(* While a live list shows what it read, get() of a record that its filter
   accepts answers with what is stored: no write of another repository is left
   behind in the identity map, although the feed's handler does not touch the
   instance (Repository.ts:126).  Outside it are an instance that a late row has
   set, a list shown from the result of late rows, and the records the filter
   refuses (the list shows those only after a patch it was not told of). *)
InstancesFresh ==
  Settled /\ saves = NoRows /\ live.on /\ query.cached /\ ~live.state.error /\ ~live.state.late =>
    \A u \in Uuid \ behind : Matches(store[u]) => instance[u] \in {None, store[u]}

(* A subscribed live query is loading or stale for a while only: every change
   is reported and every run answered (liveQuery.ts:36), with the exceptions of
   LiveFreshIfReported. *)
EventuallyFresh ==
  ~query.patches => <>[](live.on /\ ~live.state.error /\ ~Excused => Shown)
==========================================================================
