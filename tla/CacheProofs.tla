---------------------------- MODULE CacheProofs ----------------------------
(***************************************************************************)
(* The caches and live queries of RepositoryCache, for any number of       *)
(* records, values, reads at once, writes and errors, and with every       *)
(* interleaving of reads, writes, events and subscriptions:                *)
(*   LiveFreshIfReported   what a live query shows, once all has settled;  *)
(*   CacheFreshUnlessLate  what the result cache answers;                  *)
(*   InstancesFresh        what the identity map holds of what it accepts; *)
(*   LiveNeverRegresses    a live query never goes back.                   *)
(* Nothing tells a cache or a live query that it is out of date but an     *)
(* event.  The invariant therefore says of every answer that is held       *)
(* anywhere (under way, in the cache, by the latest run, on show) that each *)
(* record it is wrong about has an event under way that is of a later      *)
(* commit than the answer and takes the record into the filter or out of   *)
(* it, so that its delivery clears the cache, wakes the query or makes the *)
(* answer late.  The runs are told apart by their tokens.                  *)
(***************************************************************************)
EXTENDS RepositoryCache, SequenceTheorems, FiniteSetTheorems, TLAPS

(* An order of a finite set lists each of its elements. *)
LEMMA Orders ==
  ASSUME NEW S, IsFiniteSet(S), NEW order \in SetToSeqs(S)
  PROVE  /\ order \in Seq(S)
         /\ \A x \in S : \E i \in DOMAIN order : order[i] = x
<1> DEFINE D == 1..Cardinality(S)
<1>1. Cardinality(S) \in Nat BY FS_CardinalityType
<1>2. order \in [D -> S] /\ \A i, j \in D : i # j => order[i] # order[j]
  BY DEF SetToSeqs
<1>3. order \in Seq(S) BY <1>1, <1>2
<1>4. order \in Injection(D, S) BY <1>2 DEF Injection, IsInjective
<1>5. IsFiniteSet(D) /\ Cardinality(D) = Cardinality(S)
  BY <1>1, FS_Interval
<1>6. order \in Surjection(D, S) BY <1>4, <1>5, FS_Injection
<1> QED BY <1>2, <1>3, <1>6 DEF Surjection

(* An event of u in f, of commit at, that says it is val and was was. *)
Says(f, u, val, was, at) ==
  \E i \in DOMAIN f : f[i].uuid = u /\ f[i].val = val /\ f[i].was = was /\ f[i].at = at

LEMMA SaysEither ==
  ASSUME NEW f \in Seq(Event), NEW g \in Seq(Event), NEW u, NEW val, NEW was, NEW at,
         Says(f, u, val, was, at) \/ Says(g, u, val, was, at)
  PROVE  Says(f \o g, u, val, was, at)
<1> DEFINE h == f \o g
<1>1. /\ Len(f) \in Nat /\ DOMAIN f = 1..Len(f) /\ DOMAIN g = 1..Len(g) /\ Len(g) \in Nat
      /\ DOMAIN h = 1..(Len(f) + Len(g))
      /\ \A i \in DOMAIN f : h[i] = f[i]
      /\ \A i \in DOMAIN g : h[Len(f) + i] = g[i]
  BY LenProperties, ConcatProperties
<1>2. /\ \A i \in DOMAIN f : i \in DOMAIN h
      /\ \A i \in DOMAIN g : Len(f) + i \in DOMAIN h
  BY <1>1
<1> HIDE DEF h
<1> QED BY <1>1, <1>2 DEF Says, h

LEMMA EitherSays ==
  ASSUME NEW f \in Seq(Event), NEW g \in Seq(Event), NEW i \in DOMAIN (f \o g)
  PROVE  (\E j \in DOMAIN f : (f \o g)[i] = f[j]) \/ (\E j \in DOMAIN g : (f \o g)[i] = g[j])
<1> DEFINE h == f \o g
<1>1. /\ Len(f) \in Nat /\ DOMAIN f = 1..Len(f) /\ DOMAIN g = 1..Len(g) /\ Len(g) \in Nat
      /\ DOMAIN h = 1..(Len(f) + Len(g))
      /\ \A j \in DOMAIN f : h[j] = f[j]
      /\ \A j \in DOMAIN g : h[Len(f) + j] = g[j]
  BY LenProperties, ConcatProperties
<1> HIDE DEF h
<1>2. i \in Nat /\ (i \in DOMAIN f \/ i - Len(f) \in DOMAIN g) BY <1>1 DEF h
<1>3. i - Len(f) \in DOMAIN g => h[i] = g[i - Len(f)]
  <2>1. Len(f) + (i - Len(f)) = i BY <1>1, <1>2
  <2> QED BY <1>1, <2>1
<1>4. (\E j \in DOMAIN f : h[i] = f[j]) \/ (\E j \in DOMAIN g : h[i] = g[j])
  BY <1>1, <1>2, <1>3
<1> QED BY <1>4 DEF h

(* After a commit, what had an event has it still; and what the commit touched
   has one that says what is stored now, and one, if the filter sees it
   otherwise now than before, that takes it in or out. *)
Told(u) == \E was \in Stored : Says(feed', u, store'[u], was, commits + 1)
Turned(u) == \E val, was \in Stored : /\ Says(feed', u, val, was, commits + 1)
                                      /\ ~(Matches(val) <=> Matches(was))
LEMMA CommitTells ==
  ASSUME TypeOK, NEW saved \in Rows, NEW removed \in SUBSET Uuid, Commit(saved, removed)
  PROVE  /\ store' \in Rows /\ feed' \in Seq(Event) /\ commits' = commits + 1
         /\ \A u, val, was, at : Says(feed, u, val, was, at) => Says(feed', u, val, was, at)
         /\ \A u \in Uuid : /\ saved[u] # None \/ u \in removed => Told(u)
                            /\ saved[u] = None /\ u \notin removed => store'[u] = store[u]
                            /\ ~(Matches(store[u]) <=> Matches(store'[u])) => Turned(u)
         /\ \A i \in DOMAIN feed' : (\E j \in DOMAIN feed : feed'[i] = feed[j]) \/ feed'[i].at = commits + 1
<1> DEFINE kept(u) == IF saved[u] # None THEN saved[u] ELSE store[u]
           event(u, val, was) == [uuid |-> u, val |-> val, was |-> was, at |-> commits + 1]
<1>1. store' = [u \in Uuid |-> IF u \in removed THEN None ELSE kept(u)] /\ commits' = commits + 1
  BY DEF Commit
<1>2. PICK first \in SetToSeqs(Present(saved)), rest \in SetToSeqs(removed) :
        feed' = feed \o [i \in DOMAIN first |-> event(first[i], saved[first[i]], store[first[i]])]
                     \o [i \in DOMAIN rest |-> event(rest[i], None, kept(rest[i]))]
  BY DEF Commit
<1> DEFINE A == [i \in DOMAIN first |-> event(first[i], saved[first[i]], store[first[i]])]
           B == [i \in DOMAIN rest |-> event(rest[i], None, kept(rest[i]))]
<1>3. /\ Present(saved) \subseteq Uuid /\ IsFiniteSet(Present(saved)) /\ IsFiniteSet(removed)
      /\ store \in Rows /\ feed \in Seq(Event) /\ commits + 1 \in Nat
  BY CacheAssumption, FS_Subset DEF Present, TypeOK
<1>4. /\ store' \in Rows
      /\ \A u \in Uuid : kept(u) \in Stored /\ saved[u] \in Stored /\ store[u] \in Stored /\ None \in Stored
  BY <1>1, <1>3 DEF Rows, Stored
<1>5. /\ first \in Seq(Present(saved)) /\ rest \in Seq(removed)
      /\ \A u \in Present(saved) : \E i \in DOMAIN first : first[i] = u
      /\ \A u \in removed : \E i \in DOMAIN rest : rest[i] = u
  BY <1>3, Orders
<1>6. /\ DOMAIN first = 1..Len(first) /\ Len(first) \in Nat
      /\ DOMAIN rest = 1..Len(rest) /\ Len(rest) \in Nat
      /\ \A i \in DOMAIN first : first[i] \in Uuid
      /\ \A i \in DOMAIN rest : rest[i] \in Uuid
  <2>1. /\ \A i \in DOMAIN first : first[i] \in Present(saved)
        /\ \A i \in DOMAIN rest : rest[i] \in removed
    BY <1>5, LenProperties, ElementOfSeq
  <2> QED BY <1>3, <1>5, <2>1, LenProperties
<1>7. A \in Seq(Event)
  <2>1. \A i \in 1..Len(first) : event(first[i], saved[first[i]], store[first[i]]) \in Event
    BY <1>3, <1>4, <1>6 DEF Event
  <2> QED BY <1>6, <2>1
<1>8. B \in Seq(Event)
  <2>1. \A i \in 1..Len(rest) : event(rest[i], None, kept(rest[i])) \in Event
    BY <1>3, <1>4, <1>6 DEF Event
  <2> QED BY <1>6, <2>1
<1>9. \A u \in Present(saved) : Says(A, u, saved[u], store[u], commits + 1)
  <2>1. /\ DOMAIN A = DOMAIN first
        /\ \A i \in DOMAIN first : /\ A[i].uuid = first[i] /\ A[i].val = saved[first[i]]
                                   /\ A[i].was = store[first[i]] /\ A[i].at = commits + 1
    OBVIOUS
  <2> HIDE DEF A
  <2> QED BY <1>5, <2>1 DEF Says
<1>10. \A u \in removed : Says(B, u, None, kept(u), commits + 1)
  <2>1. /\ DOMAIN B = DOMAIN rest
        /\ \A i \in DOMAIN rest : /\ B[i].uuid = rest[i] /\ B[i].val = None
                                  /\ B[i].was = kept(rest[i]) /\ B[i].at = commits + 1
    OBVIOUS
  <2> HIDE DEF B
  <2> QED BY <1>5, <2>1 DEF Says
<1>11. feed' = (feed \o A) \o B
  BY <1>2
<1>18. (\A i \in DOMAIN A : A[i].at = commits + 1) /\ (\A i \in DOMAIN B : B[i].at = commits + 1)
  OBVIOUS
<1> HIDE DEF A, B
<1>12. feed \o A \in Seq(Event) /\ feed' \in Seq(Event)
  BY <1>3, <1>7, <1>8, <1>11, ConcatProperties
<1>13. \A u, val, was, at : /\ Says(feed, u, val, was, at) => Says(feed', u, val, was, at)
                            /\ Says(A, u, val, was, at) => Says(feed', u, val, was, at)
                            /\ Says(B, u, val, was, at) => Says(feed', u, val, was, at)
  BY <1>3, <1>7, <1>8, <1>11, <1>12, SaysEither
<1>14. \A u \in Uuid : /\ u \in Present(saved) <=> saved[u] # None
                       /\ store'[u] = IF u \in removed THEN None ELSE kept(u)
  BY <1>1 DEF Present
<1>15. ASSUME NEW u \in Uuid, saved[u] # None \/ u \in removed
       PROVE  Told(u)
  <2>1. CASE u \in removed
    BY <1>4, <1>10, <1>13, <1>14, <2>1 DEF Told
  <2>2. CASE u \notin removed
    <3>1. store'[u] = saved[u] /\ u \in Present(saved) BY <1>14, <1>15, <2>2
    <3> QED BY <1>4, <1>9, <1>13, <3>1 DEF Told
  <2> QED BY <2>1, <2>2
<1>16. ASSUME NEW u \in Uuid, ~(Matches(store[u]) <=> Matches(store'[u]))
       PROVE  Turned(u)
  <2>1. CASE saved[u] # None /\ ~(Matches(store[u]) <=> Matches(saved[u]))
    BY <1>4, <1>9, <1>13, <1>14, <2>1 DEF Turned
  <2>2. CASE ~(saved[u] # None /\ ~(Matches(store[u]) <=> Matches(saved[u])))
    <3>1. Matches(store[u]) <=> Matches(kept(u)) BY <2>2
    <3>2. u \in removed /\ store'[u] = None BY <1>14, <1>16, <3>1
    <3>3. ~(Matches(None) <=> Matches(kept(u))) BY <1>16, <3>1, <3>2
    <3> QED BY <1>4, <1>10, <1>13, <3>2, <3>3 DEF Turned
  <2> QED BY <2>1, <2>2
<1>17. \A u \in Uuid : saved[u] = None /\ u \notin removed => store'[u] = store[u]
  BY <1>14
<1>19. ASSUME NEW i \in DOMAIN feed'
       PROVE  (\E j \in DOMAIN feed : feed'[i] = feed[j]) \/ feed'[i].at = commits + 1
  <2>1. (\E j \in DOMAIN (feed \o A) : feed'[i] = (feed \o A)[j]) \/ (\E j \in DOMAIN B : feed'[i] = B[j])
    BY <1>8, <1>11, <1>12, EitherSays
  <2>2. \A j \in DOMAIN (feed \o A) : \/ \E k \in DOMAIN feed : (feed \o A)[j] = feed[k]
                                      \/ \E k \in DOMAIN A : (feed \o A)[j] = A[k]
    BY <1>3, <1>7, EitherSays
  <2> QED BY <1>18, <2>1, <2>2
<1> QED BY <1>1, <1>4, <1>12, <1>13, <1>15, <1>16, <1>17, <1>19

---------------------------------------------------------------------------
(* The types of reads, of the live query and of their parts. *)
Lives == [on : BOOLEAN, token : Nat, detached : BOOLEAN, state : LiveState, missed : Nat]

LEMMA ReadTypes ==
  /\ Idle \in ReadState /\ Unloaded \in LiveState /\ NoRows \in Rows
  /\ \A u \in Uuid : [Idle EXCEPT !.for = "get", !.pc = "asked", !.wanted = {u}] \in ReadState
  /\ [Idle EXCEPT !.for = "list", !.pc = "start"] \in ReadState
  /\ \A token \in Nat : Run(token) \in ReadState
BY DEF Idle, Unloaded, NoRows, Rows, Stored, ReadState, LiveState, Run

LEMMA Begins ==
  ASSUME NEW read, Begin(read)
  PROVE  \E s \in Slot : reads[s] = Idle /\ reads' = [reads EXCEPT ![s] = read]
BY DEF Begin, Free

LEMMA BeginTypes ==
  ASSUME reads \in [Slot -> ReadState], NEW read \in ReadState, Begin(read)
  PROVE  reads' \in [Slot -> ReadState]
BY Begins

LEMMA Selects ==
  ASSUME NEW rows \in Rows
  PROVE  Select(rows) \in Rows /\ Present(rows) \subseteq Uuid
BY DEF Rows, Select, Present, Stored

LEMMA Answers ==
  ASSUME TypeOK, NEW read \in ReadState
  PROVE  /\ Answer(read) \in ReadState
         /\ Answer(read).for = read.for /\ Answer(read).token = read.token
         /\ Answer(read).pc = read.pc /\ Answer(read).asOf = commits /\ Answer(read).heard = read.heard
         /\ read.for # "get" => Answer(read).rows = Select(store)
         /\ read.for = "get" => Answer(read).rows =
                                  [u \in Uuid |-> IF u \in read.wanted THEN store[u] ELSE None]
<1>1. store \in Rows /\ commits \in Nat /\ Select(store) \in Rows
  BY CacheAssumption, Selects DEF TypeOK
<1>2. [u \in Uuid |-> IF u \in read.wanted THEN store[u] ELSE None] \in Rows
  BY <1>1 DEF Rows, Stored
<1> QED BY <1>1, <1>2 DEF Answer, ReadState

(* The rows of an answer are taken in. *)
LEMMA Absorbs ==
  ASSUME TypeOK, NEW s \in Slot, NEW read \in ReadState, Absorb(s, read)
  PROVE  /\ instance' \in Rows /\ baseline' \in Rows
         /\ reads' \in [Slot -> ReadState]
         /\ \A t \in Slot : t # s => reads'[t] = reads[t]
         /\ \E pc \in {"loaded", "done"}, heard \in Nat :
              /\ reads'[s] = [read EXCEPT !.pc = pc, !.heard = heard, !.found = Present(read.rows), !.rows = NoRows]
              /\ heard <= reported
              /\ pc = "loaded" => heard = reported /\ read.for # "get" /\ ~Uncached(read)
         /\ behind' \in SUBSET Uuid
<1>1. read.rows \in Rows /\ read.asOf \in Nat /\ Present(read.rows) \subseteq Uuid
  BY Selects DEF ReadState
<1>2. instance' \in Rows /\ baseline' \in Rows
  BY <1>1 DEF TypeOK, Absorb, Rows, Materialized
<1>3. reported \in Nat BY DEF TypeOK
<1>4. PICK pc \in {"loaded", "done"}, heard \in {0, reported} :
        /\ reads' = [reads EXCEPT ![s] = [read EXCEPT !.pc = pc, !.heard = heard, !.found = Present(read.rows),
                                                      !.rows = NoRows]]
        /\ pc = "loaded" => heard = reported /\ read.for # "get" /\ ~Uncached(read)
  BY DEF Absorb
<1> DEFINE found == Present(read.rows)
           after == [read EXCEPT !.pc = pc, !.heard = heard, !.found = found, !.rows = NoRows]
<1>5. after \in ReadState
  <2>1. heard \in Nat /\ found \in SUBSET Uuid BY <1>1, <1>3
  <2>2. NoRows \in Rows BY ReadTypes, Zenon
  <2>3. pc \in {"idle", "start", "asked", "read", "loaded", "done"} OBVIOUS
  <2> HIDE DEF found
  <2> QED BY <2>1, <2>2, <2>3 DEF ReadState
<1>6. behind' \in SUBSET Uuid
  BY <1>1 DEF Absorb, TypeOK
<1>7. heard \in Nat /\ heard <= reported BY <1>3
<1>8. reads' \in [Slot -> ReadState] /\ reads'[s] = after /\ \A t \in Slot : t # s => reads'[t] = reads[t]
  <2>1. reads' = [reads EXCEPT ![s] = after] BY <1>4
  <2> HIDE DEF after
  <2> QED BY <1>5, <2>1 DEF TypeOK
<1> QED BY <1>2, <1>4, <1>6, <1>7, <1>8

(* A list's result is kept. *)
LEMMA SetsResult ==
  ASSUME TypeOK, NEW s \in Slot, SetResult(s)
  PROVE  /\ reads[s].pc = "loaded" /\ reads' \in [Slot -> ReadState]
         /\ \A t \in Slot : t # s => reads'[t] = reads[t]
         /\ reads'[s] = [reads[s] EXCEPT !.pc = "done", !.heard = 0]
         /\ result' \in SUBSET Entry /\ Cardinality(result') <= 1
<1> DEFINE hit == [found |-> reads[s].found, asOf |-> reads[s].asOf,
                   late |-> reads[s].asOf < reported \/ reads[s].heard < reported]
<1>1. reads[s] \in ReadState BY DEF TypeOK
<1>2. hit \in Entry BY <1>1 DEF Entry, ReadState
<1>3. reads[s].pc = "loaded" /\ result' = {hit} BY DEF SetResult
<1> HIDE DEF hit
<1>5. Cardinality({hit}) = 1 BY FS_Singleton
<1>6. [reads[s] EXCEPT !.pc = "done", !.heard = 0] \in ReadState BY <1>1 DEF ReadState
<1>7. reads' = [reads EXCEPT ![s] = [reads[s] EXCEPT !.pc = "done", !.heard = 0]]
  BY <1>1 DEF SetResult, TypeOK
<1> QED BY <1>2, <1>3, <1>5, <1>6, <1>7 DEF TypeOK

KeptOf(hit, read) == /\ hit.found = read.found /\ hit.asOf = read.asOf
                     /\ hit.late <=> (read.asOf < reported \/ read.heard < reported)

LEMMA KeepsHit ==
  ASSUME TypeOK, NEW s \in Slot, SetResult(s)
  PROVE  \E hit \in Entry : KeptOf(hit, reads[s]) /\ result' = {hit}
<1> DEFINE hit == [found |-> reads[s].found, asOf |-> reads[s].asOf,
                   late |-> reads[s].asOf < reported \/ reads[s].heard < reported]
<1>1. reads[s] \in ReadState BY DEF TypeOK
<1>2. hit \in Entry BY <1>1 DEF Entry, ReadState
<1>3. result' = {hit} BY DEF SetResult
<1>4. KeptOf(hit, reads[s]) BY DEF KeptOf
<1> HIDE DEF hit
<1> QED BY <1>2, <1>3, <1>4

LEMMA CommitTypes ==
  ASSUME TypeOK, NEW saved \in Rows, NEW removed \in SUBSET Uuid, Commit(saved, removed)
  PROVE  store' \in Rows /\ feed' \in Seq(Event) /\ commits' \in Nat
<1> HIDE DEF Commit
<1> QED BY CommitTells DEF TypeOK

LEMMA ExecuteTypes ==
  ASSUME TypeOK, NEW now, now \in Lives,
         Execute(now)
  PROVE  /\ reads' \in [Slot -> ReadState]
         /\ live' \in Lives
<1>1. now.token + 1 \in Nat BY DEF Lives
<1>2. Run(now.token + 1) \in ReadState BY <1>1, ReadTypes
<1>3. PICK s \in Slot : reads' = [reads EXCEPT ![s] = Run(now.token + 1)]
  BY Begins DEF Execute
<1>4. live' = [now EXCEPT !.token = @ + 1] BY DEF Execute
<1> QED BY <1>1, <1>2, <1>3, <1>4 DEF TypeOK, Lives

LEMMA InitTypes == Init => TypeOK
<1> SUFFICES ASSUME Init PROVE TypeOK OBVIOUS
<1>1. Cardinality({}) = 0 BY FS_EmptySet
<1>2. feed \in Seq(Event) BY EmptySeq DEF Init
<1>3. live \in Lives
  BY ReadTypes DEF Init, Lives
<1>4. reads \in [Slot -> ReadState] BY ReadTypes DEF Init
<1>5. result \in SUBSET Entry /\ Cardinality(result) <= 1
  BY <1>1 DEF Init, Entry
<1>6. writes \in 0..MaxWrites /\ asked \in 0..MaxReads /\ errors \in 0..MaxErrors
  BY CacheAssumption DEF Init
<1>7. saves \in Rows /\ instance \in Rows /\ baseline \in Rows /\ store \in Rows
  BY ReadTypes DEF Init, Rows
<1>8. commits \in Nat /\ reported \in Nat /\ behind \in SUBSET Uuid BY DEF Init
<1> QED BY <1>2, <1>3, <1>4, <1>5, <1>6, <1>7, <1>8 DEF Init, TypeOK, Lives

LEMMA NextTypes ==
  ASSUME TypeOK, Next
  PROVE  TypeOK'
<1>0. /\ writes \in Nat /\ asked \in Nat /\ errors \in Nat
      /\ MaxWrites \in Nat /\ MaxReads \in Nat /\ MaxErrors \in Nat
  BY CacheAssumption DEF TypeOK
<1>l. live \in Lives BY DEF TypeOK, Lives
<1>h. /\ commits \in Nat /\ reported \in Nat
      /\ \A at \in Nat : Heard(at) => reported' \in Nat
  BY DEF TypeOK, Heard
<1>1. CASE Subscribe
  <2>1. [live EXCEPT !.on = TRUE] \in Lives BY <1>l DEF Lives
  <2>2. reads' \in [Slot -> ReadState] /\ live' \in Lives
    BY <1>1, <2>1, ExecuteTypes DEF Subscribe
  <2>3. asked' \in 0..MaxReads BY <1>0, <1>1 DEF Subscribe, MayAsk
  <2> QED BY <1>1, <2>2, <2>3 DEF Subscribe, TypeOK, Lives, history, storeVars, cacheVars
<1>2. CASE Unsubscribe
  <2>1. live' = [live EXCEPT !.on = FALSE, !.token = live.token + 1, !.detached = FALSE, !.state = Unloaded]
    BY <1>2 DEF Unsubscribe, Reset
  <2>2. live.token + 1 \in Nat BY <1>l DEF Lives
  <2>3. Unloaded \in LiveState BY ReadTypes, Zenon
  <2>4. live' \in Lives
    <3> DEFINE n == live.token + 1
    <3>1. n \in Nat /\ live' = [live EXCEPT !.on = FALSE, !.token = n, !.detached = FALSE, !.state = Unloaded]
      BY <2>1, <2>2
    <3> HIDE DEF n
    <3> QED BY <1>l, <2>3, <3>1 DEF Lives
  <2> QED BY <1>2, <2>4 DEF Unsubscribe, TypeOK, Lives, history, storeVars, cacheVars, boundVars
<1>3. CASE Refetch
  <2>1. [live EXCEPT !.detached = @ \/ ~live.on] \in Lives BY <1>l DEF Lives
  <2>2. reads' \in [Slot -> ReadState] /\ live' \in Lives
    BY <1>3, <2>1, ExecuteTypes DEF Refetch
  <2>3. asked' \in 0..MaxReads BY <1>0, <1>3 DEF Refetch, MayAsk
  <2> QED BY <1>3, <2>2, <2>3 DEF Refetch, TypeOK, Lives, history, storeVars, cacheVars
<1>4. CASE List
  <2>1. reads' \in [Slot -> ReadState]
    BY <1>4, BeginTypes, ReadTypes DEF List, TypeOK
  <2>2. asked' \in 0..MaxReads BY <1>0, <1>4 DEF List, MayAsk
  <2> QED BY <1>4, <2>1, <2>2 DEF List, TypeOK, Lives, history, storeVars, cacheVars
<1>5. CASE Persist
  <2>1. saves \in Rows /\ removes \in SUBSET Uuid BY DEF TypeOK
  <2>2. store' \in Rows /\ feed' \in Seq(Event) /\ commits' \in Nat BY <1>5, <2>1, CommitTypes DEF Persist
  <2> QED BY <1>5, <2>2, ReadTypes DEF Persist, TypeOK, Lives, history, cacheVars, boundVars
<1>6. CASE PatchReturns
  <2>1. patching.uuid \in Uuid /\ patching.at \in Nat BY <1>6 DEF PatchReturns, TypeOK
  <2>2. reads' \in [Slot -> ReadState]
    BY <1>6, <2>1, BeginTypes, ReadTypes DEF PatchReturns, LoadOne, TypeOK
  <2>3. instance' \in Rows
    BY <1>6 DEF PatchReturns, TypeOK, Rows, Stored
  <2>4. Cardinality({}) = 0 BY FS_EmptySet
  <2>5. reported' \in Nat BY <1>6, <1>h, <2>1 DEF PatchReturns
  <2> QED BY <1>6, <2>2, <2>3, <2>4, <2>5 DEF PatchReturns, TypeOK, Lives, history, storeVars, boundVars
<1>7. CASE Change
  <2>1. Head(feed) \in Event /\ feed' \in Seq(Event)
    BY <1>7, HeadTailProperties DEF Change, TypeOK
  <2>2. instance' \in Rows /\ baseline' \in Rows
    BY <1>7, <2>1 DEF Change, TypeOK, Rows, Event, Stored
  <2>3. result' = {} /\ Cardinality({}) = 0
    BY <1>7, FS_EmptySet DEF Change, InvalidatedResult
  <2>4. reads' \in [Slot -> ReadState] /\ live' \in Lives
    <3>1. Misjudging(Head(feed)) \in Lives BY <1>l, <2>1 DEF Misjudging, Lives, Event
    <3>2. CASE Execute(Misjudging(Head(feed))) BY <3>1, <3>2, ExecuteTypes
    <3>3. CASE live' = Misjudging(Head(feed)) /\ UNCHANGED reads BY <3>1, <3>3 DEF TypeOK
    <3> QED BY <1>7, <3>2, <3>3 DEF Change
  <2>5. reported' \in Nat BY <1>7, <1>h, <2>1 DEF Change, Event
  <2> QED BY <1>7, <2>1, <2>2, <2>3, <2>4, <2>5 DEF Change, TypeOK, Lives, history, boundVars
<1>8. ASSUME NEW u \in Uuid, Get(u)
      PROVE  TypeOK'
  <2>1. reads' \in [Slot -> ReadState]
    BY <1>8, BeginTypes, ReadTypes DEF Get, LoadOne, TypeOK
  <2>2. asked' \in 0..MaxReads BY <1>0, <1>8 DEF Get, MayAsk
  <2> QED BY <1>8, <2>1, <2>2 DEF Get, TypeOK, Lives, history, storeVars, cacheVars
<1>9. ASSUME NEW u \in Uuid, Save(u)
      PROVE  TypeOK'
  <2>1. instance' \in Rows /\ saves' \in Rows
    BY <1>9 DEF Save, TypeOK, Rows, Stored
  <2>2. writes' \in 0..MaxWrites BY <1>0, <1>9 DEF Save, MayWrite
  <2>3. behind' \in SUBSET Uuid BY <1>9 DEF Save, TypeOK
  <2> QED BY <1>9, <2>1, <2>2, <2>3 DEF Save, TypeOK
<1>10. ASSUME NEW u \in Uuid, RemoveRecord(u)
       PROVE  TypeOK'
  <2>1. writes' \in 0..MaxWrites BY <1>0, <1>10 DEF RemoveRecord, MayWrite
  <2> QED BY <1>10, <2>1 DEF RemoveRecord, TypeOK, Lives, history, cacheVars
<1>11. ASSUME NEW u \in Uuid, WriteElsewhere(u)
       PROVE  TypeOK'
  <2>1. \A val \in Value : [NoRows EXCEPT ![u] = val] \in Rows
    BY DEF NoRows, Rows, Stored
  <2>2. store' \in Rows /\ feed' \in Seq(Event) /\ commits' \in Nat
    <3>1. ASSUME NEW val \in Value, Commit([NoRows EXCEPT ![u] = val], {})
          PROVE  store' \in Rows /\ feed' \in Seq(Event) /\ commits' \in Nat
      BY <2>1, <3>1, CommitTypes
    <3>2. ASSUME Commit(NoRows, {u})
          PROVE  store' \in Rows /\ feed' \in Seq(Event) /\ commits' \in Nat
      BY <3>2, ReadTypes, CommitTypes
    <3> QED BY <1>11, <3>1, <3>2 DEF WriteElsewhere
  <2>3. writes' \in 0..MaxWrites BY <1>0, <1>11 DEF WriteElsewhere, MayWrite
  <2> QED BY <1>11, <2>2, <2>3 DEF WriteElsewhere, TypeOK, Lives, history, cacheVars
<1>12. ASSUME NEW u \in Uuid, Patch(u)
       PROVE  TypeOK'
  <2>1. store' \in Rows BY <1>12 DEF Patch, TypeOK, Rows, Stored
  <2>2. writes' \in 0..MaxWrites BY <1>0, <1>12 DEF Patch, MayWrite
  <2>3. commits' \in Nat /\ patching' \in [uuid : Uuid, at : Nat] BY <1>12, <1>h DEF Patch
  <2> QED BY <1>12, <2>1, <2>2, <2>3 DEF Patch, TypeOK, Lives, history, cacheVars
<1>13. ASSUME NEW s \in Slot, LookUp(s)
       PROVE  TypeOK'
  <2>1. reads' \in [Slot -> ReadState]
    <3>0. reads \in [Slot -> ReadState] /\ reads[s] \in ReadState BY DEF TypeOK
    <3>1. CASE reads' = [reads EXCEPT ![s].pc = "asked"]
      <4>1. [reads[s] EXCEPT !.pc = "asked"] \in ReadState BY <3>0 DEF ReadState
      <4>2. reads' = [reads EXCEPT ![s] = [reads[s] EXCEPT !.pc = "asked"]] BY <3>0, <3>1
      <4> QED BY <3>0, <4>1, <4>2
    <3>2. ASSUME NEW hit \in result,
                 reads' = [reads EXCEPT ![s].pc = "done", ![s].found = hit.found, ![s].asOf = hit.asOf,
                                        ![s].hit = TRUE, ![s].late = hit.late]
          PROVE  reads' \in [Slot -> ReadState]
      <4>1. hit.found \in SUBSET Uuid /\ hit.asOf \in Nat /\ hit.late \in BOOLEAN BY DEF TypeOK, Entry
      <4>2. [reads[s] EXCEPT !.pc = "done", !.found = hit.found, !.asOf = hit.asOf, !.hit = TRUE,
                             !.late = hit.late] \in ReadState
        BY <3>0, <4>1 DEF ReadState
      <4>3. reads' = [reads EXCEPT ![s] = [reads[s] EXCEPT !.pc = "done", !.found = hit.found, !.asOf = hit.asOf,
                                                           !.hit = TRUE, !.late = hit.late]]
        BY <3>0, <3>2
      <4> QED BY <3>0, <4>2, <4>3
    <3> QED BY <1>13, <3>1, <3>2 DEF LookUp
  <2> QED BY <1>13, <2>1 DEF LookUp, TypeOK, Lives, history, storeVars, cacheVars, boundVars
<1>14. ASSUME NEW s \in Slot, Read(s)
       PROVE  TypeOK'
  <2>1. reads[s] \in ReadState /\ Answer(reads[s]) \in ReadState
    BY Answers DEF TypeOK
  <2>2. [Answer(reads[s]) EXCEPT !.pc = "read"] \in ReadState BY <2>1 DEF ReadState
  <2>3. reads' \in [Slot -> ReadState] BY <1>14, <2>2 DEF Read, TypeOK
  <2> QED BY <1>14, <2>3 DEF Read, TypeOK, storeVars, cacheVars, boundVars, history
<1>15. ASSUME NEW s \in Slot, Arrive(s)
       PROVE  TypeOK'
  <2>1. reads[s] \in ReadState BY DEF TypeOK
  <2>2. /\ instance' \in Rows /\ baseline' \in Rows /\ reads' \in [Slot -> ReadState] /\ behind' \in SUBSET Uuid
    BY <1>15, <2>1, Absorbs DEF Arrive
  <2> QED BY <1>15, <2>2 DEF Arrive, TypeOK, storeVars, boundVars
<1>18. ASSUME NEW s \in Slot, SetResult(s)
       PROVE  TypeOK'
  BY <1>18, SetsResult DEF SetResult, TypeOK, Lives, history, storeVars, boundVars
<1>16. ASSUME NEW s \in Slot, Resolve(s)
       PROVE  TypeOK'
  <2>1. reads[s] \in ReadState BY DEF TypeOK
  <2>2. live' \in Lives
    BY <1>16, <1>l, <2>1 DEF Resolve, Lives, LiveState, ReadState
  <2>3. reads' \in [Slot -> ReadState] BY <1>16, ReadTypes DEF Resolve, TypeOK
  <2> QED BY <1>16, <2>2, <2>3 DEF Resolve, TypeOK, Lives, history, storeVars, cacheVars, boundVars
<1>17. ASSUME NEW s \in Slot, Reject(s)
       PROVE  TypeOK'
  <2>1. live' \in Lives
    BY <1>17, <1>l DEF Reject, Lives, LiveState
  <2>2. reads' \in [Slot -> ReadState] BY <1>17, ReadTypes DEF Reject, TypeOK
  <2>3. errors' \in 0..MaxErrors BY <1>0, <1>17 DEF Reject
  <2> QED BY <1>17, <2>1, <2>2, <2>3 DEF Reject, TypeOK, Lives, history, storeVars, cacheVars
<1> QED BY <1>1, <1>2, <1>3, <1>4, <1>5, <1>6, <1>7, <1>8, <1>9, <1>10, <1>11, <1>12,
           <1>13, <1>14, <1>15, <1>16, <1>17, <1>18 DEF Next

(* Type correctness of a repository's caches and of its live query. *)
THEOREM CacheTypes == Spec => []TypeOK
<1>1. ASSUME TypeOK, [Next]_vars
      PROVE  TypeOK'
  <2>1. CASE vars' = vars
    BY <1>1, <2>1 DEF vars, storeVars, cacheVars, boundVars, history, TypeOK
  <2> QED BY <1>1, <2>1, NextTypes
<1> QED BY <1>1, InitTypes, PTL DEF Spec


---------------------------------------------------------------------------
(* A change of u by a commit after a is still to be told: one that takes u into
   the filter or out of it; one that says what u is now. *)
FlipComes(u, a) ==
  \/ \E i \in DOMAIN feed : feed[i].uuid = u /\ feed[i].at > a /\ ~(Matches(feed[i].was) <=> Matches(feed[i].val))
  \/ patching.uuid = u /\ patching.at > a
ValueComes(u, a) ==
  \/ \E i \in DOMAIN feed : feed[i].uuid = u /\ feed[i].at > a /\ feed[i].val = store[u]
  \/ patching.uuid = u /\ patching.at > a

(* What an answer of commit a found, or loaded of the records us, is what is
   stored wherever nothing of the sort is to be told. *)
View(found, a) == \A u \in Uuid : (u \in found <=> Matches(store[u])) \/ FlipComes(u, a)
RowView(us, rows, a) == \A u \in us : Matches(store[u]) => rows[u] = store[u] \/ ValueComes(u, a)

(* An instance that no event, no load and no save will set right. *)
Bad(u) == /\ Matches(store[u]) /\ instance[u] \notin {None, store[u]} /\ saves[u] = None
          /\ u \notin behind /\ ~ValueComes(u, 0)
NoneBad == \A u \in Uuid : ~Bad(u)

(* No instance that only older news will set right. *)
NoneStray == \A u \in Uuid : Matches(store[u]) /\ saves[u] = None /\ u \notin behind =>
                                instance[u] \in {None, store[u]} \/ ValueComes(u, reported)

(* A live query that counts on being told: what it found is right but for what
   is to be told, or changeAffects() has missed a later commit. *)
Counted(found, a) == View(found, a) \/ (query.filtered /\ a < live.missed)

NoPatching == ~query.patches => patching = NoPatch

(* No answer is of a commit to come, and no news. *)
Dates == /\ \A s \in Slot : reads[s].asOf <= commits /\ reads[s].heard <= reported
         /\ \A hit \in result : hit.asOf <= commits
         /\ live.state.asOf <= commits
News == /\ reported <= commits /\ patching.at <= commits
        /\ \A i \in DOMAIN feed : feed[i].at <= commits

(* Rows that do not arrive late are as good as their answer. *)
Asked(read) == IF read.for = "get" THEN Present(read.rows) ELSE Uuid
InTime(read) == /\ read.for # "get" => View(Present(read.rows), read.asOf)
                /\ RowView(Asked(read), read.rows, read.asOf)
ReadsInTime == \A s \in Slot : reads[s].pc = "read" /\ reads[s].asOf >= reported => InTime(reads[s])

(* A result about to be kept is as good as its answer unless it will be late,
   and its rows have set right the instances. *)
Held(read) == read.asOf >= reported /\ read.heard >= reported => View(read.found, read.asOf) /\ NoneStray
LoadsGood == \A s \in Slot : reads[s].pc = "loaded" => Held(reads[s])

Good(hit) == hit.late \/ (hit.asOf >= reported /\ View(hit.found, hit.asOf) /\ NoneBad)
ResultGood == \A hit \in result : Good(hit)

(* The latest run is yet to read, or counts on being told, and its rows set
   right every instance that nothing else does; so does what it leaves. *)
NoRun == \A s \in Slot : ~Current(s)
SetsRight(read) == \A u \in Uuid : Bad(u) => \/ read.rows[u] = store[u]
                                             \/ read.rows[u] # None /\ read.asOf < reported
RunReads(read) == /\ ~query.patches => Counted(Present(read.rows), read.asOf)
                  /\ query.cached => SetsRight(read)
RunFound(found, asOf, late) == /\ ~query.patches => late \/ Counted(found, asOf)
                               /\ query.cached => late \/ NoneBad
RunGood(s) == /\ reads[s].pc = "read" => RunReads(reads[s])
              /\ reads[s].pc \in {"loaded", "done"} => RunFound(reads[s].found, reads[s].asOf, reads[s].late)
LatestGood == live.on => \A s \in Slot : Current(s) => RunGood(s)
ShowsGood == live.on /\ NoRun /\ ~live.state.error =>
  \E found \in SUBSET Uuid : /\ live.state.data = {found}
                             /\ RunFound(found, live.state.asOf, live.state.late)

(* No run has a token that is to come, or that another has. *)
RunsBehind == \A s \in Slot : reads[s].for = "live" => reads[s].token <= live.token
OwnTokens == \A s, t \in Slot :
  reads[s].for = "live" /\ reads[t].for = "live" /\ reads[s].token = reads[t].token => s = t
RunsOK == RunsBehind /\ OwnTokens

(* The latest run is of no earlier commit than what is on show, unless the
   result cache answered it. *)
RunNewer == \A s \in Slot :
  Current(s) /\ (reads[s].pc \in {"read", "loaded"} \/ (reads[s].pc = "done" /\ ~reads[s].hit)) =>
    live.state.asOf <= reads[s].asOf

IInv == /\ TypeOK /\ NoPatching /\ Dates /\ News /\ RunsOK
        /\ ReadsInTime /\ LoadsGood /\ ResultGood /\ LatestGood /\ ShowsGood /\ RunNewer

---------------------------------------------------------------------------
(* What a step leaves: answers that are not late by then, instances that
   something sets right, and what a live query was told. *)
Onward == /\ query' = query /\ commits <= commits' /\ reported <= reported'
          /\ (~query.patches => patching' = patching)
KeepsViews == \A found \in SUBSET Uuid, a \in Nat :
                a <= commits /\ a >= reported' /\ View(found, a) => View(found, a)'
KeepsRows == \A us \in SUBSET Uuid, rows \in Rows, a \in Nat :
               a <= commits /\ a >= reported' /\ RowView(us, rows, a) => RowView(us, rows, a)'
KeepsGood == \A u \in Uuid : Bad(u)' => Bad(u) /\ store'[u] = store[u]
KeepsCounted == ~query.patches => \A found \in SUBSET Uuid, a \in Nat :
                                    a <= commits /\ Counted(found, a) => Counted(found, a)'
KeepsStray == reported' = reported /\ NoneStray => NoneStray'
Keeps == Onward /\ KeepsViews /\ KeepsRows /\ KeepsStray
KeepsAll == Keeps /\ KeepsGood /\ KeepsCounted

LEMMA Values == TypeOK => /\ \A u \in Uuid : store[u] \in Stored
                          /\ commits \in Nat /\ reported \in Nat /\ live.missed \in Nat
BY DEF TypeOK, Rows

LEMMA SameMatches == query' = query => \A val : Matches(val)' <=> Matches(val)
BY DEF Matches

SameData == UNCHANGED <<query, store, feed, patching, commits, reported>> /\ live'.missed = live.missed

LEMMA SameKeeps ==
  ASSUME TypeOK, SameData
  PROVE  Onward /\ KeepsViews /\ KeepsRows /\ KeepsCounted
<1>1. \A val : Matches(val)' <=> Matches(val) BY SameMatches DEF SameData
<1>2. \A u, a : (FlipComes(u, a)' <=> FlipComes(u, a)) /\ (ValueComes(u, a)' <=> ValueComes(u, a))
  BY <1>1 DEF SameData, FlipComes, ValueComes
<1>3. \A found, a : View(found, a)' <=> View(found, a)
  BY <1>1, <1>2 DEF View, SameData
<1>4. \A us, rows, a : RowView(us, rows, a)' <=> RowView(us, rows, a)
  BY <1>1, <1>2 DEF RowView, SameData
<1>5. \A found, a : Counted(found, a)' <=> Counted(found, a)
  BY <1>3 DEF Counted, SameData
<1>6. commits <= commits' /\ reported <= reported'
  BY Values DEF SameData
<1> QED BY <1>3, <1>4, <1>5, <1>6 DEF Onward, KeepsViews, KeepsRows, KeepsCounted, SameData

LEMMA SameGood ==
  ASSUME TypeOK, SameData, UNCHANGED <<instance, saves, behind>>
  PROVE  KeepsAll
<1>1. \A val : Matches(val)' <=> Matches(val) BY SameMatches DEF SameData
<1>2. \A u, a : ValueComes(u, a)' <=> ValueComes(u, a)
  BY DEF SameData, ValueComes
<1>3. KeepsGood BY <1>1, <1>2 DEF KeepsGood, Bad, SameData
<1>4. KeepsStray BY <1>1, <1>2 DEF KeepsStray, NoneStray, ValueComes, SameData
<1> QED BY <1>3, <1>4, SameKeeps DEF KeepsAll, Keeps

(* A change that is told, or a patch. *)
LEMMA CommitKeeps ==
  ASSUME TypeOK, reported <= commits, NEW saved \in Rows, NEW removed \in SUBSET Uuid, Commit(saved, removed),
         UNCHANGED <<query, instance, live, patching, reported, behind>>,
         \A u \in Uuid : saves'[u] = saves[u] \/ saved[u] # None
  PROVE  KeepsAll
<1>1. /\ commits' = commits + 1 /\ commits \in Nat /\ reported \in Nat
      /\ \A u, val, was, at : Says(feed, u, val, was, at) => Says(feed', u, val, was, at)
      /\ \A u \in Uuid : /\ saved[u] # None \/ u \in removed => Told(u)
                         /\ saved[u] = None /\ u \notin removed => store'[u] = store[u]
                         /\ ~(Matches(store[u]) <=> Matches(store'[u])) => Turned(u)
  BY CommitTells, Values
<1>2. \A val : Matches(val)' <=> Matches(val) BY SameMatches
<1>3. ASSUME NEW u \in Uuid, NEW a \in Nat, a <= commits
      PROVE  /\ FlipComes(u, a) => FlipComes(u, a)'
             /\ ~(Matches(store[u]) <=> Matches(store'[u])) => FlipComes(u, a)'
             /\ Told(u) => ValueComes(u, a)'
             /\ store'[u] = store[u] /\ ValueComes(u, a) => ValueComes(u, a)'
  <2>0. commits + 1 > a BY <1>1, <1>3
  <2>1. ASSUME FlipComes(u, a) PROVE FlipComes(u, a)'
    <3>1. CASE patching.uuid = u /\ patching.at > a BY <3>1 DEF FlipComes
    <3>2. ASSUME NEW i \in DOMAIN feed, feed[i].uuid = u, feed[i].at > a,
                 ~(Matches(feed[i].was) <=> Matches(feed[i].val))
          PROVE  FlipComes(u, a)'
      <4>1. Says(feed, u, feed[i].val, feed[i].was, feed[i].at) BY <3>2 DEF Says
      <4>2. Says(feed', u, feed[i].val, feed[i].was, feed[i].at) BY <1>1, <4>1
      <4> QED BY <1>2, <3>2, <4>2 DEF Says, FlipComes
    <3> QED BY <2>1, <3>1, <3>2 DEF FlipComes
  <2>2. ASSUME Turned(u) PROVE FlipComes(u, a)'
    <3>1. PICK val, was \in Stored : /\ Says(feed', u, val, was, commits + 1)
                                     /\ ~(Matches(val) <=> Matches(was))
      BY <2>2 DEF Turned
    <3> QED BY <1>2, <2>0, <3>1 DEF Says, FlipComes
  <2>3. ASSUME Told(u) PROVE ValueComes(u, a)'
    BY <2>0, <2>3 DEF Told, Says, ValueComes
  <2>4. ASSUME store'[u] = store[u], ValueComes(u, a) PROVE ValueComes(u, a)'
    <3>1. CASE patching.uuid = u /\ patching.at > a BY <3>1 DEF ValueComes
    <3>2. ASSUME NEW i \in DOMAIN feed, feed[i].uuid = u, feed[i].at > a, feed[i].val = store[u]
          PROVE  ValueComes(u, a)'
      <4>1. Says(feed, u, store[u], feed[i].was, feed[i].at) BY <3>2 DEF Says
      <4>2. Says(feed', u, store[u], feed[i].was, feed[i].at) BY <1>1, <4>1
      <4> QED BY <2>4, <3>2, <4>2 DEF Says, ValueComes
    <3> QED BY <2>4, <3>1, <3>2 DEF ValueComes
  <2> QED BY <1>1, <2>1, <2>2, <2>3, <2>4
<1>4. \A found, a : a \in Nat /\ a <= commits /\ View(found, a) => View(found, a)'
  <2> SUFFICES ASSUME NEW found, NEW a \in Nat, a <= commits, View(found, a), NEW u \in Uuid
      PROVE  (u \in found <=> Matches(store'[u])) \/ FlipComes(u, a)'
    BY <1>2 DEF View
  <2> QED BY <1>3 DEF View
<1>5. ASSUME NEW us \in SUBSET Uuid, NEW rows, NEW a \in Nat, a <= commits, RowView(us, rows, a)
      PROVE  RowView(us, rows, a)'
  <2> SUFFICES ASSUME NEW u \in us, Matches(store'[u])
      PROVE  rows[u] = store'[u] \/ ValueComes(u, a)'
    BY <1>2 DEF RowView
  <2>0. u \in Uuid OBVIOUS
  <2>1. CASE saved[u] # None \/ u \in removed BY <1>1, <1>3, <1>5, <2>0, <2>1
  <2>2. CASE saved[u] = None /\ u \notin removed BY <1>1, <1>3, <1>5, <2>0, <2>2 DEF RowView
  <2> QED BY <2>1, <2>2
<1>6. KeepsGood
  <2> SUFFICES ASSUME NEW u \in Uuid, Bad(u)' PROVE Bad(u) /\ store'[u] = store[u]
    BY DEF KeepsGood
  <2>1. 0 \in Nat /\ 0 <= commits BY <1>1
  <2>2. ~ValueComes(u, 0)' BY DEF Bad
  <2>3. saved[u] = None /\ store'[u] = store[u] BY <1>1, <1>3, <2>1, <2>2
  <2>4. ~ValueComes(u, 0) BY <1>3, <2>1, <2>2, <2>3
  <2>5. saves'[u] = saves[u] BY <2>3
  <2> QED BY <1>2, <2>3, <2>4, <2>5 DEF Bad
<1>7. KeepsCounted BY <1>4 DEF KeepsCounted, Counted
<1>8. commits <= commits' /\ reported <= reported' BY <1>1
<1>9. KeepsStray
  <2> SUFFICES ASSUME NoneStray, NEW u \in Uuid, Matches(store'[u]), saves'[u] = None, u \notin behind
      PROVE  instance[u] \in {None, store'[u]} \/ ValueComes(u, reported)'
    BY <1>2 DEF KeepsStray, NoneStray
  <2>1. CASE saved[u] # None \/ u \in removed BY <1>1, <1>3, <2>1
  <2>2. CASE saved[u] = None /\ u \notin removed
    <3>1. store'[u] = store[u] /\ saves'[u] = saves[u] BY <1>1, <2>2
    <3>2. instance[u] \in {None, store[u]} \/ ValueComes(u, reported) BY <3>1 DEF NoneStray
    <3> QED BY <1>1, <1>3, <3>1, <3>2
  <2> QED BY <2>1, <2>2
<1> QED BY <1>4, <1>5, <1>6, <1>7, <1>8, <1>9 DEF KeepsAll, Keeps, Onward, KeepsViews, KeepsRows

LEMMA PersistKeeps ==
  ASSUME TypeOK, reported <= commits, Persist
  PROVE  KeepsAll
<1>1. saves \in Rows /\ removes \in SUBSET Uuid BY DEF TypeOK
<1>2. \A u \in Uuid : saves'[u] = saves[u] \/ saves[u] # None
  BY DEF Persist, NoRows
<1>3. UNCHANGED <<query, instance, live, patching, reported, behind>>
  BY DEF Persist, cacheVars
<1>4. Commit(saves, removes) BY DEF Persist
<1> QED BY <1>1, <1>2, <1>3, <1>4, CommitKeeps

LEMMA WriteElsewhereKeeps ==
  ASSUME TypeOK, reported <= commits, NEW u \in Uuid, WriteElsewhere(u)
  PROVE  KeepsAll
<1>1. UNCHANGED <<query, instance, live, patching, reported, behind>> /\ saves' = saves
  BY DEF WriteElsewhere, cacheVars
<1>2. \A val \in Value : [NoRows EXCEPT ![u] = val] \in Rows BY DEF NoRows, Rows, Stored
<1>3. NoRows \in Rows /\ {} \in SUBSET Uuid /\ {u} \in SUBSET Uuid BY ReadTypes
<1>4. \A val \in Value : Commit([NoRows EXCEPT ![u] = val], {}) => KeepsAll
  BY <1>1, <1>2, <1>3, CommitKeeps
<1>5. Commit(NoRows, {u}) => KeepsAll
  BY <1>1, <1>3, CommitKeeps
<1> QED BY <1>4, <1>5 DEF WriteElsewhere

LEMMA SaveKeeps ==
  ASSUME TypeOK, NEW u \in Uuid, Save(u)
  PROVE  KeepsAll
<1>1. PICK val \in Value : instance' = [instance EXCEPT ![u] = val] /\ saves' = [saves EXCEPT ![u] = val]
  BY DEF Save
<1>2. saves'[u] # None /\ \A v \in Uuid : v # u => instance'[v] = instance[v] /\ saves'[v] = saves[v]
  BY <1>1, CacheAssumption DEF TypeOK, Rows
<1>3. SameData /\ behind' = behind \ {u}
  BY DEF Save, SameData
<1>4. \A w : Matches(w)' <=> Matches(w) BY <1>3, SameMatches DEF SameData
<1>5. \A v : /\ ValueComes(v, 0)' <=> ValueComes(v, 0)
             /\ ValueComes(v, reported)' <=> ValueComes(v, reported)
  BY <1>3 DEF SameData, ValueComes
<1>6. KeepsGood BY <1>2, <1>3, <1>4, <1>5 DEF KeepsGood, Bad, SameData
<1>7. KeepsStray BY <1>2, <1>3, <1>4, <1>5 DEF KeepsStray, NoneStray, SameData
<1> QED BY <1>3, <1>6, <1>7, SameKeeps DEF KeepsAll, Keeps

(* A patch of the backend's own tells nothing, but patch() is under way. *)
LEMMA PatchKeeps ==
  ASSUME TypeOK, reported <= commits, NEW u \in Uuid, Patch(u)
  PROVE  KeepsAll
<1>1. PICK val \in Value : store' = [store EXCEPT ![u] = val] BY DEF Patch
<1>2. /\ \A v \in Uuid : v # u => store'[v] = store[v]
      /\ commits \in Nat /\ reported \in Nat
  BY <1>1, Values DEF TypeOK, Rows
<1>3. /\ UNCHANGED <<query, feed, saves, instance, live, reported, behind>> /\ commits' = commits + 1
      /\ patching = NoPatch /\ patching' = [uuid |-> u, at |-> commits + 1] /\ query.patches
  BY DEF Patch, cacheVars
<1>4. \A v \in Uuid : patching.uuid # v /\ (v # u => patching'.uuid # v)
  BY <1>3, CacheAssumption DEF NoPatch
<1>5. \A w : Matches(w)' <=> Matches(w) BY <1>3, SameMatches
<1>6. ASSUME NEW a \in Nat, a <= commits
      PROVE  FlipComes(u, a)' /\ ValueComes(u, a)'
  BY <1>2, <1>3, <1>6 DEF FlipComes, ValueComes
<1>7. \A a : \A v \in Uuid : v # u => (FlipComes(v, a)' <=> FlipComes(v, a)) /\ (ValueComes(v, a)' <=> ValueComes(v, a))
  BY <1>2, <1>3, <1>4, <1>5 DEF FlipComes, ValueComes
<1>8. KeepsViews
  BY <1>2, <1>5, <1>6, <1>7 DEF KeepsViews, View
<1>9. KeepsRows
  BY <1>2, <1>5, <1>6, <1>7 DEF KeepsRows, RowView
<1>10. KeepsGood
  <2>1. 0 \in Nat /\ 0 <= commits BY <1>2
  <2>2. ~Bad(u)' BY <1>6, <2>1 DEF Bad
  <2> QED BY <1>2, <1>3, <1>5, <1>7, <2>2 DEF KeepsGood, Bad
<1>11. Onward /\ KeepsCounted BY <1>2, <1>3 DEF Onward, KeepsCounted
<1>12. KeepsStray
  <2> SUFFICES ASSUME NoneStray, NEW v \in Uuid, Matches(store'[v]), saves[v] = None, v \notin behind
      PROVE  instance[v] \in {None, store'[v]} \/ ValueComes(v, reported)'
    BY <1>3, <1>5 DEF KeepsStray, NoneStray
  <2>1. CASE v = u BY <1>2, <1>3, <1>6, <2>1 DEF ValueComes
  <2>2. CASE v # u
    <3>1. instance[v] \in {None, store'[v]} \/ ValueComes(v, reported) BY <1>2, <2>2 DEF NoneStray
    <3> QED BY <1>2, <1>3, <1>7, <2>2, <3>1 DEF ValueComes
  <2> QED BY <2>1, <2>2
<1> QED BY <1>8, <1>9, <1>10, <1>11, <1>12 DEF KeepsAll, Keeps

LEMMA PatchReturnsKeeps ==
  ASSUME TypeOK, NoPatching, PatchReturns
  PROVE  KeepsAll /\ result' = {}
<1>1. /\ UNCHANGED <<query, store, feed, saves, live, commits, behind>> /\ result' = {}
      /\ patching # NoPatch /\ patching' = NoPatch /\ Heard(patching.at)
  BY DEF PatchReturns, storeVars
<1>2. /\ patching.uuid \in Uuid /\ patching.at \in Nat /\ query.patches
      /\ reported \in Nat /\ commits \in Nat
  BY <1>1, Values DEF TypeOK, NoPatching
<1>3. patching.at <= reported' /\ reported <= reported' /\ reported' \in Nat
  BY <1>1, <1>2 DEF Heard
<1>4. \A u \in Uuid : patching'.uuid # u BY <1>1, CacheAssumption DEF NoPatch
<1>5. \A w : Matches(w)' <=> Matches(w) BY <1>1, SameMatches
<1>6. ASSUME NEW u \in Uuid, NEW a \in Nat, a >= reported'
      PROVE  (FlipComes(u, a) => FlipComes(u, a)') /\ (ValueComes(u, a) => ValueComes(u, a)')
  <2>1. ~(patching.at > a) BY <1>2, <1>3, <1>6
  <2> QED BY <1>1, <1>5, <2>1 DEF FlipComes, ValueComes
<1>7. KeepsViews BY <1>1, <1>5, <1>6 DEF KeepsViews, View
<1>8. KeepsRows BY <1>1, <1>5, <1>6 DEF KeepsRows, RowView
<1>9. KeepsGood
  <2>1. instance'[patching.uuid] = None /\ \A u \in Uuid : u # patching.uuid => instance'[u] = instance[u]
    BY <1>2 DEF PatchReturns, TypeOK, Rows
  <2>2. \A u \in Uuid : u # patching.uuid => (ValueComes(u, 0) => ValueComes(u, 0)')
    BY <1>1 DEF ValueComes
  <2> QED BY <1>1, <1>5, <2>1, <2>2 DEF KeepsGood, Bad
<1>10. Onward /\ KeepsCounted BY <1>1, <1>2, <1>3 DEF Onward, KeepsCounted
<1>11. KeepsStray
  <2>1. instance'[patching.uuid] = None /\ \A u \in Uuid : u # patching.uuid => instance'[u] = instance[u]
    BY <1>2 DEF PatchReturns, TypeOK, Rows
  <2>2. \A u \in Uuid : u # patching.uuid => (ValueComes(u, reported) => ValueComes(u, reported)' \/ reported' # reported)
    BY <1>1 DEF ValueComes
  <2> QED BY <1>1, <1>5, <2>1, <2>2 DEF KeepsStray, NoneStray
<1> QED BY <1>1, <1>7, <1>8, <1>9, <1>10, <1>11 DEF KeepsAll, Keeps

(* An event is taken off the feed. *)
LEMMA Pops ==
  ASSUME TypeOK, feed # <<>>, feed' = Tail(feed)
  PROVE  /\ Head(feed) \in Event
         /\ \A i \in DOMAIN feed' : i + 1 \in DOMAIN feed /\ feed'[i] = feed[i + 1]
         /\ \A i \in DOMAIN feed : feed[i] = Head(feed) \/ \E j \in DOMAIN feed' : feed'[j] = feed[i]
<1>1. /\ feed \in Seq(Event) /\ Len(feed) \in Nat /\ DOMAIN feed = 1..Len(feed)
      /\ Head(feed) = feed[1] /\ Head(feed) \in Event /\ 1 \in DOMAIN feed
      /\ feed' \in Seq(Event) /\ Len(feed') = Len(feed) - 1 /\ DOMAIN feed' = 1..(Len(feed) - 1)
      /\ \A i \in DOMAIN feed' : i + 1 \in DOMAIN feed /\ feed'[i] = feed[i + 1]
  BY HeadTailProperties, LenProperties DEF TypeOK
<1>2. \A i \in DOMAIN feed : i = 1 \/ (i - 1 \in DOMAIN feed' /\ feed'[i - 1] = feed[i])
  BY <1>1
<1> QED BY <1>1, <1>2

(* One that does not wake a live query leaves what it was told: it takes a
   record out of the filter only where changeAffects() misses it. *)
LEMMA ChangeKeeps ==
  ASSUME TypeOK, NoPatching, Change
  PROVE  /\ Keeps /\ result' = {}
         /\ ~Affects(Head(feed)) /\ live' = Misjudging(Head(feed)) => KeepsAll
<1> DEFINE event == Head(feed)
<1>1. /\ UNCHANGED <<query, store, saves, patching, commits, behind>> /\ result' = {}
      /\ feed # <<>> /\ feed' = Tail(feed) /\ Heard(event.at)
  BY DEF Change, InvalidatedResult
<1>2. /\ event \in Event /\ event.at \in Nat /\ reported \in Nat /\ commits \in Nat /\ live.missed \in Nat
      /\ \A i \in DOMAIN feed : feed[i] = event \/ \E j \in DOMAIN feed' : feed'[j] = feed[i]
  BY <1>1, Pops, Values DEF Event
<1>3. event.at <= reported' /\ reported <= reported' /\ reported' \in Nat
  BY <1>1, <1>2 DEF Heard
<1>i. \A u \in Uuid : instance'[u] \in {None, instance[u]}
  BY DEF Change, TypeOK, Rows
<1> HIDE DEF event
<1>4. \A w : Matches(w)' <=> Matches(w) BY <1>1, SameMatches
<1>5. ASSUME NEW u \in Uuid, NEW a \in Nat
      PROVE  /\ FlipComes(u, a) => \/ FlipComes(u, a)'
                                   \/ event.at > a /\ ~(Matches(event.was) <=> Matches(event.val))
             /\ ValueComes(u, a) => \/ ValueComes(u, a)'
                                    \/ event.at > a /\ event.val = store[u]
  BY <1>1, <1>2, <1>4 DEF FlipComes, ValueComes
<1>6. \A a \in Nat : a >= reported' => ~(event.at > a)
  BY <1>2, <1>3
<1>7. KeepsViews BY <1>1, <1>4, <1>5, <1>6 DEF KeepsViews, View
<1>8. KeepsRows BY <1>1, <1>4, <1>5, <1>6 DEF KeepsRows, RowView
<1>9. Onward BY <1>1, <1>2, <1>3 DEF Onward
<1>10. ASSUME ~Affects(event), live' = Misjudging(event)
       PROVE  KeepsGood /\ KeepsCounted
  <2>1. query.filtered /\ ~Matches(event.val) /\ ~Matches(baseline[event.uuid])
    BY <1>10 DEF Affects
  <2>2. KeepsGood
    BY <1>1, <1>4, <1>5, <1>i, <2>1 DEF KeepsGood, Bad
  <2>3. live \in Lives BY DEF TypeOK, Lives
  <2>4. live.missed <= live'.missed /\ (Matches(event.was) => event.at <= live'.missed) /\ live'.missed \in Nat
    BY <1>2, <1>10, <2>1, <2>3 DEF Misjudging, Lives
  <2>5. ASSUME NEW found \in SUBSET Uuid, NEW a \in Nat, Counted(found, a)
        PROVE  Counted(found, a)'
    <3>1. CASE query.filtered /\ a < live.missed BY <1>1, <1>2, <2>4, <3>1 DEF Counted
    <3>2. CASE event.at > a /\ Matches(event.was) BY <1>1, <1>2, <2>1, <2>4, <3>2 DEF Counted
    <3>3. CASE View(found, a) /\ ~(event.at > a /\ Matches(event.was))
      BY <1>1, <1>4, <1>5, <2>1, <3>3 DEF Counted, View
    <3> QED BY <2>5, <3>1, <3>2, <3>3 DEF Counted
  <2> QED BY <2>2, <2>5 DEF KeepsCounted
<1>11. KeepsStray
  <2> SUFFICES ASSUME reported' = reported, NoneStray, NEW u \in Uuid, Matches(store[u]), saves[u] = None, u \notin behind
      PROVE  instance'[u] \in {None, store[u]} \/ ValueComes(u, reported)'
    BY <1>1, <1>4 DEF KeepsStray, NoneStray
  <2>1. CASE instance[u] \in {None, store[u]} BY <1>i, <2>1
  <2>2. CASE ValueComes(u, reported)
    <3>1. PICK a \in Nat : a = reported BY <1>2
    <3>2. ValueComes(u, a)' BY <1>5, <1>6, <2>2, <3>1
    <3> QED BY <3>1, <3>2 DEF ValueComes
  <2> QED BY <2>1, <2>2 DEF NoneStray
<1> QED BY <1>1, <1>7, <1>8, <1>9, <1>10, <1>11 DEF Keeps, KeepsAll, event

---------------------------------------------------------------------------
(* How a step concerns the latest run: a new one has begun, it is left alone,
   or it makes a step of its own. *)
Renewed ==
  /\ \A s \in Slot : Current(s)' => reads'[s].pc \in {"start", "asked"}
  /\ ~NoRun'
SameRuns ==
  /\ live'.on = live.on /\ live'.token = live.token /\ live'.state = live.state
  /\ \A s \in Slot : /\ Current(s)' <=> Current(s)
                     /\ Current(s) => reads'[s] = reads[s]

LEMMA LiveType ==
  ASSUME TypeOK
  PROVE  /\ live \in Lives /\ live.token \in Nat /\ live.state.asOf \in Nat
         /\ \A s \in Slot : /\ reads[s] \in ReadState /\ reads[s].token \in Nat
                            /\ reads[s].asOf \in Nat /\ reads[s].heard \in Nat
         /\ \A hit \in result : hit \in Entry /\ hit.asOf \in Nat /\ hit.found \in SUBSET Uuid
BY DEF TypeOK, Lives, ReadState, LiveState, Entry

LEMMA ExecuteRenews ==
  ASSUME TypeOK, RunsOK, NEW now \in Lives, now.token = live.token, Execute(now), query' = query
  PROVE  /\ RunsOK' /\ Renewed
         /\ live'.state = now.state /\ live'.on = now.on /\ live'.missed = now.missed
         /\ \A s \in Slot : reads'[s] = reads[s] \/ reads'[s] = Run(live.token + 1)
<1> DEFINE n == live.token + 1
           run == Run(n)
<1>1. PICK r \in Slot : reads[r] = Idle /\ reads' = [reads EXCEPT ![r] = run]
  BY Begins DEF Execute
<1>2. live' = [now EXCEPT !.token = n] BY DEF Execute
<1>3. live'.token = n /\ live'.state = now.state /\ live'.on = now.on /\ live'.missed = now.missed
  BY <1>2 DEF Lives
<1>4. run.for = "live" /\ run.token = n /\ run.pc \in {"start", "asked"}
  BY DEF Run, Idle
<1>5. reads' \in [Slot -> ReadState] /\ reads'[r] = run /\ \A s \in Slot : s # r => reads'[s] = reads[s]
  <2>1. n \in Nat BY LiveType
  <2>2. run \in ReadState BY <2>1, ReadTypes
  <2> HIDE DEF run
  <2> QED BY <1>1, <2>2 DEF TypeOK
<1>6. live.token \in Nat /\ \A s \in Slot : reads[s].token \in Nat BY LiveType
<1>7. \A s \in Slot : reads[s].for = "live" => reads[s].token < n
  BY <1>6 DEF RunsOK, RunsBehind
<1> HIDE DEF run
<1>8. \A s \in Slot : Current(s)' <=> s = r
  BY <1>3, <1>4, <1>5, <1>6, <1>7 DEF Current
<1>9. Renewed
  BY <1>4, <1>5, <1>8 DEF Renewed, NoRun
<1>10. RunsBehind'
  BY <1>3, <1>4, <1>5, <1>6, <1>7 DEF RunsBehind
<1>11. OwnTokens'
  BY <1>4, <1>5, <1>6, <1>7 DEF RunsOK, OwnTokens
<1>12. \A s \in Slot : reads'[s] = reads[s] \/ reads'[s] = run
  BY <1>1, <1>5
<1> QED BY <1>3, <1>9, <1>10, <1>11, <1>12 DEF run, RunsOK

(* A read of the application's own. *)
LEMMA BesidesRuns ==
  ASSUME TypeOK, RunsOK, NEW read \in ReadState, read.for # "live", Begin(read),
         live' = live, query' = query
  PROVE  RunsOK' /\ SameRuns /\ \A s \in Slot : reads'[s] = reads[s] \/ reads'[s] = read
<1>1. PICK r \in Slot : reads[r] = Idle /\ reads' = [reads EXCEPT ![r] = read]
  BY Begins
<1>2. reads'[r] = read /\ \A s \in Slot : s # r => reads'[s] = reads[s]
  BY <1>1 DEF TypeOK
<1>3. SameRuns
  BY <1>1, <1>2 DEF SameRuns, Current, Idle
<1>4. RunsBehind' /\ OwnTokens'
  BY <1>2 DEF RunsOK, RunsBehind, OwnTokens
<1> QED BY <1>2, <1>3, <1>4 DEF RunsOK

(* One read takes a step and stays the run it was, or ends. *)
LEMMA ReadSteps ==
  ASSUME TypeOK, RunsOK, NEW s \in Slot, live'.token = live.token,
         \A t \in Slot : t # s => reads'[t] = reads[t],
         \/ reads'[s] = Idle
         \/ reads'[s].for = reads[s].for /\ reads'[s].token = reads[s].token
  PROVE  /\ RunsOK'
         /\ \A t \in Slot : t # s => (Current(t)' <=> Current(t))
         /\ Current(s)' => Current(s)
         /\ Current(s) => \A t \in Slot : Current(t) => t = s
         /\ ~Current(s) /\ live' = live => SameRuns
<1>1. \A t \in Slot : t # s => (Current(t)' <=> Current(t))
  BY DEF Current
<1>2. Current(s)' => Current(s)
  BY DEF Current, Idle
<1>3. RunsOK'
  <2>1. Idle.for # "live" BY DEF Idle
  <2>2. \A t \in Slot : reads'[t].for = "live" =>
          reads[t].for = "live" /\ reads'[t].token = reads[t].token
    BY <2>1
  <2> QED BY <2>2 DEF RunsOK, RunsBehind, OwnTokens
<1>4. Current(s) => \A t \in Slot : Current(t) => t = s
  BY DEF Current, RunsOK, OwnTokens
<1>5. ~Current(s) /\ live' = live => SameRuns
  BY <1>1, <1>2 DEF SameRuns
<1> QED BY <1>1, <1>2, <1>3, <1>4, <1>5

---------------------------------------------------------------------------
(* What is held of answers stays as good as it was. *)
LEMMA InTimeKept ==
  ASSUME TypeOK, Keeps, NEW read \in ReadState,
         read.asOf <= commits, read.asOf >= reported', InTime(read)
  PROVE  InTime(read)'
<1>1. read.rows \in Rows /\ Present(read.rows) \in SUBSET Uuid /\ Asked(read) \in SUBSET Uuid /\ read.asOf \in Nat
  BY DEF ReadState, Present, Asked
<1>2. read.for # "get" => View(Present(read.rows), read.asOf)'
  BY <1>1 DEF InTime, Keeps, KeepsViews
<1>3. RowView(Asked(read), read.rows, read.asOf)'
  BY <1>1 DEF InTime, Keeps, KeepsRows
<1> QED BY <1>2, <1>3 DEF InTime

LEMMA ReadsKept ==
  ASSUME TypeOK, TypeOK', Dates, ReadsInTime, Keeps, NEW s \in Slot, reads'[s] = reads[s],
         reads'[s].pc = "read", reads'[s].asOf >= reported'
  PROVE  InTime(reads[s])'
<1>1. PICK read \in ReadState : read = reads[s] /\ read = reads'[s] BY LiveType
<1>2. read.asOf \in Nat /\ reported \in Nat /\ reported' \in Nat /\ reported <= reported' /\ read.asOf >= reported'
  BY <1>1, LiveType, Values DEF TypeOK, Keeps, Onward
<1>3. read.asOf >= reported BY <1>2
<1>4. InTime(read) /\ read.asOf <= commits
  BY <1>1, <1>3 DEF ReadsInTime, Dates
<1>5. InTime(read)' BY <1>2, <1>4, InTimeKept
<1> QED BY <1>1, <1>5 DEF InTime, View, RowView, Asked, FlipComes, ValueComes

LEMMA LoadsKept ==
  ASSUME TypeOK, TypeOK', Dates, LoadsGood, Keeps, NEW s \in Slot, reads'[s] = reads[s],
         reads'[s].pc = "loaded"
  PROVE  Held(reads[s])'
<1>1. PICK read \in ReadState : read = reads[s] /\ read = reads'[s] BY LiveType
<1>2. /\ read.asOf \in Nat /\ read.heard \in Nat /\ read.found \in SUBSET Uuid
      /\ reported \in Nat /\ reported' \in Nat /\ reported <= reported'
  BY Values DEF ReadState, TypeOK, Keeps, Onward
<1>3. ASSUME read.asOf >= reported', read.heard >= reported'
      PROVE  View(read.found, read.asOf)' /\ NoneStray'
  <2>1. /\ read.asOf <= commits /\ read.asOf >= reported /\ read.heard >= reported /\ reported' = reported
        /\ Held(read)
    BY <1>1, <1>2, <1>3 DEF Dates, LoadsGood
  <2> QED BY <1>2, <1>3, <2>1 DEF Held, Keeps, KeepsViews, KeepsStray
<1>4. Held(read)' BY <1>3 DEF Held
<1> QED BY <1>1, <1>4 DEF Held, View, FlipComes

LEMMA GoodKept ==
  ASSUME TypeOK, Dates, ResultGood, KeepsAll, reported' = reported, NEW hit \in result
  PROVE  Good(hit)'
<1>1. hit.asOf \in Nat /\ hit.found \in SUBSET Uuid /\ hit.asOf <= commits /\ Good(hit)
  BY LiveType DEF Dates, ResultGood
<1>2. NoneBad => NoneBad' BY DEF NoneBad, KeepsAll, KeepsGood
<1>3. hit.asOf >= reported' /\ View(hit.found, hit.asOf) => View(hit.found, hit.asOf)'
  BY <1>1 DEF KeepsAll, Keeps, KeepsViews
<1> QED BY <1>1, <1>2, <1>3 DEF Good

(* Steps that begin a read, or none. *)
Fresh(read) == read.asOf = 0 /\ read.heard = 0 /\ read.pc \notin {"read", "loaded"}
NoAnswer == \A s \in Slot : reads'[s] = reads[s] \/ Fresh(reads'[s])
AnswersOK == Dates /\ ReadsInTime /\ LoadsGood /\ ResultGood
LEMMA AnswersKept ==
  ASSUME TypeOK, TypeOK', AnswersOK, Keeps, NoAnswer,
         live'.state = live.state \/ live'.state.asOf = 0,
         result' = {} \/ (result' = result /\ KeepsAll /\ reported' = reported)
  PROVE  AnswersOK'
<1>1. /\ commits \in Nat /\ commits' \in Nat /\ commits <= commits'
      /\ reported \in Nat /\ reported' \in Nat /\ reported <= reported'
      /\ \A s \in Slot : reads[s].asOf \in Nat /\ reads[s].heard \in Nat
      /\ \A hit \in result : hit.asOf \in Nat
      /\ live.state.asOf \in Nat
  BY LiveType, Values DEF TypeOK, Keeps, Onward
<1>2. Dates' BY <1>1 DEF AnswersOK, Dates, NoAnswer, Fresh
<1>3. ReadsInTime' BY ReadsKept DEF AnswersOK, ReadsInTime, NoAnswer, Fresh
<1>4. ResultGood' BY GoodKept DEF AnswersOK, ResultGood
<1>5. LoadsGood' BY LoadsKept DEF AnswersOK, LoadsGood, NoAnswer, Fresh
<1> QED BY <1>2, <1>3, <1>4, <1>5 DEF AnswersOK

LEMMA FoundKept ==
  ASSUME KeepsAll, NEW found \in SUBSET Uuid, NEW a \in Nat, NEW late, a <= commits, RunFound(found, a, late)
  PROVE  RunFound(found, a, late)'
<1>1. NoneBad => NoneBad' BY DEF NoneBad, KeepsAll, KeepsGood
<1>2. query' = query BY DEF KeepsAll, Keeps, Onward
<1>3. ~query.patches /\ Counted(found, a) => Counted(found, a)' BY DEF KeepsAll, KeepsCounted
<1> QED BY <1>1, <1>2, <1>3 DEF RunFound

LEMMA RunReadsKept ==
  ASSUME TypeOK, TypeOK', KeepsAll, NEW read \in ReadState, read.asOf <= commits, RunReads(read)
  PROVE  RunReads(read)'
<1>1. query' = query BY DEF KeepsAll, Keeps, Onward
<1>2. Present(read.rows) \in SUBSET Uuid /\ read.asOf \in Nat BY DEF ReadState, Present
<1>3. ~query.patches => Counted(Present(read.rows), read.asOf)'
  BY <1>2 DEF RunReads, KeepsAll, KeepsCounted
<1>4. reported \in Nat /\ reported' \in Nat /\ reported <= reported'
  BY DEF TypeOK, KeepsAll, Keeps, Onward
<1>5. SetsRight(read) => SetsRight(read)'
  BY <1>2, <1>4 DEF SetsRight, KeepsAll, KeepsGood
<1> QED BY <1>1, <1>3, <1>5 DEF RunReads

LiveOK == LatestGood /\ ShowsGood /\ RunNewer

(* A step beside the latest run leaves what it found, and what is shown. *)
LEMMA LiveKept ==
  ASSUME TypeOK, TypeOK', Dates, LiveOK, KeepsAll, SameRuns
  PROVE  LiveOK'
<1>1. NoRun' <=> NoRun BY DEF SameRuns, NoRun
<1>2. ASSUME NEW s \in Slot, live'.on, Current(s)'
      PROVE  RunGood(s)'
  <2>1. live.on /\ Current(s) /\ reads'[s] = reads[s] /\ RunGood(s)
    BY <1>2 DEF SameRuns, LiveOK, LatestGood
  <2>2. PICK read \in ReadState : read = reads[s] /\ read = reads'[s] BY <2>1, LiveType
  <2>3. read.asOf <= commits /\ read.asOf \in Nat /\ read.found \in SUBSET Uuid
    BY <2>2 DEF Dates, ReadState
  <2>4. read.pc = "read" => RunReads(read)'
    BY <2>1, <2>2, <2>3, RunReadsKept DEF RunGood
  <2>5. read.pc \in {"loaded", "done"} => RunFound(read.found, read.asOf, read.late)'
    BY <2>1, <2>2, <2>3, FoundKept DEF RunGood
  <2>6. RunReads(reads[s])' <=> RunReads(read)'
    BY <2>2 DEF RunReads, Counted, View, FlipComes, SetsRight, Bad, ValueComes
  <2>7. RunFound(reads[s].found, reads[s].asOf, reads[s].late)' <=> RunFound(read.found, read.asOf, read.late)'
    BY <2>2 DEF RunFound, Counted, View, FlipComes
  <2> QED BY <2>2, <2>4, <2>5, <2>6, <2>7 DEF RunGood
<1>3. ASSUME live'.on, NoRun', ~live'.state.error
      PROVE  \E found \in SUBSET Uuid : /\ live'.state.data = {found}
                                        /\ RunFound(found, live.state.asOf, live.state.late)'
  <2>1. live.on /\ NoRun /\ ~live.state.error /\ live'.state = live.state
    BY <1>1, <1>3 DEF SameRuns
  <2>2. PICK found \in SUBSET Uuid : /\ live.state.data = {found}
                                     /\ RunFound(found, live.state.asOf, live.state.late)
    BY <2>1 DEF LiveOK, ShowsGood
  <2>3. PICK state \in LiveState : state = live.state /\ state = live'.state
    BY <2>1, LiveType DEF Lives
  <2>4. state.asOf \in Nat /\ state.asOf <= commits BY <2>3, LiveType DEF Dates
  <2>5. RunFound(found, state.asOf, state.late)' BY <2>2, <2>3, <2>4, FoundKept
  <2>6. RunFound(found, live.state.asOf, live.state.late)' BY <2>3, <2>5 DEF RunFound, Counted, View, FlipComes
  <2> QED BY <2>1, <2>2, <2>6
<1>4. RunNewer' BY DEF LiveOK, RunNewer, SameRuns
<1> QED BY <1>2, <1>3, <1>4 DEF LiveOK, LatestGood, ShowsGood

LEMMA LiveRenewed == Renewed => LiveOK'
BY DEF Renewed, LiveOK, LatestGood, ShowsGood, RunNewer, RunGood

(* The latest run takes a step, and is the only one that counts. *)
LEMMA LiveRun ==
  ASSUME NEW s \in Slot, Current(s)', \A t \in Slot : Current(t)' => t = s,
         live'.on => RunGood(s)',
         \/ reads'[s].pc \notin {"read", "loaded", "done"}
         \/ reads'[s].pc = "done" /\ reads'[s].hit
         \/ live'.state.asOf <= reads'[s].asOf
  PROVE  LiveOK'
<1>1. ~NoRun' BY DEF NoRun
<1> QED BY <1>1 DEF LiveOK, LatestGood, ShowsGood, RunNewer

---------------------------------------------------------------------------
(* The steps of one read. *)
Safe == RunsOK' /\ AnswersOK' /\ LiveOK'

LEMMA Matched ==
  ASSUME TypeOK
  PROVE  /\ Present(Select(store)) = {u \in Uuid : Matches(store[u])}
         /\ \A u \in Uuid : Matches(store[u]) => store[u] # None /\ Select(store)[u] = store[u]
BY DEF TypeOK, Present, Select, Matches, Rows

(* The cache answers with a result that is late or good. *)
LEMMA LookUpSafe ==
  ASSUME TypeOK, TypeOK', RunsOK, AnswersOK, LiveOK, NEW s \in Slot, LookUp(s)
  PROVE  Safe
<1>1. /\ SameData /\ UNCHANGED <<instance, saves, behind, result, live, query>>
      /\ reads[s] \in ReadState /\ DOMAIN reads = Slot
  BY LiveType DEF LookUp, SameData, storeVars, cacheVars, history, TypeOK
<1>2. KeepsAll BY <1>1, SameGood
<1>3. /\ \A t \in Slot : t # s => reads'[t] = reads[t]
      /\ reads'[s].for = reads[s].for /\ reads'[s].token = reads[s].token /\ reads'[s].heard = reads[s].heard
      /\ \/ reads'[s].pc = "asked" /\ reads'[s].asOf = reads[s].asOf
         \/ \E hit \in result : /\ reads'[s].pc = "done" /\ reads'[s].found = hit.found /\ reads'[s].hit
                                /\ reads'[s].asOf = hit.asOf /\ reads'[s].late = hit.late
  <2>1. CASE reads' = [reads EXCEPT ![s].pc = "asked"]
    BY <1>1, <2>1 DEF ReadState
  <2>2. ASSUME NEW hit \in result,
               reads' = [reads EXCEPT ![s].pc = "done", ![s].found = hit.found, ![s].asOf = hit.asOf,
                                      ![s].hit = TRUE, ![s].late = hit.late]
        PROVE  /\ \A t \in Slot : t # s => reads'[t] = reads[t]
               /\ reads'[s].for = reads[s].for /\ reads'[s].token = reads[s].token /\ reads'[s].heard = reads[s].heard
               /\ reads'[s].pc = "done" /\ reads'[s].found = hit.found /\ reads'[s].hit
               /\ reads'[s].asOf = hit.asOf /\ reads'[s].late = hit.late
    BY <1>1, <2>2 DEF ReadState
  <2> QED BY <2>1, <2>2 DEF LookUp
<1>4. /\ RunsOK'
      /\ \A t \in Slot : t # s => (Current(t)' <=> Current(t))
      /\ Current(s)' => Current(s)
      /\ Current(s) => \A t \in Slot : Current(t) => t = s
      /\ ~Current(s) => SameRuns
  BY <1>1, <1>3, ReadSteps
<1>5. Dates'
  BY <1>1, <1>3 DEF AnswersOK, Dates, SameData
<1>6. ReadsInTime' /\ LoadsGood'
  <2>1. Keeps /\ reads'[s].pc \notin {"read", "loaded"} BY <1>2, <1>3 DEF KeepsAll
  <2> QED BY <1>3, <2>1, ReadsKept, LoadsKept DEF AnswersOK, ReadsInTime, LoadsGood
<1>7. ResultGood'
  BY <1>1, <1>2, GoodKept DEF AnswersOK, ResultGood, SameData
<1>8. CASE ~Current(s) BY <1>2, <1>4, <1>5, <1>6, <1>7, <1>8, LiveKept DEF Safe, AnswersOK
<1>9. CASE Current(s)
  <2>1. Current(s)' /\ \A t \in Slot : Current(t)' => t = s
    BY <1>1, <1>3, <1>4, <1>9 DEF Current
  <2>2. CASE reads'[s].pc = "asked"
    <3>1. Renewed BY <2>1, <2>2 DEF Renewed, NoRun
    <3> QED BY <1>4, <1>5, <1>6, <1>7, <3>1, LiveRenewed DEF Safe, AnswersOK
  <2>3. ASSUME NEW hit \in result, reads'[s].pc = "done", reads'[s].found = hit.found, reads'[s].hit,
               reads'[s].asOf = hit.asOf, reads'[s].late = hit.late
        PROVE  LiveOK'
    <3>1. Good(hit)' BY <1>1, <1>2, GoodKept DEF AnswersOK, SameData
    <3>2. RunFound(hit.found, hit.asOf, hit.late)' BY <3>1 DEF Good, RunFound, Counted
    <3>3. RunFound(reads[s].found, reads[s].asOf, reads[s].late)'
      BY <2>3, <3>2 DEF RunFound, Counted, View, FlipComes
    <3>4. RunGood(s)' BY <2>3, <3>3 DEF RunGood
    <3> QED BY <2>1, <2>3, <3>4, LiveRun
  <2> QED BY <1>3, <1>4, <1>5, <1>6, <1>7, <2>2, <2>3 DEF Safe, AnswersOK
<1> QED BY <1>8, <1>9

(* The backend's answer is what is stored. *)
LEMMA ReadSafe ==
  ASSUME TypeOK, TypeOK', RunsOK, AnswersOK, LiveOK, NEW s \in Slot, Read(s)
  PROVE  Safe
<1>1. /\ SameData /\ UNCHANGED <<instance, saves, behind, result, live, query, store, commits>>
      /\ reads[s] \in ReadState /\ DOMAIN reads = Slot
  BY LiveType DEF Read, SameData, storeVars, cacheVars, history, TypeOK
<1>2. KeepsAll BY <1>1, SameGood
<1> DEFINE answer == Answer(reads[s])
<1>3. /\ answer \in ReadState /\ answer.for = reads[s].for /\ answer.token = reads[s].token /\ answer.asOf = commits
      /\ answer.heard = reads[s].heard
      /\ answer.for # "get" => answer.rows = Select(store)
      /\ answer.for = "get" => answer.rows = [u \in Uuid |-> IF u \in reads[s].wanted THEN store[u] ELSE None]
      /\ reads' = [reads EXCEPT ![s] = [answer EXCEPT !.pc = "read"]]
  BY <1>1, Answers DEF Read
<1> HIDE DEF answer
<1>4. /\ \A t \in Slot : t # s => reads'[t] = reads[t]
      /\ reads'[s].for = reads[s].for /\ reads'[s].token = reads[s].token
      /\ reads'[s].pc = "read" /\ reads'[s].asOf = commits /\ reads'[s].rows = answer.rows
      /\ reads'[s].heard = reads[s].heard
  BY <1>1, <1>3 DEF ReadState
<1>5. /\ RunsOK'
      /\ \A t \in Slot : t # s => (Current(t)' <=> Current(t))
      /\ Current(s)' => Current(s)
      /\ Current(s) => \A t \in Slot : Current(t) => t = s
      /\ ~Current(s) => SameRuns
  BY <1>1, <1>4, ReadSteps
<1>m. \A w : Matches(w)' <=> Matches(w) BY <1>1, SameMatches
<1>6. reads'[s].for # "get" => View(Present(reads[s].rows), reads[s].asOf)'
  <2>1. reads'[s].for # "get" => Present(reads'[s].rows) = {u \in Uuid : Matches(store[u])}
    BY <1>3, <1>4, Matched
  <2>2. Present(reads[s].rows)' = Present(reads'[s].rows) BY DEF Present
  <2>3. reads'[s].for # "get" => \A u \in Uuid : (u \in Present(reads[s].rows) <=> Matches(store[u]))'
    BY <1>1, <1>m, <2>1, <2>2
  <2> QED BY <2>3 DEF View
<1>7. \A u \in Asked(reads'[s]) : Matches(store[u]) => reads'[s].rows[u] = store[u]
  <2>1. CASE reads'[s].for = "get" BY <1>3, <1>4, <2>1 DEF Asked, Present
  <2>2. CASE reads'[s].for # "get" BY <1>3, <1>4, <2>2, Matched DEF Asked
  <2> QED BY <2>1, <2>2
<1>8. InTime(reads[s])'
  <2>1. RowView(Asked(reads[s]), reads[s].rows, reads[s].asOf)'
    BY <1>1, <1>7, <1>m DEF RowView, Asked, Present
  <2> QED BY <1>6, <2>1 DEF InTime
<1>9. Dates'
  <2>1. commits \in Nat BY Values
  <2> QED BY <1>1, <1>4, <2>1 DEF AnswersOK, Dates, SameData
<1>10. ReadsInTime' /\ LoadsGood'
  <2>1. Keeps BY <1>2 DEF KeepsAll
  <2>2. ReadsInTime' BY <1>4, <1>8, <2>1, ReadsKept DEF AnswersOK, ReadsInTime
  <2>3. LoadsGood' BY <1>4, <2>1, LoadsKept DEF AnswersOK, LoadsGood
  <2> QED BY <2>2, <2>3
<1>11. ResultGood'
  BY <1>1, <1>2, GoodKept DEF AnswersOK, ResultGood, SameData
<1>12. CASE ~Current(s) BY <1>2, <1>5, <1>9, <1>10, <1>11, <1>12, LiveKept DEF Safe, AnswersOK
<1>13. CASE Current(s)
  <2>1. Current(s)' /\ \A t \in Slot : Current(t)' => t = s
    BY <1>1, <1>4, <1>5, <1>13 DEF Current
  <2>2. reads'[s].for # "get" /\ Asked(reads'[s]) = Uuid
    BY <1>4, <1>13 DEF Current, Asked
  <2>3. Counted(Present(reads[s].rows), reads[s].asOf)'
    BY <1>6, <2>2 DEF Counted
  <2>4. SetsRight(reads[s])'
    BY <1>1, <1>7, <1>m, <2>2 DEF SetsRight, Bad
  <2>5. RunGood(s)' BY <1>4, <2>3, <2>4 DEF RunGood, RunReads
  <2>6. live'.state.asOf <= reads'[s].asOf BY <1>1, <1>4 DEF AnswersOK, Dates
  <2> QED BY <1>5, <1>9, <1>10, <1>11, <2>1, <2>5, <2>6, LiveRun DEF Safe, AnswersOK
<1> QED BY <1>12, <1>13

(* What is to be told after a later commit is to be told after an earlier one. *)
LEMMA ComesSooner ==
  ASSUME TypeOK, NEW u \in Uuid, NEW a \in Nat, NEW b \in Nat, b <= a, ValueComes(u, a)
  PROVE  ValueComes(u, b)
<1>1. \A i \in DOMAIN feed : feed[i].at \in Nat
  <2>1. feed \in Seq(Event) /\ DOMAIN feed = 1..Len(feed) BY LenProperties DEF TypeOK
  <2>2. \A i \in DOMAIN feed : feed[i] \in Event BY <2>1, ElementOfSeq
  <2> QED BY <2>2 DEF Event
<1>2. patching.uuid = u => patching.at \in Nat
  BY CacheAssumption DEF TypeOK, NoPatch
<1> QED BY <1>1, <1>2 DEF ValueComes

LEMMA NoStrayNoBad ==
  ASSUME TypeOK, NoneStray
  PROVE  NoneBad
<1> SUFFICES ASSUME NEW u \in Uuid, Bad(u) PROVE FALSE BY DEF NoneBad
<1>1. ValueComes(u, reported) BY DEF Bad, NoneStray
<1>2. reported \in Nat /\ 0 \in Nat /\ 0 <= reported BY Values
<1>3. ValueComes(u, 0) BY <1>1, <1>2, ComesSooner
<1> QED BY <1>3 DEF Bad

(* Rows that are taken in set right the instances they load, or are late and
   the instances behind. *)
LEMMA ArriveGood ==
  ASSUME TypeOK, ReadsInTime, NEW s \in Slot, Arrive(s)
  PROVE  /\ SameData /\ KeepsAll
         /\ ~Uncached(reads[s]) /\ reads[s].for # "get" /\ reads[s].asOf >= reported => NoneStray'
         /\ ~Uncached(reads[s]) /\ SetsRight(reads[s]) => NoneBad'
<1> DEFINE read == reads[s]
           rows == read.rows
           loaded == IF Uncached(read) THEN {} ELSE Present(rows)
           late == read.asOf < reported
<1>1. /\ SameData /\ UNCHANGED <<saves, store, query>> /\ read.pc = "read"
      /\ read \in ReadState /\ rows \in Rows /\ read.asOf \in Nat /\ reported \in Nat
  BY LiveType, Values DEF Arrive, SameData, storeVars, ReadState
<1>2. /\ instance' = [u \in Uuid |-> IF u \in loaded THEN rows[u] ELSE instance[u]]
      /\ behind' = IF late THEN behind \cup loaded ELSE behind \ loaded
  BY DEF Arrive, Absorb, Materialized
<1>3. \A u \in loaded : u \in Present(rows) /\ rows[u] # None BY DEF Present
<1>4. ~Uncached(read) => loaded = Present(rows) OBVIOUS
<1>5. ~late => InTime(read) BY <1>1 DEF ReadsInTime
<1> HIDE DEF loaded, late, read, rows
<1>6. \A u \in Uuid : /\ instance'[u] = IF u \in loaded THEN rows[u] ELSE instance[u]
                      /\ u \in loaded => (u \in behind' <=> late)
                      /\ u \notin loaded => (u \in behind' <=> u \in behind)
  BY <1>2
<1>m. \A w : Matches(w)' <=> Matches(w) BY <1>1, SameMatches
<1>7. \A u, a : ValueComes(u, a)' <=> ValueComes(u, a)
  BY <1>1 DEF SameData, ValueComes
<1>8. \A u \in Uuid, a, b \in Nat : b <= a /\ ValueComes(u, a) => ValueComes(u, b)
  BY ComesSooner
<1>9. ASSUME NEW u \in Uuid, Bad(u)', u \in Asked(read)
      PROVE  late \/ (rows[u] = store[u] /\ u \notin loaded)
  <2> SUFFICES ASSUME ~late PROVE rows[u] = store[u] /\ u \notin loaded OBVIOUS
  <2>1. rows[u] = store[u] \/ ValueComes(u, read.asOf)
    BY <1>1, <1>5, <1>9, <1>m DEF InTime, RowView, Bad, rows
  <2>2. ~ValueComes(u, 0) BY <1>7, <1>9 DEF Bad
  <2>3. rows[u] = store[u]
    <3>1. 0 \in Nat /\ 0 <= read.asOf BY <1>1
    <3> QED BY <1>1, <1>8, <2>1, <2>2, <3>1
  <2> QED BY <1>1, <1>6, <1>9, <2>3 DEF Bad
<1>10. ASSUME NEW u \in Uuid, Bad(u)'
       PROVE  u \notin loaded /\ Bad(u)
  <2>1. u \notin loaded
    <3> SUFFICES ASSUME u \in loaded PROVE FALSE OBVIOUS
    <3>1. u \in Asked(read) BY <1>3 DEF Asked, rows
    <3>2. late BY <1>9, <1>10, <3>1
    <3> QED BY <1>6, <1>10, <3>2 DEF Bad
  <2> QED BY <1>1, <1>6, <1>7, <1>10, <1>m, <2>1 DEF Bad
<1>14. ASSUME NEW u \in Uuid, Matches(store[u]), u \in Asked(read), ~late
       PROVE  rows[u] = store[u] \/ ValueComes(u, reported)
  <2>1. rows[u] = store[u] \/ ValueComes(u, read.asOf)
    BY <1>5, <1>14 DEF InTime, RowView, rows
  <2>2. reported <= read.asOf BY <1>1, <1>14 DEF late
  <2> QED BY <1>1, <1>8, <2>1, <2>2
<1>15. ASSUME reported' = reported, NoneStray, NEW u \in Uuid, Matches(store[u]), saves[u] = None, u \notin behind'
       PROVE  instance'[u] \in {None, store[u]} \/ ValueComes(u, reported)
  <2>1. CASE u \notin loaded BY <1>6, <1>15, <2>1 DEF NoneStray
  <2>2. CASE u \in loaded
    <3>1. ~late /\ instance'[u] = rows[u] BY <1>6, <1>15, <2>2
    <3>2. u \in Asked(read) BY <1>3, <2>2 DEF Asked, rows
    <3> QED BY <1>14, <1>15, <3>1, <3>2
  <2> QED BY <2>1, <2>2
<1>11. KeepsAll
  <2>1. KeepsGood BY <1>1, <1>10 DEF KeepsGood
  <2>2. KeepsStray
    <3> SUFFICES ASSUME reported' = reported, NoneStray, NEW u \in Uuid, Matches(store[u]), saves[u] = None,
                        u \notin behind'
        PROVE  instance'[u] \in {None, store[u]} \/ ValueComes(u, reported)'
      BY <1>1, <1>m DEF KeepsStray, NoneStray
    <3>1. instance'[u] \in {None, store[u]} \/ ValueComes(u, reported) BY <1>15
    <3> QED BY <1>1, <3>1 DEF ValueComes, SameData
  <2> QED BY <1>1, <2>1, <2>2, SameKeeps DEF KeepsAll, Keeps
<1>12. ASSUME ~Uncached(read), read.for # "get", read.asOf >= reported
       PROVE  NoneStray'
  <2> SUFFICES ASSUME NEW u \in Uuid, Matches(store[u])
      PROVE  instance'[u] \in {None, store[u]} \/ ValueComes(u, reported)'
    BY <1>1, <1>m DEF NoneStray
  <2>1. ~late /\ u \in Asked(read) BY <1>1, <1>12 DEF late, Asked
  <2>2. CASE rows[u] = store[u]
    <3>1. u \in loaded BY <1>4, <1>12, <2>2 DEF Present, Matches
    <3> QED BY <1>6, <2>2, <3>1
  <2>3. CASE ValueComes(u, reported) BY <1>1, <2>3 DEF ValueComes, SameData
  <2> QED BY <1>14, <2>1, <2>2, <2>3
<1>13. ASSUME ~Uncached(read), SetsRight(read), NEW u \in Uuid, Bad(u)'
       PROVE  FALSE
  <2>1. Bad(u) /\ u \notin loaded BY <1>10, <1>13
  <2>2. rows[u] # None BY <1>13, <2>1 DEF SetsRight, Bad, Matches, rows
  <2> QED BY <1>4, <1>13, <2>1, <2>2 DEF Present
<1> QED BY <1>1, <1>11, <1>12, <1>13 DEF NoneBad, read

LEMMA ArriveSafe ==
  ASSUME TypeOK, TypeOK', RunsOK, AnswersOK, LiveOK, NEW s \in Slot, Arrive(s)
  PROVE  Safe
<1>1. /\ UNCHANGED <<query, live, result, commits, reported>> /\ reads[s].pc = "read" /\ Absorb(s, reads[s])
      /\ reads[s] \in ReadState
  BY LiveType DEF Arrive
<1>2. /\ SameData /\ KeepsAll /\ Keeps
      /\ ~Uncached(reads[s]) /\ reads[s].for # "get" /\ reads[s].asOf >= reported => NoneStray'
      /\ ~Uncached(reads[s]) /\ SetsRight(reads[s]) => NoneBad'
  BY ArriveGood DEF AnswersOK, KeepsAll
<1>3. /\ \A t \in Slot : t # s => reads'[t] = reads[t]
      /\ reads'[s].for = reads[s].for /\ reads'[s].token = reads[s].token
      /\ reads'[s].pc \in {"loaded", "done"} /\ reads'[s].found = Present(reads[s].rows)
      /\ reads'[s].asOf = reads[s].asOf /\ reads'[s].hit = reads[s].hit /\ reads'[s].late = reads[s].late
      /\ reads'[s].heard <= reported
      /\ reads'[s].pc = "loaded" => reads[s].for # "get" /\ ~Uncached(reads[s])
  <2>1. /\ \A t \in Slot : t # s => reads'[t] = reads[t]
        /\ \E pc \in {"loaded", "done"}, heard \in Nat :
             /\ reads'[s] = [reads[s] EXCEPT !.pc = pc, !.heard = heard, !.found = Present(reads[s].rows),
                                             !.rows = NoRows]
             /\ heard <= reported
             /\ pc = "loaded" => heard = reported /\ reads[s].for # "get" /\ ~Uncached(reads[s])
    BY <1>1, Absorbs
  <2>2. PICK pc \in {"loaded", "done"}, heard \in Nat :
             /\ reads'[s] = [reads[s] EXCEPT !.pc = pc, !.heard = heard, !.found = Present(reads[s].rows),
                                             !.rows = NoRows]
             /\ heard <= reported
             /\ pc = "loaded" => heard = reported /\ reads[s].for # "get" /\ ~Uncached(reads[s])
    BY <2>1
  <2> QED BY <1>1, <2>1, <2>2 DEF ReadState
<1>4. /\ RunsOK'
      /\ \A t \in Slot : t # s => (Current(t)' <=> Current(t))
      /\ Current(s)' => Current(s)
      /\ Current(s) => \A t \in Slot : Current(t) => t = s
      /\ ~Current(s) => SameRuns
  BY <1>1, <1>3, ReadSteps
<1>a. reads[s].asOf \in Nat /\ reported \in Nat /\ Present(reads[s].rows) \in SUBSET Uuid
  BY LiveType, Values DEF Present
<1>5. PICK found \in SUBSET Uuid, a \in Nat : found = Present(reads[s].rows) /\ a = reads[s].asOf
  BY <1>a
<1>6. a <= commits BY <1>5 DEF AnswersOK, Dates
<1>7. Dates'
  BY <1>1, <1>3 DEF AnswersOK, Dates
<1>8. ReadsInTime'
  BY <1>2, <1>3, ReadsKept DEF AnswersOK, ReadsInTime
<1>9. ResultGood'
  BY <1>1, <1>2, GoodKept DEF AnswersOK, ResultGood
<1>10. LoadsGood'
  <2>1. ASSUME reads'[s].pc = "loaded", a >= reported
        PROVE  View(found, a)' /\ NoneStray'
    <3>1. InTime(reads[s]) BY <1>1, <1>5, <2>1 DEF AnswersOK, ReadsInTime
    <3>2. View(found, a) BY <1>3, <1>5, <2>1, <3>1 DEF InTime
    <3>3. View(found, a)' BY <1>1, <1>2, <1>6, <2>1, <3>2 DEF Keeps, KeepsViews
    <3> QED BY <1>2, <1>3, <1>5, <2>1, <3>3
  <2>2. reads'[s].pc = "loaded" => Held(reads[s])'
    BY <1>1, <1>3, <1>5, <2>1 DEF Held, View, FlipComes
  <2> QED BY <1>2, <1>3, <2>2, LoadsKept DEF AnswersOK, LoadsGood
<1>11. CASE ~Current(s) BY <1>2, <1>4, <1>7, <1>8, <1>9, <1>10, <1>11, LiveKept DEF Safe, AnswersOK
<1>12. CASE Current(s)
  <2>1. Current(s)' /\ \A t \in Slot : Current(t)' => t = s
    BY <1>1, <1>3, <1>4, <1>12 DEF Current
  <2>2. ASSUME live.on PROVE RunGood(s)'
    <3>1. RunReads(reads[s]) BY <1>1, <1>12, <2>2 DEF LiveOK, LatestGood, RunGood
    <3>2. ~query.patches => Counted(found, a)'
      BY <1>2, <1>5, <1>6, <3>1 DEF RunReads, KeepsAll, KeepsCounted
    <3>3. reads[s].for = "live" BY <1>12 DEF Current
    <3>4. query.cached => NoneBad' BY <1>2, <3>1, <3>3 DEF RunReads, Uncached
    <3>5. RunFound(found, a, reads[s].late)' BY <1>1, <3>2, <3>4 DEF RunFound
    <3>6. RunFound(reads[s].found, reads[s].asOf, reads[s].late)'
      BY <1>3, <1>5, <3>5 DEF RunFound, Counted, View, FlipComes
    <3> QED BY <1>3, <3>6 DEF RunGood
  <2>3. live'.state.asOf <= reads'[s].asOf
    BY <1>1, <1>3, <1>12 DEF LiveOK, RunNewer
  <2> QED BY <1>1, <1>4, <1>7, <1>8, <1>9, <1>10, <2>1, <2>2, <2>3, LiveRun DEF Safe, AnswersOK
<1> QED BY <1>11, <1>12

(* A result is kept that is good, or late. *)
LEMMA SetResultSafe ==
  ASSUME TypeOK, TypeOK', RunsOK, AnswersOK, LiveOK, NEW s \in Slot, SetResult(s)
  PROVE  Safe
<1>1. /\ SameData /\ UNCHANGED <<instance, saves, behind, live, query, commits, reported>>
      /\ reads[s] \in ReadState /\ reads[s].asOf \in Nat /\ reads[s].heard \in Nat /\ reported \in Nat
  BY LiveType, Values DEF SetResult, SameData, storeVars, history
<1>2. KeepsAll /\ Keeps BY <1>1, SameGood DEF KeepsAll
<1>3. /\ reads[s].pc = "loaded"
      /\ \A t \in Slot : t # s => reads'[t] = reads[t]
      /\ reads'[s] = [reads[s] EXCEPT !.pc = "done", !.heard = 0]
  BY SetsResult
<1>4. /\ reads'[s].for = reads[s].for /\ reads'[s].token = reads[s].token /\ reads'[s].hit = reads[s].hit
      /\ reads'[s].pc = "done" /\ reads'[s].heard = 0
      /\ reads'[s].found = reads[s].found /\ reads'[s].asOf = reads[s].asOf /\ reads'[s].late = reads[s].late
  BY <1>1, <1>3 DEF ReadState
<1>h. PICK hit \in Entry : KeptOf(hit, reads[s]) /\ result' = {hit}
  BY KeepsHit
<1>5. /\ hit.found = reads[s].found /\ hit.asOf = reads[s].asOf
      /\ hit.late <=> (reads[s].asOf < reported \/ reads[s].heard < reported)
      /\ result' = {hit}
  BY <1>h DEF KeptOf
<1>6. /\ RunsOK'
      /\ \A t \in Slot : t # s => (Current(t)' <=> Current(t))
      /\ Current(s)' => Current(s)
      /\ Current(s) => \A t \in Slot : Current(t) => t = s
      /\ ~Current(s) => SameRuns
  BY <1>1, <1>3, <1>4, ReadSteps
<1>7. Dates'
  <2>a. ASSUME NEW t \in Slot, t # s
        PROVE  reads'[t].asOf <= commits /\ reads'[t].heard <= reported
    BY <1>3, <2>a DEF AnswersOK, Dates
  <2>b. reads'[s].asOf <= commits /\ reads'[s].heard <= reported
    BY <1>1, <1>4 DEF AnswersOK, Dates
  <2>1. \A t \in Slot : reads'[t].asOf <= commits /\ reads'[t].heard <= reported
    BY <2>a, <2>b
  <2>2. hit.asOf <= commits BY <1>5 DEF AnswersOK, Dates
  <2> QED BY <1>1, <1>5, <2>1, <2>2 DEF AnswersOK, Dates
<1>8. ReadsInTime' /\ LoadsGood'
  BY <1>2, <1>3, <1>4, ReadsKept, LoadsKept DEF AnswersOK, ReadsInTime, LoadsGood
<1>9. ResultGood'
  <2>1. ASSUME ~hit.late
        PROVE  hit.asOf >= reported /\ View(hit.found, hit.asOf)' /\ NoneBad'
    <3>1. reads[s].asOf >= reported /\ reads[s].heard >= reported BY <1>1, <1>5, <2>1
    <3>2. View(hit.found, hit.asOf) /\ NoneStray BY <1>3, <1>5, <3>1 DEF AnswersOK, LoadsGood, Held
    <3>3. NoneBad BY <3>2, NoStrayNoBad
    <3>4. NoneBad' BY <1>2, <3>3 DEF NoneBad, KeepsAll, KeepsGood
    <3>5. hit.asOf <= commits /\ hit.found \in SUBSET Uuid /\ hit.asOf \in Nat
      BY <1>5 DEF AnswersOK, Dates, Entry
    <3>6. View(hit.found, hit.asOf)'
      BY <1>1, <1>2, <1>5, <3>1, <3>2, <3>5 DEF Keeps, KeepsViews
    <3> QED BY <1>5, <3>1, <3>4, <3>6
  <2>2. Good(hit)' BY <1>1, <2>1 DEF Good
  <2> QED BY <1>5, <2>2 DEF ResultGood
<1>10. CASE ~Current(s) BY <1>2, <1>6, <1>7, <1>8, <1>9, <1>10, LiveKept DEF Safe, AnswersOK
<1>11. CASE Current(s)
  <2>1. Current(s)' /\ \A t \in Slot : Current(t)' => t = s
    BY <1>1, <1>4, <1>6, <1>11 DEF Current
  <2>2. ASSUME live.on PROVE RunGood(s)'
    <3>1. PICK read \in ReadState : read = reads[s] BY <1>1
    <3>2. RunFound(read.found, read.asOf, read.late)
      BY <1>3, <1>11, <2>2, <3>1 DEF LiveOK, LatestGood, RunGood
    <3>3. read.found \in SUBSET Uuid /\ read.asOf \in Nat /\ read.asOf <= commits
      BY <3>1 DEF ReadState, AnswersOK, Dates
    <3>4. RunFound(read.found, read.asOf, read.late)' BY <1>2, <3>2, <3>3, FoundKept
    <3>5. RunFound(reads[s].found, reads[s].asOf, reads[s].late)'
      BY <1>4, <3>1, <3>4 DEF RunFound, Counted, View, FlipComes
    <3> QED BY <1>4, <3>5 DEF RunGood
  <2>3. live'.state.asOf <= reads'[s].asOf
    BY <1>1, <1>3, <1>4, <1>11 DEF LiveOK, RunNewer
  <2> QED BY <1>1, <1>6, <1>7, <1>8, <1>9, <2>1, <2>2, <2>3, LiveRun DEF Safe, AnswersOK
<1> QED BY <1>10, <1>11

(* A read ends. *)
LEMMA EndSafe ==
  ASSUME TypeOK, TypeOK', RunsOK, AnswersOK, LiveOK, NEW s \in Slot, Resolve(s) \/ Reject(s)
  PROVE  /\ Safe
         /\ ~live'.state.hit => live.state.asOf <= live'.state.asOf
<1>1. /\ SameData /\ UNCHANGED <<query, instance, saves, behind, result, commits, reported>>
      /\ live'.token = live.token /\ live'.on = live.on
      /\ ~Current(s) => live' = live
      /\ Resolve(s) /\ Current(s) => /\ reads[s].pc = "done"
                                     /\ live'.state.data = {reads[s].found} /\ live'.state.asOf = reads[s].asOf
                                     /\ live'.state.late = reads[s].late /\ live'.state.hit = reads[s].hit
      /\ Reject(s) /\ Current(s) => live'.state.error /\ live'.state.asOf = live.state.asOf
  <2>1. live \in Lives BY LiveType
  <2> QED BY <2>1 DEF Resolve, Reject, SameData, storeVars, cacheVars, boundVars, history, Lives, LiveState
<1>2. KeepsAll BY <1>1, SameGood
<1>3. (\A t \in Slot : t # s => reads'[t] = reads[t]) /\ reads'[s] = Idle
  BY DEF Resolve, Reject, TypeOK
<1>4. /\ RunsOK'
      /\ \A t \in Slot : t # s => (Current(t)' <=> Current(t))
      /\ Current(s)' => Current(s)
      /\ Current(s) => \A t \in Slot : Current(t) => t = s
      /\ ~Current(s) => SameRuns
  BY <1>1, <1>3, ReadSteps
<1>5. Idle.asOf = 0 /\ Idle.heard = 0 /\ Idle.pc = "idle" /\ Idle.for = "none" BY DEF Idle
<1>6. Dates'
  <2>1. live'.state.asOf \in {live.state.asOf, reads[s].asOf} BY <1>1
  <2>2. commits \in Nat /\ reported \in Nat BY Values
  <2> QED BY <1>1, <1>3, <1>5, <2>1, <2>2 DEF AnswersOK, Dates
<1>7. ReadsInTime' /\ LoadsGood'
  <2>1. Keeps BY <1>2 DEF KeepsAll
  <2> QED BY <1>3, <1>5, <2>1, ReadsKept, LoadsKept DEF AnswersOK, ReadsInTime, LoadsGood
<1>8. ResultGood'
  BY <1>1, <1>2, GoodKept DEF AnswersOK, ResultGood
<1>9. CASE ~Current(s)
  <2>1. live.state.asOf <= live'.state.asOf BY <1>1, <1>9, LiveType
  <2> QED BY <1>2, <1>4, <1>6, <1>7, <1>8, <1>9, <2>1, LiveKept DEF Safe, AnswersOK
<1>10. CASE Current(s)
  <2>1. \A t \in Slot : ~Current(t)' BY <1>3, <1>4, <1>5, <1>10 DEF Current
  <2>2. LatestGood' /\ RunNewer' BY <2>1 DEF LatestGood, RunNewer
  <2>3. CASE Reject(s)
    <3>1. ShowsGood' BY <1>1, <1>10, <2>3 DEF ShowsGood
    <3>2. live.state.asOf <= live'.state.asOf BY <1>1, <1>10, <2>3, LiveType
    <3> QED BY <1>4, <1>6, <1>7, <1>8, <2>2, <3>1, <3>2 DEF Safe, AnswersOK, LiveOK
  <2>4. CASE Resolve(s)
    <3>1. ASSUME live.on
          PROVE  \E found \in SUBSET Uuid : /\ live'.state.data = {found}
                                            /\ RunFound(found, live.state.asOf, live.state.late)'
      <4>1. PICK read \in ReadState : read = reads[s] BY LiveType
      <4>2. read.found \in SUBSET Uuid /\ read.asOf \in Nat /\ read.asOf <= commits
        BY <4>1 DEF ReadState, AnswersOK, Dates
      <4>3. RunFound(read.found, read.asOf, read.late)
        BY <1>1, <1>10, <2>4, <3>1, <4>1 DEF LiveOK, LatestGood, RunGood
      <4>4. RunFound(read.found, read.asOf, read.late)' BY <1>2, <4>2, <4>3, FoundKept
      <4>5. RunFound(read.found, live.state.asOf, live.state.late)'
        BY <1>1, <1>10, <2>4, <4>1, <4>4 DEF RunFound, Counted, View, FlipComes
      <4> QED BY <1>1, <1>10, <2>4, <4>1, <4>2, <4>5
    <3>2. ShowsGood' BY <1>1, <3>1 DEF ShowsGood
    <3>3. ~live'.state.hit => live.state.asOf <= live'.state.asOf
      BY <1>1, <1>10, <2>4 DEF LiveOK, RunNewer
    <3> QED BY <1>4, <1>6, <1>7, <1>8, <2>2, <3>2, <3>3 DEF Safe, AnswersOK, LiveOK
  <2> QED BY <2>3, <2>4
<1> QED BY <1>9, <1>10

---------------------------------------------------------------------------
(* No news is of a commit to come. *)
LEMMA InitNews == Init => News
BY DEF Init, News, NoPatch

LEMMA NextNews ==
  ASSUME TypeOK, News, Next
  PROVE  News'
<1>1. /\ commits \in Nat /\ reported \in Nat /\ patching.at \in Nat
      /\ patching.at <= commits /\ reported <= commits
      /\ NoPatch.at = 0 /\ 0 <= commits
  BY Values DEF TypeOK, News, NoPatch
<1>2. \A i \in DOMAIN feed : feed[i].at \in Nat /\ feed[i].at <= commits
  <2>1. feed \in Seq(Event) /\ DOMAIN feed = 1..Len(feed) BY LenProperties DEF TypeOK
  <2>2. \A i \in DOMAIN feed : feed[i] \in Event BY <2>1, ElementOfSeq
  <2> QED BY <2>2 DEF Event, News
<1>3. ASSUME UNCHANGED <<feed, patching, commits, reported>> PROVE News'
  BY <1>3 DEF News
<1>4. ASSUME UNCHANGED <<patching, reported>>, NEW saved \in Rows, NEW removed \in SUBSET Uuid,
             Commit(saved, removed)
      PROVE  News'
  <2>1. /\ commits' = commits + 1
        /\ \A i \in DOMAIN feed' : (\E j \in DOMAIN feed : feed'[i] = feed[j]) \/ feed'[i].at = commits + 1
    BY <1>4, CommitTells
  <2>2. \A i \in DOMAIN feed' : feed'[i].at <= commits + 1 BY <1>1, <1>2, <2>1
  <2> QED BY <1>1, <1>4, <2>1, <2>2 DEF News
<1>5. CASE Persist
  <2>1. saves \in Rows /\ removes \in SUBSET Uuid BY DEF TypeOK
  <2> QED BY <1>4, <1>5, <2>1 DEF Persist
<1>6. ASSUME NEW u \in Uuid, WriteElsewhere(u) PROVE News'
  <2>1. \A val \in Value : [NoRows EXCEPT ![u] = val] \in Rows BY DEF NoRows, Rows, Stored
  <2>2. NoRows \in Rows /\ {} \in SUBSET Uuid /\ {u} \in SUBSET Uuid BY ReadTypes
  <2>3. UNCHANGED <<patching, reported>> BY <1>6 DEF WriteElsewhere
  <2>4. \A val \in Value : Commit([NoRows EXCEPT ![u] = val], {}) => News' BY <1>4, <2>1, <2>2, <2>3
  <2>5. Commit(NoRows, {u}) => News' BY <1>4, <2>2, <2>3
  <2> QED BY <1>6, <2>4, <2>5 DEF WriteElsewhere
<1>7. ASSUME NEW u \in Uuid, Patch(u) PROVE News'
  <2>1. UNCHANGED <<feed, reported>> /\ commits' = commits + 1 /\ patching' = [uuid |-> u, at |-> commits + 1]
    BY <1>7 DEF Patch
  <2> QED BY <1>1, <1>2, <2>1 DEF News
<1>8. CASE PatchReturns
  <2>1. UNCHANGED <<feed, commits>> /\ patching' = NoPatch /\ Heard(patching.at)
    BY <1>8 DEF PatchReturns, storeVars
  <2> QED BY <1>1, <2>1 DEF News, Heard
<1>9. CASE Change
  <2>1. /\ feed # <<>> /\ feed' = Tail(feed) /\ UNCHANGED <<patching, commits>> /\ Heard(Head(feed).at)
    BY <1>9 DEF Change
  <2>2. \A i \in DOMAIN feed' : feed'[i].at <= commits BY <1>2, <2>1, Pops
  <2>3. Head(feed).at <= commits
    <3>1. 1 \in DOMAIN feed /\ Head(feed) = feed[1] BY <2>1, HeadTailProperties, LenProperties DEF TypeOK
    <3> QED BY <1>2, <3>1
  <2> QED BY <1>1, <2>1, <2>2, <2>3 DEF News, Heard
<1>10. ASSUME NEW u \in Uuid, Get(u) \/ Save(u) \/ RemoveRecord(u) PROVE News'
  BY <1>3, <1>10 DEF Get, Save, RemoveRecord, storeVars, history
<1>11. ASSUME NEW s \in Slot, LookUp(s) \/ Read(s) \/ Arrive(s) \/ SetResult(s) \/ Resolve(s) \/ Reject(s)
       PROVE  News'
  BY <1>3, <1>11 DEF LookUp, Read, Arrive, SetResult, Resolve, Reject, storeVars, history
<1>12. CASE Subscribe \/ Unsubscribe \/ Refetch \/ List
  BY <1>3, <1>12 DEF Subscribe, Unsubscribe, Refetch, List, storeVars, history
<1> QED BY <1>5, <1>6, <1>7, <1>8, <1>9, <1>10, <1>11, <1>12 DEF Next

LEMMA InitIInv == Init => IInv
<1> SUFFICES ASSUME Init PROVE IInv OBVIOUS
<1>1. TypeOK /\ NoPatching BY InitTypes DEF Init, NoPatching
<1>2. RunsOK /\ RunNewer /\ ReadsInTime /\ LoadsGood /\ ResultGood /\ LatestGood /\ ShowsGood
  BY DEF Init, Idle, RunsOK, RunsBehind, OwnTokens, RunNewer, Current, ReadsInTime, LoadsGood, ResultGood,
         LatestGood, ShowsGood
<1>3. Dates
  <2>1. Idle.asOf = 0 /\ Idle.heard = 0 /\ Unloaded.asOf = 0 BY DEF Idle, Unloaded
  <2> QED BY <2>1 DEF Init, Dates
<1> QED BY <1>1, <1>2, <1>3, InitNews DEF IInv

(* A live query never goes back, unless the cache has answered it. *)
Forward == live.on /\ live'.on /\ ~live'.state.hit => live.state.asOf <= live'.state.asOf

LEMMA NextIInv ==
  ASSUME IInv, Next
  PROVE  IInv' /\ Forward
<1>0. /\ TypeOK /\ RunsOK /\ NoPatching /\ AnswersOK /\ LiveOK /\ TypeOK' /\ Dates
      /\ News' /\ reported <= commits
      /\ live \in Lives /\ live.token \in Nat /\ live.state.asOf \in Nat
  BY NextTypes, NextNews, LiveType DEF IInv, AnswersOK, LiveOK, News
<1> SUFFICES Safe /\ NoPatching' /\ Forward
  BY <1>0 DEF IInv, Safe, AnswersOK, LiveOK
(* A step that begins a run, that leaves the runs alone, or that begins a read
   of the application's own. *)
<1>e. ASSUME NEW now \in Lives, now.token = live.token, now.state = live.state, Execute(now), Keeps, query' = query,
             result' = {} \/ (result' = result /\ KeepsAll /\ reported' = reported)
      PROVE  Safe /\ Forward
  <2>1. /\ RunsOK' /\ Renewed /\ live'.state = live.state
        /\ \A s \in Slot : reads'[s] = reads[s] \/ reads'[s] = Run(live.token + 1)
    BY <1>0, <1>e, ExecuteRenews
  <2>2. Fresh(Run(live.token + 1)) BY DEF Run, Idle, Fresh
  <2>3. NoAnswer BY <2>1, <2>2 DEF NoAnswer
  <2>4. AnswersOK' BY <1>0, <1>e, <2>1, <2>3, AnswersKept
  <2> QED BY <1>0, <2>1, <2>4, LiveRenewed DEF Safe, Forward
<1>k. ASSUME reads' = reads, live'.on = live.on, live'.token = live.token, live'.state = live.state, KeepsAll,
             result' = {} \/ (result' = result /\ reported' = reported)
      PROVE  Safe /\ Forward
  <2>1. RunsOK' /\ SameRuns /\ NoAnswer
    BY <1>0, <1>k DEF RunsOK, RunsBehind, OwnTokens, SameRuns, Current, NoAnswer
  <2>2. Keeps BY <1>k DEF KeepsAll
  <2>3. AnswersOK' BY <1>0, <1>k, <2>1, <2>2, AnswersKept
  <2> QED BY <1>0, <1>k, <2>1, <2>3, LiveKept DEF Safe, Forward
<1>b. ASSUME NEW read \in ReadState, read.for # "live", Fresh(read), Begin(read),
             live' = live, query' = query, KeepsAll, result' = {} \/ (result' = result /\ reported' = reported)
      PROVE  Safe /\ Forward
  <2>1. RunsOK' /\ SameRuns /\ \A s \in Slot : reads'[s] = reads[s] \/ reads'[s] = read
    BY <1>0, <1>b, BesidesRuns
  <2>2. Keeps /\ NoAnswer BY <1>b, <2>1 DEF KeepsAll, NoAnswer
  <2>3. AnswersOK' BY <1>0, <1>b, <2>2, AnswersKept
  <2> QED BY <1>0, <1>b, <2>1, <2>3, LiveKept DEF Safe, Forward
<1>g. ASSUME NEW u \in Uuid, LoadOne(u), live' = live, query' = query, KeepsAll,
             result' = {} \/ (result' = result /\ reported' = reported)
      PROVE  Safe /\ Forward
  <2> DEFINE read == [Idle EXCEPT !.for = "get", !.pc = "asked", !.wanted = {u}]
  <2>1. read \in ReadState /\ read.for # "live" /\ Fresh(read) /\ Begin(read)
    BY <1>g, ReadTypes DEF LoadOne, Idle, Fresh
  <2> HIDE DEF read
  <2> QED BY <1>b, <1>g, <2>1
<1>1. CASE Subscribe
  <2> DEFINE now == [live EXCEPT !.on = TRUE]
  <2>1. /\ now \in Lives /\ now.token = live.token /\ now.state = live.state /\ now.on /\ now.missed = live.missed
        /\ Execute(now)
    BY <1>0, <1>1 DEF Lives, Subscribe
  <2> HIDE DEF now
  <2>2. /\ UNCHANGED <<query, store, feed, patching, commits, reported, instance, saves, behind, result>>
        /\ NoPatching'
    BY <1>0, <1>1 DEF Subscribe, storeVars, cacheVars, history, NoPatching
  <2>3. live'.missed = live.missed BY <1>0, <2>1, <2>2, ExecuteRenews
  <2>4. KeepsAll BY <1>0, <2>2, <2>3, SameGood DEF SameData
  <2>5. Keeps BY <2>4 DEF KeepsAll
  <2>6. Safe BY <1>e, <2>1, <2>2, <2>4, <2>5
  <2>7. live'.state = live.state BY <1>0, <2>1, <2>2, ExecuteRenews
  <2> QED BY <1>0, <2>2, <2>6, <2>7 DEF Forward
<1>2. CASE Unsubscribe
  <2>1. /\ UNCHANGED <<query, store, feed, patching, commits, reported, instance, saves, behind, result, reads>>
        /\ ~live'.on /\ live'.token = live.token + 1 /\ live'.state.asOf = 0 /\ live'.missed = live.missed
    BY <1>0, <1>2 DEF Unsubscribe, Reset, storeVars, cacheVars, history, Lives, Unloaded
  <2>2. KeepsAll /\ Keeps BY <1>0, <2>1, SameGood DEF SameData, KeepsAll
  <2>3. NoAnswer BY <2>1 DEF NoAnswer
  <2>4. AnswersOK' BY <1>0, <2>1, <2>2, <2>3, AnswersKept
  <2>5. \A s \in Slot : reads[s].token \in Nat /\ reads[s].asOf \in Nat BY <1>0, LiveType
  <2>6. RunsOK' BY <1>0, <2>1, <2>5 DEF RunsOK, RunsBehind, OwnTokens
  <2>7. LiveOK' BY <2>1, <2>5 DEF LiveOK, LatestGood, ShowsGood, RunNewer
  <2> QED BY <1>0, <2>1, <2>4, <2>6, <2>7 DEF Safe, Forward, NoPatching
<1>3. CASE Refetch
  <2> DEFINE now == [live EXCEPT !.detached = @ \/ ~live.on]
  <2>1. /\ now \in Lives /\ now.token = live.token /\ now.state = live.state /\ now.missed = live.missed
        /\ Execute(now)
    BY <1>0, <1>3 DEF Lives, Refetch
  <2> HIDE DEF now
  <2>2. /\ UNCHANGED <<query, store, feed, patching, commits, reported, instance, saves, behind, result>>
        /\ NoPatching'
    BY <1>0, <1>3 DEF Refetch, storeVars, cacheVars, history, NoPatching
  <2>3. live'.missed = live.missed BY <1>0, <2>1, <2>2, ExecuteRenews
  <2>4. KeepsAll BY <1>0, <2>2, <2>3, SameGood DEF SameData
  <2>5. Keeps BY <2>4 DEF KeepsAll
  <2> QED BY <1>e, <2>1, <2>2, <2>4, <2>5
<1>4. CASE List
  <2> DEFINE read == [Idle EXCEPT !.for = "list", !.pc = "start"]
  <2>1. read \in ReadState /\ read.for # "live" /\ Fresh(read) /\ Begin(read)
    BY <1>4, ReadTypes DEF List, Idle, Fresh
  <2> HIDE DEF read
  <2>2. /\ UNCHANGED <<query, store, feed, patching, commits, reported, instance, saves, behind, result, live>>
        /\ NoPatching'
    BY <1>0, <1>4 DEF List, storeVars, cacheVars, history, NoPatching
  <2>3. KeepsAll BY <1>0, <2>2, SameGood DEF SameData
  <2> QED BY <1>b, <2>1, <2>2, <2>3
<1>5. ASSUME NEW u \in Uuid, Get(u)
      PROVE  Safe /\ NoPatching' /\ Forward
  <2>1. /\ UNCHANGED <<query, store, feed, patching, commits, reported, instance, saves, behind, result, live>>
        /\ NoPatching' /\ LoadOne(u)
    BY <1>0, <1>5 DEF Get, storeVars, cacheVars, history, NoPatching
  <2>2. KeepsAll BY <1>0, <2>1, SameGood DEF SameData
  <2> QED BY <1>g, <2>1, <2>2
<1>6. CASE PatchReturns
  <2>1. KeepsAll /\ result' = {} BY <1>0, <1>6, PatchReturnsKeeps
  <2>2. /\ patching.uuid \in Uuid /\ LoadOne(patching.uuid) /\ UNCHANGED <<live, query>> /\ NoPatching'
    BY <1>0, <1>6 DEF PatchReturns, TypeOK, NoPatching
  <2> QED BY <1>g, <2>1, <2>2
<1>7. CASE Persist
  <2>1. KeepsAll BY <1>0, <1>7, PersistKeeps
  <2>2. UNCHANGED <<reads, live, result, reported>> /\ NoPatching'
    BY <1>0, <1>7 DEF Persist, cacheVars, NoPatching
  <2> QED BY <1>k, <2>1, <2>2
<1>8. ASSUME NEW u \in Uuid, Save(u) \/ RemoveRecord(u) \/ WriteElsewhere(u) \/ Patch(u)
      PROVE  Safe /\ NoPatching' /\ Forward
  <2>1. KeepsAll
    <3>1. CASE RemoveRecord(u)
      <4>1. SameData /\ UNCHANGED <<instance, saves, behind>>
        BY <3>1 DEF RemoveRecord, SameData, cacheVars, history
      <4> QED BY <1>0, <4>1, SameGood
    <3> QED BY <1>0, <1>8, <3>1, SaveKeeps, WriteElsewhereKeeps, PatchKeeps
  <2>2. UNCHANGED <<reads, live, result, reported>>
    BY <1>8 DEF Save, RemoveRecord, WriteElsewhere, Patch, cacheVars, history
  <2>3. NoPatching'
    BY <1>0, <1>8 DEF Save, RemoveRecord, WriteElsewhere, Patch, NoPatching
  <2> QED BY <1>k, <2>1, <2>2, <2>3
<1>9. CASE Change
  <2> DEFINE event == Head(feed)
             now == Misjudging(event)
  <2>1. /\ Keeps /\ result' = {}
        /\ ~Affects(event) /\ live' = now => KeepsAll
    BY <1>0, <1>9, ChangeKeeps
  <2>2. event.at \in Nat /\ feed # <<>> /\ query' = query /\ patching' = patching
    BY <1>0, <1>9, Pops DEF Change, Event
  <2> HIDE DEF event
  <2>3. /\ now \in Lives /\ now.token = live.token /\ now.state = live.state /\ now.on = live.on
    BY <1>0, <2>2 DEF Misjudging, Lives
  <2>4. /\ live.on /\ Affects(event) => Execute(now)
        /\ ~(live.on /\ Affects(event)) => live' = now /\ reads' = reads
    BY <1>9 DEF Change, event
  <2> HIDE DEF now
  <2>5. NoPatching' BY <1>0, <2>2 DEF NoPatching
  <2>6. CASE live.on /\ Affects(event)
    BY <1>e, <2>1, <2>2, <2>3, <2>4, <2>5, <2>6
  <2>7. CASE ~Affects(event)
    BY <1>k, <2>1, <2>3, <2>4, <2>5, <2>7
  <2>8. CASE ~live.on
    <3>1. /\ RunsOK' /\ SameRuns /\ NoAnswer /\ ~live'.on
      BY <1>0, <2>3, <2>4, <2>8 DEF RunsOK, RunsBehind, OwnTokens, SameRuns, Current, NoAnswer
    <3>2. AnswersOK' BY <1>0, <2>1, <2>3, <2>4, <2>8, <3>1, AnswersKept
    <3>3. LiveOK'
      BY <1>0, <3>1 DEF LiveOK, LatestGood, ShowsGood, RunNewer, SameRuns
    <3> QED BY <2>5, <2>8, <3>1, <3>2, <3>3 DEF Safe, Forward
  <2> QED BY <2>6, <2>7, <2>8
<1>10. ASSUME NEW s \in Slot, LookUp(s) \/ Read(s) \/ Arrive(s) \/ SetResult(s)
       PROVE  Safe /\ NoPatching' /\ Forward
  <2>1. Safe BY <1>0, <1>10, LookUpSafe, ReadSafe, ArriveSafe, SetResultSafe
  <2>2. live' = live /\ NoPatching'
    BY <1>0, <1>10 DEF LookUp, Read, Arrive, SetResult, NoPatching
  <2> QED BY <1>0, <2>1, <2>2 DEF Forward
<1>11. ASSUME NEW s \in Slot, Resolve(s) \/ Reject(s)
       PROVE  Safe /\ NoPatching' /\ Forward
  <2>1. Safe /\ (~live'.state.hit => live.state.asOf <= live'.state.asOf) BY <1>0, <1>11, EndSafe
  <2>2. NoPatching' BY <1>0, <1>11 DEF Resolve, Reject, NoPatching
  <2> QED BY <2>1, <2>2 DEF Forward
<1> QED BY <1>1, <1>2, <1>3, <1>4, <1>5, <1>6, <1>7, <1>8, <1>9, <1>10, <1>11 DEF Next

LEMMA StutterIInv ==
  ASSUME IInv, vars' = vars
  PROVE  IInv' /\ Forward
<1>1. UNCHANGED <<query, store, feed, saves, removes, instance, baseline, result, reads, live, patching, writes,
                  asked, errors, commits, reported, behind>>
  BY DEF vars, storeVars, cacheVars, boundVars, history
<1>2. TypeOK /\ TypeOK' /\ AnswersOK /\ LiveOK /\ Dates
  BY <1>1 DEF IInv, TypeOK, AnswersOK, LiveOK
<1>3. KeepsAll BY <1>1, <1>2, SameGood DEF SameData
<1>4. SameRuns /\ NoAnswer BY <1>1 DEF SameRuns, Current, NoAnswer
<1>5. AnswersOK'
  <2>1. Keeps BY <1>3 DEF KeepsAll
  <2> QED BY <1>1, <1>2, <1>3, <1>4, <2>1, AnswersKept
<1>6. LiveOK' BY <1>2, <1>3, <1>4, LiveKept
<1>7. RunsOK' /\ NoPatching' /\ News'
  BY <1>1 DEF IInv, RunsOK, RunsBehind, OwnTokens, NoPatching, News
<1>8. Forward BY <1>1, <1>2, LiveType DEF Forward
<1> QED BY <1>2, <1>5, <1>6, <1>7, <1>8 DEF IInv, AnswersOK, LiveOK

LEMMA Inductive == Spec => []IInv /\ [][Forward]_vars
<1>1. IInv /\ [Next]_vars => IInv' /\ Forward
  BY NextIInv, StutterIInv
<1>2. IInv /\ [Next]_vars => IInv' /\ [Forward]_vars
  BY <1>1
<1> QED BY <1>2, InitIInv, PTL DEF Spec

---------------------------------------------------------------------------
(* Once all has settled nothing is to be told. *)
LEMMA SettledIsTold ==
  ASSUME TypeOK, Settled
  PROVE  /\ NoRun
         /\ \A a : \A u \in Uuid : ~FlipComes(u, a) /\ ~ValueComes(u, a)
         /\ \A a : \A found \in SUBSET Uuid : View(found, a) => found = Present(Select(store))
<1>1. NoRun BY DEF Settled, NoRun, Current, Idle
<1>2. \A a : \A u \in Uuid : ~FlipComes(u, a) /\ ~ValueComes(u, a)
  BY CacheAssumption DEF Settled, FlipComes, ValueComes, NoPatch
<1> QED BY <1>1, <1>2, Matched DEF View

(* Once the feed and the reads have settled, a live query shows what is stored,
   for counts and lists, filtered or not: execute(), changeAffects() and the
   result cache, outside the two cases LiveFreshIfReported names. *)
THEOREM LiveQueriesAreFresh == Spec => []LiveFreshIfReported
<1>1. IInv => LiveFreshIfReported
  <2> SUFFICES ASSUME IInv, ~query.patches, ~Excused, Settled, live.on, ~live.state.error
      PROVE  Shown
    BY DEF LiveFreshIfReported, LiveFresh
  <2>1. TypeOK /\ ShowsGood BY DEF IInv
  <2>2. NoRun BY <2>1, SettledIsTold
  <2>3. PICK found \in SUBSET Uuid : /\ live.state.data = {found}
                                     /\ RunFound(found, live.state.asOf, live.state.late)
    BY <2>1, <2>2 DEF ShowsGood
  <2>4. View(found, live.state.asOf)
    BY <2>3 DEF RunFound, Counted, Excused
  <2> QED BY <2>1, <2>3, <2>4, SettledIsTold DEF Shown
<1> QED BY <1>1, Inductive, PTL

(* What the result cache would answer is what is stored, unless it was filled
   by rows that arrived after the news of a later commit: the handler of the
   feed and patch() clear it. *)
THEOREM CachedResultsAreFresh == Spec => []CacheFreshUnlessLate
<1>1. IInv => CacheFreshUnlessLate
  <2> SUFFICES ASSUME IInv, Settled, NEW hit \in result, ~hit.late
      PROVE  hit.found = Present(Select(store))
    BY DEF CacheFreshUnlessLate
  <2>1. TypeOK /\ View(hit.found, hit.asOf) /\ hit.found \in SUBSET Uuid
    BY LiveType DEF IInv, ResultGood, Good
  <2> QED BY <2>1, SettledIsTold
<1> QED BY <1>1, Inductive, PTL

(* While a live list shows what it read, the identity map holds no older values
   of the records that the list accepts, but those a late row has set: the
   answer that made the list refreshed them, materialize(). *)
THEOREM HeldInstancesAreFresh == Spec => []InstancesFresh
<1>1. IInv => InstancesFresh
  <2> SUFFICES ASSUME IInv, Settled, saves = NoRows, live.on, query.cached, ~live.state.error, ~live.state.late,
                      NEW u \in Uuid \ behind, Matches(store[u])
      PROVE  instance[u] \in {None, store[u]}
    BY DEF InstancesFresh
  <2>1. TypeOK /\ ShowsGood BY DEF IInv
  <2>2. NoRun /\ ~ValueComes(u, 0) BY <2>1, SettledIsTold
  <2>3. NoneBad BY <2>1, <2>2 DEF ShowsGood, RunFound
  <2> QED BY <2>2, <2>3 DEF NoneBad, Bad, NoRows
<1> QED BY <1>1, Inductive, PTL

(* What a live query shows never goes back to an earlier state of the store,
   unless the result cache answers it: the token of execute(). *)
THEOREM LiveQueriesGoForward == Spec => LiveNeverRegresses
BY Inductive, PTL DEF LiveNeverRegresses, Forward
=============================================================================
