---------------------------- MODULE UnitProofs ----------------------------
(***************************************************************************)
(* The unit of work of UnitOfWork, for any number of calls, columns,       *)
(* writes, retries and columns set back, on every engine:                  *)
(*   GuardStands        the guard of patch() is up exactly while the       *)
(*                      callback of a transaction runs;                    *)
(*   DiscardedStaysOut  a discarded write is never stored;                 *)
(*   NoWriteVanishes    no write is lost on its way;                       *)
(*   LastSaveStored     when all is at rest and the last save was          *)
(*                      written, the row is what it saved.                 *)
(* The first needs who is in a transaction and what mode it found; the     *)
(* next two an account of every write by its number: the queue, the call   *)
(* that carries it, or what became of it, and never in two of them. The    *)
(* last needs what every queued hint leaves out to be in the row already,  *)
(* or on its way there.                                                    *)
(***************************************************************************)
EXTENDS UnitOfWork, SequenceTheorems, FiniteSetTheorems, WellFoundedInduction, TLAPS

(* A set of natural numbers has a smallest element. *)
LEMMA SmallestOf ==
  ASSUME NEW T, T \subseteq Nat, T # {}
  PROVE  \E x \in T : \A y \in T : x <= y
<1>1. \E x \in T : \A y \in T : ~(<<y, x>> \in OpToRel(<, Nat))
  BY NatLessThanWellFounded, WFMin, Zenon
<1>2. ASSUME NEW x \in T, NEW y \in T, ~(<<y, x>> \in OpToRel(<, Nat))
      PROVE  x <= y
  BY <1>2 DEF OpToRel
<1> QED BY <1>1, <1>2

(* A set of positions up to n has a last one. *)
LEMMA LargestOf ==
  ASSUME NEW n \in Nat, NEW T, T \subseteq 1..n, T # {}
  PROVE  \E x \in T : \A y \in T : y <= x
<1> DEFINE D == {n - i : i \in T}
<1>1. D \subseteq Nat /\ D # {}
  <2>1. PICK i \in T : TRUE OBVIOUS
  <2>2. n - i \in D BY <2>1
  <2> QED BY <2>2
<1>2. PICK d \in D : \A e \in D : d <= e BY <1>1, SmallestOf
<1>3. PICK x \in T : d = n - x OBVIOUS
<1>4. \A y \in T : y <= x
  <2> TAKE y \in T
  <2>1. n - y \in D OBVIOUS
  <2>2. d <= n - y BY <2>1, <1>2
  <2> QED BY <2>2, <1>3
<1> QED BY <1>4

(* The fields the proof reads exist: an update of one is an update. *)
CallShape == DOMAIN call = Calls /\ \A c \in Calls : DOMAIN call[c] = DOMAIN NewCall
HistShape == DOMAIN hist = {"n", "last", "landed", "dropped", "forgone", "exempt"}
Shape == CallShape /\ HistShape

Transacting(c) == c \in Running /\ call[c].kind = "transaction"

(* Only a transaction connects, and runs a callback. *)
FnIsTransaction == \A c \in Calls : call[c].pc \in {"connecting", "fn"} => call[c].kind = "transaction"

(* At most one transaction is in flight, and it found the mode at rest. *)
OneAtATime == \A c, d \in Calls : Transacting(c) /\ Transacting(d) => c = d
FoundAtRest == \A c \in Calls : Transacting(c) => call[c].prev = "none"

Orderly == "overlap" \notin hist.exempt =>
  FnIsTransaction /\ OneAtATime /\ FoundAtRest /\ GuardFollowsFn

IInv == Shape /\ Orderly

LEMMA InitIInv == Init => IInv
BY NoneIsNothingElse DEF Init, IInv, Shape, CallShape, HistShape, Orderly, FnIsTransaction, OneAtATime,
   FoundAtRest, GuardFollowsFn, Transacting, Running, NewCall

(* A step of call c that neither enters nor leaves a callback: c is as much a
   transaction as it was, or has ended. *)
Quiet(c) ==
  /\ mode' = mode
  /\ hist.exempt \subseteq hist'.exempt
  /\ \A d \in Calls \ {c} : call'[d] = call[d]
  /\ call[c].pc # "fn" /\ call'[c].pc # "fn"
  /\ \/ call'[c].pc \in {"idle", "resolved", "rejected"}
     \/ call'[c].kind # "transaction" /\ call'[c].pc # "connecting"
     \/ /\ Transacting(c)
        /\ call'[c].kind = call[c].kind /\ call'[c].prev = call[c].prev

LEMMA QuietSteps ==
  ASSUME NEW c \in Calls, Orderly, Quiet(c)
  PROVE  Orderly'
<1> SUFFICES ASSUME "overlap" \notin hist'.exempt
    PROVE  (FnIsTransaction /\ OneAtATime /\ FoundAtRest /\ GuardFollowsFn)'
  BY DEF Orderly
<1>1. FnIsTransaction /\ OneAtATime /\ FoundAtRest /\ GuardFollowsFn
  BY DEF Orderly, Quiet
<1>2. \A d \in Calls : Transacting(d)' => Transacting(d) /\ call'[d].prev = call[d].prev
  BY DEF Quiet, Transacting, Running
<1>3. \A d \in Calls : call'[d].pc = "fn" <=> call[d].pc = "fn"
  BY DEF Quiet
<1>4. FnIsTransaction'
  BY <1>1, <1>3 DEF FnIsTransaction, Quiet, Transacting
<1>5. OneAtATime' /\ FoundAtRest'
  BY <1>1, <1>2 DEF OneAtATime, FoundAtRest
<1>6. GuardFollowsFn'
  BY <1>1, <1>3 DEF GuardFollowsFn, Quiet
<1> QED  BY <1>4, <1>5, <1>6

---------------------------------------------------------------------------
LEMMA Fields ==
  DOMAIN NewCall = {"pc", "kind", "attempt", "prev", "batch", "written", "squeue", "scope"}
BY DEF NewCall

LEMMA EndedCall ==
  ASSUME NEW c \in Calls, NEW how, CallShape
  PROVE  /\ DOMAIN Ended(c, how) = Calls
         /\ \A d \in Calls : DOMAIN Ended(c, how)[d] = DOMAIN NewCall
         /\ Ended(c, how)[c].pc = how
         /\ \A d \in Calls \ {c} : Ended(c, how)[d] = call[d]
BY Fields DEF Ended, CallShape

(* Calls of persist() and patch(), and SQLite's connection. *)
LEMMA PersistSteps ==
  ASSUME NEW c \in Calls, IInv,
         \/ StartPersist(c) \/ CommitBatch(c) \/ Emit(c) \/ Begin(c) \/ WriteAndCommit(c)
         \/ PatchNative(c) \/ PatchRead(c) \/ PatchWrite(c) \/ Rollback(c)
  PROVE  Shape' /\ Quiet(c)
<1>0. CallShape /\ HistShape  BY DEF IInv, Shape
<1> USE <1>0, Fields DEF Quiet, Shape, CallShape, HistShape
<1>1. CASE StartPersist(c)
  BY <1>1, EndedCall DEF StartPersist, Taken
<1>2. CASE CommitBatch(c)
  BY <1>2 DEF CommitBatch, Commit, Transacting, Running
<1>3. CASE Emit(c)
  BY <1>3, EndedCall DEF Emit
<1>4. CASE Begin(c)
  BY <1>4, EndedCall DEF Begin, Transacting, Running
<1>5. CASE WriteAndCommit(c)
  BY <1>5 DEF WriteAndCommit, Commit, Transacting, Running
<1>6. CASE PatchNative(c)
  BY <1>6, EndedCall DEF PatchNative
<1>7. CASE PatchRead(c)
  <2>1. PICK col \in Columns :
          /\ call' = [call EXCEPT ![c].pc = "patching", ![c].kind = "patch", ![c].batch =
               <<[id |-> hist.n + 1, dirty |-> {}, row |-> [db EXCEPT ![col] = hist.n + 1]]>>]
          /\ hist' = [hist EXCEPT !.n = @ + 1, !.exempt = @ \cup {"patch"}]
          /\ UNCHANGED mode /\ call[c].pc = "idle"
    BY <1>7 DEF PatchRead
  <2> DEFINE saves == <<[id |-> hist.n + 1, dirty |-> {}, row |-> [db EXCEPT ![col] = hist.n + 1]]>>
  <2>2. call' = [call EXCEPT ![c].pc = "patching", ![c].kind = "patch", ![c].batch = saves]
    BY <2>1
  <2> HIDE DEF saves
  <2> QED  BY <2>1, <2>2
<1>8. CASE PatchWrite(c)
  BY <1>8, EndedCall DEF PatchWrite, Taken
<1>9. CASE Rollback(c)
  BY <1>9, EndedCall DEF Rollback
<1> QED  BY <1>1, <1>2, <1>3, <1>4, <1>5, <1>6, <1>7, <1>8, <1>9

(* The steps of a transaction outside its callback. *)
LEMMA TransactionSteps ==
  ASSUME NEW c \in Calls, IInv,
         \/ Flush(c) \/ CommitTransaction(c) \/ Undone(c) \/ Reject(c) \/ Retry(c) \/ LoseAnswer(c)
  PROVE  Shape' /\ Quiet(c)
<1>0. CallShape /\ HistShape  BY DEF IInv, Shape
<1> USE <1>0, Fields DEF Quiet, Shape, CallShape, HistShape
<1>1. CASE Flush(c)
  BY <1>1 DEF Flush, Transacting, Running
<1>2. CASE CommitTransaction(c)
  BY <1>2, EndedCall DEF CommitTransaction, Commit
<1>3. CASE Undone(c)
  BY <1>3, EndedCall DEF Undone, Discard
<1>4. CASE Reject(c)
  BY <1>4, EndedCall DEF Reject, Failing, Transacting, Running
<1>5. CASE Retry(c)
  <2> DEFINE again == [NewCall EXCEPT !.kind = "transaction", !.pc = "connecting",
                         !.prev = call[c].prev, !.attempt = call[c].attempt + 1]
  <2>1. CASE call[c].kind = "transaction"
    <3>1. call' = [call EXCEPT ![c] = again]  BY <1>5, <2>1 DEF Retry
    <3>2. /\ DOMAIN again = DOMAIN NewCall
          /\ again.kind = "transaction" /\ again.pc = "connecting" /\ again.prev = call[c].prev
      OBVIOUS
    <3> HIDE DEF again
    <3>3. Transacting(c) /\ call[c].pc # "fn"  BY <1>5, <2>1 DEF Retry, Failing, Transacting, Running
    <3>4. mode' = mode /\ hist.exempt \subseteq hist'.exempt /\ HistShape'
      <4>1. mode' = mode /\ hist' = [hist EXCEPT !.forgone = @ \cup Uncommitted(c), !.exempt = @ \cup Events(c)]
        BY <1>5, <2>1 DEF Retry
      <4> QED BY <4>1
    <3> QED  BY <2>1, <3>1, <3>2, <3>3, <3>4
  <2>2. CASE call[c].kind # "transaction"
    BY <1>5, <2>2 DEF Retry, Failing
  <2> QED  BY <2>1, <2>2
<1>6. CASE LoseAnswer(c)
  BY <1>6 DEF LoseAnswer, Transacting, Running
<1> QED  BY <1>1, <1>2, <1>3, <1>4, <1>5, <1>6

---------------------------------------------------------------------------
(* The steps that start a transaction, and enter, run and leave its callback. *)

LEMMA StartsInOrder ==
  ASSUME NEW c \in Calls, IInv, StartTransaction(c)
  PROVE  IInv'
<1>0. CallShape /\ HistShape /\ Orderly  BY DEF IInv, Shape
<1>1. Shape'
  BY <1>0, Fields DEF StartTransaction, Shape, CallShape, HistShape
<1>2. /\ call'[c].kind = "transaction" /\ call'[c].prev = mode
      /\ call'[c].pc = IF Sql THEN "connecting" ELSE "fn"
      /\ \A d \in Calls \ {c} : call'[d] = call[d]
  BY <1>0, Fields DEF StartTransaction, CallShape
<1>3. hist.exempt \subseteq hist'.exempt
      /\ ("overlap" \notin hist'.exempt => ~\E d \in Calls : Transacting(d))
  BY <1>0 DEF StartTransaction, HistShape, Transacting, Running
<1> SUFFICES ASSUME "overlap" \notin hist'.exempt
    PROVE  (FnIsTransaction /\ OneAtATime /\ FoundAtRest /\ GuardFollowsFn)'
  BY <1>1 DEF IInv, Orderly
<1>4. FnIsTransaction /\ GuardFollowsFn /\ ~\E d \in Calls : Transacting(d)
  BY <1>0, <1>3 DEF Orderly
<1>5. /\ \A d \in Calls \ {c} : call'[d].pc \notin {"connecting", "fn"} /\ ~Transacting(d)'
      /\ mode = "none"
  BY <1>2, <1>4 DEF FnIsTransaction, GuardFollowsFn, Transacting, Running
<1>6. (FnIsTransaction /\ OneAtATime /\ FoundAtRest)'
  BY <1>2, <1>5 DEF FnIsTransaction, OneAtATime, FoundAtRest
<1>7. GuardFollowsFn'
  <2>1. mode' = IF Sql THEN "none" ELSE "batching"  BY <1>5 DEF StartTransaction
  <2>2. \A d \in Calls : call'[d].pc = "fn" <=> d = c /\ ~Sql  BY <1>2, <1>5
  <2> QED  BY <2>1, <2>2 DEF GuardFollowsFn
<1> QED  BY <1>6, <1>7

LEMMA EntersInOrder ==
  ASSUME NEW c \in Calls, IInv, Connected(c)
  PROVE  IInv'
<1>0. CallShape /\ HistShape /\ Orderly  BY DEF IInv, Shape
<1> DEFINE scope == [inst |-> IF db = None THEN Zero ELSE db, base |-> db]
<1>1. call' = [call EXCEPT ![c].pc = "fn", ![c].scope = scope]  BY DEF Connected
<1> HIDE DEF scope
<1>2. Shape' /\ hist' = hist /\ mode' = "interactive"
  BY <1>0, <1>1, Fields DEF Connected, Shape, CallShape, HistShape
<1>3. /\ call'[c].pc = "fn" /\ call'[c].kind = call[c].kind /\ call'[c].prev = call[c].prev
      /\ \A d \in Calls \ {c} : call'[d] = call[d]
  BY <1>0, <1>1, Fields DEF CallShape
<1>4. \A d \in Calls : /\ Transacting(d)' <=> Transacting(d)
                       /\ call'[d].prev = call[d].prev
  BY <1>3 DEF Connected, Transacting, Running
<1> SUFFICES ASSUME "overlap" \notin hist'.exempt
    PROVE  (FnIsTransaction /\ OneAtATime /\ FoundAtRest /\ GuardFollowsFn)'
  BY <1>2 DEF IInv, Orderly
<1>5. FnIsTransaction /\ OneAtATime /\ FoundAtRest  BY <1>0, <1>2 DEF Orderly
<1>6. FnIsTransaction'
  BY <1>3, <1>5 DEF FnIsTransaction, Connected
<1>8. (OneAtATime /\ FoundAtRest)'
  BY <1>4, <1>5 DEF OneAtATime, FoundAtRest
<1>7. GuardFollowsFn'
  BY <1>2, <1>3 DEF GuardFollowsFn
<1> QED  BY <1>6, <1>7, <1>8

(* Inside a callback nothing the invariant reads moves. *)
LEMMA RunsInOrder ==
  ASSUME NEW c \in Calls, IInv, ScopedSave(c) \/ ScopedPersist(c)
  PROVE  IInv'
<1>0. CallShape /\ HistShape /\ Orderly  BY DEF IInv, Shape
<1>1. /\ Shape' /\ mode' = mode /\ hist.exempt \subseteq hist'.exempt
      /\ \A d \in Calls : /\ call'[d].pc = call[d].pc /\ call'[d].kind = call[d].kind
                           /\ call'[d].prev = call[d].prev
  <2>1. CASE ScopedSave(c)
    <3>1. PICK e1, e2 : call' = [call EXCEPT ![c].scope.inst = e1, ![c].squeue = Append(@, e2)]
      BY <2>1 DEF ScopedSave
    <3>2. mode' = mode /\ hist.exempt \subseteq hist'.exempt /\ HistShape'
      BY <1>0, <2>1 DEF ScopedSave, HistShape
    <3> QED  BY <1>0, <3>1, <3>2, Fields DEF Shape, CallShape
  <2>2. CASE ScopedPersist(c)
    BY <1>0, <2>2, Fields DEF ScopedPersist, Shape, CallShape, HistShape
  <2> QED  BY <2>1, <2>2
<1>2. \A d \in Calls : Transacting(d)' <=> Transacting(d)
  BY <1>1 DEF Transacting, Running
<1> SUFFICES ASSUME "overlap" \notin hist'.exempt
    PROVE  (FnIsTransaction /\ OneAtATime /\ FoundAtRest /\ GuardFollowsFn)'
  BY <1>1 DEF IInv, Orderly
<1>3. FnIsTransaction /\ OneAtATime /\ FoundAtRest /\ GuardFollowsFn  BY <1>0, <1>1 DEF Orderly
<1>4. (FnIsTransaction /\ OneAtATime /\ FoundAtRest)'
  BY <1>1, <1>2, <1>3 DEF FnIsTransaction, OneAtATime, FoundAtRest
<1>5. GuardFollowsFn'
  BY <1>1, <1>3 DEF GuardFollowsFn
<1> QED  BY <1>4, <1>5

(* Whether fn returns or throws, the mode it found is restored: no other
   transaction is in flight, so it found none. *)
LEMMA LeavesInOrder ==
  ASSUME NEW c \in Calls, IInv, FnReturns(c) \/ FnThrows(c)
  PROVE  IInv'
<1>0. CallShape /\ HistShape /\ Orderly  BY DEF IInv, Shape
<1>1. /\ call[c].pc = "fn" /\ mode' = call[c].prev /\ hist.exempt \subseteq hist'.exempt
      /\ Shape' /\ \A d \in Calls \ {c} : call'[d] = call[d]
      /\ call'[c].pc \notin {"connecting", "fn"}
      /\ \/ call'[c].pc \in {"idle", "resolved", "rejected"}
         \/ call'[c].kind = "transaction" /\ call'[c].prev = call[c].prev
         \/ call[c].kind # "transaction"
  <2>1. CASE FnReturns(c)
    BY <1>0, <2>1, EndedCall, Fields DEF FnReturns, Taken, Left, Shape, CallShape, HistShape
  <2>2. CASE FnThrows(c)
    <3>1. call[c].pc = "fn" /\ mode' = call[c].prev  BY <2>2 DEF FnThrows, Left
    <3>2. CASE Sql
      <4>1. call' = [call EXCEPT ![c].pc = "undoing"] /\ hist' = hist  BY <2>2, <3>2 DEF FnThrows
      <4> QED  BY <1>0, <3>1, <4>1, Fields DEF Shape, CallShape, HistShape
    <3>3. CASE ~Sql
      <4>1. Discard(c)  BY <2>2, <3>3 DEF FnThrows
      <4>2. call' = Ended(c, "rejected") /\ hist.exempt \subseteq hist'.exempt /\ HistShape'
        BY <1>0, <4>1 DEF Discard, HistShape
      <4> QED  BY <1>0, <3>1, <4>2, EndedCall DEF Shape, CallShape
    <3> QED  BY <3>2, <3>3
  <2> QED  BY <2>1, <2>2
<1> SUFFICES ASSUME "overlap" \notin hist'.exempt
    PROVE  (FnIsTransaction /\ OneAtATime /\ FoundAtRest /\ GuardFollowsFn)'
  BY <1>1 DEF IInv, Orderly
<1>2. FnIsTransaction /\ OneAtATime /\ FoundAtRest /\ GuardFollowsFn  BY <1>0, <1>1 DEF Orderly
<1>3. Transacting(c) /\ call[c].prev = "none"
  BY <1>1, <1>2 DEF FnIsTransaction, FoundAtRest, Transacting, Running
<1>4. \A d \in Calls \ {c} : ~Transacting(d) /\ call[d].pc # "fn"
  BY <1>2, <1>3 DEF OneAtATime, FnIsTransaction, Transacting, Running
<1>5. \A d \in Calls : Transacting(d)' => d = c /\ call'[d].prev = "none"
  BY <1>1, <1>3, <1>4 DEF Transacting, Running
<1>6. (FnIsTransaction /\ OneAtATime /\ FoundAtRest)'
  BY <1>1, <1>2, <1>5 DEF FnIsTransaction, OneAtATime, FoundAtRest
<1>7. GuardFollowsFn'
  BY <1>1, <1>3, <1>4 DEF GuardFollowsFn
<1> QED  BY <1>6, <1>7

---------------------------------------------------------------------------
LEMMA NextIInv == IInv /\ [Next]_vars => IInv'
<1> SUFFICES ASSUME IInv, [Next]_vars PROVE IInv'
  OBVIOUS
<1>0. CallShape /\ HistShape /\ Orderly  BY DEF IInv, Shape
<1>1. CASE Save
  <2>1. call' = call /\ mode' = mode /\ hist'.exempt = hist.exempt /\ HistShape'
    BY <1>0, <1>1 DEF Save, HistShape
  <2> QED  BY <1>0, <2>1 DEF IInv, Shape, CallShape, Orderly, FnIsTransaction, OneAtATime, FoundAtRest,
             GuardFollowsFn, Transacting, Running
<1>2. ASSUME NEW c \in Calls,
             \/ StartPersist(c) \/ StartTransaction(c) \/ PatchNative(c) \/ PatchRead(c)
             \/ ScopedSave(c) \/ ScopedPersist(c) \/ Ends(c)
      PROVE  IInv'
  <2>1. CASE \/ StartPersist(c) \/ CommitBatch(c) \/ Emit(c) \/ Begin(c) \/ WriteAndCommit(c)
             \/ PatchNative(c) \/ PatchRead(c) \/ PatchWrite(c) \/ Rollback(c)
    BY <1>0, <2>1, PersistSteps, QuietSteps DEF IInv
  <2>2. CASE \/ Flush(c) \/ CommitTransaction(c) \/ Undone(c) \/ Reject(c) \/ Retry(c) \/ LoseAnswer(c)
    BY <1>0, <2>2, TransactionSteps, QuietSteps DEF IInv
  <2>3. CASE StartTransaction(c)
    BY <2>3, StartsInOrder
  <2>4. CASE Connected(c)
    BY <2>4, EntersInOrder
  <2>5. CASE ScopedSave(c) \/ ScopedPersist(c)
    BY <2>5, RunsInOrder
  <2>6. CASE FnReturns(c) \/ FnThrows(c)
    BY <2>6, LeavesInOrder
  <2> QED  BY <1>2, <2>1, <2>2, <2>3, <2>4, <2>5, <2>6 DEF Ends
<1>3. CASE UNCHANGED vars
  BY <1>0, <1>3 DEF vars, IInv, Shape, CallShape, HistShape, Orderly, FnIsTransaction, OneAtATime, FoundAtRest,
     GuardFollowsFn, Transacting, Running
<1> QED  BY <1>1, <1>2, <1>3 DEF Next

(* "Refuse an immediately-persisting write that would silently escape a
   transaction": as long as no two transactions of the manager overlap, the
   guard of patch() is up exactly while a callback runs, whatever fails, is
   retried or throws, on every engine. *)
THEOREM GuardAlwaysStands == Spec => []GuardStands
<1>1. IInv => GuardStands  BY DEF IInv, Orderly, GuardStands
<1> QED  BY InitIInv, NextIInv, <1>1, PTL DEF Spec

---------------------------------------------------------------------------
(* What the variables hold. Values and numbers are any naturals: the bounds
   of the runs play no part. *)
Rows == [Columns -> Nat]
Saves == [id : Nat \ {0}, row : Rows, dirty : SUBSET Columns]
Modes == {"none", "interactive", "batching"}
Kinds == {None, "persist", "patch", "transaction"}
Steps == {"idle", "writing", "begin", "open", "emitting", "patching", "connecting", "fn", "flushing",
          "committing", "undoing", "unanswered", "resolved", "rejected"}
Reasons == {"overlap", "unanswered", "crossed", "bucketed", "patch", "mixed", "early"}
CallStates ==
  [pc : Steps, kind : Kinds, attempt : Nat, prev : Modes, batch : Seq(Saves), written : Seq(Saves),
   squeue : Seq(Saves), scope : [inst : Rows, base : Rows \cup {None}]]

TypeInv ==
  /\ db \in Rows \cup {None}
  /\ repo \in [inst : Rows, base : Rows \cup {None}]
  /\ queue \in Seq(Saves)
  /\ mode \in Modes
  /\ call \in [Calls -> CallStates]
  /\ conn \in [owner : Calls \cup {None}, db : Rows \cup {None}, landed : SUBSET Nat]
  /\ hist \in [n : Nat, last : Rows, landed : SUBSET Nat, dropped : SUBSET Nat, forgone : SUBSET Nat,
               exempt : SUBSET Reasons]

---------------------------------------------------------------------------
(* A batch in its buckets is the batch in another order. *)

LEMMA FirstOfBucket ==
  ASSUME NEW s \in Seq(Saves), NEW i \in DOMAIN s
  PROVE  BucketOf(s, i) \in 1..i /\ s[BucketOf(s, i)].dirty = s[i].dirty
<1> DEFINE T == {j \in 1..i : s[j].dirty = s[i].dirty}
<1>1. i \in Nat /\ i \in T /\ T \subseteq Nat
  BY LenProperties
<1>2. PICK j \in T : \A k \in T : j <= k
  BY <1>1, SmallestOf
<1>3. j \in 1..i /\ s[j].dirty = s[i].dirty /\ \A k \in 1..(j - 1) : s[k].dirty # s[i].dirty
  BY <1>1, <1>2
<1> QED BY <1>3 DEF BucketOf

LEMMA EarlierIsOrder ==
  ASSUME NEW s \in Seq(Saves)
  PROVE  /\ \A i \in DOMAIN s : ~Earlier(s, i, i)
         /\ \A i, j, k \in DOMAIN s : Earlier(s, i, j) /\ Earlier(s, j, k) => Earlier(s, i, k)
         /\ \A i, j \in DOMAIN s : i # j => Earlier(s, i, j) \/ Earlier(s, j, i)
<1>1. \A i \in DOMAIN s : BucketOf(s, i) \in Nat /\ i \in Nat
  BY FirstOfBucket, LenProperties
<1> QED BY <1>1 DEF Earlier

(* Who comes earlier than the last in a set. *)
LEMMA PlacesDiffer ==
  ASSUME NEW s \in Seq(Saves), NEW i \in DOMAIN s
  PROVE  /\ Place(s, i) \in 1..Len(s)
         /\ \A j \in DOMAIN s : Earlier(s, i, j) => Place(s, i) < Place(s, j)
<1> DEFINE Before(j) == {k \in DOMAIN s : Earlier(s, k, j)}
<1>1. IsFiniteSet(DOMAIN s) /\ Cardinality(DOMAIN s) = Len(s) /\ Len(s) \in Nat
  <2>1. DOMAIN s = 1..Len(s) /\ Len(s) \in Nat
    BY LenProperties
  <2>2. IsFiniteSet(1..Len(s)) /\ Cardinality(1..Len(s)) = Len(s)
    <3>1. ASSUME NEW n \in Nat
          PROVE  IsFiniteSet(1..n) /\ Cardinality(1..n) = n
      <4>1. /\ IsFiniteSet(1..n)
            /\ Cardinality(1..n) = IF 1 > n THEN 0 ELSE n - 1 + 1
        BY FS_Interval
      <4>2. (IF 1 > n THEN 0 ELSE n - 1 + 1) = n
        OBVIOUS
      <4> QED BY <4>1, <4>2
    <3> QED BY <2>1, <3>1
  <2> QED BY <2>1, <2>2
<1>2. ASSUME NEW j \in DOMAIN s
      PROVE  /\ IsFiniteSet(Before(j)) /\ Cardinality(Before(j)) \in Nat
             /\ Cardinality(Before(j)) < Len(s)
  <2>1. Before(j) \subseteq DOMAIN s /\ j \notin Before(j)
    BY EarlierIsOrder
  <2> HIDE DEF Before
  <2> QED BY <1>1, <2>1, FS_Subset, FS_CardinalityType
<1>3. ASSUME NEW j \in DOMAIN s, Earlier(s, i, j)
      PROVE  Cardinality(Before(i)) < Cardinality(Before(j))
  <2>1. Before(i) \subseteq Before(j)
    BY <1>3, EarlierIsOrder
  <2>2. i \in Before(j) /\ i \notin Before(i)
    BY <1>3, EarlierIsOrder
  <2> HIDE DEF Before
  <2> QED BY <1>2, <2>1, <2>2, FS_Subset
<1>4. \A j \in DOMAIN s : Place(s, j) = Cardinality(Before(j)) + 1
  BY DEF Place
<1> HIDE DEF Before
<1> QED BY <1>1, <1>2, <1>3, <1>4

LEMMA BucketsPermute ==
  ASSUME NEW s \in Seq(Saves)
  PROVE  /\ Bucketed(s) \in Seq(Saves) /\ Len(Bucketed(s)) = Len(s)
         /\ \A k \in DOMAIN s : \E i \in DOMAIN s : Bucketed(s)[k] = s[i]
         /\ \A i \in DOMAIN s : \E k \in DOMAIN s : Bucketed(s)[k] = s[i]
<1>1. CASE ~Sql
  BY <1>1 DEF Bucketed
<1>2. CASE Sql
  <2> DEFINE f == [i \in DOMAIN s |-> Place(s, i)]
             P(k) == CHOOSE i \in DOMAIN s : Place(s, i) = k
  <2>1. Len(s) \in Nat /\ DOMAIN s = 1..Len(s)
    BY LenProperties
  <2>2. f \in [DOMAIN s -> DOMAIN s]
    BY <2>1, PlacesDiffer
  <2>3. \A i, j \in DOMAIN s : Place(s, i) = Place(s, j) => i = j
    BY <2>1, PlacesDiffer, EarlierIsOrder
  <2>4. f \in Injection(DOMAIN s, DOMAIN s)
    BY <2>2, <2>3 DEF Injection, IsInjective
  <2>5. f \in Surjection(DOMAIN s, DOMAIN s)
    BY <2>1, <2>4, FS_Injection, FS_Interval
  <2>6. \A k \in DOMAIN s : \E i \in DOMAIN s : Place(s, i) = k
    BY <2>5 DEF Surjection
  <2>7. \A k \in DOMAIN s : P(k) \in DOMAIN s /\ Place(s, P(k)) = k
    BY <2>6
  <2>8. \A i \in DOMAIN s : Place(s, i) \in DOMAIN s /\ P(Place(s, i)) = i
    BY <2>1, <2>3, <2>7, PlacesDiffer
  <2>9. Bucketed(s) = [k \in DOMAIN s |-> s[P(k)]]
    BY <1>2 DEF Bucketed
  <2> HIDE DEF P
  <2>10. Bucketed(s) \in [1..Len(s) -> Saves]
    BY <2>1, <2>7, <2>9, ElementOfSeq, LenProperties
  <2>11. Bucketed(s) \in Seq(Saves) /\ Len(Bucketed(s)) = Len(s)
    BY <2>1, <2>10
  <2> QED BY <2>7, <2>8, <2>9, <2>11
<1> QED BY <1>1, <1>2

LEMMA BucketedIds ==
  ASSUME NEW s \in Seq(Saves)
  PROVE  Ids(Bucketed(s)) = Ids(s)
<1>1. /\ DOMAIN Bucketed(s) = DOMAIN s
      /\ \A k \in DOMAIN s : \E i \in DOMAIN s : Bucketed(s)[k] = s[i]
      /\ \A i \in DOMAIN s : \E k \in DOMAIN s : Bucketed(s)[k] = s[i]
  BY BucketsPermute, LenProperties
<1>2. ASSUME NEW k \in DOMAIN Bucketed(s)
      PROVE  Bucketed(s)[k].id \in Ids(s)
  <2>1. PICK i \in DOMAIN s : Bucketed(s)[k] = s[i]
    BY <1>1
  <2> QED BY <2>1 DEF Ids
<1>3. ASSUME NEW i \in DOMAIN s
      PROVE  s[i].id \in Ids(Bucketed(s))
  <2>1. PICK k \in DOMAIN Bucketed(s) : Bucketed(s)[k] = s[i]
    BY <1>1
  <2> QED BY <2>1 DEF Ids
<1>4. \A id \in Ids(Bucketed(s)) : \E k \in DOMAIN Bucketed(s) : id = Bucketed(s)[k].id
  BY DEF Ids
<1>5. \A id \in Ids(s) : \E i \in DOMAIN s : id = s[i].id
  BY DEF Ids
<1>6. Ids(Bucketed(s)) \subseteq Ids(s)
  BY <1>2, <1>4
<1>7. Ids(s) \subseteq Ids(Bucketed(s))
  BY <1>3, <1>5
<1> QED BY <1>6, <1>7

---------------------------------------------------------------------------
(* A row after a batch, and the pieces calls are made of. *)
LEMMA AfterColumn ==
  ASSUME NEW s \in Seq(Saves), s # <<>>, NEW row \in Rows \cup {None}, NEW col \in Columns,
         NEW W, W = {i \in DOMAIN s : col \in Sets(s[i]) \/ (row = None /\ i = 1)}
  PROVE  \/ W = {} /\ row # None /\ After(row, s)[col] = row[col]
         \/ \E i \in W : (\A j \in W : j <= i) /\ After(row, s)[col] = s[i].row[col]
<1>1. Len(s) \in Nat /\ DOMAIN s = 1..Len(s) /\ 1 \in DOMAIN s
  BY LenProperties, EmptySeq
<1>2. After(row, s)[col] = IF W = {} THEN row[col] ELSE s[Max(W)].row[col]
  BY DEF After
<1>3. CASE W = {}
  BY <1>1, <1>2, <1>3
<1>4. CASE W # {}
  <2>1. W \subseteq 1..Len(s)
    BY <1>1
  <2>2. PICK i \in W : \A j \in W : j <= i
    BY <1>1, <1>4, <2>1, LargestOf
  <2>3. Max(W) \in W /\ \A j \in W : j <= Max(W)
    <3>1. \E x \in W : \A y \in W : x >= y
      BY <2>1, <2>2
    <3>2. Max(W) \in W /\ \A y \in W : Max(W) >= y
      BY <3>1 DEF Max
    <3> QED BY <1>1, <2>1, <3>2
  <2> QED BY <1>2, <1>4, <2>3
<1> QED BY <1>3, <1>4

LEMMA SaveFields ==
  ASSUME NEW s \in Seq(Saves), NEW i \in DOMAIN s
  PROVE  /\ s[i] \in Saves /\ s[i].id \in Nat \ {0} /\ s[i].dirty \in SUBSET Columns
         /\ s[i].row \in Rows /\ \A col \in Columns : s[i].row[col] \in Nat
<1>1. s[i] \in Saves
  BY ElementOfSeq, LenProperties
<1>2. s[i].id \in Nat \ {0} /\ s[i].dirty \in SUBSET Columns /\ s[i].row \in Rows
  BY <1>1 DEF Saves
<1> QED BY <1>1, <1>2 DEF Rows

LEMMA AfterType ==
  ASSUME NEW s \in Seq(Saves), NEW row \in Rows \cup {None}
  PROVE  After(row, s) \in Rows \cup {None} /\ (s # <<>> => After(row, s) \in Rows)
<1>1. CASE s = <<>>
  BY <1>1 DEF After
<1>2. CASE s # <<>>
  <2>1. ASSUME NEW col \in Columns
        PROVE  After(row, s)[col] \in Nat
    <3> DEFINE W == {i \in DOMAIN s : col \in Sets(s[i]) \/ (row = None /\ i = 1)}
    <3>1. \/ W = {} /\ row # None /\ After(row, s)[col] = row[col]
          \/ \E i \in W : (\A j \in W : j <= i) /\ After(row, s)[col] = s[i].row[col]
      BY <1>2, AfterColumn
    <3>2. \A i \in DOMAIN s : s[i].row[col] \in Nat
      BY SaveFields
    <3> QED BY <3>1, <3>2 DEF Rows
  <2>2. After(row, s) = [col \in Columns |-> After(row, s)[col]]
    BY <1>2 DEF After
  <2> HIDE DEF Sets
  <2>3. After(row, s) \in Rows
    BY <2>1, <2>2 DEF Rows
  <2> QED BY <2>3
<1> QED BY <1>1, <1>2

LEMMA NewCallType == Zero \in Rows /\ NewCall \in CallStates
<1>1. Zero \in Rows
  BY DEF Zero, Rows
<1>2. <<>> \in Seq(Saves)
  BY EmptySeq
<1> QED BY <1>1, <1>2 DEF NewCall, CallStates, Steps, Kinds, Modes

LEMMA EndedType ==
  ASSUME TypeInv, NEW c \in Calls, NEW how \in {"resolved", "rejected"}
  PROVE  Ended(c, how) \in [Calls -> CallStates]
<1>1. [NewCall EXCEPT !.pc = how] \in CallStates
  BY NewCallType DEF CallStates, Steps
<1> HIDE DEF CallStates
<1> QED BY <1>1 DEF Ended, TypeInv

LEMMA HeardType ==
  ASSUME NEW r \in [inst : Rows, base : Rows \cup {None}], NEW s \in Seq(Saves)
  PROVE  Heard(r, s) \in [inst : Rows, base : Rows \cup {None}]
<1>1. CASE s = <<>>
  BY <1>1 DEF Heard
<1>2. CASE s # <<>>
  <2>1. Len(s) \in DOMAIN s
    BY <1>2, LenProperties, EmptySeq
  <2>2. Last(s).row \in Rows
    BY <2>1, SaveFields DEF Last
  <2> QED BY <1>2, <2>2 DEF Heard
<1> QED BY <1>1, <1>2

LEMMA EntryType ==
  ASSUME TypeInv, NEW r \in [inst : Rows, base : Rows \cup {None}], NEW row \in Rows
  PROVE  Entry(r, row) \in Saves
<1>1. ComputeDirty(r, row) \in SUBSET Columns
  BY DEF ComputeDirty
<1>2. hist.n + 1 \in Nat \ {0}
  BY DEF TypeInv
<1> QED BY <1>1, <1>2 DEF Entry, Saves

LEMMA IdsType ==
  ASSUME NEW s \in Seq(Saves)
  PROVE  Ids(s) \in SUBSET Nat
BY SaveFields DEF Ids

LEMMA ValuesType ==
  ASSUME TypeInv
  PROVE  \A v \in Values : v \in Nat
BY DEF Values, TypeInv

LEMMA EditedType ==
  ASSUME NEW r, r.inst \in Rows, NEW col \in Columns, NEW v \in Nat
  PROVE  Edited(r, col, v) \in Rows
BY DEF Edited, Rows

LEMMA InitTypes == Init => TypeInv
<1>1. <<>> \in Seq(Saves)
  BY EmptySeq
<1>2. \A c \in Calls : NewCall \in CallStates
  BY NewCallType
<1> HIDE DEF CallStates
<1> QED BY <1>1, <1>2, NewCallType DEF Init, TypeInv, Free, Modes, NewCall

(* What call c becomes, where only it moves. *)
LEMMA CallMoves ==
  ASSUME TypeInv, NEW c \in Calls, NEW new \in CallStates, call' = [call EXCEPT ![c] = new]
  PROVE  /\ call' \in [Calls -> CallStates]
         /\ call'[c] = new /\ \A d \in Calls \ {c} : call'[d] = call[d]
<1> HIDE DEF CallStates
<1> QED BY DEF TypeInv

LEMMA CallFields ==
  ASSUME TypeInv, NEW c \in Calls
  PROVE  /\ call[c] \in CallStates
         /\ call[c].batch \in Seq(Saves) /\ call[c].written \in Seq(Saves) /\ call[c].squeue \in Seq(Saves)
         /\ call[c].scope \in [inst : Rows, base : Rows \cup {None}]
         /\ call[c].attempt \in Nat /\ call[c].prev \in Modes /\ call[c].kind \in Kinds
         /\ call[c].pc \in Steps
<1>1. call[c] \in CallStates
  BY DEF TypeInv
<1> QED BY <1>1 DEF CallStates

(* What a call is that has taken saves to write. *)
Holding(c, kind, saves) ==
  [call[c] EXCEPT !.kind = kind, !.batch = saves, !.pc = IF Sql THEN "writing" ELSE "begin"]

LEMMA TakenMoves ==
  ASSUME TypeInv, NEW c \in Calls, NEW saves \in Seq(Saves), NEW kind \in Kinds, Taken(c, kind, saves)
  PROVE  /\ queue' = <<>> /\ queue' \in Seq(Saves) /\ call' \in [Calls -> CallStates]
         /\ \A d \in Calls \ {c} : call'[d] = call[d]
         /\ saves = <<>> => call'[c] = [NewCall EXCEPT !.pc = "resolved"]
         /\ saves # <<>> => call'[c] = Holding(c, kind, saves)
<1>1. queue' = <<>> /\ queue' \in Seq(Saves)
  BY EmptySeq DEF Taken
<1>2. CASE saves = <<>>
  <2>1. call' = [call EXCEPT ![c] = [NewCall EXCEPT !.pc = "resolved"]]
    BY <1>2 DEF Taken, Ended
  <2>2. [NewCall EXCEPT !.pc = "resolved"] \in CallStates
    BY NewCallType DEF CallStates, Steps
  <2> QED BY <1>1, <1>2, <2>1, <2>2, CallMoves
<1>3. CASE saves # <<>>
  <2> DEFINE new == [call[c] EXCEPT !.kind = kind, !.batch = saves, !.pc = IF Sql THEN "writing" ELSE "begin"]
  <2>1. call' = [call EXCEPT ![c] = new]
    BY <1>3, CallFields DEF Taken, TypeInv
  <2>2. new \in CallStates
    BY CallFields DEF CallStates, Steps
  <2> HIDE DEF new
  <2>3. call' \in [Calls -> CallStates] /\ call'[c] = new /\ \A d \in Calls \ {c} : call'[d] = call[d]
    BY <2>1, <2>2, CallMoves
  <2>4. call'[c] = Holding(c, kind, saves)
    BY <2>3 DEF new, Holding
  <2> QED BY <1>1, <1>3, <2>3, <2>4
<1> QED BY <1>2, <1>3

---------------------------------------------------------------------------
(* Each action: what it makes of the call, and that the types are kept. *)
(* Only c moves, to new. *)
Moves(c, new) == call'[c] = new /\ \A d \in Calls \ {c} : call'[d] = call[d]

LEMMA CommitTypes ==
  ASSUME TypeInv, NEW s \in Seq(Saves), Commit(s)
  PROVE  /\ db' \in Rows \cup {None}
         /\ hist' \in [n : Nat, last : Rows, landed : SUBSET Nat, dropped : SUBSET Nat, forgone : SUBSET Nat,
                       exempt : SUBSET Reasons]
         /\ hist'.n = hist.n /\ hist'.last = hist.last /\ hist'.landed = hist.landed \cup Ids(s)
         /\ hist'.dropped = hist.dropped /\ hist'.forgone = hist.forgone
         /\ hist.exempt \subseteq hist'.exempt /\ hist'.exempt \subseteq hist.exempt \cup {"crossed", "bucketed"}
         /\ "crossed" \notin hist'.exempt => \A i \in Ids(s), j \in hist.landed : ~(i < j)
         /\ "bucketed" \notin hist'.exempt => ~Overtaken(s)
<1> DEFINE crossed == IF \E i \in Ids(s) : \E j \in hist.landed : i < j THEN {"crossed"} ELSE {}
           bucketed == IF Overtaken(s) THEN {"bucketed"} ELSE {}
<1>1. db' \in Rows \cup {None}
  BY AfterType DEF Commit, TypeInv
<1>2. hist' = [hist EXCEPT !.landed = @ \cup Ids(s), !.exempt = @ \cup crossed \cup bucketed]
  BY DEF Commit
<1>3. crossed \in SUBSET Reasons /\ bucketed \in SUBSET Reasons
  <2>1. {"crossed"} \in SUBSET Reasons /\ {"bucketed"} \in SUBSET Reasons /\ {} \in SUBSET Reasons
    BY DEF Reasons
  <2>2. crossed \in {{"crossed"}, {}} /\ bucketed \in {{"bucketed"}, {}}
    OBVIOUS
  <2> HIDE DEF crossed, bucketed
  <2> QED BY <2>1, <2>2
<1>4. /\ crossed \subseteq {"crossed"} /\ bucketed \subseteq {"bucketed"}
      /\ "crossed" \notin crossed => \A i \in Ids(s), j \in hist.landed : ~(i < j)
      /\ "bucketed" \notin bucketed => ~Overtaken(s)
  <2>1. crossed \subseteq {"crossed"} /\ bucketed \subseteq {"bucketed"}
    OBVIOUS
  <2>2. ASSUME "crossed" \notin crossed
        PROVE  ~\E i \in Ids(s) : \E j \in hist.landed : i < j
    BY <2>2
  <2>3. ASSUME "bucketed" \notin bucketed
        PROVE  ~Overtaken(s)
    BY <2>3
  <2> QED BY <2>1, <2>2, <2>3
<1>5. Ids(s) \in SUBSET Nat
  BY IdsType
<1> HIDE DEF crossed, bucketed
<1> QED BY <1>1, <1>2, <1>3, <1>4, <1>5 DEF TypeInv

LEMMA SaveTypes ==
  ASSUME TypeInv, Save
  PROVE  /\ TypeInv'
         /\ \E col \in Columns, value \in Values :
              LET row == Edited(repo, col, value) IN
              /\ queue' = Append(queue, Entry(repo, row))
              /\ repo' = [repo EXCEPT !.inst = row]
              /\ hist' = [hist EXCEPT !.n = @ + 1, !.last = row]
<1>1. PICK col \in Columns, value \in Values :
        /\ queue' = Append(queue, Entry(repo, Edited(repo, col, value)))
        /\ repo' = [repo EXCEPT !.inst = Edited(repo, col, value)]
        /\ hist' = [hist EXCEPT !.n = @ + 1, !.last = Edited(repo, col, value)]
  BY DEF Save
<1>2. UNCHANGED <<db, mode, call, conn>>
  BY DEF Save
<1> DEFINE row == Edited(repo, col, value)
<1>3. row \in Rows
  BY ValuesType, EditedType DEF TypeInv
<1>4. Entry(repo, row) \in Saves
  BY <1>3, EntryType DEF TypeInv
<1>5. queue' = Append(queue, Entry(repo, row)) /\ repo' = [repo EXCEPT !.inst = row]
      /\ hist' = [hist EXCEPT !.n = @ + 1, !.last = row]
  BY <1>1
<1> HIDE DEF row
<1>6. queue' \in Seq(Saves)
  BY <1>4, <1>5, AppendProperties DEF TypeInv
<1>7. TypeInv'
  <2>1. repo' \in [inst : Rows, base : Rows \cup {None}]
    BY <1>3, <1>5 DEF TypeInv
  <2>2. hist' \in [n : Nat, last : Rows, landed : SUBSET Nat, dropped : SUBSET Nat, forgone : SUBSET Nat,
                   exempt : SUBSET Reasons]
    <3>1. hist.n + 1 \in Nat /\ hist' = [hist EXCEPT !.n = hist.n + 1, !.last = row]
      BY <1>5 DEF TypeInv
    <3> QED BY <1>3, <3>1 DEF TypeInv
  <2> HIDE DEF CallStates
  <2> QED BY <1>2, <1>6, <2>1, <2>2 DEF TypeInv
<1> QED BY <1>1, <1>7

LEMMA StartPersistTypes ==
  ASSUME TypeInv, NEW c \in Calls, StartPersist(c)
  PROVE  TypeInv'
<1>1. queue' \in Seq(Saves) /\ call' \in [Calls -> CallStates]
  BY TakenMoves DEF StartPersist, TypeInv, Kinds
<1> HIDE DEF CallStates
<1> QED BY <1>1 DEF StartPersist, TypeInv

LEMMA CommitBatchTypes ==
  ASSUME TypeInv, NEW c \in Calls, CommitBatch(c)
  PROVE  TypeInv' /\ Moves(c, [call[c] EXCEPT !.pc = "emitting"])
<1>1. Bucketed(call[c].batch) \in Seq(Saves)
  BY CallFields, BucketsPermute
<1>2. [call[c] EXCEPT !.pc = "emitting"] \in CallStates
  BY CallFields DEF CallStates, Steps
<1>3. call' \in [Calls -> CallStates] /\ Moves(c, [call[c] EXCEPT !.pc = "emitting"])
  BY <1>2, CallMoves DEF CommitBatch, Moves
<1>4. Commit(Bucketed(call[c].batch)) /\ UNCHANGED <<engine, repo, queue, mode, conn>>
  BY DEF CommitBatch
<1> HIDE DEF CallStates
<1> QED BY <1>1, <1>3, <1>4, CommitTypes DEF TypeInv

LEMMA EmitTypes ==
  ASSUME TypeInv, NEW c \in Calls, Emit(c)
  PROVE  TypeInv' /\ Moves(c, [NewCall EXCEPT !.pc = "resolved"])
<1>1. [NewCall EXCEPT !.pc = "resolved"] \in CallStates
  BY NewCallType DEF CallStates, Steps
<1>2. call' \in [Calls -> CallStates] /\ Moves(c, [NewCall EXCEPT !.pc = "resolved"])
  BY <1>1, CallMoves DEF Emit, Ended, Moves
<1>3. repo' \in [inst : Rows, base : Rows \cup {None}]
  BY HeardType, CallFields DEF Emit, TypeInv
<1> HIDE DEF CallStates
<1> QED BY <1>2, <1>3 DEF TypeInv, Emit

LEMMA BeginTypes ==
  ASSUME TypeInv, NEW c \in Calls, Begin(c)
  PROVE  /\ TypeInv'
         /\ \/ Moves(c, [call[c] EXCEPT !.pc = "open"])
            \/ Moves(c, [NewCall EXCEPT !.pc = "rejected"]) /\ conn.owner # None
<1>1. [NewCall EXCEPT !.pc = "rejected"] \in CallStates /\ [call[c] EXCEPT !.pc = "open"] \in CallStates
  BY NewCallType, CallFields DEF CallStates, Steps
<1>2. CASE conn.owner = None
  <2>1. call' \in [Calls -> CallStates] /\ Moves(c, [call[c] EXCEPT !.pc = "open"])
    BY <1>1, <1>2, CallMoves DEF Begin, Moves
  <2>2. conn' = [owner |-> c, db |-> db, landed |-> hist.landed] /\ hist' = hist
    BY <1>2 DEF Begin
  <2> HIDE DEF CallStates
  <2> QED BY <2>1, <2>2 DEF TypeInv, Begin
<1>3. CASE conn.owner # None
  <2>1. call' \in [Calls -> CallStates] /\ Moves(c, [NewCall EXCEPT !.pc = "rejected"])
    BY <1>1, <1>3, CallMoves DEF Begin, Ended, Moves
  <2>2. hist' = [hist EXCEPT !.dropped = @ \cup Ids(call[c].batch)] /\ Ids(call[c].batch) \in SUBSET Nat
    BY <1>3, IdsType, CallFields DEF Begin
  <2> HIDE DEF CallStates
  <2> QED BY <1>3, <2>1, <2>2 DEF TypeInv, Begin
<1> QED BY <1>2, <1>3

LEMMA WriteAndCommitTypes ==
  ASSUME TypeInv, NEW c \in Calls, WriteAndCommit(c)
  PROVE  TypeInv' /\ Moves(c, [call[c] EXCEPT !.pc = "emitting"])
<1>2. [call[c] EXCEPT !.pc = "emitting"] \in CallStates
  BY CallFields DEF CallStates, Steps
<1>3. call' \in [Calls -> CallStates] /\ Moves(c, [call[c] EXCEPT !.pc = "emitting"])
  BY <1>2, CallMoves DEF WriteAndCommit, Moves
<1>4. Commit(call[c].batch) /\ call[c].batch \in Seq(Saves) /\ conn' = Free
  BY CallFields DEF WriteAndCommit
<1> HIDE DEF CallStates
<1> QED BY <1>3, <1>4, CommitTypes DEF TypeInv, WriteAndCommit, Free

LEMMA RollbackTypes ==
  ASSUME TypeInv, NEW c \in Calls, Rollback(c)
  PROVE  TypeInv' /\ Moves(c, [NewCall EXCEPT !.pc = "rejected"])
<1>1. [NewCall EXCEPT !.pc = "rejected"] \in CallStates
  BY NewCallType DEF CallStates, Steps
<1>2. call' \in [Calls -> CallStates] /\ Moves(c, [NewCall EXCEPT !.pc = "rejected"])
  BY <1>1, CallMoves DEF Rollback, Ended, Moves
<1>3. Ids(call[c].batch) \in SUBSET Nat
  BY IdsType, CallFields
<1> HIDE DEF CallStates
<1> QED BY <1>2, <1>3 DEF TypeInv, Rollback, Free

LEMMA PatchNativeTypes ==
  ASSUME TypeInv, NEW c \in Calls, PatchNative(c)
  PROVE  TypeInv' /\ Moves(c, [NewCall EXCEPT !.pc = "resolved"])
<1>1. [NewCall EXCEPT !.pc = "resolved"] \in CallStates
  BY NewCallType DEF CallStates, Steps
<1>2. call' \in [Calls -> CallStates] /\ Moves(c, [NewCall EXCEPT !.pc = "resolved"])
  BY <1>1, CallMoves DEF PatchNative, Ended, Moves
<1>3. PICK col \in Columns : db' = [db EXCEPT ![col] = hist.n + 1] /\ repo' = Refreshed([db EXCEPT ![col] = hist.n + 1])
  BY DEF PatchNative
<1>4. hist.n + 1 \in Nat /\ db \in Rows
  BY DEF TypeInv, PatchNative
<1>5. [db EXCEPT ![col] = hist.n + 1] \in Rows
  BY <1>4 DEF Rows
<1>6. hist' \in [n : Nat, last : Rows, landed : SUBSET Nat, dropped : SUBSET Nat, forgone : SUBSET Nat,
                 exempt : SUBSET Reasons]
  <2>1. {"patch"} \in SUBSET Reasons
    BY DEF Reasons
  <2>2. hist' = [hist EXCEPT !.n = hist.n + 1, !.landed = hist.landed \cup {hist.n + 1},
                             !.exempt = hist.exempt \cup {"patch"}]
    BY DEF PatchNative, TypeInv
  <2> QED BY <1>4, <2>1, <2>2 DEF TypeInv
<1> HIDE DEF CallStates
<1> QED BY <1>2, <1>3, <1>5, <1>6 DEF TypeInv, PatchNative, Refreshed

LEMMA PatchReadTypes ==
  ASSUME TypeInv, NEW c \in Calls, PatchRead(c)
  PROVE  /\ TypeInv'
         /\ \E s \in Seq(Saves) : /\ Ids(s) = {hist.n + 1}
                                  /\ Moves(c, [call[c] EXCEPT !.pc = "patching", !.kind = "patch", !.batch = s])
<1>1. PICK col \in Columns :
        call' = [call EXCEPT ![c].pc = "patching", ![c].kind = "patch", ![c].batch =
          <<[id |-> hist.n + 1, dirty |-> {}, row |-> [db EXCEPT ![col] = hist.n + 1]]>>]
  BY DEF PatchRead
<1> DEFINE e == [id |-> hist.n + 1, dirty |-> {}, row |-> [db EXCEPT ![col] = hist.n + 1]]
           s == <<e>>
<1>2. e \in Saves /\ e.id = hist.n + 1
  <2>1. hist.n + 1 \in Nat \ {0} /\ db \in Rows
    BY DEF TypeInv, PatchRead
  <2>2. [db EXCEPT ![col] = hist.n + 1] \in Rows
    BY <2>1 DEF Rows
  <2> QED BY <2>1, <2>2 DEF Saves
<1> HIDE DEF e
<1>3. s \in Seq(Saves) /\ Ids(s) = {hist.n + 1}
  BY <1>2 DEF Ids
<1>4. call' = [call EXCEPT ![c].pc = "patching", ![c].kind = "patch", ![c].batch = s]
  BY <1>1 DEF e
<1> HIDE DEF s
<1>5. [call[c] EXCEPT !.pc = "patching", !.kind = "patch", !.batch = s] \in CallStates
  BY <1>3, CallFields DEF CallStates, Steps, Kinds
<1>6. call' = [call EXCEPT ![c] = [call[c] EXCEPT !.pc = "patching", !.kind = "patch", !.batch = s]]
  BY <1>4 DEF TypeInv
<1>7. call' \in [Calls -> CallStates] /\ Moves(c, [call[c] EXCEPT !.pc = "patching", !.kind = "patch", !.batch = s])
  BY <1>5, <1>6, CallMoves DEF Moves
<1>8. hist' \in [n : Nat, last : Rows, landed : SUBSET Nat, dropped : SUBSET Nat, forgone : SUBSET Nat,
                 exempt : SUBSET Reasons]
  <2>1. {"patch"} \in SUBSET Reasons
    BY DEF Reasons
  <2>2. hist' = [hist EXCEPT !.n = hist.n + 1, !.exempt = hist.exempt \cup {"patch"}] /\ hist.n + 1 \in Nat
    BY DEF PatchRead, TypeInv
  <2> QED BY <2>1, <2>2 DEF TypeInv
<1>9. UNCHANGED <<engine, db, repo, queue, mode, conn>>
  BY DEF PatchRead
<1> HIDE DEF CallStates
<1>10. TypeInv'
  BY <1>7, <1>8, <1>9 DEF TypeInv
<1> QED BY <1>3, <1>7, <1>10

LEMMA PatchWriteTypes ==
  ASSUME TypeInv, NEW c \in Calls, PatchWrite(c)
  PROVE  TypeInv' /\ queue \o call[c].batch \in Seq(Saves)
<1>1. queue \o call[c].batch \in Seq(Saves)
  BY CallFields, ConcatProperties DEF TypeInv
<1>2. queue' \in Seq(Saves) /\ call' \in [Calls -> CallStates]
  BY <1>1, TakenMoves DEF PatchWrite, Kinds
<1> HIDE DEF CallStates
<1> QED BY <1>1, <1>2 DEF PatchWrite, TypeInv

LEMMA StartTransactionTypes ==
  ASSUME TypeInv, NEW c \in Calls, StartTransaction(c)
  PROVE  /\ TypeInv'
         /\ Moves(c, [call[c] EXCEPT !.kind = "transaction", !.prev = mode, !.pc = IF Sql THEN "connecting" ELSE "fn"])
<1> DEFINE new == [call[c] EXCEPT !.kind = "transaction", !.prev = mode, !.pc = IF Sql THEN "connecting" ELSE "fn"]
<1>1. new \in CallStates
  <2>1. mode \in Modes
    BY DEF TypeInv
  <2>2. "transaction" \in Kinds /\ (IF Sql THEN "connecting" ELSE "fn") \in Steps
    BY DEF Kinds, Steps
  <2> QED BY <2>1, <2>2, CallFields DEF CallStates
<1>2. call' = [call EXCEPT ![c] = new]
  BY DEF StartTransaction, TypeInv
<1> HIDE DEF new
<1>3. call' \in [Calls -> CallStates] /\ Moves(c, new)
  BY <1>1, <1>2, CallMoves DEF Moves
<1> DEFINE overlap == IF \E d \in Running : call[d].kind = "transaction" THEN {"overlap"} ELSE {}
<1>4. overlap \in SUBSET Reasons
  BY DEF Reasons
<1>5. hist' = [hist EXCEPT !.exempt = @ \cup overlap]
  BY DEF StartTransaction
<1> HIDE DEF overlap, CallStates
<1>6. mode' \in Modes /\ UNCHANGED <<engine, db, repo, queue, conn>>
  BY DEF StartTransaction, TypeInv, Modes
<1>7. TypeInv'
  <2>1. hist' \in [n : Nat, last : Rows, landed : SUBSET Nat, dropped : SUBSET Nat, forgone : SUBSET Nat,
                   exempt : SUBSET Reasons]
    BY <1>4, <1>5 DEF TypeInv
  <2> QED BY <1>3, <1>6, <2>1 DEF TypeInv
<1> QED BY <1>3, <1>7 DEF new

LEMMA ConnectedTypes ==
  ASSUME TypeInv, NEW c \in Calls, Connected(c)
  PROVE  /\ TypeInv'
         /\ Moves(c, [call[c] EXCEPT !.pc = "fn", !.scope = [inst |-> IF db = None THEN Zero ELSE db, base |-> db]])
<1> DEFINE scope == [inst |-> IF db = None THEN Zero ELSE db, base |-> db]
           new == [call[c] EXCEPT !.pc = "fn", !.scope = scope]
<1>1. scope \in [inst : Rows, base : Rows \cup {None}]
  BY NewCallType DEF TypeInv
<1>2. call' = [call EXCEPT ![c] = new]
  BY DEF Connected, TypeInv
<1> HIDE DEF scope
<1>3. new \in CallStates
  BY <1>1, CallFields DEF CallStates, Steps
<1> HIDE DEF new
<1>4. call' \in [Calls -> CallStates] /\ Moves(c, new)
  BY <1>2, <1>3, CallMoves DEF Moves
<1> HIDE DEF CallStates
<1>5. TypeInv'
  BY <1>4 DEF TypeInv, Connected, Modes
<1> QED BY <1>4, <1>5 DEF new, scope

LEMMA ScopedSaveTypes ==
  ASSUME TypeInv, NEW c \in Calls, ScopedSave(c)
  PROVE  /\ TypeInv'
         /\ \E scope \in [inst : Rows, base : Rows \cup {None}], e \in Saves :
              /\ e.id = hist.n + 1
              /\ Moves(c, [call[c] EXCEPT !.scope = scope, !.squeue = Append(call[c].squeue, e)])
<1>1. PICK col \in Columns, value \in Values :
        LET row == Edited(call[c].scope, col, value) IN
        /\ call' = [call EXCEPT ![c].scope.inst = row, ![c].squeue = Append(@, Entry(call[c].scope, row))]
        /\ hist' = [hist EXCEPT !.n = @ + 1, !.exempt = @ \cup {"mixed"}]
  BY DEF ScopedSave
<1> DEFINE row == Edited(call[c].scope, col, value)
           e == Entry(call[c].scope, row)
           scope == [call[c].scope EXCEPT !.inst = row]
           new == [call[c] EXCEPT !.scope = scope, !.squeue = Append(call[c].squeue, e)]
<1>2. row \in Rows
  BY CallFields, ValuesType, EditedType
<1>3. e \in Saves /\ e.id = hist.n + 1
  BY <1>2, CallFields, EntryType DEF Entry
<1>4. scope \in [inst : Rows, base : Rows \cup {None}]
  BY <1>2, CallFields
<1>5. call' = [call EXCEPT ![c].scope.inst = row, ![c].squeue = Append(@, e)]
  BY <1>1
<1> HIDE DEF row, e
<1>6. Append(call[c].squeue, e) \in Seq(Saves)
  BY <1>3, CallFields, AppendProperties
<1>7. call' = [call EXCEPT ![c] = new]
  BY <1>5 DEF TypeInv, CallStates
<1> HIDE DEF scope
<1>8. new \in CallStates
  BY <1>4, <1>6, CallFields DEF CallStates
<1> HIDE DEF new
<1>9. call' \in [Calls -> CallStates] /\ Moves(c, new)
  BY <1>7, <1>8, CallMoves DEF Moves
<1>10. hist' \in [n : Nat, last : Rows, landed : SUBSET Nat, dropped : SUBSET Nat, forgone : SUBSET Nat,
                 exempt : SUBSET Reasons]
  <2>1. {"mixed"} \in SUBSET Reasons
    BY DEF Reasons
  <2>2. hist' = [hist EXCEPT !.n = hist.n + 1, !.exempt = hist.exempt \cup {"mixed"}] /\ hist.n + 1 \in Nat
    BY <1>1 DEF TypeInv
  <2> QED BY <2>1, <2>2 DEF TypeInv
<1>11. UNCHANGED <<engine, db, repo, queue, mode, conn>>
  BY DEF ScopedSave
<1> HIDE DEF CallStates
<1>12. TypeInv'
  BY <1>9, <1>10, <1>11 DEF TypeInv
<1> QED BY <1>3, <1>4, <1>9, <1>12 DEF new

LEMMA ScopedPersistTypes ==
  ASSUME TypeInv, NEW c \in Calls, ScopedPersist(c)
  PROVE  /\ TypeInv'
         /\ call[c].written \o Bucketed(call[c].squeue) \in Seq(Saves)
         /\ \E scope \in [inst : Rows, base : Rows \cup {None}] :
              Moves(c, [call[c] EXCEPT !.written = call[c].written \o Bucketed(call[c].squeue), !.squeue = <<>>,
                                       !.scope = scope])
<1> DEFINE written == call[c].written \o Bucketed(call[c].squeue)
           scope == Heard(call[c].scope, call[c].squeue)
           new == [call[c] EXCEPT !.written = written, !.squeue = <<>>, !.scope = scope]
<1>1. written \in Seq(Saves) /\ <<>> \in Seq(Saves)
  BY CallFields, BucketsPermute, ConcatProperties, EmptySeq
<1>2. scope \in [inst : Rows, base : Rows \cup {None}]
  BY CallFields, HeardType
<1>3. call' = [call EXCEPT ![c] = new]
  BY DEF ScopedPersist, TypeInv
<1> HIDE DEF written, scope
<1>4. new \in CallStates
  BY <1>1, <1>2, CallFields DEF CallStates
<1> HIDE DEF new
<1>5. call' \in [Calls -> CallStates] /\ Moves(c, new)
  BY <1>3, <1>4, CallMoves DEF Moves
<1>6. repo' \in [inst : Rows, base : Rows \cup {None}]
  BY CallFields, HeardType DEF ScopedPersist, TypeInv
<1> HIDE DEF CallStates
<1>7. TypeInv'
  BY <1>5, <1>6 DEF TypeInv, ScopedPersist
<1> QED BY <1>1, <1>2, <1>5, <1>7 DEF new, written

LEMMA FnReturnsTypes ==
  ASSUME TypeInv, NEW c \in Calls, FnReturns(c)
  PROVE  /\ TypeInv'
         /\ Sql => /\ queue' = <<>> /\ Folded(c) \in Seq(Saves)
                   /\ Moves(c, [call[c] EXCEPT !.batch = Folded(c), !.squeue = <<>>, !.pc = "flushing"])
         /\ ~Sql => Taken(c, "transaction", queue)
<1>1. mode' \in Modes
  BY CallFields DEF FnReturns, Left
<1>2. CASE Sql
  <2> DEFINE new == [call[c] EXCEPT !.batch = Folded(c), !.squeue = <<>>, !.pc = "flushing"]
  <2>1. Folded(c) \in Seq(Saves) /\ <<>> \in Seq(Saves)
    BY CallFields, ConcatProperties, EmptySeq DEF Folded, TypeInv
  <2>2. call' = [call EXCEPT ![c] = new] /\ queue' = <<>>
    BY <1>2 DEF FnReturns, TypeInv
  <2>3. new \in CallStates
    BY <2>1, CallFields DEF CallStates, Steps
  <2> HIDE DEF new
  <2>4. call' \in [Calls -> CallStates] /\ Moves(c, new)
    BY <2>2, <2>3, CallMoves DEF Moves
  <2> HIDE DEF CallStates
  <2>5. TypeInv'
    BY <1>1, <2>1, <2>2, <2>4 DEF TypeInv, FnReturns
  <2> QED BY <1>2, <2>1, <2>2, <2>4, <2>5 DEF new
<1>3. CASE ~Sql
  <2>1. Taken(c, "transaction", queue)
    BY <1>3 DEF FnReturns
  <2>2. queue' \in Seq(Saves) /\ call' \in [Calls -> CallStates]
    BY <2>1, TakenMoves DEF TypeInv, Kinds
  <2> HIDE DEF CallStates
  <2>3. TypeInv'
    BY <1>1, <2>2 DEF TypeInv, FnReturns
  <2> QED BY <1>3, <2>1, <2>3
<1> QED BY <1>2, <1>3

LEMMA FlushTypes ==
  ASSUME TypeInv, NEW c \in Calls, Flush(c)
  PROVE  /\ TypeInv'
         /\ Moves(c, [call[c] EXCEPT !.written = call[c].written \o Bucketed(call[c].batch), !.pc = "committing"])
<1> DEFINE written == call[c].written \o Bucketed(call[c].batch)
           new == [call[c] EXCEPT !.written = written, !.pc = "committing"]
<1>1. written \in Seq(Saves)
  BY CallFields, BucketsPermute, ConcatProperties
<1>2. call' = [call EXCEPT ![c] = new]
  BY DEF Flush, TypeInv
<1> HIDE DEF written
<1>3. new \in CallStates
  BY <1>1, CallFields DEF CallStates, Steps
<1> HIDE DEF new
<1>4. call' \in [Calls -> CallStates] /\ Moves(c, new)
  BY <1>2, <1>3, CallMoves DEF Moves
<1>5. repo' \in [inst : Rows, base : Rows \cup {None}]
  BY CallFields, HeardType DEF Flush, TypeInv
<1> HIDE DEF CallStates
<1>6. TypeInv'
  BY <1>4, <1>5 DEF TypeInv, Flush
<1> QED BY <1>4, <1>6 DEF new, written

LEMMA CommitTransactionTypes ==
  ASSUME TypeInv, NEW c \in Calls, CommitTransaction(c)
  PROVE  TypeInv' /\ Moves(c, [NewCall EXCEPT !.pc = "resolved"])
<1>1. [NewCall EXCEPT !.pc = "resolved"] \in CallStates
  BY NewCallType DEF CallStates, Steps
<1>2. call' \in [Calls -> CallStates] /\ Moves(c, [NewCall EXCEPT !.pc = "resolved"])
  BY <1>1, CallMoves DEF CommitTransaction, Ended, Moves
<1>3. Commit(call[c].written) /\ call[c].written \in Seq(Saves)
  BY CallFields DEF CommitTransaction
<1> HIDE DEF CallStates
<1> QED BY <1>2, <1>3, CommitTypes DEF TypeInv, CommitTransaction

LEMMA UncommittedType ==
  ASSUME TypeInv, NEW c \in Calls
  PROVE  Uncommitted(c) \in SUBSET Nat
<1>1. Ids(call[c].batch) \in SUBSET Nat /\ Ids(call[c].written) \in SUBSET Nat /\ Ids(call[c].squeue) \in SUBSET Nat
  BY CallFields, IdsType
<1> QED BY <1>1 DEF Uncommitted

LEMMA DiscardTypes ==
  ASSUME TypeInv, NEW c \in Calls, Discard(c)
  PROVE  /\ queue' = <<>> /\ queue' \in Seq(Saves)
         /\ call' \in [Calls -> CallStates] /\ Moves(c, [NewCall EXCEPT !.pc = "rejected"])
         /\ hist' = [hist EXCEPT !.dropped = @ \cup Ids(queue) \cup Uncommitted(c), !.exempt = @ \cup Events(c)]
         /\ hist' \in [n : Nat, last : Rows, landed : SUBSET Nat, dropped : SUBSET Nat, forgone : SUBSET Nat,
                       exempt : SUBSET Reasons]
<1>1. [NewCall EXCEPT !.pc = "rejected"] \in CallStates
  BY NewCallType DEF CallStates, Steps
<1>2. call' \in [Calls -> CallStates] /\ Moves(c, [NewCall EXCEPT !.pc = "rejected"])
  BY <1>1, CallMoves DEF Discard, Ended, Moves
<1>3. Ids(queue) \in SUBSET Nat /\ Uncommitted(c) \in SUBSET Nat
  BY IdsType, UncommittedType DEF TypeInv
<1>4. Events(c) \in SUBSET Reasons
  BY DEF Events, Reasons
<1>5. hist' = [hist EXCEPT !.dropped = @ \cup Ids(queue) \cup Uncommitted(c), !.exempt = @ \cup Events(c)]
  BY DEF Discard
<1>6. queue' = <<>> /\ queue' \in Seq(Saves)
  BY EmptySeq DEF Discard, Discarded
<1> QED BY <1>2, <1>3, <1>4, <1>5, <1>6 DEF TypeInv

LEMMA UndoneTypes ==
  ASSUME TypeInv, NEW c \in Calls, Undone(c)
  PROVE  TypeInv'
<1>1. Discard(c) /\ UNCHANGED <<engine, db, repo, mode, conn>>
  BY DEF Undone
<1> HIDE DEF CallStates
<1> QED BY <1>1, DiscardTypes DEF TypeInv

LEMMA FnThrowsTypes ==
  ASSUME TypeInv, NEW c \in Calls, FnThrows(c)
  PROVE  /\ TypeInv'
         /\ Sql => Moves(c, [call[c] EXCEPT !.pc = "undoing"]) /\ queue' = queue /\ hist' = hist
         /\ ~Sql => Discard(c)
<1>1. mode' \in Modes
  BY CallFields DEF FnThrows, Left
<1>2. CASE Sql
  <2>1. [call[c] EXCEPT !.pc = "undoing"] \in CallStates
    BY CallFields DEF CallStates, Steps
  <2>2. call' \in [Calls -> CallStates] /\ Moves(c, [call[c] EXCEPT !.pc = "undoing"])
    BY <1>2, <2>1, CallMoves DEF FnThrows, Moves
  <2> HIDE DEF CallStates
  <2> QED BY <1>1, <1>2, <2>2 DEF TypeInv, FnThrows
<1>3. CASE ~Sql
  <2>1. Discard(c) /\ UNCHANGED <<engine, db, repo, conn>>
    BY <1>3 DEF FnThrows
  <2> HIDE DEF CallStates
  <2> QED BY <1>1, <1>3, <2>1, DiscardTypes DEF TypeInv
<1> QED BY <1>2, <1>3

LEMMA RejectTypes ==
  ASSUME TypeInv, NEW c \in Calls, Reject(c)
  PROVE  /\ TypeInv'
         /\ call[c].kind = "transaction" => Moves(c, [call[c] EXCEPT !.pc = "undoing"]) /\ hist' = hist
         /\ call[c].kind # "transaction" =>
              /\ Moves(c, [NewCall EXCEPT !.pc = "rejected"])
              /\ hist' = [hist EXCEPT !.dropped = @ \cup Ids(call[c].batch)]
<1>1. CASE call[c].kind = "transaction"
  <2>1. [call[c] EXCEPT !.pc = "undoing"] \in CallStates
    BY CallFields DEF CallStates, Steps
  <2>2. call' \in [Calls -> CallStates] /\ Moves(c, [call[c] EXCEPT !.pc = "undoing"])
    BY <1>1, <2>1, CallMoves DEF Reject, Moves
  <2> HIDE DEF CallStates
  <2> QED BY <1>1, <2>2 DEF TypeInv, Reject
<1>2. CASE call[c].kind # "transaction"
  <2>1. [NewCall EXCEPT !.pc = "rejected"] \in CallStates
    BY NewCallType DEF CallStates, Steps
  <2>2. call' \in [Calls -> CallStates] /\ Moves(c, [NewCall EXCEPT !.pc = "rejected"])
    BY <1>2, <2>1, CallMoves DEF Reject, Ended, Moves
  <2>3. hist' = [hist EXCEPT !.dropped = @ \cup Ids(call[c].batch)] /\ Ids(call[c].batch) \in SUBSET Nat
    BY <1>2, IdsType, CallFields DEF Reject
  <2> HIDE DEF CallStates
  <2> QED BY <1>2, <2>2, <2>3 DEF TypeInv, Reject
<1> QED BY <1>1, <1>2

LEMMA RetryTypes ==
  ASSUME TypeInv, NEW c \in Calls, Retry(c)
  PROVE  /\ TypeInv'
         /\ call[c].kind = "transaction" =>
              /\ Moves(c, [NewCall EXCEPT !.kind = "transaction", !.pc = "connecting",
                             !.prev = call[c].prev, !.attempt = call[c].attempt + 1])
              /\ hist' = [hist EXCEPT !.forgone = @ \cup Uncommitted(c), !.exempt = @ \cup Events(c)]
         /\ call[c].kind # "transaction" =>
              Moves(c, [call[c] EXCEPT !.attempt = call[c].attempt + 1, !.pc = "writing"]) /\ hist' = hist
<1>1. CASE call[c].kind = "transaction"
  <2> DEFINE new == [NewCall EXCEPT !.kind = "transaction", !.pc = "connecting",
                             !.prev = call[c].prev, !.attempt = call[c].attempt + 1]
  <2>1. new \in CallStates
    <3>1. call[c].attempt + 1 \in Nat /\ call[c].prev \in Modes
      BY CallFields
    <3>2. "transaction" \in Kinds /\ "connecting" \in Steps
      BY DEF Kinds, Steps
    <3> QED BY <3>1, <3>2, NewCallType DEF CallStates
  <2>2. call' = [call EXCEPT ![c] = new]
    BY <1>1 DEF Retry
  <2> HIDE DEF new
  <2>3. call' \in [Calls -> CallStates] /\ Moves(c, new)
    BY <2>1, <2>2, CallMoves DEF Moves
  <2>4. Events(c) \in SUBSET Reasons /\ Uncommitted(c) \in SUBSET Nat
    BY UncommittedType DEF Events, Reasons
  <2>5. hist' = [hist EXCEPT !.forgone = @ \cup Uncommitted(c), !.exempt = @ \cup Events(c)]
    BY <1>1 DEF Retry
  <2>6. UNCHANGED <<engine, db, repo, queue, mode, conn>>
    BY DEF Retry
  <2> HIDE DEF CallStates
  <2>7. TypeInv'
    BY <2>3, <2>4, <2>5, <2>6 DEF TypeInv
  <2> QED BY <1>1, <2>3, <2>5, <2>7 DEF new
<1>2. CASE call[c].kind # "transaction"
  <2> DEFINE new == [call[c] EXCEPT !.attempt = call[c].attempt + 1, !.pc = "writing"]
  <2>1. new \in CallStates
    <3>1. call[c].attempt + 1 \in Nat
      BY CallFields
    <3> QED BY <3>1, CallFields DEF CallStates, Steps
  <2>2. call' = [call EXCEPT ![c] = new]
    BY <1>2 DEF Retry, TypeInv
  <2> HIDE DEF new
  <2>3. call' \in [Calls -> CallStates] /\ Moves(c, new)
    BY <2>1, <2>2, CallMoves DEF Moves
  <2>4. UNCHANGED <<engine, db, repo, queue, mode, conn>> /\ hist' = hist
    BY <1>2 DEF Retry
  <2> HIDE DEF CallStates
  <2>5. TypeInv'
    BY <2>3, <2>4 DEF TypeInv
  <2> QED BY <1>2, <2>3, <2>4, <2>5 DEF new
<1> QED BY <1>1, <1>2

LEMMA LoseAnswerTypes ==
  ASSUME TypeInv, NEW c \in Calls, LoseAnswer(c)
  PROVE  TypeInv' /\ Moves(c, [call[c] EXCEPT !.pc = "unanswered"])
<1>1. [call[c] EXCEPT !.pc = "unanswered"] \in CallStates
  BY CallFields DEF CallStates, Steps
<1>2. call' \in [Calls -> CallStates] /\ Moves(c, [call[c] EXCEPT !.pc = "unanswered"])
  BY <1>1, CallMoves DEF LoseAnswer, Moves
<1>3. db' \in Rows \cup {None}
  <2>1. call[c].written \in Seq(Saves) /\ Bucketed(call[c].batch) \in Seq(Saves)
    BY CallFields, BucketsPermute
  <2> QED BY <2>1, AfterType DEF LoseAnswer, TypeInv
<1>4. Ids(call[c].written) \in SUBSET Nat /\ Ids(call[c].batch) \in SUBSET Nat /\ {"unanswered"} \in SUBSET Reasons
  BY CallFields, IdsType DEF Reasons
<1>5. hist' = [hist EXCEPT !.landed = @ \cup Ids(call[c].written) \cup Ids(call[c].batch),
                          !.exempt = @ \cup {"unanswered"}]
  BY DEF LoseAnswer
<1>6. UNCHANGED <<engine, repo, queue, mode, conn>>
  BY DEF LoseAnswer
<1> HIDE DEF CallStates
<1> QED BY <1>2, <1>3, <1>4, <1>5, <1>6 DEF TypeInv

---------------------------------------------------------------------------
(* What a call carries, by how far it has come. *)
Empty(c) == call[c].batch = <<>> /\ call[c].written = <<>> /\ call[c].squeue = <<>>
Carries(c) ==
  /\ call[c].pc \in {"idle", "resolved", "rejected", "connecting"} => Empty(c)
  /\ call[c].pc = "fn" => call[c].batch = <<>>
  /\ call[c].pc = "fn" /\ ~Sql => Empty(c)
  /\ call[c].pc \in {"writing", "begin", "open", "emitting", "patching"} =>
       call[c].written = <<>> /\ call[c].squeue = <<>>
  /\ call[c].pc \in {"flushing", "committing", "unanswered"} => call[c].squeue = <<>>
  /\ call[c].pc = "committing" => Ids(call[c].batch) \subseteq Ids(call[c].written)
  /\ call[c].pc = "unanswered" /\ call[c].kind # "transaction" => call[c].written = <<>>
OfKind(c) ==
  /\ call[c].pc \in {"connecting", "fn", "flushing", "committing", "undoing"} => call[c].kind = "transaction"
  /\ call[c].pc = "writing" => call[c].kind # "transaction"
  /\ call[c].pc \in {"begin", "open"} => ~Sql
  /\ call[c].pc \in {"writing", "connecting", "flushing", "committing", "undoing", "unanswered"} => Sql
CallInv == TypeInv /\ \A c \in Calls : Carries(c) /\ OfKind(c)

LEMMA IdsFacts ==
  /\ Ids(<<>>) = {}
  /\ \A s, t \in Seq(Saves) : Ids(s \o t) = Ids(s) \cup Ids(t)
  /\ \A s \in Seq(Saves), e \in Saves : Ids(Append(s, e)) = Ids(s) \cup {e.id}
  /\ \A s \in Seq(Saves) : Ids(Bucketed(s)) = Ids(s)
<1>1. Ids(<<>>) = {}
  BY DEF Ids
<1>2. ASSUME NEW s \in Seq(Saves), NEW t \in Seq(Saves)
      PROVE  Ids(s \o t) = Ids(s) \cup Ids(t)
  <2>1. /\ s \o t \in Seq(Saves) /\ Len(s) \in Nat /\ Len(t) \in Nat /\ DOMAIN s = 1..Len(s) /\ DOMAIN t = 1..Len(t)
        /\ DOMAIN (s \o t) = 1..(Len(s) + Len(t))
        /\ \A i \in 1..Len(s) : (s \o t)[i] = s[i]
        /\ \A i \in 1..Len(t) : (s \o t)[Len(s) + i] = t[i]
    BY ConcatProperties, LenProperties
  <2>2. ASSUME NEW i \in DOMAIN (s \o t)
        PROVE  (\E j \in DOMAIN s : (s \o t)[i] = s[j]) \/ (\E j \in DOMAIN t : (s \o t)[i] = t[j])
    <3>1. CASE i <= Len(s)
      BY <2>1, <3>1
    <3>2. CASE ~(i <= Len(s))
      <4>1. i - Len(s) \in DOMAIN t /\ Len(s) + (i - Len(s)) = i
        BY <2>1, <3>2
      <4> QED BY <2>1, <4>1
    <3> QED BY <3>1, <3>2
  <2>3. \A j \in DOMAIN s : j \in DOMAIN (s \o t) /\ (s \o t)[j] = s[j]
    BY <2>1
  <2>4. \A j \in DOMAIN t : Len(s) + j \in DOMAIN (s \o t) /\ (s \o t)[Len(s) + j] = t[j]
    BY <2>1
  <2>5. ASSUME NEW id \in Ids(s \o t)
        PROVE  id \in Ids(s) \cup Ids(t)
    <3>1. PICK i \in DOMAIN (s \o t) : id = (s \o t)[i].id
      BY DEF Ids
    <3> QED BY <2>2, <3>1 DEF Ids
  <2>6. Ids(s) \subseteq Ids(s \o t)
    BY <2>3 DEF Ids
  <2>7. Ids(t) \subseteq Ids(s \o t)
    BY <2>4 DEF Ids
  <2> QED BY <2>5, <2>6, <2>7
<1>3. ASSUME NEW s \in Seq(Saves), NEW e \in Saves
      PROVE  Ids(Append(s, e)) = Ids(s) \cup {e.id}
  <2>1. /\ Append(s, e) \in Seq(Saves) /\ Len(s) \in Nat /\ DOMAIN s = 1..Len(s)
        /\ DOMAIN Append(s, e) = 1..(Len(s) + 1) /\ Append(s, e)[Len(s) + 1] = e
        /\ \A i \in 1..Len(s) : Append(s, e)[i] = s[i]
    BY AppendProperties, LenProperties
  <2>2. \A i \in DOMAIN Append(s, e) : i \in DOMAIN s \/ i = Len(s) + 1
    BY <2>1
  <2>3. \A i \in DOMAIN s : i \in DOMAIN Append(s, e)
    BY <2>1
  <2>4. Len(s) + 1 \in DOMAIN Append(s, e)
    BY <2>1
  <2>5. ASSUME NEW id \in Ids(Append(s, e))
        PROVE  id \in Ids(s) \cup {e.id}
    <3>1. PICK i \in DOMAIN Append(s, e) : id = Append(s, e)[i].id
      BY DEF Ids
    <3> QED BY <2>1, <2>2, <3>1 DEF Ids
  <2>6. ASSUME NEW id \in Ids(s) \cup {e.id}
        PROVE  id \in Ids(Append(s, e))
    BY <2>1, <2>3, <2>4, <2>6 DEF Ids
  <2> QED BY <2>5, <2>6
<1> QED BY <1>1, <1>2, <1>3, BucketedIds

(* An ended call carries nothing. *)
LEMMA EndedCarries ==
  ASSUME NEW c \in Calls, NEW how \in {"resolved", "rejected"}, call'[c] = [NewCall EXCEPT !.pc = how]
  PROVE  Carries(c)' /\ OfKind(c)' /\ Empty(c)' /\ call'[c].pc = how /\ Uncommitted(c)' = {}
<1>1. /\ call'[c].pc = how /\ call'[c].batch = <<>> /\ call'[c].written = <<>> /\ call'[c].squeue = <<>>
  BY DEF NewCall
<1> QED BY <1>1, IdsFacts DEF Carries, OfKind, Empty, Uncommitted

LEMMA TakenCarries ==
  ASSUME TypeInv, NEW c \in Calls, NEW saves \in Seq(Saves), NEW kind \in Kinds, Taken(c, kind, saves),
         engine' = engine, call[c].written = <<>>, call[c].squeue = <<>>,
         Sql => kind # "transaction"
  PROVE  Carries(c)' /\ OfKind(c)' /\ Uncommitted(c)' = Ids(saves) /\ call'[c].pc # "emitting"
<1>1. CASE saves = <<>>
  BY <1>1, TakenMoves, EndedCarries, IdsFacts
<1>2. CASE saves # <<>>
  <2>0. call'[c] = Holding(c, kind, saves)
    BY <1>2, TakenMoves
  <2>1. call'[c] = [call[c] EXCEPT !.kind = kind, !.batch = saves, !.pc = IF Sql THEN "writing" ELSE "begin"]
    BY <2>0 DEF Holding
  <2>2. /\ call'[c].pc = IF Sql THEN "writing" ELSE "begin"
        /\ call'[c].kind = kind /\ call'[c].batch = saves /\ call'[c].written = <<>> /\ call'[c].squeue = <<>>
    BY <2>1, CallFields DEF CallStates
  <2>3. Sql' = Sql
    BY DEF Sql
  <2> QED BY <2>2, <2>3, IdsFacts DEF Carries, OfKind, Uncommitted
<1> QED BY <1>1, <1>2

LEMMA InitCallInv == Init => CallInv
<1> SUFFICES ASSUME Init PROVE CallInv OBVIOUS
<1>1. \A c \in Calls : call[c] = NewCall
  BY DEF Init
<1>2. \A c \in Calls : Carries(c) /\ OfKind(c)
  BY <1>1 DEF NewCall, Carries, OfKind, Empty
<1> QED BY <1>2, InitTypes DEF CallInv

LEMMA Others ==
  ASSUME CallInv, NEW c \in Calls, engine' = engine, \A d \in Calls \ {c} : call'[d] = call[d],
         TypeInv', Carries(c)', OfKind(c)'
  PROVE  CallInv'
<1>1. ASSUME NEW d \in Calls, d # c
      PROVE  Carries(d)' /\ OfKind(d)'
  <2>1. call'[d] = call[d] /\ (Sql' <=> Sql)
    BY <1>1 DEF Sql
  <2>2. Carries(d) /\ OfKind(d)
    BY DEF CallInv
  <2> QED BY <2>1, <2>2 DEF Carries, OfKind, Empty
<1> QED BY <1>1 DEF CallInv

LEMMA PersistKeepsCalls ==
  ASSUME CallInv, NEW c \in Calls,
         \/ StartPersist(c) \/ CommitBatch(c) \/ Emit(c) \/ Begin(c) \/ WriteAndCommit(c)
         \/ PatchNative(c) \/ PatchRead(c) \/ PatchWrite(c) \/ Rollback(c)
  PROVE  CallInv'
<1>0. TypeInv /\ Carries(c) /\ OfKind(c) /\ call[c] \in CallStates
  BY CallFields DEF CallInv
<1>1. CASE StartPersist(c)
  <2>1. Taken(c, "persist", queue) /\ engine' = engine /\ call[c].pc = "idle" /\ queue \in Seq(Saves)
    BY <1>0, <1>1 DEF StartPersist, TypeInv
  <2>2. call[c].written = <<>> /\ call[c].squeue = <<>> /\ "persist" \in Kinds
    BY <1>0, <2>1 DEF Carries, Empty, Kinds
  <2>3. Carries(c)' /\ OfKind(c)'
    BY <1>0, <2>1, <2>2, TakenCarries
  <2>4. \A d \in Calls \ {c} : call'[d] = call[d]
    BY <1>0, <2>1, <2>2, TakenMoves
  <2> QED BY <1>0, <1>1, <2>1, <2>3, <2>4, StartPersistTypes, Others
<1>2. CASE CommitBatch(c)
  <2>1. TypeInv' /\ Moves(c, [call[c] EXCEPT !.pc = "emitting"]) /\ call[c].pc = "writing" /\ engine' = engine
    BY <1>0, <1>2, CommitBatchTypes DEF CommitBatch
  <2>2. Carries(c)' /\ OfKind(c)'
    BY <1>0, <2>1 DEF Moves, Carries, OfKind, CallStates
  <2> QED BY <2>1, <2>2, Others DEF Moves
<1>3. CASE Emit(c)
  BY <1>0, <1>3, EmitTypes, EndedCarries, Others DEF Moves, Emit
<1>4. CASE Begin(c)
  <2>1. TypeInv' /\ call[c].pc = "begin" /\ engine' = engine
    BY <1>0, <1>4, BeginTypes DEF Begin
  <2>2. CASE Moves(c, [call[c] EXCEPT !.pc = "open"])
    <3>1. Sql' <=> Sql
      BY <2>1 DEF Sql
    <3>2. Carries(c)' /\ OfKind(c)'
      BY <1>0, <2>1, <2>2, <3>1 DEF Moves, Carries, OfKind, CallStates
    <3> QED BY <2>1, <2>2, <3>2, Others DEF Moves
  <2>3. CASE Moves(c, [NewCall EXCEPT !.pc = "rejected"])
    BY <2>1, <2>3, EndedCarries, Others DEF Moves
  <2> QED BY <1>0, <1>4, <2>2, <2>3, BeginTypes
<1>5. CASE WriteAndCommit(c)
  <2>1. TypeInv' /\ Moves(c, [call[c] EXCEPT !.pc = "emitting"]) /\ call[c].pc = "open" /\ engine' = engine
    BY <1>0, <1>5, WriteAndCommitTypes DEF WriteAndCommit
  <2>2. Carries(c)' /\ OfKind(c)'
    BY <1>0, <2>1 DEF Moves, Carries, OfKind, CallStates
  <2> QED BY <2>1, <2>2, Others DEF Moves
<1>6. CASE PatchNative(c)
  BY <1>0, <1>6, PatchNativeTypes, EndedCarries, Others DEF Moves, PatchNative
<1>7. CASE PatchRead(c)
  <2>1. PICK s \in Seq(Saves) : Moves(c, [call[c] EXCEPT !.pc = "patching", !.kind = "patch", !.batch = s])
    BY <1>0, <1>7, PatchReadTypes
  <2>2. TypeInv' /\ call[c].pc = "idle" /\ engine' = engine
    BY <1>0, <1>7, PatchReadTypes DEF PatchRead
  <2>3. Carries(c)' /\ OfKind(c)'
    BY <1>0, <2>1, <2>2 DEF Moves, Carries, OfKind, Empty, CallStates
  <2> QED BY <2>1, <2>2, <2>3, Others DEF Moves
<1>8. CASE PatchWrite(c)
  <2>1. /\ TypeInv' /\ Taken(c, "patch", queue \o call[c].batch) /\ engine' = engine /\ call[c].pc = "patching"
        /\ queue \o call[c].batch \in Seq(Saves)
    BY <1>0, <1>8, PatchWriteTypes DEF PatchWrite
  <2>2. call[c].written = <<>> /\ call[c].squeue = <<>> /\ "patch" \in Kinds
    BY <1>0, <2>1 DEF Carries, Kinds
  <2>3. Carries(c)' /\ OfKind(c)'
    BY <1>0, <2>1, <2>2, TakenCarries
  <2>4. \A d \in Calls \ {c} : call'[d] = call[d]
    BY <1>0, <2>1, <2>2, TakenMoves
  <2> QED BY <2>1, <2>3, <2>4, Others
<1>9. CASE Rollback(c)
  BY <1>0, <1>9, RollbackTypes, EndedCarries, Others DEF Moves, Rollback
<1> QED BY <1>1, <1>2, <1>3, <1>4, <1>5, <1>6, <1>7, <1>8, <1>9

LEMMA TransactionKeepsCalls ==
  ASSUME CallInv, NEW c \in Calls,
         \/ StartTransaction(c) \/ Connected(c) \/ ScopedSave(c) \/ ScopedPersist(c) \/ FnReturns(c) \/ Flush(c)
         \/ CommitTransaction(c) \/ FnThrows(c) \/ Undone(c) \/ Reject(c) \/ Retry(c) \/ LoseAnswer(c)
  PROVE  CallInv'
<1>0. TypeInv /\ Carries(c) /\ OfKind(c) /\ call[c] \in CallStates
  BY CallFields DEF CallInv
<1>1. CASE StartTransaction(c)
  <2>1. /\ TypeInv' /\ call[c].pc = "idle" /\ engine' = engine
        /\ Moves(c, [call[c] EXCEPT !.kind = "transaction", !.prev = mode, !.pc = IF Sql THEN "connecting" ELSE "fn"])
    BY <1>0, <1>1, StartTransactionTypes DEF StartTransaction
  <2>2. Sql' <=> Sql
    BY <2>1 DEF Sql
  <2>3. Carries(c)' /\ OfKind(c)'
    BY <1>0, <2>1, <2>2 DEF Moves, Carries, OfKind, Empty, CallStates
  <2> QED BY <2>1, <2>3, Others DEF Moves
<1>2. CASE Connected(c)
  <2> DEFINE scope == [inst |-> IF db = None THEN Zero ELSE db, base |-> db]
  <2>1. /\ TypeInv' /\ call[c].pc = "connecting" /\ engine' = engine
        /\ Moves(c, [call[c] EXCEPT !.pc = "fn", !.scope = scope])
    BY <1>0, <1>2, ConnectedTypes DEF Connected
  <2> HIDE DEF scope
  <2>2. Sql' <=> Sql
    BY <2>1 DEF Sql
  <2>3. Carries(c)' /\ OfKind(c)'
    BY <1>0, <2>1, <2>2 DEF Moves, Carries, OfKind, Empty, CallStates
  <2> QED BY <2>1, <2>3, Others DEF Moves
<1>3. CASE ScopedSave(c)
  <2>1. PICK scope \in [inst : Rows, base : Rows \cup {None}], e \in Saves :
          Moves(c, [call[c] EXCEPT !.scope = scope, !.squeue = Append(call[c].squeue, e)])
    BY <1>0, <1>3, ScopedSaveTypes
  <2>2. TypeInv' /\ call[c].pc = "fn" /\ engine' = engine /\ Sql
    BY <1>0, <1>3, ScopedSaveTypes DEF ScopedSave
  <2>3. Sql' <=> Sql
    BY <2>2 DEF Sql
  <2>4. Carries(c)' /\ OfKind(c)'
    BY <1>0, <2>1, <2>2, <2>3 DEF Moves, Carries, OfKind, Empty, CallStates
  <2> QED BY <2>1, <2>2, <2>4, Others DEF Moves
<1>4. CASE ScopedPersist(c)
  <2> DEFINE written == call[c].written \o Bucketed(call[c].squeue)
  <2>1. PICK scope \in [inst : Rows, base : Rows \cup {None}] :
          Moves(c, [call[c] EXCEPT !.written = written, !.squeue = <<>>, !.scope = scope])
    BY <1>0, <1>4, ScopedPersistTypes
  <2> HIDE DEF written
  <2>2. TypeInv' /\ call[c].pc = "fn" /\ engine' = engine /\ call[c].squeue # <<>>
    BY <1>0, <1>4, ScopedPersistTypes DEF ScopedPersist
  <2>3. Sql' <=> Sql
    BY <2>2 DEF Sql
  <2>4. Carries(c)' /\ OfKind(c)'
    BY <1>0, <2>1, <2>2, <2>3 DEF Moves, Carries, OfKind, Empty, CallStates
  <2> QED BY <2>1, <2>2, <2>4, Others DEF Moves
<1>5. CASE FnReturns(c)
  <2>1. TypeInv' /\ call[c].pc = "fn" /\ engine' = engine
    BY <1>0, <1>5, FnReturnsTypes DEF FnReturns
  <2>2. Sql' <=> Sql
    BY <2>1 DEF Sql
  <2>3. CASE Sql
    <3>1. Moves(c, [call[c] EXCEPT !.batch = Folded(c), !.squeue = <<>>, !.pc = "flushing"])
      BY <1>0, <1>5, <2>3, FnReturnsTypes
    <3>2. Carries(c)' /\ OfKind(c)'
      BY <1>0, <2>1, <2>2, <2>3, <3>1 DEF Moves, Carries, OfKind, CallStates
    <3> QED BY <2>1, <3>1, <3>2, Others DEF Moves
  <2>4. CASE ~Sql
    <3>1. Taken(c, "transaction", queue) /\ queue \in Seq(Saves) /\ "transaction" \in Kinds
      BY <1>0, <1>5, <2>4, FnReturnsTypes DEF TypeInv, Kinds
    <3>2. call[c].written = <<>> /\ call[c].squeue = <<>>
      BY <1>0, <2>1, <2>4 DEF Carries, Empty
    <3>3. Carries(c)' /\ OfKind(c)'
      BY <1>0, <2>1, <2>4, <3>1, <3>2, TakenCarries
    <3>4. \A d \in Calls \ {c} : call'[d] = call[d]
      BY <1>0, <3>1, TakenMoves
    <3> QED BY <2>1, <3>3, <3>4, Others
  <2> QED BY <2>3, <2>4
<1>6. CASE Flush(c)
  <2> DEFINE written == call[c].written \o Bucketed(call[c].batch)
  <2>1. /\ TypeInv' /\ call[c].pc = "flushing" /\ engine' = engine
        /\ Moves(c, [call[c] EXCEPT !.written = written, !.pc = "committing"])
    BY <1>0, <1>6, FlushTypes DEF Flush
  <2>2. Ids(call[c].batch) \subseteq Ids(written)
    BY <1>0, CallFields, BucketsPermute, IdsFacts
  <2> HIDE DEF written
  <2>3. Sql' <=> Sql
    BY <2>1 DEF Sql
  <2>4. Carries(c)' /\ OfKind(c)'
    BY <1>0, <2>1, <2>2, <2>3 DEF Moves, Carries, OfKind, CallStates
  <2> QED BY <2>1, <2>4, Others DEF Moves
<1>7. CASE CommitTransaction(c)
  BY <1>0, <1>7, CommitTransactionTypes, EndedCarries, Others DEF Moves, CommitTransaction
<1>8. CASE FnThrows(c)
  <2>1. TypeInv' /\ call[c].pc = "fn" /\ engine' = engine
    BY <1>0, <1>8, FnThrowsTypes DEF FnThrows
  <2>2. Sql' <=> Sql
    BY <2>1 DEF Sql
  <2>3. CASE Sql
    <3>1. Moves(c, [call[c] EXCEPT !.pc = "undoing"])
      BY <1>0, <1>8, <2>3, FnThrowsTypes
    <3>2. Carries(c)' /\ OfKind(c)'
      BY <1>0, <2>1, <2>2, <2>3, <3>1 DEF Moves, Carries, OfKind, CallStates
    <3> QED BY <2>1, <3>1, <3>2, Others DEF Moves
  <2>4. CASE ~Sql
    <3>1. Discard(c)
      BY <1>0, <1>8, <2>4, FnThrowsTypes
    <3> QED BY <1>0, <2>1, <3>1, DiscardTypes, EndedCarries, Others DEF Moves
  <2> QED BY <2>3, <2>4
<1>9. CASE Undone(c)
  <2>1. Discard(c) /\ engine' = engine /\ TypeInv'
    BY <1>0, <1>9, UndoneTypes DEF Undone
  <2> QED BY <1>0, <2>1, DiscardTypes, EndedCarries, Others DEF Moves
<1>10. CASE Reject(c)
  <2>1. TypeInv' /\ engine' = engine /\ Failing(c)
    BY <1>0, <1>10, RejectTypes DEF Reject
  <2>2. Sql' <=> Sql
    BY <2>1 DEF Sql
  <2>3. CASE call[c].kind = "transaction"
    <3>1. Moves(c, [call[c] EXCEPT !.pc = "undoing"])
      BY <1>0, <1>10, <2>3, RejectTypes
    <3>2. Carries(c)' /\ OfKind(c)'
      BY <1>0, <2>1, <2>2, <2>3, <3>1 DEF Moves, Carries, OfKind, Failing, CallStates
    <3> QED BY <2>1, <3>1, <3>2, Others DEF Moves
  <2>4. CASE call[c].kind # "transaction"
    <3>1. Moves(c, [NewCall EXCEPT !.pc = "rejected"])
      BY <1>0, <1>10, <2>4, RejectTypes
    <3> QED BY <2>1, <3>1, EndedCarries, Others DEF Moves
  <2> QED BY <2>3, <2>4
<1>11. CASE Retry(c)
  <2>1. TypeInv' /\ engine' = engine /\ Failing(c)
    BY <1>0, <1>11, RetryTypes DEF Retry
  <2>2. Sql' <=> Sql
    BY <2>1 DEF Sql
  <2>3. CASE call[c].kind = "transaction"
    <3>1. Moves(c, [NewCall EXCEPT !.kind = "transaction", !.pc = "connecting",
                             !.prev = call[c].prev, !.attempt = call[c].attempt + 1])
      BY <1>0, <1>11, <2>3, RetryTypes
    <3>2. Carries(c)' /\ OfKind(c)'
      BY <2>1, <2>2, <3>1 DEF Moves, Carries, OfKind, Failing, Empty, NewCall
    <3> QED BY <2>1, <3>1, <3>2, Others DEF Moves
  <2>4. CASE call[c].kind # "transaction"
    <3>1. Moves(c, [call[c] EXCEPT !.attempt = call[c].attempt + 1, !.pc = "writing"])
      BY <1>0, <1>11, <2>4, RetryTypes
    <3>2. call[c].pc \in {"writing", "unanswered"}
      BY <1>0, <2>1, <2>4 DEF Failing, OfKind
    <3>3. Carries(c)' /\ OfKind(c)'
      BY <1>0, <2>1, <2>2, <2>4, <3>1, <3>2 DEF Moves, Carries, OfKind, Failing, CallStates
    <3> QED BY <2>1, <3>1, <3>3, Others DEF Moves
  <2> QED BY <2>3, <2>4
<1>12. CASE LoseAnswer(c)
  <2>1. /\ TypeInv' /\ engine' = engine /\ call[c].pc \in {"committing", "writing"}
        /\ Moves(c, [call[c] EXCEPT !.pc = "unanswered"])
    BY <1>0, <1>12, LoseAnswerTypes DEF LoseAnswer
  <2>2. Sql' <=> Sql
    BY <2>1 DEF Sql
  <2>3. Carries(c)' /\ OfKind(c)'
    BY <1>0, <2>1, <2>2 DEF Moves, Carries, OfKind, CallStates
  <2> QED BY <2>1, <2>3, Others DEF Moves
<1> QED BY <1>1, <1>2, <1>3, <1>4, <1>5, <1>6, <1>7, <1>8, <1>9, <1>10, <1>11, <1>12

LEMMA NextCallInv == CallInv /\ [Next]_vars => CallInv'
<1> SUFFICES ASSUME CallInv, [Next]_vars PROVE CallInv'
  OBVIOUS
<1>1. CASE Save
  <2>1. TypeInv' /\ call' = call /\ (Sql' <=> Sql)
    BY <1>1, SaveTypes DEF CallInv, Save, Sql
  <2> QED BY <2>1 DEF CallInv, Carries, OfKind, Empty
<1>2. ASSUME NEW c \in Calls,
             \/ StartPersist(c) \/ StartTransaction(c) \/ PatchNative(c) \/ PatchRead(c)
             \/ ScopedSave(c) \/ ScopedPersist(c) \/ Ends(c)
      PROVE  CallInv'
  BY <1>2, PersistKeepsCalls, TransactionKeepsCalls DEF Ends
<1>3. CASE UNCHANGED vars
  BY <1>3 DEF vars, CallInv, TypeInv, Carries, OfKind, Empty, Sql
<1> QED BY <1>1, <1>2, <1>3 DEF Next

---------------------------------------------------------------------------
(* Where the numbers of writes are. *)
Queued == Ids(queue)
Held(c) == IF call[c].pc = "emitting" THEN {} ELSE Uncommitted(c)

Ledger ==
  /\ Queued \cup hist.landed \cup hist.dropped \cup hist.forgone \subseteq 1..hist.n
  /\ \A c \in Calls : Uncommitted(c) \subseteq 1..hist.n
  /\ 1..hist.n \subseteq Queued \cup hist.landed \cup hist.dropped \cup hist.forgone
                           \cup UNION {Uncommitted(c) : c \in Calls}
  /\ conn.landed \subseteq hist.landed
  /\ \A c \in Calls : call[c].pc = "emitting" => Uncommitted(c) \subseteq hist.landed \cup hist.forgone

Apart == "unanswered" \notin hist.exempt =>
  /\ hist.dropped \cap hist.landed = {}
  /\ Queued \cap (hist.landed \cup hist.dropped) = {}
  /\ \A c \in Calls : Held(c) \cap (Queued \cup hist.landed \cup hist.dropped) = {}
  /\ \A c, d \in Calls : c # d => Held(c) \cap Held(d) = {}

(* A step of call c, with the new writes it makes. *)
New == (hist.n + 1)..hist'.n
Alone(c) == \A d \in Calls \ {c} : call'[d] = call[d]

Balanced(c) ==
  LET in == Queued \cup Uncommitted(c) \cup New
  IN  /\ Alone(c)
      /\ hist'.n \in {hist.n, hist.n + 1}
      /\ (Queued \cup Uncommitted(c))' \subseteq in
      /\ hist'.landed \subseteq hist.landed \cup in
      /\ hist'.dropped \subseteq hist.dropped \cup in
      /\ hist'.forgone \subseteq hist.forgone \cup hist.landed \cup in
      /\ in \subseteq (Queued \cup Uncommitted(c) \cup hist.landed \cup hist.dropped \cup hist.forgone)'
      /\ hist.landed \subseteq hist'.landed \cup hist'.forgone
      /\ hist.dropped \subseteq hist'.dropped /\ hist.forgone \subseteq hist'.forgone
      /\ conn'.landed \subseteq hist'.landed
      /\ call'[c].pc = "emitting" => Uncommitted(c)' \subseteq hist'.landed \cup hist'.forgone

Separated(c) ==
  LET in == Queued \cup Held(c) \cup New
  IN  /\ hist.exempt \subseteq hist'.exempt
      /\ \/ "unanswered" \in hist'.exempt
         \/ /\ Queued' \cup Held(c)' \subseteq in
            /\ (hist'.landed \ hist.landed) \cup (hist'.dropped \ hist.dropped) \subseteq in
            /\ Queued' \cap Held(c)' = {}
            /\ (Queued \cup Held(c))' \cap ((hist'.landed \ hist.landed) \cup (hist'.dropped \ hist.dropped)) = {}
            /\ (hist'.landed \ hist.landed) \cap (hist'.dropped \ hist.dropped) = {}

LEMMA LedgerStep ==
  ASSUME CallInv, Ledger, NEW c \in Calls, Balanced(c)
  PROVE  Ledger'
<1>1. hist.n \in Nat /\ hist'.n \in Nat /\ hist.n <= hist'.n /\ 1..hist.n \subseteq 1..hist'.n
      /\ New \subseteq 1..hist'.n /\ 1..hist'.n \subseteq 1..hist.n \cup New
  BY DEF CallInv, TypeInv, Balanced, New
<1>2. \A d \in Calls \ {c} : Uncommitted(d)' = Uncommitted(d) /\ call'[d].pc = call[d].pc
  BY DEF Balanced, Alone, Uncommitted
<1>3. Queued \cup Uncommitted(c) \cup New \subseteq 1..hist'.n
  BY <1>1 DEF Ledger
<1>4. (Queued \cup hist.landed \cup hist.dropped \cup hist.forgone \subseteq 1..hist.n)'
      /\ Uncommitted(c)' \subseteq 1..hist'.n
  BY <1>1, <1>3 DEF Balanced, Ledger
<1>5. \A d \in Calls : Uncommitted(d)' \subseteq 1..hist'.n
  BY <1>1, <1>2, <1>4 DEF Ledger
<1>6. ASSUME NEW i \in 1..hist'.n
      PROVE  i \in (Queued \cup hist.landed \cup hist.dropped \cup hist.forgone)'
               \/ \E d \in Calls : i \in Uncommitted(d)'
  <2>1. CASE i \in Queued \cup Uncommitted(c) \cup New
    BY <2>1 DEF Balanced
  <2>2. CASE i \in hist.landed \cup hist.dropped \cup hist.forgone
    BY <2>2 DEF Balanced
  <2>3. CASE \E d \in Calls \ {c} : i \in Uncommitted(d)
    BY <1>2, <2>3
  <2>4. i \in 1..hist.n \/ i \in New
    BY <1>1
  <2>5. i \in 1..hist.n => i \in Queued \cup hist.landed \cup hist.dropped \cup hist.forgone
                             \/ \E d \in Calls : i \in Uncommitted(d)
    BY DEF Ledger
  <2> QED BY <2>1, <2>2, <2>3, <2>4, <2>5
<1>7. (1..hist.n \subseteq Queued \cup hist.landed \cup hist.dropped \cup hist.forgone
                           \cup UNION {Uncommitted(d) : d \in Calls})'
  BY <1>6
<1>8. \A d \in Calls : call'[d].pc = "emitting" => Uncommitted(d)' \subseteq hist'.landed \cup hist'.forgone
  <2>1. hist.landed \cup hist.forgone \subseteq hist'.landed \cup hist'.forgone
    BY DEF Balanced
  <2>2. ASSUME NEW d \in Calls \ {c}, call'[d].pc = "emitting"
        PROVE  Uncommitted(d)' \subseteq hist'.landed \cup hist'.forgone
    BY <1>2, <2>1, <2>2 DEF Ledger
  <2> QED BY <2>2 DEF Balanced
<1>9. conn'.landed \subseteq hist'.landed
  BY DEF Balanced
<1> QED BY <1>4, <1>5, <1>7, <1>8, <1>9 DEF Ledger

LEMMA ApartStep ==
  ASSUME CallInv, TypeInv', Ledger, Apart, NEW c \in Calls, Alone(c), Separated(c)
  PROVE  Apart'
<1> SUFFICES ASSUME "unanswered" \notin hist'.exempt
    PROVE  /\ hist'.dropped \cap hist'.landed = {}
           /\ Queued' \cap (hist'.landed \cup hist'.dropped) = {}
           /\ \A d \in Calls : Held(d)' \cap (Queued \cup hist.landed \cup hist.dropped)' = {}
           /\ \A d, e \in Calls : d # e => Held(d)' \cap Held(e)' = {}
  BY DEF Apart
<1> DEFINE in == Queued \cup Held(c) \cup New
           landing == hist'.landed \ hist.landed
           dropping == hist'.dropped \ hist.dropped
<1>1. /\ hist.dropped \cap hist.landed = {}
      /\ Queued \cap (hist.landed \cup hist.dropped) = {}
      /\ \A d \in Calls : Held(d) \cap (Queued \cup hist.landed \cup hist.dropped) = {}
      /\ \A d, e \in Calls : d # e => Held(d) \cap Held(e) = {}
  BY DEF Apart, Separated
<1>2. /\ Queued' \cup Held(c)' \subseteq in
      /\ landing \subseteq in /\ dropping \subseteq in
      /\ Queued' \cap Held(c)' = {}
      /\ (Queued \cup Held(c))' \cap landing = {} /\ (Queued \cup Held(c))' \cap dropping = {}
      /\ landing \cap dropping = {}
  BY DEF Separated
<1>3. \A d \in Calls \ {c} : Held(d)' = Held(d)
  BY DEF Alone, Held, Uncommitted
<1>4. New \cap (hist.landed \cup hist.dropped) = {} /\ \A d \in Calls : New \cap Held(d) = {}
  <2>1. hist.n \in Nat /\ hist'.n \in Nat
    BY DEF CallInv, TypeInv
  <2>2. \A i \in New : i \notin 1..hist.n
    BY <2>1 DEF New
  <2>3. \A d \in Calls : Held(d) \subseteq 1..hist.n
    BY DEF Ledger, Held
  <2> QED BY <2>2, <2>3 DEF Ledger
<1>5. in \cap (hist.landed \cup hist.dropped) = {} /\ \A d \in Calls \ {c} : in \cap Held(d) = {}
  BY <1>1, <1>4
<1>6. hist'.landed \subseteq hist.landed \cup landing /\ hist'.dropped \subseteq hist.dropped \cup dropping
  OBVIOUS
<1> HIDE DEF in, landing, dropping
<1>7. hist'.dropped \cap hist'.landed = {}
  BY <1>1, <1>2, <1>5, <1>6
<1>8. (Queued \cup Held(c))' \cap (hist'.landed \cup hist'.dropped) = {}
  BY <1>2, <1>5, <1>6
<1>9. ASSUME NEW d \in Calls \ {c}
      PROVE  Held(d)' \cap (Queued \cup Held(c) \cup hist.landed \cup hist.dropped)' = {}
  BY <1>1, <1>2, <1>3, <1>5, <1>6
<1>10. \A d \in Calls : Held(d)' \cap (Queued \cup hist.landed \cup hist.dropped)' = {}
  BY <1>2, <1>8, <1>9
<1>11. \A d, e \in Calls : d # e => Held(d)' \cap Held(e)' = {}
  BY <1>1, <1>3, <1>9
<1> QED BY <1>7, <1>8, <1>10, <1>11

BooksInv == CallInv /\ Ledger /\ Apart

LEMMA BooksStep ==
  ASSUME BooksInv, CallInv', NEW c \in Calls, Balanced(c), Separated(c)
  PROVE  BooksInv'
BY LedgerStep, ApartStep DEF BooksInv, CallInv, Balanced

LEMMA NoNew ==
  ASSUME TypeInv, hist'.n = hist.n
  PROVE  New = {}
BY DEF TypeInv, New

LEMMA OneNew ==
  ASSUME TypeInv, hist'.n = hist.n + 1
  PROVE  New = {hist.n + 1}
BY DEF TypeInv, New

(* Writes change hands, and none is stored or given up. *)
LEMMA Reshuffled ==
  ASSUME BooksInv, CallInv', NEW c \in Calls, Alone(c),
         hist'.n = hist.n, hist'.landed = hist.landed, hist'.dropped = hist.dropped, hist'.forgone = hist.forgone,
         hist.exempt \subseteq hist'.exempt,
         conn'.landed \in {conn.landed, hist.landed},
         call[c].pc # "emitting", call'[c].pc # "emitting",
         (Queued \cup Uncommitted(c))' = Queued \cup Uncommitted(c),
         Queued' = {} \/ (Queued' = Queued /\ Uncommitted(c)' = Uncommitted(c))
  PROVE  BooksInv'
<1>1. New = {}
  BY NoNew DEF BooksInv, CallInv
<1>2. Balanced(c)
  BY <1>1 DEF Balanced, BooksInv, Ledger
<1>3. Separated(c)
  <2>1. "unanswered" \notin hist.exempt => Queued \cap Held(c) = {}
    BY DEF BooksInv, Apart
  <2> QED BY <1>1, <2>1 DEF Separated, Held
<1> QED BY <1>2, <1>3, BooksStep

(* The batch of c is stored. *)
LEMMA BatchLands ==
  ASSUME BooksInv, CallInv', NEW c \in Calls, Alone(c), queue' = queue,
         hist'.n = hist.n, hist'.landed = hist.landed \cup Uncommitted(c),
         hist'.dropped = hist.dropped, hist'.forgone = hist.forgone, hist.exempt \subseteq hist'.exempt,
         conn' = conn \/ conn'.landed = {},
         call[c].pc # "emitting", call'[c].pc = "emitting", Uncommitted(c)' = Uncommitted(c)
  PROVE  BooksInv'
<1>1. New = {} /\ Queued' = Queued
  BY NoNew DEF BooksInv, CallInv, Queued
<1>2. Balanced(c)
  BY <1>1 DEF Balanced, BooksInv, Ledger
<1>3. Separated(c)
  <2>1. "unanswered" \notin hist.exempt => Queued \cap Held(c) = {}
    BY DEF BooksInv, Apart
  <2> QED BY <1>1, <2>1 DEF Separated, Held
<1> QED BY <1>2, <1>3, BooksStep

(* c has nothing left: what it carried is stored, failed or given up, or was
   stored before. *)
LEMMA CallEnds ==
  ASSUME BooksInv, CallInv', NEW c \in Calls, Alone(c), hist'.n = hist.n,
         Uncommitted(c)' = {}, call'[c].pc # "emitting", conn'.landed \in {conn.landed, {}},
         queue' = queue, hist.exempt \subseteq hist'.exempt,
         \/ /\ call[c].pc = "emitting"
            /\ hist'.landed = hist.landed /\ hist'.dropped = hist.dropped /\ hist'.forgone = hist.forgone
         \/ /\ call[c].pc # "emitting"
            /\ \/ /\ hist'.landed = hist.landed \cup Uncommitted(c)
                  /\ hist'.dropped = hist.dropped /\ hist'.forgone = hist.forgone
               \/ /\ hist'.dropped = hist.dropped \cup Uncommitted(c)
                  /\ hist'.landed = hist.landed /\ hist'.forgone = hist.forgone
               \/ /\ hist'.forgone = hist.forgone \cup Uncommitted(c)
                  /\ hist'.landed = hist.landed /\ hist'.dropped = hist.dropped
  PROVE  BooksInv'
<1>1. New = {} /\ Queued' = Queued
  BY NoNew DEF BooksInv, CallInv, Queued
<1>2. Balanced(c)
  <2>1. call[c].pc = "emitting" => Uncommitted(c) \subseteq hist.landed \cup hist.forgone
    BY DEF BooksInv, Ledger
  <2> QED BY <1>1, <2>1 DEF Balanced, BooksInv, Ledger
<1>3. Separated(c)
  <2>1. "unanswered" \notin hist.exempt => Queued \cap Held(c) = {}
    BY DEF BooksInv, Apart
  <2> QED BY <1>1, <2>1 DEF Separated, Held
<1> QED BY <1>2, <1>3, BooksStep

LEMMA DiscardBooks ==
  ASSUME BooksInv, CallInv', NEW c \in Calls, Discard(c), call[c].pc # "emitting", conn' = conn
  PROVE  BooksInv'
<1>1. /\ queue' = <<>> /\ Moves(c, [NewCall EXCEPT !.pc = "rejected"])
      /\ hist' = [hist EXCEPT !.dropped = @ \cup Ids(queue) \cup Uncommitted(c), !.exempt = @ \cup Events(c)]
  BY DiscardTypes DEF BooksInv, CallInv
<1>2. /\ hist'.n = hist.n /\ hist'.landed = hist.landed /\ hist'.forgone = hist.forgone
      /\ hist'.dropped = hist.dropped \cup Queued \cup Uncommitted(c) /\ hist.exempt \subseteq hist'.exempt
  BY <1>1 DEF BooksInv, CallInv, TypeInv, Queued
<1>3. Uncommitted(c)' = {} /\ call'[c].pc = "rejected" /\ Queued' = {} /\ Alone(c)
  BY <1>1, EndedCarries, IdsFacts DEF Moves, Queued, Alone
<1>4. New = {}
  BY <1>2, NoNew DEF BooksInv, CallInv
<1>5. Balanced(c)
  BY <1>2, <1>3, <1>4 DEF Balanced, BooksInv, Ledger
<1>6. Separated(c)
  BY <1>2, <1>3, <1>4 DEF Separated, Held
<1> QED BY <1>5, <1>6, BooksStep

LEMMA SaveBooks ==
  ASSUME BooksInv, CallInv', Save
  PROVE  BooksInv'
<1>1. PICK col \in Columns, value \in Values :
        /\ queue' = Append(queue, Entry(repo, Edited(repo, col, value)))
        /\ hist' = [hist EXCEPT !.n = @ + 1, !.last = Edited(repo, col, value)]
  BY DEF Save
<1> DEFINE e == Entry(repo, Edited(repo, col, value))
<1>2. e \in Saves /\ e.id = hist.n + 1
  BY ValuesType, EditedType, EntryType DEF BooksInv, CallInv, TypeInv, Entry
<1>3. Queued' = Queued \cup {hist.n + 1}
  <2> HIDE DEF e
  <2> QED BY <1>1, <1>2, IdsFacts DEF e, Queued, BooksInv, CallInv, TypeInv
<1>4. /\ hist'.n = hist.n + 1 /\ hist'.landed = hist.landed /\ hist'.dropped = hist.dropped
      /\ hist'.forgone = hist.forgone /\ hist'.exempt = hist.exempt /\ call' = call /\ conn' = conn
      /\ hist.n \in Nat
  BY <1>1 DEF BooksInv, CallInv, TypeInv, Save
<1>5. \A c \in Calls : Uncommitted(c)' = Uncommitted(c) /\ Held(c)' = Held(c)
  BY <1>4 DEF Uncommitted, Held
<1>6. \A i : i \in 1..(hist.n + 1) <=> i \in 1..hist.n \/ i = hist.n + 1
  BY <1>4
<1>7. Ledger'
  <2>1. hist.n + 1 \in Queued'
    BY <1>3
  <2>2. (1..hist.n \subseteq Queued \cup hist.landed \cup hist.dropped \cup hist.forgone
                           \cup UNION {Uncommitted(d) : d \in Calls})'
    <3>1. UNION {Uncommitted(d)' : d \in Calls} = UNION {Uncommitted(d) : d \in Calls}
      BY <1>5
    <3> QED BY <1>3, <1>4, <1>6, <2>1, <3>1 DEF BooksInv, Ledger
  <2> QED BY <1>3, <1>4, <1>5, <1>6, <2>2 DEF BooksInv, Ledger
<1>8. Apart'
  <2>1. \A c \in Calls : hist.n + 1 \notin Held(c)
    BY <1>4 DEF BooksInv, Ledger, Held
  <2>2. hist.n + 1 \notin hist.landed \cup hist.dropped
    BY <1>4 DEF BooksInv, Ledger
  <2> QED BY <1>3, <1>4, <1>5, <2>1, <2>2 DEF BooksInv, Apart
<1> QED BY <1>7, <1>8 DEF BooksInv

LEMMA InitBooks == Init => BooksInv
<1> SUFFICES ASSUME Init PROVE BooksInv OBVIOUS
<1>1. \A c \in Calls : Uncommitted(c) = {} /\ Held(c) = {}
  BY IdsFacts DEF Init, NewCall, Uncommitted, Held
<1>2. Queued = {}
  BY IdsFacts DEF Init, Queued
<1>3. hist.n = 0 /\ hist.landed = {} /\ hist.dropped = {} /\ hist.forgone = {} /\ conn.landed = {}
  BY DEF Init, Free
<1>4. 1..0 = {}
  OBVIOUS
<1> QED BY <1>1, <1>2, <1>3, <1>4, InitCallInv DEF BooksInv, Ledger, Apart

(* What a call carries, read off its fields. *)
LEMMA CarriedIds ==
  ASSUME CallInv, NEW c \in Calls
  PROVE  /\ call[c].pc \in {"idle", "connecting"} => Uncommitted(c) = {}
         /\ call[c].pc = "fn" => Uncommitted(c) = Ids(call[c].written) \cup Ids(call[c].squeue)
         /\ call[c].pc \in {"writing", "begin", "open", "patching"} => Uncommitted(c) = Ids(call[c].batch)
         /\ call[c].pc = "committing" => Uncommitted(c) = Ids(call[c].written)
         /\ call[c].pc = "flushing" => Uncommitted(c) = Ids(call[c].batch) \cup Ids(call[c].written)
         /\ call[c].pc = "unanswered" => Uncommitted(c) = Ids(call[c].batch) \cup Ids(call[c].written)
         /\ call[c].pc = "unanswered" /\ call[c].kind # "transaction" => Uncommitted(c) = Ids(call[c].batch)
<1>1. Carries(c) /\ Ids(<<>>) = {}
  BY IdsFacts DEF CallInv
<1> QED BY <1>1 DEF Carries, Empty, Uncommitted

LEMMA PersistBooks ==
  ASSUME BooksInv, CallInv', NEW c \in Calls,
         \/ StartPersist(c) \/ CommitBatch(c) \/ Emit(c) \/ Begin(c) \/ WriteAndCommit(c) \/ PatchWrite(c)
  PROVE  BooksInv'
<1>0. CallInv /\ TypeInv /\ Carries(c) /\ OfKind(c) /\ call[c] \in CallStates
  BY CallFields DEF BooksInv, CallInv
<1>1. CASE StartPersist(c)
  <2>1. Taken(c, "persist", queue) /\ call[c].pc = "idle" /\ queue \in Seq(Saves) /\ "persist" \in Kinds
        /\ UNCHANGED <<engine, conn, hist>>
    BY <1>0, <1>1 DEF StartPersist, TypeInv, Kinds
  <2>2. call[c].written = <<>> /\ call[c].squeue = <<>> /\ Uncommitted(c) = {}
    BY <1>0, <2>1, CarriedIds DEF Carries, Empty
  <2>3. Uncommitted(c)' = Queued /\ call'[c].pc # "emitting"
    BY <1>0, <2>1, <2>2, TakenCarries DEF Queued
  <2>4. Queued' = {} /\ Alone(c)
    BY <1>0, <2>1, TakenMoves, IdsFacts DEF Queued, Alone
  <2> QED BY <2>1, <2>2, <2>3, <2>4, Reshuffled
<1>2. CASE PatchWrite(c)
  <2>1. Taken(c, "patch", queue \o call[c].batch) /\ call[c].pc = "patching" /\ "patch" \in Kinds
        /\ queue \o call[c].batch \in Seq(Saves) /\ UNCHANGED <<engine, conn, hist>>
    BY <1>0, <1>2, PatchWriteTypes DEF PatchWrite, Kinds
  <2>2. call[c].written = <<>> /\ call[c].squeue = <<>> /\ Uncommitted(c) = Ids(call[c].batch)
    BY <1>0, <2>1, CarriedIds DEF Carries
  <2>3. Ids(queue \o call[c].batch) = Queued \cup Uncommitted(c)
    BY <1>0, <2>2, IdsFacts, CallFields DEF Queued, TypeInv
  <2>4. Uncommitted(c)' = Queued \cup Uncommitted(c) /\ call'[c].pc # "emitting"
    BY <1>0, <2>1, <2>2, <2>3, TakenCarries
  <2>5. Queued' = {} /\ Alone(c)
    BY <1>0, <2>1, TakenMoves, IdsFacts DEF Queued, Alone
  <2> QED BY <2>1, <2>4, <2>5, Reshuffled
<1>3. CASE CommitBatch(c)
  <2> DEFINE s == Bucketed(call[c].batch)
  <2>1. s \in Seq(Saves) /\ Commit(s) /\ call[c].pc = "writing" /\ UNCHANGED <<queue, conn>>
    BY <1>0, <1>3, CallFields, BucketsPermute DEF CommitBatch
  <2>2. Ids(s) = Uncommitted(c)
    BY <1>0, <2>1, BucketedIds, CallFields, CarriedIds
  <2> HIDE DEF s
  <2>3. Moves(c, [call[c] EXCEPT !.pc = "emitting"])
    BY <1>0, <1>3, CommitBatchTypes
  <2>4. Uncommitted(c)' = Uncommitted(c) /\ call'[c].pc = "emitting" /\ Alone(c)
    BY <1>0, <2>3 DEF Moves, CallStates, Uncommitted, Alone
  <2>5. /\ hist'.n = hist.n /\ hist'.landed = hist.landed \cup Uncommitted(c) /\ hist'.dropped = hist.dropped
        /\ hist'.forgone = hist.forgone /\ hist.exempt \subseteq hist'.exempt
    BY <1>0, <2>1, <2>2, CommitTypes
  <2> QED BY <2>1, <2>4, <2>5, BatchLands
<1>4. CASE WriteAndCommit(c)
  <2> DEFINE s == call[c].batch
  <2>1. s \in Seq(Saves) /\ Commit(s) /\ call[c].pc = "open" /\ queue' = queue /\ conn'.landed = {}
    BY <1>0, <1>4, CallFields DEF WriteAndCommit, Free
  <2>2. Ids(s) = Uncommitted(c)
    BY <1>0, <2>1, CarriedIds
  <2> HIDE DEF s
  <2>3. Moves(c, [call[c] EXCEPT !.pc = "emitting"])
    BY <1>0, <1>4, WriteAndCommitTypes
  <2>4. Uncommitted(c)' = Uncommitted(c) /\ call'[c].pc = "emitting" /\ Alone(c)
    BY <1>0, <2>3 DEF Moves, CallStates, Uncommitted, Alone
  <2>5. /\ hist'.n = hist.n /\ hist'.landed = hist.landed \cup Uncommitted(c) /\ hist'.dropped = hist.dropped
        /\ hist'.forgone = hist.forgone /\ hist.exempt \subseteq hist'.exempt
    BY <1>0, <2>1, <2>2, CommitTypes
  <2> QED BY <2>1, <2>4, <2>5, BatchLands
<1>5. CASE Emit(c)
  <2>1. Moves(c, [NewCall EXCEPT !.pc = "resolved"]) /\ call[c].pc = "emitting" /\ UNCHANGED <<queue, conn, hist>>
    BY <1>0, <1>5, EmitTypes DEF Emit
  <2>2. Uncommitted(c)' = {} /\ call'[c].pc # "emitting" /\ Alone(c)
    BY <2>1, EndedCarries DEF Moves, Alone
  <2> QED BY <2>1, <2>2, CallEnds
<1>6. CASE Begin(c)
  <2>1. call[c].pc = "begin" /\ queue' = queue /\ call[c].batch \in Seq(Saves)
        /\ Uncommitted(c) = Ids(call[c].batch)
    BY <1>0, <1>6, CallFields, CarriedIds DEF Begin
  <2>2. CASE conn.owner = None
    <3>1. conn'.landed = hist.landed /\ hist' = hist
      BY <1>6, <2>2 DEF Begin
    <3>2. Moves(c, [call[c] EXCEPT !.pc = "open"])
      BY <1>0, <1>6, <2>2, BeginTypes
    <3>3. Uncommitted(c)' = Uncommitted(c) /\ call'[c].pc = "open" /\ Alone(c) /\ Queued' = Queued
      BY <1>0, <2>1, <3>2 DEF Moves, CallStates, Uncommitted, Alone, Queued
    <3> QED BY <2>1, <3>1, <3>3, Reshuffled
  <2>3. CASE conn.owner # None
    <3>1. hist' = [hist EXCEPT !.dropped = @ \cup Ids(call[c].batch)] /\ conn' = conn
          /\ call' = Ended(c, "rejected")
      BY <1>6, <2>3 DEF Begin
    <3>2. Moves(c, [NewCall EXCEPT !.pc = "rejected"])
      BY <1>0, <3>1 DEF Moves, Ended, TypeInv
    <3>3. Uncommitted(c)' = {} /\ call'[c].pc # "emitting" /\ Alone(c)
      BY <3>2, EndedCarries DEF Moves, Alone
    <3>4. /\ hist'.n = hist.n /\ hist'.landed = hist.landed /\ hist'.forgone = hist.forgone
          /\ hist'.dropped = hist.dropped \cup Uncommitted(c) /\ hist'.exempt = hist.exempt
      BY <1>0, <2>1, <3>1 DEF TypeInv
    <3> QED BY <2>1, <3>1, <3>3, <3>4, CallEnds
  <2> QED BY <2>2, <2>3
<1> QED BY <1>1, <1>2, <1>3, <1>4, <1>5, <1>6

LEMMA PatchBooks ==
  ASSUME BooksInv, CallInv', NEW c \in Calls, PatchNative(c) \/ PatchRead(c) \/ Rollback(c)
  PROVE  BooksInv'
<1>0. CallInv /\ TypeInv /\ Carries(c) /\ call[c] \in CallStates
  BY CallFields DEF BooksInv, CallInv
<1>1. CASE PatchNative(c)
  <2>1. Moves(c, [NewCall EXCEPT !.pc = "resolved"]) /\ call[c].pc = "idle" /\ queue' = queue /\ conn' = conn
        /\ hist' = [hist EXCEPT !.n = @ + 1, !.landed = @ \cup {hist.n + 1}, !.exempt = @ \cup {"patch"}]
    BY <1>0, <1>1, PatchNativeTypes DEF PatchNative
  <2>2. Uncommitted(c)' = {} /\ call'[c].pc = "resolved" /\ Alone(c) /\ Queued' = Queued /\ Uncommitted(c) = {}
    BY <1>0, <2>1, EndedCarries, CarriedIds DEF Moves, Alone, Queued
  <2>3. /\ hist'.n = hist.n + 1 /\ hist'.landed = hist.landed \cup {hist.n + 1} /\ hist'.dropped = hist.dropped
        /\ hist'.forgone = hist.forgone /\ hist.exempt \subseteq hist'.exempt
    BY <1>0, <2>1 DEF TypeInv
  <2>4. New = {hist.n + 1} /\ hist.n + 1 \notin Queued
    BY <1>0, <2>3, OneNew DEF BooksInv, Ledger, TypeInv
  <2>5. Balanced(c)
    BY <2>1, <2>2, <2>3, <2>4 DEF Balanced, BooksInv, Ledger
  <2>6. Separated(c)
    BY <2>1, <2>2, <2>3, <2>4 DEF Separated, Held
  <2> QED BY <2>5, <2>6, BooksStep
<1>2. CASE PatchRead(c)
  <2>1. PICK s \in Seq(Saves) :
          Ids(s) = {hist.n + 1} /\ Moves(c, [call[c] EXCEPT !.pc = "patching", !.kind = "patch", !.batch = s])
    BY <1>0, <1>2, PatchReadTypes
  <2>2. call[c].pc = "idle" /\ queue' = queue /\ conn' = conn
        /\ hist' = [hist EXCEPT !.n = @ + 1, !.exempt = @ \cup {"patch"}]
    BY <1>2 DEF PatchRead
  <2>3. /\ call'[c].pc = "patching" /\ call'[c].batch = s /\ call'[c].written = <<>> /\ call'[c].squeue = <<>>
        /\ Alone(c) /\ Queued' = Queued /\ Uncommitted(c) = {}
    BY <1>0, <2>1, <2>2, CarriedIds DEF Moves, CallStates, Alone, Queued, Carries, Empty
  <2>4. Uncommitted(c)' = {hist.n + 1}
    BY <2>1, <2>3, IdsFacts DEF Uncommitted
  <2>5. /\ hist'.n = hist.n + 1 /\ hist'.landed = hist.landed /\ hist'.dropped = hist.dropped
        /\ hist'.forgone = hist.forgone /\ hist.exempt \subseteq hist'.exempt
    BY <1>0, <2>2 DEF TypeInv
  <2>6. New = {hist.n + 1} /\ hist.n + 1 \notin Queued
    BY <1>0, <2>5, OneNew DEF BooksInv, Ledger, TypeInv
  <2>7. Balanced(c)
    BY <2>2, <2>3, <2>4, <2>5, <2>6 DEF Balanced, BooksInv, Ledger
  <2>8. Separated(c)
    BY <2>2, <2>3, <2>4, <2>5, <2>6 DEF Separated, Held
  <2> QED BY <2>7, <2>8, BooksStep
<1>3. CASE Rollback(c)
  <2>1. /\ Moves(c, [NewCall EXCEPT !.pc = "rejected"]) /\ call[c].pc = "open" /\ queue' = queue /\ conn'.landed = {}
        /\ hist' = [hist EXCEPT !.landed = conn.landed, !.forgone = @ \cup (hist.landed \ conn.landed),
                                !.dropped = @ \cup Ids(call[c].batch)]
    BY <1>0, <1>3, RollbackTypes DEF Rollback, Free
  <2>2. /\ Uncommitted(c)' = {} /\ call'[c].pc = "rejected" /\ Alone(c) /\ Queued' = Queued
        /\ Uncommitted(c) = Ids(call[c].batch)
    BY <1>0, <2>1, EndedCarries, CarriedIds DEF Moves, Alone, Queued
  <2>3. /\ hist'.n = hist.n /\ hist'.landed = conn.landed /\ hist'.dropped = hist.dropped \cup Uncommitted(c)
        /\ hist'.forgone = hist.forgone \cup (hist.landed \ conn.landed) /\ hist'.exempt = hist.exempt
    BY <1>0, <2>1, <2>2 DEF TypeInv
  <2>4. New = {} /\ conn.landed \subseteq hist.landed
    BY <1>0, <2>3, NoNew DEF BooksInv, Ledger
  <2>5. Balanced(c)
    BY <2>1, <2>2, <2>3, <2>4 DEF Balanced
  <2>6. Separated(c)
    <3>1. "unanswered" \notin hist.exempt => Queued \cap Held(c) = {}
      BY DEF BooksInv, Apart
    <3> QED BY <2>1, <2>2, <2>3, <2>4, <3>1 DEF Separated, Held
  <2> QED BY <2>5, <2>6, BooksStep
<1> QED BY <1>1, <1>2, <1>3

LEMMA TransactionBooks ==
  ASSUME BooksInv, CallInv', NEW c \in Calls,
         \/ StartTransaction(c) \/ Connected(c) \/ ScopedSave(c) \/ ScopedPersist(c) \/ FnReturns(c) \/ Flush(c)
         \/ CommitTransaction(c)
  PROVE  BooksInv'
<1>0. CallInv /\ TypeInv /\ Carries(c) /\ OfKind(c) /\ call[c] \in CallStates
  BY CallFields DEF BooksInv, CallInv
<1>1. CASE StartTransaction(c)
  <2>1. /\ call[c].pc = "idle" /\ queue' = queue /\ conn' = conn
        /\ Moves(c, [call[c] EXCEPT !.kind = "transaction", !.prev = mode, !.pc = IF Sql THEN "connecting" ELSE "fn"])
    BY <1>0, <1>1, StartTransactionTypes DEF StartTransaction
  <2>2. /\ hist'.n = hist.n /\ hist'.landed = hist.landed /\ hist'.dropped = hist.dropped
        /\ hist'.forgone = hist.forgone /\ hist.exempt \subseteq hist'.exempt
    BY <1>0, <1>1 DEF TypeInv, StartTransaction
  <2>3. Uncommitted(c)' = Uncommitted(c) /\ call'[c].pc # "emitting" /\ Alone(c) /\ Queued' = Queued
    BY <1>0, <2>1 DEF Moves, CallStates, Uncommitted, Alone, Queued
  <2> QED BY <2>1, <2>2, <2>3, Reshuffled
<1>2. CASE Connected(c)
  <2>1. /\ call[c].pc = "connecting" /\ queue' = queue /\ conn' = conn /\ hist' = hist
        /\ Moves(c, [call[c] EXCEPT !.pc = "fn", !.scope = [inst |-> IF db = None THEN Zero ELSE db, base |-> db]])
    BY <1>0, <1>2, ConnectedTypes DEF Connected
  <2>2. Uncommitted(c)' = Uncommitted(c) /\ call'[c].pc # "emitting" /\ Alone(c) /\ Queued' = Queued
    BY <1>0, <2>1 DEF Moves, CallStates, Uncommitted, Alone, Queued
  <2> QED BY <2>1, <2>2, Reshuffled
<1>3. CASE ScopedSave(c)
  <2>1. PICK scope \in [inst : Rows, base : Rows \cup {None}], e \in Saves :
          /\ e.id = hist.n + 1
          /\ Moves(c, [call[c] EXCEPT !.scope = scope, !.squeue = Append(call[c].squeue, e)])
    BY <1>0, <1>3, ScopedSaveTypes
  <2>2. call[c].pc = "fn" /\ queue' = queue /\ conn' = conn
    BY <1>3 DEF ScopedSave
  <2>3. /\ hist'.n = hist.n + 1 /\ hist'.landed = hist.landed /\ hist'.dropped = hist.dropped
        /\ hist'.forgone = hist.forgone /\ hist.exempt \subseteq hist'.exempt
    <3>1. hist' = [hist EXCEPT !.n = @ + 1, !.exempt = @ \cup {"mixed"}]
      BY <1>3 DEF ScopedSave
    <3> QED BY <1>0, <3>1 DEF TypeInv
  <2>4. /\ call'[c].pc = "fn" /\ call'[c].batch = call[c].batch /\ call'[c].written = call[c].written
        /\ call'[c].squeue = Append(call[c].squeue, e) /\ Alone(c) /\ Queued' = Queued
    BY <1>0, <2>1, <2>2 DEF Moves, CallStates, Alone, Queued
  <2>5. Ids(Append(call[c].squeue, e)) = Ids(call[c].squeue) \cup {hist.n + 1}
    BY <1>0, <2>1, CallFields, IdsFacts
  <2>6. Uncommitted(c)' = Uncommitted(c) \cup {hist.n + 1}
    BY <2>4, <2>5 DEF Uncommitted
  <2>7. New = {hist.n + 1} /\ hist.n + 1 \notin Queued
    BY <1>0, <2>3, OneNew DEF BooksInv, Ledger, TypeInv
  <2>8. Balanced(c)
    BY <2>2, <2>3, <2>4, <2>6, <2>7 DEF Balanced, BooksInv, Ledger
  <2>9. Separated(c)
    <3>1. "unanswered" \notin hist.exempt => Queued \cap Held(c) = {}
      BY DEF BooksInv, Apart
    <3> QED BY <2>2, <2>3, <2>4, <2>6, <2>7, <3>1 DEF Separated, Held
  <2> QED BY <2>8, <2>9, BooksStep
<1>4. CASE ScopedPersist(c)
  <2> DEFINE written == call[c].written \o Bucketed(call[c].squeue)
  <2>1. Ids(written) = Ids(call[c].written) \cup Ids(call[c].squeue)
    BY <1>0, CallFields, BucketsPermute, IdsFacts
  <2>2. PICK scope \in [inst : Rows, base : Rows \cup {None}] :
          Moves(c, [call[c] EXCEPT !.written = written, !.squeue = <<>>, !.scope = scope])
    BY <1>0, <1>4, ScopedPersistTypes
  <2> HIDE DEF written
  <2>3. call[c].pc = "fn" /\ queue' = queue /\ conn' = conn /\ hist' = hist
    BY <1>4 DEF ScopedPersist
  <2>4. /\ call'[c].pc = "fn" /\ call'[c].batch = call[c].batch /\ call'[c].written = written
        /\ call'[c].squeue = <<>> /\ Alone(c) /\ Queued' = Queued
    BY <1>0, <2>2, <2>3 DEF Moves, CallStates, Alone, Queued
  <2>5. Uncommitted(c)' = Uncommitted(c)
    BY <2>1, <2>4, IdsFacts DEF Uncommitted
  <2> QED BY <2>3, <2>4, <2>5, Reshuffled
<1>5. CASE FnReturns(c) /\ Sql
  <2>1. /\ queue' = <<>> /\ call[c].pc = "fn" /\ conn' = conn /\ hist' = hist
        /\ Moves(c, [call[c] EXCEPT !.batch = Folded(c), !.squeue = <<>>, !.pc = "flushing"])
    BY <1>0, <1>5, FnReturnsTypes DEF FnReturns
  <2>2. Ids(Folded(c)) = Queued \cup Ids(call[c].squeue)
    BY <1>0, CallFields, IdsFacts DEF TypeInv, Folded, Queued
  <2>3. /\ call'[c].pc = "flushing" /\ call'[c].batch = Folded(c) /\ call'[c].written = call[c].written
        /\ call'[c].squeue = <<>> /\ Alone(c) /\ Queued' = {}
    BY <1>0, <2>1, IdsFacts DEF Moves, CallStates, Alone, Queued
  <2>4. Uncommitted(c)' = Ids(Folded(c)) \cup Ids(call[c].written) \cup Ids(<<>>)
    BY <2>3 DEF Uncommitted
  <2>5. Uncommitted(c)' = Queued \cup Uncommitted(c)
    BY <1>0, <2>1, <2>2, <2>4, IdsFacts, CarriedIds
  <2> QED BY <2>1, <2>3, <2>5, Reshuffled
<1>6. CASE FnReturns(c) /\ ~Sql
  <2>1. Taken(c, "transaction", queue) /\ call[c].pc = "fn" /\ queue \in Seq(Saves) /\ "transaction" \in Kinds
        /\ UNCHANGED <<engine, conn, hist>>
    BY <1>0, <1>6, FnReturnsTypes DEF FnReturns, TypeInv, Kinds
  <2>2. call[c].written = <<>> /\ call[c].squeue = <<>> /\ Uncommitted(c) = {}
    BY <1>0, <1>6, <2>1, IdsFacts, CarriedIds DEF Carries, Empty
  <2>3. Uncommitted(c)' = Queued /\ call'[c].pc # "emitting"
    BY <1>0, <1>6, <2>1, <2>2, TakenCarries DEF Queued
  <2>4. Queued' = {} /\ Alone(c)
    BY <1>0, <2>1, TakenMoves, IdsFacts DEF Queued, Alone
  <2> QED BY <2>1, <2>2, <2>3, <2>4, Reshuffled
<1>7. CASE Flush(c)
  <2> DEFINE written == call[c].written \o Bucketed(call[c].batch)
  <2>1. Ids(written) = Ids(call[c].written) \cup Ids(call[c].batch)
    BY <1>0, CallFields, BucketsPermute, IdsFacts
  <2>2. Moves(c, [call[c] EXCEPT !.written = written, !.pc = "committing"])
    BY <1>0, <1>7, FlushTypes
  <2> HIDE DEF written
  <2>3. call[c].pc = "flushing" /\ queue' = queue /\ conn' = conn /\ hist' = hist
    BY <1>7 DEF Flush
  <2>4. /\ call'[c].pc = "committing" /\ call'[c].batch = call[c].batch /\ call'[c].written = written
        /\ call'[c].squeue = call[c].squeue /\ Alone(c) /\ Queued' = Queued
    BY <1>0, <2>2, <2>3 DEF Moves, CallStates, Alone, Queued
  <2>5. Uncommitted(c)' = Uncommitted(c)
    BY <2>1, <2>4 DEF Uncommitted
  <2> QED BY <2>3, <2>4, <2>5, Reshuffled
<1>8. CASE CommitTransaction(c)
  <2> DEFINE s == call[c].written
  <2>1. s \in Seq(Saves) /\ Commit(s) /\ call[c].pc = "committing" /\ queue' = queue /\ conn' = conn
    BY <1>0, <1>8, CallFields DEF CommitTransaction
  <2>2. Ids(s) = Uncommitted(c)
    BY <1>0, <2>1, CarriedIds
  <2> HIDE DEF s
  <2>3. Moves(c, [NewCall EXCEPT !.pc = "resolved"])
    BY <1>0, <1>8, CommitTransactionTypes
  <2>4. Uncommitted(c)' = {} /\ call'[c].pc # "emitting" /\ Alone(c)
    BY <2>3, EndedCarries DEF Moves, Alone
  <2>5. /\ hist'.n = hist.n /\ hist'.landed = hist.landed \cup Uncommitted(c) /\ hist'.dropped = hist.dropped
        /\ hist'.forgone = hist.forgone /\ hist.exempt \subseteq hist'.exempt
    BY <1>0, <2>1, <2>2, CommitTypes
  <2> QED BY <2>1, <2>4, <2>5, CallEnds
<1> QED BY <1>1, <1>2, <1>3, <1>4, <1>5, <1>6, <1>7, <1>8

LEMMA FailureBooks ==
  ASSUME BooksInv, CallInv', NEW c \in Calls,
         FnThrows(c) \/ Undone(c) \/ Reject(c) \/ Retry(c) \/ LoseAnswer(c)
  PROVE  BooksInv'
<1>0. CallInv /\ TypeInv /\ Carries(c) /\ OfKind(c) /\ call[c] \in CallStates
  BY CallFields DEF BooksInv, CallInv
<1>1. ASSUME Moves(c, [call[c] EXCEPT !.pc = "undoing"]), UNCHANGED <<queue, conn, hist>>, call[c].pc # "emitting"
      PROVE  BooksInv'
  <2>1. Uncommitted(c)' = Uncommitted(c) /\ call'[c].pc # "emitting" /\ Alone(c) /\ Queued' = Queued
    BY <1>0, <1>1 DEF Moves, CallStates, Uncommitted, Alone, Queued
  <2> QED BY <1>1, <2>1, Reshuffled
<1>2. CASE FnThrows(c)
  <2>1. CASE Sql
    BY <1>0, <1>1, <1>2, <2>1, FnThrowsTypes DEF FnThrows
  <2>2. CASE ~Sql
    BY <1>0, <1>2, <2>2, FnThrowsTypes, DiscardBooks DEF FnThrows
  <2> QED BY <2>1, <2>2
<1>3. CASE Undone(c)
  BY <1>3, DiscardBooks DEF Undone
<1>4. CASE Reject(c)
  <2>1. UNCHANGED <<queue, conn>> /\ Failing(c)
    BY <1>4 DEF Reject
  <2>2. CASE call[c].kind = "transaction"
    BY <1>0, <1>1, <1>4, <2>1, <2>2, RejectTypes DEF Failing
  <2>3. CASE call[c].kind # "transaction"
    <3>1. /\ Moves(c, [NewCall EXCEPT !.pc = "rejected"])
          /\ hist' = [hist EXCEPT !.dropped = @ \cup Ids(call[c].batch)]
      BY <1>0, <1>4, <2>3, RejectTypes
    <3>2. call[c].pc \in {"writing", "unanswered"} /\ Uncommitted(c) = Ids(call[c].batch)
      BY <1>0, <2>1, <2>3, CarriedIds DEF Failing, OfKind
    <3>3. /\ hist'.n = hist.n /\ hist'.landed = hist.landed /\ hist'.forgone = hist.forgone
          /\ hist'.dropped = hist.dropped \cup Uncommitted(c) /\ hist'.exempt = hist.exempt
      BY <1>0, <3>1, <3>2 DEF TypeInv
    <3>4. Uncommitted(c)' = {} /\ call'[c].pc # "emitting" /\ Alone(c)
      BY <3>1, EndedCarries DEF Moves, Alone
    <3> QED BY <2>1, <3>2, <3>3, <3>4, CallEnds
  <2> QED BY <2>2, <2>3
<1>5. CASE Retry(c)
  <2>1. UNCHANGED <<queue, conn>> /\ Failing(c)
    BY <1>5 DEF Retry
  <2>2. CASE call[c].kind = "transaction"
    <3>1. /\ Moves(c, [NewCall EXCEPT !.kind = "transaction", !.pc = "connecting",
                             !.prev = call[c].prev, !.attempt = call[c].attempt + 1])
          /\ hist' = [hist EXCEPT !.forgone = @ \cup Uncommitted(c), !.exempt = @ \cup Events(c)]
      BY <1>0, <1>5, <2>2, RetryTypes
    <3>2. /\ call'[c].pc = "connecting" /\ call'[c].batch = <<>> /\ call'[c].written = <<>>
          /\ call'[c].squeue = <<>> /\ Alone(c)
      BY <3>1 DEF Moves, NewCall, Alone
    <3>3. Uncommitted(c)' = {}
      BY <3>2, IdsFacts DEF Uncommitted
    <3>4. /\ hist'.n = hist.n /\ hist'.landed = hist.landed /\ hist'.dropped = hist.dropped
          /\ hist'.forgone = hist.forgone \cup Uncommitted(c) /\ hist.exempt \subseteq hist'.exempt
      BY <1>0, <3>1 DEF TypeInv
    <3> QED BY <2>1, <3>2, <3>3, <3>4, CallEnds DEF Failing
  <2>3. CASE call[c].kind # "transaction"
    <3>1. Moves(c, [call[c] EXCEPT !.attempt = call[c].attempt + 1, !.pc = "writing"]) /\ hist' = hist
      BY <1>0, <1>5, <2>3, RetryTypes
    <3>2. Uncommitted(c)' = Uncommitted(c) /\ call'[c].pc # "emitting" /\ Alone(c) /\ Queued' = Queued
      BY <1>0, <2>1, <3>1 DEF Moves, CallStates, Uncommitted, Alone, Queued
    <3> QED BY <2>1, <3>1, <3>2, Reshuffled DEF Failing
  <2> QED BY <2>2, <2>3
<1>6. CASE LoseAnswer(c)
  <2>1. /\ Moves(c, [call[c] EXCEPT !.pc = "unanswered"]) /\ UNCHANGED <<queue, conn>>
        /\ hist' = [hist EXCEPT !.landed = @ \cup Ids(call[c].written) \cup Ids(call[c].batch),
                                !.exempt = @ \cup {"unanswered"}]
    BY <1>0, <1>6, LoseAnswerTypes DEF LoseAnswer
  <2>2. Uncommitted(c)' = Uncommitted(c) /\ call'[c].pc = "unanswered" /\ Alone(c) /\ Queued' = Queued
    BY <1>0, <2>1 DEF Moves, CallStates, Uncommitted, Alone, Queued
  <2>3. /\ hist'.n = hist.n /\ hist.landed \subseteq hist'.landed
        /\ hist'.landed \subseteq hist.landed \cup Uncommitted(c) /\ hist'.dropped = hist.dropped
        /\ hist'.forgone = hist.forgone /\ hist.exempt \subseteq hist'.exempt /\ "unanswered" \in hist'.exempt
    BY <1>0, <2>1 DEF TypeInv, Uncommitted
  <2>4. New = {}
    BY <1>0, <2>3, NoNew
  <2>5. Balanced(c)
    BY <2>1, <2>2, <2>3, <2>4 DEF Balanced, BooksInv, Ledger
  <2>6. Separated(c)
    BY <2>3 DEF Separated
  <2> QED BY <2>5, <2>6, BooksStep
<1> QED BY <1>2, <1>3, <1>4, <1>5, <1>6

LEMMA NextBooks == BooksInv /\ [Next]_vars => BooksInv'
<1> SUFFICES ASSUME BooksInv, [Next]_vars PROVE BooksInv'
  OBVIOUS
<1>0. CallInv'
  BY NextCallInv DEF BooksInv
<1>1. CASE Save
  BY <1>0, <1>1, SaveBooks
<1>2. ASSUME NEW c \in Calls,
             \/ StartPersist(c) \/ StartTransaction(c) \/ PatchNative(c) \/ PatchRead(c)
             \/ ScopedSave(c) \/ ScopedPersist(c) \/ Ends(c)
      PROVE  BooksInv'
  BY <1>0, <1>2, PersistBooks, PatchBooks, TransactionBooks, FailureBooks DEF Ends
<1>3. CASE UNCHANGED vars
  BY <1>0, <1>3 DEF vars, BooksInv, Ledger, Apart, Held, Uncommitted, Queued
<1> QED BY <1>1, <1>2, <1>3 DEF Next

(* Only a call in flight carries writes. *)
LEMMA OnlyRunningCarry ==
  ASSUME CallInv
  PROVE  UNION {Uncommitted(c) : c \in Calls} = UNION {Uncommitted(c) : c \in Running}
<1>1. \A c \in Calls : c \notin Running => Uncommitted(c) = {}
  BY IdsFacts DEF Running, CallInv, Carries, Empty, Uncommitted
<1>2. Running \subseteq Calls
  BY DEF Running
<1> QED BY <1>1, <1>2

(* Every state of the system has its calls in shape and its writes in one
   place each: the account the next two theorems read. *)
THEOREM BooksBalance == Spec => []BooksInv
<1>1. Init => BooksInv
  BY InitBooks
<1>2. BooksInv /\ [Next]_vars => BooksInv'
  BY NextBooks
<1> QED BY <1>1, <1>2, PTL DEF Spec

(* "queued writes are discarded" (RepositoryManager.ts:170): whatever calls
   overlap, throw, are rolled back or tried again, a write that a failed call
   discarded is not in the database then or later, unless the commit was done
   and only its answer was lost. *)
THEOREM DiscardedNeverStored == Spec => []DiscardedStaysOut
<1>1. BooksInv => DiscardedStaysOut
  BY DEF BooksInv, Apart, DiscardedStaysOut
<1> QED BY <1>1, BooksBalance, PTL

(* No fold, flush, rollback or retry loses a write on the way: each one ever
   saved is queued, carried by a call in flight, stored, failed with a call,
   or forgone by a transaction tried again. *)
THEOREM NoWriteLost == Spec => []NoWriteVanishes
<1>1. BooksInv => NoWriteVanishes
  BY OnlyRunningCarry DEF BooksInv, Ledger, NoWriteVanishes, Queued
<1> QED BY <1>1, BooksBalance, PTL

---------------------------------------------------------------------------
(* The row, the write baseline and the hints of the queued saves. A save that
   lists its columns is right only where the row already has the others, so
   the invariant says where the values of those others are. *)

(* No column of r is newer than the same column of s. *)
Leq(r, s) == \A c \in Columns : r[c] <= s[c]
Carried(c) == Range(call[c].batch)
(* The saves that are queued or carried, and those still to be written. *)
Living == Range(queue) \cup UNION {Carried(c) : c \in Calls}
Pending == Range(queue) \cup UNION {Carried(c) : c \in {d \in Calls : call[d].pc # "emitting"}}
Increasing(s) == \A i, j \in DOMAIN s : i < j => s[i].id < s[j].id

(* The saves are in the order they were made: each is no older, column by
   column, than those before it, and the instance is the last of them. *)
Sequenced ==
  /\ repo.inst = hist.last /\ \A c \in Columns : repo.inst[c] <= hist.n
  /\ Increasing(queue) /\ \A c \in Calls : Increasing(call[c].batch)
  /\ \A e \in Living : e.id <= hist.n /\ Leq(e.row, repo.inst) /\ (e.id = hist.n => e.row = repo.inst)
  /\ \A e, f \in Living : e.id < f.id => Leq(e.row, f.row)

(* A call with nothing of its own: no saves of a scope, no patch, no answer
   lost, and as long as its commit is not out, nothing written by it. *)
Plain(c) ==
  /\ call[c].squeue = <<>>
  /\ call[c].pc \notin {"patching", "unanswered"}
  /\ call[c].pc \notin {"committing", "undoing"} => call[c].written = <<>>
  /\ call[c].pc = "committing" => call[c].written = Bucketed(call[c].batch)
  /\ call[c].pc \in {"writing", "begin", "open", "emitting"} => call[c].batch # <<>>
  /\ call[c].pc = "open" => conn.owner = c /\ conn.db = db /\ conn.landed = hist.landed

(* A reason that is certain to come: rows written and taken back, or written
   after rows that are newer. *)
Doomed == \E t \in Calls :
  \/ call[t].pc = "undoing" /\ call[t].written # <<>>
  \/ call[t].pc = "committing" /\ \E i \in Ids(call[t].written), j \in hist.landed : i < j

(* Nothing that has been stored is as new as e. *)
Fresh(e) == \A j \in hist.landed : j < e.id
(* The transaction t has written its batch and heard its own saves; the commit
   is on its way. Its last save is what the baseline was moved to. *)
Confirming(t) == call[t].pc = "committing" /\ call[t].batch # <<>>
Awaited(t) == Last(call[t].batch)
(* The columns the hint of e leaves out are no older in row. *)
Kept(e, row) == \A c \in Columns \ e.dirty : e.row[c] <= row[c]

(* The row is never ahead of the instance, nor of a save still to come. *)
RowBehind == db # None => Leq(db, repo.inst) /\ \A e \in Pending : Fresh(e) => Leq(db, e.row)
(* What dirty columns are computed against is in the row, or in the commit
   that is on its way. *)
BaseStored ==
  \/ repo.base = None
  \/ db # None /\ Leq(repo.base, db)
  \/ \E t \in Calls : Confirming(t) /\ repo.base = Awaited(t).row
(* A call announces only what the row already has. *)
EmittedStored == \A c \in Calls : call[c].pc = "emitting" => db # None /\ Leq(Awaited(c).row, db)
(* What a pending hint leaves out is in the row, or in the commit that is on
   its way and will be there first. *)
HintsSafe == \A e \in Pending :
  \/ e.dirty = {}
  \/ db # None /\ Kept(e, db)
  \/ \E t \in Calls : Confirming(t) /\ Awaited(t).id < e.id /\ Kept(e, Awaited(t).row)
(* Once the last save is written, the row is what it saved. *)
LastStored == hist.n \in hist.landed => db = hist.last
Sound == RowBehind /\ BaseStored /\ EmittedStored /\ HintsSafe /\ LastStored

Undisturbed == Sequenced /\ (\A c \in Calls : Plain(c)) /\ (Doomed \/ Sound)

LEMMA RangeFacts ==
  /\ Range(<<>>) = {}
  /\ \A s \in Seq(Saves) :
       /\ Range(s) \subseteq Saves
       /\ \A i \in DOMAIN s : s[i] \in Range(s)
       /\ \A e \in Range(s) : \E i \in DOMAIN s : e = s[i]
       /\ \A e \in Range(s) : e.id \in Ids(s)
       /\ \A id \in Ids(s) : \E e \in Range(s) : e.id = id
<1>1. Range(<<>>) = {}
  BY DEF Range
<1>2. ASSUME NEW s \in Seq(Saves)
      PROVE  /\ Range(s) \subseteq Saves
             /\ \A i \in DOMAIN s : s[i] \in Range(s)
             /\ \A e \in Range(s) : \E i \in DOMAIN s : e = s[i]
             /\ \A e \in Range(s) : e.id \in Ids(s)
             /\ \A id \in Ids(s) : \E e \in Range(s) : e.id = id
  BY SaveFields DEF Range, Ids
<1> QED BY <1>1, <1>2

LEMMA SavesHaveFields ==
  ASSUME NEW e \in Saves
  PROVE  e.id \in Nat /\ e.dirty \in SUBSET Columns /\ e.row \in Rows /\ \A c \in Columns : e.row[c] \in Nat
BY DEF Saves, Rows

LEMMA LeqOrder ==
  /\ \A r \in Rows : Leq(r, r)
  /\ \A r, s, t \in Rows : Leq(r, s) /\ Leq(s, t) => Leq(r, t)
  /\ \A r, s \in Rows, e \in Saves : Kept(e, r) /\ Leq(r, s) => Kept(e, s)
BY SavesHaveFields DEF Leq, Rows, Kept

LEMMA LivingSaves ==
  ASSUME TypeInv
  PROVE  /\ Living \subseteq Saves /\ Pending \subseteq Living
         /\ \A e \in Range(queue) : e \in Pending
         /\ \A c \in Calls : \A e \in Carried(c) : e \in Living /\ (call[c].pc # "emitting" => e \in Pending)
         /\ \A e \in Living : e \in Range(queue) \/ \E c \in Calls : e \in Carried(c)
         /\ \A e \in Pending : e \in Range(queue) \/ \E c \in Calls : call[c].pc # "emitting" /\ e \in Carried(c)
<1>1. Range(queue) \subseteq Saves /\ \A c \in Calls : Carried(c) \subseteq Saves
  BY CallFields, RangeFacts DEF TypeInv, Carried
<1> QED BY <1>1 DEF Living, Pending

(* The last save of a batch has the largest number. *)
LEMMA LastIsNewest ==
  ASSUME NEW s \in Seq(Saves), s # <<>>, Increasing(s)
  PROVE  /\ Last(s) \in Range(s) /\ Last(s) \in Saves /\ Last(s).id \in Ids(s)
         /\ \A e \in Range(s) : e = Last(s) \/ e.id < Last(s).id
         /\ \A i \in Ids(s) : i <= Last(s).id
<1>1. Len(s) \in DOMAIN s /\ DOMAIN s = 1..Len(s) /\ Len(s) \in Nat /\ Last(s) = s[Len(s)]
  BY LenProperties, EmptySeq DEF Last
<1>2. Last(s) \in Range(s) /\ Last(s) \in Saves /\ Last(s).id \in Ids(s)
  BY <1>1, RangeFacts
<1>3. ASSUME NEW e \in Range(s)
      PROVE  e = Last(s) \/ e.id < Last(s).id
  <2>1. PICK i \in DOMAIN s : e = s[i]
    BY RangeFacts
  <2>2. i = Len(s) \/ i < Len(s)
    BY <1>1
  <2> QED BY <1>1, <2>1, <2>2 DEF Increasing
<1>4. ASSUME NEW i \in Ids(s)
      PROVE  i <= Last(s).id
  <2>1. PICK e \in Range(s) : e.id = i
    BY RangeFacts
  <2>2. i \in Nat /\ Last(s).id \in Nat
    BY <1>2, <2>1, RangeFacts, SavesHaveFields
  <2> QED BY <1>3, <2>1, <2>2
<1> QED BY <1>2, <1>3, <1>4

(* A batch whose saves follow each other, whose hints leave out only columns
   the row has, and whose buckets overtake nothing, leaves its last save. *)
LEMMA LandingRow ==
  ASSUME NEW s \in Seq(Saves), s # <<>>, Increasing(s), NEW row \in Rows \cup {None}, ~Overtaken(Bucketed(s)),
         \A e, f \in Range(s) : e.id < f.id => Leq(e.row, f.row),
         row # None => \A e \in Range(s) : Leq(row, e.row),
         Last(s).dirty = {} \/ (row # None /\ Kept(Last(s), row))
  PROVE  After(row, Bucketed(s)) = Last(s).row
<1> DEFINE b == Bucketed(s)
           new == Last(s)
<1>1. b \in Seq(Saves) /\ DOMAIN b = DOMAIN s /\ DOMAIN b = 1..Len(b) /\ Len(b) \in Nat /\ b # <<>>
  BY BucketsPermute, LenProperties, EmptySeq
<1>2. new \in Range(s) /\ new \in Saves /\ \A e \in Range(s) : e = new \/ e.id < new.id
  BY LastIsNewest
<1>3. PICK m \in DOMAIN b : b[m] = new
  <2>1. PICK i \in DOMAIN s : s[i] = new
    BY <1>2, RangeFacts
  <2>2. PICK k \in DOMAIN s : Bucketed(s)[k] = s[i]
    BY BucketsPermute
  <2> QED BY <1>1, <2>1, <2>2
<1>4. ASSUME NEW i \in DOMAIN b
      PROVE  b[i] \in Range(s) /\ b[i] \in Saves /\ (b[i] = new \/ b[i].id < new.id)
  <2>0. i \in DOMAIN s BY <1>1
  <2>1. PICK j \in DOMAIN s : b[i] = s[j]
    BY <2>0, BucketsPermute
  <2> QED BY <1>1, <1>2, <2>1, RangeFacts
<1>5. \A i, j \in DOMAIN b : i < j /\ b[j].id < b[i].id => \A c \in Sets(b[j]) : b[j].row[c] = b[i].row[c]
  BY DEF Overtaken
<1> HIDE DEF b, new
<1>6. ASSUME NEW c \in Columns
      PROVE  After(row, b)[c] = new.row[c]
  <2> DEFINE W == {i \in DOMAIN b : c \in Sets(b[i]) \/ (row = None /\ i = 1)}
  <2>1. \/ W = {} /\ row # None /\ After(row, b)[c] = row[c]
        \/ \E i \in W : (\A j \in W : j <= i) /\ After(row, b)[c] = b[i].row[c]
    <3>1. ASSUME NEW X, X = W
          PROVE  \/ X = {} /\ row # None /\ After(row, b)[c] = row[c]
                 \/ \E i \in X : (\A j \in X : j <= i) /\ After(row, b)[c] = b[i].row[c]
      <4>1. X = {i \in DOMAIN b : c \in Sets(b[i]) \/ (row = None /\ i = 1)}
        BY <3>1
      <4>2. b \in Seq(Saves) /\ b # <<>>
        BY <1>1
      <4> HIDE DEF W
      <4> QED BY <4>1, <4>2, AfterColumn
    <3> QED BY <3>1
  <2>2. new.row[c] \in Nat /\ (row # None => row[c] \in Nat)
    BY <1>2, SavesHaveFields DEF Rows
  <2>3. ASSUME c \notin Sets(new)
        PROVE  row # None /\ new.row[c] = row[c] /\ \A e \in Range(s) : e.row[c] \in Nat => row[c] <= e.row[c]
    <3>1. new.dirty # {} /\ c \notin new.dirty
      BY <2>3 DEF Sets
    <3>2. row # None /\ new.row[c] <= row[c]
      BY <3>1 DEF Kept, new
    <3>3. row[c] <= new.row[c] /\ \A e \in Range(s) : row[c] <= e.row[c]
      BY <1>2, <3>2 DEF Leq
    <3> QED BY <2>2, <3>2, <3>3
  <2>4. CASE W = {}
    BY <1>3, <2>1, <2>3, <2>4
  <2>5. ASSUME NEW i \in W, \A j \in W : j <= i, After(row, b)[c] = b[i].row[c]
        PROVE  After(row, b)[c] = new.row[c]
    <3>1. i \in DOMAIN b /\ b[i].row[c] \in Nat /\ (b[i] # new => b[i].id < new.id /\ b[i].row[c] <= new.row[c])
      <4>1. i \in DOMAIN b /\ b[i] \in Saves /\ b[i] \in Range(s)
        BY <1>4
      <4>2. b[i] # new => b[i].id < new.id /\ Leq(b[i].row, new.row)
        BY <1>2, <1>4
      <4> QED BY <4>1, <4>2, SavesHaveFields DEF Leq
    <3>2. CASE i < m
      <4>1. m \notin W
        BY <1>1, <2>5, <3>2
      <4>2. c \notin Sets(new)
        BY <1>3, <4>1
      <4>3. row[c] <= b[i].row[c] /\ new.row[c] = row[c]
        BY <1>4, <2>3, <3>1, <4>2
      <4>4. b[i] = new \/ b[i].row[c] <= new.row[c]
        BY <3>1
      <4> QED BY <2>2, <2>3, <2>5, <3>1, <4>2, <4>3, <4>4
    <3>3. CASE i = m
      BY <1>3, <2>5, <3>3
    <3>4. CASE m < i
      <4>1. CASE b[i] = new
        BY <2>5, <4>1
      <4>2. CASE b[i] # new
        <5>1. i # 1 /\ c \in Sets(b[i])
          BY <1>1, <3>1, <3>4
        <5> QED BY <1>3, <1>5, <2>5, <3>1, <3>4, <4>2, <5>1
      <4> QED BY <4>1, <4>2
    <3>5. i \in Nat /\ m \in Nat
      BY <1>1, <3>1
    <3> QED BY <3>2, <3>3, <3>4, <3>5
  <2> QED BY <2>1, <2>4, <2>5
<1>7. After(row, b) \in Rows /\ new.row \in Rows
  BY <1>1, <1>2, AfterType, SavesHaveFields
<1>8. After(row, b) = new.row
  BY <1>6, <1>7 DEF Rows
<1> QED BY <1>8 DEF b, new

---------------------------------------------------------------------------
(* What a step does to that picture. A call is handed over when nothing is
   written and no save changes; it lands when its batch is stored. *)

(* Call c takes, gives up or fails with saves; none is written. *)
Handed(c) ==
  /\ Alone(c) /\ engine' = engine /\ db' = db /\ repo'.inst = repo.inst
  /\ hist'.n = hist.n /\ hist'.last = hist.last /\ hist'.landed = hist.landed
  /\ conn' = conn \/ conn.owner \in {None, c}
  /\ queue' \in {queue, <<>>} /\ call'[c].batch \in {call[c].batch, queue, <<>>}
  /\ call[c].pc = "emitting" => call'[c].batch = <<>>
  /\ call'[c].pc # "emitting"
  /\ \/ call[c].pc \in {"committing", "undoing"} => call[c].written = <<>>
     \/ call'[c].pc = "undoing" /\ call'[c].written # <<>>
  /\ \/ repo'.base = repo.base
     \/ call[c].pc = "emitting" /\ repo'.base = Awaited(c).row
     \/ Confirming(c)' /\ repo'.base = Awaited(c)'.row
  /\ Plain(c)'

(* The saves of call c are written. *)
Lands(c) ==
  LET batch == call[c].batch IN
  /\ Alone(c) /\ engine' = engine /\ repo' = repo /\ queue' = queue
  /\ hist'.n = hist.n /\ hist'.last = hist.last /\ hist'.landed = hist.landed \cup Ids(batch)
  /\ batch # <<>> /\ ~Overtaken(Bucketed(batch)) /\ db' = After(db, Bucketed(batch))
  /\ \A i \in Ids(batch), j \in hist.landed : ~(i < j)
  /\ Ids(batch) \cap hist.landed = {}
  /\ Sql \/ conn.owner = c
  /\ call[c].pc \in {"writing", "open", "committing"}
  /\ \/ call'[c].pc = "emitting" /\ call'[c].batch = batch
     \/ call'[c].pc = "resolved" /\ call'[c].batch = <<>>
  /\ Plain(c)'

(* What the other calls hold, they hold still. *)
LEMMA OthersPlain ==
  ASSUME CallInv, \A d \in Calls : Plain(d), NEW c \in Calls, Alone(c), engine' = engine, Plain(c)',
         \/ db' = db /\ hist'.landed = hist.landed /\ (conn' = conn \/ conn.owner \in {None, c})
         \/ Sql
         \/ conn.owner = c
  PROVE  \A d \in Calls : Plain(d)'
<1> SUFFICES ASSUME NEW d \in Calls, d # c PROVE Plain(d)'
  OBVIOUS
<1>1. call'[d] = call[d] /\ Plain(d) /\ OfKind(d) /\ d # None
  BY NoneIsNothingElse DEF Alone, CallInv
<1>2. call[d].pc = "open" => ~Sql /\ conn.owner = d
  BY <1>1 DEF Plain, OfKind
<1>3. Sql' <=> Sql
  BY DEF Sql
<1>4. Bucketed(call[d].batch)' = Bucketed(call[d].batch)
  BY <1>1, <1>3 DEF Bucketed
<1>5. call'[d].pc = "open" => conn'.owner = d /\ conn'.db = db' /\ conn'.landed = hist'.landed
  BY <1>1, <1>2 DEF Plain
<1> QED BY <1>1, <1>4, <1>5 DEF Plain

(* A transaction that cannot commit as it should cannot get well. *)
LEMMA StaysDoomed ==
  ASSUME NEW c \in Calls, Alone(c), hist.landed \subseteq hist'.landed,
         \E t \in Calls \ {c} : \/ call[t].pc = "undoing" /\ call[t].written # <<>>
                                \/ call[t].pc = "committing" /\ \E i \in Ids(call[t].written), j \in hist.landed : i < j
  PROVE  Doomed'
BY DEF Alone, Doomed

LEMMA HandedKeeps ==
  ASSUME CallInv, CallInv', Undisturbed, NEW c \in Calls, Handed(c)
  PROVE  Undisturbed'
<1>0. TypeInv /\ TypeInv' /\ Alone(c) /\ call[c].batch \in Seq(Saves) /\ queue \in Seq(Saves)
  BY CallFields DEF CallInv, TypeInv, Handed
<1>1. \A d \in Calls : Plain(d)'
  BY OthersPlain DEF Undisturbed, Handed
<1>2. /\ Range(queue') \subseteq Range(queue)
      /\ Carried(c)' \subseteq Carried(c) \cup Range(queue)
      /\ \A d \in Calls \ {c} : Carried(d)' = Carried(d) /\ call'[d] = call[d]
  BY <1>0, RangeFacts DEF Handed, Carried, Alone
<1>3. Living' \subseteq Living
  <2> SUFFICES ASSUME NEW e \in Living' PROVE e \in Living
    OBVIOUS
  <2>1. e \in Range(queue') \/ \E d \in Calls : e \in Carried(d)'
    BY DEF Living
  <2> QED BY <1>0, <1>2, <2>1, LivingSaves
<1>4. Pending' \subseteq Pending
  <2>1. call[c].pc = "emitting" => Carried(c)' = {}
    BY RangeFacts DEF Handed, Carried
  <2> SUFFICES ASSUME NEW e \in Pending' PROVE e \in Pending
    OBVIOUS
  <2>2. e \in Range(queue') \/ \E d \in Calls : call'[d].pc # "emitting" /\ e \in Carried(d)'
    BY DEF Pending
  <2> QED BY <1>0, <1>2, <2>1, <2>2, LivingSaves
<1>5. Sequenced'
  <2>1. Increasing(queue)' /\ \A d \in Calls : Increasing(call[d].batch)'
    <3>1. Increasing(<<>>)
      BY DEF Increasing
    <3>2. Increasing(queue') /\ Increasing(call'[c].batch)
      BY <3>1 DEF Handed, Undisturbed, Sequenced
    <3>3. \A d \in Calls \ {c} : Increasing(call'[d].batch)
      BY <1>2 DEF Undisturbed, Sequenced
    <3> QED BY <3>2, <3>3 DEF Increasing
  <2> QED BY <1>3, <2>1 DEF Handed, Undisturbed, Sequenced, Leq
<1> DEFINE dooms == call'[c].pc = "undoing" /\ call'[c].written # <<>>
<1>6. ASSUME Doomed \/ dooms
      PROVE  Doomed'
  <2>1. CASE dooms
    BY <2>1 DEF Doomed
  <2>2. CASE ~dooms
    <3>1. ~(call[c].pc = "committing" /\ \E i \in Ids(call[c].written), j \in hist.landed : i < j)
      BY <2>2, IdsFacts DEF Handed
    <3>2. ~(call[c].pc = "undoing" /\ call[c].written # <<>>)
      BY <2>2 DEF Handed
    <3> QED BY <1>6, <2>2, <3>1, <3>2, StaysDoomed DEF Doomed, Handed
  <2> QED BY <2>1, <2>2
<1>7. ASSUME Sound, ~dooms
      PROVE  Sound'
  <2>1. ~Confirming(c)
    <3>1. call[c].pc = "committing" => Bucketed(call[c].batch) = <<>>
      BY <1>7 DEF Handed, Undisturbed, Plain
    <3>2. call[c].pc = "committing" => call[c].batch = <<>>
      BY <1>0, <3>1, BucketsPermute, EmptySeq
    <3> QED BY <3>2 DEF Confirming
  <2>2. \A t \in Calls : Confirming(t) => t # c /\ Confirming(t)' /\ Awaited(t)' = Awaited(t)
    BY <1>2, <2>1 DEF Confirming, Awaited
  <2>3. RowBehind'
    BY <1>4, <1>7 DEF Handed, Sound, RowBehind, Fresh, Leq
  <2>4. BaseStored'
    <3>1. CASE repo'.base = repo.base
      <4>1. Leq(repo.base, db) => Leq(repo'.base, db')
        BY <3>1 DEF Handed, Leq
      <4> QED BY <1>7, <2>2, <3>1, <4>1 DEF Handed, Sound, BaseStored, Leq
    <3>2. CASE call[c].pc = "emitting" /\ repo'.base = Awaited(c).row
      BY <1>7, <3>2 DEF Handed, Sound, EmittedStored, BaseStored, Leq
    <3>3. CASE Confirming(c)' /\ repo'.base = Awaited(c)'.row
      BY <3>3 DEF BaseStored
    <3> QED BY <3>1, <3>2, <3>3 DEF Handed
  <2>5. EmittedStored'
    BY <1>2, <1>7 DEF Handed, Sound, EmittedStored, Awaited, Leq
  <2>6. HintsSafe'
    <3> SUFFICES ASSUME NEW e \in Pending'
        PROVE  \/ e.dirty = {}
               \/ db' # None /\ Kept(e, db')
               \/ \E t \in Calls : Confirming(t)' /\ Awaited(t)'.id < e.id /\ Kept(e, Awaited(t)'.row)
      BY DEF HintsSafe, Kept
    <3>1. e \in Pending
      BY <1>4
    <3> QED BY <1>7, <2>2, <3>1 DEF Handed, Sound, HintsSafe
  <2>7. LastStored'
    BY <1>7 DEF Handed, Sound, LastStored
  <2> QED BY <2>3, <2>4, <2>5, <2>6, <2>7 DEF Sound
<1> QED BY <1>1, <1>5, <1>6, <1>7 DEF Undisturbed

LEMMA LandsKeeps ==
  ASSUME CallInv, CallInv', Undisturbed, NEW c \in Calls, Lands(c)
  PROVE  Undisturbed'
<1> DEFINE batch == call[c].batch
           new == Last(batch)
<1>0. /\ TypeInv /\ TypeInv' /\ Alone(c) /\ batch \in Seq(Saves) /\ batch # <<>> /\ queue' = queue
      /\ hist'.landed = hist.landed \cup Ids(batch) /\ hist.landed \subseteq Nat /\ hist.n \in Nat
      /\ db \in Rows \cup {None} /\ repo.inst \in Rows /\ repo.base \in Rows \cup {None}
  BY CallFields DEF CallInv, TypeInv, Lands
<1>1. \A d \in Calls : Plain(d)'
  BY OthersPlain DEF Undisturbed, Lands
<1>2. \A d \in Calls \ {c} : Carried(d)' = Carried(d) /\ call'[d] = call[d]
  BY <1>0 DEF Alone, Carried
<1>3. Carried(c)' \subseteq Carried(c) /\ (call'[c].pc # "emitting" => Carried(c)' = {})
  BY RangeFacts DEF Lands, Carried
<1>4. Living' \subseteq Living /\ Pending' \subseteq Pending
  <2>1. call[c].pc # "emitting" /\ Range(queue') = Range(queue)
    BY <1>0 DEF Lands
  <2>2. ASSUME NEW e \in Living' PROVE e \in Living
    <3>1. e \in Range(queue') \/ \E d \in Calls : e \in Carried(d)'
      BY DEF Living
    <3> QED BY <1>0, <1>2, <1>3, <2>1, <3>1, LivingSaves
  <2>3. ASSUME NEW e \in Pending' PROVE e \in Pending
    <3>1. e \in Range(queue') \/ \E d \in Calls : call'[d].pc # "emitting" /\ e \in Carried(d)'
      BY DEF Pending
    <3> QED BY <1>0, <1>2, <1>3, <2>1, <3>1, LivingSaves
  <2> QED BY <2>2, <2>3
<1>5. Sequenced'
  <2>1. Increasing(queue)' /\ \A d \in Calls : Increasing(call[d].batch)'
    <3>1. Increasing(<<>>)
      BY DEF Increasing
    <3>2. Increasing(queue') /\ Increasing(call'[c].batch)
      BY <3>1 DEF Lands, Undisturbed, Sequenced
    <3>3. \A d \in Calls \ {c} : Increasing(call'[d].batch)
      BY <1>2 DEF Undisturbed, Sequenced
    <3> QED BY <3>2, <3>3 DEF Increasing
  <2> QED BY <1>4, <2>1 DEF Lands, Undisturbed, Sequenced, Leq
<1>6. ASSUME Doomed
      PROVE  Doomed'
  <2>1. ~(call[c].pc = "committing" /\ \E i \in Ids(call[c].written), j \in hist.landed : i < j)
    <3>1. call[c].pc = "committing" => Ids(call[c].written) = Ids(batch)
      BY <1>0, BucketedIds DEF Undisturbed, Plain
    <3> QED BY <3>1 DEF Lands
  <2>2. call[c].pc # "undoing"
    BY DEF Lands
  <2> QED BY <1>0, <1>6, <2>1, <2>2, StaysDoomed DEF Doomed
<1>7. ASSUME Sound, ~Doomed'
      PROVE  Sound'
  <2>1. /\ Increasing(batch) /\ new \in Carried(c) /\ new \in Saves /\ new.id \in Ids(batch)
        /\ \A e \in Carried(c) : e = new \/ e.id < new.id
        /\ \A i \in Ids(batch) : i <= new.id
    BY <1>0, LastIsNewest DEF Undisturbed, Sequenced, Carried
  <2>2. \A e \in Carried(c) : e \in Living /\ e \in Pending /\ e \in Saves /\ e.id \in Ids(batch)
    <3>1. call[c].pc # "emitting"
      BY DEF Lands
    <3> QED BY <1>0, <3>1, LivingSaves, RangeFacts DEF Carried
  <2>3. \A e \in Carried(c) : Fresh(e)
    <3> SUFFICES ASSUME NEW e \in Carried(c), NEW j \in hist.landed PROVE j < e.id
      BY DEF Fresh
    <3>1. e.id \in Ids(batch) /\ e.id \in Nat /\ j \in Nat
      BY <1>0, <2>2, SavesHaveFields
    <3> QED BY <3>1 DEF Lands
  <2>4. db # None => \A e \in Carried(c) : Leq(db, e.row)
    BY <1>7, <2>2, <2>3 DEF Sound, RowBehind
  <2>5. ASSUME NEW t \in Calls, Confirming(t), NEW e \in Carried(c), Awaited(t).id < e.id
        PROVE  FALSE
    <3>1. CASE t = c
      <4>1. e.id \in Nat /\ new.id \in Nat /\ e.id <= new.id /\ new.id < e.id
        BY <2>1, <2>2, <2>5, <3>1, SavesHaveFields DEF Awaited
      <4> QED BY <4>1
    <3>2. CASE t # c
      <4>1. call[t].batch \in Seq(Saves) /\ call[t].batch # <<>> /\ Increasing(call[t].batch)
            /\ call[t].pc = "committing" /\ call[t].written = Bucketed(call[t].batch)
        BY <1>0, <2>5, CallFields DEF Confirming, Undisturbed, Sequenced, Plain
      <4>2. Awaited(t).id \in Ids(call[t].written)
        BY <4>1, LastIsNewest, BucketedIds DEF Awaited
      <4>3. e.id \in hist'.landed
        BY <1>0, <2>2
      <4>4. call'[t] = call[t]
        BY <1>2, <3>2
      <4>5. Ids(call'[t].written) = Ids(call[t].written)
        BY <4>4
      <4>6. Awaited(t).id \in Ids(call'[t].written) /\ call'[t].pc = "committing"
        BY <4>1, <4>2, <4>4, <4>5
      <4> QED BY <1>7, <2>5, <4>3, <4>6 DEF Doomed, Ids
    <3> QED BY <3>1, <3>2
  <2>6. \A e \in Carried(c) : e.dirty = {} \/ (db # None /\ Kept(e, db))
    BY <1>7, <2>2, <2>5 DEF Sound, HintsSafe
  <2>7. db' = new.row
    <3>1. \A e, f \in Range(batch) : e.id < f.id => Leq(e.row, f.row)
      BY <2>2 DEF Undisturbed, Sequenced, Carried
    <3>2. db # None => \A e \in Range(batch) : Leq(db, e.row)
      BY <2>4 DEF Carried
    <3>3. new.dirty = {} \/ (db # None /\ Kept(new, db))
      BY <2>1, <2>6
    <3>4. After(db, Bucketed(batch)) = new.row
      BY <1>0, <2>1, <3>1, <3>2, <3>3, LandingRow DEF Lands
    <3> QED BY <3>4 DEF Lands
  <2>8. /\ new.row \in Rows /\ new.row # None /\ new.id \in Nat /\ new \in Living
        /\ db # None => Leq(db, new.row)
    <3>1. new.row \in Rows /\ new.id \in Nat /\ new \in Living
      BY <2>1, <2>2, SavesHaveFields
    <3>2. new.row # None
      BY <3>1, NoneIsNothingElse DEF Rows
    <3> QED BY <2>1, <2>4, <3>1, <3>2
  <2>9. \A t \in Calls \ {c} : Confirming(t) => Confirming(t)' /\ Awaited(t)' = Awaited(t)
    BY <1>2 DEF Confirming, Awaited
  <2>10. RowBehind'
    <3>1. Leq(db', repo'.inst)
      BY <2>7, <2>8 DEF Lands, Undisturbed, Sequenced
    <3>2. ASSUME NEW e \in Pending', Fresh(e)'
          PROVE  Leq(db', e.row)
      <4>1. e \in Living /\ new.id < e.id
        BY <1>0, <1>4, <2>1, <3>2, LivingSaves DEF Fresh
      <4> QED BY <2>7, <2>8, <4>1 DEF Undisturbed, Sequenced
    <3> QED BY <3>1, <3>2 DEF RowBehind, Leq, Fresh
  <2>11. BaseStored'
    <3>1. repo'.base = repo.base
      BY DEF Lands
    <3>2. CASE repo.base = None
      BY <3>1, <3>2 DEF BaseStored
    <3>3. CASE repo.base # None /\ db # None /\ Leq(repo.base, db)
      <4>1. Leq(repo.base, new.row)
        BY <1>0, <2>8, <3>3, LeqOrder
      <4> QED BY <2>7, <2>8, <3>1, <4>1 DEF BaseStored, Leq
    <3>4. ASSUME NEW t \in Calls, Confirming(t), repo.base = Awaited(t).row
          PROVE  BaseStored'
      <4>1. CASE t = c
        <5>1. repo.base = new.row /\ Leq(new.row, new.row)
          BY <2>8, <3>4, <4>1, LeqOrder DEF Awaited
        <5> QED BY <2>7, <2>8, <3>1, <5>1 DEF BaseStored, Leq
      <4>2. CASE t # c
        BY <2>9, <3>1, <3>4, <4>2 DEF BaseStored
      <4> QED BY <4>1, <4>2
    <3> QED BY <1>7, <3>2, <3>3, <3>4 DEF Sound, BaseStored
  <2>12. EmittedStored'
    <3> SUFFICES ASSUME NEW d \in Calls, call'[d].pc = "emitting"
        PROVE  db' # None /\ Leq(Awaited(d)'.row, db')
      BY DEF EmittedStored, Leq
    <3>1. CASE d = c
      <4>1. call'[c].batch = batch
        BY <3>1 DEF Lands
      <4>2. Awaited(d)' = new /\ Leq(new.row, new.row)
        BY <2>8, <3>1, <4>1, LeqOrder DEF Awaited
      <4> QED BY <2>7, <2>8, <4>2
    <3>2. CASE d # c
      <4>1. Awaited(d)' = Awaited(d) /\ call[d].pc = "emitting"
        BY <1>2, <3>2 DEF Awaited
      <4>2. db # None /\ Leq(Awaited(d).row, db)
        BY <1>7, <4>1 DEF Sound, EmittedStored
      <4>3. Awaited(d).row \in Rows
        <5>1. call[d].batch \in Seq(Saves) /\ call[d].batch # <<>> /\ Increasing(call[d].batch)
          BY <1>0, <4>1, CallFields DEF Undisturbed, Sequenced, Plain
        <5> QED BY <5>1, LastIsNewest, SavesHaveFields DEF Awaited
      <4>4. Leq(Awaited(d).row, new.row)
        BY <1>0, <2>8, <4>2, <4>3, LeqOrder
      <4> QED BY <2>7, <2>8, <4>1, <4>4
    <3> QED BY <3>1, <3>2
  <2>13. HintsSafe'
    <3> SUFFICES ASSUME NEW e \in Pending'
        PROVE  \/ e.dirty = {}
               \/ db' # None /\ Kept(e, db')
               \/ \E t \in Calls : Confirming(t)' /\ Awaited(t)'.id < e.id /\ Kept(e, Awaited(t)'.row)
      BY DEF HintsSafe, Kept
    <3>1. e \in Pending /\ e \in Saves
      BY <1>0, <1>4, LivingSaves
    <3>2. CASE e.dirty = {}
      BY <3>2
    <3>3. CASE db # None /\ Kept(e, db)
      <4>1. Kept(e, new.row)
        BY <1>0, <2>8, <3>1, <3>3, LeqOrder
      <4> QED BY <2>7, <2>8, <4>1
    <3>4. ASSUME NEW t \in Calls, Confirming(t), Awaited(t).id < e.id, Kept(e, Awaited(t).row)
          PROVE  \/ db' # None /\ Kept(e, db')
                 \/ \E u \in Calls : Confirming(u)' /\ Awaited(u)'.id < e.id /\ Kept(e, Awaited(u)'.row)
      <4>1. CASE t = c
        BY <2>7, <2>8, <3>4, <4>1 DEF Awaited
      <4>2. CASE t # c
        BY <2>9, <3>4, <4>2
      <4> QED BY <4>1, <4>2
    <3> QED BY <1>7, <3>1, <3>2, <3>3, <3>4 DEF Sound, HintsSafe
  <2>14. LastStored'
    <3> SUFFICES ASSUME hist'.n \in hist'.landed PROVE db' = hist'.last
      BY DEF LastStored
    <3>1. hist.n \in Ids(batch) \/ hist.n \in hist.landed
      BY <1>0 DEF Lands
    <3>2. new.id <= hist.n /\ (new.id = hist.n => new.row = repo.inst)
      BY <2>8 DEF Undisturbed, Sequenced
    <3>3. hist.n <= new.id
      <4>1. CASE hist.n \in Ids(batch)
        BY <2>1, <4>1
      <4>2. CASE hist.n \in hist.landed
        <5>1. ~(new.id < hist.n)
          BY <2>1, <4>2 DEF Lands
        <5> QED BY <1>0, <2>8, <5>1
      <4> QED BY <3>1, <4>1, <4>2
    <3>4. new.id = hist.n
      BY <1>0, <2>8, <3>2, <3>3
    <3> QED BY <2>7, <3>2, <3>4 DEF Lands, Undisturbed, Sequenced
  <2> QED BY <2>10, <2>11, <2>12, <2>13, <2>14 DEF Sound
<1> QED BY <1>1, <1>5, <1>6, <1>7 DEF Undisturbed

---------------------------------------------------------------------------
(* A save compares with the baseline and joins the queue. *)

LEMMA SaveKeeps ==
  ASSUME CallInv, CallInv', Undisturbed, ~Reverts, Ledger, Save
  PROVE  Undisturbed'
<1>1. PICK col \in Columns, value \in Values :
        /\ queue' = Append(queue, Entry(repo, Edited(repo, col, value)))
        /\ repo' = [repo EXCEPT !.inst = Edited(repo, col, value)]
        /\ hist' = [hist EXCEPT !.n = @ + 1, !.last = Edited(repo, col, value)]
  BY DEF Save
<1> DEFINE row == Edited(repo, col, value)
           e == Entry(repo, row)
<1>2. TypeInv /\ TypeInv' /\ hist.n \in Nat /\ repo.inst \in Rows /\ queue \in Seq(Saves) /\ value = hist.n + 1
  BY DEF CallInv, TypeInv, Values
<1>3. /\ row \in Rows /\ e \in Saves /\ e.id = hist.n + 1 /\ e.row = row
      /\ e.dirty = {} \/ (repo.base # None /\ \A c \in Columns \ e.dirty : row[c] = repo.base[c])
  <2>1. row \in Rows
    BY <1>2, EditedType
  <2>2. e \in Saves
    BY <1>2, <2>1, EntryType DEF TypeInv
  <2>3. e.id = hist.n + 1 /\ e.row = row /\ e.dirty = ComputeDirty(repo, row)
    BY DEF Entry
  <2> HIDE DEF row, e
  <2> QED BY <2>1, <2>2, <2>3 DEF ComputeDirty
<1>4. Leq(repo.inst, row) /\ \A c \in Columns : row[c] <= hist.n + 1
  <2> SUFFICES ASSUME NEW c \in Columns PROVE repo.inst[c] <= row[c] /\ row[c] <= hist.n + 1
    BY DEF Leq
  <2>1. repo.inst[c] \in Nat /\ repo.inst[c] <= hist.n
    BY <1>2 DEF Rows, Undisturbed, Sequenced
  <2>2. row[c] = IF c = col THEN hist.n + 1 ELSE repo.inst[c]
    BY <1>2 DEF Edited, Rows
  <2> HIDE DEF row
  <2> QED BY <1>2, <2>1, <2>2
<1>5. /\ queue' = Append(queue, e) /\ repo'.inst = row /\ repo'.base = repo.base
      /\ hist'.n = hist.n + 1 /\ hist'.last = row /\ hist'.landed = hist.landed
      /\ db' = db /\ call' = call /\ conn' = conn /\ engine' = engine
  BY <1>1, <1>2 DEF CallInv, TypeInv, Save
<1> HIDE DEF row, e
<1>6. Range(queue') = Range(queue) \cup {e}
  <2>1. Append(queue, e) \in Seq(Saves) /\ DOMAIN queue = 1..Len(queue) /\ Len(queue) \in Nat
        /\ DOMAIN Append(queue, e) = 1..(Len(queue) + 1)
        /\ Append(queue, e)[Len(queue) + 1] = e /\ \A i \in 1..Len(queue) : Append(queue, e)[i] = queue[i]
    BY <1>2, <1>3, AppendProperties, LenProperties
  <2>2. ASSUME NEW f \in Range(queue')
        PROVE  f \in Range(queue) \cup {e}
    <3>1. PICK i \in DOMAIN Append(queue, e) : f = Append(queue, e)[i]
      BY <1>5, <2>1, RangeFacts
    <3>2. i \in 1..Len(queue) \/ i = Len(queue) + 1
      BY <2>1
    <3> QED BY <1>2, <2>1, <3>1, <3>2, RangeFacts
  <2>3. e \in Range(queue')
    <3>1. Len(queue) + 1 \in DOMAIN Append(queue, e)
      BY <2>1
    <3>2. Append(queue, e)[Len(queue) + 1] \in Range(Append(queue, e))
      BY <2>1, <3>1, RangeFacts
    <3> QED BY <1>5, <2>1, <3>2
  <2>4. ASSUME NEW f \in Range(queue)
        PROVE  f \in Range(queue')
    <3>1. PICK i \in DOMAIN queue : f = queue[i]
      BY <1>2, RangeFacts
    <3>2. i \in DOMAIN Append(queue, e) /\ Append(queue, e)[i] = f
      BY <2>1, <3>1
    <3> QED BY <1>5, <2>1, <3>2, RangeFacts
  <2> QED BY <2>2, <2>3, <2>4
<1>7. \A c \in Calls : Carried(c)' = Carried(c)
  BY <1>5 DEF Carried
<1>8. Living' = Living \cup {e} /\ Pending' = Pending \cup {e}
  BY <1>5, <1>6, <1>7 DEF Living, Pending
<1>9. \A f \in Living : f \in Saves /\ f.id \in Nat /\ f.row \in Rows /\ f.id < hist.n + 1 /\ Leq(f.row, row)
  <2> SUFFICES ASSUME NEW f \in Living
      PROVE  f \in Saves /\ f.id \in Nat /\ f.row \in Rows /\ f.id < hist.n + 1 /\ Leq(f.row, row)
    OBVIOUS
  <2>1. f \in Saves /\ f.id \in Nat /\ f.row \in Rows
    BY <1>2, LivingSaves, SavesHaveFields
  <2>2. f.id <= hist.n /\ Leq(f.row, repo.inst)
    BY DEF Undisturbed, Sequenced
  <2> QED BY <1>2, <1>3, <1>4, <2>1, <2>2, LeqOrder
<1>10. Sequenced'
  <2>1. Increasing(queue)'
    <3>1. /\ DOMAIN queue = 1..Len(queue) /\ Len(queue) \in Nat
          /\ DOMAIN Append(queue, e) = 1..(Len(queue) + 1)
          /\ Append(queue, e)[Len(queue) + 1] = e /\ \A i \in 1..Len(queue) : Append(queue, e)[i] = queue[i]
      BY <1>2, <1>3, AppendProperties, LenProperties
    <3>2. \A i \in DOMAIN queue : queue[i].id < hist.n + 1
      BY <1>2, <1>9, LivingSaves, RangeFacts
    <3>3. Increasing(queue)
      BY DEF Undisturbed, Sequenced
    <3> SUFFICES ASSUME NEW i \in DOMAIN Append(queue, e), NEW j \in DOMAIN Append(queue, e), i < j
        PROVE  Append(queue, e)[i].id < Append(queue, e)[j].id
      BY <1>5 DEF Increasing
    <3>4. i \in 1..Len(queue) /\ (j \in 1..Len(queue) \/ j = Len(queue) + 1)
      BY <3>1
    <3>5. CASE j \in 1..Len(queue)
      BY <3>1, <3>3, <3>4, <3>5 DEF Increasing
    <3>6. CASE j = Len(queue) + 1
      BY <1>3, <3>1, <3>2, <3>4, <3>6
    <3> QED BY <3>4, <3>5, <3>6
  <2>2. \A c \in Calls : Increasing(call[c].batch)'
    BY <1>5 DEF Undisturbed, Sequenced, Increasing
  <2>3. ASSUME NEW f \in Living'
        PROVE  f.id <= hist'.n /\ Leq(f.row, repo'.inst) /\ (f.id = hist'.n => f.row = repo'.inst)
    <3>1. CASE f = e
      BY <1>2, <1>3, <1>5, <3>1, LeqOrder
    <3>2. CASE f \in Living
      BY <1>2, <1>5, <1>9, <3>2
    <3> QED BY <1>8, <3>1, <3>2
  <2>4. ASSUME NEW f \in Living', NEW g \in Living', f.id < g.id
        PROVE  Leq(f.row, g.row)
    <3>1. CASE f = e /\ g = e
      BY <1>3, <3>1, LeqOrder
    <3>2. CASE f \in Living /\ g = e
      BY <1>3, <1>9, <3>2
    <3>3. CASE f = e /\ g \in Living
      BY <1>2, <1>3, <1>9, <2>4, <3>3
    <3>4. CASE f \in Living /\ g \in Living
      BY <2>4, <3>4 DEF Undisturbed, Sequenced
    <3> QED BY <1>8, <3>1, <3>2, <3>3, <3>4
  <2>5. repo'.inst = hist'.last /\ \A c \in Columns : repo'.inst[c] <= hist'.n
    BY <1>4, <1>5
  <2> QED BY <2>1, <2>2, <2>3, <2>4, <2>5 DEF Sequenced, Leq
<1>11. \A c \in Calls : Plain(c)'
  <2>1. \A c \in Calls : Plain(c)
    BY DEF Undisturbed
  <2>2. (Sql' <=> Sql) /\ \A c \in Calls : Bucketed(call[c].batch)' = Bucketed(call[c].batch)
    BY <1>5 DEF Sql, Bucketed
  <2> QED BY <1>5, <2>1, <2>2 DEF Plain
<1>12. ASSUME Doomed
       PROVE  Doomed'
  BY <1>5, <1>12 DEF Doomed, Ids
<1>13. ASSUME Sound
       PROVE  Sound'
  <2>1. \A t \in Calls : (Confirming(t)' <=> Confirming(t)) /\ Awaited(t)' = Awaited(t)
    BY <1>5 DEF Confirming, Awaited
  <2>2. db # None => Leq(db, row)
    <3>1. db # None => db \in Rows /\ Leq(db, repo.inst)
      BY <1>2, <1>13 DEF Sound, RowBehind, TypeInv
    <3> QED BY <1>2, <1>3, <1>4, <3>1, LeqOrder
  <2>3. RowBehind'
    <3>1. \A f \in Pending' : Fresh(f)' => f = e \/ (f \in Pending /\ Fresh(f))
      BY <1>5, <1>8 DEF Fresh
    <3>2. db # None => \A f \in Pending' : Fresh(f)' => Leq(db, f.row)
      BY <1>3, <1>13, <2>2, <3>1 DEF Sound, RowBehind
    <3> QED BY <1>5, <2>2, <3>2 DEF RowBehind, Leq, Fresh
  <2>4. BaseStored'
    BY <1>5, <1>13, <2>1 DEF Sound, BaseStored, Leq
  <2>5. EmittedStored'
    BY <1>5, <1>13, <2>1 DEF Sound, EmittedStored, Leq
  <2>6. HintsSafe'
    <3> SUFFICES ASSUME NEW f \in Pending'
        PROVE  \/ f.dirty = {}
               \/ db # None /\ Kept(f, db)
               \/ \E t \in Calls : Confirming(t) /\ Awaited(t).id < f.id /\ Kept(f, Awaited(t).row)
      BY <1>5, <2>1 DEF HintsSafe, Kept
    <3>1. CASE f \in Pending
      BY <1>13, <3>1 DEF Sound, HintsSafe
    <3>2. CASE f = e /\ e.dirty # {}
      <4>1. repo.base # None /\ repo.base \in Rows /\ \A c \in Columns \ e.dirty : e.row[c] = repo.base[c]
        BY <1>2, <1>3, <3>2 DEF TypeInv
      <4>2. CASE db # None /\ Leq(repo.base, db)
        <5>1. Kept(e, db)
          BY <4>1, <4>2 DEF Kept, Leq
        <5> QED BY <3>2, <4>2, <5>1
      <4>3. ASSUME NEW t \in Calls, Confirming(t), repo.base = Awaited(t).row
            PROVE  Awaited(t).id < f.id /\ Kept(f, Awaited(t).row)
        <5>1. Awaited(t) \in Living
          <6>1. call[t].batch \in Seq(Saves) /\ call[t].batch # <<>> /\ Increasing(call[t].batch)
            BY <1>2, <4>3, CallFields DEF Confirming, Undisturbed, Sequenced
          <6>2. Awaited(t) \in Carried(t)
            BY <6>1, LastIsNewest DEF Awaited, Carried
          <6> QED BY <1>2, <6>2, LivingSaves
        <5>2. Awaited(t).id < f.id
          BY <1>3, <1>9, <3>2, <5>1
        <5>3. \A c \in Columns : repo.base[c] \in Nat
          BY <4>1 DEF Rows
        <5> QED BY <3>2, <4>1, <4>3, <5>2, <5>3 DEF Kept
      <4> QED BY <1>13, <4>1, <4>2, <4>3 DEF Sound, BaseStored
    <3>3. CASE f = e /\ e.dirty = {}
      BY <3>3
    <3> QED BY <1>8, <3>1, <3>2, <3>3
  <2>7. LastStored'
    <3>1. hist.n + 1 \notin hist.landed
      BY <1>2 DEF Ledger
    <3> QED BY <1>5, <3>1 DEF LastStored
  <2> QED BY <2>3, <2>4, <2>5, <2>6, <2>7 DEF Sound
<1> QED BY <1>10, <1>11, <1>12, <1>13 DEF Undisturbed

---------------------------------------------------------------------------
(* Each action but a save either hands a call over or lands its batch. *)

(* The inductive invariant of LastSaveStored. *)
LastInv == BooksInv /\ (hist.exempt = {} => Undisturbed)

(* A step that adds nothing to the reasons. *)
Quietly == BooksInv /\ CallInv' /\ Undisturbed /\ hist.exempt = {} /\ hist'.exempt = {}

LEMMA EndedPlain ==
  ASSUME NEW c \in Calls, NEW how \in {"resolved", "rejected"}, call'[c] = [NewCall EXCEPT !.pc = how]
  PROVE  Plain(c)' /\ call'[c].batch = <<>> /\ call'[c].pc = how
BY DEF Plain, NewCall

LEMMA TakenHanded ==
  ASSUME Quietly, NEW c \in Calls, NEW kind \in Kinds, Taken(c, kind, queue),
         UNCHANGED <<engine, db, repo, conn, hist>>, call[c].pc \in {"idle", "fn"}
  PROVE  Handed(c)
<1>1. TypeInv /\ queue \in Seq(Saves) /\ Plain(c) /\ call[c] \in CallStates
  BY CallFields DEF Quietly, BooksInv, CallInv, TypeInv, Undisturbed
<1>2. queue' = <<>> /\ Alone(c)
  BY <1>1, TakenMoves DEF Alone
<1>3. CASE queue = <<>>
  <2>1. call'[c] = [NewCall EXCEPT !.pc = "resolved"]
    BY <1>1, <1>3, TakenMoves
  <2> QED BY <1>2, <2>1, EndedPlain DEF Handed
<1>4. CASE queue # <<>>
  <2>0. call'[c] = Holding(c, kind, queue)
    BY <1>1, <1>4, TakenMoves
  <2>1. call'[c] = [call[c] EXCEPT !.kind = kind, !.batch = queue, !.pc = IF Sql THEN "writing" ELSE "begin"]
    BY <2>0 DEF Holding
  <2>2. /\ call'[c].pc \in {"writing", "begin"} /\ call'[c].batch = queue
        /\ call'[c].written = call[c].written /\ call'[c].squeue = call[c].squeue
    BY <1>1, <2>1 DEF CallStates
  <2>3. Plain(c)'
    BY <1>1, <1>4, <2>2 DEF Plain
  <2> QED BY <1>2, <2>2, <2>3 DEF Handed
<1> QED BY <1>3, <1>4

LEMMA StoredNow ==
  ASSUME Quietly, NEW c \in Calls, NEW b, b = Bucketed(call[c].batch), call[c].batch # <<>>, Commit(b),
         UNCHANGED <<engine, repo, queue>>, Alone(c), Sql \/ conn.owner = c,
         call[c].pc \in {"writing", "open", "committing"},
         \/ call'[c].pc = "emitting" /\ call'[c].batch = call[c].batch
         \/ call'[c].pc = "resolved" /\ call'[c].batch = <<>>,
         Plain(c)'
  PROVE  Lands(c)
<1>1. TypeInv /\ call[c].batch \in Seq(Saves) /\ b \in Seq(Saves) /\ Ids(b) = Ids(call[c].batch)
  BY CallFields, BucketsPermute, BucketedIds DEF Quietly, BooksInv, CallInv
<1>2. /\ hist'.n = hist.n /\ hist'.last = hist.last /\ hist'.landed = hist.landed \cup Ids(b)
      /\ ~Overtaken(b) /\ \A i \in Ids(b), j \in hist.landed : ~(i < j)
  BY <1>1, CommitTypes DEF Quietly
<1>3. Ids(call[c].batch) \cap hist.landed = {}
  <2>1. Held(c) \cap hist.landed = {}
    BY DEF Quietly, BooksInv, Apart
  <2> QED BY <2>1 DEF Held, Uncommitted
<1> QED BY <1>1, <1>2, <1>3 DEF Lands, Commit

LEMMA DiscardHanded ==
  ASSUME Quietly, NEW c \in Calls, Discard(c), UNCHANGED <<engine, db, repo, conn>>,
         call[c].pc \in {"fn", "undoing"}
  PROVE  Handed(c)
<1>1. TypeInv /\ Plain(c) /\ OfKind(c)
  BY DEF Quietly, BooksInv, CallInv, Undisturbed
<1>2. /\ queue' = <<>> /\ Alone(c) /\ call'[c] = [NewCall EXCEPT !.pc = "rejected"]
      /\ hist' = [hist EXCEPT !.dropped = @ \cup Ids(queue) \cup Uncommitted(c), !.exempt = @ \cup Events(c)]
  BY <1>1, DiscardTypes DEF Moves, Alone
<1>3. /\ hist'.n = hist.n /\ hist'.last = hist.last /\ hist'.landed = hist.landed
      /\ hist'.exempt = hist.exempt \cup Events(c)
  BY <1>1, <1>2 DEF TypeInv
<1>4. call[c].written = <<>>
  <2>1. Events(c) = {}
    BY <1>3 DEF Quietly
  <2>2. call[c].kind = "transaction"
    BY <1>1 DEF OfKind
  <2> QED BY <2>1, <2>2 DEF Events
<1> QED BY <1>2, <1>3, <1>4, EndedPlain DEF Handed

LEMMA PersistUndisturbed ==
  ASSUME Quietly, NEW c \in Calls,
         \/ StartPersist(c) \/ CommitBatch(c) \/ Emit(c) \/ Begin(c) \/ WriteAndCommit(c)
         \/ PatchNative(c) \/ PatchRead(c) \/ PatchWrite(c) \/ Rollback(c)
  PROVE  Handed(c) \/ Lands(c)
<1>0. /\ TypeInv /\ Carries(c) /\ OfKind(c) /\ Plain(c) /\ call[c] \in CallStates /\ queue \in Seq(Saves)
      /\ call[c].batch \in Seq(Saves)
  BY CallFields DEF Quietly, BooksInv, CallInv, TypeInv, Undisturbed
<1>1. CASE StartPersist(c)
  BY <1>1, TakenHanded DEF StartPersist, Kinds
<1>2. CASE CommitBatch(c)
  <2>1. Moves(c, [call[c] EXCEPT !.pc = "emitting"])
    BY <1>0, <1>2, CommitBatchTypes
  <2>2. /\ Alone(c) /\ call'[c].pc = "emitting" /\ call'[c].batch = call[c].batch
        /\ call'[c].written = call[c].written /\ call'[c].squeue = call[c].squeue
    BY <1>0, <2>1 DEF Moves, Alone, CallStates
  <2>3. call[c].pc = "writing" /\ call[c].batch # <<>> /\ Sql
    BY <1>0, <1>2 DEF CommitBatch, Plain, OfKind
  <2>4. Plain(c)'
    BY <1>0, <2>2, <2>3 DEF Plain
  <2> QED BY <1>2, <2>2, <2>3, <2>4, StoredNow DEF CommitBatch
<1>3. CASE WriteAndCommit(c)
  <2>1. Moves(c, [call[c] EXCEPT !.pc = "emitting"])
    BY <1>0, <1>3, WriteAndCommitTypes
  <2>2. /\ Alone(c) /\ call'[c].pc = "emitting" /\ call'[c].batch = call[c].batch
        /\ call'[c].written = call[c].written /\ call'[c].squeue = call[c].squeue
    BY <1>0, <2>1 DEF Moves, Alone, CallStates
  <2>3. call[c].pc = "open" /\ call[c].batch # <<>> /\ ~Sql /\ conn.owner = c
    BY <1>0, <1>3 DEF WriteAndCommit, Plain, OfKind
  <2>4. Plain(c)'
    BY <1>0, <2>2, <2>3 DEF Plain
  <2>5. call[c].batch = Bucketed(call[c].batch)
    BY <2>3 DEF Bucketed
  <2> QED BY <1>3, <2>2, <2>3, <2>4, <2>5, StoredNow DEF WriteAndCommit
<1>4. CASE Emit(c)
  <2>1. Moves(c, [NewCall EXCEPT !.pc = "resolved"]) /\ call[c].pc = "emitting" /\ call[c].batch # <<>>
        /\ repo' = Heard(repo, call[c].batch) /\ UNCHANGED <<engine, db, queue, conn, hist>>
    BY <1>0, <1>4, EmitTypes DEF Emit, Plain
  <2>2. repo'.inst = repo.inst /\ repo'.base = Awaited(c).row
    BY <1>0, <2>1 DEF Heard, Awaited, TypeInv
  <2> QED BY <2>1, <2>2, EndedPlain DEF Moves, Alone, Handed
<1>5. CASE Begin(c) /\ conn.owner = None
  <2>1. /\ Moves(c, [call[c] EXCEPT !.pc = "open"]) /\ call[c].pc = "begin" /\ hist' = hist
        /\ conn' = [owner |-> c, db |-> db, landed |-> hist.landed] /\ UNCHANGED <<engine, db, repo, queue>>
    BY <1>0, <1>5, BeginTypes DEF Begin
  <2>2. /\ Alone(c) /\ call'[c].pc = "open" /\ call'[c].batch = call[c].batch
        /\ call'[c].written = call[c].written /\ call'[c].squeue = call[c].squeue
    BY <1>0, <2>1 DEF Moves, Alone, CallStates
  <2>3. Plain(c)'
    BY <1>0, <2>1, <2>2 DEF Plain
  <2> QED BY <1>5, <2>1, <2>2, <2>3 DEF Handed
<1>6. CASE Begin(c) /\ conn.owner # None
  <2>1. /\ call' = Ended(c, "rejected") /\ hist' = [hist EXCEPT !.dropped = @ \cup Ids(call[c].batch)]
        /\ call[c].pc = "begin" /\ UNCHANGED <<engine, db, repo, queue, conn>>
    BY <1>6 DEF Begin
  <2>2. call'[c] = [NewCall EXCEPT !.pc = "rejected"] /\ Alone(c)
    BY <1>0, <2>1 DEF Ended, TypeInv, Alone
  <2>3. hist'.n = hist.n /\ hist'.last = hist.last /\ hist'.landed = hist.landed
    BY <1>0, <2>1 DEF TypeInv
  <2> QED BY <2>1, <2>2, <2>3, EndedPlain DEF Handed
<1>7. CASE Rollback(c)
  <2>1. /\ Moves(c, [NewCall EXCEPT !.pc = "rejected"]) /\ call[c].pc = "open"
        /\ db' = conn.db /\ UNCHANGED <<engine, repo, queue>>
        /\ hist' = [hist EXCEPT !.landed = conn.landed, !.forgone = @ \cup (hist.landed \ conn.landed),
                                !.dropped = @ \cup Ids(call[c].batch)]
    BY <1>0, <1>7, RollbackTypes DEF Rollback
  <2>2. conn.owner = c /\ conn.db = db /\ conn.landed = hist.landed
    BY <1>0, <2>1 DEF Plain
  <2>3. hist'.n = hist.n /\ hist'.last = hist.last /\ hist'.landed = hist.landed
    BY <1>0, <2>1, <2>2 DEF TypeInv
  <2> QED BY <2>1, <2>2, <2>3, EndedPlain DEF Moves, Alone, Handed
<1>8. CASE PatchNative(c) \/ PatchRead(c)
  <2>1. "patch" \in hist'.exempt
    <3>1. CASE PatchNative(c)
      <4>1. hist' = [hist EXCEPT !.n = @ + 1, !.landed = @ \cup {hist.n + 1}, !.exempt = @ \cup {"patch"}]
        BY <3>1 DEF PatchNative
      <4> QED BY <1>0, <4>1 DEF TypeInv
    <3>2. CASE PatchRead(c)
      <4>1. hist' = [hist EXCEPT !.n = @ + 1, !.exempt = @ \cup {"patch"}]
        BY <3>2 DEF PatchRead
      <4> QED BY <1>0, <4>1 DEF TypeInv
    <3> QED BY <1>8, <3>1, <3>2
  <2> QED BY <2>1 DEF Quietly
<1>9. CASE PatchWrite(c)
  BY <1>0, <1>9 DEF PatchWrite, Plain
<1> QED BY <1>1, <1>2, <1>3, <1>4, <1>5, <1>6, <1>7, <1>8, <1>9

LEMMA TransactionUndisturbed ==
  ASSUME Quietly, NEW c \in Calls,
         \/ StartTransaction(c) \/ Connected(c) \/ ScopedSave(c) \/ ScopedPersist(c) \/ FnReturns(c) \/ Flush(c)
         \/ CommitTransaction(c)
  PROVE  Handed(c) \/ Lands(c)
<1>0. /\ TypeInv /\ Carries(c) /\ OfKind(c) /\ Plain(c) /\ call[c] \in CallStates /\ queue \in Seq(Saves)
      /\ call[c].batch \in Seq(Saves)
  BY CallFields DEF Quietly, BooksInv, CallInv, TypeInv, Undisturbed
<1>1. CASE StartTransaction(c)
  <2>1. /\ Moves(c, [call[c] EXCEPT !.kind = "transaction", !.prev = mode, !.pc = IF Sql THEN "connecting" ELSE "fn"])
        /\ call[c].pc = "idle" /\ UNCHANGED <<engine, db, repo, queue, conn>>
    BY <1>0, <1>1, StartTransactionTypes DEF StartTransaction
  <2>2. /\ Alone(c) /\ call'[c].pc \in {"connecting", "fn"} /\ call'[c].batch = call[c].batch
        /\ call'[c].written = call[c].written /\ call'[c].squeue = call[c].squeue
    BY <1>0, <2>1 DEF Moves, Alone, CallStates
  <2>3. Plain(c)'
    BY <1>0, <2>1, <2>2 DEF Plain
  <2>4. hist'.n = hist.n /\ hist'.last = hist.last /\ hist'.landed = hist.landed
    BY <1>0, <1>1 DEF StartTransaction, TypeInv
  <2> QED BY <2>1, <2>2, <2>3, <2>4 DEF Handed
<1>2. CASE Connected(c)
  <2>1. /\ Moves(c, [call[c] EXCEPT !.pc = "fn", !.scope = [inst |-> IF db = None THEN Zero ELSE db, base |-> db]])
        /\ call[c].pc = "connecting" /\ UNCHANGED <<engine, db, repo, queue, conn, hist>>
    BY <1>0, <1>2, ConnectedTypes DEF Connected
  <2>2. /\ Alone(c) /\ call'[c].pc = "fn" /\ call'[c].batch = call[c].batch
        /\ call'[c].written = call[c].written /\ call'[c].squeue = call[c].squeue
    BY <1>0, <2>1 DEF Moves, Alone, CallStates
  <2>3. Plain(c)'
    BY <1>0, <2>1, <2>2 DEF Plain
  <2> QED BY <2>1, <2>2, <2>3 DEF Handed
<1>3. CASE ScopedSave(c)
  <2>1. hist' = [hist EXCEPT !.n = @ + 1, !.exempt = @ \cup {"mixed"}]
    BY <1>3 DEF ScopedSave
  <2>2. "mixed" \in hist'.exempt
    BY <1>0, <2>1 DEF TypeInv
  <2> QED BY <2>2 DEF Quietly
<1>4. CASE ScopedPersist(c)
  BY <1>0, <1>4 DEF ScopedPersist, Plain
<1>5. CASE FnReturns(c) /\ Sql
  <2>1. /\ Moves(c, [call[c] EXCEPT !.batch = Folded(c), !.squeue = <<>>, !.pc = "flushing"])
        /\ queue' = <<>> /\ call[c].pc = "fn" /\ UNCHANGED <<engine, db, repo, conn, hist>>
    BY <1>0, <1>5, FnReturnsTypes DEF FnReturns
  <2>2. Folded(c) = queue
    BY <1>0, ConcatEmptySeq DEF Folded, Plain
  <2>3. /\ Alone(c) /\ call'[c].pc = "flushing" /\ call'[c].batch = queue
        /\ call'[c].written = call[c].written /\ call'[c].squeue = <<>>
    BY <1>0, <2>1, <2>2 DEF Moves, Alone, CallStates
  <2>4. Plain(c)'
    BY <1>0, <2>1, <2>3 DEF Plain
  <2> QED BY <2>1, <2>3, <2>4 DEF Handed
<1>6. CASE FnReturns(c) /\ ~Sql
  BY <1>0, <1>6, FnReturnsTypes, TakenHanded DEF FnReturns, Kinds
<1>7. CASE Flush(c)
  <2>1. /\ Moves(c, [call[c] EXCEPT !.written = call[c].written \o Bucketed(call[c].batch), !.pc = "committing"])
        /\ call[c].pc = "flushing" /\ UNCHANGED <<engine, db, queue, conn, hist>> /\ repo' = Heard(repo, call[c].batch)
    BY <1>0, <1>7, FlushTypes DEF Flush
  <2>2. call[c].written \o Bucketed(call[c].batch) = Bucketed(call[c].batch)
    <3>1. call[c].written = <<>> /\ Bucketed(call[c].batch) \in Seq(Saves)
      BY <1>0, <2>1, BucketsPermute DEF Plain
    <3>2. \A s \in Seq(Saves) : <<>> \o s = s
      OBVIOUS
    <3> QED BY <3>1, <3>2
  <2>3. /\ Alone(c) /\ call'[c].pc = "committing" /\ call'[c].batch = call[c].batch
        /\ call'[c].written = Bucketed(call[c].batch) /\ call'[c].squeue = call[c].squeue
    BY <1>0, <2>1, <2>2 DEF Moves, Alone, CallStates
  <2>4. Bucketed(call[c].batch)' = Bucketed(call[c].batch)
    BY <2>1, <2>3 DEF Bucketed, Sql
  <2>5. Plain(c)'
    BY <1>0, <2>3, <2>4 DEF Plain
  <2>6. repo'.inst = repo.inst /\ (repo'.base = repo.base \/ (Confirming(c)' /\ repo'.base = Awaited(c)'.row))
    BY <1>0, <2>1, <2>3 DEF Heard, Awaited, Confirming, TypeInv
  <2> QED BY <2>1, <2>3, <2>5, <2>6 DEF Handed
<1>8. CASE CommitTransaction(c)
  <2>1. /\ Moves(c, [NewCall EXCEPT !.pc = "resolved"]) /\ call[c].pc = "committing"
        /\ Commit(call[c].written) /\ UNCHANGED <<engine, repo, queue, conn>>
    BY <1>0, <1>8, CommitTransactionTypes DEF CommitTransaction
  <2>2. Alone(c) /\ call'[c].pc = "resolved" /\ call'[c].batch = <<>> /\ Plain(c)'
    BY <2>1, EndedPlain DEF Moves, Alone
  <2>3. call[c].written = Bucketed(call[c].batch) /\ Sql
    BY <1>0, <2>1 DEF Plain, OfKind
  <2>4. CASE call[c].batch = <<>>
    <3>1. call[c].written = <<>>
      BY <1>0, <2>3, <2>4, BucketsPermute, EmptySeq
    <3>2. db' = db /\ hist'.n = hist.n /\ hist'.last = hist.last /\ hist'.landed = hist.landed
      <4>1. <<>> \in Seq(Saves) /\ Commit(<<>>)
        BY <2>1, <3>1, EmptySeq
      <4>2. hist'.n = hist.n /\ hist'.last = hist.last /\ hist'.landed = hist.landed \cup Ids(<<>>)
        BY <1>0, <4>1, CommitTypes
      <4> QED BY <4>1, <4>2, IdsFacts DEF Commit, After
    <3> QED BY <2>1, <2>2, <3>1, <3>2 DEF Handed
  <2>5. CASE call[c].batch # <<>>
    BY <2>1, <2>2, <2>3, <2>5, StoredNow
  <2> QED BY <2>4, <2>5
<1> QED BY <1>1, <1>2, <1>3, <1>4, <1>5, <1>6, <1>7, <1>8

LEMMA FailureUndisturbed ==
  ASSUME Quietly, NEW c \in Calls,
         FnThrows(c) \/ Undone(c) \/ Reject(c) \/ Retry(c) \/ LoseAnswer(c)
  PROVE  Handed(c)
<1>0. TypeInv /\ Carries(c) /\ OfKind(c) /\ Plain(c) /\ call[c] \in CallStates
  BY CallFields DEF Quietly, BooksInv, CallInv, Undisturbed
<1>1. ASSUME Moves(c, [call[c] EXCEPT !.pc = "undoing"]), UNCHANGED <<engine, db, repo, queue, conn, hist>>,
             call[c].pc \in {"fn", "connecting", "flushing", "committing"}
      PROVE  Handed(c)
  <2>1. /\ Alone(c) /\ call'[c].pc = "undoing" /\ call'[c].batch = call[c].batch
        /\ call'[c].written = call[c].written /\ call'[c].squeue = call[c].squeue
    BY <1>0, <1>1 DEF Moves, Alone, CallStates
  <2>2. Plain(c)'
    BY <1>0, <1>1, <2>1 DEF Plain
  <2> QED BY <1>1, <2>1, <2>2 DEF Handed
<1>2. CASE FnThrows(c)
  <2>1. CASE Sql
    BY <1>0, <1>1, <1>2, <2>1, FnThrowsTypes DEF FnThrows
  <2>2. CASE ~Sql
    BY <1>0, <1>2, <2>2, FnThrowsTypes, DiscardHanded DEF FnThrows
  <2> QED BY <2>1, <2>2
<1>3. CASE Undone(c)
  BY <1>3, DiscardHanded DEF Undone
<1>4. CASE Reject(c)
  <2>1. UNCHANGED <<engine, db, repo, queue, conn>> /\ Failing(c)
    BY <1>4 DEF Reject
  <2>2. CASE call[c].kind = "transaction"
    <3>1. call[c].pc \in {"connecting", "flushing", "committing"}
      BY <1>0, <2>1, <2>2 DEF Failing, OfKind, Plain
    <3> QED BY <1>0, <1>1, <1>4, <2>1, <2>2, <3>1, RejectTypes
  <2>3. CASE call[c].kind # "transaction"
    <3>1. /\ Moves(c, [NewCall EXCEPT !.pc = "rejected"])
          /\ hist' = [hist EXCEPT !.dropped = @ \cup Ids(call[c].batch)]
      BY <1>0, <1>4, <2>3, RejectTypes
    <3>2. call[c].pc = "writing"
      BY <1>0, <2>1, <2>3 DEF Failing, OfKind, Plain
    <3>3. hist'.n = hist.n /\ hist'.last = hist.last /\ hist'.landed = hist.landed
      BY <1>0, <3>1 DEF TypeInv
    <3> QED BY <2>1, <3>1, <3>2, <3>3, EndedPlain DEF Moves, Alone, Handed
  <2> QED BY <2>2, <2>3
<1>5. CASE Retry(c)
  <2>1. UNCHANGED <<engine, db, repo, queue, conn>> /\ Failing(c)
    BY <1>5 DEF Retry
  <2>2. CASE call[c].kind = "transaction"
    <3>1. /\ Moves(c, [NewCall EXCEPT !.kind = "transaction", !.pc = "connecting",
                             !.prev = call[c].prev, !.attempt = call[c].attempt + 1])
          /\ hist' = [hist EXCEPT !.forgone = @ \cup Uncommitted(c), !.exempt = @ \cup Events(c)]
      BY <1>0, <1>5, <2>2, RetryTypes
    <3>2. /\ hist'.n = hist.n /\ hist'.last = hist.last /\ hist'.landed = hist.landed
          /\ hist'.exempt = hist.exempt \cup Events(c)
      BY <1>0, <3>1 DEF TypeInv
    <3>3. call[c].written = <<>>
      BY <2>2, <3>2 DEF Quietly, Events
    <3>4. /\ call'[c].pc = "connecting" /\ call'[c].batch = <<>> /\ call'[c].written = <<>>
          /\ call'[c].squeue = <<>> /\ Alone(c)
      BY <3>1 DEF Moves, NewCall, Alone
    <3>5. Plain(c)'
      BY <3>4 DEF Plain
    <3> QED BY <2>1, <3>2, <3>3, <3>4, <3>5 DEF Handed, Failing
  <2>3. CASE call[c].kind # "transaction"
    <3>1. Moves(c, [call[c] EXCEPT !.attempt = call[c].attempt + 1, !.pc = "writing"]) /\ hist' = hist
      BY <1>0, <1>5, <2>3, RetryTypes
    <3>2. call[c].pc = "writing"
      BY <1>0, <2>1, <2>3 DEF Failing, OfKind, Plain
    <3>3. /\ Alone(c) /\ call'[c].pc = "writing" /\ call'[c].batch = call[c].batch
          /\ call'[c].written = call[c].written /\ call'[c].squeue = call[c].squeue
      BY <1>0, <3>1 DEF Moves, Alone, CallStates
    <3>4. Plain(c)'
      BY <1>0, <3>2, <3>3 DEF Plain
    <3> QED BY <2>1, <3>1, <3>2, <3>3, <3>4 DEF Handed
  <2> QED BY <2>2, <2>3
<1>6. CASE LoseAnswer(c)
  <2>1. "unanswered" \in hist'.exempt
    BY <1>0, <1>6 DEF LoseAnswer, TypeInv
  <2> QED BY <2>1 DEF Quietly
<1> QED BY <1>2, <1>3, <1>4, <1>5, <1>6

---------------------------------------------------------------------------
(* The reasons that excuse a row only accumulate, so a state without one has
   a history without one. *)

LEMMA ReasonsStay ==
  ASSUME CallInv, [Next]_vars
  PROVE  hist.exempt \subseteq hist'.exempt
<1>0. TypeInv
  BY DEF CallInv
<1>1. CASE Save
  BY <1>0, <1>1 DEF Save, TypeInv
<1>2. ASSUME NEW c \in Calls, StartPersist(c) \/ PatchWrite(c) \/ Emit(c) \/ Connected(c) \/ ScopedPersist(c)
                              \/ FnReturns(c) \/ Flush(c)
      PROVE  hist.exempt \subseteq hist'.exempt
  BY <1>2 DEF StartPersist, PatchWrite, Emit, Connected, ScopedPersist, FnReturns, Flush
<1>3. ASSUME NEW c \in Calls, CommitBatch(c) \/ WriteAndCommit(c) \/ CommitTransaction(c)
      PROVE  hist.exempt \subseteq hist'.exempt
  <2>1. PICK s \in Seq(Saves) : Commit(s)
    BY <1>0, <1>3, CallFields, BucketsPermute DEF CommitBatch, WriteAndCommit, CommitTransaction
  <2> QED BY <1>0, <2>1, CommitTypes
<1>4. ASSUME NEW c \in Calls, Begin(c) \/ Rollback(c)
      PROVE  hist.exempt \subseteq hist'.exempt
  <2>1. CASE Begin(c)
    <3>1. hist' \in {hist, [hist EXCEPT !.dropped = @ \cup Ids(call[c].batch)]}
      BY <2>1 DEF Begin
    <3> QED BY <1>0, <3>1 DEF TypeInv
  <2>2. CASE Rollback(c)
    BY <1>0, <2>2 DEF Rollback, TypeInv
  <2> QED BY <1>4, <2>1, <2>2
<1>5. ASSUME NEW c \in Calls, PatchNative(c) \/ PatchRead(c) \/ ScopedSave(c)
      PROVE  hist.exempt \subseteq hist'.exempt
  <2>1. CASE PatchNative(c)
    <3>1. hist' = [hist EXCEPT !.n = @ + 1, !.landed = @ \cup {hist.n + 1}, !.exempt = @ \cup {"patch"}]
      BY <2>1 DEF PatchNative
    <3> QED BY <1>0, <3>1 DEF TypeInv
  <2>2. CASE PatchRead(c)
    <3>1. hist' = [hist EXCEPT !.n = @ + 1, !.exempt = @ \cup {"patch"}]
      BY <2>2 DEF PatchRead
    <3> QED BY <1>0, <3>1 DEF TypeInv
  <2>3. CASE ScopedSave(c)
    <3>1. hist' = [hist EXCEPT !.n = @ + 1, !.exempt = @ \cup {"mixed"}]
      BY <2>3 DEF ScopedSave
    <3> QED BY <1>0, <3>1 DEF TypeInv
  <2> QED BY <1>5, <2>1, <2>2, <2>3
<1>6. ASSUME NEW c \in Calls,
             StartTransaction(c) \/ FnThrows(c) \/ Undone(c) \/ Reject(c) \/ Retry(c) \/ LoseAnswer(c)
      PROVE  hist.exempt \subseteq hist'.exempt
  <2>1. Discard(c) => hist.exempt \subseteq hist'.exempt
    BY <1>0 DEF Discard, TypeInv
  <2>2. ASSUME StartTransaction(c)
        PROVE  hist.exempt \subseteq hist'.exempt
    BY <1>0, <2>2 DEF StartTransaction, TypeInv
  <2>3. ASSUME Reject(c)
        PROVE  hist.exempt \subseteq hist'.exempt
    <3>1. hist' \in {hist, [hist EXCEPT !.dropped = @ \cup Ids(call[c].batch)]}
      BY <2>3 DEF Reject
    <3> QED BY <1>0, <3>1 DEF TypeInv
  <2>4. ASSUME Retry(c)
        PROVE  hist.exempt \subseteq hist'.exempt
    <3>1. hist' \in {hist, [hist EXCEPT !.forgone = @ \cup Uncommitted(c), !.exempt = @ \cup Events(c)]}
      BY <2>4 DEF Retry
    <3>2. "exempt" \in DOMAIN hist /\ "forgone" \in DOMAIN hist
      BY <1>0 DEF TypeInv
    <3> QED BY <3>1, <3>2
  <2>5. LoseAnswer(c) => hist.exempt \subseteq hist'.exempt
    BY <1>0 DEF LoseAnswer, TypeInv
  <2> QED BY <1>6, <2>1, <2>2, <2>3, <2>4, <2>5 DEF FnThrows, Undone
<1>7. CASE UNCHANGED vars
  BY <1>7 DEF vars
<1> QED BY <1>1, <1>2, <1>3, <1>4, <1>5, <1>6, <1>7 DEF Next, Ends

LEMMA InitUndisturbed == Init => Undisturbed
<1> SUFFICES ASSUME Init PROVE Undisturbed OBVIOUS
<1>1. /\ \A c \in Calls : call[c] = NewCall
      /\ queue = <<>> /\ repo = [inst |-> Zero, base |-> db] /\ db \in {None, Zero}
      /\ hist.n = 0 /\ hist.last = Zero /\ hist.landed = {}
  BY DEF Init
<1>2. \A c \in Calls : /\ call[c].pc = "idle" /\ call[c].batch = <<>> /\ call[c].written = <<>>
                       /\ call[c].squeue = <<>>
  BY <1>1 DEF NewCall
<1>3. Living = {} /\ Pending = {}
  BY <1>1, <1>2, RangeFacts DEF Living, Pending, Carried
<1>4. Leq(Zero, Zero) /\ (\A c \in Columns : Zero[c] = 0) /\ Increasing(<<>>)
  BY DEF Leq, Zero, Increasing
<1>5. Sequenced
  BY <1>1, <1>2, <1>3, <1>4 DEF Sequenced
<1>6. \A c \in Calls : Plain(c)
  BY <1>2 DEF Plain
<1>7. Sound
  BY <1>1, <1>2, <1>3, <1>4 DEF Sound, RowBehind, BaseStored, EmittedStored, HintsSafe, LastStored
<1> QED BY <1>5, <1>6, <1>7 DEF Undisturbed

LEMMA NextLast ==
  ASSUME ~Reverts, LastInv, [Next]_vars
  PROVE  LastInv'
<1>1. BooksInv' /\ BooksInv /\ CallInv /\ CallInv'
  BY NextBooks DEF LastInv, BooksInv
<1> SUFFICES ASSUME hist'.exempt = {} PROVE Undisturbed'
  BY <1>1 DEF LastInv
<1>2. Quietly
  BY <1>1, ReasonsStay DEF LastInv, Quietly
<1>3. CASE Save
  BY <1>1, <1>2, <1>3, SaveKeeps DEF Quietly, BooksInv
<1>4. ASSUME NEW c \in Calls,
             \/ StartPersist(c) \/ StartTransaction(c) \/ PatchNative(c) \/ PatchRead(c)
             \/ ScopedSave(c) \/ ScopedPersist(c) \/ Ends(c)
      PROVE  Undisturbed'
  <2>1. Handed(c) \/ Lands(c)
    BY <1>2, <1>4, PersistUndisturbed, TransactionUndisturbed, FailureUndisturbed DEF Ends
  <2> QED BY <1>1, <1>2, <2>1, HandedKeeps, LandsKeeps DEF Quietly
<1>5. CASE UNCHANGED vars
  <2>1. (Sql' <=> Sql) /\ \A c \in Calls : Bucketed(call[c].batch)' = Bucketed(call[c].batch)
    BY <1>5 DEF vars, Sql, Bucketed
  <2>2. /\ Sequenced' /\ (\A c \in Calls : Plain(c)')
    BY <1>2, <1>5, <2>1 DEF vars, Quietly, Undisturbed, Sequenced, Plain, Living, Carried, Leq, Increasing
  <2>3. (Doomed <=> Doomed') /\ (Pending' = Pending) /\ \A t \in Calls : (Confirming(t)' <=> Confirming(t)) /\ Awaited(t)' = Awaited(t)
    BY <1>5 DEF vars, Doomed, Ids, Pending, Carried, Confirming, Awaited
  <2>4. Sound => Sound'
    BY <1>5, <2>3 DEF vars, Sound, RowBehind, BaseStored, EmittedStored, HintsSafe, LastStored, Fresh, Leq, Kept
  <2> QED BY <1>2, <2>2, <2>3, <2>4 DEF Quietly, Undisturbed
<1> QED BY <1>3, <1>4, <1>5 DEF Next

(* "dirty, when present, names the top-level fields that actually changed since
   the caller's last-known-persisted state" (Backend.ts:35): save() lists the
   columns that differ from the write baseline, and the baseline moves when the
   events of a batch are heard, before the commit of a transaction that wrote
   it is confirmed. Whatever calls overlap, if none of the known reasons has
   occurred, then at rest the columns left out are never missing: once the last
   save was written, the row is what it saved. It is for columns that get no
   value back: a value put back while the save that changed it is still queued
   equals the baseline, is not listed, and the queued value stays. *)
THEOREM LastSaveReachesTheRow == ~Reverts /\ Spec => []LastSaveStored
<1> SUFFICES ASSUME ~Reverts PROVE Spec => []LastSaveStored
  OBVIOUS
<1>1. Init => LastInv
  BY InitBooks, InitUndisturbed DEF LastInv
<1>2. LastInv /\ [Next]_vars => LastInv'
  BY NextLast
<1>3. LastInv => LastSaveStored
  <2> SUFFICES ASSUME LastInv, hist.exempt = {}, Running = {}, hist.n \in hist.landed
      PROVE  db = hist.last
    BY DEF LastSaveStored, Stored
  <2>1. ~Doomed
    BY DEF Doomed, Running
  <2> QED BY <2>1 DEF LastInv, Undisturbed, Sound, LastStored
<1> QED BY <1>1, <1>2, <1>3, PTL DEF Spec
=============================================================================
