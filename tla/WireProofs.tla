---------------------------- MODULE WireProofs ----------------------------
(***************************************************************************)
(* Theorems about the transport boundary, whatever sockets came and went,  *)
(* were refused, broke or were given up with close(), for any number of    *)
(* requests, sockets and calls of close().  In the order of the file:      *)
(*   - types, and what each action does to sockets, requests and messages: *)
(*     it leaves the messages alone (Still), numbers requests and sends    *)
(*     them (Sends), or moves one message;                                 *)
(*   - answers: a number stands for one request and a request is in one    *)
(*     place, so an answer reaches who asked (AnswersAlwaysMatch);         *)
(*   - the feed and the answers: the event of a change is ahead of the     *)
(*     reply that resolves its request (HeardFirst);                       *)
(*   - the feed alone: one connection at a time, and what it has still to  *)
(*     deliver is later than what was heard (FeedInOrder).                 *)
(***************************************************************************)
EXTENDS Wire, SequenceTheorems, FiniteSetTheorems, TLAPS

---------------------------------------------------------------------------
(* Types. *)

SocketNames == Nat \cup {None}
Asks == [req : Requests, id : Nat]
EventMessages == [type : {"event"}, change : Nat, id : {None}]
Responses == [type : {"response"}, id : Nat, of : Requests, ok : BOOLEAN, changes : SUBSET Nat]
Messages == EventMessages \cup Responses
Connections ==
  [client : {"connecting", "open", "closing", "failed", "closed"},
   server : {"none", "accepting", "ready", "gone"}, up : Seq(Asks), down : Seq(Messages)]

Clients ==
  [late : BOOLEAN, socket : SocketNames, connecting : SocketNames, nextId : Nat,
   pending : SUBSET Requests, listening : BOOLEAN, closes : Nat]
RequestStates ==
  [pc : {"idle", "connecting", "sent", "resolved", "rejected"}, id : Nat \cup {None},
   via : SocketNames, listened : BOOLEAN, answer : Requests \cup {None}]

TypeInv ==
  /\ client \in Clients /\ {client.socket, client.connecting} \subseteq DOMAIN sock \cup {None}
  /\ sock \in Seq(Connections)
  /\ req \in [Requests -> RequestStates]
  /\ serving \subseteq [req : Requests, id : Nat, on : Nat, since : Nat, stored : BOOLEAN] /\ \A h \in serving : h.on \in DOMAIN sock
  /\ store \in Seq(Requests)
  /\ heard \in [feed : Seq(Nat), replies : SUBSET Nat]

(* Who awaits a connect() is listed once. *)
LEMMA WaitingListed ==
  ASSUME NEW s
  PROVE  /\ Waiting(s) \in Seq(Requests) /\ DOMAIN Waiting(s) = 1..Len(Waiting(s)) /\ Len(Waiting(s)) \in Nat
         /\ \A i, j \in DOMAIN Waiting(s) : Waiting(s)[i] = Waiting(s)[j] => i = j
         /\ \A i \in DOMAIN Waiting(s) : req[Waiting(s)[i]].pc = "connecting"
<1> DEFINE W == {r \in Requests : req[r].pc = "connecting" /\ req[r].via = s}
           n == Cardinality(W)
<1>1. IsFiniteSet(W) /\ n \in Nat /\ ExistsBijection(1..n, W)
  <2>1. IsFiniteSet(W)
    BY FS_Subset, WireAssumption DEF WireAssumption
  <2> QED BY <2>1, FS_CardinalityType
<1>2. \E f \in [1..n -> W] : IsInjective(f)
  BY <1>1 DEF ExistsBijection, Bijection, Injection, IsInjective
<1> HIDE DEF n
<1>3. SetToSeq(W) \in [1..n -> W] /\ IsInjective(SetToSeq(W))
  <2>1. SetToSeq(W) = CHOOSE f \in [1..n -> W] : IsInjective(f)
    BY DEF SetToSeq, n
  <2> QED BY <1>2, <2>1
<1>4. Waiting(s) = SetToSeq(W)
  BY DEF Waiting
<1>5. Waiting(s) \in [1..n -> Requests]
  BY <1>3, <1>4
<1>6. Waiting(s) \in Seq(Requests) /\ Len(Waiting(s)) = n
  BY <1>1, <1>5
<1> QED BY <1>1, <1>3, <1>4, <1>5, <1>6 DEF IsInjective

(* all is up and then the requests rs, numbered from nextId on. *)
Extended(up, rs, all) ==
  /\ Len(all) = Len(up) + Len(rs)
  /\ \A k \in 1..Len(up) : all[k] = up[k]
  /\ \A k \in 1..Len(rs) : all[Len(up) + k] = [req |-> rs[k], id |-> client.nextId + k - 1]

(* Requests that are sent get numbers of their own. *)
LEMMA NumberedRequests ==
  ASSUME TypeInv, NEW rs \in Seq(Requests), \A i, j \in DOMAIN rs : rs[i] = rs[j] => i = j,
         NEW s \in DOMAIN sock, NEW up \in Seq(Asks)
  PROVE  /\ \A k \in DOMAIN rs : Numbered(rs, s)[rs[k]] = [req[rs[k]] EXCEPT !.pc = "sent", !.id = client.nextId + k - 1]
         /\ \A r \in Requests \ Range(rs) : Numbered(rs, s)[r] = req[r]
         /\ SentOn(rs, s, up) \in Seq(Asks)
         /\ sock[s].client \in {"connecting", "open"} => Extended(up, rs, SentOn(rs, s, up))
         /\ sock[s].client \notin {"connecting", "open"} => SentOn(rs, s, up) = up
<1> DEFINE out == [k \in DOMAIN rs |-> [req |-> rs[k], id |-> IdOf(k - 1)]]
<1>0. DOMAIN rs = 1..Len(rs) /\ Len(rs) \in Nat /\ client.nextId \in Nat
  BY DEF TypeInv, Clients
<1>1. ASSUME NEW k \in DOMAIN rs
      PROVE  Numbered(rs, s)[rs[k]] = [req[rs[k]] EXCEPT !.pc = "sent", !.id = client.nextId + k - 1]
  <2>1. (CHOOSE i \in DOMAIN rs : rs[i] = rs[k]) = k
    OBVIOUS
  <2>2. IdOf(k - 1) = client.nextId + k - 1
    BY <1>0 DEF IdOf
  <2>3. rs[k] \in Requests
    OBVIOUS
  <2> QED BY <2>1, <2>2, <2>3 DEF Numbered
<1>2. \A r \in Requests \ Range(rs) : Numbered(rs, s)[r] = req[r]
  BY DEF Numbered, Range
<1>3. out \in [1..Len(rs) -> Asks]
  BY <1>0 DEF IdOf, Asks
<1>4. out \in Seq(Asks) /\ Len(out) = Len(rs)
  BY <1>0, <1>3
<1>5. \A k \in 1..Len(rs) : out[k] = [req |-> rs[k], id |-> client.nextId + k - 1]
  BY <1>0 DEF IdOf
<1> HIDE DEF out
<1>6. SentOn(rs, s, up) = IF sock[s].client \in {"connecting", "open"} THEN up \o out ELSE up
  BY DEF SentOn, out
<1>7. /\ up \o out \in Seq(Asks) /\ Len(up \o out) = Len(up) + Len(rs)
      /\ \A k \in 1..Len(up) : (up \o out)[k] = up[k]
      /\ \A k \in 1..Len(rs) : (up \o out)[Len(up) + k] = [req |-> rs[k], id |-> client.nextId + k - 1]
  <2>1. ASSUME NEW more \in Seq(Asks)
        PROVE  /\ up \o more \in Seq(Asks) /\ Len(up \o more) = Len(up) + Len(more)
               /\ \A k \in 1..Len(up) : (up \o more)[k] = up[k]
               /\ \A k \in 1..Len(more) : (up \o more)[Len(up) + k] = more[k]
    BY ConcatProperties
  <2>2. \A k \in 1..Len(rs) : (up \o out)[Len(up) + k] = out[k]
    BY <1>4, <2>1
  <2> QED BY <1>4, <1>5, <2>1, <2>2
<1>8. CASE sock[s].client \in {"connecting", "open"}
  <2>1. SentOn(rs, s, up) = up \o out
    BY <1>6, <1>8
  <2> QED BY <1>1, <1>2, <1>7, <1>8, <2>1 DEF Extended
<1>9. CASE sock[s].client \notin {"connecting", "open"}
  BY <1>1, <1>2, <1>6, <1>9
<1> QED BY <1>8, <1>9

---------------------------------------------------------------------------
(* The steps that leave the messages alone. *)

(* Whether the server's messages go out on connection s. *)
Stands(s) == sock[s].server = "ready" /\ sock[s].client \in Live

(* Whether r has been given a number, or has failed before. *)
Gone(r) == req[r].pc \notin {"idle", "connecting"}

(* No message moves but those of a connection that is closed; requests begin
   or fail. *)
Still ==
  /\ \A s \in DOMAIN sock : s \in DOMAIN sock' /\ sock'[s].up = sock[s].up /\ sock'[s].down \in {sock[s].down, <<>>}
  /\ \A s \in DOMAIN sock' \ DOMAIN sock : sock'[s].up = <<>> /\ sock'[s].down = <<>>
  /\ client'.nextId = client.nextId /\ (client.listening => client'.listening)
  /\ client'.pending = {r \in client.pending : req'[r].pc = "sent"}
  /\ \A r \in Requests :
       \/ req'[r] = req[r]
       \/ req'[r] = Rejected
       \/ /\ req[r].pc = "idle" /\ req'[r].pc = "connecting"
          /\ req'[r].answer = req[r].answer /\ req'[r].listened = client.listening
  /\ UNCHANGED <<serving, store, heard>>

(* The requests rs are numbered and, if the connection s is there, go out. *)
Sends(rs, s) ==
  /\ rs \in Seq(Requests) /\ \A i, j \in DOMAIN rs : rs[i] = rs[j] => i = j
  /\ \A k \in DOMAIN rs : ~Gone(rs[k])
  /\ DOMAIN sock' = DOMAIN sock /\ s \in DOMAIN sock
  /\ \A t \in DOMAIN sock : sock'[t].down = sock[t].down /\ (t # s => sock'[t].up = sock[t].up)
  /\ \/ sock'[s].up = sock[s].up
     \/ Extended(sock[s].up, rs, sock'[s].up)
  /\ \A k \in DOMAIN rs :
       /\ req'[rs[k]].pc = "sent" /\ req'[rs[k]].id = client.nextId + k - 1
       /\ req'[rs[k]].answer = req[rs[k]].answer
       /\ req'[rs[k]].listened \in {req[rs[k]].listened, client.listening}
  /\ \A r \in Requests \ Range(rs) : req'[r] = req[r]
  /\ client'.nextId = client.nextId + Len(rs) /\ client'.pending = client.pending \cup Range(rs)
  /\ client'.listening = client.listening
  /\ UNCHANGED <<serving, store, heard>>

LEMMA TypeFacts ==
  ASSUME TypeInv
  PROVE  /\ sock \in Seq(Connections) /\ DOMAIN sock = 1..Len(sock) /\ Len(sock) \in Nat
         /\ \A s \in DOMAIN sock :
              /\ sock[s] \in Connections /\ sock[s].up \in Seq(Asks) /\ sock[s].down \in Seq(Messages)
              /\ s \in Nat /\ s # None
         /\ store \in Seq(Requests) /\ DOMAIN store = 1..Len(store) /\ Len(store) \in Nat
         /\ \A r \in Requests : req[r].pc \in {"idle", "connecting", "sent", "resolved", "rejected"}
         /\ client.pending \subseteq Requests /\ client.nextId \in Nat
<1>1. sock \in Seq(Connections) /\ store \in Seq(Requests) /\ None \notin Nat
  BY WireAssumption DEF TypeInv, WireAssumption
<1>2. DOMAIN sock = 1..Len(sock) /\ Len(sock) \in Nat /\ DOMAIN store = 1..Len(store) /\ Len(store) \in Nat
  BY <1>1, LenProperties
<1>3. ASSUME NEW s \in DOMAIN sock
      PROVE  sock[s] \in Connections /\ s \in Nat /\ s # None
  BY <1>1, <1>2, <1>3, ElementOfSeq, LenProperties
<1>4. \A e \in Connections : e.up \in Seq(Asks) /\ e.down \in Seq(Messages)
  BY DEF Connections
<1>5. \A r \in Requests : req[r].pc \in {"idle", "connecting", "sent", "resolved", "rejected"}
  BY DEF TypeInv, RequestStates
<1>6. client.pending \subseteq Requests /\ client.nextId \in Nat
  BY DEF TypeInv, Clients
<1> QED BY <1>1, <1>2, <1>3, <1>4, <1>5, <1>6

(* A step that changes one connection, or adds one. *)
LEMMA OneConnection ==
  ASSUME TypeInv, NEW s \in DOMAIN sock, NEW e \in Connections, sock' = [sock EXCEPT ![s] = e]
  PROVE  /\ sock' \in Seq(Connections) /\ DOMAIN sock' = DOMAIN sock /\ Len(sock') = Len(sock)
         /\ sock'[s] = e /\ \A t \in DOMAIN sock : t # s => sock'[t] = sock[t]
<1>1. sock \in [1..Len(sock) -> Connections] /\ Len(sock) \in Nat
  BY TypeFacts
<1>2. sock' \in [1..Len(sock) -> Connections]
  BY <1>1
<1>3. sock' \in Seq(Connections) /\ Len(sock') = Len(sock)
  BY <1>1, <1>2
<1> QED BY <1>1, <1>3

LEMMA NewTypes ==
  /\ New \in RequestStates /\ Rejected \in RequestStates
  /\ Rejected.pc = "rejected" /\ Rejected.answer = None /\ Rejected.listened = FALSE
  /\ NewSocket \in Connections /\ NewSocket.up = <<>> /\ NewSocket.down = <<>>
  /\ NewSocket.client = "connecting" /\ NewSocket.server = "none"
BY EmptySeq DEF New, Rejected, NewSocket, Connections, SocketNames, RequestStates

LEMMA OneMore ==
  ASSUME TypeInv, sock' = Append(sock, NewSocket)
  PROVE  /\ sock' \in Seq(Connections) /\ Len(sock') = Len(sock) + 1 /\ DOMAIN sock \subseteq DOMAIN sock'
         /\ Len(sock) + 1 \in DOMAIN sock' /\ sock'[Len(sock) + 1] = NewSocket
         /\ \A s \in DOMAIN sock : sock'[s] = sock[s]
         /\ \A s \in DOMAIN sock' \ DOMAIN sock : s = Len(sock) + 1 /\ sock'[s].up = <<>> /\ sock'[s].down = <<>>
<1>1. /\ sock' \in Seq(Connections) /\ Len(sock') = Len(sock) + 1 /\ DOMAIN sock' = 1..Len(sock')
      /\ sock'[Len(sock) + 1] = NewSocket /\ \A s \in DOMAIN sock : sock'[s] = sock[s]
  BY TypeFacts, NewTypes, AppendProperties, LenProperties
<1> QED BY <1>1, TypeFacts, NewTypes

LEMMA InitTypes == Init => TypeInv
<1> SUFFICES ASSUME Init PROVE TypeInv
  OBVIOUS
<1>1. PICK late \in Late : client = [late |-> late, socket |-> None, connecting |-> None, nextId |-> 0, pending |-> {},
               listening |-> FALSE, closes |-> 0]
  BY DEF Init
<1>2. late \in BOOLEAN
  BY <1>1, WireAssumption DEF WireAssumption
<1>3. client \in Clients /\ client.socket = None /\ client.connecting = None
  BY <1>1, <1>2 DEF Clients, SocketNames
<1>4. heard \in [feed : Seq(Nat), replies : SUBSET Nat]
  BY EmptySeq DEF Init
<1>5. sock \in Seq(Connections) /\ store \in Seq(Requests)
  BY EmptySeq DEF Init
<1> QED BY <1>3, <1>4, <1>5, NewTypes DEF Init, TypeInv

(* The pending requests are those sent and not answered. *)
PendingSent == client.pending = {r \in Requests : req[r].pc = "sent"}

LEMMA ConnectTypes ==
  ASSUME TypeInv, Connect
  PROVE  /\ sock' \in Seq(Connections) /\ DOMAIN sock \subseteq DOMAIN sock'
         /\ \A s \in DOMAIN sock : sock'[s] = sock[s]
         /\ \A s \in DOMAIN sock' \ DOMAIN sock : sock'[s].up = <<>> /\ sock'[s].down = <<>>
         /\ client' \in Clients /\ {client'.socket, client'.connecting} \subseteq DOMAIN sock' \cup {None}
         /\ client'.nextId = client.nextId /\ client'.listening = client.listening /\ client'.pending = client.pending
<1>1. CASE Reusable # None
  <2>1. sock' = sock /\ client' = client
    BY <1>1 DEF Connect
  <2> QED BY <2>1, TypeFacts DEF TypeInv
<1>2. CASE Reusable = None
  <2>1. /\ sock' = Append(sock, NewSocket) /\ client' = [client EXCEPT !.connecting = Len(sock) + 1]
    BY <1>2 DEF Connect
  <2>2. Len(sock) + 1 \in SocketNames
    BY TypeFacts DEF SocketNames
  <2>3. client' \in Clients /\ client'.socket = client.socket /\ client'.connecting = Len(sock) + 1
        /\ client'.nextId = client.nextId /\ client'.listening = client.listening /\ client'.pending = client.pending
    BY <2>1, <2>2 DEF TypeInv, Clients
  <2> QED BY <2>1, <2>3, OneMore DEF TypeInv
<1> QED BY <1>1, <1>2

LEMMA SubscribeStill ==
  ASSUME TypeInv, PendingSent, Subscribe
  PROVE  TypeInv' /\ Still
<1>1. UNCHANGED <<req, serving, store, heard>>
  BY DEF Subscribe
<1>2. /\ sock' \in Seq(Connections) /\ DOMAIN sock \subseteq DOMAIN sock'
      /\ \A s \in DOMAIN sock : sock'[s] = sock[s]
      /\ \A s \in DOMAIN sock' \ DOMAIN sock : sock'[s].up = <<>> /\ sock'[s].down = <<>>
      /\ client' \in Clients /\ {client'.socket, client'.connecting} \subseteq DOMAIN sock' \cup {None}
      /\ client'.nextId = client.nextId /\ client'.listening = TRUE /\ client'.pending = client.pending
  <2>1. CASE Reusable # None
    <3>1. client' = [client EXCEPT !.listening = TRUE] /\ sock' = sock
      BY <2>1 DEF Subscribe
    <3>2. client' \in Clients /\ client'.socket = client.socket /\ client'.connecting = client.connecting
          /\ client'.nextId = client.nextId /\ client'.listening = TRUE /\ client'.pending = client.pending
      BY <3>1 DEF TypeInv, Clients
    <3> QED BY <3>1, <3>2, TypeFacts DEF TypeInv
  <2>2. CASE Reusable = None
    <3>1. /\ sock' = Append(sock, NewSocket) /\ client' = [client EXCEPT !.listening = TRUE, !.connecting = Len(sock) + 1]
      BY <2>2 DEF Subscribe
    <3>2. Len(sock) + 1 \in SocketNames
      BY TypeFacts DEF SocketNames
    <3>3. client' \in Clients /\ client'.socket = client.socket /\ client'.connecting = Len(sock) + 1
          /\ client'.nextId = client.nextId /\ client'.listening = TRUE /\ client'.pending = client.pending
      BY <3>1, <3>2 DEF TypeInv, Clients
    <3> QED BY <3>1, <3>3, OneMore DEF TypeInv
  <2> QED BY <2>1, <2>2
<1>3. TypeInv'
  BY <1>1, <1>2 DEF TypeInv
<1>4. Still
  BY <1>1, <1>2 DEF Still, PendingSent
<1> QED BY <1>3, <1>4

LEMMA BeginsStill ==
  ASSUME TypeInv, PendingSent, NEW r \in Requests, req[r].pc = "idle", NEW via \in SocketNames,
         Connect, req' = Begun(r, via), UNCHANGED <<serving, store, heard>>
  PROVE  TypeInv' /\ Still
<1>1. req' = [req EXCEPT ![r] = [req[r] EXCEPT !.pc = "connecting", !.via = via, !.listened = client.listening]]
  BY DEF Begun, TypeInv, RequestStates
<1>2. [req[r] EXCEPT !.pc = "connecting", !.via = via, !.listened = client.listening] \in RequestStates
  <2>1. req[r] \in RequestStates /\ client.listening \in BOOLEAN
    BY DEF TypeInv, Clients
  <2> QED BY <2>1 DEF RequestStates
<1>3. /\ req' \in [Requests -> RequestStates]
      /\ req'[r].pc = "connecting" /\ req'[r].answer = req[r].answer /\ req'[r].listened = client.listening
      /\ \A q \in Requests : q # r => req'[q] = req[q]
  BY <1>1, <1>2 DEF TypeInv, RequestStates
<1>4. TypeInv'
  BY <1>3, ConnectTypes DEF TypeInv
<1>5. Still
  <2>1. client'.pending = {q \in client.pending : req'[q].pc = "sent"}
    BY <1>3, ConnectTypes DEF PendingSent
  <2> QED BY <1>3, <2>1, ConnectTypes DEF Still
<1> QED BY <1>4, <1>5

(* The other steps that move no message. *)
LEMMA EndingsStill ==
  ASSUME TypeInv, PendingSent,
         \/ Close
         \/ \E s \in DOMAIN sock : Errored(s) \/ Dropped(s) \/ Closed(s) \/ Accepted(s) \/ ServerCloses(s)
  PROVE  TypeInv' /\ Still
<1> DEFINE Ends ==
      /\ sock' \in Seq(Connections) /\ DOMAIN sock' = DOMAIN sock
      /\ \A t \in DOMAIN sock : sock'[t].up = sock[t].up /\ sock'[t].down \in {sock[t].down, <<>>}
      /\ UNCHANGED <<serving, store, heard>>
           Fails ==
      /\ client'.pending = {} /\ req' \in [Requests -> RequestStates]
      /\ \A r \in Requests : req'[r] = req[r] \/ req'[r] = Rejected
      /\ \A r \in client.pending : req'[r] = Rejected
           Resets ==
      /\ client' \in Clients /\ {client'.socket, client'.connecting} \subseteq {client.socket, client.connecting, None}
      /\ client'.nextId = client.nextId /\ client'.listening = client.listening
<1>0. req \in [Requests -> RequestStates]
  BY DEF TypeInv
<1>1. ASSUME Ends, Fails, Resets
      PROVE  TypeInv' /\ Still
  <2>1. TypeInv'
    BY <1>1 DEF TypeInv
  <2>2. \A r \in client.pending : req'[r].pc # "sent"
    BY <1>1, NewTypes
  <2>3. Still
    BY <1>1, <2>2 DEF Still
  <2> QED BY <2>1, <2>3
<1>2. ASSUME NEW s \in DOMAIN sock, NEW e \in Connections, sock' = [sock EXCEPT ![s] = e],
             e.up = sock[s].up, e.down \in {sock[s].down, <<>>}, UNCHANGED <<serving, store, heard>>
      PROVE  Ends
  BY <1>2, OneConnection
<1>3. ASSUME NEW c \in {"open", "closing", "failed", "closed"}, NEW v \in {"accepting", "ready", "gone"}, NEW s \in DOMAIN sock
      PROVE  /\ [sock[s] EXCEPT !.client = c] \in Connections /\ [sock[s] EXCEPT !.server = v] \in Connections
             /\ [sock[s] EXCEPT !.client = c, !.server = v] \in Connections
             /\ [sock[s] EXCEPT !.server = v, !.client = c] \in Connections
             /\ [sock[s] EXCEPT !.client = c, !.down = <<>>] \in Connections
             /\ [sock[s] EXCEPT !.client = c].up = sock[s].up /\ [sock[s] EXCEPT !.client = c].down = sock[s].down
             /\ [sock[s] EXCEPT !.server = v].up = sock[s].up /\ [sock[s] EXCEPT !.server = v].down = sock[s].down
             /\ [sock[s] EXCEPT !.client = c, !.server = v].up = sock[s].up /\ [sock[s] EXCEPT !.client = c, !.server = v].down = sock[s].down
             /\ [sock[s] EXCEPT !.server = v, !.client = c].up = sock[s].up /\ [sock[s] EXCEPT !.server = v, !.client = c].down = sock[s].down
             /\ [sock[s] EXCEPT !.client = c, !.down = <<>>].up = sock[s].up /\ [sock[s] EXCEPT !.client = c, !.down = <<>>].down = <<>>
  <2>1. sock[s] \in Connections
    BY TypeFacts
  <2> QED BY <2>1, EmptySeq DEF Connections
<1>4. CASE Close
  <2>1. /\ client' = [client EXCEPT !.socket = None, !.connecting = None, !.pending = {}, !.closes = @ + 1]
        /\ req' = [r \in Requests |-> IF r \in client.pending THEN Rejected ELSE req[r]]
        /\ UNCHANGED <<serving, store, heard>>
        /\ \/ sock' = sock
           \/ client.socket # None /\ sock' = [sock EXCEPT ![client.socket] = [sock[client.socket] EXCEPT !.client = "closing"]]
    BY <1>4 DEF Close, IsOpen
  <2>2. Ends
    <3>1. CASE sock' = sock
      BY <2>1, <3>1, TypeFacts
    <3>2. CASE client.socket # None /\ sock' = [sock EXCEPT ![client.socket] = [sock[client.socket] EXCEPT !.client = "closing"]]
      <4>1. client.socket \in DOMAIN sock
        BY <3>2 DEF TypeInv
      <4> HIDE DEF Ends
      <4> QED BY <1>2, <1>3, <2>1, <3>2, <4>1
    <3> QED BY <2>1, <3>1, <3>2
  <2>3. Resets /\ client'.pending = {}
    <3>1. client \in Clients /\ client.closes \in Nat
      BY DEF TypeInv, Clients
    <3>2. client.closes + 1 \in Nat
      BY <3>1
    <3>3. client' = [client EXCEPT !.socket = None, !.connecting = None, !.pending = {}, !.closes = client.closes + 1]
      BY <2>1
    <3> QED BY <3>1, <3>2, <3>3 DEF Clients, SocketNames
  <2>4. Fails
    <3> HIDE DEF Ends, Resets
    <3> QED BY <1>0, <2>1, <2>3, NewTypes, TypeFacts
  <2> HIDE DEF Ends, Fails, Resets
  <2> QED BY <1>1, <2>2, <2>3, <2>4
<1>5. ASSUME NEW s \in DOMAIN sock, Errored(s)
      PROVE  TypeInv' /\ Still
  <2>1. Ends
    <3>1. \E c \in {"failed", "closing"} : sock' = [sock EXCEPT ![s] = [sock[s] EXCEPT !.client = c]]
      BY <1>5 DEF Errored
    <3> HIDE DEF Ends
    <3> QED BY <1>2, <1>3, <1>5, <3>1 DEF Errored
  <2>2. Resets /\ client'.pending = {}
    BY <1>5 DEF Errored, TypeInv, Clients
  <2>3. Fails
    <3> HIDE DEF Ends, Resets
    <3> QED BY <1>0, <1>5, <2>2, NewTypes, TypeFacts DEF Errored
  <2> HIDE DEF Ends, Fails, Resets
  <2> QED BY <1>1, <2>1, <2>2, <2>3
<1>6. ASSUME NEW s \in DOMAIN sock, Dropped(s) \/ Accepted(s) \/ ServerCloses(s)
      PROVE  TypeInv' /\ Still
  <2>1. UNCHANGED <<client, req, serving, store, heard>>
    BY <1>6 DEF Dropped, Accepted, ServerCloses
  <2>2. \E c \in {"open", "closing", "failed", "closed"}, v \in {"accepting", "ready", "gone"} :
          sock' \in {[sock EXCEPT ![s] = [sock[s] EXCEPT !.server = v]],
                     [sock EXCEPT ![s] = [sock[s] EXCEPT !.client = c, !.server = v]],
                     [sock EXCEPT ![s] = [sock[s] EXCEPT !.server = v, !.client = c]]}
    <3>1. CASE Dropped(s)
      <4>1. sock' = [sock EXCEPT ![s] = [sock[s] EXCEPT !.client = "closing", !.server = "gone"]]
        BY <3>1 DEF Dropped
      <4> QED BY <4>1
    <3>2. CASE Accepted(s)
      <4>1. \/ sock' = [sock EXCEPT ![s] = [sock[s] EXCEPT !.server = "ready"]]
            \/ sock' = [sock EXCEPT ![s] = [sock[s] EXCEPT !.server = "gone", !.client = IF @ = "open" THEN "closing" ELSE @]]
        BY <3>2 DEF Accepted
      <4>2. [sock[s] EXCEPT !.server = "gone", !.client = IF @ = "open" THEN "closing" ELSE @] \in
              {[sock[s] EXCEPT !.server = "gone", !.client = "closing"], [sock[s] EXCEPT !.server = "gone"]}
        BY TypeFacts DEF Connections
      <4> QED BY <4>1, <4>2
    <3>3. CASE ServerCloses(s)
      <4>1. sock' = [sock EXCEPT ![s] = [sock[s] EXCEPT !.server = "gone"]]
        BY <3>3 DEF ServerCloses
      <4> QED BY <4>1
    <3> QED BY <1>6, <3>1, <3>2, <3>3
  <2>3. Ends
    <3>1. PICK c \in {"open", "closing", "failed", "closed"}, v \in {"accepting", "ready", "gone"} :
          sock' \in {[sock EXCEPT ![s] = [sock[s] EXCEPT !.server = v]],
                     [sock EXCEPT ![s] = [sock[s] EXCEPT !.client = c, !.server = v]],
                     [sock EXCEPT ![s] = [sock[s] EXCEPT !.server = v, !.client = c]]}
      BY <2>2
    <3>2. PICK e : /\ e \in {[sock[s] EXCEPT !.server = v], [sock[s] EXCEPT !.client = c, !.server = v],
                             [sock[s] EXCEPT !.server = v, !.client = c]}
                   /\ sock' = [sock EXCEPT ![s] = e]
      BY <3>1
    <3>3. e \in Connections /\ e.up = sock[s].up /\ e.down = sock[s].down
      <4>1. /\ [sock[s] EXCEPT !.server = v] \in Connections
            /\ [sock[s] EXCEPT !.client = c, !.server = v] \in Connections
            /\ [sock[s] EXCEPT !.server = v, !.client = c] \in Connections
        BY <1>3
      <4>2. sock[s] \in Connections
        BY TypeFacts
      <4> QED BY <3>2, <4>1, <4>2 DEF Connections
    <3> HIDE DEF Ends
    <3> QED BY <1>2, <2>1, <3>2, <3>3
  <2>4. TypeInv'
    BY <2>1, <2>3 DEF TypeInv
  <2>5. Still
    BY <2>1, <2>3 DEF Still, PendingSent
  <2> QED BY <2>4, <2>5
<1>7. ASSUME NEW s \in DOMAIN sock, Closed(s)
      PROVE  TypeInv' /\ Still
  <2>1. Ends
    <3>1. sock' = [sock EXCEPT ![s] = [sock[s] EXCEPT !.client = "closed", !.down = <<>>]]
      BY <1>7 DEF Closed
    <3> DEFINE e == [sock[s] EXCEPT !.client = "closed", !.down = <<>>]
    <3>2. e \in Connections /\ e.up = sock[s].up /\ e.down = <<>>
      BY <1>3
    <3>3. sock' = [sock EXCEPT ![s] = e] /\ UNCHANGED <<serving, store, heard>>
      BY <1>7, <3>1 DEF Closed
    <3> HIDE DEF Ends, e
    <3> QED BY <1>2, <3>2, <3>3
  <2>2. /\ client' = [client EXCEPT !.pending = {}, !.socket = None, !.connecting = None]
        /\ req' = [r \in Requests |-> IF r \in client.pending THEN Rejected ELSE req[r]]
    BY <1>7 DEF Closed, FailAllPending
  <2>3. Resets /\ client'.pending = {}
    BY <2>2 DEF TypeInv, Clients, SocketNames
  <2>4. Fails
    <3> HIDE DEF Ends, Resets
    <3> QED BY <1>0, <2>2, <2>3, NewTypes, TypeFacts
  <2> HIDE DEF Ends, Fails, Resets
  <2> QED BY <1>1, <2>1, <2>3, <2>4
<1> QED BY <1>4, <1>5, <1>6, <1>7

---------------------------------------------------------------------------
(* The steps that number requests and send them. *)

LEMMA RequestMoves ==
  ASSUME TypeInv, PendingSent, NEW r \in Requests, Request(r)
  PROVE  TypeInv' /\ (Still \/ \E rs, s : Sends(rs, s))
<1> DEFINE s == Reusable
<1>0. /\ req[r].pc = "idle" /\ UNCHANGED <<serving, store, heard>>
      /\ req \in [Requests -> RequestStates]
      /\ s \in DOMAIN sock \cup {None} /\ s \in SocketNames
  <2>1. s \in DOMAIN sock \cup {None}
    BY DEF TypeInv, Reusable
  <2> QED BY <2>1, TypeFacts DEF Request, TypeInv, SocketNames
<1>1. CASE s = None \/ sock[s].client = "connecting"
  <2>1. Connect /\ req' = Begun(r, IF s = None THEN Len(sock) + 1 ELSE s)
    BY <1>1 DEF Request
  <2>2. (IF s = None THEN Len(sock) + 1 ELSE s) \in SocketNames
    BY <1>0, TypeFacts DEF SocketNames
  <2> QED BY <1>0, <2>1, <2>2, BeginsStill
<1>2. CASE s # None /\ sock[s].client = "failed"
  <2>1. req' = [req EXCEPT ![r] = Rejected] /\ client' = client /\ sock' = sock
    BY <1>2 DEF Request
  <2>2. TypeInv'
    BY <1>0, <2>1, NewTypes DEF TypeInv
  <2>3. Still
    BY <1>0, <2>1, NewTypes, TypeFacts DEF Still, PendingSent
  <2> QED BY <2>2, <2>3
<1>3. CASE s # None /\ sock[s].client \notin {"connecting", "failed"}
  <2> DEFINE rs == <<r>>
             out == [sock[s] EXCEPT !.up = SentOn(rs, s, @)]
             now == [req[r] EXCEPT !.pc = "sent", !.via = s, !.listened = client.listening, !.id = client.nextId]
  <2>0. s \in DOMAIN sock /\ sock[s] \in Connections /\ sock[s].up \in Seq(Asks)
    BY <1>0, <1>3, TypeFacts
  <2>1. /\ client' = Registered(rs) /\ sock' = [sock EXCEPT ![s] = out]
        /\ req' = [req EXCEPT ![r] = [Begun(r, s)[r] EXCEPT !.pc = "sent", !.id = IdOf(0)]]
    BY <1>3 DEF Request
  <2>2. rs \in Seq(Requests) /\ DOMAIN rs = {1} /\ Len(rs) = 1 /\ rs[1] = r /\ Range(rs) = {r}
    BY DEF Range
  <2>3. /\ client' \in Clients /\ client'.nextId = client.nextId + 1 /\ client'.pending = client.pending \cup {r}
        /\ client'.listening = client.listening
        /\ client'.socket = client.socket /\ client'.connecting = client.connecting
    <3>1. client' = [client EXCEPT !.nextId = client.nextId + 1, !.pending = client.pending \cup {r}]
      BY <2>1, <2>2 DEF Registered
    <3>2. client.nextId + 1 \in Nat /\ client.pending \cup {r} \in SUBSET Requests
      BY TypeFacts
    <3> QED BY <3>1, <3>2 DEF Clients, TypeInv
  <2>4. [Begun(r, s)[r] EXCEPT !.pc = "sent", !.id = IdOf(0)] = now
    <3>1. Begun(r, s)[r] = [req[r] EXCEPT !.pc = "connecting", !.via = s, !.listened = client.listening]
      BY <1>0 DEF Begun, RequestStates
    <3>2. IdOf(0) = client.nextId
      BY TypeFacts DEF IdOf
    <3>3. req[r] \in RequestStates
      BY <1>0
    <3> HIDE DEF s
    <3> QED BY <3>1, <3>2, <3>3 DEF RequestStates
  <2>5. now \in RequestStates /\ now.pc = "sent" /\ now.id = client.nextId /\ now.answer = req[r].answer
        /\ now.listened = client.listening
    <3>1. client.listening \in BOOLEAN /\ client.nextId \in Nat
      BY DEF TypeInv, Clients
    <3> QED BY <1>0, <3>1 DEF RequestStates
  <2>6. /\ req' \in [Requests -> RequestStates] /\ req'[r] = now
        /\ \A q \in Requests : q # r => req'[q] = req[q]
    <3> HIDE DEF now
    <3> QED BY <1>0, <2>1, <2>4, <2>5
  <2>7. /\ SentOn(rs, s, sock[s].up) \in Seq(Asks)
        /\ \/ SentOn(rs, s, sock[s].up) = sock[s].up
           \/ Extended(sock[s].up, rs, SentOn(rs, s, sock[s].up))
    <3>1. \A i, j \in DOMAIN rs : rs[i] = rs[j] => i = j
      BY <2>2
    <3> HIDE DEF rs, s
    <3>2. rs \in Seq(Requests)
      BY <2>2
    <3>3. CASE sock[s].client \in {"connecting", "open"}
      BY <2>0, <3>1, <3>2, <3>3, NumberedRequests
    <3>4. CASE sock[s].client \notin {"connecting", "open"}
      BY <2>0, <3>1, <3>2, <3>4, NumberedRequests
    <3> QED BY <3>3, <3>4
  <2>8. out \in Connections /\ out.up = SentOn(rs, s, sock[s].up) /\ out.down = sock[s].down
    <3>1. out = [sock[s] EXCEPT !.up = SentOn(rs, s, sock[s].up)]
      OBVIOUS
    <3> HIDE DEF out, rs, s
    <3> QED BY <2>0, <2>7, <3>1 DEF Connections
  <2>9. /\ sock' \in Seq(Connections) /\ DOMAIN sock' = DOMAIN sock /\ sock'[s] = out
        /\ \A t \in DOMAIN sock : t # s => sock'[t] = sock[t]
    <3> HIDE DEF out, rs, s
    <3> QED BY <2>0, <2>1, <2>8, OneConnection
  <2> HIDE DEF out, now, rs, s
  <2>10. TypeInv'
    BY <1>0, <2>3, <2>6, <2>9 DEF TypeInv
  <2>11. Sends(rs, s)
    <3>1. /\ rs \in Seq(Requests) /\ \A i, j \in DOMAIN rs : rs[i] = rs[j] => i = j
          /\ \A k \in DOMAIN rs : ~Gone(rs[k])
          /\ \A k \in DOMAIN rs :
               /\ req'[rs[k]].pc = "sent" /\ req'[rs[k]].id = client.nextId + k - 1
               /\ req'[rs[k]].answer = req[rs[k]].answer
               /\ req'[rs[k]].listened \in {req[rs[k]].listened, client.listening}
      <4>1. client.nextId + 1 - 1 = client.nextId
        BY TypeFacts
      <4> QED BY <1>0, <2>2, <2>5, <2>6, <4>1 DEF Gone
    <3> QED BY <1>0, <2>0, <2>2, <2>3, <2>6, <2>7, <2>8, <2>9, <3>1 DEF Sends
  <2> QED BY <2>10, <2>11
<1> QED BY <1>1, <1>2, <1>3

LEMMA OpenedMoves ==
  ASSUME TypeInv, PendingSent, NEW s \in DOMAIN sock, Opened(s)
  PROVE  TypeInv' /\ Sends(Waiting(s), s)
<1> DEFINE rs == Waiting(s)
           v == IF client.late THEN "accepting" ELSE "ready"
           out == [sock[s] EXCEPT !.client = "open", !.server = v, !.up = SentOn(rs, s, @)]
<1>0. /\ rs \in Seq(Requests) /\ DOMAIN rs = 1..Len(rs) /\ Len(rs) \in Nat
      /\ \A i, j \in DOMAIN rs : rs[i] = rs[j] => i = j
      /\ \A i \in DOMAIN rs : req[rs[i]].pc = "connecting"
  BY WaitingListed
<1>1. /\ sock[s].client = "connecting" /\ sock' = [sock EXCEPT ![s] = out]
      /\ client' = [Registered(rs) EXCEPT !.socket = s] /\ req' = Numbered(rs, s)
      /\ UNCHANGED <<serving, store, heard>>
  BY DEF Opened
<1>2. /\ sock[s] \in Connections /\ sock[s].up \in Seq(Asks) /\ s \in SocketNames
      /\ req \in [Requests -> RequestStates] /\ client.nextId \in Nat
  BY TypeFacts DEF TypeInv, SocketNames
<1> HIDE DEF rs
<1>3. /\ SentOn(rs, s, sock[s].up) \in Seq(Asks)
      /\ Extended(sock[s].up, rs, SentOn(rs, s, sock[s].up))
      /\ \A k \in DOMAIN rs : req'[rs[k]] = [req[rs[k]] EXCEPT !.pc = "sent", !.id = client.nextId + k - 1]
      /\ \A r \in Requests \ Range(rs) : req'[r] = req[r]
  BY <1>0, <1>1, <1>2, NumberedRequests
<1>4. /\ out \in Connections /\ out.up = SentOn(rs, s, sock[s].up) /\ out.down = sock[s].down
  <2>1. out = [sock[s] EXCEPT !.client = "open", !.server = v, !.up = SentOn(rs, s, sock[s].up)] /\ v \in {"accepting", "ready"}
    OBVIOUS
  <2> HIDE DEF out, v
  <2> QED BY <1>2, <1>3, <2>1 DEF Connections
<1> HIDE DEF out
<1>5. /\ sock' \in Seq(Connections) /\ DOMAIN sock' = DOMAIN sock /\ sock'[s] = out
      /\ \A t \in DOMAIN sock : t # s => sock'[t] = sock[t]
  BY <1>1, <1>4, OneConnection
<1>6. /\ client' \in Clients /\ client'.nextId = client.nextId + Len(rs) /\ client'.pending = client.pending \cup Range(rs)
      /\ client'.listening = client.listening
      /\ client'.socket = s /\ client'.connecting = client.connecting
  <2>1. client' = [client EXCEPT !.nextId = client.nextId + Len(rs), !.pending = client.pending \cup Range(rs), !.socket = s]
    BY <1>1 DEF Registered
  <2>2. client.nextId + Len(rs) \in Nat
    BY <1>0, <1>2
  <2>3. client.pending \cup Range(rs) \in SUBSET Requests
    BY <1>0, TypeFacts DEF Range
  <2> QED BY <1>2, <2>1, <2>2, <2>3 DEF Clients, TypeInv
<1>7. \A k \in DOMAIN rs :
        /\ req'[rs[k]] \in RequestStates
        /\ req'[rs[k]].pc = "sent" /\ req'[rs[k]].id = client.nextId + k - 1
        /\ req'[rs[k]].answer = req[rs[k]].answer /\ req'[rs[k]].listened = req[rs[k]].listened
  <2> TAKE k \in DOMAIN rs
  <2>1. req[rs[k]] \in RequestStates /\ client.nextId + k - 1 \in Nat
    BY <1>0, <1>2
  <2>2. req'[rs[k]] = [req[rs[k]] EXCEPT !.pc = "sent", !.id = client.nextId + k - 1]
    BY <1>3
  <2> QED BY <2>1, <2>2 DEF RequestStates
<1>8. req' \in [Requests -> RequestStates]
  <2>1. req' = [r \in Requests |-> req'[r]]
    BY <1>1 DEF Numbered
  <2>2. ASSUME NEW r \in Requests
        PROVE  req'[r] \in RequestStates
    <3>1. CASE r \in Range(rs)
      <4>1. \E k \in DOMAIN rs : rs[k] = r
        BY <3>1 DEF Range
      <4> QED BY <1>7, <4>1
    <3>2. CASE r \notin Range(rs)
      BY <1>2, <1>3, <3>2
    <3> QED BY <3>1, <3>2
  <2> QED BY <2>1, <2>2
<1>9. TypeInv'
  BY <1>1, <1>5, <1>6, <1>8 DEF TypeInv
<1>10. Sends(rs, s)
  <2>1. \A k \in DOMAIN rs : ~Gone(rs[k])
    BY <1>0 DEF Gone
  <2>2. \A t \in DOMAIN sock : sock'[t].down = sock[t].down /\ (t # s => sock'[t].up = sock[t].up)
    BY <1>4, <1>5
  <2>3. Extended(sock[s].up, rs, sock'[s].up)
    BY <1>3, <1>4, <1>5
  <2>4. \A k \in DOMAIN rs :
          /\ req'[rs[k]].pc = "sent" /\ req'[rs[k]].id = client.nextId + k - 1
          /\ req'[rs[k]].answer = req[rs[k]].answer
          /\ req'[rs[k]].listened \in {req[rs[k]].listened, client.listening}
    BY <1>7
  <2> QED BY <1>0, <1>1, <1>3, <1>5, <1>6, <2>1, <2>2, <2>3, <2>4 DEF Sends
<1> QED BY <1>9, <1>10 DEF rs

---------------------------------------------------------------------------
(* The steps that move messages. *)
LEMMA ReceiveMoves ==
  ASSUME TypeInv, NEW s \in DOMAIN sock, Receive(s)
  PROVE  /\ TypeInv' /\ sock[s].down # <<>> /\ sock[s].client \in Live
         /\ DOMAIN sock' = DOMAIN sock /\ sock'[s] = [sock[s] EXCEPT !.down = Tail(sock[s].down)]
         /\ \A t \in DOMAIN sock : t # s => sock'[t] = sock[t]
<1> DEFINE out == [sock[s] EXCEPT !.down = Tail(sock[s].down)]
           message == Head(sock[s].down)
           entry == {r \in client.pending : req[r].id = message.id}
<1>1. /\ sock[s].down # <<>> /\ sock' = [sock EXCEPT ![s] = out] /\ serving' = serving /\ store' = store
      /\ sock[s].client \in Live
      /\ IF message.type = "event"
           THEN /\ heard' = IF client.listening THEN [heard EXCEPT !.feed = Append(heard.feed, message.change)] ELSE heard
                /\ UNCHANGED <<client, req>>
         ELSE /\ client' = [client EXCEPT !.pending = client.pending \ entry]
              /\ req' = [r \in Requests |-> IF r \in entry
                   THEN [New EXCEPT !.pc = IF message.ok THEN "resolved" ELSE "rejected",
                                    !.listened = req[r].listened, !.answer = message.of]
                   ELSE req[r]]
              /\ heard' = IF entry # {} THEN [heard EXCEPT !.replies = heard.replies \cup message.changes] ELSE heard
  BY DEF Receive
<1>2. sock[s] \in Connections /\ sock[s].down \in Seq(Messages)
  BY TypeFacts
<1>3. message \in Messages /\ Tail(sock[s].down) \in Seq(Messages)
  BY <1>1, <1>2, HeadTailProperties, LenProperties
<1>4. out \in Connections
  BY <1>2, <1>3 DEF Connections
<1>5. /\ sock' \in Seq(Connections) /\ DOMAIN sock' = DOMAIN sock /\ sock'[s] = out
      /\ \A t \in DOMAIN sock : t # s => sock'[t] = sock[t]
  <2> HIDE DEF out
  <2> QED BY <1>1, <1>4, OneConnection
<1> HIDE DEF message
<1>6. /\ client' \in Clients /\ client'.socket = client.socket /\ client'.connecting = client.connecting
      /\ req' \in [Requests -> RequestStates] /\ heard' \in [feed : Seq(Nat), replies : SUBSET Nat]
  <2>0. /\ client \in Clients /\ req \in [Requests -> RequestStates] /\ heard \in [feed : Seq(Nat), replies : SUBSET Nat]
    BY DEF TypeInv
  <2>1. CASE message.type = "event"
    <3>1. message.change \in Nat
      BY <1>3, <2>1 DEF Messages, EventMessages, Responses
    <3>2. Append(heard.feed, message.change) \in Seq(Nat)
      BY <2>0, <3>1
    <3>3. heard' \in {heard, [heard EXCEPT !.feed = Append(heard.feed, message.change)]}
      BY <1>1, <2>1
    <3>4. client' = client /\ req' = req
      BY <1>1, <2>1
    <3> QED BY <2>0, <3>2, <3>3, <3>4
  <2>2. CASE message.type # "event"
    <3>1. message.of \in Requests /\ message.changes \in SUBSET Nat
      BY <1>3, <2>2 DEF Messages, EventMessages, Responses
    <3>2. client.pending \ entry \in SUBSET Requests
      BY TypeFacts
    <3>3. client' = [client EXCEPT !.pending = client.pending \ entry]
      BY <1>1, <2>2
    <3>4. client' \in Clients /\ client'.socket = client.socket /\ client'.connecting = client.connecting
      <4> HIDE DEF entry
      <4> QED BY <2>0, <3>2, <3>3 DEF Clients
    <3>5. heard' \in {heard, [heard EXCEPT !.replies = heard.replies \cup message.changes]}
      BY <1>1, <2>2
    <3>6. heard' \in [feed : Seq(Nat), replies : SUBSET Nat]
      BY <2>0, <3>1, <3>5
    <3> DEFINE answered(r) == [New EXCEPT !.pc = IF message.ok THEN "resolved" ELSE "rejected",
                                          !.listened = req[r].listened, !.answer = message.of]
    <3>7. ASSUME NEW r \in Requests
          PROVE  answered(r) \in RequestStates
      <4>1. req[r].listened \in BOOLEAN
        BY <2>0 DEF RequestStates
      <4>2. New \in RequestStates
        BY NewTypes
      <4> QED BY <3>1, <4>1, <4>2 DEF RequestStates
    <3>8. req' \in [Requests -> RequestStates]
      <4>1. req' = [r \in Requests |-> IF r \in entry THEN answered(r) ELSE req[r]]
        BY <1>1, <2>2
      <4> HIDE DEF entry, answered
      <4> QED BY <2>0, <3>7, <4>1
    <3> QED BY <3>4, <3>6, <3>8
  <2> QED BY <2>1, <2>2
<1>7. serving' = serving /\ store' = store
  BY <1>1
<1>8. TypeInv'
  BY <1>5, <1>6, <1>7 DEF TypeInv
<1> QED BY <1>1, <1>5, <1>8

LEMMA ServerReceivesMoves ==
  ASSUME TypeInv, NEW s \in DOMAIN sock, ServerReceives(s)
  PROVE  /\ TypeInv' /\ sock[s].up # <<>>
         /\ DOMAIN sock' = DOMAIN sock /\ sock'[s] = [sock[s] EXCEPT !.up = Tail(sock[s].up)]
         /\ \A t \in DOMAIN sock : t # s => sock'[t] = sock[t]
         /\ serving' \in {serving, serving \cup {[req |-> sock[s].up[1].req, id |-> sock[s].up[1].id, on |-> s,
                                                     since |-> Since(sock[s].up[1].req), stored |-> FALSE]}}
         /\ UNCHANGED <<client, req, store, heard>>
<1> DEFINE out == [sock[s] EXCEPT !.up = Tail(sock[s].up)]
<1>1. /\ sock[s].up # <<>> /\ sock' = [sock EXCEPT ![s] = out] /\ UNCHANGED <<client, req, store, heard>>
      /\ serving' \in {serving, serving \cup {[req |-> Head(sock[s].up).req, id |-> Head(sock[s].up).id, on |-> s,
                                                  since |-> Since(Head(sock[s].up).req), stored |-> FALSE]}}
  BY DEF ServerReceives
<1>2. sock[s] \in Connections /\ sock[s].up \in Seq(Asks) /\ s \in Nat /\ Len(store) \in Nat
  BY TypeFacts
<1>3. Head(sock[s].up) = sock[s].up[1] /\ sock[s].up[1] \in Asks /\ Tail(sock[s].up) \in Seq(Asks)
  BY <1>1, <1>2, HeadTailProperties, LenProperties
<1>4. out \in Connections
  BY <1>2, <1>3 DEF Connections
<1>5. /\ sock' \in Seq(Connections) /\ DOMAIN sock' = DOMAIN sock /\ sock'[s] = out
      /\ \A t \in DOMAIN sock : t # s => sock'[t] = sock[t]
  <2> HIDE DEF out
  <2> QED BY <1>1, <1>4, OneConnection
<1>6. [req |-> sock[s].up[1].req, id |-> sock[s].up[1].id, on |-> s, since |-> Since(sock[s].up[1].req), stored |-> FALSE]
        \in [req : Requests, id : Nat, on : Nat, since : Nat, stored : BOOLEAN]
  BY <1>2, <1>3 DEF Asks, Since
<1>7. TypeInv'
  <2> DEFINE new == [req |-> sock[s].up[1].req, id |-> sock[s].up[1].id, on |-> s,
                     since |-> Since(sock[s].up[1].req), stored |-> FALSE]
  <2>1. serving' \in {serving, serving \cup {new}} /\ new.on = s
    BY <1>1, <1>3
  <2>2. new \in [req : Requests, id : Nat, on : Nat, since : Nat, stored : BOOLEAN]
    BY <1>6
  <2> HIDE DEF new
  <2>3. /\ serving' \subseteq [req : Requests, id : Nat, on : Nat, since : Nat, stored : BOOLEAN]
        /\ \A h \in serving' : h.on \in DOMAIN sock'
    BY <1>5, <2>1, <2>2 DEF TypeInv
  <2> QED BY <1>1, <1>5, <2>3 DEF TypeInv
<1> QED BY <1>1, <1>3, <1>5, <1>7

(* A push to a connection. *)
LEMMA PushedOne ==
  ASSUME TypeInv, NEW s \in DOMAIN sock, NEW m \in Messages
  PROVE  /\ [sock[s] EXCEPT !.down = Pushed(s, m)] \in Connections
         /\ [sock[s] EXCEPT !.down = Pushed(s, m)].up = sock[s].up
         /\ [sock[s] EXCEPT !.down = Pushed(s, m)].client = sock[s].client
         /\ [sock[s] EXCEPT !.down = Pushed(s, m)].server = sock[s].server
         /\ [sock[s] EXCEPT !.down = Pushed(s, m)].down = IF Stands(s) THEN Append(sock[s].down, m) ELSE sock[s].down
<1>1. sock[s] \in Connections /\ sock[s].down \in Seq(Messages)
  BY TypeFacts
<1>2. Append(sock[s].down, m) \in Seq(Messages)
  BY <1>1
<1>3. Pushed(s, m) \in Seq(Messages) /\ Pushed(s, m) = IF Stands(s) THEN Append(sock[s].down, m) ELSE sock[s].down
  BY <1>1, <1>2 DEF Pushed, Stands
<1> QED BY <1>1, <1>3 DEF Connections

(* What each connection is sent: the event. *)
LEMMA StoredMoves ==
  ASSUME TypeInv, NEW h \in serving, Stored(h)
  PROVE  /\ TypeInv' /\ h.stored = FALSE /\ serving' = (serving \ {h}) \cup {[h EXCEPT !.stored = TRUE]}
         /\ store' = Append(store, h.req) /\ UNCHANGED <<client, req, heard>>
         /\ DOMAIN sock' = DOMAIN sock
         /\ \A t \in DOMAIN sock :
              /\ sock'[t].up = sock[t].up /\ sock'[t].client = sock[t].client /\ sock'[t].server = sock[t].server
              /\ sock'[t].down = IF Stands(t) THEN Append(sock[t].down, Event) ELSE sock[t].down
<1>1. /\ h.stored = FALSE /\ serving' = (serving \ {h}) \cup {[h EXCEPT !.stored = TRUE]}
      /\ store' = Append(store, h.req) /\ UNCHANGED <<client, req, heard>>
      /\ sock' = [t \in DOMAIN sock |-> [sock[t] EXCEPT !.down = Pushed(t, Event)]]
  BY DEF Stored, Feed, Sockets, TypeInv
<1>2. /\ h.req \in Requests /\ h.on \in DOMAIN sock /\ Len(store) \in Nat /\ store \in Seq(Requests)
      /\ [h EXCEPT !.stored = TRUE] \in [req : Requests, id : Nat, on : Nat, since : Nat, stored : BOOLEAN]
      /\ [h EXCEPT !.stored = TRUE].on = h.on
  BY TypeFacts DEF TypeInv
<1>3. Event \in Messages
  BY <1>2 DEF Event, Messages, EventMessages
<1>4. ASSUME NEW t \in DOMAIN sock
      PROVE  /\ sock'[t] \in Connections
             /\ sock'[t].up = sock[t].up /\ sock'[t].client = sock[t].client /\ sock'[t].server = sock[t].server
             /\ sock'[t].down = IF Stands(t) THEN Append(sock[t].down, Event) ELSE sock[t].down
  <2>1. sock'[t] = [sock[t] EXCEPT !.down = Pushed(t, Event)]
    BY <1>1
  <2> QED BY <1>3, <2>1, PushedOne
<1>5. DOMAIN sock' = DOMAIN sock
  BY <1>1
<1>6. sock' \in Seq(Connections)
  <2>1. sock' \in [1..Len(sock) -> Connections]
    <3>1. sock' = [t \in DOMAIN sock |-> sock'[t]]
      BY <1>1
    <3> QED BY <1>4, <3>1, TypeFacts
  <2> QED BY <2>1, TypeFacts
<1>7. store' \in Seq(Requests)
  BY <1>1, <1>2
<1>8. TypeInv'
  BY <1>1, <1>2, <1>5, <1>6, <1>7 DEF TypeInv
<1> QED BY <1>1, <1>4, <1>5, <1>8

(* What the connection that asked is sent: the reply. *)
Response(h, ok, changes) == [type |-> "response", id |-> h.id, of |-> h.req, ok |-> ok, changes |-> changes]

LEMMA RepliedMoves ==
  ASSUME TypeInv, NEW h \in serving, NEW ok \in BOOLEAN, NEW changes \in SUBSET Nat, Replied(h, ok, changes)
  PROVE  /\ TypeInv' /\ serving' = serving \ {h} /\ UNCHANGED <<client, req, store, heard>>
         /\ DOMAIN sock' = DOMAIN sock /\ Response(h, ok, changes) \in Messages
         /\ \A t \in DOMAIN sock :
              /\ sock'[t].up = sock[t].up /\ sock'[t].client = sock[t].client /\ sock'[t].server = sock[t].server
              /\ sock'[t].down = IF t = h.on /\ Stands(t) THEN Append(sock[t].down, Response(h, ok, changes)) ELSE sock[t].down
<1> DEFINE reply == Response(h, ok, changes)
           s == h.on
           out == [sock[s] EXCEPT !.down = Pushed(s, reply)]
<1>1. /\ serving' = serving \ {h} /\ UNCHANGED <<client, req, store, heard>> /\ sock' = [sock EXCEPT ![s] = out]
  BY DEF Replied, Response
<1>2. h.req \in Requests /\ h.id \in Nat /\ s \in DOMAIN sock
  BY DEF TypeInv
<1>3. reply \in Messages
  BY <1>2 DEF Response, Messages, Responses
<1> HIDE DEF reply, s
<1>4. /\ out \in Connections /\ out.up = sock[s].up /\ out.client = sock[s].client /\ out.server = sock[s].server
      /\ out.down = IF Stands(s) THEN Append(sock[s].down, reply) ELSE sock[s].down
  BY <1>2, <1>3, PushedOne
<1> HIDE DEF out
<1>5. /\ sock' \in Seq(Connections) /\ DOMAIN sock' = DOMAIN sock /\ sock'[s] = out
      /\ \A t \in DOMAIN sock : t # s => sock'[t] = sock[t]
  BY <1>1, <1>2, <1>4, OneConnection
<1>6. TypeInv'
  BY <1>1, <1>5 DEF TypeInv
<1> QED BY <1>1, <1>3, <1>4, <1>5, <1>6 DEF reply, s

LEMMA AnsweredMoves ==
  ASSUME TypeInv, NEW h \in serving, Answered(h)
  PROVE  h.stored = TRUE /\ Captured(h) \in SUBSET Nat /\ Replied(h, TRUE, Captured(h))
<1>1. h.stored \in BOOLEAN /\ h.since \in Nat /\ Len(store) \in Nat
  BY TypeFacts DEF TypeInv
<1>2. Captured(h) \in SUBSET Nat
  BY <1>1 DEF Captured
<1> QED BY <1>1, <1>2 DEF Answered

---------------------------------------------------------------------------
(* Answers. *)

(* Where request r travels under number n: to the server, at the server, or
   back. *)
AskedAs(r, n) == \E s \in DOMAIN sock : \E m \in Range(sock[s].up) : m.req = r /\ m.id = n
ServedAs(r, n) == \E h \in serving : h.req = r /\ h.id = n
IsResponse(m) == m.type = "response"
RepliedAs(r, n) == \E s \in DOMAIN sock : \E m \in Range(sock[s].down) : IsResponse(m) /\ m.of = r /\ m.id = n
Travels(r, n) == AskedAs(r, n) \/ ServedAs(r, n) \/ RepliedAs(r, n)

(* A number stands for one request: nothing else travels under the number of a
   request that waits for its answer. *)
Correlated ==
  /\ PendingSent
  /\ \A r \in Requests : req[r].pc = "sent" => req[r].id \in Nat /\ req[r].id < client.nextId
  /\ \A r, q \in Requests : req[r].pc = "sent" /\ req[q].pc = "sent" /\ req[r].id = req[q].id => r = q
  /\ \A r \in Requests, n \in Nat : Travels(r, n) =>
       /\ n < client.nextId /\ Gone(r)
       /\ \A q \in Requests : req[q].pc = "sent" /\ req[q].id = n => q = r
  /\ \A i \in DOMAIN store : Gone(store[i])

(* A request is in one place, and stored once. *)
OnTheWay(r) == \E s \in DOMAIN sock : \E k \in DOMAIN sock[s].up : sock[s].up[k].req = r
AtServer(r) == \E h \in serving : h.req = r
InStore(r) == \E i \in DOMAIN store : store[i] = r
Once ==
  /\ \A s, t \in DOMAIN sock : \A k \in DOMAIN sock[s].up, l \in DOMAIN sock[t].up :
       sock[s].up[k].req = sock[t].up[l].req => s = t /\ k = l
  /\ \A h, g \in serving : h.req = g.req => h = g
  /\ \A i, j \in DOMAIN store : store[i] = store[j] => i = j
  /\ \A r \in Requests : AtServer(r) \/ InStore(r) => ~OnTheWay(r)
  /\ \A h \in serving : h.stored <=> InStore(h.req)

(* Who is told that it resolved is stored. *)
Truthful ==
  /\ \A s \in DOMAIN sock : \A m \in Range(sock[s].down) : IsResponse(m) /\ m.ok => InStore(m.of)
  /\ \A r \in Requests : req[r].answer \in {None, r} /\ (req[r].pc = "resolved" => InStore(r))

WireInv == TypeInv /\ Correlated /\ Once /\ Truthful

---------------------------------------------------------------------------
LEMMA SeqRanges ==
  ASSUME NEW S, NEW q \in Seq(S)
  PROVE  /\ Range(q) \subseteq S /\ \A i \in DOMAIN q : q[i] \in Range(q)
         /\ \A x \in Range(q) : \E i \in DOMAIN q : x = q[i]
         /\ q # <<>> => Range(Tail(q)) \subseteq Range(q) /\ q[1] \in Range(q) /\ Head(q) = q[1]
         /\ \A e \in S : Range(Append(q, e)) = Range(q) \cup {e}
<1>1. /\ Range(q) \subseteq S /\ \A i \in DOMAIN q : q[i] \in Range(q)
      /\ \A x \in Range(q) : \E i \in DOMAIN q : x = q[i]
  BY DEF Range
<1>2. ASSUME q # <<>>
      PROVE  Range(Tail(q)) \subseteq Range(q) /\ q[1] \in Range(q) /\ Head(q) = q[1]
  BY <1>1, <1>2, HeadTailProperties, LenProperties DEF Range
<1>3. ASSUME NEW e \in S
      PROVE  Range(Append(q, e)) = Range(q) \cup {e}
  <2>1. /\ DOMAIN Append(q, e) = 1..(Len(q) + 1) /\ DOMAIN q = 1..Len(q) /\ Len(q) \in Nat
        /\ Append(q, e)[Len(q) + 1] = e /\ \A i \in 1..Len(q) : Append(q, e)[i] = q[i]
    BY AppendProperties, LenProperties
  <2> QED BY <2>1 DEF Range
<1> QED BY <1>1, <1>2, <1>3

LEMMA ExtendedRange ==
  ASSUME NEW up \in Seq(Asks), NEW rs \in Seq(Requests), NEW all \in Seq(Asks), Extended(up, rs, all)
  PROVE  \A i \in DOMAIN all : \/ i \in DOMAIN up /\ all[i] = up[i]
                               \/ \E k \in DOMAIN rs : i = Len(up) + k /\ all[i] = [req |-> rs[k], id |-> client.nextId + k - 1]
<1> TAKE i \in DOMAIN all
<1>1. /\ DOMAIN all = 1..(Len(up) + Len(rs)) /\ DOMAIN up = 1..Len(up) /\ DOMAIN rs = 1..Len(rs)
      /\ Len(up) \in Nat /\ Len(rs) \in Nat
  BY LenProperties DEF Extended
<1>2. CASE i <= Len(up)
  BY <1>1, <1>2 DEF Extended
<1>3. CASE ~(i <= Len(up))
  <2>1. i - Len(up) \in DOMAIN rs /\ i = Len(up) + (i - Len(up)) /\ i - Len(up) \in 1..Len(rs)
    BY <1>1, <1>3
  <2>2. all[Len(up) + (i - Len(up))] = [req |-> rs[i - Len(up)], id |-> client.nextId + (i - Len(up)) - 1]
    BY <2>1 DEF Extended
  <2> QED BY <2>1, <2>2
<1> QED BY <1>2, <1>3

LEMMA TravelTypes ==
  ASSUME TypeInv
  PROVE  /\ \A s \in DOMAIN sock : \A m \in Range(sock[s].up) : m.req \in Requests /\ m.id \in Nat
         /\ \A h \in serving : h.req \in Requests /\ h.id \in Nat /\ h.since \in Nat /\ h.on \in DOMAIN sock /\ h.stored \in BOOLEAN
         /\ \A s \in DOMAIN sock : \A m \in Range(sock[s].down) :
              /\ m \in Messages /\ (IsResponse(m) => m.of \in Requests /\ m.id \in Nat /\ m.changes \in SUBSET Nat)
         /\ \A i \in DOMAIN store : store[i] \in Requests
<1>1. ASSUME NEW s \in DOMAIN sock
      PROVE  Range(sock[s].up) \subseteq Asks /\ Range(sock[s].down) \subseteq Messages
  BY TypeFacts, SeqRanges
<1>2. \A m \in Messages : IsResponse(m) => m.of \in Requests /\ m.id \in Nat /\ m.changes \in SUBSET Nat
  BY DEF Messages, EventMessages, Responses, IsResponse
<1>3. \A h \in serving : h.req \in Requests /\ h.id \in Nat /\ h.since \in Nat /\ h.on \in DOMAIN sock /\ h.stored \in BOOLEAN
  BY DEF TypeInv
<1>4. \A i \in DOMAIN store : store[i] \in Requests
  BY TypeFacts, ElementOfSeq, LenProperties
<1> QED BY <1>1, <1>2, <1>3, <1>4 DEF Asks

(* A step that numbers nothing keeps numbers apart. *)
LEMMA StillCorrelated ==
  ASSUME TypeInv, Correlated, client'.nextId = client.nextId,
         client'.pending = {r \in client.pending : req'[r].pc = "sent"},
         \A r \in Requests : req'[r] = req[r] \/ (req'[r].pc # "sent" /\ (Gone(r) => Gone(r)')),
         \A r \in Requests, n \in Nat : Travels(r, n)' => Travels(r, n),
         \A i \in DOMAIN store' : \/ i \in DOMAIN store /\ store'[i] = store[i]
                                  \/ store'[i] \in Requests /\ \E n \in Nat : Travels(store'[i], n)
  PROVE  Correlated'
<1>1. \A r \in Requests : (req'[r].pc = "sent" => req'[r] = req[r]) /\ (Gone(r) => Gone(r)')
  BY DEF Gone
<1>2. PendingSent'
  BY <1>1 DEF Correlated, PendingSent
<1>3. \A i \in DOMAIN store' : req'[store'[i]].pc \notin {"idle", "connecting"}
  <2>1. ASSUME NEW i \in DOMAIN store'
        PROVE  store'[i] \in Requests /\ Gone(store'[i])
    BY <2>1, TravelTypes DEF Correlated
  <2> QED BY <1>1, <2>1 DEF Gone
<1>4. \A r \in Requests, n \in Nat : Travels(r, n)' =>
        /\ n < client'.nextId /\ Gone(r)'
        /\ \A q \in Requests : req'[q].pc = "sent" /\ req'[q].id = n => q = r
  BY <1>1 DEF Correlated
<1>5. /\ \A r \in Requests : req'[r].pc = "sent" => req'[r].id \in Nat /\ req'[r].id < client'.nextId
      /\ \A r, q \in Requests : req'[r].pc = "sent" /\ req'[q].pc = "sent" /\ req'[r].id = req'[q].id => r = q
  BY <1>1 DEF Correlated
<1> QED BY <1>2, <1>3, <1>4, <1>5 DEF Correlated, Gone

LEMMA StillKeeps ==
  ASSUME WireInv, TypeInv', Still
  PROVE  Correlated' /\ Once' /\ Truthful'
<1>0. TypeInv /\ Correlated /\ Once /\ Truthful /\ UNCHANGED <<serving, store, heard>>
  BY DEF WireInv, Still
<1>1. /\ \A s \in DOMAIN sock' : (s \in DOMAIN sock /\ sock'[s].up = sock[s].up) \/ sock'[s].up = <<>>
      /\ \A s \in DOMAIN sock' : (s \in DOMAIN sock /\ sock'[s].down = sock[s].down) \/ sock'[s].down = <<>>
  BY DEF Still
<1>2. Range(<<>>) = {} /\ DOMAIN <<>> = {}
  BY DEF Range
<1>3. \A r \in Requests, n \in Nat : Travels(r, n)' => Travels(r, n)
  <2>1. \A s \in DOMAIN sock' : \A m \in Range(sock'[s].up) : s \in DOMAIN sock /\ m \in Range(sock[s].up)
    BY <1>1, <1>2
  <2>2. \A s \in DOMAIN sock' : \A m \in Range(sock'[s].down) : s \in DOMAIN sock /\ m \in Range(sock[s].down)
    BY <1>1, <1>2
  <2> QED BY <1>0, <2>1, <2>2 DEF Travels, AskedAs, ServedAs, RepliedAs, IsResponse
<1>4. \A r \in Requests : req'[r] = req[r] \/ (req'[r].pc # "sent" /\ (Gone(r) => Gone(r)'))
  BY NewTypes DEF Still, Gone
<1>5. Correlated'
  <2>1. client'.nextId = client.nextId /\ client'.pending = {r \in client.pending : req'[r].pc = "sent"}
    BY DEF Still
  <2> QED BY <1>0, <1>3, <1>4, <2>1, StillCorrelated
<1>6. Once'
  <2>1. \A s \in DOMAIN sock' : \A k \in DOMAIN sock'[s].up : s \in DOMAIN sock /\ k \in DOMAIN sock[s].up /\ sock'[s].up[k] = sock[s].up[k]
    BY <1>1, <1>2
  <2> QED BY <1>0, <2>1 DEF Once, OnTheWay, AtServer, InStore
<1>7. Truthful'
  <2>1. \A r \in Requests : req'[r].answer \in {None, req[r].answer} /\ (req'[r].pc = "resolved" => req'[r] = req[r])
    BY NewTypes DEF Still
  <2>2. \A s \in DOMAIN sock' : \A m \in Range(sock'[s].down) : s \in DOMAIN sock /\ m \in Range(sock[s].down)
    BY <1>1, <1>2
  <2> QED BY <1>0, <2>1, <2>2 DEF Truthful, InStore, IsResponse
<1> QED BY <1>5, <1>6, <1>7

LEMMA SendsKeeps ==
  ASSUME WireInv, TypeInv', NEW rs, NEW s, Sends(rs, s)
  PROVE  Correlated' /\ Once' /\ Truthful'
<1>0. /\ TypeInv /\ Correlated /\ Once /\ Truthful /\ UNCHANGED <<serving, store, heard>> /\ client.nextId \in Nat
      /\ DOMAIN sock' = DOMAIN sock /\ s \in DOMAIN sock
      /\ \A t \in DOMAIN sock : sock'[t].down = sock[t].down /\ (t # s => sock'[t].up = sock[t].up)
      /\ rs \in Seq(Requests) /\ DOMAIN rs = 1..Len(rs) /\ Len(rs) \in Nat
      /\ \A i, j \in DOMAIN rs : rs[i] = rs[j] => i = j
      /\ \A k \in DOMAIN rs : rs[k] \in Requests /\ ~Gone(rs[k])
      /\ client'.nextId = client.nextId + Len(rs) /\ client'.pending = client.pending \cup Range(rs)
  BY TypeFacts, LenProperties DEF WireInv, Sends
<1>1. \A k \in DOMAIN rs :
        /\ req'[rs[k]].pc = "sent" /\ req'[rs[k]].id = client.nextId + k - 1
        /\ req'[rs[k]].answer = req[rs[k]].answer
  BY DEF Sends
<1>2. \A r \in Requests : req'[r] = req[r] \/ \E k \in DOMAIN rs : r = rs[k]
  BY DEF Sends, Range
<1>3. ASSUME NEW t \in DOMAIN sock, NEW i \in DOMAIN sock'[t].up
      PROVE  \/ i \in DOMAIN sock[t].up /\ sock'[t].up[i] = sock[t].up[i]
             \/ t = s /\ \E k \in DOMAIN rs : i = Len(sock[s].up) + k /\ sock'[t].up[i] = [req |-> rs[k], id |-> client.nextId + k - 1]
  <2>1. sock[s].up \in Seq(Asks)
    BY <1>0, TypeFacts
  <2>2. sock'[s].up \in Seq(Asks)
    <3>1. sock' \in Seq(Connections)
      BY DEF TypeInv
    <3>2. sock'[s] \in Connections
      BY <1>0, <3>1, ElementOfSeq, LenProperties
    <3> QED BY <3>2 DEF Connections
  <2>3. CASE t # s
    BY <1>0, <1>3, <2>3
  <2>4. CASE t = s /\ sock'[s].up = sock[s].up
    BY <1>3, <2>4
  <2>5. CASE t = s /\ Extended(sock[s].up, rs, sock'[s].up)
    <3>1. \A j \in DOMAIN sock'[s].up :
            \/ j \in DOMAIN sock[s].up /\ sock'[s].up[j] = sock[s].up[j]
            \/ \E k \in DOMAIN rs : j = Len(sock[s].up) + k /\ sock'[s].up[j] = [req |-> rs[k], id |-> client.nextId + k - 1]
      BY <1>0, <2>1, <2>2, <2>5, ExtendedRange
    <3> QED BY <1>3, <2>5, <3>1
  <2> QED BY <2>3, <2>4, <2>5 DEF Sends
<1>4. \A r \in Requests, n \in Nat : Travels(r, n)' =>
        Travels(r, n) \/ \E k \in DOMAIN rs : r = rs[k] /\ n = client.nextId + k - 1
  <2> TAKE r \in Requests, n \in Nat
  <2>1. ServedAs(r, n)' => ServedAs(r, n)
    BY <1>0 DEF ServedAs
  <2>2. RepliedAs(r, n)' => RepliedAs(r, n)
    BY <1>0 DEF RepliedAs, IsResponse
  <2>3. ASSUME AskedAs(r, n)'
        PROVE  AskedAs(r, n) \/ \E k \in DOMAIN rs : r = rs[k] /\ n = client.nextId + k - 1
    <3>1. PICK t \in DOMAIN sock : \E i \in DOMAIN sock'[t].up : sock'[t].up[i].req = r /\ sock'[t].up[i].id = n
      <4>1. PICK t \in DOMAIN sock : \E m \in Range(sock'[t].up) : m.req = r /\ m.id = n
        BY <1>0, <2>3 DEF AskedAs
      <4>2. \A m \in Range(sock'[t].up) : \E i \in DOMAIN sock'[t].up : m = sock'[t].up[i]
        BY DEF Range
      <4> QED BY <4>1, <4>2
    <3>2. PICK i \in DOMAIN sock'[t].up : sock'[t].up[i].req = r /\ sock'[t].up[i].id = n
      BY <3>1
    <3>3. CASE i \in DOMAIN sock[t].up /\ sock'[t].up[i] = sock[t].up[i]
      BY <3>2, <3>3 DEF AskedAs, Range
    <3>4. CASE \E k \in DOMAIN rs : sock'[t].up[i] = [req |-> rs[k], id |-> client.nextId + k - 1]
      BY <3>2, <3>4
    <3>5. \/ i \in DOMAIN sock[t].up /\ sock'[t].up[i] = sock[t].up[i]
          \/ \E k \in DOMAIN rs : sock'[t].up[i] = [req |-> rs[k], id |-> client.nextId + k - 1]
      BY <1>3
    <3> QED BY <3>3, <3>4, <3>5
  <2> QED BY <2>1, <2>2, <2>3 DEF Travels
<1>5. ASSUME NEW q \in Requests, req'[q].pc = "sent"
      PROVE  \/ req'[q] = req[q] /\ req[q].pc = "sent" /\ req'[q].id \in Nat /\ req'[q].id < client.nextId /\ \A k \in DOMAIN rs : q # rs[k]
             \/ \E k \in DOMAIN rs : q = rs[k] /\ req'[q].id = client.nextId + k - 1
  BY <1>0, <1>1, <1>2, <1>5 DEF Correlated, Gone
<1>6. Correlated'
  <2>1. PendingSent'
    <3>1. ASSUME NEW r \in Requests
          PROVE  r \in client'.pending <=> req'[r].pc = "sent"
      <4>1. r \in Range(rs) <=> \E k \in DOMAIN rs : r = rs[k]
        BY DEF Range
      <4> QED BY <1>0, <1>1, <1>2, <4>1 DEF Correlated, PendingSent
    <3>2. client'.pending \subseteq Requests
      BY TypeFacts, <1>0 DEF Range
    <3> QED BY <3>1, <3>2 DEF PendingSent
  <2>2. \A r \in Requests : req'[r].pc = "sent" => req'[r].id \in Nat /\ req'[r].id < client'.nextId
    <3> TAKE r \in Requests
    <3> HAVE req'[r].pc = "sent"
    <3> QED BY <1>0, <1>5
  <2>3. \A r, q \in Requests : req'[r].pc = "sent" /\ req'[q].pc = "sent" /\ req'[r].id = req'[q].id => r = q
    <3> SUFFICES ASSUME NEW r \in Requests, NEW q \in Requests,
                        req'[r].pc = "sent", req'[q].pc = "sent", req'[r].id = req'[q].id
        PROVE  r = q
      OBVIOUS
    <3>1. CASE req'[r] = req[r] /\ req[r].pc = "sent" /\ req'[r].id < client.nextId /\ req'[q] = req[q] /\ req[q].pc = "sent"
      BY <3>1 DEF WireInv, Correlated
    <3>2. CASE \E k \in DOMAIN rs : r = rs[k] /\ req'[r].id = client.nextId + k - 1
      <4>1. CASE \E k \in DOMAIN rs : q = rs[k] /\ req'[q].id = client.nextId + k - 1
        BY <1>0, <3>2, <4>1
      <4>2. CASE req'[q].id \in Nat /\ req'[q].id < client.nextId
        BY <1>0, <3>2, <4>2
      <4> QED BY <1>5, <4>1, <4>2
    <3>3. CASE \E k \in DOMAIN rs : q = rs[k] /\ req'[q].id = client.nextId + k - 1
      <4>2. CASE req'[r].id \in Nat /\ req'[r].id < client.nextId
        BY <1>0, <3>3, <4>2
      <4> QED BY <1>5, <3>2, <4>2
    <3> QED BY <1>5, <3>1, <3>2, <3>3
  <2>4. ASSUME NEW r \in Requests, NEW n \in Nat, Travels(r, n)'
        PROVE  /\ n < client'.nextId /\ Gone(r)'
               /\ \A q \in Requests : req'[q].pc = "sent" /\ req'[q].id = n => q = r
    <3>1. CASE Travels(r, n)
      <4>1. n < client.nextId /\ Gone(r) /\ \A q \in Requests : req[q].pc = "sent" /\ req[q].id = n => q = r
        BY <1>0, <3>1 DEF Correlated
      <4>2. req'[r] = req[r]
        BY <1>0, <1>2, <4>1
      <4>3. n < client'.nextId
        BY <1>0, <4>1
      <4>4. ASSUME NEW q \in Requests, req'[q].pc = "sent", req'[q].id = n
            PROVE  q = r
        BY <1>0, <1>5, <4>1, <4>4
      <4> QED BY <4>1, <4>2, <4>3, <4>4 DEF Gone
    <3>2. CASE \E k \in DOMAIN rs : r = rs[k] /\ n = client.nextId + k - 1
      <4>1. req'[r].pc = "sent" /\ req'[r].id = n
        BY <1>1, <3>2
      <4> QED BY <2>2, <2>3, <4>1 DEF Gone
    <3> QED BY <1>4, <2>4, <3>1, <3>2
  <2>5. \A i \in DOMAIN store' : req'[store'[i]].pc \notin {"idle", "connecting"}
    <3>1. ASSUME NEW i \in DOMAIN store
          PROVE  req'[store[i]] = req[store[i]] /\ Gone(store[i])
      BY <1>0, <1>2, TravelTypes DEF Correlated
    <3> QED BY <1>0, <3>1 DEF Gone
  <2> QED BY <2>1, <2>2, <2>3, <2>4, <2>5 DEF Correlated, Gone
<1>7. \A k \in DOMAIN rs : ~OnTheWay(rs[k]) /\ ~AtServer(rs[k]) /\ ~InStore(rs[k])
  <2> TAKE k \in DOMAIN rs
  <2>1. \A n \in Nat : ~Travels(rs[k], n)
    BY <1>0 DEF Correlated
  <2>2. ~OnTheWay(rs[k])
    <3>1. ASSUME NEW t \in DOMAIN sock, NEW i \in DOMAIN sock[t].up
          PROVE  sock[t].up[i] \in Range(sock[t].up) /\ sock[t].up[i].id \in Nat
      BY <1>0, TravelTypes, TypeFacts DEF Range
    <3> QED BY <2>1, <3>1 DEF OnTheWay, Travels, AskedAs
  <2>3. ~AtServer(rs[k])
    BY <1>0, <2>1, TravelTypes DEF AtServer, Travels, ServedAs
  <2> QED BY <1>0, <2>2, <2>3 DEF InStore, Correlated
<1>8. Once'
  <2>1. ASSUME NEW t \in DOMAIN sock, NEW u \in DOMAIN sock, NEW k \in DOMAIN sock'[t].up, NEW l \in DOMAIN sock'[u].up,
               sock'[t].up[k].req = sock'[u].up[l].req
        PROVE  t = u /\ k = l
    <3>1. CASE k \in DOMAIN sock[t].up /\ sock'[t].up[k] = sock[t].up[k] /\ l \in DOMAIN sock[u].up /\ sock'[u].up[l] = sock[u].up[l]
      BY <1>0, <2>1, <3>1 DEF Once
    <3>2. CASE k \in DOMAIN sock[t].up /\ sock'[t].up[k] = sock[t].up[k] /\ \E i \in DOMAIN rs : sock'[u].up[l] = [req |-> rs[i], id |-> client.nextId + i - 1]
      BY <1>7, <2>1, <3>2 DEF OnTheWay
    <3>3. CASE l \in DOMAIN sock[u].up /\ sock'[u].up[l] = sock[u].up[l] /\ \E i \in DOMAIN rs : sock'[t].up[k] = [req |-> rs[i], id |-> client.nextId + i - 1]
      BY <1>7, <2>1, <3>3 DEF OnTheWay
    <3>4. CASE /\ t = s /\ \E i \in DOMAIN rs : k = Len(sock[s].up) + i /\ sock'[t].up[k] = [req |-> rs[i], id |-> client.nextId + i - 1]
               /\ u = s /\ \E i \in DOMAIN rs : l = Len(sock[s].up) + i /\ sock'[u].up[l] = [req |-> rs[i], id |-> client.nextId + i - 1]
      BY <1>0, <2>1, <3>4
    <3> QED BY <1>3, <2>1, <3>1, <3>2, <3>3, <3>4
  <2>2. \A r \in Requests : OnTheWay(r)' => OnTheWay(r) \/ \E k \in DOMAIN rs : r = rs[k]
    <3>1. ASSUME NEW r \in Requests, NEW t \in DOMAIN sock, NEW i \in DOMAIN sock'[t].up, sock'[t].up[i].req = r
          PROVE  OnTheWay(r) \/ \E k \in DOMAIN rs : r = rs[k]
      <4>1. \/ i \in DOMAIN sock[t].up /\ sock'[t].up[i] = sock[t].up[i]
            \/ \E k \in DOMAIN rs : sock'[t].up[i] = [req |-> rs[k], id |-> client.nextId + k - 1]
        BY <1>3
      <4>2. CASE i \in DOMAIN sock[t].up /\ sock'[t].up[i] = sock[t].up[i]
        BY <3>1, <4>2 DEF OnTheWay
      <4>3. CASE \E k \in DOMAIN rs : sock'[t].up[i] = [req |-> rs[k], id |-> client.nextId + k - 1]
        BY <3>1, <4>3
      <4> QED BY <4>1, <4>2, <4>3
    <3> QED BY <1>0, <3>1 DEF OnTheWay
  <2>3. \A r \in Requests : (AtServer(r)' <=> AtServer(r)) /\ (InStore(r)' <=> InStore(r))
    BY <1>0 DEF AtServer, InStore
  <2>4. \A r \in Requests : AtServer(r)' \/ InStore(r)' => ~OnTheWay(r)'
    BY <1>0, <1>7, <2>2, <2>3 DEF Once
  <2>5. \A h \in serving' : h.stored <=> InStore(h.req)'
    BY <1>0 DEF Once, InStore
  <2> QED BY <1>0, <2>1, <2>4, <2>5 DEF Once
<1>9. Truthful'
  <2>1. \A r \in Requests : req'[r].answer = req[r].answer /\ (req'[r].pc = "resolved" => req'[r] = req[r])
    BY <1>1, <1>2
  <2> QED BY <1>0, <2>1 DEF Truthful, InStore, IsResponse
<1> QED BY <1>6, <1>8, <1>9

(* A message to a socket is the answer to the request it is matched with. *)
LEMMA ReceivedAnswer ==
  ASSUME WireInv, NEW s \in DOMAIN sock, Receive(s), NEW m, m = sock[s].down[1]
  PROVE  /\ m \in Messages /\ m \in Range(sock[s].down)
         /\ m.type = "event" =>
              /\ heard' = IF client.listening THEN [heard EXCEPT !.feed = Append(heard.feed, m.change)] ELSE heard
              /\ UNCHANGED <<client, req>>
         /\ m.type # "event" =>
              /\ IsResponse(m) /\ \A r \in client.pending : req[r].id = m.id => r = m.of
              /\ client'.nextId = client.nextId /\ client'.listening = client.listening /\ client'.closes = client.closes
              /\ client'.socket = client.socket /\ client'.connecting = client.connecting
              /\ \/ /\ client'.pending = client.pending /\ req' = req /\ heard' = heard
                 \/ /\ m.of \in client.pending /\ client'.pending = client.pending \ {m.of}
                    /\ req'[m.of].pc \in {"resolved", "rejected"} /\ (req'[m.of].pc = "resolved" => m.ok)
                    /\ req'[m.of].answer = m.of /\ req'[m.of].listened = req[m.of].listened
                    /\ \A r \in Requests : r # m.of => req'[r] = req[r]
                    /\ heard' = [heard EXCEPT !.replies = heard.replies \cup m.changes]
<1> DEFINE entry == {r \in client.pending : req[r].id = m.id}
<1>1. sock[s].down \in Seq(Messages) /\ sock[s].down # <<>> /\ TypeInv /\ Correlated
  BY TypeFacts DEF WireInv, Receive
<1>2. m \in Messages /\ m \in Range(sock[s].down) /\ Head(sock[s].down) = m
  BY <1>1, HeadTailProperties, LenProperties, SeqRanges
<1>3. m.type = "event" =>
        /\ heard' = IF client.listening THEN [heard EXCEPT !.feed = Append(heard.feed, m.change)] ELSE heard
        /\ UNCHANGED <<client, req>>
  BY <1>2 DEF Receive
<1>4. ASSUME m.type # "event"
      PROVE  /\ client' = [client EXCEPT !.pending = client.pending \ entry]
             /\ req' = [r \in Requests |-> IF r \in entry
                  THEN [New EXCEPT !.pc = IF m.ok THEN "resolved" ELSE "rejected",
                                   !.listened = req[r].listened, !.answer = m.of]
                  ELSE req[r]]
             /\ heard' = IF entry # {} THEN [heard EXCEPT !.replies = heard.replies \cup m.changes] ELSE heard
  <2> DEFINE message == Head(sock[s].down)
             matched == {r \in client.pending : req[r].id = message.id}
  <2>1. message.type # "event" =>
             /\ client' = [client EXCEPT !.pending = client.pending \ matched]
             /\ req' = [r \in Requests |-> IF r \in matched
                  THEN [New EXCEPT !.pc = IF message.ok THEN "resolved" ELSE "rejected",
                                   !.listened = req[r].listened, !.answer = message.of]
                  ELSE req[r]]
             /\ heard' = IF matched # {} THEN [heard EXCEPT !.replies = heard.replies \cup message.changes] ELSE heard
    BY DEF Receive
  <2>2. message = m /\ matched = entry
    BY <1>2
  <2> HIDE DEF message, matched, entry
  <2> QED BY <1>4, <2>1, <2>2
<1>5. ASSUME m.type # "event"
      PROVE  /\ IsResponse(m) /\ m.of \in Requests /\ m.id \in Nat /\ \A r \in client.pending : req[r].id = m.id => r = m.of
  <2>1. IsResponse(m) /\ m.of \in Requests /\ m.id \in Nat
    BY <1>2, <1>5 DEF IsResponse, Messages, EventMessages, Responses
  <2>2. Travels(m.of, m.id)
    BY <1>2, <2>1 DEF Travels, RepliedAs
  <2> QED BY <1>1, <2>1, <2>2 DEF Correlated, PendingSent
<1>6. ASSUME m.type # "event"
      PROVE  /\ client'.nextId = client.nextId /\ client'.listening = client.listening /\ client'.closes = client.closes
             /\ client'.socket = client.socket /\ client'.connecting = client.connecting
             /\ client'.pending = client.pending \ entry
  <2> HIDE DEF entry
  <2> QED BY <1>1, <1>4, <1>6 DEF TypeInv, Clients
<1>7. ASSUME m.type # "event", entry = {}
      PROVE  client'.pending = client.pending /\ req' = req /\ heard' = heard
  <2>1. req \in [Requests -> RequestStates]
    BY <1>1 DEF TypeInv
  <2>2. req' = [r \in Requests |-> req[r]]
    <3> HIDE DEF entry
    <3> QED BY <1>4, <1>7
  <2> HIDE DEF entry
  <2> QED BY <1>4, <1>6, <1>7, <2>1, <2>2
<1>8. ASSUME m.type # "event", entry # {}
      PROVE  /\ m.of \in client.pending /\ client'.pending = client.pending \ {m.of}
             /\ req'[m.of].pc \in {"resolved", "rejected"} /\ (req'[m.of].pc = "resolved" => m.ok)
             /\ req'[m.of].answer = m.of /\ req'[m.of].listened = req[m.of].listened
             /\ \A r \in Requests : r # m.of => req'[r] = req[r]
             /\ heard' = [heard EXCEPT !.replies = heard.replies \cup m.changes]
  <2>1. entry = {m.of} /\ m.of \in client.pending
    BY <1>5, <1>8
  <2> HIDE DEF entry
  <2>2. req'[m.of] = [New EXCEPT !.pc = IF m.ok THEN "resolved" ELSE "rejected",
                                 !.listened = req[m.of].listened, !.answer = m.of]
    BY <1>4, <1>5, <1>8, <2>1
  <2>3. /\ req'[m.of].pc \in {"resolved", "rejected"} /\ (req'[m.of].pc = "resolved" => m.ok)
        /\ req'[m.of].answer = m.of /\ req'[m.of].listened = req[m.of].listened
    BY <2>2 DEF New
  <2> QED BY <1>4, <1>5, <1>6, <1>8, <2>1, <2>3
<1> HIDE DEF entry
<1> QED BY <1>2, <1>3, <1>5, <1>6, <1>7, <1>8

LEMMA ReceivedEvent ==
  ASSUME TypeInv, NEW s \in DOMAIN sock, Receive(s), sock[s].down[1].type = "event"
  PROVE  client' = client /\ req' = req
<1>1. Head(sock[s].down) = sock[s].down[1]
  <2>1. sock[s].down # <<>> /\ \E S : sock[s].down \in Seq(S)
    BY TypeFacts DEF Receive
  <2> QED BY <2>1
<1>2. Head(sock[s].down).type = "event" => UNCHANGED <<client, req>>
  BY DEF Receive
<1> QED BY <1>1, <1>2

(* What a message does to the requests. *)
LEMMA ReceivedRequests ==
  ASSUME WireInv, NEW s \in DOMAIN sock, Receive(s), NEW m, m = sock[s].down[1]
  PROVE  /\ client'.nextId = client.nextId /\ client'.pending = {r \in client.pending : req'[r].pc = "sent"}
         /\ \A r \in Requests : \/ req'[r] = req[r]
                                \/ /\ req'[r].pc \in {"resolved", "rejected"} /\ req'[r].answer = r
                                   /\ r = m.of /\ IsResponse(m) /\ m \in Range(sock[s].down)
                                   /\ (req'[r].pc = "resolved" => m.ok)
<1>0. PendingSent /\ client.pending \subseteq Requests
  BY TypeFacts DEF WireInv, Correlated
<1>1. CASE m.type = "event"
  <2>1. client' = client /\ req' = req
    BY <1>1, ReceivedEvent DEF WireInv
  <2> QED BY <1>0, <2>1 DEF PendingSent
<1>2. CASE m.type # "event"
  <2>1. IsResponse(m) /\ m \in Range(sock[s].down) /\ client'.nextId = client.nextId
    BY <1>2, ReceivedAnswer
  <2>2. CASE client'.pending = client.pending /\ req' = req
    BY <1>0, <2>1, <2>2 DEF PendingSent
  <2>3. CASE /\ m.of \in client.pending /\ client'.pending = client.pending \ {m.of}
             /\ req'[m.of].pc \in {"resolved", "rejected"} /\ (req'[m.of].pc = "resolved" => m.ok)
             /\ req'[m.of].answer = m.of
             /\ \A r \in Requests : r # m.of => req'[r] = req[r]
    <3>3. ASSUME NEW r \in client.pending
          PROVE  r \in client'.pending <=> req'[r].pc = "sent"
      BY <1>0, <2>3 DEF PendingSent
    <3>4. client'.pending \subseteq client.pending
      BY <2>3
    <3>5. client'.pending = {r \in client.pending : req'[r].pc = "sent"}
      BY <3>3, <3>4
    <3> QED BY <2>1, <2>3, <3>5
  <2>4. \/ client'.pending = client.pending /\ req' = req
        \/ /\ m.of \in client.pending /\ client'.pending = client.pending \ {m.of}
           /\ req'[m.of].pc \in {"resolved", "rejected"} /\ (req'[m.of].pc = "resolved" => m.ok)
           /\ req'[m.of].answer = m.of
           /\ \A r \in Requests : r # m.of => req'[r] = req[r]
    BY <1>2, ReceivedAnswer
  <2> QED BY <1>2, <2>2, <2>3, <2>4
<1> QED BY <1>1, <1>2

LEMMA ReceiveKeeps ==
  ASSUME WireInv, NEW s \in DOMAIN sock, Receive(s)
  PROVE  Correlated' /\ Once' /\ Truthful'
<1> PICK m : m = sock[s].down[1]
  OBVIOUS
<1>0. /\ TypeInv /\ Correlated /\ Once /\ Truthful /\ serving' = serving /\ store' = store
      /\ DOMAIN sock' = DOMAIN sock /\ sock'[s] = [sock[s] EXCEPT !.down = Tail(sock[s].down)]
      /\ \A t \in DOMAIN sock : t # s => sock'[t] = sock[t]
      /\ sock[s] \in Connections /\ sock[s].down \in Seq(Messages) /\ sock[s].down # <<>>
  BY ReceiveMoves, TypeFacts DEF WireInv, Receive
<1>1. /\ \A t \in DOMAIN sock : sock'[t].up = sock[t].up
      /\ \A t \in DOMAIN sock : Range(sock'[t].down) \subseteq Range(sock[t].down)
  <2>1. sock'[s].up = sock[s].up /\ sock'[s].down = Tail(sock[s].down)
    BY <1>0 DEF Connections
  <2>2. Range(Tail(sock[s].down)) \subseteq Range(sock[s].down)
    BY <1>0, SeqRanges
  <2> QED BY <1>0, <2>1, <2>2
<1>2. \A r \in Requests, n \in Nat : Travels(r, n)' => Travels(r, n)
  BY <1>0, <1>1 DEF Travels, AskedAs, ServedAs, RepliedAs, IsResponse
<1>3. /\ client'.nextId = client.nextId /\ client'.pending = {r \in client.pending : req'[r].pc = "sent"}
      /\ \A r \in Requests : \/ req'[r] = req[r]
                             \/ /\ req'[r].pc \in {"resolved", "rejected"} /\ req'[r].answer = r
                                /\ r = m.of /\ IsResponse(m) /\ m \in Range(sock[s].down)
                                /\ (req'[r].pc = "resolved" => m.ok)
  BY ReceivedRequests
<1>4. Correlated'
  <2>1. \A r \in Requests : req'[r] = req[r] \/ (req'[r].pc # "sent" /\ (Gone(r) => Gone(r)'))
    BY <1>3 DEF Gone
  <2> QED BY <1>0, <1>2, <1>3, <2>1, StillCorrelated
<1>5. Once'
  BY <1>0, <1>1 DEF Once, OnTheWay, AtServer, InStore
<1>6. Truthful'
  <2>1. \A t \in DOMAIN sock' : \A e \in Range(sock'[t].down) : IsResponse(e) /\ e.ok => \E i \in DOMAIN store : store[i] = e.of
    BY <1>0, <1>1 DEF Truthful, InStore
  <2>2. ASSUME NEW r \in Requests
        PROVE  req'[r].answer \in {None, r} /\ (req'[r].pc = "resolved" => \E i \in DOMAIN store : store[i] = r)
    <3>1. CASE req'[r] = req[r]
      BY <1>0, <3>1 DEF Truthful, InStore
    <3>2. CASE /\ req'[r].pc \in {"resolved", "rejected"} /\ req'[r].answer = r
               /\ r = m.of /\ IsResponse(m) /\ m \in Range(sock[s].down)
               /\ (req'[r].pc = "resolved" => m.ok)
      BY <1>0, <3>2 DEF Truthful, InStore
    <3> QED BY <1>3, <3>1, <3>2
  <2> QED BY <1>0, <2>1, <2>2 DEF Truthful, InStore, IsResponse
<1> QED BY <1>4, <1>5, <1>6

LEMMA ServerReceivesKeeps ==
  ASSUME WireInv, NEW s \in DOMAIN sock, ServerReceives(s)
  PROVE  Correlated' /\ Once' /\ Truthful'
<1> DEFINE m == sock[s].up[1]
           h == [req |-> m.req, id |-> m.id, on |-> s, since |-> Since(m.req), stored |-> FALSE]
<1>0. /\ TypeInv /\ Correlated /\ Once /\ Truthful /\ UNCHANGED <<client, req, store, heard>>
      /\ DOMAIN sock' = DOMAIN sock /\ sock'[s] = [sock[s] EXCEPT !.up = Tail(sock[s].up)]
      /\ \A t \in DOMAIN sock : t # s => sock'[t] = sock[t]
      /\ sock[s] \in Connections /\ sock[s].up \in Seq(Asks) /\ sock[s].up # <<>>
      /\ serving' \in {serving, serving \cup {h}}
  BY ServerReceivesMoves, TypeFacts DEF WireInv
<1>1. m \in Range(sock[s].up) /\ Range(Tail(sock[s].up)) \subseteq Range(sock[s].up) /\ 1 \in DOMAIN sock[s].up
  BY <1>0, SeqRanges, HeadTailProperties, LenProperties
<1>2. sock'[s].up = Tail(sock[s].up) /\ \A t \in DOMAIN sock : sock'[t].down = sock[t].down
  BY <1>0 DEF Connections
<1> HIDE DEF m
<1>3. \A r \in Requests, n \in Nat : Travels(r, n)' => Travels(r, n)
  <2> TAKE r \in Requests, n \in Nat
  <2>1. AskedAs(r, n)' => AskedAs(r, n)
    BY <1>0, <1>1, <1>2 DEF AskedAs
  <2>2. RepliedAs(r, n)' => RepliedAs(r, n)
    BY <1>0, <1>2 DEF RepliedAs, IsResponse
  <2>3. ServedAs(r, n)' => ServedAs(r, n) \/ AskedAs(r, n)
    BY <1>0, <1>1 DEF ServedAs, AskedAs
  <2> QED BY <2>1, <2>2, <2>3 DEF Travels
<1>4. Correlated'
  <2>1. client'.pending = {r \in client.pending : req'[r].pc = "sent"}
    BY <1>0 DEF Correlated, PendingSent
  <2> QED BY <1>0, <1>3, <2>1, StillCorrelated
<1>5. ASSUME NEW t \in DOMAIN sock, NEW k \in DOMAIN sock'[t].up
      PROVE  \E j \in DOMAIN sock[t].up : sock'[t].up[k] = sock[t].up[j] /\ j = IF t = s THEN k + 1 ELSE k
  <2>1. CASE t # s
    BY <1>0, <1>5, <2>1
  <2>2. CASE t = s
    <3>1. k \in DOMAIN Tail(sock[s].up)
      BY <1>2, <1>5, <2>2
    <3>2. k + 1 \in DOMAIN sock[s].up /\ Tail(sock[s].up)[k] = sock[s].up[k + 1]
      BY <1>0, <3>1, HeadTailProperties, LenProperties
    <3> QED BY <1>2, <2>2, <3>2
  <2> QED BY <2>1, <2>2
<1>6. \A t \in DOMAIN sock : \A k \in DOMAIN sock'[t].up : k \in Nat
  <2>1. sock' \in Seq(Connections)
    BY ServerReceivesMoves DEF WireInv, TypeInv
  <2>2. ASSUME NEW t \in DOMAIN sock, NEW k \in DOMAIN sock'[t].up
        PROVE  k \in Nat
    <3>1. sock'[t].up \in Seq(Asks)
      <4>1. sock'[t] \in Connections
        BY <1>0, <2>1, ElementOfSeq, LenProperties
      <4> QED BY <4>1 DEF Connections
    <3> QED BY <2>2, <3>1, LenProperties
  <2> QED BY <2>2
<1>7. \A r \in Requests : OnTheWay(r)' => OnTheWay(r) /\ r # m.req
  <2> SUFFICES ASSUME NEW r \in Requests, NEW t \in DOMAIN sock, NEW k \in DOMAIN sock'[t].up, sock'[t].up[k].req = r
      PROVE  OnTheWay(r) /\ r # m.req
    BY <1>0 DEF OnTheWay
  <2>1. PICK j \in DOMAIN sock[t].up : sock'[t].up[k] = sock[t].up[j] /\ j = IF t = s THEN k + 1 ELSE k
    BY <1>5
  <2>2. OnTheWay(r)
    BY <2>1 DEF OnTheWay
  <2>3. ASSUME r = m.req
        PROVE  FALSE
    <3>1. t = s /\ j = 1
      BY <1>0, <1>1, <2>1, <2>3 DEF Once, m
    <3>2. k \in Nat /\ k + 1 = 1 /\ k \in DOMAIN Tail(sock[s].up)
      BY <1>2, <1>6, <2>1, <3>1
    <3>3. Tail(sock[s].up) \in Seq(Asks)
      BY <1>0, HeadTailProperties, LenProperties
    <3>4. k \in 1..Len(Tail(sock[s].up)) /\ Len(Tail(sock[s].up)) \in Nat
      BY <3>2, <3>3, LenProperties
    <3> QED BY <3>2, <3>4
  <2> QED BY <2>2, <2>3
<1>8. Once'
  <2>1. ASSUME NEW t \in DOMAIN sock, NEW u \in DOMAIN sock, NEW k \in DOMAIN sock'[t].up, NEW l \in DOMAIN sock'[u].up,
               sock'[t].up[k].req = sock'[u].up[l].req
        PROVE  t = u /\ k = l
    <3>1. PICK i \in DOMAIN sock[t].up : sock'[t].up[k] = sock[t].up[i] /\ i = IF t = s THEN k + 1 ELSE k
      BY <1>5
    <3>2. PICK j \in DOMAIN sock[u].up : sock'[u].up[l] = sock[u].up[j] /\ j = IF u = s THEN l + 1 ELSE l
      BY <1>5
    <3>3. t = u /\ i = j
      BY <1>0, <2>1, <3>1, <3>2 DEF Once
    <3>4. k \in Nat /\ l \in Nat
      BY <1>6
    <3> QED BY <3>1, <3>2, <3>3, <3>4
  <2>2. OnTheWay(m.req) /\ m.req \in Requests
    BY <1>0, <1>1, TravelTypes DEF OnTheWay, m
  <2>3. \A e, g \in serving' : e.req = g.req => e = g
    <3>1. ~AtServer(m.req)
      BY <1>0, <2>2 DEF Once
    <3>2. h.req = m.req
      OBVIOUS
    <3> HIDE DEF h
    <3> QED BY <1>0, <3>1, <3>2 DEF Once, AtServer
  <2>4. \A r \in Requests : (AtServer(r)' => AtServer(r) \/ r = m.req) /\ (InStore(r)' <=> InStore(r))
    BY <1>0 DEF AtServer, InStore
  <2>5. \A r \in Requests : AtServer(r)' \/ InStore(r)' => ~OnTheWay(r)'
    BY <1>0, <1>7, <2>2, <2>4 DEF Once
  <2>6. \A i, j \in DOMAIN store' : store'[i] = store'[j] => i = j
    BY <1>0 DEF Once
  <2>7. \A e \in serving' : e.stored <=> InStore(e.req)'
    <3>1. ~InStore(m.req)
      BY <1>0, <2>2 DEF Once
    <3> QED BY <1>0, <3>1 DEF Once, InStore
  <2> QED BY <1>0, <2>1, <2>3, <2>5, <2>6, <2>7 DEF Once
<1>9. Truthful'
  BY <1>0, <1>2 DEF Truthful, InStore, IsResponse
<1> QED BY <1>4, <1>8, <1>9

LEMMA StoredKeeps ==
  ASSUME WireInv, NEW h \in serving, Stored(h)
  PROVE  Correlated' /\ Once' /\ Truthful'
<1> DEFINE g == [h EXCEPT !.stored = TRUE]
<1>0. /\ TypeInv /\ Correlated /\ Once /\ Truthful /\ UNCHANGED <<client, req, heard>> /\ h.stored = FALSE
      /\ serving' = (serving \ {h}) \cup {g} /\ store' = Append(store, h.req) /\ DOMAIN sock' = DOMAIN sock
      /\ h.req \in Requests /\ h.id \in Nat /\ store \in Seq(Requests) /\ Len(store) \in Nat
  BY StoredMoves, TravelTypes, TypeFacts DEF WireInv
<1>1. g.req = h.req /\ g.id = h.id /\ g.stored = TRUE
  <2>1. h \in [req : Requests, id : Nat, on : Nat, since : Nat, stored : BOOLEAN]
    BY <1>0 DEF TypeInv
  <2> QED BY <2>1
<1> HIDE DEF g
<1>2. Event \in Messages /\ ~IsResponse(Event)
  BY <1>0 DEF Event, Messages, EventMessages, IsResponse
<1>3. ASSUME NEW t \in DOMAIN sock
      PROVE  sock'[t].up = sock[t].up /\ Range(sock'[t].down) \subseteq Range(sock[t].down) \cup {Event}
  <2>1. sock[t].down \in Seq(Messages)
    BY <1>0, TypeFacts
  <2>2. Range(Append(sock[t].down, Event)) = Range(sock[t].down) \cup {Event}
    BY <1>2, <2>1, SeqRanges
  <2>3. sock'[t].up = sock[t].up /\ sock'[t].down \in {sock[t].down, Append(sock[t].down, Event)}
    BY <1>0, StoredMoves
  <2> QED BY <2>2, <2>3
<1>4. /\ DOMAIN store' = 1..(Len(store) + 1) /\ DOMAIN store = 1..Len(store)
      /\ store'[Len(store) + 1] = h.req /\ \A i \in DOMAIN store : store'[i] = store[i]
  BY <1>0, AppendProperties, LenProperties
<1>5. \A i \in DOMAIN store' : (i \in DOMAIN store /\ store'[i] = store[i]) \/ (i = Len(store) + 1 /\ store'[i] = h.req)
  BY <1>0, <1>4
<1>6. \A r \in Requests, n \in Nat : Travels(r, n)' => Travels(r, n)
  <2> TAKE r \in Requests, n \in Nat
  <2>1. AskedAs(r, n)' => AskedAs(r, n)
    BY <1>0, <1>3 DEF AskedAs
  <2>2. RepliedAs(r, n)' => RepliedAs(r, n)
    BY <1>0, <1>2, <1>3 DEF RepliedAs, IsResponse
  <2>3. ServedAs(r, n)' => ServedAs(r, n)
    BY <1>0, <1>1 DEF ServedAs
  <2> QED BY <2>1, <2>2, <2>3 DEF Travels
<1>7. Travels(h.req, h.id)
  BY DEF Travels, ServedAs
<1>8. Correlated'
  <2>1. client'.pending = {r \in client.pending : req'[r].pc = "sent"}
    BY <1>0 DEF Correlated, PendingSent
  <2> QED BY <1>0, <1>5, <1>6, <1>7, <2>1, StillCorrelated
<1>9. \A r \in Requests : /\ (OnTheWay(r)' <=> OnTheWay(r)) /\ (AtServer(r)' <=> AtServer(r))
                          /\ (InStore(r)' <=> InStore(r) \/ r = h.req)
  <2> TAKE r \in Requests
  <2>1. OnTheWay(r)' <=> OnTheWay(r)
    BY <1>0, <1>3 DEF OnTheWay
  <2>2. AtServer(r)' <=> AtServer(r)
    BY <1>0, <1>1 DEF AtServer
  <2>3. InStore(r)' <=> InStore(r) \/ r = h.req
    BY <1>0, <1>4, <1>5 DEF InStore
  <2> QED BY <2>1, <2>2, <2>3
<1>10. AtServer(h.req) /\ ~OnTheWay(h.req) /\ ~InStore(h.req)
  BY <1>0 DEF AtServer, Once
<1>11. Once'
  <2>1. \A s, t \in DOMAIN sock' : \A k \in DOMAIN sock'[s].up, l \in DOMAIN sock'[t].up :
          sock'[s].up[k].req = sock'[t].up[l].req => s = t /\ k = l
    BY <1>0, <1>3 DEF Once
  <2>2. \A e \in serving \ {h} : e.req # h.req
    BY <1>0 DEF Once
  <2>3. \A e, f \in serving' : e.req = f.req => e = f
    BY <1>0, <1>1, <2>2 DEF Once
  <2>4. \A i, j \in DOMAIN store' : store'[i] = store'[j] => i = j
    BY <1>0, <1>5, <1>10 DEF Once, InStore
  <2>5. \A r \in Requests : AtServer(r)' \/ InStore(r)' => ~OnTheWay(r)'
    BY <1>0, <1>9, <1>10 DEF Once
  <2>6. \A e \in serving' : e.stored <=> InStore(e.req)'
    <3>1. ASSUME NEW e \in serving \ {h}
          PROVE  e.stored <=> InStore(e.req)'
      BY <1>0, <1>9, <2>2, TravelTypes DEF Once
    <3>2. InStore(g.req)'
      BY <1>0, <1>1, <1>9
    <3> QED BY <1>0, <1>1, <3>1, <3>2
  <2> QED BY <2>1, <2>3, <2>4, <2>5, <2>6 DEF Once
<1>12. Truthful'
  <2>1. ASSUME NEW s \in DOMAIN sock, NEW m \in Range(sock'[s].down), IsResponse(m), m.ok
        PROVE  \E i \in DOMAIN store' : store'[i] = m.of
    <3>1. m \in Range(sock[s].down)
      BY <1>2, <1>3, <2>1
    <3>2. InStore(m.of)
      BY <1>0, <2>1, <3>1 DEF Truthful
    <3> QED BY <1>0, <1>4, <3>2 DEF InStore
  <2>2. \A r \in Requests : req'[r].answer \in {None, r} /\ (req'[r].pc = "resolved" => InStore(r)')
    BY <1>0, <1>9 DEF Truthful
  <2> QED BY <1>0, <2>1, <2>2 DEF Truthful, InStore, IsResponse
<1> QED BY <1>8, <1>11, <1>12

LEMMA RepliedKeeps ==
  ASSUME WireInv, NEW h \in serving, NEW ok \in BOOLEAN, NEW changes \in SUBSET Nat, Replied(h, ok, changes), ok => h.stored
  PROVE  Correlated' /\ Once' /\ Truthful'
<1> DEFINE reply == Response(h, ok, changes)
<1>0. /\ TypeInv /\ Correlated /\ Once /\ Truthful /\ UNCHANGED <<client, req, store, heard>>
      /\ serving' = serving \ {h} /\ DOMAIN sock' = DOMAIN sock
      /\ h.req \in Requests /\ h.id \in Nat
  BY RepliedMoves, TravelTypes DEF WireInv
<1>1. reply.of = h.req /\ reply.id = h.id /\ reply.ok = ok /\ reply \in Messages
  BY <1>0, RepliedMoves DEF Response
<1>2. ASSUME NEW t \in DOMAIN sock
      PROVE  sock'[t].up = sock[t].up /\ Range(sock'[t].down) \subseteq Range(sock[t].down) \cup {reply}
  <2>1. sock[t].down \in Seq(Messages)
    BY <1>0, TypeFacts
  <2>2. Range(Append(sock[t].down, reply)) = Range(sock[t].down) \cup {reply}
    <3> HIDE DEF reply
    <3> QED BY <1>1, <2>1, SeqRanges
  <2>3. sock'[t].up = sock[t].up /\ sock'[t].down \in {sock[t].down, Append(sock[t].down, reply)}
    BY <1>0, RepliedMoves
  <2> QED BY <2>2, <2>3
<1> HIDE DEF reply
<1>3. \A r \in Requests, n \in Nat : Travels(r, n)' => Travels(r, n)
  <2> TAKE r \in Requests, n \in Nat
  <2>1. AskedAs(r, n)' => AskedAs(r, n)
    BY <1>0, <1>2 DEF AskedAs
  <2>2. RepliedAs(r, n)' => RepliedAs(r, n) \/ ServedAs(r, n)
    BY <1>0, <1>1, <1>2 DEF RepliedAs, ServedAs, IsResponse
  <2>3. ServedAs(r, n)' => ServedAs(r, n)
    BY <1>0 DEF ServedAs
  <2> QED BY <2>1, <2>2, <2>3 DEF Travels
<1>4. Correlated'
  <2>1. client'.pending = {r \in client.pending : req'[r].pc = "sent"}
    BY <1>0 DEF Correlated, PendingSent
  <2> QED BY <1>0, <1>3, <2>1, StillCorrelated
<1>5. Once'
  <2>1. \A r \in Requests : (OnTheWay(r)' <=> OnTheWay(r)) /\ (AtServer(r)' => AtServer(r)) /\ (InStore(r)' <=> InStore(r))
    BY <1>0, <1>2 DEF OnTheWay, AtServer, InStore
  <2>2. \A e \in serving' : e.stored <=> InStore(e.req)'
    BY <1>0 DEF Once, InStore
  <2> QED BY <1>0, <1>2, <2>1, <2>2 DEF Once
<1>6. Truthful'
  <2>1. ok => InStore(h.req)
    BY <1>0 DEF Once
  <2> QED BY <1>0, <1>1, <1>2, <2>1 DEF Truthful, InStore, IsResponse
<1> QED BY <1>4, <1>5, <1>6

---------------------------------------------------------------------------
LEMMA InitWire == Init => WireInv
<1> SUFFICES ASSUME Init PROVE WireInv
  OBVIOUS
<1>1. /\ sock = <<>> /\ store = <<>> /\ serving = {} /\ client.pending = {} /\ DOMAIN sock = {} /\ DOMAIN store = {}
      /\ \A r \in Requests : req[r].pc = "idle" /\ req[r].answer = None
  BY DEF Init, New
<1>2. Correlated
  BY <1>1 DEF Correlated, PendingSent, Travels, AskedAs, ServedAs, RepliedAs
<1>3. Once /\ Truthful
  BY <1>1 DEF Once, Truthful, AtServer, InStore
<1> QED BY <1>2, <1>3, InitTypes DEF WireInv

LEMMA NextWire == WireInv /\ [Next]_vars => WireInv'
<1> SUFFICES ASSUME WireInv, [Next]_vars PROVE WireInv'
  OBVIOUS
<1>0. TypeInv /\ PendingSent
  BY DEF WireInv, Correlated
<1>1. ASSUME NEW r \in Requests, Request(r)
      PROVE  WireInv'
  BY <1>0, <1>1, RequestMoves, StillKeeps, SendsKeeps DEF WireInv
<1>2. CASE Subscribe
  BY <1>0, <1>2, SubscribeStill, StillKeeps DEF WireInv
<1>3. CASE Close \/ \E s \in DOMAIN sock : Errored(s) \/ Dropped(s) \/ Closed(s) \/ Accepted(s) \/ ServerCloses(s)
  BY <1>0, <1>3, EndingsStill, StillKeeps DEF WireInv
<1>4. ASSUME NEW s \in DOMAIN sock, Opened(s)
      PROVE  WireInv'
  BY <1>0, <1>4, OpenedMoves, SendsKeeps DEF WireInv
<1>5. ASSUME NEW s \in DOMAIN sock, Receive(s)
      PROVE  WireInv'
  BY <1>0, <1>5, ReceiveMoves, ReceiveKeeps DEF WireInv
<1>6. ASSUME NEW s \in DOMAIN sock, ServerReceives(s)
      PROVE  WireInv'
  BY <1>0, <1>6, ServerReceivesMoves, ServerReceivesKeeps DEF WireInv
<1>7. ASSUME NEW h \in serving, Stored(h) \/ Answered(h) \/ Refused(h)
      PROVE  WireInv'
  <2>1. CASE Stored(h)
    BY <1>0, <2>1, StoredMoves, StoredKeeps DEF WireInv
  <2>2. ASSUME NEW ok \in BOOLEAN, NEW changes \in SUBSET Nat, Replied(h, ok, changes), ok => h.stored
        PROVE  WireInv'
    BY <1>0, <2>2, RepliedMoves, RepliedKeeps DEF WireInv
  <2>3. CASE Answered(h)
    BY <1>0, <2>2, <2>3, AnsweredMoves
  <2>4. CASE Refused(h)
    BY <2>2, <2>4 DEF Refused
  <2> QED BY <1>7, <2>1, <2>3, <2>4
<1>8. CASE UNCHANGED vars
  <2>1. TypeInv'
    BY <1>0, <1>8 DEF vars, TypeInv
  <2>2. Still
    BY <1>0, <1>8, TypeFacts DEF vars, Still, PendingSent
  <2> QED BY <2>1, <2>2, StillKeeps DEF WireInv
<1> QED BY <1>1, <1>2, <1>3, <1>4, <1>5, <1>6, <1>7, <1>8 DEF Next, Events, Sockets

(* "Request/response messages are correlated by id" (WebSocketTransport.ts:32):
   ids are counted by the transport and answers are looked up by id alone, on
   whichever socket they arrive. All the same a request is only ever given the
   answer to itself, and one that resolves is stored, once. *)
THEOREM AnswersAlwaysMatch == Spec => []AnswersMatch
<1>1. WireInv => AnswersMatch
  <2> SUFFICES ASSUME WireInv, NEW r \in Requests
      PROVE  /\ req[r].answer \in {None, r}
             /\ Cardinality({i \in DOMAIN store : store[i] = r}) <= 1
             /\ req[r].pc = "resolved" => \E i \in DOMAIN store : store[i] = r
    BY DEF AnswersMatch
  <2>1. req[r].answer \in {None, r} /\ (req[r].pc = "resolved" => \E i \in DOMAIN store : store[i] = r)
    BY DEF WireInv, Truthful, InStore
  <2>2. Cardinality({i \in DOMAIN store : store[i] = r}) <= 1
    <3> DEFINE P == {i \in DOMAIN store : store[i] = r}
    <3>1. P = {} \/ \E i : P = {i}
      BY DEF WireInv, Once
    <3> HIDE DEF P
    <3>2. Cardinality(P) \in {0, 1}
      BY <3>1, FS_EmptySet, FS_Singleton
    <3>3. Cardinality(P) <= 1
      BY <3>2
    <3> QED BY <3>3 DEF P
  <2> QED BY <2>1, <2>2
<1> QED BY <1>1, InitWire, NextWire, PTL DEF Spec

---------------------------------------------------------------------------
(* The feed and the answers. *)

(* The change i was heard, or its event is before position k of what socket s
   has still to deliver. *)
HeardBefore(i, s, k) ==
  \/ i \in Range(heard.feed)
  \/ \E j \in DOMAIN sock[s].down : j < k /\ sock[s].down[j].type = "event" /\ sock[s].down[j].change = i

AllBefore(i, s) == HeardBefore(i, s, Len(sock[s].down) + 1)

Announced ==
  /\ \A r \in Requests : req[r].listened => client.listening
  /\ \A h \in serving : h.since <= Len(store)
  /\ \A h \in serving, i \in DOMAIN store : h.stored /\ store[i] = h.req =>
       /\ h.since < i
       /\ req[h.req].listened /\ Stands(h.on) => AllBefore(i, h.on)
  /\ \A s \in DOMAIN sock : \A k \in DOMAIN sock[s].down, i \in DOMAIN store :
       IsResponse(sock[s].down[k]) /\ sock[s].down[k].ok /\ store[i] = sock[s].down[k].of =>
         /\ store[i] \in Commands => i \in sock[s].down[k].changes
         /\ req[store[i]].listened => HeardBefore(i, s, k)

(* A request is served on a connection the server has, or had. *)
Attended ==
  /\ \A s \in DOMAIN sock : sock[s].client = "connecting" => sock[s].server = "none"
  /\ \A h \in serving : sock[h.on].server \in {"ready", "gone"}

HeardInv == WireInv /\ Attended /\ Announced /\ HeardBeforeAnswered

(* Connections do not come back: one that the server's messages no longer go
   out on stays so, and is not emptied before. *)
StandsNoLonger ==
  \A h \in serving : Stands(h.on)' => Stands(h.on) /\ sock'[h.on].down = sock[h.on].down

Goes(c, d) ==
  /\ d.client = "connecting" => c.client = "connecting" /\ d.server = c.server
  /\ c.server \in {"ready", "gone"} /\ c.client # "connecting" =>
       d.server \in {c.server, "gone"} /\ (d.client \in Live => c.client \in Live)
  /\ d.client = "closed" \/ d.down = c.down

LEMMA Going ==
  ASSUME TypeInv, Attended, UNCHANGED serving, DOMAIN sock \subseteq DOMAIN sock',
         \A s \in DOMAIN sock : Goes(sock[s], sock'[s]),
         \A s \in DOMAIN sock' \ DOMAIN sock : sock'[s] = NewSocket
  PROVE  Attended' /\ StandsNoLonger
<1>1. ASSUME NEW s \in DOMAIN sock', sock'[s].client = "connecting"
      PROVE  sock'[s].server = "none"
  BY <1>1, NewTypes DEF Attended, Goes
<1>2. ASSUME NEW h \in serving
      PROVE  /\ sock'[h.on].server \in {"ready", "gone"}
             /\ Stands(h.on)' => Stands(h.on) /\ sock'[h.on].down = sock[h.on].down
  <2>1. h.on \in DOMAIN sock
    BY DEF TypeInv
  <2>2. sock[h.on].server \in {"ready", "gone"} /\ sock[h.on].client # "connecting"
    BY <2>1 DEF Attended
  <2>3. Goes(sock[h.on], sock'[h.on])
    BY <2>1
  <2> QED BY <2>2, <2>3 DEF Goes, Stands, Live
<1> QED BY <1>1, <1>2 DEF Attended, StandsNoLonger

(* A step that changes one connection. *)
LEMMA OneGoes ==
  ASSUME TypeInv, Attended, UNCHANGED serving, NEW s \in DOMAIN sock, NEW e, sock' = [sock EXCEPT ![s] = e], Goes(sock[s], e)
  PROVE  Attended' /\ StandsNoLonger
<1>1. DOMAIN sock' = DOMAIN sock /\ \A t \in DOMAIN sock : Goes(sock[t], sock'[t])
  BY TypeFacts DEF Goes
<1> QED BY <1>1, Going

(* Nor do the steps that open connections. *)
LEMMA ConnectGoes ==
  ASSUME TypeInv, Attended, UNCHANGED serving, sock' = sock \/ sock' = Append(sock, NewSocket)
  PROVE  Attended' /\ StandsNoLonger
<1>1. CASE sock' = sock
  BY <1>1, Going DEF Goes
<1>2. CASE sock' = Append(sock, NewSocket)
  <2>1. /\ DOMAIN sock \subseteq DOMAIN sock' /\ \A t \in DOMAIN sock : sock'[t] = sock[t]
        /\ \A t \in DOMAIN sock' \ DOMAIN sock : sock'[t] = NewSocket
    BY <1>2, OneMore
  <2>2. \A t \in DOMAIN sock : Goes(sock[t], sock'[t])
    BY <2>1 DEF Goes
  <2> QED BY <2>1, <2>2, Going
<1> QED BY <1>1, <1>2

LEMMA QuietGoes ==
  ASSUME TypeInv, Attended,
         \/ \E r \in Requests : Request(r)
         \/ Subscribe \/ Close
         \/ \E s \in DOMAIN sock : Opened(s) \/ Errored(s) \/ Dropped(s) \/ Closed(s) \/ Accepted(s) \/ ServerCloses(s)
         \/ UNCHANGED vars
  PROVE  Attended' /\ StandsNoLonger
<1>1. UNCHANGED serving
  BY DEF Request, Subscribe, Close, Opened, Errored, Dropped, Closed, Accepted, ServerCloses, vars
<1>2. ASSUME NEW r \in Requests, Request(r)
      PROVE  Attended' /\ StandsNoLonger
  <2> DEFINE s == Reusable
  <2>1. \/ sock' = sock \/ sock' = Append(sock, NewSocket)
        \/ s # None /\ sock' = [sock EXCEPT ![s] = [sock[s] EXCEPT !.up = SentOn(<<r>>, s, @)]]
    BY <1>2 DEF Request, Connect
  <2>2. CASE s # None /\ sock' = [sock EXCEPT ![s] = [sock[s] EXCEPT !.up = SentOn(<<r>>, s, @)]]
    <3>1. s \in DOMAIN sock
      BY <2>2 DEF TypeInv, Reusable
    <3> DEFINE e == [sock[s] EXCEPT !.up = SentOn(<<r>>, s, @)]
    <3>2. Goes(sock[s], e)
      <4>1. sock[s] \in Connections
        BY <3>1, TypeFacts
      <4> QED BY <4>1 DEF Goes, Connections
    <3>3. sock' = [sock EXCEPT ![s] = e]
      BY <2>2
    <3> HIDE DEF e, s
    <3> QED BY <1>1, <3>1, <3>2, <3>3, OneGoes
  <2> QED BY <1>1, <2>1, <2>2, ConnectGoes
<1>3. CASE Subscribe
  BY <1>1, <1>3, ConnectGoes DEF Subscribe
<1>4. CASE Close
  <2>1. \/ sock' = sock
        \/ client.socket # None /\ sock[client.socket].client = "open"
           /\ sock' = [sock EXCEPT ![client.socket] = [sock[client.socket] EXCEPT !.client = "closing"]]
    BY <1>4 DEF Close, IsOpen
  <2>2. CASE client.socket # None /\ sock[client.socket].client = "open"
             /\ sock' = [sock EXCEPT ![client.socket] = [sock[client.socket] EXCEPT !.client = "closing"]]
    <3>1. client.socket \in DOMAIN sock
      BY <2>2 DEF TypeInv
    <3>2. Goes(sock[client.socket], [sock[client.socket] EXCEPT !.client = "closing"])
      <4>1. sock[client.socket] \in Connections
        BY <3>1, TypeFacts
      <4> QED BY <2>2, <4>1 DEF Goes, Connections, Live
    <3> QED BY <1>1, <2>2, <3>1, <3>2, OneGoes
  <2> QED BY <1>1, <2>1, <2>2, ConnectGoes
<1>5. ASSUME NEW s \in DOMAIN sock, Opened(s) \/ Errored(s) \/ Dropped(s) \/ Closed(s) \/ Accepted(s) \/ ServerCloses(s)
      PROVE  Attended' /\ StandsNoLonger
  <2>1. \E e : sock' = [sock EXCEPT ![s] = e] /\ Goes(sock[s], e)
    <3>0. sock[s] \in Connections /\ (sock[s].client = "connecting" => sock[s].server = "none")
      BY TypeFacts DEF Attended
    <3>1. CASE Opened(s)
      <4>1. /\ sock[s].client = "connecting"
            /\ sock' = [sock EXCEPT ![s] = [sock[s] EXCEPT !.client = "open", !.server = IF client.late THEN "accepting" ELSE "ready",
                                                           !.up = SentOn(Waiting(s), s, @)]]
        BY <3>1 DEF Opened
      <4>2. Goes(sock[s], [sock[s] EXCEPT !.client = "open", !.server = IF client.late THEN "accepting" ELSE "ready",
                                          !.up = SentOn(Waiting(s), s, @)])
        BY <3>0, <4>1 DEF Goes, Connections
      <4> QED BY <4>1, <4>2
    <3>2. CASE Errored(s)
      <4>1. /\ sock[s].client \in {"connecting", "open"}
            /\ sock' = [sock EXCEPT ![s] = [sock[s] EXCEPT !.client = IF @ = "connecting" THEN "failed" ELSE "closing"]]
        BY <3>2 DEF Errored
      <4>2. Goes(sock[s], [sock[s] EXCEPT !.client = IF @ = "connecting" THEN "failed" ELSE "closing"])
        BY <3>0, <4>1 DEF Goes, Connections, Live
      <4> QED BY <4>1, <4>2
    <3>3. CASE Dropped(s)
      <4>1. /\ sock[s].client = "open" /\ sock' = [sock EXCEPT ![s] = [sock[s] EXCEPT !.client = "closing", !.server = "gone"]]
        BY <3>3 DEF Dropped
      <4>2. Goes(sock[s], [sock[s] EXCEPT !.client = "closing", !.server = "gone"])
        BY <3>0, <4>1 DEF Goes, Connections, Live
      <4> QED BY <4>1, <4>2
    <3>4. CASE Closed(s)
      <4>1. sock' = [sock EXCEPT ![s] = [sock[s] EXCEPT !.client = "closed", !.down = <<>>]]
        BY <3>4 DEF Closed
      <4>2. Goes(sock[s], [sock[s] EXCEPT !.client = "closed", !.down = <<>>])
        BY <3>0 DEF Goes, Connections, Live
      <4> QED BY <4>1, <4>2
    <3>5. CASE Accepted(s)
      <4>1. /\ sock[s].server = "accepting"
            /\ \/ sock' = [sock EXCEPT ![s] = [sock[s] EXCEPT !.server = "ready"]]
               \/ sock' = [sock EXCEPT ![s] = [sock[s] EXCEPT !.server = "gone", !.client = IF @ = "open" THEN "closing" ELSE @]]
        BY <3>5 DEF Accepted
      <4>2. /\ Goes(sock[s], [sock[s] EXCEPT !.server = "ready"])
            /\ Goes(sock[s], [sock[s] EXCEPT !.server = "gone", !.client = IF @ = "open" THEN "closing" ELSE @])
        BY <3>0, <4>1 DEF Goes, Connections
      <4> QED BY <4>1, <4>2
    <3>6. CASE ServerCloses(s)
      <4>1. /\ sock[s].client \in {"closing", "closed"} /\ sock' = [sock EXCEPT ![s] = [sock[s] EXCEPT !.server = "gone"]]
        BY <3>6 DEF ServerCloses
      <4>2. Goes(sock[s], [sock[s] EXCEPT !.server = "gone"])
        BY <3>0, <4>1 DEF Goes, Connections
      <4> QED BY <4>1, <4>2
    <3> QED BY <1>5, <3>1, <3>2, <3>3, <3>4, <3>5, <3>6
  <2> QED BY <1>1, <2>1, OneGoes
<1>6. CASE UNCHANGED vars
  BY <1>1, <1>6, ConnectGoes DEF vars
<1> QED BY <1>2, <1>3, <1>4, <1>5, <1>6

(* The steps that move a message leave the connections as they are. *)
LEMMA MovesAttended ==
  ASSUME TypeInv, Attended, DOMAIN sock' = DOMAIN sock,
         \A s \in DOMAIN sock : sock'[s].client = sock[s].client /\ sock'[s].server = sock[s].server,
         \A h \in serving' : (\E g \in serving : h.on = g.on) \/ (h.on \in DOMAIN sock /\ sock[h.on].server = "ready")
  PROVE  Attended' /\ \A s \in DOMAIN sock : Stands(s)' <=> Stands(s)
BY DEF Attended, TypeInv, Stands

LEMMA RepliesGone ==
  ASSUME WireInv, NEW s \in DOMAIN sock, NEW k \in DOMAIN sock[s].down, IsResponse(sock[s].down[k])
  PROVE  sock[s].down[k].of \in Requests /\ Gone(sock[s].down[k].of)
<1>1. sock[s].down[k] \in Range(sock[s].down)
  BY DEF Range
<1>2. /\ sock[s].down[k].of \in Requests /\ sock[s].down[k].id \in Nat
  BY <1>1, TravelTypes DEF WireInv
<1>3. Travels(sock[s].down[k].of, sock[s].down[k].id)
  BY <1>1 DEF Travels, RepliedAs
<1> QED BY <1>2, <1>3 DEF WireInv, Correlated

(* A step that only begins and fails requests. *)
LEMMA NothingHeard ==
  ASSUME HeardInv, TypeInv', StandsNoLonger, UNCHANGED <<serving, store, heard>>, client.listening => client'.listening,
         \A r \in Requests :
           \/ req'[r] = req[r]
           \/ req'[r].pc # "resolved" /\ ~req'[r].listened
           \/ req'[r].pc # "resolved" /\ ~Gone(r) /\ (req'[r].listened => req[r].listened \/ client.listening),
         \A s \in DOMAIN sock' : sock'[s].down = <<>> \/ (s \in DOMAIN sock /\ sock'[s].down = sock[s].down)
  PROVE  Announced' /\ HeardBeforeAnswered'
<1>0. WireInv /\ Announced /\ HeardBeforeAnswered
  BY DEF HeardInv
<1>1. \A r \in Requests : req'[r].listened => client'.listening
  BY <1>0 DEF Announced
<1>2. ASSUME NEW s \in DOMAIN sock', NEW k \in DOMAIN sock'[s].down, NEW i \in DOMAIN store',
             IsResponse(sock'[s].down[k]), sock'[s].down[k].ok, store'[i] = sock'[s].down[k].of
      PROVE  /\ store'[i] \in Commands => i \in sock'[s].down[k].changes
             /\ req'[store'[i]].listened => HeardBefore(i, s, k)'
  <2>1. s \in DOMAIN sock /\ sock'[s].down = sock[s].down
    BY <1>2
  <2>2. store[i] \in Requests /\ Gone(store[i])
    BY <1>0, <1>2, <2>1, RepliesGone
  <2>3. /\ store[i] \in Commands => i \in sock[s].down[k].changes
        /\ req[store[i]].listened => HeardBefore(i, s, k)
    BY <1>0, <1>2, <2>1 DEF Announced
  <2>4. req'[store[i]].listened => req[store[i]].listened
    BY <2>2
  <2>5. HeardBefore(i, s, k) => HeardBefore(i, s, k)'
    BY <2>1 DEF HeardBefore, AllBefore
  <2> QED BY <2>1, <2>3, <2>4, <2>5
<1>5. ASSUME NEW h \in serving', NEW i \in DOMAIN store', h.stored, store'[i] = h.req
      PROVE  /\ h.since < i
             /\ req'[h.req].listened /\ Stands(h.on)' => AllBefore(i, h.on)'
  <2>1. h.req \in Requests /\ Gone(h.req)
    <3>1. h.req \in Requests /\ h.id \in Nat
      BY <1>0, TravelTypes DEF WireInv
    <3>2. Travels(h.req, h.id)
      BY DEF Travels, ServedAs
    <3> QED BY <1>0, <3>1, <3>2 DEF WireInv, Correlated
  <2>2. /\ h.since < i
        /\ req[h.req].listened /\ Stands(h.on) => AllBefore(i, h.on)
    BY <1>0, <1>5 DEF Announced
  <2>3. req'[h.req].listened => req[h.req].listened
    BY <2>1
  <2>4. Stands(h.on)' => Stands(h.on) /\ sock'[h.on].down = sock[h.on].down
    BY DEF StandsNoLonger
  <2>5. sock'[h.on].down = sock[h.on].down /\ AllBefore(i, h.on)
          => AllBefore(i, h.on)'
    BY DEF HeardBefore, AllBefore
  <2> QED BY <2>2, <2>3, <2>4, <2>5
<1>3. Announced'
  BY <1>0, <1>1, <1>2, <1>5 DEF Announced, IsResponse
<1>4. HeardBeforeAnswered'
  BY <1>0 DEF HeardBeforeAnswered
<1> QED BY <1>3, <1>4

LEMMA StillHeard ==
  ASSUME HeardInv, TypeInv', StandsNoLonger, Still
  PROVE  Announced' /\ HeardBeforeAnswered'
<1>1. \A r \in Requests :
           \/ req'[r] = req[r]
           \/ req'[r].pc # "resolved" /\ ~req'[r].listened
           \/ req'[r].pc # "resolved" /\ ~Gone(r) /\ (req'[r].listened => req[r].listened \/ client.listening)
  BY NewTypes DEF Still, Gone
<1>2. \A s \in DOMAIN sock' : sock'[s].down = <<>> \/ (s \in DOMAIN sock /\ sock'[s].down = sock[s].down)
  BY DEF Still
<1>3. UNCHANGED <<serving, store, heard>> /\ (client.listening => client'.listening)
  BY DEF Still
<1> QED BY <1>1, <1>2, <1>3, NothingHeard

LEMMA SendsHeard ==
  ASSUME HeardInv, TypeInv', StandsNoLonger, NEW rs, NEW s, Sends(rs, s)
  PROVE  Announced' /\ HeardBeforeAnswered'
<1>1. ASSUME NEW r \in Requests
      PROVE  \/ req'[r] = req[r]
             \/ req'[r].pc # "resolved" /\ ~Gone(r) /\ (req'[r].listened => req[r].listened \/ client.listening)
  <2>1. CASE r \in Range(rs)
    <3>1. PICK k \in DOMAIN rs : r = rs[k]
      BY <2>1 DEF Range
    <3>2. req'[r].pc = "sent" /\ ~Gone(r) /\ req'[r].listened \in {req[r].listened, client.listening}
      BY <3>1 DEF Sends
    <3> QED BY <3>2
  <2>2. CASE r \notin Range(rs)
    BY <2>2 DEF Sends
  <2> QED BY <2>1, <2>2
<1>2. /\ UNCHANGED <<serving, store, heard>> /\ client'.listening = client.listening
      /\ \A t \in DOMAIN sock' : t \in DOMAIN sock /\ sock'[t].down = sock[t].down
  BY DEF Sends
<1> QED BY <1>1, <1>2, NothingHeard

LEMMA ReceiveHeard ==
  ASSUME HeardInv, NEW s \in DOMAIN sock, Receive(s)
  PROVE  Attended' /\ Announced' /\ HeardBeforeAnswered'
<1> PICK m : m = sock[s].down[1]
  OBVIOUS
<1>0. /\ WireInv /\ Announced /\ HeardBeforeAnswered /\ TypeInv /\ serving' = serving /\ store' = store
      /\ DOMAIN sock' = DOMAIN sock /\ sock'[s] = [sock[s] EXCEPT !.down = Tail(sock[s].down)]
      /\ \A t \in DOMAIN sock : t # s => sock'[t] = sock[t]
      /\ sock[s] \in Connections /\ sock[s].down \in Seq(Messages) /\ sock[s].down # <<>>
      /\ heard \in [feed : Seq(Nat), replies : SUBSET Nat]
  BY ReceiveMoves, TypeFacts DEF HeardInv, WireInv, Receive, TypeInv
<1>1. sock'[s].down = Tail(sock[s].down)
  BY <1>0 DEF Connections
<1>2. /\ \A k \in DOMAIN Tail(sock[s].down) : k + 1 \in DOMAIN sock[s].down /\ Tail(sock[s].down)[k] = sock[s].down[k + 1] /\ k \in Nat
      /\ 1 \in DOMAIN sock[s].down
      /\ DOMAIN sock[s].down = 1..Len(sock[s].down) /\ Len(sock[s].down) \in Nat
      /\ DOMAIN Tail(sock[s].down) = 1..(Len(sock[s].down) - 1)
  <2>1. Tail(sock[s].down) \in Seq(Messages) /\ Len(Tail(sock[s].down)) = Len(sock[s].down) - 1
    BY <1>0, HeadTailProperties, LenProperties
  <2>2. DOMAIN Tail(sock[s].down) = 1..(Len(sock[s].down) - 1)
    BY <2>1, LenProperties
  <2>3. /\ DOMAIN sock[s].down = 1..Len(sock[s].down) /\ Len(sock[s].down) \in Nat /\ 1 \in DOMAIN sock[s].down
    BY <1>0, HeadTailProperties, LenProperties
  <2>4. \A k \in DOMAIN Tail(sock[s].down) : k + 1 \in DOMAIN sock[s].down /\ Tail(sock[s].down)[k] = sock[s].down[k + 1]
    BY <1>0, HeadTailProperties, LenProperties
  <2> QED BY <2>2, <2>3, <2>4
<1>3. /\ m.type # "event" => IsResponse(m)
      /\ client'.listening = client.listening
      /\ \A r \in Requests : (req'[r].listened => req[r].listened)
      /\ Range(heard.feed) \subseteq Range(heard'.feed)
      /\ heard.replies \subseteq heard'.replies
      /\ m.type = "event" /\ client.listening => m.change \in Range(heard'.feed)
      /\ \A r \in Requests : req'[r].pc = "resolved" => \/ req[r].pc = "resolved" /\ req'[r] = req[r]
                                                        \/ r = m.of /\ IsResponse(m) /\ m.ok /\ m.changes \subseteq heard'.replies
  <2>1. CASE m.type = "event"
    <3>1. client' = client /\ req' = req
      BY <1>0, <2>1, ReceivedEvent
    <3>2. heard' = IF client.listening THEN [heard EXCEPT !.feed = Append(heard.feed, m.change)] ELSE heard
      BY <1>0, <2>1, ReceivedAnswer
    <3>3. m.change \in Nat
      BY <1>0, <2>1, ReceivedAnswer DEF Messages, EventMessages, Responses
    <3>4. Range(Append(heard.feed, m.change)) = Range(heard.feed) \cup {m.change}
      <4>1. heard.feed \in Seq(Nat)
        BY <1>0
      <4> QED BY <3>3, <4>1, SeqRanges
    <3>5. CASE client.listening
      <4>1. heard'.feed = Append(heard.feed, m.change) /\ heard'.replies = heard.replies
        BY <1>0, <3>2, <3>5
      <4> QED BY <2>1, <3>1, <3>4, <4>1
    <3>6. CASE ~client.listening
      BY <2>1, <3>1, <3>2, <3>6
    <3> QED BY <3>5, <3>6
  <2>2. CASE m.type # "event"
    <3>1. IsResponse(m) /\ client'.listening = client.listening
      BY <1>0, <2>2, ReceivedAnswer
    <3>2. CASE client'.pending = client.pending /\ req' = req /\ heard' = heard
      BY <2>2, <3>1, <3>2
    <3>3. CASE /\ m.of \in client.pending /\ client'.pending = client.pending \ {m.of}
               /\ req'[m.of].pc \in {"resolved", "rejected"} /\ (req'[m.of].pc = "resolved" => m.ok)
               /\ req'[m.of].answer = m.of /\ req'[m.of].listened = req[m.of].listened
               /\ \A r \in Requests : r # m.of => req'[r] = req[r]
               /\ heard' = [heard EXCEPT !.replies = heard.replies \cup m.changes]
      <4>1. heard'.feed = heard.feed /\ heard'.replies = heard.replies \cup m.changes
        BY <1>0, <3>3
      <4> QED BY <2>2, <3>1, <3>3, <4>1
    <3>4. \/ client'.pending = client.pending /\ req' = req /\ heard' = heard
          \/ /\ m.of \in client.pending /\ client'.pending = client.pending \ {m.of}
             /\ req'[m.of].pc \in {"resolved", "rejected"} /\ (req'[m.of].pc = "resolved" => m.ok)
             /\ req'[m.of].answer = m.of /\ req'[m.of].listened = req[m.of].listened
             /\ \A r \in Requests : r # m.of => req'[r] = req[r]
             /\ heard' = [heard EXCEPT !.replies = heard.replies \cup m.changes]
      BY <1>0, <2>2, ReceivedAnswer
    <3> QED BY <3>2, <3>3, <3>4
  <2> QED BY <2>1, <2>2
<1>4. ASSUME NEW i, NEW t \in DOMAIN sock, NEW k \in Nat, client.listening,
             HeardBefore(i, t, IF t = s THEN k + 1 ELSE k)
      PROVE  HeardBefore(i, t, k)'
  <2>1. CASE i \in Range(heard.feed)
    BY <1>3, <2>1 DEF HeardBefore, AllBefore
  <2>2. CASE t # s
    BY <1>0, <1>3, <1>4, <2>2 DEF HeardBefore, AllBefore
  <2>3. CASE t = s /\ i \notin Range(heard.feed)
    <3>1. PICK j \in DOMAIN sock[s].down : j < k + 1 /\ sock[s].down[j].type = "event" /\ sock[s].down[j].change = i
      BY <1>4, <2>3 DEF HeardBefore, AllBefore
    <3>2. CASE j = 1
      BY <1>3, <1>4, <3>1, <3>2 DEF HeardBefore, AllBefore
    <3>3. CASE j # 1
      <4>1. j \in Nat
        BY <1>2, <3>1
      <4>2. j - 1 \in DOMAIN Tail(sock[s].down) /\ (j - 1) + 1 = j /\ j - 1 < k
        BY <1>2, <3>1, <3>3, <4>1
      <4>3. Tail(sock[s].down)[j - 1] = sock[s].down[j]
        BY <1>2, <4>2
      <4> QED BY <1>1, <2>3, <3>1, <4>2, <4>3 DEF HeardBefore, AllBefore
    <3> QED BY <3>2, <3>3
  <2> QED BY <2>1, <2>2, <2>3
<1>5. ASSUME NEW t \in DOMAIN sock', NEW k \in DOMAIN sock'[t].down, NEW i \in DOMAIN store',
             IsResponse(sock'[t].down[k]), sock'[t].down[k].ok, store'[i] = sock'[t].down[k].of
      PROVE  /\ store'[i] \in Commands => i \in sock'[t].down[k].changes
             /\ req'[store'[i]].listened => HeardBefore(i, t, k)'
  <2>0. k \in Nat
    <3>1. sock'[t].down \in Seq(Messages)
      <4>1. sock'[t] \in Connections
        BY <1>0, ReceiveMoves, TypeFacts, ElementOfSeq, LenProperties DEF TypeInv
      <4> QED BY <4>1 DEF Connections
    <3> QED BY <1>5, <3>1, LenProperties
  <2>1. PICK p : p = IF t = s THEN k + 1 ELSE k
    OBVIOUS
  <2>2. t \in DOMAIN sock /\ p \in DOMAIN sock[t].down /\ sock'[t].down[k] = sock[t].down[p] /\ store[i] \in Requests
    BY <1>0, <1>1, <1>2, <1>5, <2>1, TravelTypes
  <2>3. /\ store[i] \in Commands => i \in sock[t].down[p].changes
        /\ req[store[i]].listened => HeardBefore(i, t, p)
    BY <1>0, <1>5, <2>2 DEF Announced
  <2>4. req'[store[i]].listened => req[store[i]].listened /\ client.listening
    BY <1>0, <1>3, <2>2 DEF Announced
  <2> QED BY <1>0, <1>4, <1>5, <2>0, <2>1, <2>2, <2>3, <2>4
<1>9. /\ \A t \in DOMAIN sock : sock'[t].client = sock[t].client /\ sock'[t].server = sock[t].server
      /\ Attended' /\ \A t \in DOMAIN sock : Stands(t)' <=> Stands(t)
  <2>1. \A t \in DOMAIN sock : sock'[t].client = sock[t].client /\ sock'[t].server = sock[t].server
    BY <1>0 DEF Connections
  <2> QED BY <1>0, <2>1, MovesAttended DEF HeardInv
<1>10. ASSUME NEW h \in serving', NEW i \in DOMAIN store', h.stored, store'[i] = h.req
       PROVE  /\ h.since < i
              /\ req'[h.req].listened /\ Stands(h.on)' => AllBefore(i, h.on)'
  <2>1. h.req \in Requests /\ h.on \in DOMAIN sock
    BY <1>0, TravelTypes
  <2>2. /\ h.since < i
        /\ req[h.req].listened /\ Stands(h.on) => AllBefore(i, h.on)
    BY <1>0, <1>10 DEF Announced
  <2>3. req'[h.req].listened => req[h.req].listened /\ client.listening
    BY <1>0, <1>3, <2>1 DEF Announced
  <2>4. PICK k : k = Len(sock'[h.on].down) + 1
    OBVIOUS
  <2>5. k \in Nat /\ Len(sock[h.on].down) + 1 = IF h.on = s THEN k + 1 ELSE k
    <3>1. CASE h.on = s
      <4>1. Tail(sock[s].down) \in Seq(Messages) /\ Len(Tail(sock[s].down)) = Len(sock[s].down) - 1
        BY <1>0, HeadTailProperties, LenProperties
      <4>2. sock'[h.on].down = Tail(sock[s].down) /\ sock[h.on].down = sock[s].down
        BY <1>1, <3>1
      <4>3. k = (Len(sock[s].down) - 1) + 1
        BY <2>4, <4>1, <4>2
      <4> QED BY <1>2, <3>1, <4>2, <4>3
    <3>2. CASE h.on # s
      <4>1. Len(sock[h.on].down) \in Nat /\ sock'[h.on] = sock[h.on]
        BY <1>0, <2>1, <3>2, TypeFacts, LenProperties
      <4> QED BY <2>4, <3>2, <4>1
    <3> QED BY <3>1, <3>2
  <2>6. AllBefore(i, h.on) <=> HeardBefore(i, h.on, IF h.on = s THEN k + 1 ELSE k)
    BY <2>5 DEF AllBefore
  <2>7. req'[h.req].listened /\ Stands(h.on)' => HeardBefore(i, h.on, k)'
    BY <1>4, <1>9, <2>1, <2>2, <2>3, <2>5, <2>6
  <2>8. HeardBefore(i, h.on, k)' => AllBefore(i, h.on)'
    BY <2>4 DEF AllBefore
  <2> QED BY <2>2, <2>7, <2>8
<1>6. Announced'
  <2>1. \A r \in Requests : req'[r].listened => client'.listening
    BY <1>0, <1>3 DEF Announced
  <2>2. \A h \in serving' : h.since <= Len(store')
    BY <1>0 DEF Announced
  <2> QED BY <1>5, <1>10, <2>1, <2>2 DEF Announced, IsResponse
<1>7. ASSUME NEW r \in Requests, NEW i \in DOMAIN store, req'[r].pc = "resolved", store[i] = r, req'[r].listened \/ r \in Commands
      PROVE  i \in Range(heard'.feed) \cup heard'.replies
  <2>1. CASE req[r].pc = "resolved" /\ req'[r] = req[r]
    BY <1>0, <1>3, <1>7, <2>1 DEF HeardBeforeAnswered
  <2>2. CASE r = m.of /\ IsResponse(m) /\ m.ok /\ m.changes \subseteq heard'.replies
    <3>1. /\ r \in Commands => i \in m.changes
          /\ req[r].listened => HeardBefore(i, s, 1)
      BY <1>0, <1>2, <1>7, <2>2 DEF Announced
    <3>2. HeardBefore(i, s, 1) => i \in Range(heard.feed)
      BY <1>2 DEF HeardBefore, AllBefore
    <3> QED BY <1>3, <1>7, <2>2, <3>1, <3>2
  <2> QED BY <1>3, <1>7, <2>1, <2>2
<1>8. HeardBeforeAnswered'
  BY <1>0, <1>7 DEF HeardBeforeAnswered
<1> QED BY <1>6, <1>8, <1>9

LEMMA ServerReceivesHeard ==
  ASSUME HeardInv, NEW s \in DOMAIN sock, ServerReceives(s)
  PROVE  Attended' /\ Announced' /\ HeardBeforeAnswered'
<1> DEFINE new == [req |-> sock[s].up[1].req, id |-> sock[s].up[1].id, on |-> s, since |-> Since(sock[s].up[1].req), stored |-> FALSE]
<1>0. /\ TypeInv /\ Attended /\ Announced /\ HeardBeforeAnswered /\ UNCHANGED <<client, req, store, heard>>
      /\ DOMAIN sock' = DOMAIN sock /\ sock'[s] = [sock[s] EXCEPT !.up = Tail(sock[s].up)]
      /\ \A t \in DOMAIN sock : t # s => sock'[t] = sock[t]
      /\ sock[s] \in Connections /\ Len(store) \in Nat
      /\ serving' \in {serving, serving \cup {new}}
  BY ServerReceivesMoves, TypeFacts DEF HeardInv, WireInv
<1>1. \A t \in DOMAIN sock : /\ sock'[t].down = sock[t].down
                             /\ sock'[t].client = sock[t].client /\ sock'[t].server = sock[t].server
  BY <1>0 DEF Connections
<1>2. new.since <= Len(store) /\ new.stored = FALSE /\ new.on = s
  BY <1>0 DEF Since
<1>3. serving' = serving \/ sock[s].server = "ready"
  BY DEF ServerReceives
<1> HIDE DEF new
<1>4. Attended' /\ \A t \in DOMAIN sock : Stands(t)' <=> Stands(t)
  <2>1. \A h \in serving' : (\E g \in serving : h.on = g.on) \/ (h.on \in DOMAIN sock /\ sock[h.on].server = "ready")
    BY <1>0, <1>2, <1>3
  <2> QED BY <1>0, <1>1, <2>1, MovesAttended
<1>5. \A t \in DOMAIN sock : /\ \A i, k : HeardBefore(i, t, k) => HeardBefore(i, t, k)'
                             /\ \A i : AllBefore(i, t) => AllBefore(i, t)'
  BY <1>0, <1>1 DEF HeardBefore, AllBefore
<1>6. \A h \in serving' : h.since <= Len(store)
  BY <1>0, <1>2 DEF Announced
<1>7. ASSUME NEW h \in serving', NEW i \in DOMAIN store', h.stored, store'[i] = h.req
      PROVE  /\ h.since < i
             /\ req'[h.req].listened /\ Stands(h.on)' => AllBefore(i, h.on)'
  <2>1. h \in serving /\ h.on \in DOMAIN sock
    BY <1>0, <1>2, <1>7 DEF TypeInv
  <2>2. /\ h.since < i
        /\ req[h.req].listened /\ Stands(h.on) => AllBefore(i, h.on)
    BY <1>0, <1>7, <2>1 DEF Announced
  <2> QED BY <1>0, <1>1, <1>4, <1>5, <2>1, <2>2
<1>8. Announced'
  BY <1>0, <1>1, <1>5, <1>6, <1>7 DEF Announced, IsResponse
<1> QED BY <1>0, <1>4, <1>8 DEF HeardBeforeAnswered

(* What a push of m does to what has still to be delivered. *)
LEMMA PushedHeard ==
  ASSUME TypeInv, heard' = heard, NEW t \in DOMAIN sock, NEW m,
         sock'[t].down = sock[t].down \/ sock'[t].down = Append(sock[t].down, m)
  PROVE  /\ DOMAIN sock[t].down = 1..Len(sock[t].down) /\ Len(sock[t].down) \in Nat
         /\ DOMAIN sock[t].down \subseteq DOMAIN sock'[t].down
         /\ \A k \in DOMAIN sock[t].down : sock'[t].down[k] = sock[t].down[k]
         /\ \A k \in DOMAIN sock'[t].down : k \in DOMAIN sock[t].down \/ (k = Len(sock[t].down) + 1 /\ sock'[t].down[k] = m)
         /\ \A i, k : HeardBefore(i, t, k) => HeardBefore(i, t, k)'
         /\ \A i : AllBefore(i, t) => AllBefore(i, t)'
<1>1. sock[t].down \in Seq(Messages) /\ DOMAIN sock[t].down = 1..Len(sock[t].down) /\ Len(sock[t].down) \in Nat
  BY TypeFacts, LenProperties
<1>2. /\ DOMAIN sock[t].down \subseteq DOMAIN sock'[t].down /\ Len(sock'[t].down) \in {Len(sock[t].down), Len(sock[t].down) + 1}
      /\ \A k \in DOMAIN sock[t].down : sock'[t].down[k] = sock[t].down[k]
      /\ \A k \in DOMAIN sock'[t].down : k \in DOMAIN sock[t].down \/ (k = Len(sock[t].down) + 1 /\ sock'[t].down[k] = m)
  <2>1. CASE sock'[t].down = sock[t].down
    BY <1>1, <2>1
  <2>2. CASE sock'[t].down = Append(sock[t].down, m)
    <3>1. /\ DOMAIN sock'[t].down = 1..(Len(sock[t].down) + 1) /\ Len(sock'[t].down) = Len(sock[t].down) + 1
          /\ sock'[t].down[Len(sock[t].down) + 1] = m
          /\ \A k \in 1..Len(sock[t].down) : sock'[t].down[k] = sock[t].down[k]
      BY <1>1, <2>2
    <3> QED BY <1>1, <3>1
  <2> QED BY <2>1, <2>2
<1>3. \A i, k : HeardBefore(i, t, k) => HeardBefore(i, t, k)'
  BY <1>2 DEF HeardBefore, AllBefore
<1>4. ASSUME NEW i, AllBefore(i, t)
      PROVE  AllBefore(i, t)'
  BY <1>1, <1>2, <1>4 DEF HeardBefore, AllBefore
<1> QED BY <1>1, <1>2, <1>3, <1>4

LEMMA StoredHeard ==
  ASSUME HeardInv, NEW h \in serving, Stored(h)
  PROVE  Attended' /\ Announced' /\ HeardBeforeAnswered'
<1> DEFINE g == [h EXCEPT !.stored = TRUE]
<1>13. PICK n : n = Len(store) + 1
  OBVIOUS
<1>0. /\ WireInv /\ TypeInv /\ Attended /\ Announced /\ HeardBeforeAnswered /\ Once /\ Truthful /\ UNCHANGED <<client, req, heard>>
      /\ h.stored = FALSE /\ serving' = (serving \ {h}) \cup {g} /\ store' = Append(store, h.req) /\ DOMAIN sock' = DOMAIN sock
      /\ h.req \in Requests /\ h.on \in DOMAIN sock /\ store \in Seq(Requests) /\ Len(store) \in Nat /\ h.since \in Nat
  BY StoredMoves, TravelTypes, TypeFacts DEF HeardInv, WireInv
<1>1. g.req = h.req /\ g.on = h.on /\ g.since = h.since
  <2>1. h \in [req : Requests, id : Nat, on : Nat, since : Nat, stored : BOOLEAN]
    BY <1>0 DEF TypeInv
  <2> QED BY <2>1
<1> HIDE DEF g
<1>2. Event.type = "event" /\ Event.change = n /\ ~IsResponse(Event)
  BY <1>13 DEF IsResponse, Event
<1>3. /\ DOMAIN store' = 1..n /\ DOMAIN store = 1..Len(store) /\ Len(store') = n
      /\ store'[n] = h.req /\ \A i \in DOMAIN store : store'[i] = store[i]
  BY <1>0, <1>13, AppendProperties, LenProperties
<1>4. ~InStore(h.req) /\ \A e \in serving \ {h} : e.req # h.req
  BY <1>0 DEF Once
<1>5. \A t \in DOMAIN sock :
        /\ sock'[t].client = sock[t].client /\ sock'[t].server = sock[t].server
        /\ sock'[t].down = IF Stands(t) THEN Append(sock[t].down, Event) ELSE sock[t].down
  BY <1>0, StoredMoves
<1>6. Attended' /\ \A t \in DOMAIN sock : Stands(t)' <=> Stands(t)
  <2>1. \A e \in serving' : \E f \in serving : e.on = f.on
    BY <1>0, <1>1
  <2> QED BY <1>0, <1>5, <2>1, MovesAttended
<1>7. ASSUME NEW t \in DOMAIN sock
      PROVE  /\ DOMAIN sock[t].down = 1..Len(sock[t].down) /\ Len(sock[t].down) \in Nat
             /\ \A k \in DOMAIN sock[t].down : sock'[t].down[k] = sock[t].down[k]
             /\ \A k \in DOMAIN sock'[t].down : k \in DOMAIN sock[t].down \/ sock'[t].down[k] = Event
             /\ \A i, k : HeardBefore(i, t, k) => HeardBefore(i, t, k)'
             /\ \A i : AllBefore(i, t) => AllBefore(i, t)'
  <2>1. sock'[t].down = sock[t].down \/ sock'[t].down = Append(sock[t].down, Event)
    BY <1>5
  <2>2. TypeInv /\ heard' = heard
    BY <1>0
  <2> QED BY <2>1, <2>2, PushedHeard
<1>8. ASSUME NEW t \in DOMAIN sock', NEW k \in DOMAIN sock'[t].down, NEW i \in DOMAIN store',
             IsResponse(sock'[t].down[k]), sock'[t].down[k].ok, store'[i] = sock'[t].down[k].of
      PROVE  /\ store'[i] \in Commands => i \in sock'[t].down[k].changes
             /\ req'[store'[i]].listened => HeardBefore(i, t, k)'
  <2>1. t \in DOMAIN sock /\ k \in DOMAIN sock[t].down /\ sock'[t].down[k] = sock[t].down[k]
    BY <1>0, <1>2, <1>7, <1>8
  <2>2. InStore(sock[t].down[k].of)
    <3>1. sock[t].down[k] \in Range(sock[t].down)
      BY <2>1 DEF Range
    <3> QED BY <1>0, <1>8, <2>1, <3>1 DEF Truthful
  <2>3. i \in DOMAIN store /\ store'[i] = store[i]
    BY <1>0, <1>3, <1>4, <1>8, <2>1, <2>2
  <2>4. /\ store[i] \in Commands => i \in sock[t].down[k].changes
        /\ req[store[i]].listened => HeardBefore(i, t, k)
    BY <1>0, <1>8, <2>1, <2>3 DEF Announced
  <2> QED BY <1>0, <1>7, <2>1, <2>3, <2>4
<1>9. ASSUME NEW e \in serving', NEW i \in DOMAIN store', e.stored, store'[i] = e.req
      PROVE  /\ e.since < i
             /\ req'[e.req].listened /\ Stands(e.on)' => AllBefore(i, e.on)'
  <2>1. CASE e = g
    <3>1. i = n /\ h.since <= Len(store)
      BY <1>0, <1>1, <1>3, <1>4, <1>9, <2>1 DEF InStore, Announced
    <3>2. Stands(h.on) => AllBefore(n, h.on)'
      <4>1. ASSUME Stands(h.on)
            PROVE  /\ Len(sock'[h.on].down) = Len(sock[h.on].down) + 1
                   /\ Len(sock[h.on].down) + 1 \in DOMAIN sock'[h.on].down
                   /\ sock'[h.on].down[Len(sock[h.on].down) + 1] = Event
        <5>1. sock[h.on].down \in Seq(Messages) /\ sock'[h.on].down = Append(sock[h.on].down, Event)
          BY <1>0, <1>5, <4>1, TypeFacts
        <5> QED BY <5>1
      <4>2. Len(sock[h.on].down) \in Nat
        BY <1>0, <1>7
      <4>3. Stands(h.on) => \E j \in DOMAIN sock'[h.on].down :
                              /\ j < Len(sock'[h.on].down) + 1
                              /\ sock'[h.on].down[j].type = "event" /\ sock'[h.on].down[j].change = n
        <5> SUFFICES ASSUME Stands(h.on)
                     PROVE  LET j == Len(sock[h.on].down) + 1 IN
                            /\ j \in DOMAIN sock'[h.on].down /\ j < Len(sock'[h.on].down) + 1
                            /\ sock'[h.on].down[j].type = "event" /\ sock'[h.on].down[j].change = n
          OBVIOUS
        <5>1. Len(sock[h.on].down) + 1 < Len(sock'[h.on].down) + 1
          BY <4>1, <4>2
        <5> QED BY <1>2, <4>1, <5>1
      <4> QED BY <4>3 DEF AllBefore, HeardBefore
    <3>3. h.since < i
      BY <1>0, <1>13, <3>1
    <3> QED BY <1>0, <1>1, <1>6, <2>1, <3>1, <3>2, <3>3
  <2>2. CASE e \in serving \ {h}
    <3>1. i \in DOMAIN store /\ store[i] = e.req /\ e.on \in DOMAIN sock
      BY <1>0, <1>3, <1>4, <1>9, <2>2, TravelTypes
    <3>2. /\ e.since < i
          /\ req[e.req].listened /\ Stands(e.on) => AllBefore(i, e.on)
      BY <1>0, <1>9, <2>2, <3>1 DEF Announced
    <3> QED BY <1>0, <1>6, <1>7, <3>1, <3>2
  <2> QED BY <1>0, <2>1, <2>2
<1>10. Announced'
  <2>1. \A e \in serving' : e.since <= Len(store')
    <3>1. ASSUME NEW e \in serving
          PROVE  e.since \in Nat /\ e.since <= Len(store)
      BY <1>0, TravelTypes DEF Announced
    <3> QED BY <1>0, <1>1, <1>3, <3>1
  <2>2. \A r \in Requests : req'[r].listened => client'.listening
    BY <1>0 DEF Announced
  <2> QED BY <1>8, <1>9, <2>1, <2>2 DEF Announced, IsResponse
<1>11. HeardBeforeAnswered'
  <2>1. ASSUME NEW r \in Requests, NEW i \in DOMAIN store', req[r].pc = "resolved", store'[i] = r
        PROVE  i \in DOMAIN store /\ store[i] = r
    <3>1. InStore(r)
      BY <1>0, <2>1 DEF Truthful
    <3> QED BY <1>0, <1>3, <1>4, <2>1, <3>1
  <2> QED BY <1>0, <2>1 DEF HeardBeforeAnswered
<1> QED BY <1>6, <1>10, <1>11

LEMMA RepliedHeard ==
  ASSUME HeardInv, NEW h \in serving, NEW ok \in BOOLEAN, NEW changes \in SUBSET Nat, Replied(h, ok, changes),
         ok => h.stored /\ changes = Captured(h)
  PROVE  Attended' /\ Announced' /\ HeardBeforeAnswered'
<1> DEFINE reply == Response(h, ok, changes)
<1>0. /\ TypeInv /\ Attended /\ Announced /\ HeardBeforeAnswered /\ UNCHANGED <<client, req, store, heard>>
      /\ serving' = serving \ {h} /\ DOMAIN sock' = DOMAIN sock /\ h.on \in DOMAIN sock /\ h.since \in Nat
      /\ DOMAIN store = 1..Len(store) /\ Len(store) \in Nat
  BY RepliedMoves, TravelTypes, TypeFacts DEF HeardInv, WireInv
<1>1. reply.ok = ok /\ reply.of = h.req /\ reply.changes = changes
  BY DEF Response
<1>2. \A t \in DOMAIN sock :
        /\ sock'[t].client = sock[t].client /\ sock'[t].server = sock[t].server
        /\ sock'[t].down = IF t = h.on /\ Stands(t) THEN Append(sock[t].down, reply) ELSE sock[t].down
  BY <1>0, RepliedMoves
<1> HIDE DEF reply
<1>3. Attended' /\ \A t \in DOMAIN sock : Stands(t)' <=> Stands(t)
  <2>1. \A e \in serving' : \E f \in serving : e.on = f.on
    BY <1>0
  <2> QED BY <1>0, <1>2, <2>1, MovesAttended
<1>4. ASSUME NEW t \in DOMAIN sock
      PROVE  /\ \A k \in DOMAIN sock[t].down : sock'[t].down[k] = sock[t].down[k]
             /\ \A k \in DOMAIN sock'[t].down :
                  \/ k \in DOMAIN sock[t].down
                  \/ t = h.on /\ Stands(t) /\ k = Len(sock[t].down) + 1 /\ sock'[t].down[k] = reply
             /\ \A i, k : HeardBefore(i, t, k) => HeardBefore(i, t, k)'
             /\ \A i : AllBefore(i, t) => AllBefore(i, t)'
  <2>1. sock'[t].down = sock[t].down \/ sock'[t].down = Append(sock[t].down, reply)
    BY <1>2
  <2>2. sock'[t].down # sock[t].down => t = h.on /\ Stands(t)
    BY <1>2
  <2>3. TypeInv /\ heard' = heard
    BY <1>0
  <2>4. /\ \A k \in DOMAIN sock[t].down : sock'[t].down[k] = sock[t].down[k]
        /\ \A k \in DOMAIN sock'[t].down :
             k \in DOMAIN sock[t].down \/ (k = Len(sock[t].down) + 1 /\ sock'[t].down[k] = reply)
        /\ \A i, k : HeardBefore(i, t, k) => HeardBefore(i, t, k)'
        /\ \A i : AllBefore(i, t) => AllBefore(i, t)'
    BY <2>1, <2>3, PushedHeard
  <2> QED BY <2>2, <2>4
<1>5. ASSUME NEW t \in DOMAIN sock', NEW k \in DOMAIN sock'[t].down, NEW i \in DOMAIN store',
             IsResponse(sock'[t].down[k]), sock'[t].down[k].ok, store'[i] = sock'[t].down[k].of
      PROVE  /\ store'[i] \in Commands => i \in sock'[t].down[k].changes
             /\ req'[store'[i]].listened => HeardBefore(i, t, k)'
  <2>1. CASE k \in DOMAIN sock[t].down
    <3>1. sock'[t].down[k] = sock[t].down[k] /\ t \in DOMAIN sock
      BY <1>0, <1>4, <2>1
    <3>2. /\ store[i] \in Commands => i \in sock[t].down[k].changes
          /\ req[store[i]].listened => HeardBefore(i, t, k)
      BY <1>0, <1>5, <2>1, <3>1 DEF Announced
    <3> QED BY <1>0, <1>4, <3>1, <3>2
  <2>2. CASE t = h.on /\ Stands(t) /\ k = Len(sock[t].down) + 1 /\ sock'[t].down[k] = reply
    <3>1. h.stored /\ changes = Captured(h) /\ store[i] = h.req
      BY <1>0, <1>1, <1>5, <2>2
    <3>2. /\ h.since < i
          /\ req[h.req].listened => HeardBefore(i, t, k)
      BY <1>0, <1>5, <2>2, <3>1 DEF Announced, AllBefore
    <3>3. h.req \in Commands => i \in changes
      BY <1>0, <1>5, <3>1, <3>2 DEF Captured
    <3> QED BY <1>0, <1>1, <1>4, <2>2, <3>1, <3>2, <3>3
  <2> QED BY <1>0, <1>4, <2>1, <2>2
<1>6. ASSUME NEW e \in serving', NEW i \in DOMAIN store', e.stored, store'[i] = e.req
      PROVE  /\ e.since < i
             /\ req'[e.req].listened /\ Stands(e.on)' => AllBefore(i, e.on)'
  <2>1. e \in serving /\ e.on \in DOMAIN sock
    BY <1>0, TravelTypes
  <2>2. /\ e.since < i
        /\ req[e.req].listened /\ Stands(e.on) => AllBefore(i, e.on)
    BY <1>0, <1>6, <2>1 DEF Announced
  <2> QED BY <1>0, <1>3, <1>4, <2>1, <2>2
<1>7. Announced'
  BY <1>0, <1>5, <1>6 DEF Announced, IsResponse
<1> QED BY <1>0, <1>3, <1>7 DEF HeardBeforeAnswered

LEMMA InitHeard == Init => HeardInv
<1> SUFFICES ASSUME Init PROVE HeardInv
  OBVIOUS
<1>1. /\ DOMAIN sock = {} /\ DOMAIN store = {} /\ serving = {}
      /\ \A r \in Requests : req[r].listened = FALSE
  BY DEF Init, New
<1> QED BY <1>1, InitWire DEF HeardInv, Attended, Announced, HeardBeforeAnswered

LEMMA NextHeard == HeardInv /\ [Next]_vars => HeardInv'
<1> SUFFICES ASSUME HeardInv, [Next]_vars PROVE HeardInv'
  OBVIOUS
<1>0. TypeInv /\ PendingSent /\ WireInv' /\ TypeInv'
  BY NextWire DEF HeardInv, WireInv, Correlated
<1>1. ASSUME NEW r \in Requests, Request(r)
      PROVE  HeardInv'
  BY <1>0, <1>1, QuietGoes, RequestMoves, StillHeard, SendsHeard DEF HeardInv
<1>2. CASE Subscribe
  BY <1>0, <1>2, QuietGoes, SubscribeStill, StillHeard DEF HeardInv
<1>3. CASE Close \/ \E s \in DOMAIN sock : Errored(s) \/ Dropped(s) \/ Closed(s) \/ Accepted(s) \/ ServerCloses(s)
  <2>1. Attended' /\ StandsNoLonger
    BY <1>0, <1>3, QuietGoes DEF HeardInv
  <2> QED BY <1>0, <1>3, <2>1, EndingsStill, StillHeard DEF HeardInv
<1>4. ASSUME NEW s \in DOMAIN sock, Opened(s)
      PROVE  HeardInv'
  <2>1. Attended' /\ StandsNoLonger
    BY <1>0, <1>4, QuietGoes DEF HeardInv
  <2> QED BY <1>0, <1>4, <2>1, OpenedMoves, SendsHeard DEF HeardInv
<1>5. ASSUME NEW s \in DOMAIN sock, Receive(s) \/ ServerReceives(s)
      PROVE  HeardInv'
  BY <1>0, <1>5, ReceiveHeard, ServerReceivesHeard DEF HeardInv
<1>6. ASSUME NEW h \in serving, Stored(h) \/ Answered(h) \/ Refused(h)
      PROVE  HeardInv'
  <2>1. CASE Stored(h)
    BY <1>0, <2>1, StoredHeard DEF HeardInv
  <2>2. CASE Answered(h)
    BY <1>0, <2>2, AnsweredMoves, RepliedHeard DEF HeardInv
  <2>3. CASE Refused(h)
    BY <1>0, <2>3, RepliedHeard DEF HeardInv, Refused
  <2> QED BY <1>6, <2>1, <2>2, <2>3
<1>7. CASE UNCHANGED vars
  <2>1. Still
    BY <1>0, <1>7, TypeFacts DEF vars, Still, PendingSent
  <2>2. Attended' /\ StandsNoLonger
    BY <1>0, <1>7, QuietGoes DEF HeardInv
  <2> QED BY <1>0, <2>1, <2>2, StillHeard DEF HeardInv
<1> QED BY <1>1, <1>2, <1>3, <1>4, <1>5, <1>6, <1>7 DEF Next, Events, Sockets

(* "so it invalidates query caches exactly like a live-subscription event
   would" (RemoteBackend.ts:116): when a request resolves, the listener has
   heard its change, over the feed if it was subscribed when the request was
   made, and with the reply of a command in any case: the server pushes the
   event of a change to a connection before it answers the write on it. *)
THEOREM HeardFirst == Spec => []HeardBeforeAnswered
<1>1. HeardInv => HeardBeforeAnswered
  BY DEF HeardInv
<1> QED BY <1>1, InitHeard, NextHeard, PTL DEF Spec

---------------------------------------------------------------------------
(* The feed alone. *)

IsEvent(m) == m.type = "event"

(* One connection at a time: a second one is made only when no close event is
   outstanding, unless the application forgot the first with close(). *)
OneAtATime ==
  client.closes = 0 => \A s \in DOMAIN sock :
    /\ sock[s].client # "closed" => client.connecting = s
    /\ sock[s].client = "closed" => sock[s].down = <<>>

(* What the feed says has been stored. *)
FeedStored ==
  /\ \A i \in DOMAIN heard.feed : heard.feed[i] <= Len(store)
  /\ \A s \in DOMAIN sock : \A k \in DOMAIN sock[s].down :
       IsEvent(sock[s].down[k]) => sock[s].down[k].change <= Len(store)

(* What is still to be delivered is later than what was heard, and in order. *)
Ahead ==
  client.closes = 0 => \A s \in DOMAIN sock : \A k \in DOMAIN sock[s].down : IsEvent(sock[s].down[k]) =>
    /\ \A i \in DOMAIN heard.feed : heard.feed[i] < sock[s].down[k].change
    /\ \A l \in DOMAIN sock[s].down :
         k < l /\ IsEvent(sock[s].down[l]) => sock[s].down[k].change < sock[s].down[l].change

FeedInv == OneAtATime /\ FeedStored /\ Ahead /\ HeardInOrder

LEMMA FeedTypes ==
  ASSUME TypeInv
  PROVE  /\ heard.feed \in Seq(Nat) /\ DOMAIN heard.feed = 1..Len(heard.feed) /\ Len(heard.feed) \in Nat
         /\ \A i \in DOMAIN heard.feed : heard.feed[i] \in Nat
         /\ \A s \in DOMAIN sock :
              /\ sock[s].down \in Seq(Messages)
              /\ DOMAIN sock[s].down = 1..Len(sock[s].down) /\ Len(sock[s].down) \in Nat
              /\ \A k \in DOMAIN sock[s].down : IsEvent(sock[s].down[k]) => sock[s].down[k].change \in Nat
<1>1. heard.feed \in Seq(Nat)
  BY DEF TypeInv
<1>2. ASSUME NEW s \in DOMAIN sock
      PROVE  /\ sock[s].down \in Seq(Messages)
             /\ DOMAIN sock[s].down = 1..Len(sock[s].down) /\ Len(sock[s].down) \in Nat
             /\ \A k \in DOMAIN sock[s].down : sock[s].down[k] \in Messages
  <2>1. sock[s].down \in Seq(Messages)
    BY TypeFacts
  <2> QED BY <2>1, LenProperties, ElementOfSeq, LenProperties
<1>3. \A m \in Messages : IsEvent(m) => m.change \in Nat
  BY DEF Messages, EventMessages, Responses, IsEvent
<1>4. DOMAIN heard.feed = 1..Len(heard.feed) /\ Len(heard.feed) \in Nat /\ \A i \in DOMAIN heard.feed : heard.feed[i] \in Nat
  BY <1>1, LenProperties, ElementOfSeq, LenProperties
<1> QED BY <1>1, <1>2, <1>3, <1>4

(* A step that delivers and pushes nothing. *)
LEMMA NothingDelivered ==
  ASSUME FeedInv, OneAtATime', UNCHANGED <<store, heard>>, client'.closes = 0 => client.closes = 0,
         \A s \in DOMAIN sock' : sock'[s].down = <<>> \/ (s \in DOMAIN sock /\ sock'[s].down = sock[s].down)
  PROVE  FeedInv'
<1>1. FeedStored'
  BY DEF FeedInv, FeedStored
<1>2. Ahead'
  BY DEF FeedInv, Ahead
<1>3. HeardInOrder'
  BY DEF FeedInv, HeardInOrder
<1> QED BY <1>1, <1>2, <1>3 DEF FeedInv

(* A step that neither opens a connection nor ends one. *)
LEMMA SameConnection ==
  ASSUME OneAtATime, DOMAIN sock' = DOMAIN sock, client'.connecting = client.connecting, client'.closes = client.closes,
         \A s \in DOMAIN sock :
           /\ sock'[s].client = "closed" <=> sock[s].client = "closed"
           /\ sock[s].client = "closed" => sock'[s].down = sock[s].down
  PROVE  OneAtATime'
BY DEF OneAtATime

(* A connection is made when there is none. *)
LEMMA FirstConnection ==
  ASSUME TypeInv, OneAtATime, Reusable = None, sock' = Append(sock, NewSocket),
         client'.connecting = Len(sock) + 1, client'.closes = client.closes
  PROVE  OneAtATime'
<1>1. client.connecting = None
  BY DEF Reusable, IsOpen
<1>2. \A s \in DOMAIN sock : sock'[s] = sock[s] /\ (client.closes = 0 => sock[s].client = "closed" /\ sock[s].down = <<>>)
  BY <1>1, TypeFacts, OneMore DEF OneAtATime
<1>3. \A s \in DOMAIN sock' \ DOMAIN sock : s = Len(sock) + 1 /\ sock'[s].client = "connecting"
  BY OneMore, NewTypes
<1> QED BY <1>2, <1>3 DEF OneAtATime

LEMMA ConnectFeed ==
  ASSUME TypeInv, FeedInv, Connect, UNCHANGED <<store, heard>>
  PROVE  FeedInv'
<1>1. CASE Reusable # None
  <2>1. sock' = sock /\ client' = client
    BY <1>1 DEF Connect
  <2>2. OneAtATime'
    BY <2>1 DEF FeedInv, OneAtATime
  <2> QED BY <2>1, <2>2, NothingDelivered
<1>2. CASE Reusable = None
  <2>1. /\ sock' = Append(sock, NewSocket) /\ client' = [client EXCEPT !.connecting = Len(sock) + 1]
    BY <1>2 DEF Connect
  <2>2. client'.connecting = Len(sock) + 1 /\ client'.closes = client.closes
    BY <2>1 DEF TypeInv, Clients
  <2>3. OneAtATime'
    BY <1>2, <2>1, <2>2, FirstConnection DEF FeedInv
  <2> QED BY <2>1, <2>2, <2>3, OneMore, NothingDelivered
<1> QED BY <1>1, <1>2

LEMMA RequestFeed ==
  ASSUME TypeInv, FeedInv, NEW r \in Requests, Request(r)
  PROVE  FeedInv'
<1> DEFINE s == Reusable
<1>0. UNCHANGED <<store, heard>> /\ s \in DOMAIN sock \cup {None}
  BY DEF Request, TypeInv, Reusable
<1>1. CASE s = None \/ sock[s].client = "connecting"
  <2>1. Connect
    BY <1>1 DEF Request
  <2> QED BY <1>0, <2>1, ConnectFeed
<1>2. CASE s # None /\ sock[s].client = "failed"
  <2>1. client' = client /\ sock' = sock
    BY <1>2 DEF Request
  <2>2. OneAtATime'
    BY <2>1 DEF FeedInv, OneAtATime
  <2> QED BY <1>0, <2>1, <2>2, NothingDelivered
<1>3. CASE s # None /\ sock[s].client \notin {"connecting", "failed"}
  <2>1. /\ client' = [client EXCEPT !.nextId = @ + Len(<<r>>), !.pending = @ \cup Range(<<r>>)]
        /\ sock' = [sock EXCEPT ![s] = [sock[s] EXCEPT !.up = SentOn(<<r>>, s, @)]]
    BY <1>3 DEF Request, Registered
  <2>2. client'.connecting = client.connecting /\ client'.closes = client.closes
    BY <2>1 DEF TypeInv, Clients
  <2>3. DOMAIN sock' = DOMAIN sock /\ \A t \in DOMAIN sock : sock'[t].client = sock[t].client /\ sock'[t].down = sock[t].down
    <3>1. sock[s] \in Connections
      BY <1>0, <1>3, TypeFacts
    <3> QED BY <2>1, <3>1 DEF Connections
  <2>4. OneAtATime'
    BY <2>2, <2>3, SameConnection DEF FeedInv
  <2> QED BY <1>0, <2>2, <2>3, <2>4, NothingDelivered
<1> QED BY <1>1, <1>2, <1>3

LEMMA SubscribeFeed ==
  ASSUME TypeInv, FeedInv, Subscribe
  PROVE  FeedInv'
<1>0. UNCHANGED <<store, heard>>
  BY DEF Subscribe
<1>1. CASE Reusable # None
  <2>1. client' = [client EXCEPT !.listening = TRUE] /\ sock' = sock
    BY <1>1 DEF Subscribe
  <2>2. client'.connecting = client.connecting /\ client'.closes = client.closes
    BY <2>1 DEF TypeInv, Clients
  <2>3. OneAtATime'
    BY <2>1, <2>2 DEF FeedInv, OneAtATime
  <2> QED BY <1>0, <2>1, <2>2, <2>3, NothingDelivered
<1>2. CASE Reusable = None
  <2>1. /\ sock' = Append(sock, NewSocket) /\ client' = [client EXCEPT !.listening = TRUE, !.connecting = Len(sock) + 1]
    BY <1>2 DEF Subscribe
  <2>2. client'.connecting = Len(sock) + 1 /\ client'.closes = client.closes
    BY <2>1 DEF TypeInv, Clients
  <2>3. OneAtATime'
    BY <1>2, <2>1, <2>2, FirstConnection DEF FeedInv
  <2> QED BY <1>0, <2>1, <2>2, <2>3, OneMore, NothingDelivered
<1> QED BY <1>1, <1>2

LEMMA OpenedFeed ==
  ASSUME TypeInv, FeedInv, NEW s \in DOMAIN sock, Opened(s)
  PROVE  FeedInv'
<1>1. /\ sock[s].client = "connecting" /\ UNCHANGED <<store, heard>>
      /\ sock' = [sock EXCEPT ![s] = [sock[s] EXCEPT !.client = "open", !.server = IF client.late THEN "accepting" ELSE "ready",
                          !.up = SentOn(Waiting(s), s, @)]]
      /\ client' = [client EXCEPT !.nextId = @ + Len(Waiting(s)), !.pending = @ \cup Range(Waiting(s)), !.socket = s]
  BY DEF Opened, Registered
<1>2. client'.connecting = client.connecting /\ client'.closes = client.closes
  BY <1>1 DEF TypeInv, Clients
<1>3. /\ DOMAIN sock' = DOMAIN sock /\ sock'[s].client = "open" /\ sock'[s].down = sock[s].down
      /\ \A t \in DOMAIN sock : t # s => sock'[t] = sock[t]
  <2>1. sock[s] \in Connections
    BY TypeFacts
  <2> QED BY <1>1, <2>1 DEF Connections
<1>4. OneAtATime'
  BY <1>1, <1>2, <1>3, SameConnection DEF FeedInv
<1> QED BY <1>1, <1>2, <1>3, <1>4, NothingDelivered

LEMMA EndingsFeed ==
  ASSUME TypeInv, FeedInv, NEW s \in DOMAIN sock, Errored(s) \/ Dropped(s) \/ Accepted(s) \/ ServerCloses(s)
  PROVE  FeedInv'
<1>0. sock[s] \in Connections
  BY TypeFacts
<1>1. UNCHANGED <<store, heard>>
  BY DEF Errored, Dropped, Accepted, ServerCloses
<1>2. client'.connecting = client.connecting /\ client'.closes = client.closes
  <2>1. client' = client \/ client' = [client EXCEPT !.pending = {}]
    BY DEF Errored, Dropped, Accepted, ServerCloses
  <2> QED BY <2>1 DEF TypeInv, Clients
<1>3. /\ DOMAIN sock' = DOMAIN sock /\ \A t \in DOMAIN sock : t # s => sock'[t] = sock[t]
      /\ sock'[s].down = sock[s].down /\ (sock'[s].client = "closed" <=> sock[s].client = "closed")
  <2>1. CASE Errored(s)
    <3>1. /\ sock[s].client \in {"connecting", "open"}
          /\ \E c \in {"failed", "closing"} : sock' = [sock EXCEPT ![s] = [sock[s] EXCEPT !.client = c]]
      BY <2>1 DEF Errored
    <3> QED BY <1>0, <3>1 DEF Connections
  <2>2. CASE Dropped(s)
    <3>1. /\ sock[s].client = "open"
          /\ sock' = [sock EXCEPT ![s] = [sock[s] EXCEPT !.client = "closing", !.server = "gone"]]
      BY <2>2 DEF Dropped
    <3> QED BY <1>0, <3>1 DEF Connections
  <2>3. CASE Accepted(s)
    <3>1. \/ sock' = [sock EXCEPT ![s] = [sock[s] EXCEPT !.server = "ready"]]
          \/ sock' = [sock EXCEPT ![s] = [sock[s] EXCEPT !.server = "gone", !.client = IF @ = "open" THEN "closing" ELSE @]]
      BY <2>3 DEF Accepted
    <3> QED BY <1>0, <3>1 DEF Connections
  <2>4. CASE ServerCloses(s)
    <3>1. sock' = [sock EXCEPT ![s] = [sock[s] EXCEPT !.server = "gone"]]
      BY <2>4 DEF ServerCloses
    <3> QED BY <1>0, <3>1 DEF Connections
  <2> QED BY <2>1, <2>2, <2>3, <2>4
<1>4. OneAtATime'
  BY <1>2, <1>3, SameConnection DEF FeedInv
<1> QED BY <1>1, <1>2, <1>3, <1>4, NothingDelivered

(* The close event of the one connection there is. *)
LEMMA ClosedFeed ==
  ASSUME TypeInv, FeedInv, NEW s \in DOMAIN sock, Closed(s)
  PROVE  FeedInv'
<1>0. sock[s] \in Connections
  BY TypeFacts
<1>1. /\ sock[s].client \in {"closing", "failed"} /\ UNCHANGED <<store, heard>>
      /\ sock' = [sock EXCEPT ![s] = [sock[s] EXCEPT !.client = "closed", !.down = <<>>]]
      /\ client' = [client EXCEPT !.pending = {}, !.socket = None, !.connecting = None]
  BY DEF Closed, FailAllPending
<1>2. client'.closes = client.closes
  BY <1>1 DEF TypeInv, Clients
<1>3. /\ DOMAIN sock' = DOMAIN sock /\ \A t \in DOMAIN sock : t # s => sock'[t] = sock[t]
      /\ sock'[s].down = <<>> /\ sock'[s].client = "closed"
  BY <1>0, <1>1 DEF Connections
<1>4. OneAtATime'
  <2>1. \A t \in DOMAIN sock : t # s /\ client.closes = 0 => sock[t].client = "closed" /\ sock[t].down = <<>>
    BY <1>1 DEF FeedInv, OneAtATime
  <2> QED BY <1>2, <1>3, <2>1 DEF OneAtATime
<1> QED BY <1>1, <1>2, <1>3, <1>4, NothingDelivered

LEMMA CloseFeed ==
  ASSUME TypeInv, FeedInv, Close
  PROVE  FeedInv'
<1>1. /\ UNCHANGED <<store, heard>>
      /\ client' = [client EXCEPT !.socket = None, !.connecting = None, !.pending = {}, !.closes = @ + 1]
      /\ \/ sock' = sock
         \/ client.socket # None /\ sock' = [sock EXCEPT ![client.socket] = [sock[client.socket] EXCEPT !.client = "closing"]]
  BY DEF Close, IsOpen
<1>2. client'.closes # 0
  BY <1>1 DEF TypeInv, Clients
<1>3. DOMAIN sock' = DOMAIN sock /\ \A t \in DOMAIN sock : sock'[t].down = sock[t].down
  <2>1. CASE sock' = sock
    BY <2>1
  <2>2. CASE client.socket # None /\ sock' = [sock EXCEPT ![client.socket] = [sock[client.socket] EXCEPT !.client = "closing"]]
    <3>1. sock[client.socket] \in Connections
      BY <2>2, TypeFacts DEF TypeInv
    <3> QED BY <2>2, <3>1 DEF Connections
  <2> QED BY <1>1, <2>1, <2>2
<1>4. OneAtATime'
  BY <1>2 DEF OneAtATime
<1> QED BY <1>1, <1>2, <1>3, <1>4, NothingDelivered

LEMMA ReceiveFeed ==
  ASSUME WireInv, FeedInv, NEW s \in DOMAIN sock, Receive(s)
  PROVE  FeedInv'
<1> DEFINE m == sock[s].down[1]
<1>0. /\ TypeInv /\ store' = store /\ DOMAIN sock' = DOMAIN sock
      /\ sock[s] \in Connections /\ sock[s].client \in Live /\ sock[s].down # <<>> /\ sock[s].down \in Seq(Messages)
      /\ sock'[s] = [sock[s] EXCEPT !.down = Tail(sock[s].down)]
      /\ \A t \in DOMAIN sock : t # s => sock'[t] = sock[t]
  BY ReceiveMoves, TypeFacts DEF WireInv, Receive
<1>1. sock'[s].down = Tail(sock[s].down) /\ sock'[s].client = sock[s].client /\ sock[s].client # "closed"
  BY <1>0 DEF Connections, Live
<1>2. client'.connecting = client.connecting /\ client'.closes = client.closes
  <2>1. CASE m.type = "event"
    BY <1>0, <2>1, ReceivedEvent
  <2>2. CASE m.type # "event"
    BY <2>2, ReceivedAnswer
  <2> QED BY <2>1, <2>2
<1>3. \/ heard'.feed = heard.feed
      \/ IsEvent(m) /\ heard'.feed = Append(heard.feed, m.change)
  <2>1. heard \in [feed : Seq(Nat), replies : SUBSET Nat]
    BY <1>0 DEF TypeInv
  <2>2. CASE m.type = "event"
    <3>1. heard' = IF client.listening THEN [heard EXCEPT !.feed = Append(heard.feed, m.change)] ELSE heard
      BY <2>2, ReceivedAnswer
    <3> QED BY <2>1, <2>2, <3>1 DEF IsEvent
  <2>3. CASE m.type # "event"
    <3>1. heard' = heard \/ heard' = [heard EXCEPT !.replies = heard.replies \cup m.changes]
      BY <2>3, ReceivedAnswer
    <3> QED BY <2>1, <3>1
  <2> QED BY <2>2, <2>3
<1>4. /\ \A k \in DOMAIN Tail(sock[s].down) : k + 1 \in DOMAIN sock[s].down /\ Tail(sock[s].down)[k] = sock[s].down[k + 1] /\ 1 < k + 1
      /\ \A k, l \in DOMAIN Tail(sock[s].down) : k < l => k + 1 < l + 1
      /\ 1 \in DOMAIN sock[s].down
  <2>1. Tail(sock[s].down) \in Seq(Messages)
    BY <1>0, HeadTailProperties, LenProperties
  <2>2. DOMAIN Tail(sock[s].down) = 1..Len(Tail(sock[s].down)) /\ Len(Tail(sock[s].down)) \in Nat
    BY <2>1, LenProperties
  <2>3. /\ 1 \in DOMAIN sock[s].down
        /\ \A k \in DOMAIN Tail(sock[s].down) : k + 1 \in DOMAIN sock[s].down /\ Tail(sock[s].down)[k] = sock[s].down[k + 1]
    BY <1>0, HeadTailProperties, LenProperties
  <2> QED BY <2>2, <2>3
<1>5. OneAtATime'
  BY <1>0, <1>1, <1>2, SameConnection DEF FeedInv
<1>6. /\ heard.feed \in Seq(Nat) /\ DOMAIN heard.feed = 1..Len(heard.feed) /\ Len(heard.feed) \in Nat
      /\ \A i \in DOMAIN heard.feed : heard.feed[i] \in Nat
      /\ IsEvent(m) => m.change \in Nat /\ m.change <= Len(store)
  BY <1>0, <1>4, FeedTypes DEF FeedInv, FeedStored
<1> HIDE DEF m
<1>7. ASSUME IsEvent(m), heard'.feed = Append(heard.feed, m.change)
      PROVE  /\ DOMAIN heard'.feed = 1..(Len(heard.feed) + 1) /\ heard'.feed[Len(heard.feed) + 1] = m.change
             /\ \A i \in DOMAIN heard.feed : heard'.feed[i] = heard.feed[i]
  <2>1. /\ Append(heard.feed, m.change) \in Seq(Nat) /\ Len(Append(heard.feed, m.change)) = Len(heard.feed) + 1
        /\ Append(heard.feed, m.change)[Len(heard.feed) + 1] = m.change
        /\ \A i \in 1..Len(heard.feed) : Append(heard.feed, m.change)[i] = heard.feed[i]
    BY <1>6, <1>7, AppendProperties
  <2>2. DOMAIN Append(heard.feed, m.change) = 1..(Len(heard.feed) + 1)
    BY <2>1, LenProperties
  <2> QED BY <1>6, <1>7, <2>1, <2>2
<1>8. \A i \in DOMAIN heard'.feed : \/ i \in DOMAIN heard.feed /\ heard'.feed[i] = heard.feed[i]
                                    \/ IsEvent(m) /\ heard'.feed[i] = m.change /\ \A j \in DOMAIN heard'.feed : j <= i
  BY <1>3, <1>6, <1>7
<1>9. FeedStored'
  <2>1. \A i \in DOMAIN heard'.feed : heard'.feed[i] <= Len(store)
    BY <1>6, <1>8 DEF FeedInv, FeedStored
  <2>2. ASSUME NEW t \in DOMAIN sock, NEW k \in DOMAIN sock'[t].down, IsEvent(sock'[t].down[k])
        PROVE  sock'[t].down[k].change <= Len(store)
    <3>1. CASE t = s
      BY <1>1, <1>4, <2>2, <3>1 DEF FeedInv, FeedStored
    <3>2. CASE t # s
      BY <1>0, <2>2, <3>2 DEF FeedInv, FeedStored
    <3> QED BY <3>1, <3>2
  <2> QED BY <1>0, <2>1, <2>2 DEF FeedStored, IsEvent
<1>10. ASSUME client.closes = 0
       PROVE  /\ \A t \in DOMAIN sock : t # s => sock'[t].down = <<>>
              /\ IsEvent(m) =>
                   /\ \A i \in DOMAIN heard.feed : heard.feed[i] < m.change
                   /\ \A l \in DOMAIN sock[s].down : 1 < l /\ IsEvent(sock[s].down[l]) => m.change < sock[s].down[l].change
  <2>1. \A t \in DOMAIN sock : t # s => sock'[t].down = <<>>
    BY <1>0, <1>1, <1>10 DEF FeedInv, OneAtATime
  <2>2. IsEvent(m) =>
          /\ \A i \in DOMAIN heard.feed : heard.feed[i] < m.change
          /\ \A l \in DOMAIN sock[s].down : 1 < l /\ IsEvent(sock[s].down[l]) => m.change < sock[s].down[l].change
    BY <1>4, <1>10 DEF FeedInv, Ahead, m
  <2> QED BY <2>1, <2>2
<1>11. Ahead'
  <2>1. ASSUME client.closes = 0, NEW k \in DOMAIN Tail(sock[s].down), IsEvent(Tail(sock[s].down)[k])
        PROVE  /\ \A i \in DOMAIN heard'.feed : heard'.feed[i] < Tail(sock[s].down)[k].change
               /\ \A l \in DOMAIN Tail(sock[s].down) :
                    k < l /\ IsEvent(Tail(sock[s].down)[l]) => Tail(sock[s].down)[k].change < Tail(sock[s].down)[l].change
    <3>1. \A i \in DOMAIN heard'.feed : heard'.feed[i] < Tail(sock[s].down)[k].change
      <4>1. \A i \in DOMAIN heard.feed : heard.feed[i] < Tail(sock[s].down)[k].change
        BY <1>4, <2>1 DEF FeedInv, Ahead
      <4>2. IsEvent(m) => m.change < Tail(sock[s].down)[k].change
        BY <1>4, <1>10, <2>1
      <4> QED BY <1>8, <4>1, <4>2
    <3>2. \A l \in DOMAIN Tail(sock[s].down) :
            k < l /\ IsEvent(Tail(sock[s].down)[l]) => Tail(sock[s].down)[k].change < Tail(sock[s].down)[l].change
      BY <1>4, <2>1 DEF FeedInv, Ahead
    <3> QED BY <3>1, <3>2
  <2>2. ASSUME client.closes = 0, NEW t \in DOMAIN sock, NEW k \in DOMAIN sock'[t].down, IsEvent(sock'[t].down[k])
        PROVE  /\ \A i \in DOMAIN heard'.feed : heard'.feed[i] < sock'[t].down[k].change
               /\ \A l \in DOMAIN sock'[t].down :
                    k < l /\ IsEvent(sock'[t].down[l]) => sock'[t].down[k].change < sock'[t].down[l].change
    <3>1. t = s
      BY <1>10, <2>2
    <3> QED BY <1>1, <2>1, <2>2, <3>1
  <2> QED BY <1>0, <1>2, <2>2 DEF Ahead, IsEvent
<1>12. HeardInOrder'
  <2>1. ASSUME client.closes = 0, NEW i \in DOMAIN heard'.feed, NEW j \in DOMAIN heard'.feed, i < j
        PROVE  heard'.feed[i] < heard'.feed[j]
    <3>1. i \in DOMAIN heard.feed /\ heard'.feed[i] = heard.feed[i]
      <4>1. i \in Nat /\ j \in Nat
        BY <1>3, <1>6, <1>7, <2>1
      <4> QED BY <1>8, <2>1, <4>1
    <3>2. CASE j \in DOMAIN heard.feed /\ heard'.feed[j] = heard.feed[j]
      BY <2>1, <3>1, <3>2 DEF FeedInv, HeardInOrder
    <3>3. CASE IsEvent(m) /\ heard'.feed[j] = m.change
      BY <1>10, <2>1, <3>1, <3>3
    <3> QED BY <1>8, <3>2, <3>3
  <2> QED BY <1>2, <2>1 DEF HeardInOrder
<1> QED BY <1>5, <1>9, <1>11, <1>12 DEF FeedInv

LEMMA ServerReceivesFeed ==
  ASSUME TypeInv, FeedInv, NEW s \in DOMAIN sock, ServerReceives(s)
  PROVE  FeedInv'
<1>0. /\ UNCHANGED <<client, store, heard>> /\ DOMAIN sock' = DOMAIN sock
      /\ sock'[s] = [sock[s] EXCEPT !.up = Tail(sock[s].up)] /\ \A t \in DOMAIN sock : t # s => sock'[t] = sock[t]
      /\ sock[s] \in Connections
  BY ServerReceivesMoves, TypeFacts
<1>1. \A t \in DOMAIN sock : sock'[t].client = sock[t].client /\ sock'[t].down = sock[t].down
  BY <1>0 DEF Connections
<1>2. OneAtATime'
  BY <1>0, <1>1, SameConnection DEF FeedInv
<1> QED BY <1>0, <1>1, <1>2, NothingDelivered

(* A reply, or the event of the next change, at the end of what the
   connections deliver. *)
LEMMA PushedFeed ==
  ASSUME TypeInv, FeedInv, UNCHANGED <<client, heard>>, DOMAIN sock' = DOMAIN sock,
         NEW last \in {Len(store), Len(store) + 1}, Len(store') = last,
         \A t \in DOMAIN sock :
           /\ sock'[t].client = sock[t].client
           /\ sock[t].client = "closed" => sock'[t].down = sock[t].down
           /\ DOMAIN sock[t].down \subseteq DOMAIN sock'[t].down
           /\ \A k \in DOMAIN sock[t].down : sock'[t].down[k] = sock[t].down[k]
           /\ \A k \in DOMAIN sock'[t].down :
                \/ k \in DOMAIN sock[t].down
                \/ ~IsEvent(sock'[t].down[k])
                \/ k = Len(sock[t].down) + 1 /\ sock'[t].down[k].change = Len(store) + 1 /\ last = Len(store) + 1
  PROVE  FeedInv'
<1>0. Len(store) \in Nat
  BY TypeFacts
<1>1. OneAtATime'
  BY SameConnection DEF FeedInv
<1>2. ASSUME NEW t \in DOMAIN sock
      PROVE  /\ DOMAIN sock[t].down = 1..Len(sock[t].down) /\ Len(sock[t].down) \in Nat
             /\ \A k \in DOMAIN sock[t].down : IsEvent(sock[t].down[k]) =>
                  sock[t].down[k].change \in Nat /\ sock[t].down[k].change <= Len(store)
  BY FeedTypes DEF FeedInv, FeedStored
<1>3. \A i \in DOMAIN heard.feed : heard.feed[i] \in Nat /\ heard.feed[i] <= Len(store)
  BY FeedTypes DEF FeedInv, FeedStored
<1>4. FeedStored'
  <2>1. \A i \in DOMAIN heard'.feed : heard'.feed[i] <= last
    BY <1>0, <1>3
  <2>2. ASSUME NEW t \in DOMAIN sock, NEW k \in DOMAIN sock'[t].down, IsEvent(sock'[t].down[k])
        PROVE  sock'[t].down[k].change <= last
    BY <1>0, <1>2, <2>2
  <2> QED BY <2>1, <2>2 DEF FeedStored, IsEvent
<1>5. ASSUME client.closes = 0, NEW t \in DOMAIN sock, NEW k \in DOMAIN sock'[t].down, IsEvent(sock'[t].down[k])
      PROVE  /\ \A i \in DOMAIN heard.feed : heard.feed[i] < sock'[t].down[k].change
             /\ \A l \in DOMAIN sock'[t].down :
                  k < l /\ IsEvent(sock'[t].down[l]) => sock'[t].down[k].change < sock'[t].down[l].change
  <2>1. CASE k \in DOMAIN sock[t].down
    <3>1. \A i \in DOMAIN heard.feed : heard.feed[i] < sock'[t].down[k].change
      BY <1>5, <2>1 DEF FeedInv, Ahead
    <3>2. ASSUME NEW l \in DOMAIN sock'[t].down, k < l, IsEvent(sock'[t].down[l])
          PROVE  sock'[t].down[k].change < sock'[t].down[l].change
      <4>1. CASE l \in DOMAIN sock[t].down
        BY <1>5, <2>1, <3>2, <4>1 DEF FeedInv, Ahead
      <4>2. CASE sock'[t].down[l].change = Len(store) + 1
        BY <1>0, <1>2, <1>5, <2>1, <4>2
      <4> QED BY <3>2, <4>1, <4>2
    <3> QED BY <3>1, <3>2
  <2>2. CASE k \notin DOMAIN sock[t].down
    <3>1. k = Len(sock[t].down) + 1 /\ sock'[t].down[k].change = Len(store) + 1
      BY <1>5, <2>2
    <3>2. \A i \in DOMAIN heard.feed : heard.feed[i] < sock'[t].down[k].change
      BY <1>0, <1>3, <3>1
    <3>3. \A l \in DOMAIN sock'[t].down : IsEvent(sock'[t].down[l]) => ~(k < l)
      <4> TAKE l \in DOMAIN sock'[t].down
      <4>1. CASE l \in DOMAIN sock[t].down
        BY <1>2, <3>1, <4>1
      <4>2. CASE l = Len(sock[t].down) + 1
        BY <1>2, <3>1, <4>2
      <4> QED BY <4>1, <4>2
    <3> QED BY <3>2, <3>3
  <2> QED BY <2>1, <2>2
<1>6. Ahead'
  BY <1>5 DEF Ahead, IsEvent
<1>7. HeardInOrder'
  BY DEF FeedInv, HeardInOrder
<1> QED BY <1>1, <1>4, <1>6, <1>7 DEF FeedInv

(* The message m at the end of some connections. *)
LEMMA AppendedFeed ==
  ASSUME TypeInv, NEW t \in DOMAIN sock, NEW m, sock'[t].client = sock[t].client,
         sock'[t].down = sock[t].down \/ (Stands(t) /\ sock'[t].down = Append(sock[t].down, m))
  PROVE  /\ sock[t].client = "closed" => sock'[t].down = sock[t].down
         /\ DOMAIN sock[t].down \subseteq DOMAIN sock'[t].down
         /\ \A k \in DOMAIN sock[t].down : sock'[t].down[k] = sock[t].down[k]
         /\ \A k \in DOMAIN sock'[t].down : k \in DOMAIN sock[t].down \/ (k = Len(sock[t].down) + 1 /\ sock'[t].down[k] = m)
<1>1. sock[t].down \in Seq(Messages) /\ DOMAIN sock[t].down = 1..Len(sock[t].down) /\ Len(sock[t].down) \in Nat
  BY FeedTypes
<1>2. CASE sock'[t].down = sock[t].down
  BY <1>2
<1>3. CASE Stands(t) /\ sock'[t].down = Append(sock[t].down, m)
  <2>1. /\ DOMAIN sock'[t].down = 1..(Len(sock[t].down) + 1)
        /\ sock'[t].down[Len(sock[t].down) + 1] = m
        /\ \A k \in 1..Len(sock[t].down) : sock'[t].down[k] = sock[t].down[k]
    BY <1>1, <1>3
  <2>2. sock[t].client # "closed"
    BY <1>3 DEF Stands, Live
  <2> QED BY <1>1, <2>1, <2>2
<1> QED BY <1>2, <1>3

LEMMA StoredFeed ==
  ASSUME TypeInv, FeedInv, NEW h \in serving, Stored(h)
  PROVE  FeedInv'
<1>0. UNCHANGED <<client, heard>> /\ DOMAIN sock' = DOMAIN sock /\ Len(store') = Len(store) + 1
  <2>1. store' = Append(store, h.req) /\ h.req \in Requests /\ store \in Seq(Requests)
    BY StoredMoves DEF TypeInv
  <2>2. Len(store') = Len(store) + 1
    BY <2>1, AppendProperties
  <2> QED BY <2>2, StoredMoves
<1>1. Event.change = Len(store) + 1
  BY DEF Event
<1>2. ASSUME NEW t \in DOMAIN sock
      PROVE  /\ sock'[t].client = sock[t].client
             /\ sock[t].client = "closed" => sock'[t].down = sock[t].down
             /\ DOMAIN sock[t].down \subseteq DOMAIN sock'[t].down
             /\ \A k \in DOMAIN sock[t].down : sock'[t].down[k] = sock[t].down[k]
             /\ \A k \in DOMAIN sock'[t].down :
                  \/ k \in DOMAIN sock[t].down
                  \/ ~IsEvent(sock'[t].down[k])
                  \/ k = Len(sock[t].down) + 1 /\ sock'[t].down[k].change = Len(store) + 1
  <2>1. sock'[t].client = sock[t].client /\ (sock'[t].down = sock[t].down \/ (Stands(t) /\ sock'[t].down = Append(sock[t].down, Event)))
    BY StoredMoves
  <2> QED BY <1>1, <2>1, AppendedFeed
<1> QED BY <1>0, <1>2, PushedFeed

LEMMA RepliedFeed ==
  ASSUME TypeInv, FeedInv, NEW h \in serving, NEW ok \in BOOLEAN, NEW changes \in SUBSET Nat, Replied(h, ok, changes)
  PROVE  FeedInv'
<1> DEFINE reply == Response(h, ok, changes)
<1>0. UNCHANGED <<client, store, heard>> /\ DOMAIN sock' = DOMAIN sock
  BY RepliedMoves
<1>1. ~IsEvent(reply)
  BY DEF Response, IsEvent
<1>2. ASSUME NEW t \in DOMAIN sock
      PROVE  /\ sock'[t].client = sock[t].client
             /\ sock[t].client = "closed" => sock'[t].down = sock[t].down
             /\ DOMAIN sock[t].down \subseteq DOMAIN sock'[t].down
             /\ \A k \in DOMAIN sock[t].down : sock'[t].down[k] = sock[t].down[k]
             /\ \A k \in DOMAIN sock'[t].down : k \in DOMAIN sock[t].down \/ ~IsEvent(sock'[t].down[k])
  <2>1. sock'[t].client = sock[t].client /\ (sock'[t].down = sock[t].down \/ (Stands(t) /\ sock'[t].down = Append(sock[t].down, reply)))
    BY RepliedMoves
  <2> HIDE DEF reply
  <2>2. /\ sock[t].client = "closed" => sock'[t].down = sock[t].down
        /\ DOMAIN sock[t].down \subseteq DOMAIN sock'[t].down
        /\ \A k \in DOMAIN sock[t].down : sock'[t].down[k] = sock[t].down[k]
        /\ \A k \in DOMAIN sock'[t].down : k \in DOMAIN sock[t].down \/ (k = Len(sock[t].down) + 1 /\ sock'[t].down[k] = reply)
    BY <2>1, AppendedFeed
  <2> QED BY <1>1, <2>1, <2>2
<1> QED BY <1>0, <1>2, PushedFeed

---------------------------------------------------------------------------
LEMMA InitFeed == Init => FeedInv
<1> SUFFICES ASSUME Init PROVE FeedInv
  OBVIOUS
<1>1. DOMAIN sock = {} /\ heard.feed = <<>> /\ DOMAIN heard.feed = {}
  BY DEF Init
<1> QED BY <1>1 DEF FeedInv, OneAtATime, FeedStored, Ahead, HeardInOrder

LEMMA NextFeed == WireInv /\ FeedInv /\ [Next]_vars => FeedInv'
<1> SUFFICES ASSUME WireInv, FeedInv, [Next]_vars PROVE FeedInv'
  OBVIOUS
<1>0. TypeInv
  BY DEF WireInv
<1>1. ASSUME NEW r \in Requests, Request(r)
      PROVE  FeedInv'
  BY <1>0, <1>1, RequestFeed
<1>2. CASE Subscribe \/ Close
  BY <1>0, <1>2, SubscribeFeed, CloseFeed
<1>3. ASSUME NEW s \in DOMAIN sock, Events(s) \/ Errored(s) \/ Dropped(s) \/ ServerCloses(s)
      PROVE  FeedInv'
  BY <1>0, <1>3, OpenedFeed, ClosedFeed, ReceiveFeed, ServerReceivesFeed, EndingsFeed DEF Events
<1>4. ASSUME NEW h \in serving, Stored(h) \/ Answered(h) \/ Refused(h)
      PROVE  FeedInv'
  <2>1. CASE Stored(h)
    BY <1>0, <2>1, StoredFeed
  <2>2. CASE Answered(h)
    BY <1>0, <2>2, AnsweredMoves, RepliedFeed
  <2>3. CASE Refused(h)
    BY <1>0, <2>3, RepliedFeed DEF Refused
  <2> QED BY <1>4, <2>1, <2>2, <2>3
<1>5. CASE UNCHANGED vars
  BY <1>5 DEF vars, FeedInv, OneAtATime, FeedStored, Ahead, HeardInOrder
<1> QED BY <1>1, <1>2, <1>3, <1>4, <1>5 DEF Next, Sockets

(* Changes are heard in the order they were emitted and none twice, across
   reconnects, as long as the application does not close() the transport:
   connect() makes a socket only once the last one's close event is there. *)
THEOREM FeedInOrder == Spec => []HeardInOrder
<1>1. FeedInv => HeardInOrder
  BY DEF FeedInv
<1>2. WireInv /\ FeedInv /\ [Next]_vars => (WireInv /\ FeedInv)'
  BY NextWire, NextFeed
<1> QED BY <1>1, <1>2, InitWire, InitFeed, PTL DEF Spec
=============================================================================
