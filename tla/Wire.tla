------------------------------- MODULE Wire -------------------------------
(***************************************************************************)
(* The transport boundary: a RemoteBackend sends persist and command       *)
(* requests through a WebSocketTransport, attachWebSocketServer() hands    *)
(* them to a BackendAdapter over the real backend, and pushes the change   *)
(* feed of that backend to every connection.                               *)
(*                                                                         *)
(* A socket is two FIFO queues and a state on either side. The callbacks   *)
(* of a socket are steps; what a callback awaits that is already there     *)
(* (a resolved connect()) happens in the same step. Requests are writes:   *)
(* each one stores one change, known by its place in `store`: the order in *)
(* which the backend emits the changes. (One that awaits its commit emits  *)
(* when the await is over; `store` says nothing about the commits' order.) *)
(***************************************************************************)
EXTENDS Naturals, Sequences, FiniteSets, SequencesExt

CONSTANTS
  Requests, None,         \* requests of this client
  Commands,               \* the requests that are commands; the others persist
  MaxSockets,             \* bound: sockets the client opens
  MaxCloses,              \* bound: calls of transport.close()
  Late                    \* subset of BOOLEAN: may options.context take time to resolve

ASSUME WireAssumption == IsFiniteSet(Requests) /\ Late \subseteq BOOLEAN /\ None \notin Nat

VARIABLES
  client,  \* the transport: socket, connecting, nextId, pending; closes: bookkeeping
  sock,    \* the sockets, in the order they were created
  req,     \* the requests
  serving, \* the server's handleMessage() calls awaiting the backend
  store,   \* what the backend has stored, in the order of its emissions
  heard    \* changes the listener heard: of the feed in order, and of command replies

vars == <<client, sock, req, serving, store, heard>>

Sockets == DOMAIN sock
Live == {"open", "closing"}
New == [pc |-> "idle", id |-> None, via |-> None, listened |-> FALSE, answer |-> None]
Rejected == [New EXCEPT !.pc = "rejected"]

Init ==
  /\ \E late \in Late : client = [late |-> late, socket |-> None, connecting |-> None, nextId |-> 0, pending |-> {},
               listening |-> FALSE, closes |-> 0]
  /\ sock = <<>>
  /\ req = [r \in Requests |-> New]
  /\ serving = {} /\ store = <<>>
  /\ heard = [feed |-> <<>>, replies |-> {}]

---------------------------------------------------------------------------
(* connect(): the open socket, else the one being connected (the promise is
   kept once resolved or rejected, until a close event), else a new one. *)

IsOpen(s) == s # None /\ sock[s].client = "open"

(* Mutant: every call that finds no open socket makes one. *)
NotShared == IF IsOpen(client.socket) THEN client.socket ELSE None

Reusable == IF IsOpen(client.socket) THEN client.socket ELSE client.connecting

NewSocket == [client |-> "connecting", server |-> "none", up |-> <<>>, down |-> <<>>]
Connect ==
  IF Reusable # None THEN UNCHANGED <<sock, client>>
  ELSE /\ Len(sock) < MaxSockets
       /\ sock' = Append(sock, NewSocket)
       /\ client' = [client EXCEPT !.connecting = Len(sock) + 1]

---------------------------------------------------------------------------
(* request(): connect(), then an id, an entry in pending and a send. *)

(* Mutant: the id is the number of requests in flight. *)
InFlight(k) == Cardinality(client.pending) + k

IdOf(k) == client.nextId + k

(* Requests rs go out on socket s; a socket that is closing drops them. *)
SentOn(rs, s, up) ==
  IF sock[s].client \in {"connecting", "open"}
    THEN up \o [k \in DOMAIN rs |-> [req |-> rs[k], id |-> IdOf(k - 1)]] ELSE up

Numbered(rs, s) ==
  [r \in Requests |-> IF \E k \in DOMAIN rs : rs[k] = r
     THEN [req[r] EXCEPT !.pc = "sent", !.id = IdOf((CHOOSE k \in DOMAIN rs : rs[k] = r) - 1)]
     ELSE req[r]]

Registered(rs) ==
  [client EXCEPT !.nextId = @ + Len(rs), !.pending = @ \cup Range(rs)]

Begun(r, via) ==
  [req EXCEPT ![r].pc = "connecting", ![r].via = via, ![r].listened = client.listening]

Request(r) ==
  /\ req[r].pc = "idle"
  /\ LET s == Reusable IN
     IF s = None \/ sock[s].client = "connecting"
       THEN /\ Connect
            /\ req' = Begun(r, IF s = None THEN Len(sock) + 1 ELSE s)
     ELSE IF sock[s].client = "failed"
       THEN /\ req' = [req EXCEPT ![r] = Rejected]
            /\ UNCHANGED <<client, sock>>
     ELSE /\ client' = Registered(<<r>>)
          /\ sock' = [sock EXCEPT ![s].up = SentOn(<<r>>, s, @)]
          /\ req' = [req EXCEPT ![r] = [Begun(r, s)[r] EXCEPT !.pc = "sent", !.id = IdOf(0)]]
  /\ UNCHANGED <<serving, store, heard>>

(* changes(): one subscription of the transport for all listeners, which
   stay. *)
Subscribe ==
  /\ ~client.listening
  /\ IF Reusable # None
       THEN client' = [client EXCEPT !.listening = TRUE] /\ UNCHANGED sock
       ELSE /\ Len(sock) < MaxSockets
            /\ sock' = Append(sock, NewSocket)
            /\ client' = [client EXCEPT !.listening = TRUE, !.connecting = Len(sock) + 1]
  /\ UNCHANGED <<req, serving, store, heard>>

---------------------------------------------------------------------------
(* The events of a socket. *)

Waiting(s) == SetToSeq({r \in Requests : req[r].pc = "connecting" /\ req[r].via = s})

(* Open: whoever awaited connect() sends now. *)
Opened(s) ==
  /\ sock[s].client = "connecting"
  /\ sock' = [sock EXCEPT ![s].client = "open", ![s].server = IF client.late THEN "accepting" ELSE "ready",
                          ![s].up = SentOn(Waiting(s), s, @)]
  /\ client' = [Registered(Waiting(s)) EXCEPT !.socket = s]
  /\ req' = Numbered(Waiting(s), s)
  /\ UNCHANGED <<serving, store, heard>>

(* Mutant: only an error event fails what is in flight. *)
NothingFailed(reject) == [client |-> client, req |-> req]

(* failAllPending(): of this transport, whichever socket they were sent on. *)
FailAllPending(reject) ==
  [client |-> [client EXCEPT !.pending = {}],
   req |-> [r \in Requests |-> IF r \in client.pending \cup reject THEN Rejected ELSE req[r]]]

(* An error event: the connect fails, or an open connection breaks. *)
Errored(s) ==
  /\ sock[s].client \in {"connecting", "open"}
  /\ sock' = [sock EXCEPT ![s].client = IF @ = "connecting" THEN "failed" ELSE "closing"]
  /\ client' = [client EXCEPT !.pending = {}]
  /\ req' = [r \in Requests |->
       IF r \in client.pending \/ (sock[s].client = "connecting" /\ r \in Range(Waiting(s)))
         THEN Rejected ELSE req[r]]
  /\ UNCHANGED <<serving, store, heard>>

(* The server or the network ends the connection. *)
Dropped(s) ==
  /\ sock[s].client = "open"
  /\ sock' = [sock EXCEPT ![s].client = "closing", ![s].server = "gone"]
  /\ UNCHANGED <<client, req, serving, store, heard>>

(* The close event, in its own time, resets the transport: socket and
   connecting may by then be those of a later socket. *)
Closed(s) ==
  /\ sock[s].client \in {"closing", "failed"}
  /\ LET failed == FailAllPending({}) IN
     /\ client' = [failed.client EXCEPT !.socket = None, !.connecting = None]
     /\ req' = failed.req
  /\ sock' = [sock EXCEPT ![s].client = "closed", ![s].down = <<>>]
  /\ UNCHANGED <<serving, store, heard>>

(* close(): a socket that is still connecting is only forgotten. *)
Close ==
  /\ client.closes < MaxCloses
  /\ client' = [client EXCEPT !.socket = None, !.connecting = None, !.pending = {}, !.closes = @ + 1]
  /\ sock' = IF IsOpen(client.socket) THEN [sock EXCEPT ![client.socket].client = "closing"] ELSE sock
  /\ req' = [r \in Requests |-> IF r \in client.pending THEN Rejected ELSE req[r]]
  /\ UNCHANGED <<serving, store, heard>>

(* handleMessage(): an event goes to the listener, a response to the entry of
   its id. A command reply carries changes: deliverChanges(). *)
Receive(s) ==
  /\ sock[s].client \in Live /\ sock[s].down # <<>>
  /\ sock' = [sock EXCEPT ![s].down = Tail(@)]
  /\ LET message == Head(sock[s].down)
         entry == {r \in client.pending : req[r].id = message.id} IN
     IF message.type = "event"
       THEN /\ heard' = IF client.listening THEN [heard EXCEPT !.feed = Append(@, message.change)] ELSE heard
            /\ UNCHANGED <<client, req>>
       ELSE /\ client' = [client EXCEPT !.pending = @ \ entry]
            /\ req' = [r \in Requests |-> IF r \in entry
                 THEN [New EXCEPT !.pc = IF message.ok THEN "resolved" ELSE "rejected",
                                  !.listened = req[r].listened, !.answer = message.of]
                 ELSE req[r]]
            /\ heard' = IF entry # {} THEN [heard EXCEPT !.replies = @ \cup message.changes] ELSE heard
  /\ UNCHANGED <<serving, store>>

---------------------------------------------------------------------------
(* The server. A connection whose context is not resolved has no listener:
   what it receives is lost. *)
Accepted(s) ==
  /\ sock[s].server = "accepting"
  /\ \/ sock' = [sock EXCEPT ![s].server = "ready"]
     \/ sock' = [sock EXCEPT ![s].server = "gone", ![s].client = IF @ = "open" THEN "closing" ELSE @]
  /\ UNCHANGED <<client, req, serving, store, heard>>

(* The adapter subscribes to the feed for as long as a command runs. *)
Since(r) == IF r \in Commands THEN Len(store) ELSE 0

ServerReceives(s) ==
  /\ sock[s].server \in {"accepting", "ready"} /\ sock[s].up # <<>>
  /\ sock' = [sock EXCEPT ![s].up = Tail(@)]
  /\ serving' = IF sock[s].server = "accepting" THEN serving
                ELSE serving \cup {[req |-> Head(sock[s].up).req, id |-> Head(sock[s].up).id,
                                    on |-> s, since |-> Since(Head(sock[s].up).req), stored |-> FALSE]}
  /\ UNCHANGED <<client, req, store, heard>>

(* The close of the connection reaches the server, which unsubscribes. *)
ServerCloses(s) ==
  /\ sock[s].client \in {"closing", "closed"} /\ sock[s].server \in {"accepting", "ready"}
  /\ sock[s].up = <<>>
  /\ sock' = [sock EXCEPT ![s].server = "gone"]
  /\ UNCHANGED <<client, req, serving, store, heard>>

Event == [type |-> "event", change |-> Len(store) + 1, id |-> None]

(* send() on the server's side of a connection. *)
Pushed(s, message) ==
  IF sock[s].server = "ready" /\ sock[s].client \in Live THEN Append(sock[s].down, message) ELSE sock[s].down

(* Mutant: the change is pushed to the other connections only. *)
FeedOthers(h) == [s \in Sockets |-> IF s = h.on THEN sock[s] ELSE [sock[s] EXCEPT !.down = Pushed(s, Event)]]

Feed(h) == [s \in Sockets |-> [sock[s] EXCEPT !.down = Pushed(s, Event)]]

(* The backend stores what a request asks for and emits the change, which
   goes to every connection that is served. *)
Stored(h) ==
  /\ ~h.stored
  /\ serving' = (serving \ {h}) \cup {[h EXCEPT !.stored = TRUE]}
  /\ store' = Append(store, h.req)
  /\ sock' = Feed(h)
  /\ UNCHANGED <<client, req, heard>>

(* handleMessage() goes on after its await: the response is sent, which
   fails if the connection is gone. *)
Replied(h, ok, changes) ==
  /\ serving' = serving \ {h}
  /\ sock' = [sock EXCEPT ![h.on].down =
       Pushed(h.on, [type |-> "response", id |-> h.id, of |-> h.req, ok |-> ok, changes |-> changes])]
  /\ UNCHANGED <<client, req, store, heard>>

(* What a command's subscription collected: every change of the shared feed,
   until the reply. *)
Captured(h) == IF h.req \in Commands THEN (h.since + 1)..Len(store) ELSE {}

(* BackendAdapter.handle(): the backend is done. *)
Answered(h) == h.stored /\ Replied(h, TRUE, Captured(h))

(* FORBIDDEN_MODEL, the backend throws and has stored nothing, or a command
   throws, perhaps after it has stored something: an error response, without
   changes. *)
Refused(h) == (h.stored => h.req \in Commands) /\ Replied(h, FALSE, {})

---------------------------------------------------------------------------
Events(s) ==
  \/ Opened(s) \/ Closed(s) \/ Receive(s) \/ Accepted(s) \/ ServerReceives(s)

Next ==
  \/ \E r \in Requests : Request(r)
  \/ Subscribe \/ Close
  \/ \E s \in Sockets : Events(s) \/ Errored(s) \/ Dropped(s) \/ ServerCloses(s)
  \/ \E h \in serving : Stored(h) \/ Answered(h) \/ Refused(h)

Spec == Init /\ [][Next]_vars

(* A connect ends, the events of a socket are delivered, and the backend is
   done at some time with every request it was given. *)
Served(r) == \E h \in serving : h.req = r /\ (Stored(h) \/ Answered(h) \/ Refused(h))
Fairness ==
  /\ \A s \in 1..MaxSockets : WF_vars(s \in Sockets /\ Events(s))
  /\ \A r \in Requests : WF_vars(Served(r))
FairSpec == Spec /\ Fairness

---------------------------------------------------------------------------
(* "Request/response messages are correlated by id" (WebSocketTransport.ts:32):
   a request gets the answer to itself, whatever connections came and went,
   and if it resolves its write is stored, once. *)
AnswersMatch ==
  \A r \in Requests :
    /\ req[r].answer \in {None, r}
    /\ Cardinality({i \in DOMAIN store : store[i] = r}) <= 1
    /\ req[r].pc = "resolved" => \E i \in DOMAIN store : store[i] = r

(* "so it invalidates query caches exactly like a live-subscription event
   would" (RemoteBackend.ts:116): when a request resolves, its change has been
   heard: over the feed if the client has been subscribed since it asked, and
   with the reply of a command in any case. *)
HeardBeforeAnswered ==
  \A r \in Requests, i \in DOMAIN store :
    req[r].pc = "resolved" /\ store[i] = r /\ (req[r].listened \/ r \in Commands)
      => i \in Range(heard.feed) \cup heard.replies

(* The feed is heard in the order of the emissions and nothing twice, as long
   as the application does not close() the transport. *)
HeardInOrder ==
  client.closes = 0 => \A i, j \in DOMAIN heard.feed : i < j => heard.feed[i] < heard.feed[j]

(* The same when it does. *)
HeardOnce == \A i, j \in DOMAIN heard.feed : i # j => heard.feed[i] # heard.feed[j]

(* "no hung promises" (ws.test.ts:82): a request that was made is answered or
   fails, as long as the server has a connection's context at once. *)
Asked(r) == req[r].pc \in {"connecting", "sent"}
EveryRequestEnds == \A r \in Requests : Asked(r) /\ ~client.late ~> ~Asked(r)

(* The same while it resolves the context ("May be async",
   attachWebSocketServer.ts:27). *)
LateRequestsEnd == \A r \in Requests : Asked(r) ~> ~Asked(r)
===========================================================================
