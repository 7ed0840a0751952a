----------------------------- MODULE LspClient ------------------------------
(***************************************************************************)
(* The Playground's language client (site/play-ui/src/lsp.ts,              *)
(* DawnLspClient): a connection that is abandoned and tried again, one     *)
(* Full sync in flight at a time, its diagnostics paired to it by version, *)
(* and queries that wait for the text on screen to be analysed and are     *)
(* dropped when it changes.                                                *)
(*                                                                         *)
(* A text is its generation.  Every connection has a wire of its own, so   *)
(* that an abandoned socket's messages and events still arrive.  The       *)
(* server behind a wire is this module's environment: it analyses syncs in *)
(* order, may publish a version again, and answers about the text it       *)
(* analysed last.                                                          *)
(***************************************************************************)
EXTENDS Integers, Sequences

CONSTANTS
  Queries,        \* names of queries; each is made once
  MethodOf,       \* the method of each query
  MaxGeneration,  \* bound: texts the editor produces
  MaxConnection,  \* bound: connection numbers used
  MaxRepeats      \* bound: publishes the server repeats on a wire

ASSUME BoundAssumption ==
  /\ MaxGeneration \in Nat \ {0}
  /\ MaxConnection \in Nat \ {0}
  /\ MaxRepeats \in Nat
ASSUME MethodAssumption == DOMAIN MethodOf = Queries

VARIABLES
  statusValue,          \* "fallback", "connecting" or "ready"
  stopped,
  connection,           \* counts connections and their ends
  socket,               \* this.socket: its connection number, or 0
  retryCount,
  reconnectTimer,
  opened,
  version,              \* DawnWorkspace.file.version
  generation,           \* of the text in the editor
  diagnosedGeneration,
  inFlight,             \* the sync that has no diagnostics yet, or NoFlight
  queryEpoch,           \* the newest query of each method
  query,                \* how far each query has come
  wire,                 \* wire[c]: what passes over connection c
  heard,                \* the last diagnostics event: for which text, of which
  spent                 \* connections tried since one earned the budget back

session == <<statusValue, stopped, connection, socket, retryCount,
             reconnectTimer, spent>>
texts == <<opened, version, generation, diagnosedGeneration, inFlight, heard>>
queries == <<queryEpoch, query>>
vars == <<session, texts, queries, wire>>

Connections == 1 .. MaxConnection
NoFlight == [generation |-> 0, version |-> 0]
NewQuery == [phase |-> "new", generation |-> 0, epoch |-> 0]

(* `up` holds the client's frames, `down` the server's; `analysed` is the
   sync the server has analysed last. *)
NewWire == [state |-> "none", up |-> <<>>, down |-> <<>>,
            analysed |-> NoFlight, repeats |-> 0]

Init ==
  /\ statusValue = "fallback" /\ stopped = FALSE
  /\ connection = 0 /\ socket = 0
  /\ retryCount = 0 /\ reconnectTimer = FALSE
  /\ opened = FALSE /\ version = 0
  /\ generation = 0 /\ diagnosedGeneration = -1
  /\ inFlight = NoFlight
  /\ queryEpoch = [m \in {MethodOf[q] : q \in Queries} |-> 0]
  /\ query = [q \in Queries |-> NewQuery]
  /\ wire = [c \in Connections |-> NewWire]
  /\ heard = [text |-> 0, about |-> 0]
  /\ spent = 0

-----------------------------------------------------------------------------
(* Connections *)

IsReady == statusValue = "ready"

(* [mutant] a message is taken whichever socket it comes from *)
IsCurrentAny(c) == ~stopped /\ socket # 0

IsCurrent(c) == ~stopped /\ c = connection /\ c = socket

Send(w, c, frame) == [w EXCEPT ![c].up = Append(@, frame)]
(* socket.close(1000): only what had arrived is still there. *)
Leave(c) == wire' = [wire EXCEPT ![c] = [NewWire EXCEPT !.state = wire[c].state,
                                                       !.down = wire[c].down]]
In(phases) == {q \in Queries : query[q].phase \in phases}
Moved(qs, phase) ==
  [q \in Queries |-> IF q \in qs THEN [query[q] EXCEPT !.phase = phase]
                     ELSE query[q]]

(* An event or a timer waits for the promises that are settled: a query whose
   text has been analysed goes on first. *)
EventLoop == In({"synced"}) = {}

(* connect *)
Connect ==
  /\ connection < MaxConnection
  /\ reconnectTimer' = FALSE
  /\ statusValue' = "connecting"
  /\ connection' = connection + 1
  /\ socket' = connection + 1
  /\ wire' = [wire EXCEPT ![connection + 1].state = "connecting"]
  /\ spent' = spent + 1
  /\ UNCHANGED <<stopped, retryCount, queries, opened, version,
                 diagnosedGeneration, inFlight, heard>>

Start == ~stopped /\ connection = 0 /\ Connect /\ generation' = 1

Reconnect == reconnectTimer /\ EventLoop /\ Connect /\ UNCHANGED generation

MayRetry(count) == count < 1

(* [mutant] only requests end with their connection, waiters do not *)
EndedRequests == In({"requested"})

(* The promises that abandon rejects *)
Ended == In({"waiting", "requested"})

(* abandon.  `earned`: the connection had been ready for the whole budget. *)
Abandon(c, retry, earned) ==
  IF c # connection THEN UNCHANGED <<session, texts, queries>>
  ELSE
  /\ socket' = 0
  /\ connection' = connection + 1
  /\ query' = Moved(Ended, "rejected")
  /\ inFlight' = NoFlight
  /\ opened' = FALSE
  /\ statusValue' = "fallback"
  /\ LET count == IF retry /\ earned THEN 0 ELSE retryCount
         again == retry /\ MayRetry(count) IN
       /\ retryCount' = IF again THEN count + 1 ELSE count
       /\ reconnectTimer' = again
       /\ spent' = IF retry /\ earned THEN 0 ELSE spent
  /\ UNCHANGED <<stopped, version, generation, diagnosedGeneration, heard,
                 queryEpoch>>

(* A connection that never was ready earns nothing. *)
Earned == IF IsReady THEN BOOLEAN ELSE {FALSE}

Stop ==
  /\ connection > 0 /\ ~stopped
  /\ stopped' = TRUE
  /\ socket' = 0
  /\ connection' = connection + 1
  /\ query' = Moved(Ended, "rejected")
  /\ inFlight' = NoFlight /\ opened' = FALSE
  /\ statusValue' = "fallback"
  /\ reconnectTimer' = FALSE
  /\ UNCHANGED <<retryCount, spent, version, generation, diagnosedGeneration,
                 heard, queryEpoch>>
  /\ IF socket = 0 THEN UNCHANGED wire ELSE Leave(socket)

(* onerror or onclose, of the socket there is or of an abandoned one *)
Closed(c) ==
  /\ EventLoop /\ wire[c].state \in {"connecting", "open"}
  /\ wire' = [wire EXCEPT ![c] = [NewWire EXCEPT !.state = "closed"]]
  /\ \E earned \in Earned : Abandon(c, TRUE, earned)

(* [mutant] a handshake that does not answer is waited for *)
HandshakeForever(c) == FALSE

(* The connect timer, the refused subprotocol, and the initialize timeout *)
HandshakeFails(c) ==
  /\ EventLoop /\ statusValue = "connecting" /\ c = socket
  /\ Abandon(c, TRUE, FALSE)
  /\ Leave(c)

(* onopen: the client library sends `initialize`. *)
Opened(c) ==
  /\ EventLoop /\ wire[c].state = "connecting"
  /\ wire' = IF IsCurrent(c)
       THEN Send([wire EXCEPT ![c].state = "open"], c, [k |-> "initialize"])
       ELSE [wire EXCEPT ![c].state = "open"]
  /\ UNCHANGED <<session, texts, queries>>

-----------------------------------------------------------------------------
(* Texts *)

(* sendLatestText, when a sync may go out: the text there is after the step,
   over the wires w *)
SendLatestText(w) ==
  LET next == IF opened' THEN version + 1 ELSE 1 IN
  /\ version' = next
  /\ inFlight' = [generation |-> generation', version |-> next]
  /\ wire' = Send(w, connection, [k |-> "sync", generation |-> generation',
                                  version |-> next])

(* rejectStaleSyncWaiters *)
StaleWaiters == {q \in In({"waiting"}) : query[q].generation # generation'}

(* update: the editor has another text. *)
Update ==
  /\ connection > 0
  /\ generation < MaxGeneration
  /\ generation' = generation + 1
  /\ query' = Moved(StaleWaiters, "rejected")
  /\ UNCHANGED opened
  /\ IF IsReady /\ inFlight = NoFlight THEN SendLatestText(wire)
     ELSE UNCHANGED <<version, inFlight, wire>>
  /\ UNCHANGED <<session, diagnosedGeneration, heard, queryEpoch>>

DiagnosticsTimeout ==
  /\ EventLoop /\ inFlight # NoFlight
  /\ Abandon(connection, FALSE, FALSE)
  /\ Leave(connection)

-----------------------------------------------------------------------------
(* Messages.  Those of an abandoned socket are dropped: a browser delivers
   none after close(), but the code does not count on it. *)

Popped(c) == [wire EXCEPT ![c].down = Tail(@)]
Receives(c, kind) ==
  /\ EventLoop /\ wire[c].down # <<>> /\ Head(wire[c].down).k = kind

Dropped(c) ==
  /\ EventLoop /\ wire[c].down # <<>> /\ ~IsCurrent(c)
  /\ wire' = Popped(c)
  /\ UNCHANGED <<session, texts, queries>>

(* The answer to `initialize`: the connection is ready for its first text. *)
Ready(c) ==
  /\ Receives(c, "initialized") /\ IsCurrent(c)
  /\ statusValue' = "ready"
  /\ diagnosedGeneration' = -1
  /\ opened' = TRUE
  /\ version' = 1
  /\ inFlight' = [generation |-> generation, version |-> 1]
  /\ wire' = Send(Popped(c), c, [k |-> "sync", generation |-> generation,
                                 version |-> 1])
  /\ UNCHANGED <<stopped, connection, socket, retryCount, reconnectTimer,
                 spent, generation, heard, queries>>

(* [mutant] diagnostics are paired to the sync in flight by arrival *)
PairedByArrival(publish) == inFlight # NoFlight

(* Whether a publish answers the sync in flight *)
Paired(publish) == inFlight # NoFlight /\ publish.version = inFlight.version

Unpaired(c) ==
  /\ Receives(c, "publish") /\ IsCurrent(c)
  /\ ~Paired(Head(wire[c].down))
  /\ wire' = Popped(c)
  /\ UNCHANGED <<session, texts, queries>>

(* [mutant] the text edited while a sync was in flight is not sent after it *)
ReceiveDiagnosticsOnly(c) ==
  /\ Receives(c, "publish") /\ IsCurrent(c)
  /\ Paired(Head(wire[c].down))
  /\ diagnosedGeneration' = inFlight.generation
  /\ UNCHANGED <<session, generation, opened, queryEpoch, version, query, heard>>
  /\ inFlight' = NoFlight
  /\ wire' = Popped(c)

(* receiveDiagnostics: the sync is answered.  Listeners hear of the text on
   screen only; a newer text is sent now. *)
ReceiveDiagnostics(c) ==
  /\ Receives(c, "publish") /\ IsCurrent(c)
  /\ Paired(Head(wire[c].down))
  /\ diagnosedGeneration' = inFlight.generation
  /\ UNCHANGED <<session, generation, opened, queryEpoch>>
  /\ IF inFlight.generation = generation
       THEN /\ heard' = [text |-> generation,
                         about |-> Head(wire[c].down).generation]
            /\ query' = Moved({q \in In({"waiting"}) :
                                 query[q].generation = generation}, "synced")
            /\ inFlight' = NoFlight
            /\ wire' = Popped(c)
            /\ UNCHANGED version
       ELSE /\ query' = Moved(StaleWaiters, "rejected")
            /\ SendLatestText(Popped(c))
            /\ UNCHANGED heard

(* What is no JSON-RPC message ends the connection for good. *)
Garbage(c) ==
  /\ EventLoop /\ wire[c].state = "open" /\ IsCurrent(c)
  /\ Abandon(c, FALSE, FALSE)
  /\ Leave(c)

-----------------------------------------------------------------------------
(* Queries (queryWith) *)

Epoch(q) == queryEpoch[MethodOf[q]]

(* [mutant] a late answer is dropped for a newer query only *)
FreshEpoch(q) == query[q].epoch = Epoch(q)

(* The text and the query are still the newest. *)
Fresh(q) == query[q].generation = generation /\ query[q].epoch = Epoch(q)

Ask(q) ==
  /\ query[q].phase = "new" /\ connection > 0
  /\ IF ~IsReady THEN /\ query' = Moved({q}, "rejected")
                      /\ UNCHANGED queryEpoch
     ELSE /\ queryEpoch' = [queryEpoch EXCEPT ![MethodOf[q]] = @ + 1]
          /\ query' = [query EXCEPT ![q] =
               [phase |-> IF generation = diagnosedGeneration THEN "synced"
                          ELSE "waiting",
                generation |-> generation, epoch |-> Epoch(q) + 1]]
  /\ UNCHANGED <<session, texts, wire>>

QueryTimeout(q) ==
  /\ EventLoop /\ query[q].phase \in {"waiting", "requested"}
  /\ query' = Moved({q}, "rejected")
  /\ UNCHANGED <<session, texts, queryEpoch, wire>>

(* The text has been analysed: the request is sent, if it is still wanted,
   there is time left and the connection is still there. *)
Request(q) ==
  /\ query[q].phase = "synced"
  /\ \/ /\ Fresh(q) /\ socket # 0
        /\ query' = Moved({q}, "requested")
        /\ wire' = Send(wire, socket, [k |-> "request", query |-> q])
     \/ query' = Moved({q}, "rejected") /\ UNCHANGED wire
  /\ UNCHANGED <<session, texts, queryEpoch>>

(* The answer, unless the request was given up *)
Response(c) ==
  /\ Receives(c, "response") /\ IsCurrent(c)
  /\ wire' = Popped(c)
  /\ LET q == Head(wire[c].down).query IN
       query' = IF query[q].phase # "requested" THEN query
                ELSE IF Fresh(q)
                  THEN [query EXCEPT ![q].phase = "answered",
                          ![q].generation = Head(wire[c].down).generation]
                ELSE Moved({q}, "rejected")
  /\ UNCHANGED <<session, texts, queryEpoch>>

-----------------------------------------------------------------------------
(* The server behind the wire in use *)

Serve(c) ==
  /\ wire[c].state = "open" /\ c = socket /\ wire[c].up # <<>>
  /\ LET frame == Head(wire[c].up)
         w == [wire EXCEPT ![c].up = Tail(@)] IN
       wire' = CASE frame.k = "initialize" ->
                      [w EXCEPT ![c].down = Append(@, [k |-> "initialized"])]
                 [] frame.k = "sync" ->
                      [w EXCEPT ![c].analysed = [generation |-> frame.generation,
                                                 version |-> frame.version],
                         ![c].down = Append(@, [k |-> "publish",
                           version |-> frame.version,
                           generation |-> frame.generation])]
                 [] frame.k = "request" ->
                      [w EXCEPT ![c].down = Append(@, [k |-> "response",
                           query |-> frame.query,
                           generation |-> w[c].analysed.generation])]
  /\ UNCHANGED <<session, texts, queries>>

Repeat(c) ==
  /\ wire[c].state = "open" /\ c = socket
  /\ wire[c].analysed # NoFlight /\ wire[c].repeats < MaxRepeats
  /\ wire' = [wire EXCEPT ![c].repeats = @ + 1,
                ![c].down = Append(@, [k |-> "publish",
                  version |-> wire[c].analysed.version,
                  generation |-> wire[c].analysed.generation])]
  /\ UNCHANGED <<session, texts, queries>>

Message(c) ==
  Dropped(c) \/ Ready(c) \/ Unpaired(c) \/ ReceiveDiagnostics(c) \/ Response(c)

Next ==
  \/ Start \/ Reconnect \/ Stop \/ Update \/ DiagnosticsTimeout
  \/ \E c \in Connections :
       \/ Closed(c) \/ HandshakeFails(c) \/ Opened(c) \/ Message(c) \/ Garbage(c)
       \/ Serve(c) \/ Repeat(c)
  \/ \E q \in Queries : Ask(q) \/ QueryTimeout(q) \/ Request(q)

(* The browser's event loop delivers what has arrived and runs the timer of
   a handshake, and the server answers.  No other timer has to fire, and
   nothing makes a connection last. *)
Spec ==
  /\ Init /\ [][Next]_vars
  /\ \A c \in Connections :
       WF_vars(Message(c)) /\ WF_vars(Serve(c)) /\ WF_vars(HandshakeFails(c))
  /\ \A q \in Queries : WF_vars(Request(q))

-----------------------------------------------------------------------------
(* Properties *)

TypeOK ==
  /\ statusValue \in {"fallback", "connecting", "ready"}
  /\ connection \in Nat /\ socket \in {0, connection}
  /\ socket = 0 <=> statusValue = "fallback"
  /\ reconnectTimer => socket = 0
  /\ inFlight # NoFlight => IsReady /\ opened /\ inFlight.version = version
  /\ diagnosedGeneration <= generation
  /\ \A q \in Queries : query[q].phase \in
       {"new", "waiting", "synced", "requested", "answered", "rejected"}
  /\ In({"waiting", "requested"}) # {} => IsReady

(* "so a late answer never describes newer text": when a query is answered,
   the text its answer is about is the text on screen. *)
AnswersTheScreen ==
  [][\A q \in Queries :
       query'[q].phase = "answered" /\ query[q].phase # "answered"
         => query'[q].generation = generation']_vars

(* What the editor marks is what the server found in the text it shows, not
   a repeated, reordered or abandoned publish. *)
MarksTheScreen == heard.text = heard.about

(* The budget: however connections end, two in a row that did not earn it
   are the last. *)
RetryBudget == spent <= 2

(* Edits made while a sync is in flight are not lost, and the status does not
   stay at connecting: the client ends up without a connection, or with the
   diagnostics of the last text. *)
LastTextDiagnosed ==
  <>[](statusValue = "fallback" \/ (IsReady /\ diagnosedGeneration = generation))

(* A query comes to an end by the connection's own course, without waiting
   for its deadline. *)
QueriesSettle ==
  \A q \in Queries :
    query[q].phase # "new" ~> query[q].phase \in {"answered", "rejected"}
=============================================================================
