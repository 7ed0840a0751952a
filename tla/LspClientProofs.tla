--------------------------- MODULE LspClientProofs ---------------------------
(***************************************************************************)
(* Proofs about the Playground's language client (LspClient): what it      *)
(* marks and what it answers is about the text on screen, and its retry    *)
(* budget holds, for any queries, texts, connections and repeats.          *)
(*                                                                         *)
(* The invariant follows a version: on the wire in use, whatever the       *)
(* server says of the version in flight is about the text in flight, and   *)
(* once that text is diagnosed no other sync is on the way, so that what   *)
(* the server is asked next is asked of that text.                         *)
(***************************************************************************)
EXTENDS LspClient, TLAPS

Phases == {"new", "waiting", "synced", "requested", "answered", "rejected"}
Flight == [generation : Nat, version : Nat]
UpFrame == [k : {"initialize"}] \cup [k : {"sync"}, generation : Nat, version : Nat]
             \cup [k : {"request"}, query : Queries]
DownFrame == [k : {"initialized"}] \cup [k : {"publish"}, generation : Nat, version : Nat]
               \cup [k : {"response"}, query : Queries, generation : Nat]
Wire == [state : {"none", "connecting", "open", "closed"},
         up : Seq(UpFrame), down : Seq(DownFrame), analysed : Flight, repeats : Nat]

Types ==
  /\ statusValue \in {"fallback", "connecting", "ready"}
  /\ stopped \in BOOLEAN /\ reconnectTimer \in BOOLEAN /\ opened \in BOOLEAN
  /\ connection \in Nat /\ socket \in {0, connection}
  /\ generation \in Nat /\ version \in Nat /\ diagnosedGeneration \in Int
  /\ inFlight \in Flight
  /\ queryEpoch \in [{MethodOf[q] : q \in Queries} -> Nat]
  /\ query \in [Queries -> [phase : Phases, generation : Nat, epoch : Nat]]
  /\ wire \in [Connections -> Wire]

(* Status, socket and timer agree, and what is in flight is the version the
   workspace has. *)
Steady ==
  /\ socket = 0 <=> statusValue = "fallback"
  /\ socket # 0 => socket \in Connections
  /\ reconnectTimer => socket = 0
  /\ stopped => socket = 0 /\ ~reconnectTimer
  /\ connection = 0 => generation = 0
  /\ IsReady => opened /\ version >= 1
  /\ diagnosedGeneration <= generation
  /\ inFlight # NoFlight => /\ IsReady /\ inFlight.version = version
                            /\ inFlight.generation <= generation

(* A connection number not yet used has a wire nobody touched. *)
Unused == \A c \in Connections : c >= connection /\ c # socket => wire[c] = NewWire

(* Until the answer to `initialize` nothing else is on the wire in use. *)
Handshake ==
  statusValue = "connecting" =>
    LET w == wire[socket] IN
      /\ w.analysed = NoFlight
      /\ \/ w.state = "connecting" /\ w.up = <<>> /\ w.down = <<>>
         \/ w.state = "open" /\ w.up = <<[k |-> "initialize"]>> /\ w.down = <<>>
         \/ w.state = "open" /\ w.up = <<>> /\ w.down = <<[k |-> "initialized"]>>

(* How far a query is whose request has been sent *)
Sent == {"requested", "answered", "rejected"}

(* A sync on its way is the one in flight, and the only one. *)
SyncsUp(w) ==
  \A i \in DOMAIN w.up :
    /\ w.up[i].k # "initialize"
    /\ w.up[i].k = "sync" =>
         /\ inFlight = [generation |-> w.up[i].generation, version |-> w.up[i].version]
         /\ inFlight # NoFlight
         /\ w.analysed.version < version
         /\ \A j \in DOMAIN w.up : w.up[j].k = "sync" => j = i
    /\ w.up[i].k = "request" => query[w.up[i].query].phase \in Sent

(* What is said of the version in flight is about the text in flight. *)
About(version_, generation_) ==
  version_ = version /\ inFlight # NoFlight => generation_ = inFlight.generation

PublishesDown(w) ==
  \A i \in DOMAIN w.down :
    /\ w.down[i].k # "initialized"
    /\ w.down[i].k = "publish" =>
         /\ w.down[i].version <= w.analysed.version
         /\ About(w.down[i].version, w.down[i].generation)

(* An answer to a query about the text on screen is about that text. *)
AnswersDown(w) ==
  \A i \in DOMAIN w.down :
    w.down[i].k = "response" =>
      LET q == w.down[i].query IN
        /\ query[q].phase \in Sent
        /\ query[q].phase = "requested" /\ query[q].generation = generation
             => w.down[i].generation = generation

(* Once the text on screen is diagnosed, it is what the server has analysed
   last and will go on to have. *)
Diagnosed(w) ==
  diagnosedGeneration = generation =>
    /\ inFlight = NoFlight
    /\ w.analysed.generation = generation

Talks ==
  IsReady =>
    LET w == wire[socket] IN
      /\ w.state = "open"
      /\ SyncsUp(w) /\ PublishesDown(w) /\ AnswersDown(w) /\ Diagnosed(w)
      /\ w.analysed.version <= version
      /\ About(w.analysed.version, w.analysed.generation)

(* A query that has been let through while its text is still on screen was
   let through by the diagnosis of that text. *)
Asks ==
  /\ statusValue = "connecting" \/ connection = 0 => In({"synced"}) = {}
  /\ \A q \in Queries :
       /\ query[q].phase \in {"waiting", "requested"} => IsReady
       /\ query[q].phase \in {"waiting", "synced", "requested"}
            => query[q].generation <= generation
       /\ IsReady /\ query[q].phase \in {"synced", "requested"}
            /\ query[q].generation = generation => diagnosedGeneration = generation

(* Connections tried are counted by the retries made. *)
Budget ==
  /\ spent \in Nat /\ retryCount \in 0..1
  /\ spent <= retryCount + 1
  /\ reconnectTimer => spent <= retryCount
  /\ connection = 0 => spent = 0

Session == Types /\ Steady /\ Unused /\ Handshake /\ Talks /\ Asks /\ MarksTheScreen

IInv == Session /\ Budget

-----------------------------------------------------------------------------
(* Wires *)

LEMMA Sequences ==
  ASSUME NEW S, NEW s \in Seq(S), NEW e \in S
  PROVE  /\ Append(s, e) \in Seq(S)
         /\ \A i \in DOMAIN Append(s, e) :
              \/ i \in DOMAIN s /\ Append(s, e)[i] = s[i]
              \/ i = Len(s) + 1 /\ Append(s, e)[i] = e
         /\ Len(s) + 1 \notin DOMAIN s
         /\ s # <<>> => /\ Head(s) \in S /\ Tail(s) \in Seq(S)
                        /\ 1 \in DOMAIN s /\ Head(s) = s[1]
                        /\ \A i \in DOMAIN Tail(s) : i + 1 \in DOMAIN s /\ Tail(s)[i] = s[i + 1]
                                                     /\ i \in Int
OBVIOUS

LEMMA Frames ==
  /\ [k |-> "initialize"] \in UpFrame
  /\ \A g \in Nat, v \in Nat : [k |-> "sync", generation |-> g, version |-> v] \in UpFrame
  /\ \A q \in Queries : [k |-> "request", query |-> q] \in UpFrame
  /\ [k |-> "initialized"] \in DownFrame
  /\ \A g \in Nat, v \in Nat : [k |-> "publish", version |-> v, generation |-> g] \in DownFrame
  /\ \A q \in Queries, g \in Nat :
       [k |-> "response", query |-> q, generation |-> g] \in DownFrame
BY DEF UpFrame, DownFrame

LEMMA FrameFields ==
  /\ \A f \in UpFrame : /\ f.k \in {"initialize", "sync", "request"}
                        /\ f.k = "initialize" => f = [k |-> "initialize"]
                        /\ f.k = "sync" => f.generation \in Nat /\ f.version \in Nat
                        /\ f.k = "request" => f.query \in Queries
  /\ \A f \in DownFrame : /\ f.k \in {"initialized", "publish", "response"}
                          /\ f.k = "publish" => f.generation \in Nat /\ f.version \in Nat
                          /\ f.k = "response" => f.generation \in Nat /\ f.query \in Queries
BY DEF UpFrame, DownFrame

LEMMA SendFacts ==
  ASSUME NEW w \in [Connections -> Wire], NEW c \in Connections, NEW f \in UpFrame
  PROVE  /\ Send(w, c, f) \in [Connections -> Wire]
         /\ \A d \in Connections : d # c => Send(w, c, f)[d] = w[d]
         /\ Send(w, c, f)[c].up = Append(w[c].up, f)
         /\ Send(w, c, f)[c].down = w[c].down
         /\ Send(w, c, f)[c].state = w[c].state
         /\ Send(w, c, f)[c].analysed = w[c].analysed
<1>1. w[c] \in Wire /\ w[c].up \in Seq(UpFrame)
  BY DEF Wire
<1>2. Append(w[c].up, f) \in Seq(UpFrame)
  BY <1>1, Sequences
<1>3. [w[c] EXCEPT !.up = Append(w[c].up, f)] \in Wire
  BY <1>1, <1>2 DEF Wire
<1>4. Send(w, c, f) = [w EXCEPT ![c] = [w[c] EXCEPT !.up = Append(w[c].up, f)]]
  BY DEF Send
<1> QED
  BY <1>1, <1>3, <1>4 DEF Wire

LEMMA PoppedFacts ==
  ASSUME Types, NEW c \in Connections, wire[c].down # <<>>
  PROVE  /\ Popped(c) \in [Connections -> Wire]
         /\ \A d \in Connections : d # c => Popped(c)[d] = wire[d]
         /\ Popped(c)[c].down = Tail(wire[c].down)
         /\ Popped(c)[c].up = wire[c].up
         /\ Popped(c)[c].state = wire[c].state
         /\ Popped(c)[c].analysed = wire[c].analysed
<1>1. wire[c] \in Wire /\ wire[c].down \in Seq(DownFrame)
  BY DEF Types, Wire
<1>2. Tail(wire[c].down) \in Seq(DownFrame)
  BY <1>1
<1>3. [wire[c] EXCEPT !.down = Tail(wire[c].down)] \in Wire
  BY <1>1, <1>2 DEF Wire
<1>4. Popped(c) = [wire EXCEPT ![c] = [wire[c] EXCEPT !.down = Tail(wire[c].down)]]
  BY DEF Popped
<1> QED
  BY <1>1, <1>3, <1>4 DEF Wire, Types

LEMMA NewWires ==
  ASSUME NEW st \in {"none", "connecting", "open", "closed"}
  PROVE  /\ \A dn \in Seq(DownFrame) : [NewWire EXCEPT !.state = st, !.down = dn] \in Wire
         /\ [NewWire EXCEPT !.state = st] \in Wire
         /\ [NewWire EXCEPT !.state = st].up = <<>>
         /\ [NewWire EXCEPT !.state = st].down = <<>>
         /\ [NewWire EXCEPT !.state = st].state = st
         /\ [NewWire EXCEPT !.state = st].analysed = NoFlight
<1>1. NoFlight \in Flight
  BY DEF NoFlight, Flight
<1>2. <<>> \in Seq(UpFrame) /\ <<>> \in Seq(DownFrame)
  OBVIOUS
<1>3. NewWire \in Wire
  BY <1>1, <1>2 DEF NewWire, Wire
<1>4. [NewWire EXCEPT !.state = st] \in Wire
  BY <1>3 DEF Wire
<1>5. ASSUME NEW dn \in Seq(DownFrame)
      PROVE  [NewWire EXCEPT !.state = st, !.down = dn] \in Wire
  BY <1>3 DEF Wire
<1> QED
  BY <1>4, <1>5 DEF NewWire

LEMMA LeaveFacts ==
  ASSUME Types, NEW c \in Nat, Leave(c)
  PROVE  /\ wire' \in [Connections -> Wire]
         /\ \A d \in Connections : d # c => wire'[d] = wire[d]
<1>1. CASE c \in Connections
  <2>1. [NewWire EXCEPT !.state = wire[c].state, !.down = wire[c].down] \in Wire
    <3>1. /\ wire[c].state \in {"none", "connecting", "open", "closed"}
          /\ wire[c].down \in Seq(DownFrame)
      BY <1>1 DEF Types, Wire
    <3> QED
      BY <3>1, NewWires
  <2> QED
    BY <1>1, <2>1 DEF Leave, Types
<1>2. CASE c \notin Connections
  BY <1>2 DEF Leave, Types
<1> QED
  BY <1>1, <1>2

-----------------------------------------------------------------------------
(* What is said of a wire stays true while what it is about stays *)

LEMMA SameSyncs ==
  ASSUME SyncsUp(wire[socket]), UNCHANGED <<query, inFlight, version, socket>>,
         wire'[socket].up = wire[socket].up,
         wire'[socket].analysed = wire[socket].analysed
  PROVE  SyncsUp(wire[socket])'
BY SMTT(60) DEF SyncsUp

LEMMA SameAnswers ==
  ASSUME AnswersDown(wire[socket]), UNCHANGED <<query, generation, socket>>,
         wire'[socket].down = wire[socket].down
  PROVE  AnswersDown(wire[socket])'
BY SMTT(60) DEF AnswersDown

-----------------------------------------------------------------------------
(* Steps outside a session: other wires, a connection's end and beginning *)

LEMMA OtherWires ==
  ASSUME Session, UNCHANGED <<session, texts, queries>>,
         wire' \in [Connections -> Wire],
         \A d \in Connections : d = socket \/ d >= connection => wire'[d] = wire[d]
  PROVE  Session'
<1> USE DEF session, texts, queries, Session, IsReady
<1>1. Types'
  BY DEF Types
<1>2. Steady'
  BY DEF Steady
<1>3. Unused'
  BY DEF Unused
<1>4. socket # 0 => socket \in Connections /\ wire'[socket] = wire[socket]
  BY DEF Steady
<1>5. Handshake'
  BY <1>4 DEF Handshake, Steady
<1>6. Talks'
  <2> SUFFICES ASSUME statusValue = "ready" PROVE Talks'
    BY DEF Talks
  <2>1. wire'[socket] = wire[socket] /\ Talks
    BY <1>4 DEF Steady
  <2>2. SyncsUp(wire[socket])'
    BY <2>1, SameSyncs DEF Talks
  <2>3. PublishesDown(wire[socket])'
    BY <2>1 DEF PublishesDown, Talks, About
  <2>4. AnswersDown(wire[socket])'
    BY <2>1, SameAnswers DEF Talks
  <2>5. Diagnosed(wire[socket])'
    BY <2>1 DEF Diagnosed, Talks
  <2> QED
    BY <2>1, <2>2, <2>3, <2>4, <2>5 DEF Talks, About
<1>7. Asks'
  BY DEF Asks, In
<1>8. MarksTheScreen'
  BY DEF MarksTheScreen
<1> QED
  BY <1>1, <1>2, <1>3, <1>5, <1>6, <1>7, <1>8

LEMMA MovedFacts ==
  ASSUME Types, NEW qs, NEW phase \in Phases
  PROVE  /\ Moved(qs, phase) \in [Queries -> [phase : Phases, generation : Nat, epoch : Nat]]
         /\ \A q \in Queries :
              /\ Moved(qs, phase)[q].generation = query[q].generation
              /\ q \in qs => Moved(qs, phase)[q].phase = phase
              /\ q \notin qs => Moved(qs, phase)[q] = query[q]
BY DEF Types, Moved, Phases

(* Whatever ends a connection *)
LEMMA Gone ==
  ASSUME Session, statusValue' = "fallback", socket' = 0, connection' = connection + 1,
         query' = Moved(Ended, "rejected"), inFlight' = NoFlight, opened' = FALSE,
         reconnectTimer' \in BOOLEAN, stopped' \in BOOLEAN, stopped' => ~reconnectTimer',
         UNCHANGED <<generation, version, diagnosedGeneration, heard, queryEpoch>>,
         wire' \in [Connections -> Wire],
         \A d \in Connections : d > connection => wire'[d] = wire[d]
  PROVE  Session'
<1> USE DEF Session, IsReady
<1>0. "rejected" \in Phases
  BY DEF Phases
<1>1. Types'
  <2>1. query' \in [Queries -> [phase : Phases, generation : Nat, epoch : Nat]]
    BY <1>0, MovedFacts
  <2>2. connection' \in Nat /\ inFlight' \in Flight
    BY DEF Types, NoFlight, Flight
  <2> QED
    BY <2>1, <2>2 DEF Types
<1>2. Steady'
  BY DEF Steady, Types, NoFlight
<1>3. Unused'
  BY DEF Unused, Types, Connections
<1>4. Handshake' /\ Talks'
  BY DEF Handshake, Talks
<1>5. Asks'
  <2>0. \A q \in Queries :
          /\ query'[q].generation = query[q].generation
          /\ q \in Ended => query'[q].phase = "rejected"
          /\ q \notin Ended => query'[q] = query[q]
    BY <1>0, MovedFacts
  <2>1. \A q \in Queries : query'[q].phase \notin {"waiting", "requested"}
    BY <2>0 DEF Ended, In
  <2>2. \A q \in Queries : query'[q].phase = "synced" => query[q].phase = "synced"
                         /\ query'[q].generation = query[q].generation
    BY <2>0
  <2>3. connection' # 0 /\ statusValue' # "connecting"
    BY DEF Types
  <2> QED
    BY <2>1, <2>2, <2>3 DEF Asks
<1>6. MarksTheScreen'
  BY DEF MarksTheScreen
<1> QED
  BY <1>1, <1>2, <1>3, <1>4, <1>5, <1>6

LEMMA AbandonStep ==
  ASSUME Session, NEW retry \in BOOLEAN, NEW earned \in BOOLEAN, socket # 0,
         Abandon(socket, retry, earned),
         wire' \in [Connections -> Wire],
         \A d \in Connections : d # socket => wire'[d] = wire[d]
  PROVE  Session'
<1>1. socket = connection /\ connection \in Nat /\ ~stopped
  BY DEF Session, Types, Steady
<1>2. /\ statusValue' = "fallback" /\ socket' = 0 /\ connection' = connection + 1
      /\ query' = Moved(Ended, "rejected") /\ inFlight' = NoFlight /\ opened' = FALSE
      /\ reconnectTimer' = (retry /\ MayRetry(IF retry /\ earned THEN 0 ELSE retryCount))
      /\ UNCHANGED <<stopped, generation, version, diagnosedGeneration, heard, queryEpoch>>
  BY <1>1 DEF Abandon
<1>3. reconnectTimer' \in BOOLEAN
  BY <1>2 DEF MayRetry
<1>4. \A d \in Connections : d > connection => wire'[d] = wire[d]
  BY <1>1
<1>5. stopped' \in BOOLEAN /\ ~stopped'
  BY <1>1, <1>2 DEF Session, Types
<1> QED
  BY <1>2, <1>3, <1>4, <1>5, Gone

LEMMA EndStep ==
  ASSUME Session, NEW c \in Connections,
         HandshakeFails(c) \/ DiagnosticsTimeout \/ Garbage(c) \/ Closed(c) \/ Stop
  PROVE  Session'
<1>0. /\ connection \in Nat /\ socket \in {0, connection} /\ Types
      /\ socket = 0 <=> statusValue = "fallback"
      /\ socket # 0 => socket \in Nat
  BY DEF Session, Types, Steady
<1>1. CASE HandshakeFails(c)
  <2>1. c = socket /\ socket # 0 /\ Abandon(c, TRUE, FALSE) /\ Leave(c)
    BY <1>0, <1>1 DEF HandshakeFails
  <2> QED
    BY <1>0, <2>1, LeaveFacts, AbandonStep
<1>2. CASE DiagnosticsTimeout
  <2>1. socket # 0
    BY <1>0, <1>2 DEF DiagnosticsTimeout, Session, Steady, IsReady
  <2>2. Abandon(socket, FALSE, FALSE) /\ Leave(socket)
    BY <1>0, <1>2, <2>1 DEF DiagnosticsTimeout
  <2> QED
    BY <1>0, <2>1, <2>2, LeaveFacts, AbandonStep
<1>3. CASE Garbage(c)
  <2>1. c = socket /\ socket # 0 /\ Abandon(c, FALSE, FALSE) /\ Leave(c)
    BY <1>0, <1>3, c # 0 DEF Garbage, IsCurrent, Connections
  <2> QED
    BY <1>0, <2>1, LeaveFacts, AbandonStep
<1>4. CASE Closed(c)
  <2>1. wire' \in [Connections -> Wire] /\ \A d \in Connections : d # c => wire'[d] = wire[d]
    <3>1. [NewWire EXCEPT !.state = "closed"] \in Wire
      BY NewWires
    <3> QED
      BY <1>0, <1>4, <3>1, SMTT(60) DEF Closed, Types
  <2>2. wire[c].state # "none"
    BY <1>4 DEF Closed
  <2>3. c = socket \/ c < connection
    BY <1>0, <2>2 DEF Session, Unused, NewWire, Connections
  <2>4. PICK earned \in Earned : Abandon(c, TRUE, earned)
    BY <1>4 DEF Closed
  <2>5. CASE c = socket
    <3>1. earned \in BOOLEAN /\ socket # 0
      BY <2>5, Earned \subseteq BOOLEAN, c # 0 DEF Earned, Connections
    <3> QED
      BY <2>1, <2>4, <2>5, <3>1, AbandonStep
  <2>6. CASE c < connection
    <3>1. c # connection /\ c # socket
      BY <1>0, <2>6 DEF Connections
    <3>2. UNCHANGED <<session, texts, queries>>
      BY <2>4, <3>1 DEF Abandon
    <3>3. \A d \in Connections : d = socket \/ d >= connection => wire'[d] = wire[d]
      BY <1>0, <2>1, <2>6, <3>1 DEF Connections
    <3> QED
      BY <2>1, <3>2, <3>3, OtherWires
  <2> QED
    BY <2>3, <2>5, <2>6
<1>5. CASE Stop
  <2>1. /\ wire' \in [Connections -> Wire]
        /\ \A d \in Connections : d > connection => wire'[d] = wire[d]
    <3>1. CASE socket = 0
      BY <1>0, <1>5, <3>1 DEF Stop, Types
    <3>2. CASE socket # 0
      <4>1. Leave(socket) /\ socket = connection
        BY <1>0, <1>5, <3>2 DEF Stop
      <4> QED
        BY <1>0, <4>1, LeaveFacts DEF Connections
    <3> QED
      BY <3>1, <3>2
  <2> QED
    BY <1>5, <2>1, Gone DEF Stop
<1> QED
  BY <1>1, <1>2, <1>3, <1>4, <1>5

LEMMA ConnectStep ==
  ASSUME Session, Start \/ Reconnect
  PROVE  Session'
<1> USE DEF Session, IsReady
<1>0. /\ connection < MaxConnection /\ connection \in Nat /\ MaxConnection \in Nat
      /\ statusValue' = "connecting"
      /\ connection' = connection + 1 /\ socket' = connection + 1
      /\ reconnectTimer' = FALSE
      /\ wire' = [wire EXCEPT ![connection + 1].state = "connecting"]
      /\ UNCHANGED <<stopped, query, queryEpoch, opened, version, diagnosedGeneration,
                     inFlight, heard>>
  BY BoundAssumption DEF Start, Reconnect, Connect, Types, queries
<1>1. /\ generation' \in Nat /\ generation <= generation' /\ ~stopped
      /\ socket = 0
  BY DEF Start, Reconnect, Types, Steady
<1>2. statusValue = "fallback" /\ inFlight = NoFlight
  BY <1>1 DEF Steady
<1>3. In({"synced"}) = {}
  BY DEF Start, Reconnect, EventLoop, Asks
<1>4. connection + 1 \in Connections /\ wire[connection + 1] = NewWire
  BY <1>0, <1>1 DEF Unused, Connections
<1>5. /\ wire' \in [Connections -> Wire]
      /\ wire'[connection + 1] = [NewWire EXCEPT !.state = "connecting"]
      /\ \A d \in Connections : d # connection + 1 => wire'[d] = wire[d]
  <2>1. [NewWire EXCEPT !.state = "connecting"] \in Wire
    BY NewWires
  <2>2. wire' = [wire EXCEPT ![connection + 1] = [NewWire EXCEPT !.state = "connecting"]]
    BY <1>0, <1>4
  <2> QED
    BY <1>4, <2>1, <2>2, SMTT(60) DEF Types
<1>6. Types'
  <2>1. connection' \in Nat /\ socket' = connection'
    BY <1>0
  <2>2. reconnectTimer' \in BOOLEAN /\ stopped' \in BOOLEAN
    BY <1>0 DEF Types
  <2> QED
    BY <1>0, <1>1, <1>5, <2>1, <2>2 DEF Types
<1>7. Steady'
  BY <1>0, <1>1, <1>2, <1>4 DEF Steady, Types
<1>8. Unused'
  BY <1>0, <1>1, <1>5 DEF Unused, Connections
<1>9. Handshake' /\ Talks'
  BY <1>0, <1>5 DEF Handshake, Talks, NewWire
<1>10. Asks'
  <2>1. \A q \in Queries : query[q].phase \notin {"waiting", "requested", "synced"}
    BY <1>2, <1>3 DEF Asks, In
  <2> QED
    BY <1>0, <2>1 DEF Asks, In
<1>11. MarksTheScreen'
  BY <1>0 DEF MarksTheScreen
<1> QED
  BY <1>6, <1>7, <1>8, <1>9, <1>10, <1>11

-----------------------------------------------------------------------------
(* Steps of the wire in use *)

LEMMA InUse ==
  ASSUME Session, NEW c \in Connections
  PROVE  /\ IsCurrent(c) <=> c = socket
         /\ c # socket /\ wire[c] # NewWire => c < connection
         /\ c = socket => statusValue \in {"connecting", "ready"} /\ connection = c
         /\ connection \in Nat /\ c \in Nat /\ c # 0 /\ socket \in {0, connection}
         /\ wire[c] \in Wire
         /\ Types /\ Steady /\ Unused /\ Handshake /\ Talks /\ Asks /\ MarksTheScreen
<1>1. c \in Nat /\ c # 0
  BY DEF Connections
<1>2. Types /\ Steady /\ Unused /\ Handshake /\ Talks /\ Asks /\ MarksTheScreen
  BY DEF Session
<1>3. connection \in Nat /\ socket \in {0, connection} /\ wire[c] \in Wire
  BY <1>2 DEF Types
<1>4. IsCurrent(c) <=> c = socket
  BY <1>1, <1>2, <1>3 DEF IsCurrent, Steady, Types
<1>5. c # socket /\ wire[c] # NewWire => c < connection
  BY <1>1, <1>2, <1>3 DEF Unused
<1>6. c = socket => statusValue \in {"connecting", "ready"} /\ connection = c
  BY <1>1, <1>2, <1>3 DEF Types, Steady
<1> QED
  BY <1>1, <1>2, <1>3, <1>4, <1>5, <1>6

(* A step of this wire, and of nothing else *)
LEMMA ThisWire ==
  ASSUME Session, NEW c \in Connections, c = socket,
         UNCHANGED <<session, texts, queries>>,
         wire' \in [Connections -> Wire],
         \A d \in Connections : d # c => wire'[d] = wire[d],
         Handshake', Talks'
  PROVE  Session'
<1> USE DEF session, texts, queries, Session, IsReady
<1>1. Types'
  BY DEF Types
<1>2. Steady'
  BY DEF Steady
<1>3. Unused'
  BY DEF Unused
<1>4. Asks'
  BY DEF Asks, In
<1>5. MarksTheScreen'
  BY DEF MarksTheScreen
<1> QED
  BY <1>1, <1>2, <1>3, <1>4, <1>5

LEMMA OtherWire ==
  ASSUME Session, NEW c \in Connections, c # socket, wire[c] # NewWire,
         UNCHANGED <<session, texts, queries>>,
         wire' \in [Connections -> Wire],
         \A d \in Connections : d # c => wire'[d] = wire[d]
  PROVE  Session'
<1>1. c < connection /\ connection \in Nat /\ c \in Nat
  BY InUse
<1>2. \A d \in Connections : d = socket \/ d >= connection => wire'[d] = wire[d]
  BY <1>1 DEF Connections
<1> QED
  BY <1>2, OtherWires

LEMMA DroppedStep ==
  ASSUME Session, NEW c \in Connections, Dropped(c)
  PROVE  Session'
<1>1. /\ c # socket /\ wire[c].down # <<>> /\ Types
      /\ wire' = Popped(c) /\ UNCHANGED <<session, texts, queries>>
  BY InUse DEF Dropped
<1>2. wire[c] # NewWire
  BY <1>1 DEF NewWire
<1> QED
  BY <1>1, <1>2, PoppedFacts, OtherWire

LEMMA OpenedStep ==
  ASSUME Session, NEW c \in Connections, Opened(c)
  PROVE  Session'
<1> DEFINE open == [wire EXCEPT ![c].state = "open"]
           f == [k |-> "initialize"]
<1>0. Types /\ wire[c] \in Wire /\ wire[c].state = "connecting"
      /\ UNCHANGED <<session, texts, queries>>
  BY InUse DEF Opened
<1>1. /\ open \in [Connections -> Wire]
      /\ \A d \in Connections : d # c => open[d] = wire[d]
      /\ open[c].state = "open" /\ open[c].up = wire[c].up /\ open[c].down = wire[c].down
      /\ open[c].analysed = wire[c].analysed
  BY <1>0 DEF Types, Wire
<1>2. CASE c # socket
  <2>1. wire' = open
    BY <1>2, InUse DEF Opened
  <2>2. wire[c] # NewWire
    BY <1>0 DEF NewWire
  <2> QED
    BY <1>0, <1>1, <1>2, <2>1, <2>2, OtherWire
<1>3. CASE c = socket
  <2>1. wire' = Send(open, c, f)
    BY <1>3, InUse DEF Opened
  <2>2. statusValue = "connecting"
    BY <1>0, <1>3, InUse DEF Talks, IsReady
  <2>3. wire[c].up = <<>> /\ wire[c].down = <<>> /\ wire[c].analysed = NoFlight
    BY <1>0, <1>3, <2>2, InUse DEF Handshake
  <2>4. f \in UpFrame
    BY Frames
  <2>5. Append(<<>>, f) = <<f>>
    BY <2>4
  <2> HIDE DEF open, f
  <2>6. /\ wire' \in [Connections -> Wire]
        /\ \A d \in Connections : d # c => wire'[d] = wire[d]
        /\ wire'[c].up = <<f>> /\ wire'[c].down = <<>>
        /\ wire'[c].state = "open" /\ wire'[c].analysed = NoFlight
    BY <1>1, <2>1, <2>3, <2>4, <2>5, SendFacts
  <2>7. Handshake'
    BY <1>0, <1>3, <2>2, <2>6 DEF Handshake, session, f
  <2>8. Talks'
    BY <1>0, <2>2 DEF Talks, IsReady, session
  <2> QED
    BY <1>0, <1>3, <2>6, <2>7, <2>8, ThisWire
<1> QED
  BY <1>2, <1>3

LEMMA UnpairedStep ==
  ASSUME Session, NEW c \in Connections, Unpaired(c)
  PROVE  Session'
<1>0. /\ Types /\ c = socket /\ wire[c] \in Wire /\ wire[c].down # <<>>
      /\ wire' = Popped(c) /\ UNCHANGED <<session, texts, queries>>
      /\ Head(wire[c].down).k = "publish"
  BY InUse DEF Unpaired, Receives
<1>1. /\ wire' \in [Connections -> Wire]
      /\ \A d \in Connections : d # c => wire'[d] = wire[d]
      /\ wire'[c].down = Tail(wire[c].down) /\ wire'[c].up = wire[c].up
      /\ wire'[c].state = wire[c].state /\ wire'[c].analysed = wire[c].analysed
  BY <1>0, PoppedFacts
<1>2. wire[c].down \in Seq(DownFrame)
  BY <1>0 DEF Wire
<1>3. statusValue = "ready"
  BY <1>0, InUse DEF Handshake
<1>4. Talks /\ Steady
  BY InUse
<1>5. \A i \in DOMAIN wire'[c].down :
         i + 1 \in DOMAIN wire[c].down /\ wire'[c].down[i] = wire[c].down[i + 1]
  BY <1>0, <1>1, <1>2, SMTT(60)
<1>12. PublishesDown(wire[c]) /\ AnswersDown(wire[c])
  BY <1>0, <1>3, <1>4 DEF Talks, IsReady
<1> USE <1>3, <1>4 DEF session, texts, queries, IsReady
<1>6. SyncsUp(wire[socket])'
  BY <1>0, <1>1 DEF SyncsUp, Talks
<1>7. PublishesDown(wire[socket])'
  BY <1>0, <1>1, <1>5, <1>12, SMTT(60) DEF PublishesDown, About
<1>8. AnswersDown(wire[socket])'
  <2>1. AnswersDown(wire[c]) /\ UNCHANGED <<query, generation, socket>> /\ socket = c
    BY <1>0, <1>12
  <2> QED
    BY ONLY <1>5, <2>1, SMTT(60) DEF AnswersDown
<1>9. Diagnosed(wire[socket])'
  BY <1>0, <1>1 DEF Diagnosed, Talks
<1>10. Talks'
  BY <1>0, <1>1, <1>6, <1>7, <1>8, <1>9 DEF Talks, About
<1>11. Handshake'
  BY <1>0 DEF Handshake
<1> QED
  BY <1>0, <1>1, <1>10, <1>11, ThisWire

(* The server's side of the wire in use: it says f and has analysed a. *)
LEMMA Says ==
  ASSUME Session, NEW c \in Connections, c = socket,
         UNCHANGED <<session, texts, queries>>, IsReady,
         NEW up \in Seq(UpFrame), NEW a \in Flight, NEW f \in DownFrame,
         wire' \in [Connections -> Wire],
         \A d \in Connections : d # c => wire'[d] = wire[d],
         wire'[c].state = wire[c].state,
         wire'[c].up = up, wire'[c].analysed = a,
         wire'[c].down = Append(wire[c].down, f),
         SyncsUp(wire[socket])',
         wire[c].analysed.version <= a.version, a.version <= version,
         About(a.version, a.generation),
         diagnosedGeneration = generation => a.generation = generation,
         f.k # "initialized",
         f.k = "publish" => f.version <= a.version /\ About(f.version, f.generation),
         f.k = "response" =>
           /\ query[f.query].phase \in Sent
           /\ query[f.query].phase = "requested" /\ query[f.query].generation = generation
                => f.generation = generation
  PROVE  Session'
<1> USE DEF session, texts, queries, IsReady
<1>0. Talks /\ Types /\ wire[c] \in Wire /\ wire[c].down \in Seq(DownFrame)
      /\ wire[c].analysed \in Flight
  BY InUse DEF Wire
<1>1. \A i \in DOMAIN wire'[c].down :
         \/ i \in DOMAIN wire[c].down /\ wire'[c].down[i] = wire[c].down[i]
         \/ wire'[c].down[i] = f
  BY <1>0, Sequences
<1>2. PublishesDown(wire[socket])'
  <2> SUFFICES ASSUME NEW i \in DOMAIN wire'[c].down
               PROVE  /\ wire'[c].down[i].k # "initialized"
                      /\ wire'[c].down[i].k = "publish" =>
                           /\ wire'[c].down[i].version <= wire'[c].analysed.version
                           /\ About(wire'[c].down[i].version, wire'[c].down[i].generation)
    BY DEF PublishesDown, About
  <2>1. CASE wire'[c].down[i] = f
    BY <2>1
  <2>2. CASE i \in DOMAIN wire[c].down /\ wire'[c].down[i] = wire[c].down[i]
    <3>1. wire[c].down[i] \in DownFrame
      BY <1>0, <2>2
    <3>2. PublishesDown(wire[c])
      BY <1>0 DEF Talks
    <3>3. wire[c].analysed.version \in Int /\ a.version \in Int
      BY <1>0 DEF Flight
    <3>4. wire[c].down[i].k = "publish" => wire[c].down[i].version \in Int
      BY <3>1, FrameFields
    <3> QED
      BY <2>2, <3>2, <3>3, <3>4, SMTT(30) DEF PublishesDown
  <2> QED
    BY <1>1, <2>1, <2>2
<1>3. AnswersDown(wire[socket])'
  <2>1. AnswersDown(wire[c])
    BY <1>0 DEF Talks
  <2>2. UNCHANGED <<query, generation, socket>>
    OBVIOUS
  <2> DEFINE Told(m) == m.k = "response" =>
               /\ query[m.query].phase \in Sent
               /\ query[m.query].phase = "requested" /\ query[m.query].generation = generation
                    => m.generation = generation
  <2>3. \A i \in DOMAIN wire[c].down : Told(wire[c].down[i])
    BY ONLY <2>1 DEF AnswersDown
  <2>5. Told(f)
    OBVIOUS
  <2>4. \A i \in DOMAIN wire'[c].down : Told(wire'[c].down[i])
    <3> HIDE DEF Told
    <3> QED
      BY ONLY <1>1, <2>3, <2>5
  <2>6. socket' = c
    OBVIOUS
  <2> QED
    BY ONLY <2>2, <2>4, <2>6 DEF AnswersDown
<1>4. Diagnosed(wire[socket])'
  BY <1>0 DEF Diagnosed, Talks
<1>5. Talks'
  BY <1>0, <1>2, <1>3, <1>4 DEF Talks, About
<1>6. Handshake'
  BY DEF Handshake
<1> QED
  BY <1>5, <1>6, ThisWire

LEMMA RepeatStep ==
  ASSUME Session, NEW c \in Connections, Repeat(c)
  PROVE  Session'
<1> DEFINE a == wire[c].analysed
           f == [k |-> "publish", version |-> a.version, generation |-> a.generation]
<1>0. /\ Types /\ Talks /\ Handshake /\ c = socket /\ wire[c] \in Wire /\ a # NoFlight
      /\ UNCHANGED <<session, texts, queries>>
      /\ wire' = [wire EXCEPT ![c] = [wire[c] EXCEPT !.repeats = wire[c].repeats + 1,
                                                    !.down = Append(wire[c].down, f)]]
  BY InUse DEF Repeat, Types
<1>1. a \in Flight /\ f \in DownFrame /\ f.k = "publish" /\ f.version = a.version
      /\ f.generation = a.generation /\ a.version \in Int
  BY <1>0, Frames DEF Wire, Flight
<1>2. statusValue = "ready"
  BY <1>0, InUse DEF Handshake
<1> HIDE DEF f
<1>3. wire[c].up \in Seq(UpFrame) /\ Append(wire[c].down, f) \in Seq(DownFrame)
  BY <1>0, <1>1 DEF Wire
<1>4. /\ wire' \in [Connections -> Wire]
      /\ \A d \in Connections : d # c => wire'[d] = wire[d]
      /\ wire'[c].down = Append(wire[c].down, f) /\ wire'[c].up = wire[c].up
      /\ wire'[c].state = wire[c].state /\ wire'[c].analysed = a
  <2>1. [wire[c] EXCEPT !.repeats = wire[c].repeats + 1,
                        !.down = Append(wire[c].down, f)] \in Wire
    <3>1. wire[c].repeats + 1 \in Nat
      BY <1>0 DEF Wire
    <3> QED
      BY <1>0, <1>3, <3>1 DEF Wire
  <2> QED
    BY <1>0, <2>1 DEF Types, Wire
<1>5. SyncsUp(wire[socket])'
  BY <1>0, <1>2, <1>4 DEF SyncsUp, Talks, IsReady, session, texts, queries
<1>6. /\ a.version <= a.version /\ a.version <= version /\ About(a.version, a.generation)
      /\ diagnosedGeneration = generation => a.generation = generation
  BY <1>0, <1>1, <1>2 DEF Talks, Diagnosed, IsReady
<1> HIDE DEF a
<1> QED
  BY <1>0, <1>1, <1>2, <1>3, <1>4, <1>5, <1>6, Says DEF IsReady

LEMMA ServeStep ==
  ASSUME Session, NEW c \in Connections, Serve(c)
  PROVE  Session'
<1> DEFINE frame == Head(wire[c].up)
           up == Tail(wire[c].up)
<1>0. /\ Types /\ Talks /\ Handshake /\ Asks /\ Steady
      /\ c = socket /\ wire[c] \in Wire /\ wire[c].up # <<>>
      /\ wire[c].up \in Seq(UpFrame) /\ wire[c].down \in Seq(DownFrame)
      /\ wire[c].analysed \in Flight
      /\ UNCHANGED <<session, texts, queries>>
  <2>1. c = socket /\ wire[c].up # <<>> /\ UNCHANGED <<session, texts, queries>>
    BY ZenonT(60) DEF Serve
  <2>2. Types /\ Talks /\ Handshake /\ Asks /\ Steady /\ wire[c] \in Wire
    BY InUse
  <2> QED
    BY <2>1, <2>2 DEF Wire
<1>1. /\ frame \in UpFrame /\ up \in Seq(UpFrame)
      /\ 1 \in DOMAIN wire[c].up /\ frame = wire[c].up[1]
      /\ \A i \in DOMAIN up : /\ i + 1 \in DOMAIN wire[c].up /\ up[i] = wire[c].up[i + 1]
                              /\ i \in Int /\ i + 1 # 1
  BY <1>0
<1>2. /\ wire[c].analysed.version \in Int /\ version \in Int
      /\ wire[c].analysed.generation \in Nat
  BY <1>0 DEF Flight, Types
<1>3. CASE frame.k = "initialize"
  <2> DEFINE f == [k |-> "initialized"]
  <2>1. statusValue = "connecting"
    BY <1>0, <1>1, <1>3, InUse DEF Talks, SyncsUp, IsReady
  <2>2. /\ wire[c].up = <<[k |-> "initialize"]>> /\ wire[c].down = <<>>
        /\ wire[c].analysed = NoFlight /\ wire[c].state = "open"
    BY <1>0, <2>1 DEF Handshake
  <2>3. f \in DownFrame /\ Append(<<>>, f) = <<f>> /\ <<f>> \in Seq(DownFrame) /\ up = <<>>
    BY <2>2, Frames, SMTT(60)
  <2>4. wire' = [wire EXCEPT ![c] = [wire[c] EXCEPT !.up = up,
                                                   !.down = Append(wire[c].down, f)]]
    BY <1>0, <1>3 DEF Serve, Types
  <2> HIDE DEF f, up
  <2>5. /\ wire' \in [Connections -> Wire]
        /\ \A d \in Connections : d # c => wire'[d] = wire[d]
        /\ wire'[c].up = <<>> /\ wire'[c].down = <<f>>
        /\ wire'[c].state = "open" /\ wire'[c].analysed = NoFlight
    <3>1. [wire[c] EXCEPT !.up = up, !.down = <<f>>] \in Wire
      BY <1>0, <1>1, <2>3 DEF Wire
    <3> QED
      BY <1>0, <2>2, <2>3, <2>4, <3>1 DEF Types, Wire
  <2>6. Handshake'
    BY <1>0, <2>5 DEF Handshake, session, f
  <2>7. Talks'
    BY <1>0, <2>1 DEF Talks, IsReady, session
  <2> QED
    BY <1>0, <2>5, <2>6, <2>7, ThisWire
<1>4. CASE frame.k # "initialize"
  <2>1. statusValue = "ready"
    BY <1>0, <1>1, <1>4, InUse DEF Handshake
  <2>2. SyncsUp(wire[c]) /\ Diagnosed(wire[c]) /\ wire[c].analysed.version <= version
        /\ About(wire[c].analysed.version, wire[c].analysed.generation)
    BY <1>0, <2>1 DEF Talks, IsReady
  <2>3. CASE frame.k = "sync"
    <3> DEFINE a == [generation |-> frame.generation, version |-> frame.version]
               f == [k |-> "publish", version |-> frame.version,
                     generation |-> frame.generation]
    <3>1. a \in Flight /\ f \in DownFrame /\ f.k = "publish" /\ f.version = a.version
          /\ f.generation = a.generation /\ a.version \in Int
      BY <1>1, <2>3, FrameFields, Frames DEF Flight
    <3>2. inFlight = a /\ inFlight # NoFlight /\ wire[c].analysed.version < version
          /\ \A j \in DOMAIN wire[c].up : wire[c].up[j].k = "sync" => j = 1
      BY <1>1, <2>2, <2>3 DEF SyncsUp
    <3>3. a.version = version
      BY <1>0, <3>2 DEF Steady
    <3>4. wire' = [wire EXCEPT ![c] = [wire[c] EXCEPT !.up = up, !.analysed = a,
                                                     !.down = Append(wire[c].down, f)]]
      <4> DEFINE w == [wire EXCEPT ![c].up = up]
      <4>1. wire' = [w EXCEPT ![c].analysed = a, ![c].down = Append(@, f)]
        BY <1>0, <2>3, ZenonT(40) DEF Serve
      <4>2. wire \in [Connections -> Wire] /\ c \in Connections
        BY <1>0 DEF Types
      <4> HIDE DEF a, f, up
      <4> QED
        BY <4>1, <4>2 DEF Wire
    <3> HIDE DEF f, a, up
    <3>5. /\ wire' \in [Connections -> Wire]
          /\ \A d \in Connections : d # c => wire'[d] = wire[d]
          /\ wire'[c].up = up /\ wire'[c].down = Append(wire[c].down, f)
          /\ wire'[c].state = wire[c].state /\ wire'[c].analysed = a
      <4>1. Append(wire[c].down, f) \in Seq(DownFrame)
        BY <1>0, <3>1
      <4>2. [wire[c] EXCEPT !.up = up, !.analysed = a,
                            !.down = Append(wire[c].down, f)] \in Wire
        BY <1>0, <1>1, <3>1, <4>1 DEF Wire
      <4> QED
        BY <1>0, <3>4, <4>2 DEF Types, Wire
    <3>6. SyncsUp(wire[socket])'
      <4>1. \A i \in DOMAIN up : up[i].k \notin {"initialize", "sync"}
        BY <1>1, <2>2, <3>2 DEF SyncsUp
      <4>2. \A i \in DOMAIN up : up[i].k = "request" => query[up[i].query].phase \in Sent
        BY <1>1, <2>2 DEF SyncsUp
      <4> QED
        BY <1>0, <3>5, <4>1, <4>2 DEF SyncsUp, session, queries
    <3>7. About(a.version, a.generation)
      BY <3>2 DEF About
    <3>8. diagnosedGeneration = generation => a.generation = generation
      BY <2>2, <3>2 DEF Diagnosed
    <3>9. wire[c].analysed.version <= a.version /\ a.version <= version /\ a.version <= a.version
      BY <1>2, <3>2, <3>3
    <3>10. f.k # "initialized" /\ f.k # "response" /\ f.version <= a.version
           /\ About(f.version, f.generation)
      BY <3>1, <3>7, <3>9
    <3> QED
      BY <1>0, <1>1, <2>1, <3>1, <3>5, <3>6, <3>7, <3>8, <3>9, <3>10, Says DEF IsReady
  <2>4. CASE frame.k = "request"
    <3> DEFINE a == wire[c].analysed
               f == [k |-> "response", query |-> frame.query,
                     generation |-> wire[c].analysed.generation]
    <3>1. f \in DownFrame /\ f.k = "response" /\ f.query \in Queries
          /\ f.generation = a.generation
      BY <1>1, <1>2, <2>4, FrameFields, Frames
    <3>2. wire' = [wire EXCEPT ![c] = [wire[c] EXCEPT !.up = up,
                                                     !.down = Append(wire[c].down, f)]]
      <4> DEFINE w == [wire EXCEPT ![c].up = Tail(@)]
                 said == [k |-> "response", query |-> frame.query,
                          generation |-> w[c].analysed.generation]
      <4>1. wire' = [w EXCEPT ![c].down = Append(@, said)]
        BY <2>4 DEF Serve
      <4>2. w = [wire EXCEPT ![c] = [wire[c] EXCEPT !.up = up]]
        OBVIOUS
      <4>3. w[c] = [wire[c] EXCEPT !.up = up]
        BY <1>0, <4>2 DEF Types
      <4>4. w[c].analysed = wire[c].analysed /\ w[c].down = wire[c].down
        BY <1>0, <4>3 DEF Wire
      <4>5. said = f
        BY <4>4
      <4> HIDE DEF w, f, said
      <4>6. wire' = [w EXCEPT ![c] = [w[c] EXCEPT !.down = Append(w[c].down, f)]]
        BY <4>1, <4>5
      <4> QED
        BY <1>0, <4>2, <4>3, <4>4, <4>6 DEF Types, Wire
    <3> HIDE DEF f, up
    <3>3. /\ wire' \in [Connections -> Wire]
          /\ \A d \in Connections : d # c => wire'[d] = wire[d]
          /\ wire'[c].up = up /\ wire'[c].down = Append(wire[c].down, f)
          /\ wire'[c].state = wire[c].state /\ wire'[c].analysed = a
      <4>1. Append(wire[c].down, f) \in Seq(DownFrame)
        BY <1>0, <3>1
      <4>2. [wire[c] EXCEPT !.up = up, !.down = Append(wire[c].down, f)] \in Wire
        BY <1>0, <1>1, <3>1, <4>1 DEF Wire
      <4> QED
        BY <1>0, <3>2, <4>2 DEF Types, Wire
    <3>4. SyncsUp(wire[socket])'
      <4>1. \A i \in DOMAIN up : \A j \in DOMAIN up : j + 1 = i + 1 => j = i
        BY <1>1
      <4> QED
        BY <1>0, <1>1, <2>2, <3>3, <4>1, SMTT(60) DEF SyncsUp, session, texts, queries
    <3>5. diagnosedGeneration = generation => a.generation = generation
      BY <2>2 DEF Diagnosed
    <3>6. /\ query[f.query].phase = "requested" /\ query[f.query].generation = generation
               => f.generation = generation
          /\ query[f.query].phase \in Sent
      <4>1. f.query = frame.query
        BY DEF f
      <4>2. query[f.query].phase \in Sent
        BY <1>1, <2>2, <2>4, <4>1 DEF SyncsUp
      <4> QED
        BY <1>0, <2>1, <3>1, <3>5, <4>2 DEF Asks, IsReady
    <3>7. a \in Flight /\ a.version <= a.version /\ a.version <= version
          /\ About(a.version, a.generation)
      BY <1>0, <1>2, <2>2
    <3> HIDE DEF a
    <3>8. wire[c].analysed = a
      BY DEF a
    <3> QED
      BY <1>0, <1>1, <2>1, <3>1, <3>3, <3>4, <3>5, <3>6, <3>7, <3>8, Says DEF IsReady
  <2> QED
    BY <1>1, <1>4, <2>3, <2>4, FrameFields
<1> QED
  BY <1>3, <1>4, SMTT(60)

-----------------------------------------------------------------------------
(* Texts *)

(* A newer text is sent, over the wire in use with `down` left on it. *)
LEMMA NewText ==
  ASSUME Session, NEW c \in Connections, c = socket, statusValue = "ready",
         UNCHANGED <<statusValue, socket>>,
         \A i \in DOMAIN wire[c].up : wire[c].up[i].k # "sync",
         NEW dn \in Seq(DownFrame),
         \A i \in DOMAIN dn : \E j \in DOMAIN wire[c].down : dn[i] = wire[c].down[j],
         generation' \in Nat, version' = version + 1,
         inFlight' = [generation |-> generation', version |-> version + 1],
         wire'[c].state = wire[c].state, wire'[c].analysed = wire[c].analysed,
         wire'[c].down = dn,
         wire'[c].up = Append(wire[c].up, [k |-> "sync", generation |-> generation',
                                            version |-> version + 1]),
         diagnosedGeneration' # generation',
         \A q \in Queries : /\ query'[q].phase = "requested" => query'[q].generation # generation'
                            /\ query[q].phase \in Sent => query'[q].phase \in Sent
  PROVE  Talks'
<1> DEFINE f == [k |-> "sync", generation |-> generation', version |-> version + 1]
<1>0. /\ Types /\ wire[c].up \in Seq(UpFrame) /\ wire[c].down \in Seq(DownFrame)
      /\ wire[c].analysed \in Flight /\ version \in Nat
  BY InUse DEF Types, Wire
<1>1. /\ f \in UpFrame /\ f.k = "sync" /\ f.generation = generation'
      /\ f.version = version + 1
      /\ inFlight' = [generation |-> f.generation, version |-> f.version]
  BY <1>0, Frames
<1>2. inFlight' # NoFlight
  BY <1>0 DEF NoFlight
<1>3. wire[c].analysed.version \in Nat /\ wire[c].analysed.version <= version
  BY <1>0, InUse DEF Talks, IsReady, Flight
<1>4. /\ SyncsUp(wire[c]) /\ PublishesDown(wire[c]) /\ AnswersDown(wire[c])
      /\ wire[c].state = "open"
  BY InUse DEF Talks, IsReady
<1> HIDE DEF f
<1>5. \A i \in DOMAIN wire'[c].up :
         \/ i \in DOMAIN wire[c].up /\ wire'[c].up[i] = wire[c].up[i]
            /\ wire[c].up[i] \in UpFrame
         \/ i = Len(wire[c].up) + 1 /\ wire'[c].up[i] = f
  BY <1>0, <1>1, Sequences, SMTT(60) DEF f
<1>6. SyncsUp(wire[socket])'
  <2>1. \A i \in DOMAIN wire'[c].up : wire'[c].up[i].k = "sync" => i = Len(wire[c].up) + 1
    BY <1>5
  <2>2. \A i \in DOMAIN wire'[c].up : wire'[c].up[i].k # "initialize"
    BY <1>1, <1>4, <1>5 DEF SyncsUp
  <2>3. \A i \in DOMAIN wire'[c].up :
          wire'[c].up[i].k = "request" => query'[wire'[c].up[i].query].phase \in Sent
    <3> SUFFICES ASSUME NEW i \in DOMAIN wire'[c].up, wire'[c].up[i].k = "request"
                 PROVE  query'[wire'[c].up[i].query].phase \in Sent
      BY ZenonT(60)
    <3>1. /\ i \in DOMAIN wire[c].up /\ wire'[c].up[i] = wire[c].up[i]
          /\ wire[c].up[i] \in UpFrame
      BY <1>1, <1>5
    <3>2. wire[c].up[i].query \in Queries
      BY <3>1, FrameFields, SMTT(60)
    <3>3. query[wire[c].up[i].query].phase \in Sent
      BY <1>4, <3>1, SMTT(60) DEF SyncsUp
    <3> HIDE DEF Sent
    <3> QED
      BY <3>1, <3>2, <3>3
  <2>4. wire'[c].analysed.version < version'
    BY <1>0, <1>3
  <2>5. \A i \in DOMAIN wire'[c].up :
          wire'[c].up[i].k = "sync" => wire'[c].up[i] = f
    BY <1>5
  <2>6. \A i \in DOMAIN wire'[c].up : wire'[c].up[i].k = "sync" =>
          /\ inFlight' = [generation |-> wire'[c].up[i].generation,
                          version |-> wire'[c].up[i].version]
          /\ \A j \in DOMAIN wire'[c].up : wire'[c].up[j].k = "sync" => j = i
    BY <1>1, <2>1, <2>5
  <2>7. socket' = c
    OBVIOUS
  <2> QED
    BY <1>2, <2>2, <2>3, <2>4, <2>6, <2>7, ZenonT(60) DEF SyncsUp
<1>7. PublishesDown(wire[socket])'
  <2> SUFFICES ASSUME NEW i \in DOMAIN dn
               PROVE  /\ dn[i].k # "initialized"
                      /\ dn[i].k = "publish" => /\ dn[i].version <= wire[c].analysed.version
                                                /\ dn[i].version # version + 1
    BY DEF PublishesDown, About
  <2>1. PICK j \in DOMAIN wire[c].down : dn[i] = wire[c].down[j]
    OBVIOUS
  <2>2. wire[c].down[j] \in DownFrame
    BY <1>0
  <2>3. /\ wire[c].down[j].k # "initialized"
        /\ wire[c].down[j].k = "publish" => /\ wire[c].down[j].version <= wire[c].analysed.version
                                            /\ wire[c].down[j].version \in Nat
    BY <1>4, <2>2, FrameFields DEF PublishesDown
  <2> QED
    BY <1>0, <1>3, <2>1, <2>3, SMTT(30)
<1>8. AnswersDown(wire[socket])'
  <2> SUFFICES ASSUME NEW i \in DOMAIN dn, dn[i].k = "response"
               PROVE  /\ query'[dn[i].query].phase \in Sent
                      /\ query'[dn[i].query].phase = "requested"
                           => query'[dn[i].query].generation # generation'
    BY DEF AnswersDown
  <2>1. PICK j \in DOMAIN wire[c].down : dn[i] = wire[c].down[j]
    OBVIOUS
  <2>2. wire[c].down[j] \in DownFrame
    BY <1>0, SMTT(60)
  <2>4. wire[c].down[j].k = "response"
    BY <2>1
  <2>3. dn[i].query \in Queries /\ query[dn[i].query].phase \in Sent
    <3>1. dn[i].query \in Queries
      BY <2>1, <2>2, <2>4, FrameFields
    <3>2. query[wire[c].down[j].query].phase \in Sent
      BY <1>4, <2>4, ZenonT(60) DEF AnswersDown
    <3> QED
      BY <2>1, <3>1, <3>2
  <2> QED
    BY <2>3
<1>9. Diagnosed(wire[socket])'
  BY DEF Diagnosed
<1>10. (wire[socket].analysed.version <= version)' /\ wire'[c].analysed.version # version'
  BY <1>0, <1>3, SMTT(60)
<1> QED
  BY <1>4, <1>6, <1>7, <1>8, <1>9, <1>10 DEF Talks, About

LEMMA ReadyStep ==
  ASSUME Session, NEW c \in Connections, Ready(c)
  PROVE  Session'
<1> DEFINE f == [k |-> "sync", generation |-> generation, version |-> 1]
<1>0. /\ Types /\ Steady /\ Unused /\ Handshake /\ Talks /\ Asks /\ MarksTheScreen
      /\ c = socket /\ connection = c /\ statusValue \in {"connecting", "ready"}
      /\ wire[c] \in Wire /\ wire[c].down \in Seq(DownFrame) /\ wire[c].down # <<>>
      /\ Head(wire[c].down).k = "initialized"
      /\ statusValue' = "ready" /\ diagnosedGeneration' = -1 /\ opened' = TRUE /\ version' = 1
      /\ inFlight' = [generation |-> generation, version |-> 1]
      /\ wire' = Send(Popped(c), c, f)
      /\ UNCHANGED <<stopped, connection, socket, retryCount, reconnectTimer, spent,
                     generation, heard, query, queryEpoch>>
  BY InUse DEF Ready, Receives, queries, Wire
<1>1. statusValue = "connecting"
  BY <1>0 DEF Talks, PublishesDown, IsReady
<1>2. /\ wire[c].state = "open" /\ wire[c].up = <<>>
      /\ wire[c].down = <<[k |-> "initialized"]>> /\ wire[c].analysed = NoFlight
  BY <1>0, <1>1 DEF Handshake
<1>3. Tail(wire[c].down) = <<>>
  BY <1>2
<1>4. f \in UpFrame /\ f.k = "sync" /\ f.generation = generation /\ f.version = 1
      /\ generation \in Nat
  BY <1>0, Frames DEF Types
<1>5. Append(<<>>, f) = <<f>> /\ DOMAIN <<f>> = {1} /\ <<f>>[1] = f
  BY <1>4
<1> HIDE DEF f
<1>6. /\ wire' \in [Connections -> Wire]
      /\ \A d \in Connections : d # c => wire'[d] = wire[d]
      /\ wire'[c].up = <<f>> /\ wire'[c].down = <<>>
      /\ wire'[c].state = "open" /\ wire'[c].analysed = NoFlight
  <2> DEFINE p == Popped(c)
  <2>1. /\ p \in [Connections -> Wire]
        /\ \A d \in Connections : d # c => p[d] = wire[d]
        /\ p[c].up = <<>> /\ p[c].down = <<>>
        /\ p[c].state = "open" /\ p[c].analysed = NoFlight
    BY <1>0, <1>2, <1>3, PoppedFacts
  <2>2. wire' = Send(p, c, f)
    BY <1>0
  <2> HIDE DEF p
  <2> QED
    BY <1>4, <1>5, <2>1, <2>2, SendFacts
<1>7. NoFlight.version = 0 /\ inFlight' # NoFlight /\ inFlight' \in Flight
      /\ inFlight'.version = 1 /\ inFlight'.generation = generation
  BY <1>0, <1>4 DEF NoFlight, Flight
<1>8. Types'
  <2>1. -1 \in Int /\ 1 \in Nat
    OBVIOUS
  <2> QED
    BY <1>0, <1>6, <1>7, <2>1 DEF Types
<1>9. Steady'
  BY <1>0, <1>1, <1>4, <1>7 DEF Steady, IsReady
<1>10. Unused'
  BY <1>0, <1>6 DEF Unused
<1>11. Handshake'
  BY <1>0 DEF Handshake
<1>12. Talks'
  <2>1. SyncsUp(wire[socket])'
    BY <1>0, <1>4, <1>5, <1>6, <1>7 DEF SyncsUp
  <2>2. PublishesDown(wire[socket])' /\ AnswersDown(wire[socket])'
    BY <1>0, <1>6 DEF PublishesDown, AnswersDown
  <2>3. Diagnosed(wire[socket])'
    BY <1>0, <1>4 DEF Diagnosed
  <2> QED
    BY <1>0, <1>6, <1>7, <2>1, <2>2, <2>3 DEF Talks, About
<1>13. Asks'
  <2>1. \A q \in Queries : query[q].phase \notin {"waiting", "requested", "synced"}
    BY <1>0, <1>1 DEF Asks, In, IsReady
  <2> QED
    BY <1>0, <2>1 DEF Asks, In
<1>14. MarksTheScreen'
  BY <1>0 DEF MarksTheScreen
<1> QED
  BY <1>8, <1>9, <1>10, <1>11, <1>12, <1>13, <1>14 DEF Session

LEMMA UpdateStep ==
  ASSUME Session, Update
  PROVE  Session'
<1>0. /\ Types /\ Steady /\ Unused /\ Handshake /\ Talks /\ Asks /\ MarksTheScreen
      /\ connection > 0 /\ connection \in Nat
      /\ generation \in Nat /\ version \in Nat /\ generation' = generation + 1
      /\ generation' \in Nat /\ diagnosedGeneration \in Int
      /\ query' = Moved(StaleWaiters, "rejected")
      /\ UNCHANGED <<statusValue, stopped, connection, socket, retryCount, reconnectTimer,
                     spent, opened, diagnosedGeneration, heard, queryEpoch>>
  BY DEF Update, Session, Types, session
<1>1. /\ query' \in [Queries -> [phase : Phases, generation : Nat, epoch : Nat]]
      /\ \A q \in Queries : /\ query'[q].generation = query[q].generation
                            /\ query'[q].phase = query[q].phase \/ query'[q].phase = "rejected"
  <2>1. "rejected" \in Phases
    BY DEF Phases
  <2>2. \A q \in Queries : q \in StaleWaiters \/ q \notin StaleWaiters
    OBVIOUS
  <2> QED
    BY <1>0, <2>1, <2>2, MovedFacts
<1>2. diagnosedGeneration # generation' /\ diagnosedGeneration <= generation'
  BY <1>0 DEF Steady
<1>3. \A q \in Queries : /\ query'[q].phase = "requested" => query'[q].generation # generation'
                         /\ query'[q].phase = "synced" => query'[q].generation # generation'
                         /\ query'[q].phase \in {"waiting", "synced", "requested"}
                              => query'[q].generation <= generation'
                         /\ query[q].phase \in Sent => query'[q].phase \in Sent
  <2> SUFFICES ASSUME NEW q \in Queries
               PROVE  /\ query'[q].phase = "requested" => query'[q].generation # generation'
                      /\ query'[q].phase = "synced" => query'[q].generation # generation'
                      /\ query'[q].phase \in {"waiting", "synced", "requested"}
                           => query'[q].generation <= generation'
                      /\ query[q].phase \in Sent => query'[q].phase \in Sent
    OBVIOUS
  <2>1. query[q].phase \in {"waiting", "synced", "requested"} => query[q].generation <= generation
    BY <1>0 DEF Asks
  <2>2. query[q].generation \in Nat
    BY <1>0 DEF Types
  <2> QED
    BY <1>0, <1>1, <2>1, <2>2 DEF Sent
<1>4. Asks'
  BY <1>0, <1>1, <1>3 DEF Asks, In, IsReady
<1>5. MarksTheScreen'
  BY <1>0 DEF MarksTheScreen
<1>6. CASE IsReady /\ inFlight = NoFlight
  <2> DEFINE f == [k |-> "sync", generation |-> generation', version |-> version + 1]
  <2>1. statusValue = "ready" /\ opened /\ socket = connection /\ socket \in Connections
    BY <1>0, <1>6 DEF IsReady, Steady, Types
  <2>2. /\ version' = version + 1
        /\ inFlight' = [generation |-> generation', version |-> version + 1]
        /\ wire' = Send(wire, socket, f)
    BY <1>0, <1>6, <2>1 DEF Update, SendLatestText
  <2>3. f \in UpFrame /\ version' \in Nat /\ inFlight' \in Flight
        /\ inFlight'.version = version' /\ inFlight'.generation = generation'
    BY <1>0, <2>2, Frames DEF Flight
  <2> HIDE DEF f
  <2>4. /\ wire' \in [Connections -> Wire]
        /\ \A d \in Connections : d # socket => wire'[d] = wire[d]
        /\ wire'[socket].up = Append(wire[socket].up, f)
        /\ wire'[socket].down = wire[socket].down
        /\ wire'[socket].state = wire[socket].state
        /\ wire'[socket].analysed = wire[socket].analysed
    <3>1. wire \in [Connections -> Wire]
      BY <1>0 DEF Types
    <3> QED
      BY <2>1, <2>2, <2>3, <3>1, SendFacts
  <2>5. \A i \in DOMAIN wire[socket].up : wire[socket].up[i].k # "sync"
    BY <1>0, <1>6 DEF Talks, SyncsUp
  <2>6. wire[socket].down \in Seq(DownFrame)
    BY <1>0, <2>1 DEF Types, Wire
  <2>7. Talks'
    BY <1>0, <1>2, <1>3, <2>1, <2>2, <2>4, <2>5, <2>6, NewText DEF f
  <2>8. Types'
    BY <1>0, <1>1, <2>3, <2>4 DEF Types
  <2>9. Steady'
    BY <1>0, <1>2, <2>1, <2>2, <2>3 DEF Steady, IsReady
  <2>10. Unused' /\ Handshake'
    BY <1>0, <2>1, <2>4 DEF Unused, Handshake
  <2> QED
    BY <1>4, <1>5, <2>7, <2>8, <2>9, <2>10 DEF Session
<1>7. CASE ~(IsReady /\ inFlight = NoFlight)
  <2>1. UNCHANGED <<version, inFlight, wire>>
    BY <1>7 DEF Update
  <2>2. Types'
    BY <1>0, <1>1, <2>1 DEF Types
  <2>3. Steady'
    <3>1. inFlight # NoFlight => inFlight.generation <= generation'
      BY <1>0 DEF Steady, Types, Flight
    <3> QED
      BY <1>0, <1>2, <2>1, <3>1 DEF Steady, IsReady
  <2>4. Unused' /\ Handshake'
    BY <1>0, <2>1 DEF Unused, Handshake
  <2>5. Talks'
    <3> SUFFICES ASSUME IsReady PROVE Talks'
      BY <1>0 DEF Talks, IsReady
    <3>1. wire[socket] \in Wire
      BY <1>0 DEF Types, Steady, IsReady
    <3>2. SyncsUp(wire[socket])'
      <4>1. \A i \in DOMAIN wire[socket].up : wire[socket].up[i].k = "request" =>
              wire[socket].up[i].query \in Queries
        BY <3>1, FrameFields DEF Wire
      <4> QED
        BY <1>0, <1>3, <2>1, <4>1 DEF SyncsUp, Talks
    <3>3. PublishesDown(wire[socket])'
      BY <1>0, <2>1 DEF PublishesDown, Talks, About
    <3>4. AnswersDown(wire[socket])'
      <4>1. \A i \in DOMAIN wire[socket].down : wire[socket].down[i].k = "response" =>
              wire[socket].down[i].query \in Queries
        BY <3>1, FrameFields DEF Wire
      <4>2. AnswersDown(wire[socket])
        BY <1>0 DEF Talks
      <4> QED
        BY <1>0, <1>3, <2>1, <4>1, <4>2, SMTT(60) DEF AnswersDown
    <3>5. Diagnosed(wire[socket])'
      BY <1>0, <1>2 DEF Diagnosed
    <3> QED
      BY <1>0, <2>1, <3>2, <3>3, <3>4, <3>5 DEF Talks, About
  <2> QED
    BY <1>4, <1>5, <2>2, <2>3, <2>4, <2>5 DEF Session
<1> QED
  BY <1>6, <1>7

(* A publish that is paired to the sync in flight is about its text, which
   the server has analysed last, and no other sync is on its way. *)
LEMMA PairedFacts ==
  ASSUME Session, NEW c \in Connections, Receives(c, "publish"), IsCurrent(c),
         Paired(Head(wire[c].down))
  PROVE  /\ c = socket /\ statusValue = "ready" /\ wire[c].down # <<>>
         /\ Head(wire[c].down).generation = inFlight.generation
         /\ wire[c].analysed.version = version
         /\ wire[c].analysed.generation = inFlight.generation
         /\ \A i \in DOMAIN wire[c].up : wire[c].up[i].k # "sync"
         /\ diagnosedGeneration # generation
<1>0. /\ Types /\ Steady /\ Talks /\ c = socket /\ wire[c] \in Wire
      /\ wire[c].down \in Seq(DownFrame) /\ wire[c].down # <<>>
      /\ wire[c].analysed \in Flight /\ version \in Nat
  BY InUse DEF Receives, Wire, Types
<1>1. statusValue = "ready"
  BY <1>0, InUse DEF Handshake, Receives
<1>2. /\ inFlight # NoFlight /\ inFlight.version = version
      /\ Head(wire[c].down).version = version /\ Head(wire[c].down).k = "publish"
  BY <1>0 DEF Paired, Steady, Receives
<1>3. /\ 1 \in DOMAIN wire[c].down /\ Head(wire[c].down) = wire[c].down[1]
  BY <1>0
<1>4. /\ SyncsUp(wire[c]) /\ PublishesDown(wire[c]) /\ Diagnosed(wire[c])
      /\ wire[c].analysed.version <= version
      /\ About(wire[c].analysed.version, wire[c].analysed.generation)
  BY <1>0, <1>1 DEF Talks, IsReady
<1>5. /\ wire[c].down[1].version <= wire[c].analysed.version
      /\ Head(wire[c].down).generation = inFlight.generation
  BY <1>2, <1>3, <1>4 DEF PublishesDown, About
<1>6. wire[c].analysed.version \in Nat
  BY <1>0 DEF Flight
<1>7. wire[c].analysed.version = version
  BY <1>0, <1>2, <1>3, <1>4, <1>5, <1>6
<1>8. \A i \in DOMAIN wire[c].up : wire[c].up[i].k # "sync"
  BY <1>0, <1>4, <1>7 DEF SyncsUp
<1> QED
  BY <1>0, <1>1, <1>2, <1>4, <1>5, <1>7, <1>8 DEF About, Diagnosed

LEMMA ReceiveDiagnosticsStep ==
  ASSUME Session, NEW c \in Connections, ReceiveDiagnostics(c)
  PROVE  Session'
<1>0. /\ Types /\ Steady /\ Unused /\ Handshake /\ Talks /\ Asks /\ MarksTheScreen
      /\ connection = c /\ wire[c] \in Wire /\ wire[c].down \in Seq(DownFrame)
      /\ wire[c].up \in Seq(UpFrame)
      /\ generation \in Nat /\ version \in Nat /\ inFlight \in Flight
      /\ inFlight.generation \in Nat
      /\ diagnosedGeneration' = inFlight.generation
      /\ UNCHANGED <<statusValue, stopped, connection, socket, retryCount, reconnectTimer,
                     spent, generation, opened, queryEpoch>>
  BY InUse DEF ReceiveDiagnostics, Types, session, Wire, Flight
<1>1. /\ c = socket /\ statusValue = "ready" /\ wire[c].down # <<>>
      /\ Head(wire[c].down).generation = inFlight.generation
      /\ wire[c].analysed.version = version
      /\ wire[c].analysed.generation = inFlight.generation
      /\ \A i \in DOMAIN wire[c].up : wire[c].up[i].k # "sync"
      /\ diagnosedGeneration # generation
  BY PairedFacts DEF ReceiveDiagnostics
<1>2. inFlight # NoFlight /\ inFlight.generation <= generation /\ opened /\ version >= 1
  BY <1>0, <1>1 DEF ReceiveDiagnostics, Paired, Steady, IsReady
<1>3. In({"synced"}) = {}
  BY DEF ReceiveDiagnostics, Receives, EventLoop
<1>4. \A q \in Queries : /\ query[q].phase # "synced"
                         /\ query[q].phase = "requested" => query[q].generation # generation
                         /\ query[q].generation \in Nat
  BY <1>0, <1>1, <1>3 DEF Asks, In, IsReady, Types
<1>5. /\ Popped(c) \in [Connections -> Wire]
      /\ \A d \in Connections : d # c => Popped(c)[d] = wire[d]
      /\ Popped(c)[c].down = Tail(wire[c].down)
      /\ Popped(c)[c].up = wire[c].up
      /\ Popped(c)[c].state = wire[c].state
      /\ Popped(c)[c].analysed = wire[c].analysed
  BY <1>0, <1>1, PoppedFacts
<1>6. /\ Tail(wire[c].down) \in Seq(DownFrame)
      /\ \A i \in DOMAIN Tail(wire[c].down) :
           /\ i + 1 \in DOMAIN wire[c].down
           /\ Tail(wire[c].down)[i] = wire[c].down[i + 1]
           /\ Tail(wire[c].down)[i] \in DownFrame
  BY <1>0, <1>1
<1>7. CASE inFlight.generation = generation
  <2> DEFINE qs == {q \in In({"waiting"}) : query[q].generation = generation}
  <2>1. /\ heard' = [text |-> generation, about |-> Head(wire[c].down).generation]
        /\ query' = Moved(qs, "synced") /\ inFlight' = NoFlight
        /\ wire' = Popped(c) /\ version' = version
    BY <1>7 DEF ReceiveDiagnostics
  <2>2. /\ query' \in [Queries -> [phase : Phases, generation : Nat, epoch : Nat]]
        /\ \A q \in Queries : query'[q].generation = query[q].generation
        /\ \A q \in Queries : q \in qs => query'[q].phase = "synced"
        /\ \A q \in Queries : q \notin qs => query'[q] = query[q]
    <3>1. "synced" \in Phases
      BY DEF Phases
    <3> HIDE DEF qs
    <3> QED
      BY <1>0, <2>1, <3>1, MovedFacts
  <2>3. \A q \in Queries : q \in qs <=> query[q].phase = "waiting" /\ query[q].generation = generation
    BY DEF In
  <2> HIDE DEF qs
  <2>4. \A q \in Queries :
          /\ query[q].phase \in Sent => query'[q].phase = query[q].phase
          /\ query'[q].phase \in {"waiting", "requested"} => query'[q].phase = query[q].phase
          /\ query'[q].phase \in {"synced", "requested"} /\ query'[q].generation = generation
               => query'[q].phase = "synced"
          /\ query'[q].phase \in {"waiting", "synced", "requested"}
               => query'[q].generation <= generation
    <3> SUFFICES ASSUME NEW q \in Queries
                 PROVE  /\ query[q].phase \in Sent => query'[q].phase = query[q].phase
                        /\ query'[q].phase \in {"waiting", "requested"}
                             => query'[q].phase = query[q].phase
                        /\ query'[q].phase \in {"synced", "requested"}
                             /\ query'[q].generation = generation => query'[q].phase = "synced"
                        /\ query'[q].phase \in {"waiting", "synced", "requested"}
                             => query'[q].generation <= generation
      OBVIOUS
    <3>1. query[q].phase \in {"waiting", "synced", "requested"}
            => query[q].generation <= generation
      BY <1>0 DEF Asks
    <3> QED
      BY <1>4, <2>2, <2>3, <3>1 DEF Sent
  <2>5. Types'
    BY <1>0, <1>5, <2>1, <2>2 DEF Types, NoFlight, Flight
  <2>6. Steady'
    BY <1>0, <1>1, <1>2, <2>1 DEF Steady, IsReady
  <2>7. Unused' /\ Handshake'
    BY <1>0, <1>1, <1>5, <2>1 DEF Unused, Handshake
  <2>8. Asks'
    <3>1. connection' # 0 /\ statusValue' = "ready"
      BY <1>0, <1>1, InUse
    <3>2. diagnosedGeneration' = generation'
      BY <1>0, <1>7
    <3> QED
      BY <1>0, <2>4, <3>1, <3>2 DEF Asks, IsReady
  <2>9. Talks'
    <3>1. SyncsUp(wire[socket])'
      <4>1. \A i \in DOMAIN wire[c].up : wire[c].up[i].k = "request"
              => wire[c].up[i].query \in Queries
        BY <1>0, FrameFields
      <4>2. SyncsUp(wire[c]) /\ wire'[c].up = wire[c].up /\ socket' = c
        BY <1>0, <1>1, <1>5, <2>1 DEF Talks, IsReady
      <4>3. \A i \in DOMAIN wire[c].up :
              /\ wire[c].up[i].k # "initialize" /\ wire[c].up[i].k # "sync"
              /\ wire[c].up[i].k = "request" => query'[wire[c].up[i].query].phase \in Sent
        BY <1>1, <2>4, <4>1, <4>2 DEF SyncsUp
      <4> QED
        BY <4>2, <4>3 DEF SyncsUp
    <3>2. PublishesDown(wire[socket])'
      <4>1. /\ PublishesDown(wire[c]) /\ wire'[c].down = Tail(wire[c].down) /\ socket' = c
            /\ wire'[c].analysed = wire[c].analysed
        BY <1>0, <1>1, <1>5, <2>1 DEF Talks, IsReady
      <4>2. \A i \in DOMAIN Tail(wire[c].down) :
              /\ Tail(wire[c].down)[i].k # "initialized"
              /\ Tail(wire[c].down)[i].k = "publish" =>
                   Tail(wire[c].down)[i].version <= wire[c].analysed.version
        BY <1>6, <4>1 DEF PublishesDown
      <4> QED
        BY <2>1, <4>1, <4>2 DEF PublishesDown, About
    <3>3. AnswersDown(wire[socket])'
      <4>1. \A i \in DOMAIN Tail(wire[c].down) : Tail(wire[c].down)[i].k = "response"
              => Tail(wire[c].down)[i].query \in Queries
        BY <1>6, FrameFields
      <4>2. AnswersDown(wire[c])
        BY <1>0, <1>1 DEF Talks, IsReady
      <4>3. \A i \in DOMAIN Tail(wire[c].down) : Tail(wire[c].down)[i].k = "response"
              => query'[Tail(wire[c].down)[i].query].phase \in Sent
        BY <1>6, <2>4, <4>1, <4>2 DEF AnswersDown
      <4>4. \A q \in Queries : query'[q].phase = "requested"
                               => query'[q].generation # generation
        BY <1>4, <2>2, <2>4
      <4>5. wire'[c].down = Tail(wire[c].down) /\ socket' = c /\ generation' = generation
        BY <1>0, <1>1, <1>5, <2>1
      <4> QED
        BY <4>1, <4>3, <4>4, <4>5 DEF AnswersDown
    <3>4. Diagnosed(wire[socket])'
      BY <1>0, <1>1, <1>5, <1>7, <2>1 DEF Diagnosed
    <3>5. (wire[socket].state = "open" /\ wire[socket].analysed.version <= version)'
      BY <1>0, <1>1, <1>5, <2>1 DEF Talks, IsReady
    <3> QED
      BY <1>0, <2>1, <3>1, <3>2, <3>3, <3>4, <3>5 DEF Talks, About
  <2>10. MarksTheScreen'
    BY <1>1, <1>7, <2>1 DEF MarksTheScreen
  <2> QED
    BY <2>5, <2>6, <2>7, <2>8, <2>9, <2>10 DEF Session
<1>8. CASE inFlight.generation # generation
  <2> DEFINE f == [k |-> "sync", generation |-> generation, version |-> version + 1]
             p == Popped(c)
  <2>1. /\ query' = Moved(StaleWaiters, "rejected") /\ heard' = heard
        /\ version' = version + 1
        /\ inFlight' = [generation |-> generation, version |-> version + 1]
        /\ wire' = Send(p, c, f)
    BY <1>0, <1>2, <1>8 DEF ReceiveDiagnostics, SendLatestText
  <2>2. f \in UpFrame /\ inFlight' \in Flight /\ inFlight'.version = version'
        /\ inFlight'.generation = generation
    BY <1>0, <2>1, Frames DEF Flight
  <2> HIDE DEF f, p
  <2>3. /\ wire' \in [Connections -> Wire]
        /\ \A d \in Connections : d # c => wire'[d] = p[d]
        /\ wire'[c].up = Append(p[c].up, f) /\ wire'[c].down = p[c].down
        /\ wire'[c].state = p[c].state /\ wire'[c].analysed = p[c].analysed
    <3>1. p \in [Connections -> Wire]
      BY <1>5 DEF p
    <3> QED
      BY <2>1, <2>2, <3>1, SendFacts
  <2>4. /\ wire' \in [Connections -> Wire]
        /\ \A d \in Connections : d # c => wire'[d] = wire[d]
        /\ wire'[c].up = Append(wire[c].up, f) /\ wire'[c].down = Tail(wire[c].down)
        /\ wire'[c].state = wire[c].state /\ wire'[c].analysed = wire[c].analysed
    BY <1>5, <2>3 DEF p
  <2>5. /\ query' \in [Queries -> [phase : Phases, generation : Nat, epoch : Nat]]
        /\ \A q \in Queries : /\ query'[q].generation = query[q].generation
                              /\ query'[q].phase = query[q].phase \/ query'[q].phase = "rejected"
    <3>1. "rejected" \in Phases
      BY DEF Phases
    <3>2. \A q \in Queries : q \in StaleWaiters \/ q \notin StaleWaiters
      OBVIOUS
    <3> QED
      BY <1>0, <2>1, <3>1, <3>2, MovedFacts
  <2>6. \A q \in Queries :
          /\ query'[q].phase = "requested" => query'[q].generation # generation
          /\ query[q].phase \in Sent => query'[q].phase \in Sent
          /\ query'[q].phase # "synced"
    BY <1>4, <2>5 DEF Sent
  <2>7. Talks'
    <3>1. \A i \in DOMAIN Tail(wire[c].down) :
            \E j \in DOMAIN wire[c].down : Tail(wire[c].down)[i] = wire[c].down[j]
      BY <1>6
    <3>2. diagnosedGeneration' # generation'
      BY <1>0, <1>8
    <3> QED
      BY <1>0, <1>1, <1>6, <2>1, <2>4, <2>6, <3>1, <3>2, NewText, ZenonT(60) DEF f
  <2>8. Types'
    <3>1. version' \in Nat /\ diagnosedGeneration' \in Int
      BY <1>0, <2>1
    <3> QED
      BY <1>0, <2>2, <2>4, <2>5, <3>1 DEF Types
  <2>9. Steady'
    <3>1. version' >= 1 /\ inFlight'.generation <= generation'
      BY <1>0, <2>1, <2>2
    <3> QED
      BY <1>0, <1>1, <1>2, <2>2, <3>1 DEF Steady, IsReady
  <2>10. Unused' /\ Handshake'
    BY <1>0, <1>1, <2>4 DEF Unused, Handshake
  <2>11. Asks'
    BY <1>0, <1>1, <2>5, <2>6 DEF Asks, In, IsReady
  <2>12. MarksTheScreen'
    BY <1>0, <2>1 DEF MarksTheScreen
  <2> QED
    BY <2>7, <2>8, <2>9, <2>10, <2>11, <2>12 DEF Session
<1> QED
  BY <1>7, <1>8

-----------------------------------------------------------------------------
(* Queries *)

(* A step of queries: the texts and this connection stay as they are. *)
LEMMA QueriesMove ==
  ASSUME Session, UNCHANGED <<session, texts>>,
         queryEpoch' \in [{MethodOf[q] : q \in Queries} -> Nat],
         query' \in [Queries -> [phase : Phases, generation : Nat, epoch : Nat]],
         wire' \in [Connections -> Wire],
         \A d \in Connections : d # socket => wire'[d] = wire[d],
         Handshake', Talks',
         NEW p \in Queries, \A q \in Queries : q # p => query'[q] = query[q],
         query'[p].phase \in {"answered", "rejected"} \cup (IF query[p].phase = "synced"
                                                           THEN {"requested"} ELSE {})
           \/ (/\ connection > 0 /\ IsReady
               /\ query'[p].phase = IF generation = diagnosedGeneration THEN "synced"
                                    ELSE "waiting"
               /\ query'[p].generation = generation),
         query'[p].phase = "requested" => IsReady /\ query'[p].generation = query[p].generation
  PROVE  Session'
<1> USE DEF session, texts, Session, IsReady
<1>1. Types'
  BY DEF Types
<1>2. Steady'
  BY DEF Steady
<1>3. Unused'
  BY DEF Unused
<1>4. Asks'
  <2>1. ASSUME NEW q \in Queries
        PROVE  /\ statusValue' = "connecting" \/ connection' = 0 => query'[q].phase # "synced"
               /\ query'[q].phase \in {"waiting", "requested"} => IsReady'
               /\ query'[q].phase \in {"waiting", "synced", "requested"}
                    => query'[q].generation <= generation'
               /\ IsReady' /\ query'[q].phase \in {"synced", "requested"}
                    /\ query'[q].generation = generation' => diagnosedGeneration' = generation'
    <3>1. CASE q # p
      BY <3>1 DEF Asks, In
    <3>2. CASE q = p
      BY <3>2 DEF Asks, Types
    <3> QED
      BY <3>1, <3>2
  <2> QED
    BY <2>1 DEF Asks, In
<1>5. MarksTheScreen'
  BY DEF MarksTheScreen
<1> QED
  BY <1>1, <1>2, <1>3, <1>4, <1>5

(* What is on the wire does not mind such a step. *)
LEMMA TalksOn ==
  ASSUME Session, UNCHANGED <<session, texts>>,
         NEW p \in Queries, \A q \in Queries : q # p => query'[q] = query[q],
         query[p].phase \in Sent => query'[p].phase \in Sent,
         query'[p].phase = "requested" => query[p].phase \notin Sent,
         socket # 0 =>
           /\ wire'[socket].state = wire[socket].state
           /\ wire'[socket].analysed = wire[socket].analysed
           /\ wire'[socket].up = wire[socket].up
           /\ wire'[socket].down = wire[socket].down
  PROVE  Handshake' /\ Talks'
<1> USE DEF session, texts, IsReady
<1>0. Types /\ Steady /\ Handshake /\ Talks
  BY DEF Session
<1>1. Handshake'
  BY <1>0 DEF Handshake, Steady
<1>2. Talks'
  <2> SUFFICES ASSUME statusValue = "ready" PROVE Talks'
    BY DEF Talks
  <2>1. socket # 0 /\ wire[socket] \in Wire
    BY <1>0 DEF Steady, Types
  <2>2. /\ \A i \in DOMAIN wire[socket].up : wire[socket].up[i] \in UpFrame
        /\ \A i \in DOMAIN wire[socket].down : wire[socket].down[i] \in DownFrame
    BY <2>1 DEF Wire
  <2>3. \A q \in Queries : /\ query[q].phase \in Sent => query'[q].phase \in Sent
                           /\ query[q].phase \in Sent /\ query'[q].phase = "requested"
                                => query'[q] = query[q]
    OBVIOUS
  <2>4. SyncsUp(wire[socket])'
    BY <1>0, <2>1, <2>2, <2>3, FrameFields DEF SyncsUp, Talks
  <2>5. PublishesDown(wire[socket])'
    BY <1>0, <2>1 DEF PublishesDown, Talks, About
  <2>6. AnswersDown(wire[socket])'
    <3>1. AnswersDown(wire[socket])
      BY <1>0 DEF Talks
    <3>2. \A i \in DOMAIN wire[socket].down : wire[socket].down[i].k = "response"
            => wire[socket].down[i].query \in Queries
      BY <2>2, FrameFields
    <3>3. \A i \in DOMAIN wire[socket].down : wire[socket].down[i].k = "response" =>
            LET q == wire[socket].down[i].query IN
              /\ query'[q].phase \in Sent
              /\ query'[q].phase = "requested" /\ query'[q].generation = generation
                   => wire[socket].down[i].generation = generation
      BY <2>3, <3>1, <3>2, SMTT(60) DEF AnswersDown
    <3>4. wire'[socket].down = wire[socket].down /\ UNCHANGED <<socket, generation>>
      BY <2>1
    <3> QED
      BY <3>3, <3>4, SMTT(60) DEF AnswersDown
  <2>7. Diagnosed(wire[socket])'
    BY <1>0, <2>1 DEF Diagnosed, Talks
  <2> QED
    BY <1>0, <2>1, <2>4, <2>5, <2>6, <2>7 DEF Talks, About
<1> QED
  BY <1>1, <1>2

LEMMA AskStep ==
  ASSUME Session, NEW q \in Queries, Ask(q)
  PROVE  Session'
<1>0. /\ Types /\ UNCHANGED <<session, texts, wire>>
      /\ query[q].phase = "new" /\ connection > 0 /\ generation \in Nat
      /\ wire \in [Connections -> Wire]
  BY DEF Ask, Session, Types
<1>1. /\ query' \in [Queries -> [phase : Phases, generation : Nat, epoch : Nat]]
      /\ queryEpoch' \in [{MethodOf[n] : n \in Queries} -> Nat]
      /\ \A n \in Queries : n # q => query'[n] = query[n]
      /\ \/ query'[q].phase = "rejected"
         \/ /\ IsReady
            /\ query'[q].phase = IF generation = diagnosedGeneration THEN "synced" ELSE "waiting"
            /\ query'[q].generation = generation
  <2>1. CASE ~IsReady
    <3>1. query' = Moved({q}, "rejected") /\ queryEpoch' = queryEpoch
      BY <2>1 DEF Ask
    <3>2. "rejected" \in Phases /\ \A n \in Queries : n # q => n \notin {q}
      BY DEF Phases
    <3> QED
      BY <1>0, <3>1, <3>2, MovedFacts DEF Types
  <2>2. CASE IsReady
    <3> DEFINE r == [phase |-> IF generation = diagnosedGeneration THEN "synced" ELSE "waiting",
                     generation |-> generation, epoch |-> Epoch(q) + 1]
    <3>1. /\ query' = [query EXCEPT ![q] = r]
          /\ queryEpoch' = [queryEpoch EXCEPT ![MethodOf[q]] = @ + 1]
      BY <2>2 DEF Ask
    <3>2. queryEpoch[MethodOf[q]] \in Nat
      BY <1>0 DEF Types
    <3>3. r \in [phase : Phases, generation : Nat, epoch : Nat]
      BY <1>0, <3>2 DEF Phases, Epoch
    <3>4. /\ r.phase = IF generation = diagnosedGeneration THEN "synced" ELSE "waiting"
          /\ r.generation = generation
      OBVIOUS
    <3> HIDE DEF r
    <3> QED
      BY <1>0, <2>2, <3>1, <3>2, <3>3, <3>4 DEF Types
  <2> QED
    BY <2>1, <2>2
<1>2. query[q].phase \notin Sent /\ query'[q].phase # "requested"
  BY <1>0, <1>1 DEF Sent
<1>3. Handshake' /\ Talks'
  BY <1>0, <1>1, <1>2, TalksOn
<1>4. \A d \in Connections : wire'[d] = wire[d]
  BY <1>0
<1> QED
  BY <1>0, <1>1, <1>2, <1>3, <1>4, QueriesMove

LEMMA QueryTimeoutStep ==
  ASSUME Session, NEW q \in Queries, QueryTimeout(q)
  PROVE  Session'
<1>0. /\ Types /\ UNCHANGED <<session, texts, queryEpoch, wire>>
      /\ query' = Moved({q}, "rejected") /\ wire \in [Connections -> Wire]
      /\ queryEpoch' \in [{MethodOf[n] : n \in Queries} -> Nat]
  BY DEF QueryTimeout, Session, Types
<1>1. /\ query' \in [Queries -> [phase : Phases, generation : Nat, epoch : Nat]]
      /\ \A n \in Queries : n # q => query'[n] = query[n]
      /\ query'[q].phase = "rejected"
  <2>1. "rejected" \in Phases /\ \A n \in Queries : n # q => n \notin {q}
    BY DEF Phases
  <2> QED
    BY <1>0, <2>1, MovedFacts
<1>2. query'[q].phase \in Sent
  BY <1>1 DEF Sent
<1>3. Handshake' /\ Talks'
  BY <1>0, <1>1, <1>2, TalksOn
<1> QED
  BY <1>0, <1>1, <1>3, QueriesMove

LEMMA RequestStep ==
  ASSUME Session, NEW q \in Queries, Request(q)
  PROVE  Session'
<1> DEFINE f == [k |-> "request", query |-> q]
<1>0. /\ Types /\ Steady /\ Handshake /\ Talks /\ Asks
      /\ UNCHANGED <<session, texts, queryEpoch>>
      /\ query[q].phase = "synced" /\ wire \in [Connections -> Wire]
      /\ queryEpoch' \in [{MethodOf[n] : n \in Queries} -> Nat]
  BY DEF Request, Session, Types
<1>1. CASE query' = Moved({q}, "rejected") /\ UNCHANGED wire
  <2>1. /\ query' \in [Queries -> [phase : Phases, generation : Nat, epoch : Nat]]
        /\ \A n \in Queries : n # q => query'[n] = query[n]
        /\ query'[q].phase = "rejected"
    <3>1. "rejected" \in Phases /\ \A n \in Queries : n # q => n \notin {q}
      BY DEF Phases
    <3> QED
      BY <1>0, <1>1, <3>1, MovedFacts
  <2>2. query'[q].phase \in Sent
    BY <2>1 DEF Sent
  <2>3. Handshake' /\ Talks'
    BY <1>0, <1>1, <2>1, <2>2, TalksOn
  <2> QED
    BY <1>0, <1>1, <2>1, <2>3, QueriesMove
<1>2. CASE /\ Fresh(q) /\ socket # 0
           /\ query' = Moved({q}, "requested")
           /\ wire' = Send(wire, socket, f)
  <2>1. /\ statusValue = "ready" /\ socket \in Connections
    BY <1>0, <1>2 DEF Asks, In, Steady, Types
  <2>2. /\ query' \in [Queries -> [phase : Phases, generation : Nat, epoch : Nat]]
        /\ \A n \in Queries : n # q => query'[n] = query[n]
        /\ query'[q].phase = "requested" /\ query'[q].generation = query[q].generation
    <3>1. "requested" \in Phases /\ \A n \in Queries : n # q => n \notin {q}
      BY DEF Phases
    <3> QED
      BY <1>0, <1>2, <3>1, MovedFacts
  <2>3. f \in UpFrame /\ f.k = "request" /\ f.query = q
    BY Frames
  <2> HIDE DEF f
  <2>4. /\ wire' \in [Connections -> Wire]
        /\ \A d \in Connections : d # socket => wire'[d] = wire[d]
        /\ wire'[socket].up = Append(wire[socket].up, f)
        /\ wire'[socket].down = wire[socket].down
        /\ wire'[socket].state = wire[socket].state
        /\ wire'[socket].analysed = wire[socket].analysed
    BY <1>0, <1>2, <2>1, <2>3, SendFacts
  <2>5. /\ wire[socket].up \in Seq(UpFrame) /\ wire[socket].down \in Seq(DownFrame)
        /\ SyncsUp(wire[socket]) /\ PublishesDown(wire[socket])
        /\ AnswersDown(wire[socket]) /\ Diagnosed(wire[socket])
    BY <1>0, <2>1 DEF Talks, IsReady, Types, Wire
  <2>6. \A i \in DOMAIN wire'[socket].up :
          \/ i \in DOMAIN wire[socket].up /\ wire'[socket].up[i] = wire[socket].up[i]
             /\ wire[socket].up[i] \in UpFrame
          \/ wire'[socket].up[i] = f
    BY <2>3, <2>4, <2>5, Sequences
  <2>7. \A n \in Queries : query[n].phase \in Sent => n # q /\ query'[n] = query[n]
    BY <1>0, <2>2 DEF Sent
  <2>8. UNCHANGED <<statusValue, socket, version, inFlight, generation, diagnosedGeneration>>
    BY <1>0, SMTT(60) DEF session, texts
  <2>9. SyncsUp(wire[socket])'
    <3>1. \A i \in DOMAIN wire'[socket].up :
            wire'[socket].up[i].k = "request" => query'[wire'[socket].up[i].query].phase \in Sent
      <4>1. query'[q].phase \in Sent
        BY <2>2 DEF Sent
      <4>2. \A i \in DOMAIN wire[socket].up :
              wire[socket].up[i] \in UpFrame /\ wire[socket].up[i].k = "request"
                => query'[wire[socket].up[i].query].phase \in Sent
        BY <2>5, <2>7, FrameFields DEF SyncsUp
      <4> QED
        BY <2>3, <2>6, <4>1, <4>2
    <3>2. \A i \in DOMAIN wire'[socket].up :
            /\ wire'[socket].up[i].k # "initialize"
            /\ wire'[socket].up[i].k = "sync"
                 => i \in DOMAIN wire[socket].up /\ wire'[socket].up[i] = wire[socket].up[i]
      BY <2>3, <2>5, <2>6 DEF SyncsUp
    <3>3. \A i \in DOMAIN wire'[socket].up : wire'[socket].up[i].k = "sync" =>
            /\ inFlight = [generation |-> wire'[socket].up[i].generation,
                           version |-> wire'[socket].up[i].version]
            /\ inFlight # NoFlight
            /\ wire[socket].analysed.version < version
            /\ \A j \in DOMAIN wire'[socket].up : wire'[socket].up[j].k = "sync" => j = i
      BY <2>5, <3>2, SMTT(60) DEF SyncsUp
    <3>4. /\ wire'[socket].analysed = wire[socket].analysed
          /\ UNCHANGED <<socket, inFlight, version>>
      BY <2>4, <2>8
    <3> QED
      BY <3>1, <3>2, <3>3, <3>4, ZenonT(60) DEF SyncsUp
  <2>10. AnswersDown(wire[socket])'
    <3>1. \A i \in DOMAIN wire[socket].down : wire[socket].down[i].k = "response"
            => wire[socket].down[i].query \in Queries
      BY <2>5, FrameFields
    <3>2. \A i \in DOMAIN wire[socket].down : wire[socket].down[i].k = "response" =>
            LET n == wire[socket].down[i].query IN
              /\ query'[n].phase \in Sent
              /\ query'[n].phase = "requested" /\ query'[n].generation = generation
                   => wire[socket].down[i].generation = generation
      BY <2>5, <2>7, <3>1, SMTT(60) DEF AnswersDown
    <3>3. wire'[socket].down = wire[socket].down /\ UNCHANGED <<socket, generation>>
      BY <2>4, <2>8
    <3> QED
      BY <3>2, <3>3, SMTT(60) DEF AnswersDown
  <2>11. PublishesDown(wire[socket])' /\ Diagnosed(wire[socket])'
    BY <2>4, <2>5, <2>8 DEF PublishesDown, Diagnosed, About
  <2>12. Talks'
    BY <1>0, <2>1, <2>4, <2>8, <2>9, <2>10, <2>11 DEF Talks, IsReady, About
  <2>13. Handshake'
    BY <2>1, <2>8 DEF Handshake
  <2> QED
    BY <1>0, <2>1, <2>2, <2>4, <2>12, <2>13, QueriesMove DEF IsReady
<1> QED
  BY <1>1, <1>2 DEF Request

(* What an answer does, and that the text it answers with is the one on screen *)
LEMMA ResponseStep ==
  ASSUME Session, NEW c \in Connections, Response(c)
  PROVE  /\ Session'
         /\ \A q \in Queries : query'[q].phase = "answered" /\ query[q].phase # "answered"
                                => query'[q].generation = generation'
<1> DEFINE r == Head(wire[c].down)
           p == r.query
<1>0. /\ Types /\ Steady /\ Handshake /\ Talks /\ Asks /\ c = socket
      /\ wire[c] \in Wire /\ wire[c].down \in Seq(DownFrame) /\ wire[c].down # <<>>
      /\ wire[c].up \in Seq(UpFrame)
      /\ UNCHANGED <<session, texts, queryEpoch>> /\ wire' = Popped(c)
      /\ queryEpoch' \in [{MethodOf[n] : n \in Queries} -> Nat]
      /\ r.k = "response"
  <2> HIDE DEF r
  <2>1. Receives(c, "response") /\ IsCurrent(c) /\ wire' = Popped(c)
        /\ UNCHANGED <<session, texts, queryEpoch>>
    BY ZenonT(60) DEF Response
  <2>2. /\ Types /\ Steady /\ Handshake /\ Talks /\ Asks /\ c = socket
        /\ wire[c] \in Wire
    BY <2>1, InUse
  <2>3. wire[c].down # <<>> /\ r.k = "response"
    BY <2>1 DEF Receives, r
  <2>4. wire[c].down \in Seq(DownFrame) /\ wire[c].up \in Seq(UpFrame)
    BY <2>2 DEF Wire
  <2>5. queryEpoch' \in [{MethodOf[n] : n \in Queries} -> Nat]
    BY <2>1, <2>2 DEF Types
  <2> QED
    BY <2>1, <2>2, <2>3, <2>4, <2>5
<1>1. statusValue = "ready"
  BY <1>0, InUse DEF Handshake
<1>2. /\ r \in DownFrame /\ 1 \in DOMAIN wire[c].down /\ r = wire[c].down[1]
      /\ \A i \in DOMAIN Tail(wire[c].down) :
           /\ i + 1 \in DOMAIN wire[c].down
           /\ Tail(wire[c].down)[i] = wire[c].down[i + 1]
           /\ wire[c].down[i + 1] \in DownFrame
  BY <1>0
<1>3. r.generation \in Nat /\ p \in Queries
  BY <1>0, <1>2, FrameFields
<1>4. /\ SyncsUp(wire[c]) /\ PublishesDown(wire[c]) /\ AnswersDown(wire[c])
      /\ Diagnosed(wire[c])
  BY <1>0, <1>1 DEF Talks, IsReady
<1>5. /\ wire' \in [Connections -> Wire]
      /\ \A d \in Connections : d # c => wire'[d] = wire[d]
      /\ wire'[c].down = Tail(wire[c].down) /\ wire'[c].up = wire[c].up
      /\ wire'[c].state = wire[c].state /\ wire'[c].analysed = wire[c].analysed
  BY <1>0, PoppedFacts
<1>6. UNCHANGED <<statusValue, socket, version, inFlight, generation, diagnosedGeneration>>
  BY <1>0, SMTT(60) DEF session, texts
<1>7. query[p].phase = "requested" /\ query[p].generation = generation
        => r.generation = generation
  BY <1>0, <1>2, <1>4 DEF AnswersDown
<1>8. /\ query' \in [Queries -> [phase : Phases, generation : Nat, epoch : Nat]]
      /\ \A n \in Queries : n # p => query'[n] = query[n]
      /\ \/ query' = query
         \/ query'[p].phase = "rejected"
         \/ /\ query'[p].phase = "answered" /\ query'[p].generation = generation
  <2> HIDE DEF p
  <2>1. CASE query[p].phase # "requested"
    <3>1. query' = query
      BY <2>1 DEF Response, p
    <3> QED
      BY <1>0, <3>1 DEF Types
  <2>2. CASE query[p].phase = "requested" /\ Fresh(p)
    <3>1. query' = [query EXCEPT ![p].phase = "answered", ![p].generation = r.generation]
      BY <2>2, ZenonT(60) DEF Response, p
    <3>2. query' = [query EXCEPT ![p] = [query[p] EXCEPT !.phase = "answered",
                                                        !.generation = r.generation]]
      BY <1>0, <1>3, <3>1 DEF Types
    <3>3. /\ query[p] \in [phase : Phases, generation : Nat, epoch : Nat]
          /\ "answered" \in Phases
      BY <1>0, <1>3 DEF Types, Phases
    <3>4. r.generation = generation
      BY <1>7, <2>2 DEF Fresh
    <3> DEFINE answered == [query[p] EXCEPT !.phase = "answered", !.generation = r.generation]
    <3>5. /\ answered \in [phase : Phases, generation : Nat, epoch : Nat]
          /\ answered.phase = "answered" /\ answered.generation = r.generation
      BY <1>3, <3>3
    <3> HIDE DEF r, answered
    <3>6. query' = [query EXCEPT ![p] = answered]
      BY <3>2 DEF answered
    <3>7. query \in [Queries -> [phase : Phases, generation : Nat, epoch : Nat]]
      BY <1>0 DEF Types
    <3>8. query' \in [Queries -> [phase : Phases, generation : Nat, epoch : Nat]]
      BY <3>5, <3>6, <3>7
    <3>9. query'[p] = answered /\ \A n \in Queries : n # p => query'[n] = query[n]
      BY <1>3, <3>6, <3>7
    <3> QED
      BY <3>4, <3>5, <3>8, <3>9, SMTT(60)
  <2>3. CASE query[p].phase = "requested" /\ ~Fresh(p)
    <3>1. query' = Moved({p}, "rejected")
      BY <2>3 DEF Response, p
    <3>2. "rejected" \in Phases /\ Types
      BY <1>0 DEF Phases
    <3>3. /\ Moved({p}, "rejected") \in [Queries -> [phase : Phases, generation : Nat, epoch : Nat]]
          /\ \A n \in Queries : n \in {p} => Moved({p}, "rejected")[n].phase = "rejected"
          /\ \A n \in Queries : n \notin {p} => Moved({p}, "rejected")[n] = query[n]
      BY <3>2, MovedFacts
    <3> QED
      BY <1>3, <3>1, <3>3
  <2> QED
    BY <2>1, <2>2, <2>3
<1> HIDE DEF p, r
<1>9. \A n \in Queries : /\ query[n].phase \in Sent => query'[n].phase \in Sent
                         /\ query'[n].phase = "requested" => query'[n] = query[n]
  BY <1>8 DEF Sent
<1>10. Talks'
  <2>1. SyncsUp(wire[socket])'
    <3>1. \A i \in DOMAIN wire[c].up : wire[c].up[i].k = "request"
            => wire[c].up[i].query \in Queries
      BY <1>0, FrameFields
    <3> QED
      BY <1>0, <1>4, <1>5, <1>6, <1>9, <3>1, SMTT(60) DEF SyncsUp
  <2>2. PublishesDown(wire[socket])'
    <3>1. \A i \in DOMAIN Tail(wire[c].down) :
            /\ Tail(wire[c].down)[i].k # "initialized"
            /\ Tail(wire[c].down)[i].k = "publish" =>
                 /\ Tail(wire[c].down)[i].version <= wire[c].analysed.version
                 /\ About(Tail(wire[c].down)[i].version, Tail(wire[c].down)[i].generation)
      BY <1>2, <1>4 DEF PublishesDown
    <3>2. socket' = c /\ wire'[c].down = Tail(wire[c].down)
          /\ wire'[c].analysed = wire[c].analysed
      BY <1>0, <1>5, <1>6, SMTT(60)
    <3> QED
      BY <1>6, <3>1, <3>2 DEF PublishesDown, About
  <2>3. AnswersDown(wire[socket])'
    <3>1. \A i \in DOMAIN Tail(wire[c].down) : Tail(wire[c].down)[i].k = "response"
            => Tail(wire[c].down)[i].query \in Queries
      BY <1>2, FrameFields
    <3>2. \A i \in DOMAIN Tail(wire[c].down) : Tail(wire[c].down)[i].k = "response" =>
            LET q == Tail(wire[c].down)[i].query IN
              /\ query[q].phase \in Sent
              /\ query[q].phase = "requested" /\ query[q].generation = generation
                   => Tail(wire[c].down)[i].generation = generation
      BY <1>2, <1>4 DEF AnswersDown
    <3>3. socket' = c /\ wire'[c].down = Tail(wire[c].down) /\ generation' = generation
      BY <1>0, <1>5, <1>6
    <3> QED
      BY <1>9, <3>1, <3>2, <3>3, SMTT(60) DEF AnswersDown
  <2>4. Diagnosed(wire[socket])'
    BY <1>0, <1>4, <1>5, <1>6 DEF Diagnosed
  <2> QED
    BY <1>0, <1>1, <1>5, <1>6, <2>1, <2>2, <2>3, <2>4, SMTT(60) DEF Talks, IsReady, About
<1>11. Handshake'
  BY <1>1, <1>6 DEF Handshake
<1>12. CASE query' = query
  BY <1>0, <1>5, <1>10, <1>11, <1>12, ThisWire DEF queries
<1>13. CASE query' # query
  <2>1. query'[p].phase \in {"answered", "rejected"}
    BY <1>8, <1>13
  <2>2. Session'
    BY <1>0, <1>3, <1>5, <1>8, <1>10, <1>11, <2>1, QueriesMove
  <2> QED
    BY <1>6, <1>8, <1>13, <2>2
<1> QED
  BY <1>12, <1>13, SMTT(60)

-----------------------------------------------------------------------------
LEMMA SessionStep ==
  ASSUME Session, [Next]_vars
  PROVE  Session'
<1>1. CASE Start \/ Reconnect
  BY <1>1, ConnectStep
<1>2. ASSUME NEW c \in Connections,
             Closed(c) \/ HandshakeFails(c) \/ Garbage(c)
      PROVE  Session'
  BY <1>2, EndStep
<1>3. CASE Stop \/ DiagnosticsTimeout
  <2>1. 1 \in Connections
    BY BoundAssumption DEF Connections
  <2> QED
    BY <1>3, <2>1, EndStep
<1>4. CASE Update
  BY <1>4, UpdateStep
<1>5. ASSUME NEW c \in Connections, Opened(c) \/ Message(c) \/ Serve(c) \/ Repeat(c)
      PROVE  Session'
  BY <1>5, OpenedStep, DroppedStep, ReadyStep, UnpairedStep, ReceiveDiagnosticsStep,
     ResponseStep, ServeStep, RepeatStep DEF Message
<1>6. ASSUME NEW q \in Queries, Ask(q) \/ QueryTimeout(q) \/ Request(q)
      PROVE  Session'
  BY <1>6, AskStep, QueryTimeoutStep, RequestStep
<1>7. CASE UNCHANGED vars
  <2>1. /\ UNCHANGED <<session, texts, queries>> /\ wire' = wire
    BY <1>7 DEF vars
  <2>2. wire \in [Connections -> Wire]
    BY DEF Session, Types
  <2> QED
    BY <2>1, <2>2, OtherWires
<1> QED
  BY <1>1, <1>2, <1>3, <1>4, <1>5, <1>6, <1>7 DEF Next

LEMMA SessionInit ==
  ASSUME Init
  PROVE  Session
<1> USE DEF Init
<1>1. NoFlight \in Flight /\ -1 \in Int
  BY DEF NoFlight, Flight
<1>2. NewWire \in Wire
  <2>1. <<>> \in Seq(UpFrame) /\ <<>> \in Seq(DownFrame)
    OBVIOUS
  <2> HIDE DEF Init
  <2> QED
    BY <1>1, <2>1 DEF NewWire, Wire
<1>3. NewQuery \in [phase : Phases, generation : Nat, epoch : Nat] /\ NewQuery.phase = "new"
  BY DEF NewQuery, Phases
<1>4. Types
  <2>1. wire \in [Connections -> Wire]
    BY <1>2
  <2>2. query \in [Queries -> [phase : Phases, generation : Nat, epoch : Nat]]
    BY <1>3
  <2>3. queryEpoch \in [{MethodOf[q] : q \in Queries} -> Nat]
    OBVIOUS
  <2> QED
    BY <1>1, <2>1, <2>2, <2>3 DEF Types
<1>5. Steady
  BY DEF Steady, IsReady
<1>6. Unused /\ Handshake /\ Talks /\ MarksTheScreen
  BY DEF Unused, Handshake, Talks, IsReady, MarksTheScreen
<1>7. Asks
  BY <1>3 DEF Asks, In, IsReady
<1> QED
  BY <1>4, <1>5, <1>6, <1>7 DEF Session

-----------------------------------------------------------------------------
LEMMA AbandonBudget ==
  ASSUME Types, Budget, NEW c, NEW retry \in BOOLEAN, NEW earned \in BOOLEAN,
         Abandon(c, retry, earned)
  PROVE  Budget'
<1>1. CASE c # connection
  BY <1>1 DEF Abandon, Budget, session
<1>2. CASE c = connection
  <2> DEFINE count == IF retry /\ earned THEN 0 ELSE retryCount
             again == retry /\ count < 1
  <2>1. /\ connection' = connection + 1 /\ connection \in Nat
        /\ retryCount' = IF again THEN count + 1 ELSE count
        /\ reconnectTimer' = again
        /\ spent' = IF retry /\ earned THEN 0 ELSE spent
    BY <1>2 DEF Abandon, Types, MayRetry
  <2> QED
    BY <2>1 DEF Budget
<1> QED
  BY <1>1, <1>2

LEMMA BudgetStep ==
  ASSUME Types, Budget, [Next]_vars
  PROVE  Budget'
<1>1. ASSUME UNCHANGED session PROVE Budget'
  BY <1>1 DEF Budget, session
<1>2. CASE Start
  BY <1>2 DEF Start, Connect, Budget, Types
<1>3. CASE Reconnect
  BY <1>3 DEF Reconnect, Connect, Budget, Types
<1>4. CASE Stop
  BY <1>4 DEF Stop, Budget, Types
<1>5. CASE Update
  BY <1>1, <1>5 DEF Update
<1>6. CASE DiagnosticsTimeout
  BY <1>6, AbandonBudget DEF DiagnosticsTimeout
<1>7. ASSUME NEW c \in Connections, Closed(c) \/ HandshakeFails(c) \/ Garbage(c)
      PROVE  Budget'
  <2>1. \E retry \in BOOLEAN, earned \in BOOLEAN : Abandon(c, retry, earned)
    BY <1>7 DEF Closed, HandshakeFails, Garbage, Earned
  <2> QED
    BY <2>1, AbandonBudget
<1>8. ASSUME NEW c \in Connections, Opened(c) \/ Dropped(c) \/ Unpaired(c) \/ Serve(c) \/ Repeat(c)
      PROVE  Budget'
  <2>1. UNCHANGED session
    BY <1>8, ZenonT(60) DEF Opened, Dropped, Unpaired, Serve, Repeat
  <2> QED
    BY <1>1, <2>1
<1>9. ASSUME NEW c \in Connections, Ready(c) \/ ReceiveDiagnostics(c) \/ Response(c)
      PROVE  Budget'
  <2>1. CASE Ready(c)
    <3>1. UNCHANGED <<spent, retryCount, reconnectTimer, connection>>
      BY <2>1, ZenonT(60) DEF Ready
    <3> QED
      BY <3>1, SMTT(60) DEF Budget
  <2>2. CASE ReceiveDiagnostics(c)
    <3>1. UNCHANGED session
      BY <2>2, ZenonT(60) DEF ReceiveDiagnostics
    <3> QED
      BY <1>1, <3>1
  <2>3. CASE Response(c)
    <3>1. UNCHANGED session
      BY <2>3, ZenonT(60) DEF Response
    <3> QED
      BY <1>1, <3>1
  <2> QED
    BY <1>9, <2>1, <2>2, <2>3
<1>10. ASSUME NEW q \in Queries, Ask(q) \/ QueryTimeout(q) \/ Request(q)
       PROVE  Budget'
  BY <1>1, <1>10 DEF Ask, QueryTimeout, Request
<1>11. CASE UNCHANGED vars
  BY <1>1, <1>11 DEF vars
<1> QED
  BY <1>2, <1>3, <1>4, <1>5, <1>6, <1>7, <1>8, <1>9, <1>10, <1>11 DEF Next, Message

LEMMA InvHolds == Spec => []IInv
<1>1. Init => IInv
  <2>1. Init => Budget
    BY DEF Init, Budget
  <2> QED
    BY <2>1, SessionInit DEF IInv
<1>2. IInv /\ [Next]_vars => IInv'
  BY SessionStep, BudgetStep DEF IInv, Session
<1> QED
  BY <1>1, <1>2, PTL DEF Spec

(* Status, socket and connection number agree, a sync in flight is of the
   version the workspace has and on a connection that is ready, and so are
   the queries that wait for an answer. *)
THEOREM TypeCorrect == Spec => []TypeOK
<1>1. IInv => TypeOK
  BY DEF IInv, Session, Types, Steady, Asks, TypeOK, In, Phases
<1> QED
  BY <1>1, InvHolds, PTL

(* What the editor marks is what the server found in the text it shows,
   however many publishes it repeats and however often connections and texts
   change under it. *)
THEOREM MarksTheText == Spec => []MarksTheScreen
<1>1. IInv => MarksTheScreen
  BY DEF IInv, Session
<1> QED
  BY <1>1, InvHolds, PTL

(* No more than two connections in a row are tried that did not earn the
   budget back, in whatever way each of them ends. *)
THEOREM RetriesBounded == Spec => []RetryBudget
<1>1. IInv => RetryBudget
  BY DEF IInv, Budget, RetryBudget
<1> QED
  BY <1>1, InvHolds, PTL

LEMMA NotAnswered ==
  ASSUME Types, NEW qs, NEW phase \in Phases, phase # "answered",
         query' = Moved(qs, phase), NEW q \in Queries,
         query'[q].phase = "answered"
  PROVE  query[q].phase = "answered"
<1>1. CASE q \in qs
  BY <1>1, MovedFacts
<1>2. CASE q \notin qs
  BY <1>2, MovedFacts
<1> QED
  BY <1>1, <1>2

(* A query is answered by an answer's message only. *)
LEMMA OnlyResponse ==
  ASSUME Types, Next, \A c \in Connections : ~Response(c), NEW q \in Queries,
         query'[q].phase = "answered"
  PROVE  query[q].phase = "answered"
<1> USE NotAnswered DEF queries
<1>0. "rejected" \in Phases /\ "synced" \in Phases /\ "requested" \in Phases
  BY DEF Phases
<1>1. ASSUME NEW c, NEW retry, NEW earned, Abandon(c, retry, earned)
      PROVE  query[q].phase = "answered"
  BY <1>0, <1>1 DEF Abandon
<1>2. CASE Start \/ Reconnect
  BY <1>2 DEF Start, Reconnect, Connect
<1>3. CASE Stop
  BY <1>0, <1>3 DEF Stop
<1>4. CASE Update
  BY <1>0, <1>4 DEF Update
<1>5. CASE DiagnosticsTimeout
  BY <1>1, <1>5 DEF DiagnosticsTimeout
<1>6. ASSUME NEW c \in Connections, Closed(c) \/ HandshakeFails(c) \/ Garbage(c)
      PROVE  query[q].phase = "answered"
  BY <1>1, <1>6 DEF Closed, HandshakeFails, Garbage
<1>7. ASSUME NEW c \in Connections,
             Opened(c) \/ Dropped(c) \/ Ready(c) \/ Unpaired(c) \/ Serve(c) \/ Repeat(c)
      PROVE  query[q].phase = "answered"
  <2>1. query' = query
    <3>1. CASE Ready(c)
      BY <3>1, ZenonT(60) DEF Ready
    <3>2. CASE Opened(c) \/ Dropped(c) \/ Unpaired(c) \/ Serve(c) \/ Repeat(c)
      <4>1. UNCHANGED queries
        BY <3>2, ZenonT(60) DEF Opened, Dropped, Unpaired, Serve, Repeat
      <4> QED
        BY <4>1
    <3> QED
      BY <1>7, <3>1, <3>2
  <2> QED
    BY <2>1
<1>8. ASSUME NEW c \in Connections, ReceiveDiagnostics(c)
      PROVE  query[q].phase = "answered"
  BY <1>0, <1>8 DEF ReceiveDiagnostics
<1>9. ASSUME NEW p \in Queries, QueryTimeout(p) \/ Request(p)
      PROVE  query[q].phase = "answered"
  BY <1>0, <1>9 DEF QueryTimeout, Request
<1>10. ASSUME NEW p \in Queries, Ask(p)
       PROVE  query[q].phase = "answered"
  <2>1. CASE query' = Moved({p}, "rejected")
    BY <1>0, <2>1
  <2>2. ASSUME NEW r, r.phase # "answered", query' = [query EXCEPT ![p] = r]
        PROVE  query[q].phase = "answered"
    BY <2>2 DEF Types
  <2>3. CASE IsReady
    BY <1>10, <2>2, <2>3 DEF Ask
  <2> QED
    BY <1>10, <2>1, <2>3 DEF Ask
<1> QED
  BY <1>2, <1>3, <1>4, <1>5, <1>6, <1>7, <1>8, <1>9, <1>10 DEF Next, Message

(* A late answer never describes newer text: when a query is answered, it is
   about the text that is on screen at that moment. *)
THEOREM AnswersAreTimely == Spec => AnswersTheScreen
<1> DEFINE Timely == \A q \in Queries :
             query'[q].phase = "answered" /\ query[q].phase # "answered"
               => query'[q].generation = generation'
<1>1. IInv /\ [Next]_vars => [Timely]_vars
  <2> SUFFICES ASSUME IInv, Next PROVE Timely
    OBVIOUS
  <2>1. CASE \E c \in Connections : Response(c)
    BY <2>1, ResponseStep DEF IInv
  <2>2. CASE \A c \in Connections : ~Response(c)
    BY <2>2, OnlyResponse DEF IInv, Session
  <2> QED
    BY <2>1, <2>2
<1> QED
  BY <1>1, InvHolds, PTL DEF Spec, AnswersTheScreen
=============================================================================
