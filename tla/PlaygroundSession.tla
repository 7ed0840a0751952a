------------------------- MODULE PlaygroundSession --------------------------
(***************************************************************************)
(* A whole Playground language session: a browser that follows the rules   *)
(* (the LSP's and the gateway's), LspRelay in the middle, and LspServer as *)
(* the child, joined by the child's two pipes.  Neither module knows the   *)
(* other; what only the pair can get right or wrong is stated here.        *)
(***************************************************************************)
EXTENDS LspRelay

CONSTANTS
  Package,   \* a file of a package the project uses
  Manifest   \* the project's manifest

ASSUME SessionAssumption == Package \notin {Doc, Tile} /\ Manifest \notin {Doc, Tile}

VARIABLES
  lifecycle, docs, ready, problems, deferred, inbox, reading, cancelled, unflushed,
  working, serving,   \* LspServer's state; deferred is its pending sync
  shown,       \* the version of the diagnostics the browser shows
  foreign      \* the browser was given a URI that is not its document's

childVars == <<lifecycle, docs, ready, problems, deferred, inbox, reading, cancelled,
               unflushed, working, serving>>
vars == <<relayVars, childVars, shown, foreign>>

Child == INSTANCE LspServer WITH
  Uris <- {Doc, Tile}, Project <- {Tile}, pending <- deferred,
  stdin <- toChild, closed <- stdin_closed, stdout <- fromChild

Init ==
  /\ RelayInit
  /\ Child!Init
  /\ shown = 0
  /\ foreign = FALSE

-----------------------------------------------------------------------------
(* The browser: each message only when it is in order *)

Quiet == toClient = <<>>    \* it has read everything it was sent

Begin == \E id \in Ids : state = "new" /\ IdFree(id) /\ Initialize(id)
Ready == state = "initialize-done" /\ Quiet /\ Initialized
Open == \E tile \in BOOLEAN : state = "initialized" /\ DidOpen(1, tile)
Edit ==
  \E tile \in BOOLEAN :
    state = "open" /\ version + 1 \in Versions /\ DidChange(version + 1, tile)
Ask ==
  \E id \in Ids, method \in {"completion", "definition"} :
    /\ state = "open" /\ IdFree(id)
    /\ Cardinality(Outstanding) < MaxPending
    /\ Request(id, method, Doc)

Browser ==
  /\ Begin \/ Ready \/ Open \/ Edit \/ Ask
  /\ UNCHANGED <<childVars, shown, foreign>>

Read ==
  /\ ~Quiet
  /\ toClient' = Tail(toClient)
  /\ LET frame == Head(toClient) IN
       /\ shown' = IF frame.k = "publish" THEN frame.ver ELSE shown
       /\ foreign' = (foreign \/ (frame.k = "result" /\ frame.uris \ {Doc} # {}))
  /\ UNCHANGED <<protocol, message_count, toChild, fromChild, ended,
                 stdin_closed, childVars>>

Relay ==
  /\ FromChild \/ StopChild \/ (~serving /\ ChildGone)
  /\ UNCHANGED <<childVars, shown, foreign>>

Leave == TimeUp /\ UNCHANGED <<childVars, shown, foreign>>

Server ==
  /\ Child!Next
  /\ UNCHANGED <<protocol, message_count, toClient, ended, shown, foreign>>

Next == Browser \/ Read \/ Relay \/ Leave \/ Server

(* The event loop serves every ready task and the child is scheduled; the
   browser's event loop runs. *)
Spec == /\ Init /\ [][Next]_vars
        /\ WF_vars(Read) /\ WF_vars(Relay) /\ WF_vars(Server)

-----------------------------------------------------------------------------
(* A switch of documents leaves both sides agreeing: whatever was in flight
   in either direction, and whichever publishes were dropped as late, the
   browser of a session that goes on ends up with the diagnostics of the
   last text it sent. *)
LatestShown == <>[](state = "open" /\ ended = 0 => shown = version)

(* A request crosses a pipe, a queue of later texts and perhaps a switch of
   documents, and is still answered about the text that was sent last before
   it, in the document it was asked of. *)
AnswersCross ==
  \A i \in DOMAIN fromChild :
    fromChild[i].k = "result" => fromChild[i].of = fromChild[i].about

(* The session's end reaches the child through the same pipe as its work. *)
ChildStops == ended # 0 ~> ~serving

(* "a project is a workspace: it may publish for the files of its packages
   too, which the browser has no buffer for": a child that behaves never ends
   the session. *)
NeverBlamed == ended # 1011

(* "and the browser never knew that URI": the project file's URI does not
   cross to the browser. *)
TileUriStaysInside == ~foreign
=============================================================================
