------------------------------ MODULE LspRelay ------------------------------
(***************************************************************************)
(* What one gateway session relays (playground/lsp_gateway.py,             *)
(* ClientProtocol): a browser that may write anything on one side, a       *)
(* language server on the other, and between them the allow-list, the      *)
(* session's life cycle, the requests in flight, and the two documents the *)
(* one browser buffer may be for the server: the untitled buffer, or the   *)
(* main file of the tileir project while its text uses that package.       *)
(*                                                                         *)
(* A text is its version and whether it uses the project; positions,       *)
(* ranges, labels and diagnostics are left out, and with them every check  *)
(* of a value's shape: a message that fails one is Invalid.  A child frame *)
(* has the form LspServer writes and reads.                                *)
(***************************************************************************)
EXTENDS Integers, Sequences, FiniteSets

CONSTANTS
  Doc,          \* DOCUMENT_URI, the one document the browser knows
  Tile,         \* Config.tile_uri, the project file the buffer may become
  Ids,          \* request ids: non-zero numbers
  Versions,     \* the versions a browser gives its texts
  MaxPending,   \* HARD_PENDING_REQUESTS
  MaxMessages   \* HARD_MESSAGES_PER_SESSION

ASSUME BudgetAssumption == MaxPending \in Nat /\ MaxMessages \in Nat
ASSUME UriAssumption == Doc # Tile
ASSUME VersionAssumption == Versions \subseteq Nat
ASSUME IdAssumption == IsFiniteSet(Ids) /\ 0 \notin Ids

VARIABLES
  state,          \* ClientProtocol.state
  initialize_id,  \* ClientProtocol.initialize_id
  version,        \* ClientProtocol.version
  marked,         \* wants_tileir(ClientProtocol.text)
  in_project,     \* ClientProtocol.in_project
  pending,        \* ClientProtocol.pending: the method each id waits for
  message_count,  \* Session.message_count
  toChild,        \* frames written to the child's stdin and not yet read
  fromChild,      \* frames the child wrote and the session has not read
  toClient,       \* WebSocket messages sent and not yet read
  ended,          \* the code the session closes with; 0 while it runs
  stdin_closed    \* graceful_child_stop has closed the child's stdin

protocol == <<state, initialize_id, version, marked, in_project, pending>>
relayVars == <<protocol, message_count, toChild, fromChild, toClient, ended,
               stdin_closed>>

NoId == 0
Idle == "idle"    \* pending[id] of an id nothing waits for
Methods == {"completion", "definition", "resolve"}
Outstanding == {id \in Ids : pending[id] # Idle}
Uri(project) == IF project THEN Tile ELSE Doc

RelayInit ==
  /\ state = "new" /\ initialize_id = NoId
  /\ version = -1 /\ marked = FALSE /\ in_project = FALSE
  /\ pending = [id \in Ids |-> Idle]
  /\ message_count = 0
  /\ toChild = <<>> /\ fromChild = <<>> /\ toClient = <<>>
  /\ ended = 0 /\ stdin_closed = FALSE

-----------------------------------------------------------------------------
(* From the client.  Every message counts against the session's budget. *)

Received ==
  /\ ended = 0
  /\ message_count < MaxMessages
  /\ message_count' = message_count + 1
  /\ UNCHANGED <<fromChild, stdin_closed>>

Forward(frames) ==
  /\ toChild' = toChild \o frames
  /\ UNCHANGED <<toClient, ended>>

Reply(frame) ==
  /\ toClient' = Append(toClient, frame)
  /\ UNCHANGED <<toChild, ended>>

Close(code) ==
  /\ ended' = code
  /\ UNCHANGED <<protocol, toChild, toClient>>

(* _request_id *)
IdFree(id) == pending[id] = Idle /\ id # initialize_id

(* A message no method accepts: not JSON, no method, another document, a
   malformed parameter, a text over the limit.  The codes 1002 to 1009 are
   one here. *)
Invalid == Received /\ Close(1008)

TooManyMessages ==
  /\ ended = 0 /\ message_count = MaxMessages
  /\ UNCHANGED <<message_count, fromChild, stdin_closed>>
  /\ Close(1008)

(* _not_offered: a method outside the allow-list *)
NotOffered(id) ==
  /\ Received
  /\ \/ id = NoId /\ UNCHANGED <<protocol, toChild, toClient, ended>>
     \/ /\ id # NoId /\ IdFree(id)
        /\ Reply([k |-> "refused", id |-> id])
        /\ UNCHANGED protocol
     \/ id # NoId /\ ~IdFree(id) /\ Close(1008)

Initialize(id) ==
  /\ Received
  /\ IF state # "new" \/ ~IdFree(id) THEN Close(1008)
     ELSE /\ initialize_id' = id
          /\ state' = "initialize-sent"
          /\ Forward(<<[k |-> "initialize", id |-> id]>>)
          /\ UNCHANGED <<version, marked, in_project, pending>>

Initialized ==
  /\ Received
  /\ IF state # "initialize-done" THEN Close(1008)
     ELSE /\ state' = "initialized"
          /\ Forward(<<[k |-> "initialized"]>>)
          /\ UNCHANGED <<initialize_id, version, marked, in_project, pending>>

Sync(ver, project, open) ==
  [k |-> "sync", uri |-> Uri(project), ver |-> ver, open |-> open]

DidOpen(ver, tile) ==
  /\ Received
  /\ IF state # "initialized" THEN Close(1008)
     ELSE /\ state' = "open"
          /\ version' = ver /\ marked' = tile /\ in_project' = tile
          /\ Forward(<<Sync(ver, tile, TRUE)>>)
          /\ UNCHANGED <<initialize_id, pending>>

(* [mutant] the buffer changes kind without closing the other document *)
SwitchedOpenOnly(ver, tile) == <<Sync(ver, tile, TRUE)>>

(* The buffer stops being one document and becomes the other. *)
Switched(ver, tile) ==
  <<[k |-> "didClose", uri |-> Uri(in_project)], Sync(ver, tile, TRUE)>>

(* [mutant] the switch is sent and not remembered *)
DidChangeStaysPut(ver, tile) ==
  /\ Received
  /\ IF state # "open" \/ ver <= version THEN Close(1008)
     ELSE /\ version' = ver /\ marked' = tile
          /\ Forward(IF tile # in_project THEN Switched(ver, tile)
                     ELSE <<Sync(ver, tile, FALSE)>>)
          /\ UNCHANGED <<state, initialize_id, in_project, pending>>

DidChange(ver, tile) ==
  /\ Received
  /\ IF state # "open" \/ ver <= version THEN Close(1008)
     ELSE /\ version' = ver /\ marked' = tile /\ in_project' = tile
          /\ Forward(IF tile # in_project THEN Switched(ver, tile)
                     ELSE <<Sync(ver, tile, FALSE)>>)
          /\ UNCHANGED <<state, initialize_id, pending>>

(* [mutant] a request names the browser's document whatever the buffer is *)
RequestNotRetargeted(id, method, uri) ==
  /\ Received
  /\ IF \/ state # "open" \/ uri # Doc \/ ~IdFree(id)
        \/ Cardinality(Outstanding) >= MaxPending
       THEN Close(1008)
     ELSE /\ pending' = [pending EXCEPT ![id] = method]
          /\ Forward(<<[k |-> "request", id |-> id, class |-> "Analysed",
                        uri |-> Doc, about |-> version]>>)
          /\ UNCHANGED <<state, initialize_id, version, marked, in_project>>

(* A request about the buffer, or (resolve) about an item of its list, whose
   data names the document *)
Request(id, method, uri) ==
  /\ Received
  /\ IF \/ state # "open" \/ uri # Doc \/ ~IdFree(id)
        \/ Cardinality(Outstanding) >= MaxPending
       THEN Close(1008)
     ELSE /\ pending' = [pending EXCEPT ![id] = method]
          /\ Forward(<<[k |-> "request", id |-> id, class |-> "Analysed",
                        uri |-> Uri(in_project), about |-> version]>>)
          /\ UNCHANGED <<state, initialize_id, version, marked, in_project>>

-----------------------------------------------------------------------------
(* From the child.  Nothing of these changes what the child was sent. *)

ChildSays(kinds) ==
  /\ ended = 0
  /\ fromChild # <<>>
  /\ Head(fromChild).k \in kinds
  /\ fromChild' = Tail(fromChild)
  /\ UNCHANGED <<message_count, toChild, stdin_closed>>

Blame == ended' = 1011 /\ UNCHANGED <<protocol, toClient>>

Deliver(frame) == toClient' = Append(toClient, frame) /\ UNCHANGED ended

(* The other document of the two is late, not an escape, and a project's
   package files have no buffer. *)
Ignored(uri) == uri = Uri(~in_project) \/ (in_project /\ uri # Tile)

Publish ==
  /\ ChildSays({"publish"})
  /\ LET publish == Head(fromChild) IN
       IF Ignored(publish.uri) THEN UNCHANGED <<protocol, toClient, ended>>
       ELSE IF state # "open" \/ publish.uri # Uri(in_project) THEN Blame
       ELSE /\ Deliver([k |-> "publish", ver |-> publish.ver])
            /\ UNCHANGED protocol

(* The answer to `initialize`: the gateway's own capabilities, or a failure *)
InitializeAnswer ==
  /\ ChildSays({"initialized", "result", "error"})
  /\ state = "initialize-sent"
  /\ Head(fromChild).id = initialize_id
  /\ initialize_id' = NoId
  /\ LET failed == Head(fromChild).k = "error" IN
       /\ state' = IF failed THEN "initialize-failed" ELSE "initialize-done"
       /\ Deliver([k |-> IF failed THEN "error" ELSE "initialized",
                   id |-> initialize_id])
  /\ UNCHANGED <<version, marked, in_project, pending>>

(* _retarget, then what each method lets through: locations and edits of the
   browser's document only; a completion's data as it is *)
Retargeted(uri) == IF in_project /\ uri = Tile THEN Doc ELSE uri
Passed(method, uri) ==
  IF method = "definition" THEN {Retargeted(uri)} \cap {Doc}
  ELSE {Retargeted(uri)}

(* [mutant] the id stays in flight after its answer *)
ResponseKept ==
  /\ ChildSays({"initialized", "result", "error"})
  /\ ~(state = "initialize-sent" /\ Head(fromChild).id = initialize_id)
  /\ LET answer == Head(fromChild) IN
       IF answer.id \notin Outstanding THEN Blame
       ELSE /\ Deliver(
                 IF answer.k = "error" THEN [k |-> "error", id |-> answer.id]
                 ELSE [k |-> "result", id |-> answer.id,
                       uris |-> Passed(pending[answer.id], answer.uri)])
            /\ UNCHANGED protocol

Response ==
  /\ ChildSays({"initialized", "result", "error"})
  /\ ~(state = "initialize-sent" /\ Head(fromChild).id = initialize_id)
  /\ LET answer == Head(fromChild) IN
       IF answer.id \notin Outstanding THEN Blame
       ELSE /\ pending' = [pending EXCEPT ![answer.id] = Idle]
            /\ Deliver(
                 IF answer.k = "error" THEN [k |-> "error", id |-> answer.id]
                 ELSE [k |-> "result", id |-> answer.id,
                       uris |-> Passed(pending[answer.id], answer.uri)])
            /\ UNCHANGED <<state, initialize_id, version, marked, in_project>>

(* Any other notification or request, and anything that is no message *)
Unexpected == ChildSays({"bye", "other"}) /\ Blame

(* The child's output, or the child, ended while the session ran. *)
ChildGone ==
  /\ ended = 0
  /\ UNCHANGED <<message_count, toChild, fromChild, stdin_closed>>
  /\ Blame

-----------------------------------------------------------------------------
(* The end: deadlines and the browser's close, and the child's stop *)

TimeUp ==
  /\ ended = 0
  /\ UNCHANGED <<message_count, fromChild, stdin_closed>>
  /\ \/ Close(1001)    \* idle, lifetime, heartbeat
     \/ state # "open" /\ Close(1001)    \* setup_deadline
     \/ Close(1000)    \* the browser closed

(* [mutant] only a child that was initialized is stopped *)
StopChildInitialized ==
  /\ ended # 0 /\ ~stdin_closed
  /\ state \in {"initialize-done", "initialized", "open"}
  /\ toChild' = toChild \o <<[k |-> "shutdown", id |-> NoId], [k |-> "exit"]>>
  /\ stdin_closed' = TRUE
  /\ UNCHANGED <<protocol, message_count, fromChild, toClient, ended>>

StopChild ==
  /\ ended # 0 /\ ~stdin_closed
  /\ toChild' = IF state \in {"initialize-done", "initialized", "open"}
       THEN toChild \o <<[k |-> "shutdown", id |-> NoId], [k |-> "exit"]>>
       ELSE toChild
  /\ stdin_closed' = TRUE
  /\ UNCHANGED <<protocol, message_count, fromChild, toClient, ended>>

FromClient ==
  \/ Invalid \/ TooManyMessages
  \/ \E id \in Ids \cup {NoId} : NotOffered(id)
  \/ \E id \in Ids : Initialize(id)
  \/ Initialized
  \/ \E ver \in Versions, tile \in BOOLEAN :
       DidOpen(ver, tile) \/ DidChange(ver, tile)
  \/ \E id \in Ids, method \in Methods :
       \/ Request(id, method, Doc)
       \/ method = "resolve" /\ Request(id, method, Tile)

FromChild == Publish \/ InitializeAnswer \/ Response \/ Unexpected
=============================================================================
