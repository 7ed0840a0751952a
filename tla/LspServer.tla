----------------------------- MODULE LspServer ------------------------------
(***************************************************************************)
(* The read loop of `dawn lsp` (selfhost/src/lsp/server.dawn, run_lsp):    *)
(* one sequential process that reads frames from stdin, debounces document *)
(* syncs, reads everything that has already arrived before it acts on the  *)
(* next message, honours $/cancelRequest for a request still waiting, and  *)
(* answers every request in order.                                         *)
(*                                                                         *)
(* A text is named by the version of the sync that carried it, so "which   *)
(* text an answer is about" is a number.  What an analysis says of a text  *)
(* is not modelled, only which text was analysed and for which URIs a      *)
(* publish follows.                                                        *)
(***************************************************************************)
EXTENDS Integers, Sequences, FiniteSets, SequencesExt

CONSTANTS
  Uris,      \* the documents a client may open
  Project,   \* those of them that are members of a project workspace
  Package,   \* a file of a package that project uses, never opened
  Manifest   \* the project's manifest, never opened

ASSUME UrisAssumption == /\ IsFiniteSet(Uris) /\ Project \subseteq Uris
                         /\ Package \notin Uris /\ Manifest \notin Uris

VARIABLES
  stdin,     \* frames written by the client and not yet read
  closed,    \* the client has closed its end of stdin
  stdout,    \* frames written and not yet read by the client
  lifecycle, \* LspState.lifecycle
  docs,      \* LspState.docs: the version analysed of each open document
  ready,     \* the project's workspace is Ready: its setup worked
  problems,  \* the files never opened that have diagnostics in its slot
  pending,   \* the sync whose analysis has not run yet
  inbox,     \* frames read and not yet handled (inbox from `at` on)
  reading,   \* the loop may go on reading frames
  cancelled, \* the ids that a $/cancelRequest read ahead names
  unflushed, \* answered_unflushed
  working,   \* the loop is inside a batch
  serving    \* the process runs

vars == <<stdin, closed, stdout, lifecycle, docs, ready, problems, pending, inbox,
          reading, cancelled, unflushed, working, serving>>

NoVersion == 0     \* a publish or a document without a version
NoSync == [uri |-> Package, ver |-> NoVersion]

(* A server in a stage of its life that has said so far what is in said *)
Started(stage, said) ==
  /\ stdin = <<>> /\ closed = FALSE /\ stdout = said
  /\ lifecycle = stage
  /\ docs = [u \in Uris |-> NoVersion]
  /\ ready = FALSE /\ problems = {}
  /\ pending = NoSync
  /\ inbox = <<>> /\ reading = TRUE /\ cancelled = {}
  /\ unflushed = FALSE /\ working = FALSE /\ serving = TRUE

Init == Started("PreInit", <<>>)

-----------------------------------------------------------------------------
(* Documents.  A state of the documents is a record, so that one message can
   flush the pending sync and then act on the result. *)

World == [docs |-> docs, ready |-> ready, problems |-> problems, out |-> <<>>]

Members(d) == {u \in Project : d[u] # NoVersion}

(* publish_one: the version goes with the publish of an open document only,
   and the list of any other file is empty unless it has problems *)
Publish(w, uri) ==
  [k |-> "publish", uri |-> uri,
   ver |-> IF uri \in Uris THEN w.docs[uri] ELSE NoVersion,
   bad |-> uri \in w.problems]

(* publish_uris *)
PublishUris(w, uris) ==
  [w EXCEPT !.out = @ \o SetToSeq({Publish(w, uri) : uri \in uris})]

(* slot_uris: every member of the workspace, and what has diagnostics in it *)
SlotUris(w) == Members(w.docs) \cup w.problems

(* install_workspace: what the slot named before and what it names now is
   published *)
Install(before, next) == PublishUris(next, SlotUris(before) \cup SlotUris(next))

(* rebuild_workspace: the members are analysed as one program, and whether
   the package file has problems then is the analysis's business.  What is
   wrong with the manifest stays; an unavailable workspace has that alone. *)
Rebuilt(w) ==
  IF w.ready
    THEN {[w EXCEPT !.problems = (@ \cap {Manifest}) \cup found] :
            found \in SUBSET {Package}}
    ELSE {[w EXCEPT !.problems = {Manifest}]}

(* activate_workspace: the project is set up and rebuilt, or unavailable *)
Activated(w) ==
  UNION {Rebuilt([w EXCEPT !.ready = works, !.problems = {}]) : works \in BOOLEAN}

(* update_doc: analyse the text and publish.  A project is analysed as one;
   a member that joins has an unavailable one set up again. *)
Analysed(w, sync) ==
  LET next == [w EXCEPT !.docs[sync.uri] = sync.ver] IN
    IF sync.uri \in Project
      THEN {Install(w, n) : n \in IF w.ready \/ w.docs[sync.uri] # NoVersion
                                    THEN Rebuilt(next) ELSE Activated(next)}
      ELSE {PublishUris(next, {sync.uri})}

(* flush *)
Flush(w) == IF pending = NoSync THEN {w} ELSE Analysed(w, pending)

(* A project without members has no workspace. *)
Without(w, uri) ==
  LET next == [w EXCEPT !.docs[uri] = NoVersion] IN
    IF Members(next.docs) = {} THEN {[next EXCEPT !.ready = FALSE, !.problems = {}]}
    ELSE Rebuilt(next)

(* [mutant] only the closed document is published *)
CloseDocOnly(w, uri) ==
  IF uri \in Members(w.docs)
    THEN {PublishUris(n, {uri}) : n \in Without(w, uri)}
    ELSE {PublishUris([w EXCEPT !.docs[uri] = NoVersion], {uri})}

(* close_doc: the document is dropped, with the last member the workspace
   too; what was published for them is published again, or cleared. *)
CloseDoc(w, uri) ==
  IF uri \in Members(w.docs)
    THEN {PublishUris(n, {uri} \cup SlotUris(w) \cup SlotUris(n)) : n \in Without(w, uri)}
    ELSE {PublishUris([w EXCEPT !.docs[uri] = NoVersion], {uri})}

(* refresh_workspace: the project is planned and set up again.  If that fails
   a ready workspace goes on as it was, with the failure at its manifest. *)
Refresh(w) ==
  LET failed == IF w.ready THEN Rebuilt([w EXCEPT !.problems = {Manifest}])
                ELSE {[w EXCEPT !.problems = {Manifest}]}
  IN  IF Members(w.docs) = {} THEN {w}
      ELSE {Install(w, n) : n \in {n \in Activated(w) : n.ready} \cup failed}

(* retry_unavailable: a member's save has its project set up again. *)
Retry(w, uri) ==
  IF uri \in Members(w.docs) /\ ~w.ready
    THEN {Install(w, n) : n \in Activated(w)} ELSE {w}

Answer(w, request, ver) ==
  [w EXCEPT !.out = Append(@, [k |-> "result", id |-> request.id,
                               uri |-> request.uri,
                               about |-> request.about, of |-> ver])]

Refuse(w, id) == [w EXCEPT !.out = Append(@, [k |-> "error", id |-> id])]

NoId == 0         \* no id, or the null one

(* What the client may see of a step: the documents, and the frames sent *)
Becomes(w) ==
  /\ docs' = w.docs
  /\ ready' = w.ready /\ problems' = w.problems
  /\ stdout' = stdout \o w.out

(* text_now: the newest text the client sent, analysed or not *)
TextNow(uri) == IF pending.uri = uri THEN pending.ver ELSE docs[uri]

-----------------------------------------------------------------------------
(* Messages and the lifecycle gate *)

HasId(msg) == msg.k \in {"request", "initialize", "shutdown"}
RequestKey(msg) == IF HasId(msg) THEN msg.id ELSE NoId

(* LgActivate, LgDispatch, LgBeginShutdown, LgReject, LgIgnore, LgExit *)
Gate(msg) ==
  CASE msg.k = "exit" -> "exit"
    [] lifecycle = "PreInit" /\ msg.k = "initialize" -> "activate"
    [] lifecycle = "Running" /\ msg.k = "shutdown" -> "shutdown"
    [] lifecycle = "Running" /\ msg.k # "initialize" -> "dispatch"
    [] OTHER -> IF HasId(msg) THEN "reject" ELSE "ignore"

(* The requests a $/cancelRequest names, while they wait in the inbox *)
CancelTarget(msg) ==
  IF msg.k = "cancel" /\ \E i \in DOMAIN inbox : RequestKey(inbox[i]) = msg.id
    THEN {msg.id} ELSE {}

RequestClasses == {"TextOnly", "Analysed", "Inert"}

(* How the next message uses the pending sync (update_of, msg_class).  The
   read loop asks only of messages that passed the gate. *)
IsCancelled(msg) == HasId(msg) /\ msg.id \in cancelled
ReadsAnalysis(msg) ==
  \/ msg.k \in {"didClose", "didSave"}
  \/ msg.k = "request" /\ msg.class = "Analysed" /\ ~IsCancelled(msg)

-----------------------------------------------------------------------------
(* Reading *)

Frame == IF stdin = <<>> THEN [k |-> "eof"] ELSE Head(stdin)
FrameContinues(frame) == frame.k \notin {"eof", "fatal"}

(* [mutant] the end of input is waited for like a frame *)
TakeReady ==
  /\ serving /\ ~working
  /\ stdin # <<>>
  /\ inbox' = <<Frame>>
  /\ stdin' = Tail(stdin)
  /\ reading' = FrameContinues(Frame)
  /\ cancelled' = {}
  /\ unflushed' = FALSE
  /\ working' = TRUE
  /\ UNCHANGED <<closed, stdout, lifecycle, docs, ready, problems, pending, serving>>

(* The first frame of a batch.  With nothing pending this is the blocking
   read, the only one that sees the end of input; with a sync pending it
   follows stdin_ready, which never reports the end of input. *)
Take ==
  /\ serving /\ ~working
  /\ stdin # <<>> \/ (closed /\ pending = NoSync)
  /\ inbox' = <<Frame>>
  /\ stdin' = IF stdin = <<>> THEN stdin ELSE Tail(stdin)
  /\ reading' = FrameContinues(Frame)
  /\ cancelled' = {}
  /\ unflushed' = FALSE
  /\ working' = TRUE
  /\ UNCHANGED <<closed, stdout, lifecycle, docs, ready, problems, pending, serving>>

(* The debounce window passes in silence: analyse the newest text. *)
Debounce ==
  /\ serving /\ ~working
  /\ pending # NoSync
  /\ stdin = <<>>
  /\ \E w \in Flush(World) : Becomes(w)
  /\ pending' = NoSync
  /\ UNCHANGED <<stdin, closed, lifecycle, inbox, reading, cancelled,
                 unflushed, working, serving>>

(* Inside a batch, every frame that has arrived is read before the next
   message is acted on. *)
ReadAhead ==
  /\ serving /\ working /\ reading
  /\ stdin # <<>>
  /\ cancelled' = cancelled \cup CancelTarget(Frame)
  /\ inbox' = Append(inbox, Frame)
  /\ stdin' = Tail(stdin)
  /\ reading' = FrameContinues(Frame)
  /\ UNCHANGED <<closed, stdout, lifecycle, docs, ready, problems, pending,
                 unflushed, working, serving>>

(* [mutant] frames are handled one by one *)
AllReadAlways == TRUE

(* The next message is handled knowing what waits behind it. *)
AllRead == reading => stdin = <<>>
NothingToRead == serving /\ working /\ inbox # <<>> /\ AllRead

(* [mutant] the sync a request was answered ahead of is dropped *)
BatchOverForgets ==
  /\ serving /\ working
  /\ inbox = <<>>
  /\ stdin = <<>>
  /\ working' = FALSE
  /\ pending' = IF unflushed THEN NoSync ELSE pending
  /\ UNCHANGED <<stdin, closed, stdout, lifecycle, docs, ready, problems, inbox,
                 reading, cancelled, unflushed, serving>>

(* The batch is over; a sync that a request was answered ahead of has waited
   long enough and is analysed without a further window. *)
BatchOver ==
  /\ serving /\ working
  /\ inbox = <<>>
  /\ AllRead
  /\ working' = FALSE
  /\ IF unflushed
       THEN (\E w \in Flush(World) : Becomes(w)) /\ pending' = NoSync
       ELSE UNCHANGED <<docs, ready, problems, stdout, pending>>
  /\ UNCHANGED <<stdin, closed, lifecycle, inbox, reading, cancelled,
                 unflushed, serving>>

-----------------------------------------------------------------------------
(* Handling the message at the head of the inbox *)

Handling(kinds) ==
  /\ NothingToRead
  /\ Head(inbox).k \in kinds
  /\ inbox' = Tail(inbox)
  /\ UNCHANGED <<stdin, closed, reading, working>>

Dispatching == Gate(Head(inbox)) = "dispatch"

(* [mutant] of two texts of a document the newer is analysed first *)
SyncKeepsOldest ==
  /\ Handling({"sync"})
  /\ Dispatching
  /\ LET sync == [uri |-> Head(inbox).uri, ver |-> Head(inbox).ver] IN
       IF pending = NoSync
         THEN pending' = sync /\ UNCHANGED <<docs, ready, problems, stdout>>
         ELSE /\ \E w \in Analysed(World, sync) : Becomes(w)
              /\ UNCHANGED pending
  /\ unflushed' = FALSE
  /\ UNCHANGED <<lifecycle, cancelled, serving>>

(* A didOpen or didChange replaces the pending text of its document; a sync
   of another document has the one waiting analysed first. *)
Sync ==
  /\ Handling({"sync"})
  /\ Dispatching
  /\ LET sync == [uri |-> Head(inbox).uri, ver |-> Head(inbox).ver] IN
       /\ pending' = sync
       /\ IF pending # NoSync /\ pending.uri # sync.uri
            THEN \E w \in Flush(World) : Becomes(w)
            ELSE UNCHANGED <<docs, ready, problems, stdout>>
  /\ unflushed' = FALSE
  /\ UNCHANGED <<lifecycle, cancelled, serving>>

(* [mutant] a cancelled request is dropped *)
CancelledSilently ==
  /\ Handling({"request"})
  /\ Dispatching
  /\ IsCancelled(Head(inbox))
  /\ cancelled' = cancelled \ {Head(inbox).id}
  /\ unflushed' = TRUE
  /\ UNCHANGED <<stdout, lifecycle, docs, ready, problems, pending, serving>>

(* A request that was cancelled before it was started *)
Cancelled ==
  /\ Handling({"request"})
  /\ Dispatching
  /\ IsCancelled(Head(inbox))
  /\ cancelled' = cancelled \ {Head(inbox).id}
  /\ Becomes(Refuse(World, Head(inbox).id))
  /\ unflushed' = TRUE
  /\ UNCHANGED <<lifecycle, pending, serving>>

(* A request that reads the text alone is answered from the newest text and
   leaves its analysis for later; one that reads nothing is answered too. *)
ReadText ==
  /\ Handling({"request"})
  /\ Dispatching
  /\ ~IsCancelled(Head(inbox))
  /\ LET msg == Head(inbox) IN
       \/ /\ msg.class = "TextOnly"
          /\ Becomes(Answer(World, msg, TextNow(msg.uri)))
       \/ /\ msg.class = "Inert"
          /\ Becomes(Refuse(World, msg.id))
  /\ unflushed' = TRUE
  /\ UNCHANGED <<lifecycle, pending, cancelled, serving>>

(* [mutant] a request is answered from the previous analysis *)
ReadAnalysisStale ==
  /\ Handling({"request"})
  /\ Dispatching
  /\ ReadsAnalysis(Head(inbox))
  /\ Becomes(Answer(World, Head(inbox), docs[Head(inbox).uri]))
  /\ unflushed' = FALSE
  /\ UNCHANGED <<lifecycle, pending, cancelled, serving>>

(* A request that reads the analysis has the pending text analysed first. *)
ReadAnalysis ==
  /\ Handling({"request"})
  /\ Dispatching
  /\ ReadsAnalysis(Head(inbox))
  /\ \E w \in Flush(World) :
       Becomes(Answer(w, Head(inbox), w.docs[Head(inbox).uri]))
  /\ pending' = NoSync
  /\ unflushed' = FALSE
  /\ UNCHANGED <<lifecycle, cancelled, serving>>

DidClose ==
  /\ Handling({"didClose"})
  /\ Dispatching
  /\ \E w \in Flush(World) :
       \E next \in CloseDoc(w, Head(inbox).uri) : Becomes(next)
  /\ pending' = NoSync
  /\ unflushed' = FALSE
  /\ UNCHANGED <<lifecycle, cancelled, serving>>

(* A save of the manifest, which a watched-file notification reports as well,
   and a save of a document *)
DidSave ==
  /\ Handling({"didSave"})
  /\ Dispatching
  /\ \E w \in Flush(World) :
       LET uri == Head(inbox).uri IN
         \E next \in IF uri = Manifest THEN Refresh(w) ELSE Retry(w, uri) : Becomes(next)
  /\ pending' = NoSync
  /\ unflushed' = FALSE
  /\ UNCHANGED <<lifecycle, cancelled, serving>>

(* A notification that reads and writes nothing about a document *)
Inert ==
  /\ Handling({"cancel", "initialized"})
  /\ Dispatching
  /\ unflushed' = FALSE
  /\ UNCHANGED <<stdout, lifecycle, docs, ready, problems, pending, cancelled, serving>>

Initialize ==
  /\ Handling({"initialize"})
  /\ Gate(Head(inbox)) = "activate"
  /\ lifecycle' = "Running"
  /\ stdout' = Append(stdout, [k |-> "initialized", id |-> Head(inbox).id])
  /\ unflushed' = FALSE
  /\ UNCHANGED <<docs, ready, problems, pending, cancelled, serving>>

(* shutdown: the pending text is dropped and every document released *)
BeginShutdown ==
  /\ Handling({"shutdown"})
  /\ Gate(Head(inbox)) = "shutdown"
  /\ lifecycle' = "Shutdown"
  /\ stdout' = Append(stdout, [k |-> "bye", id |-> Head(inbox).id])
  /\ docs' = [u \in Uris |-> NoVersion]
  /\ ready' = FALSE /\ problems' = {}
  /\ pending' = NoSync
  /\ unflushed' = FALSE
  /\ UNCHANGED <<cancelled, serving>>

(* What the gate refuses or ignores *)
OutOfTurn ==
  /\ Handling({"sync", "didClose", "didSave", "request", "cancel", "initialize",
               "initialized", "shutdown"})
  /\ \/ Gate(Head(inbox)) = "reject" /\ Becomes(Refuse(World, Head(inbox).id))
     \/ Gate(Head(inbox)) = "ignore" /\ UNCHANGED <<stdout, docs, ready, problems>>
  /\ unflushed' = FALSE
  /\ UNCHANGED <<lifecycle, pending, cancelled, serving>>

(* A body that is no JSON: the frame boundary is known, the loop goes on *)
Malformed ==
  /\ Handling({"malformed"})
  /\ \E w \in Flush(World) : Becomes(Refuse(w, NoId))
  /\ pending' = NoSync
  /\ unflushed' = FALSE
  /\ UNCHANGED <<lifecycle, cancelled, serving>>

(* The end of input, an exit, and a frame with no known boundary *)
Stop ==
  /\ Handling({"eof", "exit", "fatal"})
  /\ stdout' = IF Head(inbox).k = "fatal"
                 THEN Append(stdout, [k |-> "error", id |-> NoId]) ELSE stdout
  /\ pending' = NoSync
  /\ serving' = FALSE
  /\ docs' = [u \in Uris |-> NoVersion]
  /\ ready' = FALSE /\ problems' = {}
  /\ unflushed' = FALSE
  /\ UNCHANGED <<lifecycle, cancelled>>

Next ==
  \/ Take \/ Debounce \/ ReadAhead \/ BatchOver
  \/ Sync \/ Cancelled \/ ReadText \/ ReadAnalysis \/ DidClose \/ DidSave \/ Inert
  \/ Initialize \/ BeginShutdown \/ OutOfTurn \/ Malformed \/ Stop

=============================================================================
