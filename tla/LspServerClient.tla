-------------------------- MODULE LspServerClient ---------------------------
(***************************************************************************)
(* LspServer with a client that may write any mixture of messages at any   *)
(* time, and the properties of the read loop.  The client is the editor    *)
(* or the Playground's gateway: not this program's code.                   *)
(***************************************************************************)
EXTENDS LspServer

CONSTANTS
  Ids,       \* request ids; each is used once
  Profiles,  \* the clients there may be: the documents each uses (uris), the
             \* kinds of message it writes (kinds), the classes of request it
             \* makes (classes, see msg_class)
  MaxSends   \* how many messages it writes

ASSUME SendsAssumption == MaxSends \in Nat

VARIABLES
  sends,     \* how many it has written
  version,   \* the version of its last sync
  latest,    \* latest[u]: the version of the text of u it sent last
  profile    \* which of the clients this one is; never changed

clientVars == <<sends, version, latest, profile>>
allVars == <<vars, clientVars>>

Write(msg) ==
  /\ serving /\ ~closed
  /\ sends < MaxSends
  /\ msg.k \in profile.kinds
  /\ sends' = sends + 1
  /\ stdin' = Append(stdin, msg)
  /\ UNCHANGED <<closed, stdout, lifecycle, docs, ready, problems, pending, inbox,
                 reading, cancelled, unflushed, working, serving, profile>>

WriteSync(u) ==
  /\ u \in profile.uris
  /\ Write([k |-> "sync", uri |-> u, ver |-> version + 1])
  /\ version' = version + 1
  /\ latest' = [latest EXCEPT ![u] = version + 1]

WriteClose(u) ==
  /\ latest[u] # NoVersion
  /\ Write([k |-> "didClose", uri |-> u])
  /\ latest' = [latest EXCEPT ![u] = NoVersion]
  /\ UNCHANGED version

WriteSave(u) ==
  /\ u \in profile.uris \cup {Manifest}
  /\ Write([k |-> "didSave", uri |-> u])
  /\ UNCHANGED <<version, latest>>

(* Every message written is still in stdin or the inbox, or was handled. *)
Asked == {stdin[i].id : i \in {i \in DOMAIN stdin : HasId(stdin[i])}}
           \cup {inbox[i].id : i \in {i \in DOMAIN inbox : HasId(inbox[i])}}
Responses == SelectSeq(stdout, LAMBDA f : f.k # "publish")
Responded == {Responses[i].id : i \in DOMAIN Responses}
Fresh == LET free == Ids \ (Asked \cup Responded)
         IN  {id \in free : \A other \in free : id <= other}

WriteRequest(u, class) ==
  /\ u \in profile.uris /\ class \in profile.classes
  /\ \E id \in Fresh :
       Write([k |-> "request", id |-> id, class |-> class, uri |-> u,
              about |-> latest[u]])
  /\ UNCHANGED <<version, latest>>

(* `initialize` comes first; everything else may come whenever. *)
WriteOther ==
  /\ \/ \E id \in Fresh, kind \in {"initialize", "shutdown"} :
          Write([k |-> kind, id |-> id])
     \/ \E id \in Ids : Write([k |-> "cancel", id |-> id])
     \/ \E kind \in {"initialized", "exit", "malformed", "fatal"} :
          Write([k |-> kind])
  /\ UNCHANGED <<version, latest>>

CloseStdin ==
  /\ "eof" \in profile.kinds
  /\ ~closed
  /\ closed' = TRUE
  /\ UNCHANGED <<stdin, stdout, lifecycle, docs, ready, problems, pending, inbox,
                 reading, cancelled, unflushed, working, serving, clientVars>>

Server == Next /\ UNCHANGED clientVars

ClientNext ==
  \/ \E u \in Uris : WriteSync(u) \/ WriteClose(u)
  \/ \E u \in Uris, class \in RequestClasses : WriteRequest(u, class)
  \/ \E u \in Uris \cup {Manifest} : WriteSave(u)
  \/ WriteOther \/ CloseStdin
  \/ Server

(* A client whose kinds include "initialize" does that itself; any other is
   one that has completed it and has read the answer. *)
ClientInit ==
  /\ profile \in Profiles
  /\ IF "initialize" \in profile.kinds
       THEN Init
       ELSE Started("Running", <<[k |-> "initialized", id |-> NoId]>>)
  /\ sends = 0 /\ version = NoVersion
  /\ latest = [u \in Uris |-> NoVersion]

(* The process is scheduled: nothing else is assumed. *)
ClientSpec == ClientInit /\ [][ClientNext]_allVars /\ WF_allVars(Server)

-----------------------------------------------------------------------------
(* Properties *)

Frames == {"sync", "didClose", "didSave", "request", "cancel", "initialize",
           "initialized", "shutdown", "exit", "malformed", "fatal", "eof"}

TypeOK ==
  /\ profile \in Profiles
  /\ lifecycle \in {"PreInit", "Running", "Shutdown"}
  /\ docs \in [Uris -> 0..MaxSends]
  /\ ready \in BOOLEAN /\ problems \subseteq {Package, Manifest}
  /\ Members(docs) = {} => ~ready /\ problems = {}
  /\ Members(docs) # {} /\ ~ready => problems = {Manifest}
  /\ pending # NoSync => (pending.uri \in Uris /\ pending.ver \in 1..MaxSends)
  /\ \A i \in DOMAIN inbox : inbox[i].k \in Frames
  /\ cancelled \subseteq Ids
  /\ working \/ inbox = <<>> \/ ~serving

(* The client says nothing of documents before `initialize` is answered: the
   server would ignore it. *)
Orderly == "initialize" \notin profile.kinds

(* "what keeps a hover or a rename answering the text it was asked about":
   an answer is about the text its client had sent last when it asked,
   never an older analysis and never a text queued behind the request. *)
AnswersTheTextAsked ==
  \A i \in DOMAIN stdout :
    Orderly /\ stdout[i].k = "result" => stdout[i].of = stdout[i].about

(* The versions published for a document never go back, whichever member of
   its project was analysed and whatever was deferred in between. *)
PublishesAdvance ==
  \A i, j \in DOMAIN stdout :
    (/\ i < j
     /\ stdout[i].k = "publish" /\ stdout[j].k = "publish"
     /\ stdout[i].uri = stdout[j].uri
     /\ stdout[i].ver # NoVersion /\ stdout[j].ver # NoVersion)
       => stdout[i].ver <= stdout[j].ver

(* What a client shows for a file nobody has open, a package's or the
   manifest, is what the last analysis or set-up found there: no problem
   outlives the workspace, or the failed refresh, that reported it. *)
NothingLeftShowing ==
  serving /\ lifecycle = "Running" =>
    \A i \in DOMAIN stdout :
      (/\ stdout[i].k = "publish" /\ stdout[i].uri \in {Package, Manifest}
       /\ \A j \in i + 1 .. Len(stdout) :
            stdout[j].k = "publish" => stdout[j].uri # stdout[i].uri)
        => stdout[i].bad = (stdout[i].uri \in problems)

(* "it reads every frame already waiting before it acts on one, so no request
   makes it analyse a text that a sync behind that request replaces": only a
   message that needs the analysis may spend one on such a text. *)
NoReplacedAnalysis ==
  [][\A u \in Uris :
       (/\ docs'[u] # docs[u] /\ docs'[u] # NoVersion
        /\ \E frame \in Range(inbox \o stdin) : frame.k = "sync" /\ frame.uri = u)
         => /\ inbox # <<>>
            /\ \/ ReadsAnalysis(Head(inbox))
               \/ Head(inbox).k = "malformed"
               \/ Head(inbox).k = "sync" /\ Head(inbox).uri # u]_allVars

(* Documents are published and read only inside the session: nothing before
   the answer to `initialize`, and nothing after the answer to `shutdown`,
   when the oracle an analysis needs is gone, not even a deferred text. *)
QuietOutsideSession ==
  \A i \in DOMAIN stdout :
    stdout[i].k \in {"publish", "result"} =>
      /\ \E j \in 1 .. i - 1 : stdout[j].k = "initialized"
      /\ \A j \in 1 .. i - 1 : stdout[j].k # "bye"

(* Every request is answered while the server runs. *)
Answered == \A id \in Ids : id \in Asked ~> (id \in Responded \/ ~serving)

(* Once the client pauses, every document it has open has been analysed in
   its newest text, whatever the debounce and the batches did. *)
NewestAnalysed ==
  Orderly => <>[](serving /\ lifecycle = "Running" => docs = latest)

(* A client that goes away ends the server, a pending sync or not. *)
EndsWithInput == closed ~> ~serving
=============================================================================
