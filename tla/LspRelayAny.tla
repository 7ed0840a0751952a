---------------------------- MODULE LspRelayAny -----------------------------
(***************************************************************************)
(* LspRelay between a browser and a child that may both write anything: a  *)
(* generic LSP client that knows nothing of the allow-list, and a server   *)
(* that answers what it was not asked.  toChild and toClient are not read  *)
(* here, so they record everything the session wrote.                      *)
(***************************************************************************)
EXTENDS LspRelay

CONSTANTS
  ChildFrames,   \* what the child may write
  MaxFrames      \* it writes nothing once so many messages reached the browser

(* The child writes a frame; one waits to be read at a time. *)
ChildWrites ==
  /\ ended = 0 /\ fromChild = <<>>
  /\ Len(toClient) < MaxFrames
  /\ \E frame \in ChildFrames : fromChild' = <<frame>>
  /\ UNCHANGED <<protocol, message_count, toChild, toClient, ended, stdin_closed>>

AnyNext == FromClient \/ FromChild \/ ChildGone \/ TimeUp \/ StopChild \/ ChildWrites

AnySpec == RelayInit /\ [][AnyNext]_relayVars

-----------------------------------------------------------------------------
TypeOK ==
  /\ state \in {"new", "initialize-sent", "initialize-failed",
                "initialize-done", "initialized", "open"}
  /\ initialize_id \in Ids \cup {NoId}
  /\ initialize_id # NoId <=> state = "initialize-sent"
  /\ version \in Int /\ marked \in BOOLEAN /\ in_project \in BOOLEAN
  /\ pending \in [Ids -> Methods \cup {Idle}]
  /\ Cardinality(Outstanding) <= MaxPending
  /\ message_count \in 0..MaxMessages
  /\ ended \in {0, 1000, 1001, 1008, 1011}
  /\ stdin_closed \in BOOLEAN

(* The documents open for the child when it reads frame i *)
Opens(frame) == frame.k = "sync" /\ frame.open
Closes(frame, uri) == frame.k = "didClose" /\ frame.uri = uri
OpenAt(i) ==
  {uri \in {Doc, Tile} :
     \E j \in 1 .. i - 1 :
       /\ Opens(toChild[j]) /\ toChild[j].uri = uri
       /\ \A n \in j + 1 .. i - 1 : ~Closes(toChild[n], uri)}

(* Whatever the browser writes, the child sees a legal LSP session with at
   most one document open: it is opened when none is, changed, closed and
   asked about only while it is the one that is open, in versions that only
   rise (its diagnostics are paired to a text by nothing else).  This is what
   the switch between the two documents the buffer may be has to keep. *)
LegalSession ==
  \A i \in DOMAIN toChild :
    LET frame == toChild[i] IN
      /\ Opens(frame) => OpenAt(i) = {}
      /\ (frame.k = "sync" /\ ~frame.open) => OpenAt(i) = {frame.uri}
      /\ frame.k \in {"didClose", "request"} => OpenAt(i) = {frame.uri}
      /\ \A j \in 1 .. i - 1 : frame.k = "sync" /\ toChild[j].k = "sync"
                                => toChild[j].ver < frame.ver

(* Every answer the browser gets is one the child owed it: as many answers
   to an id as requests under it, less the one still in flight, although ids
   may be used again and the child answers what it likes; and the child never
   owes more than the budget. *)
Asked(id) == Cardinality({i \in DOMAIN toChild :
  toChild[i].k \in {"initialize", "request"} /\ toChild[i].id = id})
Answered(id) == Cardinality({i \in DOMAIN toClient :
  toClient[i].k \in {"initialized", "result", "error"} /\ toClient[i].id = id})
InFlight(id) == pending[id] # Idle \/ initialize_id = id

AnswersBalance ==
  /\ \A id \in Ids : Asked(id) = Answered(id) + (IF InFlight(id) THEN 1 ELSE 0)
  /\ Cardinality({id \in Ids : pending[id] # Idle}) <= MaxPending
=============================================================================
