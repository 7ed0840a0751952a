----------------------------- MODULE LspGateway -----------------------------
(***************************************************************************)
(* Admission, session life cycle and shutdown of the language-service      *)
(* gateway: Gateway.connection, Gateway.serve, Session.run and             *)
(* Session.graceful_child_stop of playground/lsp_gateway.py.               *)
(*                                                                         *)
(* The gateway is one asyncio event loop, so everything a task does        *)
(* between two awaits is one step.  pc[c] names the await at which the     *)
(* task of connection c is parked; every await is a place where serve()    *)
(* may throw a CancelledError into the task, which Deliver models.  What   *)
(* passes over the socket is left to LspRelay: here a running session is   *)
(* one state, left by End for any of the reasons Session.run waits for.    *)
(*                                                                         *)
(* A task may end before its transport does: when the close of the writer  *)
(* times out because the client does not read what was sent, the socket    *)
(* stays open without a task.  Such a connection is lingering, and only    *)
(* its client can end it.                                                  *)
(***************************************************************************)
EXTENDS Integers, FiniteSets

CONSTANTS
  Conns,          \* names of client connections; a name is used again
  MaxSessions,    \* Config.max_sessions
  MaxHandshakes   \* HARD_HANDSHAKES

ASSUME GatewayAssumption ==
  /\ IsFiniteSet(Conns)
  /\ MaxSessions \in Nat \ {0}
  /\ MaxHandshakes \in Nat \ {0}

VARIABLES
  pc,           \* pc[c]: the await the task of connection c is parked at
  active,       \* Gateway.active
  handshakes,   \* Gateway.handshakes
  tasks,        \* Gateway.connection_tasks
  admitted,     \* the connections whose local flag `admitted` is true
  handshaking,  \* the connections whose local flag `handshaking` is true
  child,        \* child[c]: the language server of c's session
  cancel,       \* the connections whose task has a cancellation pending
  server,       \* how far Gateway.serve has come
  batch,        \* the tasks that serve() is gathering
  lingering,    \* the connections without a task whose transport is open
  sandboxed     \* not Config.unsafe_local: given at start, never changed

vars == <<pc, active, handshakes, tasks, admitted, handshaking, child,
          cancel, server, batch, lingering, sandboxed>>

counters == <<active, handshakes, admitted, handshaking>>
shutdown == <<server, batch, lingering, sandboxed>>

(* The awaits of Gateway.connection before the session ... *)
Handshake == {"refusing", "upgrading", "accepting"}
(* ... and those of Session.run's `finally`, the child's stop included. *)
Cleanup == {"gathering", "closing", "asking", "waiting", "stopping",
            "terminating", "killing", "held"}
Places == {"idle", "accepted", "starting", "running", "leaving"}
            \cup Handshake \cup Cleanup

ServerStates == {"serving", "signalled", "draining", "waitclosed", "stopped"}

TypeOK ==
  /\ pc \in [Conns -> Places]
  /\ active \in 0..MaxSessions
  /\ handshakes \in 0..MaxHandshakes
  /\ tasks \in SUBSET Conns
  /\ admitted \in SUBSET Conns
  /\ handshaking \in SUBSET Conns
  /\ child \in [Conns -> {"none", "alive", "dead"}]
  /\ cancel \in SUBSET Conns
  /\ server \in ServerStates
  /\ batch \in SUBSET Conns
  /\ lingering \in SUBSET Conns
  /\ sandboxed \in BOOLEAN

Init ==
  /\ pc = [c \in Conns |-> "idle"]
  /\ active = 0
  /\ handshakes = 0
  /\ tasks = {}
  /\ admitted = {}
  /\ handshaking = {}
  /\ child = [c \in Conns |-> "none"]
  /\ cancel = {}
  /\ server = "serving"
  /\ batch = {}
  /\ lingering = {}
  /\ sandboxed \in BOOLEAN

-----------------------------------------------------------------------------
(* Steps of a connection's task *)

(* The task of c is parked at p and nobody has cancelled it. *)
At(c, p) == pc[c] = p /\ c \notin cancel

Goto(c, p) == pc' = [pc EXCEPT ![c] = p]

(* [mutant] the 503 for a busy gateway forgets that it is a handshake *)
FinishOnlyAdmitted(c) ==
  /\ UNCHANGED <<handshakes, handshaking>>
  /\ active' = IF c \in admitted THEN active - 1 ELSE active
  /\ admitted' = admitted \ {c}
  /\ Goto(c, "leaving")

(* The synchronous part of connection's `finally`: give back what is held,
   then await the writer's close. *)
Finish(c) ==
  /\ handshakes' = IF c \in handshaking THEN handshakes - 1 ELSE handshakes
  /\ handshaking' = handshaking \ {c}
  /\ active' = IF c \in admitted THEN active - 1 ELSE active
  /\ admitted' = admitted \ {c}
  /\ Goto(c, "leaving")

(* The listener accepts a connection.  Its task exists from now on but has
   not run its first step, which is what puts it in connection_tasks. *)
Connect(c) ==
  /\ pc[c] = "idle"
  /\ c \notin lingering
  /\ child[c] # "alive"
  /\ server \in {"serving", "signalled"}
  /\ Goto(c, "accepted")
  /\ child' = [child EXCEPT ![c] = "none"]
  /\ UNCHANGED <<counters, tasks, cancel, shutdown>>

(* connection, up to its first await: the handshake budget *)
Start(c) ==
  /\ At(c, "accepted")
  /\ tasks' = tasks \cup {c}
  /\ IF handshakes >= MaxHandshakes
       THEN /\ Goto(c, "refusing")
            /\ UNCHANGED <<handshakes, handshaking>>
       ELSE /\ handshakes' = handshakes + 1
            /\ handshaking' = handshaking \cup {c}
            /\ Goto(c, "upgrading")
  /\ UNCHANGED <<active, admitted, child, cancel, shutdown>>

(* [mutant] the session budget is checked with `>` *)
UpgradeOneMore(c) ==
  /\ At(c, "upgrading")
  /\ active <= MaxSessions
  /\ active' = active + 1
  /\ admitted' = admitted \cup {c}
  /\ Goto(c, "accepting")
  /\ UNCHANGED <<handshakes, handshaking, tasks, child, cancel, shutdown>>

(* read_upgrade and parse_upgrade succeed: the session budget *)
Upgrade(c) ==
  /\ At(c, "upgrading")
  /\ IF active >= MaxSessions
       THEN /\ Goto(c, "refusing")
            /\ UNCHANGED <<active, admitted>>
       ELSE /\ active' = active + 1
            /\ admitted' = admitted \cup {c}
            /\ Goto(c, "accepting")
  /\ UNCHANGED <<handshakes, handshaking, tasks, child, cancel, shutdown>>

(* A bad or late upgrade: a 400 or 403 is written ... *)
BadUpgrade(c) ==
  /\ At(c, "upgrading")
  /\ Goto(c, "refusing")
  /\ UNCHANGED <<counters, tasks, child, cancel, shutdown>>

(* ... and a reply written, a reply or a 101 that times out, or a socket
   that breaks during the handshake all end in `finally`. *)
HandshakeOver(c) ==
  /\ \E p \in Handshake : At(c, p)
  /\ Finish(c)
  /\ UNCHANGED <<tasks, child, cancel, shutdown>>

(* accept_upgrade has written the 101; Session.run begins *)
Accepted(c) ==
  /\ At(c, "accepting")
  /\ handshakes' = handshakes - 1
  /\ handshaking' = handshaking \ {c}
  /\ Goto(c, "starting")
  /\ UNCHANGED <<active, admitted, tasks, child, cancel, shutdown>>

(* start_child returns, or fails, leaving Session.proc None and no tasks *)
Spawn(c) ==
  /\ At(c, "starting")
  /\ \/ /\ child' = [child EXCEPT ![c] = "alive"]
        /\ Goto(c, "running")
     \/ /\ Goto(c, "closing")
        /\ UNCHANGED child
  /\ UNCHANGED <<counters, tasks, cancel, shutdown>>

(* One of the tasks Session.run waits for has ended: the client closed or
   broke the protocol, the child did, or a timer expired. *)
End(c) ==
  /\ At(c, "running")
  /\ Goto(c, "gathering")
  /\ UNCHANGED <<counters, tasks, child, cancel, shutdown>>

(* every task of the session is cancelled and gathered: close the WebSocket *)
Gathered(c) ==
  /\ At(c, "gathering")
  /\ Goto(c, "closing")
  /\ UNCHANGED <<counters, tasks, child, cancel, shutdown>>

(* [mutant] graceful_child_stop without its `proc is None` return *)
ClosedWaits(c) ==
  /\ At(c, "closing")
  /\ Goto(c, "waiting")
  /\ UNCHANGED <<counters, tasks, child, cancel, shutdown>>

(* The close frame is out (or its write timed out).  graceful_child_stop
   returns at once when no child was started; a child that has exited or has
   not finished `initialize` is not asked, it is waited for. *)
Closed(c) ==
  /\ At(c, "closing")
  /\ IF child[c] = "none"
       THEN Finish(c)
       ELSE /\ Goto(c, "asking") \/ Goto(c, "waiting")
            /\ UNCHANGED counters
  /\ UNCHANGED <<tasks, child, cancel, shutdown>>

(* `shutdown` and `exit` are written or time out, and stdin is closed *)
Asked(c) ==
  /\ At(c, "asking")
  /\ Goto(c, "waiting")
  /\ UNCHANGED <<counters, tasks, child, cancel, shutdown>>

(* proc.wait() answers at any stage of the escalation *)
Reaped(c) ==
  /\ \E p \in {"waiting", "terminating", "killing", "held"} : At(c, p)
  /\ child[c] = "dead"
  /\ Finish(c)
  /\ UNCHANGED <<tasks, child, cancel, shutdown>>

(* [mutant] a local child is not escalated at all *)
WaitTimeoutGivesUp(c) ==
  /\ At(c, "waiting")
  /\ Finish(c)
  /\ UNCHANGED <<tasks, child, cancel, shutdown>>

(* The escalation, one timeout at a time: the sandbox's stop command, or
   SIGTERM to the local child's group ... *)
WaitTimeout(c) ==
  /\ At(c, "waiting")
  /\ Goto(c, IF sandboxed THEN "stopping" ELSE "terminating")
  /\ UNCHANGED <<counters, tasks, child, cancel, shutdown>>

StopCommandOver(c) ==
  /\ At(c, "stopping")
  /\ Goto(c, "terminating")
  /\ UNCHANGED <<counters, tasks, child, cancel, shutdown>>

(* [mutant] a sandboxed child is given up like a local one *)
TermTimeoutGivesUp(c) ==
  /\ At(c, "terminating")
  /\ IF sandboxed THEN Finish(c) ELSE Goto(c, "killing") /\ UNCHANGED counters
  /\ UNCHANGED <<tasks, child, cancel, shutdown>>

(* [mutant] a local child is waited for after SIGTERM without a SIGKILL *)
TermTimeoutHolds(c) ==
  /\ At(c, "terminating")
  /\ Goto(c, "held")
  /\ UNCHANGED <<counters, tasks, child, cancel, shutdown>>

(* ... then hold the slot until the sandbox is gone, or SIGKILL ... *)
TermTimeout(c) ==
  /\ At(c, "terminating")
  /\ Goto(c, IF sandboxed THEN "held" ELSE "killing")
  /\ UNCHANGED <<counters, tasks, child, cancel, shutdown>>

(* ... and a local child that outlives SIGKILL is given up. *)
KillTimeout(c) ==
  /\ At(c, "killing")
  /\ Finish(c)
  /\ UNCHANGED <<tasks, child, cancel, shutdown>>

(* The wait for the writer's close is over.  The transport is closed once
   everything written has been sent; a wait that ends before that, by its
   timeout or a cancellation, leaves the transport open.  Only a session with
   a child writes more than the buffers of a socket hold. *)
WriterLeft(c) ==
  /\ Goto(c, "idle")
  /\ \/ UNCHANGED lingering
     \/ child[c] # "none" /\ lingering' = lingering \cup {c}

(* [mutant] the finished task stays in connection_tasks *)
LeaveListed(c) ==
  /\ At(c, "leaving")
  /\ WriterLeft(c)
  /\ UNCHANGED <<counters, tasks, child, cancel, server, batch, sandboxed>>

(* the writer is closed, or its close timed out: the task ends *)
Leave(c) ==
  /\ At(c, "leaving")
  /\ tasks' = tasks \ {c}
  /\ WriterLeft(c)
  /\ UNCHANGED <<counters, child, cancel, server, batch, sandboxed>>

(* A pending cancellation is thrown at c's await.  Before the session, and
   inside Session.run's `finally`, it leads straight to connection's
   `finally`; a session that was running runs its own `finally` first, and
   one that was starting its child has none to stop (asyncio kills a child
   whose creation is cancelled). *)
Deliver(c) ==
  /\ c \in cancel
  /\ cancel' = cancel \ {c}
  /\ \/ /\ pc[c] \in Handshake \cup Cleanup
        /\ Finish(c)
        /\ UNCHANGED <<tasks, lingering>>
     \/ /\ pc[c] = "starting"
        /\ Goto(c, "closing")
        /\ UNCHANGED <<counters, tasks, lingering>>
     \/ /\ pc[c] = "running"
        /\ Goto(c, "gathering")
        /\ UNCHANGED <<counters, tasks, lingering>>
     \/ /\ pc[c] = "leaving"
        /\ tasks' = tasks \ {c}
        /\ WriterLeft(c)
        /\ UNCHANGED counters
  /\ UNCHANGED <<child, server, batch, sandboxed>>

Task(c) ==
  \/ Start(c) \/ Upgrade(c) \/ BadUpgrade(c) \/ HandshakeOver(c)
  \/ Accepted(c) \/ Spawn(c) \/ End(c) \/ Gathered(c) \/ Closed(c)
  \/ Asked(c) \/ Reaped(c) \/ WaitTimeout(c) \/ StopCommandOver(c)
  \/ TermTimeout(c) \/ KillTimeout(c) \/ Leave(c) \/ Deliver(c)

(* The child exits: asked to, killed, crashed, or stopped by the sandbox *)
ChildExit(c) ==
  /\ child[c] = "alive"
  /\ child' = [child EXCEPT ![c] = "dead"]
  /\ UNCHANGED <<pc, counters, tasks, cancel, shutdown>>

(* The client reads the rest, or its connection breaks: the transport that
   no task waits for any more is closed. *)
PeerGone(c) ==
  /\ c \in lingering
  /\ lingering' = lingering \ {c}
  /\ UNCHANGED <<pc, counters, tasks, child, cancel, server, batch, sandboxed>>

-----------------------------------------------------------------------------
(* Steps of Gateway.serve *)

(* SIGTERM or SIGINT: the handler only sets a flag, signal_tick sees it *)
Signal ==
  /\ server = "serving"
  /\ server' = "signalled"
  /\ UNCHANGED <<pc, counters, tasks, child, cancel, batch, lingering, sandboxed>>

(* One turn of the draining loop, up to its await: the owned tasks are
   cancelled and gathered, or there are none and the loop is over. *)
Drain ==
  /\ batch' = tasks
  /\ cancel' = cancel \cup tasks
  /\ server' = IF tasks = {} THEN "waitclosed" ELSE "draining"
  /\ UNCHANGED <<pc, counters, tasks, child, lingering, sandboxed>>

(* stop_task ends: the listener is closed and the loop begins, one step *)
CloseListener == server = "signalled" /\ Drain

(* gather returns when every task of the batch has ended *)
NextBatch ==
  /\ server = "draining"
  /\ batch \cap tasks = {}
  /\ Drain

(* server.wait_closed() returns when every accepted transport is closed,
   those without a task included; it has no timeout. *)
Stopped ==
  /\ server = "waitclosed"
  /\ \A c \in Conns : pc[c] = "idle"
  /\ lingering = {}
  /\ server' = "stopped"
  /\ UNCHANGED <<pc, counters, tasks, child, cancel, batch, lingering, sandboxed>>

Next ==
  \/ \E c \in Conns : Connect(c) \/ Task(c) \/ ChildExit(c) \/ PeerGone(c)
  \/ Signal \/ CloseListener \/ NextBatch \/ Stopped

Spec == Init /\ [][Next]_vars

(* Every await of a task is bounded by a timer of its own (handshake, I/O
   and shutdown timeouts, the lifetime of a session), so a task does move
   on; serve() moves on when what it waits for is done; and a sandboxed
   child is ended by its unit's RuntimeMaxSec.  Nothing makes a client
   connect, or read what was sent to it, and nothing makes a signal arrive. *)
Fairness ==
  /\ \A c \in Conns : WF_vars(Task(c))
  /\ \A c \in Conns : WF_vars(sandboxed /\ ChildExit(c))
  /\ WF_vars(CloseListener) /\ WF_vars(NextBatch) /\ WF_vars(Stopped)

FairSpec == Spec /\ Fairness

-----------------------------------------------------------------------------
(* Properties *)

(* The two integers of Gateway count exactly the connections whose flags say
   that they hold one, on every error path, timeout and cancellation. *)
CountersExact ==
  /\ active = Cardinality(admitted)
  /\ handshakes = Cardinality(handshaking)

(* A slot is given back only after the child of its session is gone.  There
   are two ways out: a local child that outlived SIGKILL, and a cancellation
   that serve() throws into the session's own clean-up. *)
SlotOutlivesChild ==
  [][\A c \in Conns :
       c \in admitted /\ c \notin admitted' /\ child[c] = "alive"
         => \/ c \in cancel
            \/ ~sandboxed /\ pc[c] = "killing"]_vars

(* While no shutdown has begun there are never more language servers than
   slots in the sandbox, however the sessions before them ended. *)
ChildrenBounded ==
  sandboxed /\ server \in {"serving", "signalled"}
    => Cardinality({c \in Conns : child[c] = "alive"}) <= MaxSessions

(* serve() gathers a batch before it cancels again: no session is cancelled
   a second time inside the clean-up that its cancellation started. *)
CancelledOnce ==
  [][\A c \in Conns : c \in cancel' \ cancel => c \notin batch \cap tasks]_vars

(* The admission of the gateway is the abstract bounded pool. *)
Pool == INSTANCE SlotPool WITH
          Clients <- Conns, Slots <- MaxSessions, holders <- admitted
PoolSpec == Pool!Spec

(* Every slot is given back. *)
SlotReturned == \A c \in Conns : c \in admitted ~> c \notin admitted

(* A signal stops the gateway, whatever its connections are doing, unless a
   client never takes what was sent to it: then every owned task has been
   drained, and the last wait of serve() is held by its open transport and
   by nothing else. *)
HeldByClient == server = "waitclosed" /\ lingering # {}
OnlyUnreadHoldsShutdown ==
  server = "signalled" ~> (server = "stopped" \/ []HeldByClient)

(* The end of a shutdown that no client can hold up, which the code does not
   give: the wait for the open transports has no limit of its own. *)
ShutdownCompletes == server = "signalled" ~> server = "stopped"

(* What the comment in serve() says of shutdown: "each Session finally block
   then closes its WebSocket and child".  A child outlives its session's
   task when the cancellation lands in a clean-up that had already begun. *)
SessionStopsItsChild ==
  sandboxed => \A c \in Conns : child[c] = "alive" => c \in tasks

(* What the same comment says of the order: "the connection tasks below are
   drained, then wait_closed()".  A task that was created by the listener
   and has not run its first step is in nobody's set. *)
DrainedBeforeWaitClosed == server = "waitclosed" => tasks = {}
=============================================================================
