-------------------------- MODULE LspGatewayProofs --------------------------
(***************************************************************************)
(* Proofs about LspGateway, for any finite set of connections, any session *)
(* and handshake budgets, sandboxed or local.                              *)
(*                                                                         *)
(* The counters are exact only because the flags agree with the place a    *)
(* task is parked at, so the inductive invariant is Shape (what each place *)
(* implies about the flags, the child and the shutdown) together with      *)
(* CountersExact and the two bounds of TypeOK.                             *)
(***************************************************************************)
EXTENDS LspGateway, FiniteSetTheorems, TLAPS

(* The places at which a connection holds a session slot. *)
Holding == {"accepting", "starting", "running"} \cup Cleanup

Types ==
  /\ pc \in [Conns -> Places]
  /\ active \in Int
  /\ handshakes \in Int
  /\ tasks \in SUBSET Conns
  /\ admitted \in SUBSET Conns
  /\ handshaking \in SUBSET Conns
  /\ child \in [Conns -> {"none", "alive", "dead"}]
  /\ cancel \in SUBSET Conns
  /\ server \in ServerStates
  /\ batch \in SUBSET Conns
  /\ lingering \in SUBSET Conns
  /\ sandboxed \in BOOLEAN

Flags ==
  \A c \in Conns :
    /\ c \in admitted <=> pc[c] \in Holding
    /\ c \in handshaking => pc[c] \in Handshake
    /\ pc[c] \in {"upgrading", "accepting"} => c \in handshaking
    /\ c \in tasks <=> pc[c] \notin {"idle", "accepted"}
    /\ c \in cancel => c \in tasks

Children ==
  \A c \in Conns :
    /\ pc[c] \in Handshake \cup {"accepted", "starting"} => child[c] = "none"
    /\ sandboxed /\ server \in {"serving", "signalled"} /\ child[c] = "alive"
         => c \in admitted
    /\ sandboxed => pc[c] # "killing"

BeforeDrain ==
  server \in {"serving", "signalled"} => cancel = {} /\ batch = {}

Shape == Types /\ Flags /\ Children /\ BeforeDrain

Bounds == active <= MaxSessions /\ handshakes <= MaxHandshakes

IInv == Shape /\ CountersExact /\ Bounds

-----------------------------------------------------------------------------
LEMMA CountUp ==
  ASSUME NEW S, IsFiniteSet(S), NEW x, x \notin S
  PROVE  Cardinality(S \cup {x}) = Cardinality(S) + 1
BY FS_AddElement

LEMMA CountDown ==
  ASSUME NEW S, IsFiniteSet(S), NEW x
  PROVE  Cardinality(S \ {x}) =
           IF x \in S THEN Cardinality(S) - 1 ELSE Cardinality(S)
<1>1. CASE x \in S
  BY <1>1, FS_RemoveElement
<1>2. CASE x \notin S
  <2>1. S \ {x} = S
    BY <1>2
  <2> QED
    BY <1>2, <2>1
<1> QED
  BY <1>1, <1>2

LEMMA FlagsFinite ==
  ASSUME Types
  PROVE  IsFiniteSet(admitted) /\ IsFiniteSet(handshaking)
BY FS_Subset, GatewayAssumption DEF Types

LEMMA ShapeInit == Init => Shape
BY SMTT(60) DEF Init, Shape, Types, Flags, Children, BeforeDrain, Places, ServerStates, Holding,
       Handshake, Cleanup

-----------------------------------------------------------------------------
(* Shape is preserved by the steps of one connection. *)
LEMMA ShapeConn ==
  ASSUME Shape, NEW c \in Conns,
         Connect(c) \/ Task(c) \/ ChildExit(c) \/ PeerGone(c)
  PROVE  Shape'
<1> USE DEF Shape, Types, Flags, Children, BeforeDrain, Places, Holding, Handshake, Cleanup,
            At, Goto, Finish, counters, shutdown
<1>1. CASE Connect(c)
  BY <1>1 DEF Connect
<1>2. CASE Start(c)
  BY <1>2 DEF Start
<1>3. CASE Upgrade(c)
  BY <1>3 DEF Upgrade
<1>4. CASE BadUpgrade(c)
  BY <1>4 DEF BadUpgrade
<1>5. CASE HandshakeOver(c)
  BY <1>5 DEF HandshakeOver
<1>6. CASE Accepted(c)
  BY <1>6 DEF Accepted
<1>7. CASE Spawn(c)
  BY <1>7 DEF Spawn
<1>8. CASE End(c)
  BY <1>8 DEF End
<1>9. CASE Gathered(c)
  BY <1>9 DEF Gathered
<1>10. CASE Closed(c)
  BY <1>10 DEF Closed
<1>11. CASE Asked(c)
  BY <1>11 DEF Asked
<1>12. CASE Reaped(c)
  BY <1>12 DEF Reaped
<1>13. CASE WaitTimeout(c)
  BY <1>13 DEF WaitTimeout
<1>14. CASE StopCommandOver(c)
  BY <1>14 DEF StopCommandOver
<1>15. CASE TermTimeout(c)
  BY <1>15 DEF TermTimeout
<1>16. CASE KillTimeout(c)
  BY <1>16 DEF KillTimeout
<1>17. CASE Leave(c)
  BY <1>17 DEF Leave, WriterLeft
<1>18. CASE Deliver(c)
  BY <1>18 DEF Deliver, WriterLeft
<1>19. CASE ChildExit(c)
  BY <1>19 DEF ChildExit
<1>20. CASE PeerGone(c)
  BY <1>20 DEF PeerGone
<1> QED
  BY <1>1, <1>2, <1>3, <1>4, <1>5, <1>6, <1>7, <1>8, <1>9, <1>10, <1>11,
     <1>12, <1>13, <1>14, <1>15, <1>16, <1>17, <1>18, <1>19,
     <1>20 DEF Task

(* ... and by the steps of serve(), which only cancel started tasks. *)
LEMMA ShapeServer ==
  ASSUME Shape, Signal \/ CloseListener \/ NextBatch \/ Stopped
  PROVE  Shape'
<1> USE DEF Shape, Types, Flags, Children, BeforeDrain, ServerStates, counters
<1>1. CASE Signal
  BY <1>1 DEF Signal
<1>2. CASE CloseListener
  BY <1>2 DEF CloseListener, Drain
<1>3. CASE NextBatch
  BY <1>3 DEF NextBatch, Drain
<1>4. CASE Stopped
  BY <1>4 DEF Stopped
<1> QED
  BY <1>1, <1>2, <1>3, <1>4

LEMMA ShapeStutter ==
  ASSUME Shape, UNCHANGED vars
  PROVE  Shape'
BY DEF Shape, Types, Flags, Children, BeforeDrain, vars

LEMMA ShapeStep ==
  ASSUME Shape, [Next]_vars
  PROVE  Shape'
BY ShapeConn, ShapeServer, ShapeStutter DEF Next

-----------------------------------------------------------------------------
(* What a step does to the flags and the counters: nothing, or one of four
   changes that keep a flag set and its counter together. *)
Same(set, n) == UNCHANGED <<set, n>>
Taken(c, set, n) == c \notin set /\ set' = set \cup {c} /\ n' = n + 1
Given(c, set, n) ==
  set' = set \ {c} /\ n' = IF c \in set THEN n - 1 ELSE n

LEMMA HandshakeChange ==
  ASSUME Shape, [Next]_vars
  PROVE  \/ Same(handshaking, handshakes)
         \/ \E c \in Conns :
              \/ /\ Taken(c, handshaking, handshakes)
                 /\ handshakes < MaxHandshakes
              \/ Given(c, handshaking, handshakes)
<1> USE DEF Same, Taken, Given, counters, shutdown
<1>1. CASE \E c \in Conns : Start(c)
  BY <1>1, GatewayAssumption DEF Shape, Types, Flags, Start, At, Handshake
<1>2. CASE \E c \in Conns : Accepted(c)
  BY <1>2 DEF Shape, Flags, Accepted, At
<1>3. CASE \E c \in Conns : HandshakeOver(c) \/ Closed(c) \/ Reaped(c)
                              \/ KillTimeout(c) \/ Deliver(c)
  BY <1>3 DEF HandshakeOver, Closed, Reaped, KillTimeout, Deliver, Finish
<1>4. CASE \E c \in Conns : Connect(c) \/ Upgrade(c) \/ BadUpgrade(c) \/ Spawn(c)
                              \/ End(c) \/ Gathered(c) \/ Asked(c)
                              \/ WaitTimeout(c) \/ StopCommandOver(c)
                              \/ TermTimeout(c) \/ Leave(c) \/ ChildExit(c)
                              \/ PeerGone(c)
  BY <1>4 DEF Connect, Upgrade, BadUpgrade, Spawn, End, Gathered, Asked,
              WaitTimeout, StopCommandOver, TermTimeout, Leave, ChildExit,
              PeerGone
<1>5. CASE Signal \/ CloseListener \/ NextBatch \/ Stopped \/ UNCHANGED vars
  BY <1>5 DEF Signal, CloseListener, NextBatch, Stopped, Drain, vars
<1> QED
  BY <1>1, <1>2, <1>3, <1>4, <1>5 DEF Next, Task

LEMMA SlotChange ==
  ASSUME Shape, [Next]_vars
  PROVE  \/ Same(admitted, active)
         \/ \E c \in Conns :
              \/ /\ Taken(c, admitted, active)
                 /\ active < MaxSessions
              \/ Given(c, admitted, active)
<1> USE DEF Same, Taken, Given, counters, shutdown
<1>1. CASE \E c \in Conns : Upgrade(c)
  BY <1>1, GatewayAssumption
     DEF Shape, Types, Flags, Upgrade, At, Holding, Cleanup
<1>2. CASE \E c \in Conns : HandshakeOver(c) \/ Closed(c) \/ Reaped(c)
                              \/ KillTimeout(c) \/ Deliver(c)
  BY <1>2 DEF HandshakeOver, Closed, Reaped, KillTimeout, Deliver, Finish
<1>3. CASE \E c \in Conns : Connect(c) \/ Start(c) \/ BadUpgrade(c) \/ Accepted(c)
                              \/ Spawn(c) \/ End(c) \/ Gathered(c) \/ Asked(c)
                              \/ WaitTimeout(c) \/ StopCommandOver(c)
                              \/ TermTimeout(c) \/ Leave(c) \/ ChildExit(c)
                              \/ PeerGone(c)
  BY <1>3 DEF Connect, Start, BadUpgrade, Accepted, Spawn, End, Gathered,
              Asked, WaitTimeout, StopCommandOver, TermTimeout, Leave, ChildExit,
              PeerGone
<1>4. CASE Signal \/ CloseListener \/ NextBatch \/ Stopped \/ UNCHANGED vars
  BY <1>4 DEF Signal, CloseListener, NextBatch, Stopped, Drain, vars
<1> QED
  BY <1>1, <1>2, <1>3, <1>4 DEF Next, Task

LEMMA InvInit == Init => IInv
<1> SUFFICES ASSUME Init PROVE IInv
  OBVIOUS
<1>1. Cardinality({}) = 0
  BY FS_EmptySet
<1> QED
  BY <1>1, ShapeInit, GatewayAssumption DEF Init, IInv, CountersExact, Bounds

LEMMA InvStep ==
  ASSUME IInv, [Next]_vars
  PROVE  IInv'
<1>1. Shape'
  BY ShapeStep DEF IInv
<1>2. handshakes' = Cardinality(handshaking') /\ handshakes' <= MaxHandshakes
  BY HandshakeChange, FlagsFinite, CountUp, CountDown, GatewayAssumption
     DEF IInv, CountersExact, Bounds, Same, Taken, Given, Shape, Types
<1>3. active' = Cardinality(admitted') /\ active' <= MaxSessions
  BY SlotChange, FlagsFinite, CountUp, CountDown, GatewayAssumption
     DEF IInv, CountersExact, Bounds, Same, Taken, Given, Shape, Types
<1> QED
  BY <1>1, <1>2, <1>3 DEF IInv, CountersExact, Bounds

LEMMA Invariance == Spec => []IInv
<1>1. IInv /\ [Next]_vars => IInv'
  BY InvStep
<1> QED
  BY <1>1, InvInit, PTL DEF Spec

-----------------------------------------------------------------------------
(* The type invariant, with both counters inside their budgets: neither goes
   below zero nor above its limit, whichever way connections end. *)
THEOREM TypeCorrect == Spec => []TypeOK
<1>1. IInv => TypeOK
  <2> SUFFICES ASSUME IInv PROVE TypeOK
    OBVIOUS
  <2>1. active \in Nat /\ handshakes \in Nat
    BY FlagsFinite, FS_CardinalityType DEF IInv, Shape, CountersExact
  <2> QED
    BY <2>1, GatewayAssumption DEF IInv, Shape, Types, Bounds, TypeOK
<1> QED
  BY <1>1, Invariance, PTL

(* The counters are exact: no leak and no double release. *)
THEOREM Counted == Spec => []CountersExact
<1>1. IInv => CountersExact
  BY DEF IInv
<1> QED
  BY <1>1, Invariance, PTL

(* No session slot is released before the language server behind it is gone,
   except by the two ways out that SlotOutlivesChild names. *)
THEOREM SlotSafety == Spec => SlotOutlivesChild
<1> DEFINE Kept == \A c \in Conns :
       c \in admitted /\ c \notin admitted' /\ child[c] = "alive"
         => \/ c \in cancel
            \/ ~sandboxed /\ pc[c] = "killing"
<1>1. ASSUME IInv, [Next]_vars
      PROVE  [Kept]_vars
  <2> SUFFICES ASSUME NEW c \in Conns,
                      c \in admitted, c \notin admitted', child[c] = "alive",
                      c \notin cancel
               PROVE  ~sandboxed /\ pc[c] = "killing"
    OBVIOUS
  <2>1. HandshakeOver(c) \/ Closed(c) \/ Reaped(c) \/ KillTimeout(c)
    BY <1>1 DEF Next, Task, Connect, Start, Upgrade, BadUpgrade, Accepted,
       Spawn, End, Gathered, Asked, WaitTimeout, StopCommandOver, TermTimeout,
       Leave, Deliver, ChildExit, PeerGone, Signal, CloseListener, NextBatch,
       Stopped, Drain, HandshakeOver, Closed, Reaped, KillTimeout, Finish,
       counters, vars
  <2>2. ~HandshakeOver(c)
    BY <1>1 DEF IInv, Shape, Children, HandshakeOver, At
  <2>3. ~Closed(c) /\ ~Reaped(c)
    BY DEF Closed, Reaped, counters
  <2>4. KillTimeout(c)
    BY <2>1, <2>2, <2>3
  <2> QED
    BY <1>1, <2>4 DEF IInv, Shape, Children, KillTimeout, At
<1> QED
  BY <1>1, Invariance, PTL DEF Spec, SlotOutlivesChild

(* Until a shutdown begins the sandbox never runs more servers than slots. *)
THEOREM BoundedChildren == Spec => []ChildrenBounded
<1>1. IInv => ChildrenBounded
  <2> SUFFICES ASSUME IInv, sandboxed, server \in {"serving", "signalled"}
               PROVE  Cardinality({c \in Conns : child[c] = "alive"}) <= MaxSessions
    BY DEF ChildrenBounded
  <2> DEFINE alive == {c \in Conns : child[c] = "alive"}
  <2>1. alive \subseteq admitted
    BY DEF IInv, Shape, Children
  <2>2. Cardinality(alive) <= Cardinality(admitted)
    BY <2>1, FlagsFinite, FS_Subset DEF IInv, Shape
  <2>3. Cardinality(alive) \in Nat
    BY <2>1, FlagsFinite, FS_Subset, FS_CardinalityType DEF IInv, Shape
  <2> QED
    BY <2>2, <2>3, GatewayAssumption
       DEF IInv, Shape, Types, CountersExact, Bounds
<1> QED
  BY <1>1, Invariance, PTL

(* serve() never cancels a task again while that task is still cleaning up. *)
THEOREM CancelOnce == Spec => CancelledOnce
<1> DEFINE Once == \A c \in Conns :
                     c \in cancel' \ cancel => c \notin batch \cap tasks
<1>1. ASSUME IInv, [Next]_vars
      PROVE  [Once]_vars
  <2> SUFFICES ASSUME NEW c \in Conns, c \in cancel', c \notin cancel
               PROVE  c \notin batch \cap tasks
    OBVIOUS
  <2> QED
    BY <1>1 DEF IInv, Shape, BeforeDrain, Next, Task, Connect, Start, Upgrade,
       BadUpgrade, Accepted, Spawn, End, Gathered, Asked, WaitTimeout,
       StopCommandOver, TermTimeout, Leave, Deliver, ChildExit, PeerGone,
       Signal, CloseListener, NextBatch, Stopped, Drain, HandshakeOver, Closed,
       Reaped, KillTimeout, vars
<1> QED
  BY <1>1, Invariance, PTL DEF Spec, CancelledOnce

(* The gateway's integer counter implements the abstract pool. *)
THEOREM ImplementsPool == Spec => PoolSpec
<1>1. Init => Pool!Init
  BY DEF Init, Pool!Init
<1>2. ASSUME IInv, [Next]_vars
      PROVE  [Pool!Next]_admitted
  <2> SUFFICES ASSUME admitted' # admitted
               PROVE  Pool!Next
    OBVIOUS
  <2>1. PICK c \in Conns : \/ /\ Taken(c, admitted, active)
                              /\ active < MaxSessions
                           \/ Given(c, admitted, active)
    BY <1>2, SlotChange DEF IInv, Same
  <2>2. CASE Taken(c, admitted, active) /\ active < MaxSessions
    <3>1. Pool!Cardinality(admitted) = Cardinality(admitted)
      BY DEF Cardinality, Pool!Cardinality
    <3> QED
      BY <1>2, <2>2, <3>1 DEF Taken, IInv, CountersExact, Pool!Next, Pool!Acquire
  <2>3. CASE Given(c, admitted, active)
    BY <2>3 DEF Given, Pool!Next, Pool!Release
  <2> QED
    BY <2>1, <2>2, <2>3
<1> QED
  BY <1>1, <1>2, Invariance, PTL DEF Spec, PoolSpec, Pool!Spec
=============================================================================
