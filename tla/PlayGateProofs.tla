--------------------------- MODULE PlayGateProofs ---------------------------
(***************************************************************************)
(* Proofs about PlayGate, for any set of requests, any number of slots and *)
(* polls and any bound on phases and kills.                                *)
(*                                                                         *)
(* The inductive invariant says what the process a request has become      *)
(* implies about its lock (Shape), that a unit nobody lost is waited for   *)
(* or about to be stopped by a live job (Covered), that no lock is held    *)
(* twice (OneHolder) and that a script has seen every slot behind it taken *)
(* (Passed).                                                               *)
(***************************************************************************)
EXTENDS PlayGate, FiniteSetTheorems, TLAPS

Shape(r) ==
  /\ front[r] = "new" => gate[r] = "none"
  /\ gate[r] = "none" => tried[r] = 0
  /\ gate[r] \in {"none", "scan"} => polls[r] > 0
  /\ gate[r] \in {"none", "scan"} => slot[r] = 0 /\ child[r] = "none"
  /\ gate[r] = "job" \/ child[r] # "none" => slot[r] \in Slots
  /\ cut[r] => gate[r] = "job"
  /\ code[r] = "BUSY" => gate[r] = "gone"
  /\ gate[r] = "gone" /\ front[r] = "waiting" => code[r] # "none"

Covered(r) ==
  r \notin loose =>
    \A p \in Phases(r) :
      unit[r][p] \in {"starting", "running"} =>
        p = phase[r] /\ gate[r] = "job" /\ (child[r] # "none" \/ cut[r])

OneHolder == \A r, s \in holders : slot[r] = slot[s] => r = s

Passed(r) ==
  /\ gate[r] = "scan" => \A i \in idle[r] : i > tried[r]
  /\ code[r] = "BUSY" => idle[r] = {}

Local == \A r \in Requests : Shape(r) /\ Covered(r) /\ Passed(r)

IInv == TypeOK /\ Local /\ OneHolder

Assumptions == SLOTS \in Nat \ {0} /\ Polls \in Nat \ {0}
               /\ MaxPhases \in [Requests -> Nat] /\ MaxKills \in Nat

LEMMA Constants == Assumptions
BY SlotsAssumption, PollsAssumption, PhasesAssumption, KillsAssumption DEF Assumptions

(* What request r alone can change of the request s. *)
Untouched(s) ==
  /\ front'[s] = front[s] /\ gate'[s] = gate[s] /\ code'[s] = code[s]
  /\ tried'[s] = tried[s] /\ polls'[s] = polls[s] /\ slot'[s] = slot[s]
  /\ phase'[s] = phase[s] /\ child'[s] = child[s] /\ cut'[s] = cut[s]
  /\ unit'[s] = unit[s] /\ (s \in loose' <=> s \in loose)

-----------------------------------------------------------------------------
LEMMA InvInit == Init => IInv
<1> SUFFICES ASSUME Init PROVE IInv
  OBVIOUS
<1> USE Constants DEF Assumptions
<1>1. TypeOK
  BY DEF Init, TypeOK, Phases, Slots
<1>2. Local
  BY DEF Init, Local, Shape, Covered, Passed, Phases
<1>3. OneHolder
  BY DEF Init, OneHolder, holders, Holds
<1> QED
  BY <1>1, <1>2, <1>3 DEF IInv

(* A step of one request leaves every other one alone. *)
LEMMA Alone ==
  ASSUME TypeOK, NEW r \in Requests, Step(r), NEW s \in Requests \ {r}
  PROVE  Untouched(s)
<1> USE DEF TypeOK, Untouched, process, scan, work
<1>1. CASE Gate(r)
  BY <1>1 DEF Gate, Start, TakeSlot, Exec, PassSlot, Answer
<1>2. CASE Job(r)
  BY <1>2 DEF Job, StartPhase, Stop, Finish, Unit
<1>3. CASE Child(r)
  BY <1>3 DEF Child, Returns, Deadline, Stopped, Interrupted, Unit
<1>4. CASE Environment(r)
  BY <1>4 DEF Environment, UnitStarts, UnitEnds, ScanFails, KillJob,
     KillService, Interrupted, Unit
<1> QED
  BY <1>1, <1>2, <1>3, <1>4 DEF Step

(* Types, without the history variable *)
Scalars ==
  /\ front \in [Requests -> {"new", "waiting", "busy", "answered", "broken", "killed"}]
  /\ gate \in [Requests -> {"none", "scan", "job", "gone"}]
  /\ tried \in [Requests -> 0 .. SLOTS - 1]
  /\ polls \in [Requests -> 0 .. Polls]
  /\ slot \in [Requests -> 0 .. SLOTS]
  /\ code \in [Requests -> {"none", "BUSY", "done", "failed"}]
  /\ child \in [Requests -> {"none", "timed", "stop"}]
  /\ cut \in [Requests -> BOOLEAN]
  /\ loose \subseteq Requests
  /\ kills \in 0 .. MaxKills

Phased == phase \in [Requests -> Nat] /\ \A r \in Requests : phase[r] <= MaxPhases[r]

Units ==
  /\ DOMAIN unit = Requests
  /\ \A r \in Requests :
       unit[r] \in [Phases(r) -> {"none", "starting", "running", "ended"}]

LEMMA ScalarStep ==
  ASSUME Scalars, NEW r \in Requests, Shape(r), Step(r)
  PROVE  Scalars'
<1> USE Constants DEF Assumptions, Scalars, process, scan, work
<1>1. CASE Start(r)
  BY <1>1 DEF Start
<1>2. CASE TakeSlot(r)
  <2>1. tried[r] + 1 \in 0 .. SLOTS /\ 0 \in 0 .. SLOTS - 1 /\ 0 \in 0 .. Polls
    OBVIOUS
  <2> QED
    BY <1>2, <2>1 DEF TakeSlot, Exec
<1>3. CASE PassSlot(r)
  <2>1. tried[r] + 1 # SLOTS => tried[r] + 1 \in 0 .. SLOTS - 1
    OBVIOUS
  <2>2. polls[r] - 1 \in 0 .. Polls /\ 0 \in 0 .. SLOTS - 1
    BY <1>3 DEF PassSlot, Shape
  <2>3. tried' \in [Requests -> 0 .. SLOTS - 1] /\ polls' \in [Requests -> 0 .. Polls]
    BY <1>3, <2>1, <2>2 DEF PassSlot, LastSlot
  <2> QED
    BY <1>3, <2>3 DEF PassSlot
<1>4. CASE Answer(r)
  BY <1>4 DEF Answer, Shape
<1>5. CASE Job(r)
  <2>1. CASE StartPhase(r)
    BY <2>1 DEF StartPhase
  <2>2. CASE Stop(r)
    BY <2>2 DEF Stop
  <2>3. CASE Finish(r)
    BY <2>3 DEF Finish
  <2> QED
    BY <1>5, <2>1, <2>2, <2>3 DEF Job
<1>6. CASE Child(r)
  BY <1>6, ZenonT(60) DEF Child, Returns, Deadline, Stopped
<1>7. CASE Environment(r)
  <2>1. CASE \E p \in Phases(r) : UnitStarts(r, p) \/ UnitEnds(r, p)
    BY <2>1 DEF UnitStarts, UnitEnds
  <2>2. kills < MaxKills => kills + 1 \in 0 .. MaxKills
    OBVIOUS
  <2>3. CASE ScanFails(r)
    BY <2>2, <2>3 DEF ScanFails
  <2>4. CASE KillJob(r)
    BY <2>2, <2>4 DEF KillJob
  <2>5. CASE KillService(r)
    BY <2>2, <2>5 DEF KillService
  <2> QED
    BY <1>7, <2>1, <2>3, <2>4, <2>5 DEF Environment
<1> QED
  BY <1>1, <1>2, <1>3, <1>4, <1>5, <1>6, <1>7 DEF Step, Gate

LEMMA PhaseStep ==
  ASSUME Phased, NEW r \in Requests, Step(r)
  PROVE  Phased'
<1> USE Constants DEF Assumptions, Phased, process, scan, work
<1>1. CASE StartPhase(r)
  BY <1>1 DEF StartPhase
<1>2. CASE ~StartPhase(r)
  <2>1. UNCHANGED phase
    BY <1>2 DEF Step, Gate, Start, TakeSlot, Exec, PassSlot, Answer, Job, Stop,
       Finish, Child, Returns, Deadline, Stopped, Environment, UnitStarts,
       UnitEnds, ScanFails, KillJob, KillService
  <2> QED
    BY <2>1
<1> QED
  BY <1>1, <1>2

(* A step gives at most one unit another state. *)
LEMMA OneUnit ==
  ASSUME NEW r \in Requests, Step(r)
  PROVE  \/ UNCHANGED unit
         \/ \E p, s : s \in {"starting", "running", "ended"} /\ Unit(r, p, s)
<1>1. CASE Gate(r)
  BY <1>1 DEF Gate, Start, TakeSlot, Exec, PassSlot, Answer, work
<1>2. CASE Job(r)
  BY <1>2 DEF Job, StartPhase, Stop, Finish, work
<1>3. CASE Child(r)
  BY <1>3 DEF Child, Returns, Deadline, Stopped, Interrupted
<1>4. CASE Environment(r)
  BY <1>4 DEF Environment, UnitStarts, UnitEnds, ScanFails, KillJob,
     KillService, Interrupted, work
<1> QED
  BY <1>1, <1>2, <1>3, <1>4 DEF Step

LEMMA UnitStep ==
  ASSUME Units, NEW r \in Requests, Step(r)
  PROVE  Units'
<1>1. CASE UNCHANGED unit
  BY <1>1 DEF Units, Phases
<1>2. ASSUME NEW p, NEW s \in {"starting", "running", "ended"}, Unit(r, p, s)
      PROVE  Units'
  BY <1>2 DEF Unit, Units, Phases
<1> QED
  BY <1>1, <1>2, OneUnit

LEMMA TypeStep ==
  ASSUME TypeOK, NEW r \in Requests, Shape(r), Step(r), Observe
  PROVE  TypeOK'
<1> USE DEF TypeOK, Scalars, Phased, Units
<1>1. idle' \in [Requests -> SUBSET Slots]
  BY DEF Observe
<1>2. Scalars'
  BY ScalarStep
<1>3. Phased'
  BY PhaseStep
<1>4. Units'
  BY UnitStep
<1> QED
  BY <1>1, <1>2, <1>3, <1>4

-----------------------------------------------------------------------------
(* Shape and Covered *)
LEMMA ShapeStep ==
  ASSUME TypeOK, NEW r \in Requests, Shape(r), Step(r)
  PROVE  Shape(r)'
<1> USE Constants DEF Assumptions
<1> USE DEF TypeOK, process, scan, work, Shape, Slots
<1>1. CASE Gate(r)
  <2>1. CASE Start(r)
    BY <2>1 DEF Start
  <2>2. CASE TakeSlot(r)
    BY <2>2 DEF TakeSlot, Exec
  <2>3. CASE PassSlot(r)
    BY <2>3 DEF PassSlot
  <2>4. CASE Answer(r)
    BY <2>4 DEF Answer
  <2> QED
    BY <1>1, <2>1, <2>2, <2>3, <2>4 DEF Gate
<1>2. CASE Job(r)
  BY <1>2 DEF Job, StartPhase, Stop, Finish, Unit, AtWork
<1>3. CASE Child(r)
  BY <1>3 DEF Child, Returns, Deadline, Stopped
<1>4. CASE Environment(r)
  BY <1>4 DEF Environment, UnitStarts, UnitEnds, ScanFails, KillJob, KillService
<1> QED
  BY <1>1, <1>2, <1>3, <1>4 DEF Step

LEMMA CoveredStep ==
  ASSUME TypeOK, NEW r \in Requests, Shape(r), Covered(r), Step(r)
  PROVE  Covered(r)'
<1> USE Constants DEF Assumptions
<1> USE DEF TypeOK, process, scan, work, Covered, Phases
<1>1. CASE Gate(r)
  <2>1. UNCHANGED <<unit, phase, child, cut, loose>>
    BY <1>1 DEF Gate, Start, TakeSlot, Exec, PassSlot, Answer
  <2>2. gate[r] = "job" => gate'[r] = "job"
    BY <1>1 DEF Gate, Start, TakeSlot, Exec, PassSlot, Answer, Shape
  <2> QED
    BY <2>1, <2>2
<1>2. CASE Job(r)
  BY <1>2, SMTT(60) DEF Job, StartPhase, Stop, Finish, Unit, AtWork
<1>3. CASE Child(r)
  <2>1. CASE Returns(r)
    BY <2>1 DEF Returns
  <2>2. CASE Deadline(r)
    <3>1. cut'[r] <=> gate[r] = "job"
      BY <2>2 DEF Deadline
    <3>2. \A p \in Phases(r) :
            unit'[r][p] \in {"starting", "running"} =>
              unit[r][p] \in {"starting", "running"}
      BY <2>2, SMTT(60) DEF Deadline, Interrupted, Unit
    <3> QED
      BY <2>2, <3>1, <3>2 DEF Deadline
  <2>3. CASE Stopped(r)
    BY <2>3, SMTT(60) DEF Stopped, Unit
  <2> QED
    BY <1>3, <2>1, <2>2, <2>3 DEF Child
<1>4. CASE Environment(r)
  BY <1>4, SMTT(30) DEF Environment, UnitStarts, UnitEnds, ScanFails, KillJob,
     KillService, Interrupted, Unit
<1> QED
  BY <1>1, <1>2, <1>3, <1>4 DEF Step

-----------------------------------------------------------------------------
(* Locks *)

(* A step lets at most its own request in or out, and in only by TakeSlot. *)
LEMMA HoldersChange ==
  ASSUME TypeOK, NEW r \in Requests, Shape(r), Step(r)
  PROVE  /\ \A s \in Requests \ {r} :
              slot'[s] = slot[s] /\ (s \in holders' <=> s \in holders)
         /\ r \in holders /\ r \in holders' => slot'[r] = slot[r]
         /\ r \notin holders /\ r \in holders' => TakeSlot(r)
<1>1. ASSUME NEW s \in Requests \ {r}
      PROVE  slot'[s] = slot[s] /\ (s \in holders' <=> s \in holders)
  BY Alone DEF Untouched, holders, Holds
<1>2. CASE TakeSlot(r)
  <2>1. r \notin holders
    BY <1>2 DEF TakeSlot, Shape, holders, Holds
  <2> QED
    BY <1>1, <1>2, <2>1
<1>3. CASE ~TakeSlot(r)
  <2>1. UNCHANGED slot
    BY <1>3 DEF Step, Gate, Start, PassSlot, Answer, Job, StartPhase, Stop,
       Finish, Child, Returns, Deadline, Stopped, Environment, UnitStarts,
       UnitEnds, ScanFails, KillJob, KillService
  <2>2. r \notin holders => r \notin holders'
    <3> SUFFICES ASSUME ~Holds(r) PROVE ~Holds(r)'
      BY DEF holders
    <3> USE DEF TypeOK, Holds, process, work
    <3>1. CASE Gate(r)
      BY <1>3, <3>1, <2>1 DEF Gate, Start, PassSlot, Answer, Shape
    <3>2. CASE Job(r)
      BY <3>2, <2>1 DEF Job, StartPhase, Stop, Finish, AtWork, Shape, Slots
    <3>3. CASE Child(r)
      BY <3>3, <2>1 DEF Child, Returns, Deadline, Stopped, Shape, Slots
    <3>4. CASE Environment(r)
      BY <3>4, <2>1 DEF Environment, UnitStarts, UnitEnds, ScanFails, KillJob, KillService
    <3> QED
      BY <3>1, <3>2, <3>3, <3>4 DEF Step
  <2> QED
    BY <1>1, <2>1, <2>2
<1> QED
  BY <1>1, <1>2, <1>3

LEMMA OneHolderStep ==
  ASSUME TypeOK, OneHolder, NEW r \in Requests, Shape(r), Step(r)
  PROVE  OneHolder'
<1> SUFFICES ASSUME NEW a \in holders', NEW b \in holders', slot'[a] = slot'[b]
             PROVE  a = b
  BY DEF OneHolder
<1>1. a \in Requests /\ b \in Requests
  BY DEF holders
<1>2. CASE r \in holders \/ r \notin holders'
  <2>1. a \in holders /\ b \in holders /\ slot[a] = slot[b]
    BY <1>1, <1>2, HoldersChange
  <2> QED
    BY <2>1 DEF OneHolder
<1>3. CASE r \notin holders /\ r \in holders'
  <2>1. slot'[r] \notin Locked
    BY <1>3, HoldersChange DEF TypeOK, TakeSlot, Exec
  <2>2. ASSUME NEW s \in holders', s # r
        PROVE  s \in holders /\ slot'[s] = slot[s] /\ slot'[s] \in Locked
    <3>1. s \in Requests
      BY DEF holders
    <3>2. s \in holders /\ slot'[s] = slot[s]
      BY <2>2, <3>1, HoldersChange
    <3> QED
      BY <3>2 DEF Locked
  <2> QED
    BY <2>1, <2>2 DEF OneHolder
<1> QED
  BY <1>2, <1>3

(* A slot that is free while another request is let in is one nobody holds,
   so there are fewer holders than slots. *)
LEMMA RoomLeft ==
  ASSUME TypeOK, Local, OneHolder, NEW i \in Slots, i \notin Locked
  PROVE  Cardinality(holders) < SLOTS
<1> USE Constants DEF Assumptions
<1> DEFINE Others == Slots \ {i}
           f == [r \in holders |-> slot[r]]
<1>1. IsFiniteSet(Slots) /\ Cardinality(Slots) = SLOTS
  BY FS_Interval DEF Slots
<1>2. IsFiniteSet(Others) /\ Cardinality(Others) = SLOTS - 1
  BY <1>1, FS_RemoveElement
<1>3. \A r \in holders : slot[r] \in Others
  BY DEF holders, Holds, Locked, Local, Shape
<1>4. f \in Injection(holders, Others)
  BY <1>3 DEF Injection, OneHolder, IsInjective
<1> HIDE DEF f, Others
<1>5. IsFiniteSet(holders) /\ Cardinality(holders) <= Cardinality(Others)
  BY <1>2, <1>4, FS_Injection
<1>6. Cardinality(holders) \in Nat
  BY <1>5, FS_CardinalityType
<1> QED
  BY <1>2, <1>5, <1>6

-----------------------------------------------------------------------------
(* Polling *)

LEMMA Watch ==
  ASSUME TypeOK, Observe, NEW s \in Requests
  PROVE  /\ idle'[s] \cap Locked' = {}
         /\ idle'[s] \subseteq Slots
         /\ gate'[s] # "scan" \/ (gate[s] # "none" /\ polls'[s] = polls[s])
              => idle'[s] \subseteq idle[s]
BY DEF TypeOK, Observe

LEMMA PassedStep ==
  ASSUME TypeOK, NEW r \in Requests, Shape(r), Passed(r), Step(r), Observe
  PROVE  Passed(r)'
<1> USE Constants DEF Assumptions
<1>0. idle[r] \subseteq Slots /\ tried[r] \in 0 .. SLOTS - 1 /\ polls[r] \in 0 .. Polls
  BY DEF TypeOK
<1>1. CASE PassSlot(r)
  <2>1. Locked' = Locked
    BY <1>1, Alone DEF PassSlot, TypeOK, Shape, Locked, holders, Holds, work
  <2>2. tried[r] + 1 \notin idle'[r]
    BY <1>1, <2>1, Watch DEF PassSlot
  <2>3. CASE ~LastSlot(r)
    <3>1. tried'[r] = tried[r] + 1 /\ polls'[r] = polls[r] /\ gate'[r] = "scan"
          /\ code'[r] = code[r]
      BY <1>1, <2>3 DEF PassSlot, TypeOK
    <3>2. idle'[r] \subseteq idle[r]
      BY <1>1, <3>1, Watch DEF PassSlot
    <3>3. \A i \in idle'[r] : i > tried[r] + 1
      BY <1>0, <1>1, <2>2, <3>2 DEF Passed, PassSlot, Slots
    <3> QED
      BY <1>1, <3>1, <3>3 DEF Passed, Shape, PassSlot
  <2>4. CASE LastSlot(r) /\ polls[r] = 1
    <3>1. gate'[r] = "gone"
      BY <1>1, <2>4 DEF PassSlot, TypeOK
    <3>2. idle'[r] \subseteq idle[r]
      BY <3>1, Watch
    <3>3. idle'[r] = {}
      BY <1>0, <1>1, <2>2, <2>4, <3>2 DEF Passed, PassSlot, LastSlot, Slots
    <3> QED
      BY <3>1, <3>3 DEF Passed
  <2>5. CASE LastSlot(r) /\ polls[r] # 1
    <3>1. tried'[r] = 0 /\ code'[r] = code[r]
      BY <1>1, <2>5 DEF PassSlot, TypeOK
    <3>2. \A i \in idle'[r] : i > 0
      BY Watch DEF Slots
    <3> QED
      BY <1>1, <3>1, <3>2 DEF Passed, Shape, PassSlot
  <2> QED
    BY <2>3, <2>4, <2>5
<1>2. CASE Start(r)
  <2>1. tried'[r] = 0 /\ code'[r] = code[r] /\ code[r] # "BUSY"
    BY <1>2 DEF Start, Shape, scan
  <2>2. \A i \in idle'[r] : i > 0
    BY Watch DEF Slots
  <2> QED
    BY <2>1, <2>2 DEF Passed
<1>3. CASE ~PassSlot(r) /\ ~Start(r)
  <2>1. gate'[r] = "scan" => gate[r] = "scan" /\ tried'[r] = tried[r] /\ polls'[r] = polls[r]
    BY <1>3 DEF TypeOK, process, scan, Step, Gate, TakeSlot, Exec, Answer, Job,
       StartPhase, Stop, Finish, Child, Returns, Deadline, Stopped,
       Environment, UnitStarts, UnitEnds, ScanFails, KillJob, KillService
  <2>2. code'[r] = "BUSY" => code[r] = "BUSY"
    BY <1>3 DEF TypeOK, process, Step, Gate, TakeSlot, Exec, Answer, Job,
       StartPhase, Stop, Finish, Child, Returns, Deadline, Stopped,
       Environment, UnitStarts, UnitEnds, ScanFails, KillJob, KillService
  <2>3. code'[r] = "BUSY" => gate'[r] = "gone"
    BY ShapeStep DEF Shape
  <2>4. gate'[r] = "scan" \/ code'[r] = "BUSY" => idle'[r] \subseteq idle[r]
    BY <2>1, <2>3, Watch
  <2> QED
    BY <2>1, <2>2, <2>4 DEF Passed
<1> QED
  BY <1>1, <1>2, <1>3

-----------------------------------------------------------------------------
(* A request that does nothing keeps what it had. *)
LEMMA OthersKeep ==
  ASSUME TypeOK, Local, NEW r \in Requests, Step(r), Observe, NEW s \in Requests \ {r}
  PROVE  Shape(s)' /\ Covered(s)' /\ Passed(s)'
<1>1. Untouched(s)
  BY Alone
<1>2. Shape(s) /\ Covered(s) /\ Passed(s)
  BY DEF Local
<1>3. Shape(s)' /\ Covered(s)'
  BY <1>1, <1>2 DEF Untouched, Shape, Covered
<1>4. gate[s] = "scan" \/ code[s] = "BUSY" => idle'[s] \subseteq idle[s]
  BY <1>1, <1>2, Watch DEF Untouched, Shape
<1> QED
  BY <1>1, <1>2, <1>3, <1>4 DEF Passed, Untouched

LEMMA InvStep == IInv /\ [Next]_vars => IInv'
<1> SUFFICES ASSUME IInv, [Next]_vars PROVE IInv'
  OBVIOUS
<1>1. CASE Next
  <2>1. PICK r \in Requests : Step(r)
    BY <1>1 DEF Next
  <2>2. Observe
    BY <1>1 DEF Next
  <2>3. Shape(r) /\ Covered(r) /\ Passed(r)
    BY DEF IInv, Local
  <2>4. TypeOK'
    BY <2>1, <2>2, <2>3, TypeStep DEF IInv
  <2>5. Shape(r)' /\ Covered(r)' /\ Passed(r)'
    BY <2>1, <2>2, <2>3, ShapeStep, CoveredStep, PassedStep DEF IInv
  <2>6. Local'
    BY <2>1, <2>2, <2>5, OthersKeep DEF IInv, Local
  <2>7. OneHolder'
    BY <2>1, <2>3, OneHolderStep DEF IInv
  <2> QED
    BY <2>4, <2>6, <2>7 DEF IInv
<1>2. CASE UNCHANGED vars
  BY <1>2 DEF vars, process, scan, work, IInv, TypeOK, Local, OneHolder, Shape,
     Covered, Passed, holders, Holds
<1> QED
  BY <1>1, <1>2

LEMMA Invariance == Spec => []IInv
<1> QED
  BY InvInit, InvStep, PTL DEF Spec

-----------------------------------------------------------------------------
(* Every variable keeps its type. *)
THEOREM TypeCorrect == Spec => []TypeOK
<1>1. IInv => TypeOK
  BY DEF IInv
<1> QED
  BY <1>1, Invariance, PTL

(* A unit that was neither killed over nor left by a failed stop runs under
   the permit of a job that is in that very phase. *)
THEOREM UnitsCovered == Spec => []PermitCoversUnit
<1>1. IInv => PermitCoversUnit
  BY DEF IInv, Local, Covered, Shape, PermitCoversUnit, Holds, Slots, TypeOK
<1> QED
  BY <1>1, Invariance, PTL

(* A request is refused only when no slot was free all through its last pass. *)
THEOREM RefusalMeansSaturation == Spec => []RefusedWhenTaken
<1>1. IInv => RefusedWhenTaken
  BY DEF IInv, Local, Passed, RefusedWhenTaken
<1> QED
  BY <1>1, Invariance, PTL

(* The lock files implement the abstract pool. *)
THEOREM ImplementsPool == Spec => PoolSpec
<1>1. Init => Pool!Init
  BY DEF Init, Pool!Init, holders, Holds
<1>2. ASSUME IInv, [Next]_vars
      PROVE  [Pool!Next]_holders
  <2>1. CASE UNCHANGED vars
    BY <2>1 DEF vars, process, work, holders, Holds
  <2>2. CASE Next
    <3>1. PICK r \in Requests : Step(r)
      BY <2>2 DEF Next
    <3>2. Shape(r) /\ TypeOK
      BY <1>2 DEF IInv, Local
    <3>3. holders \subseteq Requests /\ holders' \subseteq Requests
      BY DEF holders
    <3>4. \A s \in Requests \ {r} : s \in holders' <=> s \in holders
      BY <3>1, <3>2, HoldersChange
    <3>5. CASE r \in holders <=> r \in holders'
      <4>1. holders' = holders
        BY <3>3, <3>4, <3>5
      <4> QED
        BY <4>1
    <3>6. CASE r \in holders /\ r \notin holders'
      <4>1. holders' = holders \ {r}
        BY <3>3, <3>4, <3>6
      <4> QED
        BY <3>6, <4>1 DEF Pool!Next, Pool!Release
    <3>7. CASE r \notin holders /\ r \in holders'
      <4>1. holders' = holders \cup {r}
        BY <3>3, <3>4, <3>7
      <4>2. TakeSlot(r)
        BY <3>1, <3>2, <3>7, HoldersChange
      <4>3. tried[r] + 1 \in Slots /\ tried[r] + 1 \notin Locked
        BY <3>2, <4>2, Constants DEF TakeSlot, TypeOK, Slots, Assumptions
      <4>4. Cardinality(holders) < SLOTS
        BY <1>2, <4>3, RoomLeft DEF IInv
      <4>5. Pool!Cardinality(holders) = Cardinality(holders)
        BY DEF Cardinality, Pool!Cardinality
      <4> QED
        BY <3>7, <4>1, <4>4, <4>5 DEF Pool!Next, Pool!Acquire
    <3> QED
      BY <3>5, <3>6, <3>7
  <2> QED
    BY <1>2, <2>1, <2>2
<1> QED
  BY <1>1, <1>2, Invariance, PTL DEF Spec, PoolSpec, Pool!Spec
=============================================================================
