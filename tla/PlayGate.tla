------------------------------ MODULE PlayGate ------------------------------
(***************************************************************************)
(* The Playground runner's admission gate: playground/src/play/gate.dawn   *)
(* with the job it starts (play/job.dawn, play/exec.dawn's run_timed).     *)
(*                                                                         *)
(* Every request is a process of its own, the front, which starts gate.sh. *)
(* The script polls the slot files with `flock -n` and, with a lock on     *)
(* descriptor 9, becomes the job.  The lock belongs to the open file, so   *)
(* it lasts as long as any process has that descriptor: the job, and the   *)
(* `timeout` and `sh` it waits for.  The compilers and the visitor's       *)
(* program run in systemd units of their own, which no signal of the       *)
(* runner's reaches: a phase that is cut off has its unit stopped by name. *)
(*                                                                         *)
(* What a phase computes is left out.  A job is any number of phases up to *)
(* a bound, and may end after each.                                        *)
(***************************************************************************)
EXTENDS Integers, FiniteSets

CONSTANTS
  Requests,   \* requests, each with a front process
  SLOTS,      \* slot files
  Polls,      \* passes over the slots before a request is refused
  MaxPhases,  \* bound: phases of each request's job
  MaxKills    \* bound: scripts that fail, jobs and services killed

ASSUME SlotsAssumption == SLOTS \in Nat \ {0}
ASSUME PollsAssumption == Polls \in Nat \ {0}
ASSUME PhasesAssumption == MaxPhases \in [Requests -> Nat]
ASSUME KillsAssumption == MaxKills \in Nat

VARIABLES
  front,   \* "new", "waiting", or how the request ended
  gate,    \* the process gate.sh started as: "none", "scan", "job" or "gone"
  tried,   \* slots this pass has found locked
  polls,   \* passes left
  slot,    \* the slot whose lock descriptor 9 has, or 0
  code,    \* the exit status of the gate's process
  phase,   \* the phase the job is in, or has finished last
  child,   \* the command the job waits for: "none", "timed" or "stop"
  cut,     \* the phase ended without a status and its unit is to be stopped
  unit,    \* unit[r][p]: "none", "starting", "running" or "ended"
  loose,   \* requests whose unit nobody waits for: killed, or a stop that failed
  kills,
  idle     \* slots nobody has held since the request's pass began

process == <<front, gate, code>>
scan == <<tried, polls>>
work == <<phase, child, cut, unit, loose>>
vars == <<process, scan, slot, work, kills, idle>>

Slots == 1 .. SLOTS
Phases(r) == 1 .. MaxPhases[r]

Init ==
  /\ front = [r \in Requests |-> "new"]
  /\ gate = [r \in Requests |-> "none"]
  /\ tried = [r \in Requests |-> 0]
  /\ polls = [r \in Requests |-> Polls]
  /\ slot = [r \in Requests |-> 0]
  /\ code = [r \in Requests |-> "none"]
  /\ phase = [r \in Requests |-> 0]
  /\ child = [r \in Requests |-> "none"]
  /\ cut = [r \in Requests |-> FALSE]
  /\ unit = [r \in Requests |-> [p \in Phases(r) |-> "none"]]
  /\ loose = {}
  /\ kills = 0
  /\ idle = [r \in Requests |-> {}]

-----------------------------------------------------------------------------
(* Locks *)

(* [mutant] TIMED_SH does not close descriptor 9 for the command *)
HoldsInherited(r) ==
  /\ slot[r] # 0
  /\ \/ gate[r] = "job" \/ child[r] # "none"
     \/ \E p \in Phases(r) : unit[r][p] \in {"starting", "running"}

(* A process that has descriptor 9 of the request's job is alive. *)
Holds(r) == slot[r] # 0 /\ (gate[r] = "job" \/ child[r] # "none")

holders == {r \in Requests : Holds(r)}
Locked == {slot[r] : r \in holders}

(* [mutant] the pass ends one slot early *)
LastSlotEarly(r) == tried[r] + 1 >= SLOTS - 1

(* The slot the pass is at is the last one. *)
LastSlot(r) == tried[r] + 1 = SLOTS

-----------------------------------------------------------------------------
(* The front and the gate script *)

(* through_gate: stage the job, start gate.sh and wait for it. *)
Start(r) ==
  /\ front[r] = "new"
  /\ \/ /\ front' = [front EXCEPT ![r] = "waiting"]
        /\ gate' = [gate EXCEPT ![r] = "scan"]
     \/ front' = [front EXCEPT ![r] = "broken"] /\ UNCHANGED gate
  /\ UNCHANGED <<code, scan, slot, work, kills>>

(* exec: the script's variables are gone, descriptor 9 is not. *)
Exec(r) ==
  /\ slot' = [slot EXCEPT ![r] = tried[r] + 1]
  /\ gate' = [gate EXCEPT ![r] = "job"]
  /\ tried' = [tried EXCEPT ![r] = 0]
  /\ polls' = [polls EXCEPT ![r] = 0]
  /\ UNCHANGED <<front, code, work, kills>>

(* [mutant] the slot is taken without asking whether it is locked *)
TakeSlotAnyway(r) == gate[r] = "scan" /\ Exec(r)

(* flock -n took the lock. *)
TakeSlot(r) ==
  /\ gate[r] = "scan"
  /\ tried[r] + 1 \notin Locked
  /\ Exec(r)

(* The slot is locked: on to the next, to another pass a quarter of a second
   later, or, when it was the last pass, exit. *)
PassSlot(r) ==
  /\ gate[r] = "scan"
  /\ tried[r] + 1 \in Locked
  /\ IF ~LastSlot(r)
       THEN tried' = [tried EXCEPT ![r] = @ + 1] /\ UNCHANGED <<polls, gate, code>>
       ELSE /\ tried' = [tried EXCEPT ![r] = 0]
            /\ polls' = [polls EXCEPT ![r] = @ - 1]
            /\ IF polls[r] = 1
                 THEN /\ gate' = [gate EXCEPT ![r] = "gone"]
                      /\ code' = [code EXCEPT ![r] = "BUSY"]
                 ELSE UNCHANGED <<gate, code>>
  /\ UNCHANGED <<front, slot, work, kills>>

(* The slot directory or a slot file cannot be made. *)
ScanFails(r) ==
  /\ gate[r] = "scan" /\ kills < MaxKills
  /\ kills' = kills + 1
  /\ gate' = [gate EXCEPT ![r] = "gone"]
  /\ code' = [code EXCEPT ![r] = "failed"]
  /\ UNCHANGED <<front, scan, slot, work>>

(* through_gate, after its child has ended *)
Answer(r) ==
  /\ front[r] = "waiting" /\ gate[r] = "gone"
  /\ front' = [front EXCEPT ![r] = CASE code[r] = "BUSY" -> "busy"
                                     [] code[r] = "done" -> "answered"
                                     [] code[r] = "failed" -> "broken"]
  /\ code' = [code EXCEPT ![r] = "none"]
  /\ UNCHANGED <<gate, scan, slot, work, kills>>

-----------------------------------------------------------------------------
(* The job *)

AtWork(r) == gate[r] = "job" /\ child[r] = "none" /\ ~cut[r]
Unit(r, p, s) == unit' = [unit EXCEPT ![r][p] = s]

(* run_timed starts `timeout`, `sh` and in it the unit. *)
StartPhase(r) ==
  /\ AtWork(r) /\ phase[r] < MaxPhases[r]
  /\ phase' = [phase EXCEPT ![r] = @ + 1]
  /\ child' = [child EXCEPT ![r] = "timed"]
  /\ Unit(r, phase[r] + 1, "starting")
  /\ UNCHANGED <<process, scan, slot, cut, loose, kills>>

(* The command came back: sh writes its status. *)
Returns(r) ==
  /\ child[r] = "timed" /\ unit[r][phase[r]] = "ended"
  /\ child' = [child EXCEPT ![r] = "none"]
  /\ UNCHANGED <<process, scan, slot, phase, cut, unit, loose, kills>>

(* What a signal to the commands in front of a unit that is still starting
   may come to: it is never started, or it starts all the same. *)
Interrupted(r) ==
  \/ UNCHANGED unit
  \/ phase[r] # 0 /\ unit[r][phase[r]] = "starting" /\ Unit(r, phase[r], "ended")

(* [mutant] a phase that is cut off leaves its unit to itself *)
DeadlineNoStop(r) ==
  /\ child[r] = "timed"
  /\ child' = [child EXCEPT ![r] = "none"]
  /\ Interrupted(r)
  /\ UNCHANGED <<process, scan, slot, phase, cut, loose, kills>>

(* timeout ends the process group; there is no status. *)
Deadline(r) ==
  /\ child[r] = "timed"
  /\ child' = [child EXCEPT ![r] = "none"]
  /\ cut' = [cut EXCEPT ![r] = gate[r] = "job"]
  /\ Interrupted(r)
  /\ UNCHANGED <<process, scan, slot, phase, loose, kills>>

(* No status file: stop the unit by its name. *)
Stop(r) ==
  /\ gate[r] = "job" /\ cut[r]
  /\ cut' = [cut EXCEPT ![r] = FALSE]
  /\ child' = [child EXCEPT ![r] = "stop"]
  /\ UNCHANGED <<process, scan, slot, phase, unit, loose, kills>>

(* systemctl stop returns when the unit has ended.  There may be no unit to
   stop yet, and STOP_SECS may pass first. *)
Stopped(r) ==
  /\ child[r] = "stop"
  /\ child' = [child EXCEPT ![r] = "none"]
  /\ \/ /\ unit[r][phase[r]] \in {"running", "ended"}
        /\ Unit(r, phase[r], "ended")
        /\ UNCHANGED loose
     \/ /\ unit[r][phase[r]] \in {"starting", "running"}
        /\ loose' = loose \cup {r}
        /\ UNCHANGED unit
  /\ UNCHANGED <<process, scan, slot, phase, cut, kills>>

(* job_main writes the result and ends, or fails and ends. *)
Finish(r) ==
  /\ AtWork(r)
  /\ gate' = [gate EXCEPT ![r] = "gone"]
  /\ \E how \in {"done", "failed"} : code' = [code EXCEPT ![r] = how]
  /\ UNCHANGED <<front, scan, slot, work, kills>>

-----------------------------------------------------------------------------
(* systemd and the kernel *)

UnitStarts(r, p) ==
  /\ unit[r][p] = "starting" /\ Unit(r, p, "running")
  /\ UNCHANGED <<process, scan, slot, phase, child, cut, loose, kills>>

(* By itself, by a limit of its own, or it could not be started *)
UnitEnds(r, p) ==
  /\ unit[r][p] \in {"starting", "running"} /\ Unit(r, p, "ended")
  /\ UNCHANGED <<process, scan, slot, phase, child, cut, loose, kills>>

(* The job alone is killed: what it waits for goes on. *)
KillJob(r) ==
  /\ gate[r] = "job" /\ kills < MaxKills
  /\ kills' = kills + 1
  /\ gate' = [gate EXCEPT ![r] = "gone"]
  /\ code' = [code EXCEPT ![r] = "failed"]
  /\ cut' = [cut EXCEPT ![r] = FALSE]
  /\ loose' = loose \cup {r}
  /\ UNCHANGED <<front, scan, slot, phase, child, unit>>

(* RuntimeMaxSec, MemoryMax or a stop of the request's service: every process
   in it is killed. *)
KillService(r) ==
  /\ front[r] = "waiting" /\ kills < MaxKills
  /\ kills' = kills + 1
  /\ front' = [front EXCEPT ![r] = "killed"]
  /\ gate' = [gate EXCEPT ![r] = "gone"]
  /\ child' = [child EXCEPT ![r] = "none"]
  /\ cut' = [cut EXCEPT ![r] = FALSE]
  /\ loose' = loose \cup {r}
  /\ Interrupted(r)
  /\ UNCHANGED <<code, scan, slot, phase>>

-----------------------------------------------------------------------------
Gate(r) == Start(r) \/ TakeSlot(r) \/ PassSlot(r) \/ Answer(r)
Job(r) == StartPhase(r) \/ Stop(r) \/ Finish(r)
Child(r) == Returns(r) \/ Deadline(r) \/ Stopped(r)
Environment(r) ==
  \/ \E p \in Phases(r) : UnitStarts(r, p) \/ UnitEnds(r, p)
  \/ ScanFails(r) \/ KillJob(r) \/ KillService(r)

Step(r) == Gate(r) \/ Job(r) \/ Child(r) \/ Environment(r)

(* Watches every request's pass; it has no part in the program. *)
Observe ==
  LET begins(r) == gate'[r] = "scan" /\ (gate[r] = "none" \/ polls'[r] # polls[r]) IN
  idle' = [r \in Requests |->
             IF begins(r) THEN Slots \ Locked'
             ELSE IF front'[r] = "waiting" /\ gate'[r] # "job" THEN idle[r] \ Locked'
             ELSE {}]

Next == (\E r \in Requests : Step(r)) /\ Observe

Spec == Init /\ [][Next]_vars

(* While a request has anything to do the kernel lets one of its processes do
   it: the front, the script, the job, or the `timeout` that ends what the job
   waits for.  Nothing makes a request come, nor a unit start or end. *)
Runs(r) == Gate(r) \/ Job(r) \/ Child(r)

FairSpec ==
  Spec /\ \A r \in Requests : WF_vars(front[r] # "new" /\ Runs(r) /\ Observe)

-----------------------------------------------------------------------------
(* Properties *)

TypeOK ==
  /\ front \in [Requests -> {"new", "waiting", "busy", "answered", "broken", "killed"}]
  /\ gate \in [Requests -> {"none", "scan", "job", "gone"}]
  /\ tried \in [Requests -> 0 .. SLOTS - 1]
  /\ polls \in [Requests -> 0 .. Polls]
  /\ slot \in [Requests -> 0 .. SLOTS]
  /\ code \in [Requests -> {"none", "BUSY", "done", "failed"}]
  /\ phase \in [Requests -> Nat] /\ \A r \in Requests : phase[r] <= MaxPhases[r]
  /\ child \in [Requests -> {"none", "timed", "stop"}]
  /\ cut \in [Requests -> BOOLEAN]
  /\ DOMAIN unit = Requests
  /\ \A r \in Requests :
       unit[r] \in [Phases(r) -> {"none", "starting", "running", "ended"}]
  /\ loose \subseteq Requests
  /\ kills \in 0 .. MaxKills
  /\ idle \in [Requests -> SUBSET Slots]

(* "The caller's gate permit is held until this returns": a unit that may run
   belongs to the phase of a job that holds a slot, whatever the order in
   which the phase, its deadline, its stop and the unit itself come.  What is
   left over was killed, or its stop did not succeed. *)
PermitCoversUnit ==
  \A r \in Requests \ loose : \A p \in Phases(r) :
    unit[r][p] \in {"starting", "running"} => Holds(r) /\ p = phase[r]

(* "None means the machine stayed saturated": when a request is refused, no
   slot was free all through its last pass. *)
RefusedWhenTaken == \A r \in Requests : code[r] = "BUSY" => idle[r] = {}

(* The slots are an admission pool, also when processes are killed: SLOTS
   jobs at a time, each let in and out once. *)
Pool == INSTANCE SlotPool WITH Clients <- Requests, Slots <- SLOTS
PoolSpec == Pool!Spec

(* Every request comes to an end and gives its slot back, even when a unit of
   its job never ends. *)
EveryRequestEnds ==
  \A r \in Requests : front[r] = "waiting" ~> front[r] # "waiting" /\ ~Holds(r)
=============================================================================
