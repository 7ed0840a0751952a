------------------------------ MODULE GateRun -------------------------------
(***************************************************************************)
(* One external run of the gate jobs: the controller of                    *)
(* scripts/gates-external/runner.py with its pool of worker threads, the   *)
(* local backend's run_job (backend_local.py) and the verdict of bundle.py.*)
(*                                                                         *)
(* A worker thread is at one of the program points of `run` (runner.py);   *)
(* a job is what the backend makes of it, action by action.  The two are   *)
(* kept apart because a controller may die: a RESUMABLE backend (a plugin, *)
(* not part of the repository) keeps its jobs and gives their results to   *)
(* the controller that resumes, the local one leaves the processes of the  *)
(* steps that were running and a rerun starts from nothing in the same     *)
(* directory.  What a step does is not modelled, only how it ends.         *)
(***************************************************************************)
EXTENDS Integers, Sequences, FiniteSets

CONSTANTS
  Jobs,        \* the jobs of gates.yml
  Plan,        \* Plan[j]: the actions of j, as gatesplan read them
  Needs,       \* Needs[j]: the jobs j needs
  Position,    \* Position[j]: the place of j in gates.yml
  Options,     \* the options a run may be given: the jobs of --only, whether
               \* the backend is RESUMABLE, --keep-going
  JobsOptions, \* the values --jobs may have
  MaxRuns      \* how often the run may be started (a bound for TLC)

Action == [kind : {"run", "setup", "upload"}, \* run, or the `use` it stands for
           paths : SUBSET Nat,                \* literal /tmp paths of a command
           cond : BOOLEAN]                    \* the step has an `if`

ASSUME GateRunAssumption ==
  /\ IsFiniteSet(Jobs)
  /\ Plan \in [Jobs -> Seq(Action)]
  /\ Needs \in [Jobs -> SUBSET Jobs]
  /\ Position \in [Jobs -> Nat]
  /\ \A j, k \in Jobs : Position[j] = Position[k] => j = k
  /\ Options \subseteq [only : SUBSET Jobs, resumable : BOOLEAN, keepGoing : BOOLEAN]
  /\ JobsOptions \subseteq Nat \ {0}
  /\ MaxRuns \in Nat

VARIABLES
  options,     \* args.only and the backend; given at start, never changed
  workers,     \* args.jobs
  controller,  \* the runner's process
  thread,      \* thread[j]: how far `run(j)` has come in its worker
  results,     \* results[j], as far as needs_results and the verdict read it
  done,        \* the jobs whose Event is set
  told,        \* told[j][n]: needs_results of j
  verdict,     \* what the run said in the end
  job,         \* job[j]: run_job of the backend, or the result it has
  at,          \* at[j]: the action of j it is about
  failed,      \* the jobs whose `failed` is true
  late,        \* the jobs whose deadline is known to have passed
  green,       \* the run steps recorded with exit code 0; of the others the
               \* record says another code, 124 or "not executed"
  held,        \* held[j]: the lock files the step of j holds
  proc,        \* proc[j]: the process of the step of j
  store,       \* the jobs whose artifact is in the store
  orphans,     \* orphans: the jobs of a dead controller with a process left
  passed,      \* history: the run steps a process of this run has ended well
  runs         \* history: how often the run was started

threads == <<thread, results, done, told>>
backend == <<job, at, failed, late, green, held, proc>>
fixed == <<options, workers, controller, verdict, runs, orphans>>
vars == <<options, workers, controller, thread, results, done, told, verdict,
          job, at, failed, late, green, held, proc, store, orphans,
          passed, runs>>

RunStepsOf(j) ==
  {<<j, i>> : i \in {n \in DOMAIN Plan[j] : Plan[j][n].kind = "run"}}
RunSteps == UNION {RunStepsOf(j) : j \in Jobs}

Selected == IF options.only = {} THEN Jobs ELSE options.only

Outcomes == {"ok", "failure", "crashed"}

TypeOK ==
  /\ options \in Options
  /\ workers \in JobsOptions
  /\ controller \in {"up", "dead", "done"}
  /\ thread \in [Jobs -> {"none", "queued", "waiting", "calling", "stored", "ended"}]
  /\ results \in [Jobs -> {"absent"} \cup Outcomes]
  /\ done \in SUBSET Jobs
  /\ told \in [Jobs -> [Jobs -> {"unasked", "skipped", "success", "failure"}]]
  /\ verdict \in {"none", "complete", "incomplete", "refused"}
  /\ job \in [Jobs -> {"idle", "going"} \cup Outcomes]
  /\ at \in [Jobs -> Nat]
  /\ failed \in SUBSET Jobs
  /\ late \in SUBSET Jobs
  /\ green \in SUBSET RunSteps
  /\ held \in [Jobs -> SUBSET Nat]
  /\ proc \in [Jobs -> {"none", "running", "zero", "nonzero"}]
  /\ store \in SUBSET Jobs
  /\ orphans \in SUBSET Jobs
  /\ passed \in SUBSET RunSteps
  /\ runs \in 1..(MaxRuns + 1)

(* `ordered`: the jobs without needs first, each kind in gates.yml order *)
SubmittedBefore(j, k) ==
  \/ Needs[j] = {} /\ Needs[k] # {}
  \/ (Needs[j] = {} <=> Needs[k] = {}) /\ Position[j] < Position[k]

FreshThreads(known) ==
  /\ thread' = [j \in Jobs |-> IF j \in Selected /\ j \notin known
                                 THEN "queued" ELSE "none"]
  /\ results' = [j \in Jobs |-> IF j \in known THEN job[j] ELSE "absent"]
  /\ done' = (Jobs \ Selected) \cup known
  /\ told' = [j \in Jobs |-> [n \in Jobs |-> "unasked"]]

FreshBackend ==
  /\ job' = [j \in Jobs |-> "idle"]
  /\ at' = [j \in Jobs |-> 1]
  /\ failed' = {} /\ late' = {} /\ green' = {}
  /\ held' = [j \in Jobs |-> {}]
  /\ proc' = [j \in Jobs |-> "none"]

Init ==
  /\ options \in Options
  /\ workers \in JobsOptions
  /\ controller = "up"
  /\ thread = [j \in Jobs |-> IF j \in Selected THEN "queued" ELSE "none"]
  /\ results = [j \in Jobs |-> "absent"]
  /\ done = Jobs \ Selected
  /\ told = [j \in Jobs |-> [n \in Jobs |-> "unasked"]]
  /\ verdict = "none"
  /\ job = [j \in Jobs |-> "idle"]
  /\ at = [j \in Jobs |-> 1]
  /\ failed = {} /\ late = {} /\ green = {}
  /\ held = [j \in Jobs |-> {}]
  /\ proc = [j \in Jobs |-> "none"]
  /\ store = {} /\ orphans = {} /\ passed = {}
  /\ runs = 1

-----------------------------------------------------------------------------
(* The worker threads of the controller: `run` of runner.py *)

Busy == {j \in Jobs : thread[j] \in {"waiting", "calling", "stored"}}

(* A free worker takes the first job of the executor's queue. *)
Take(j) ==
  /\ controller = "up"
  /\ thread[j] = "queued"
  /\ Cardinality(Busy) < workers
  /\ \A k \in Jobs \ {j} : thread[k] = "queued" => SubmittedBefore(j, k)
  /\ thread' = [thread EXCEPT ![j] = "waiting"]
  /\ UNCHANGED <<results, done, told, backend, fixed, store, passed>>

Result(n) == CASE results[n] = "absent" -> "skipped"
               [] results[n] = "ok" -> "success"
               [] OTHER -> "failure"

(* Every need is done: its result is looked up and the backend is called.  A
   RESUMABLE backend that has the job already waits for it. *)
Call(j) ==
  /\ controller = "up"
  /\ thread[j] = "waiting"
  /\ Needs[j] \subseteq done
  /\ told' = [told EXCEPT ![j] = [n \in Jobs |-> IF n \in Needs[j]
                                                   THEN Result(n) ELSE "unasked"]]
  /\ thread' = [thread EXCEPT ![j] = "calling"]
  /\ job' = IF job[j] = "idle" THEN [job EXCEPT ![j] = "going"] ELSE job
  /\ UNCHANGED <<results, done, at, failed, late, green, held, proc,
                 fixed, store, passed>>

(* [mutant] a job that crashed in the backend leaves no result *)
StoreNotCrashed(j) ==
  /\ controller = "up"
  /\ thread[j] = "calling"
  /\ job[j] \in Outcomes
  /\ results' = IF job[j] = "crashed" THEN results
                                      ELSE [results EXCEPT ![j] = job[j]]
  /\ thread' = [thread EXCEPT ![j] = "stored"]
  /\ UNCHANGED <<done, told, backend, fixed, store, passed>>

(* run_job has returned, or raised: "a crashed job is a failed job" *)
StoreResult(j) ==
  /\ controller = "up"
  /\ thread[j] = "calling"
  /\ job[j] \in Outcomes
  /\ results' = [results EXCEPT ![j] = job[j]]
  /\ thread' = [thread EXCEPT ![j] = "stored"]
  /\ UNCHANGED <<done, told, backend, fixed, store, passed>>

(* done[j].set(), and the worker is free again *)
SetDone(j) ==
  /\ controller = "up"
  /\ thread[j] = "stored"
  /\ done' = done \cup {j}
  /\ thread' = [thread EXCEPT ![j] = "ended"]
  /\ UNCHANGED <<results, told, backend, fixed, store, passed>>

-----------------------------------------------------------------------------
(* The backend: run_job, one action of the job after another.  A RESUMABLE
   one goes on while no controller is watching. *)

Going(j) == job[j] = "going" /\ (controller = "up" \/ options.resumable)
Current(j) == Plan[j][at[j]]
OnAction(j, kind) ==
  /\ Going(j)
  /\ at[j] \in DOMAIN Plan[j]
  /\ Current(j).kind = kind
Stopped(j) == j \in failed /\ ~options.keepGoing

Advance(j) == at' = [at EXCEPT ![j] = @ + 1]
Fail(j) == failed' = failed \cup {j}

(* The step's condition is false, or an action before it failed: a run step
   passed over is recorded as not executed. *)
PassOver(j) ==
  /\ Going(j)
  /\ at[j] \in DOMAIN Plan[j]
  /\ held[j] = {} /\ proc[j] = "none"
  /\ Current(j).cond \/ Stopped(j)
  /\ Advance(j)
  /\ UNCHANGED <<threads, job, failed, late, green, held, proc, fixed,
                 store, passed>>

(* [mutant] the locks of a step are taken in any order *)
LockAny(j) ==
  /\ OnAction(j, "run") /\ ~Stopped(j) /\ proc[j] = "none"
  /\ \E p \in Current(j).paths \ held[j] :
       /\ \A k \in Jobs : p \notin held[k]
       /\ held' = [held EXCEPT ![j] = @ \cup {p}]
  /\ UNCHANGED <<threads, job, at, failed, late, green, proc, fixed,
                 store, passed>>

(* flock on the next literal path of the command, in sorted order: steps of
   every run on the machine wait here, and no deadline bounds the wait. *)
Lock(j) ==
  /\ OnAction(j, "run") /\ ~Stopped(j) /\ proc[j] = "none"
  /\ \E p \in Current(j).paths \ held[j] :
       /\ \A q \in Current(j).paths \ held[j] : p <= q
       /\ \A k \in Jobs : p \notin held[k]
       /\ held' = [held EXCEPT ![j] = @ \cup {p}]
  /\ UNCHANGED <<threads, job, at, failed, late, green, proc, fixed,
                 store, passed>>

(* All locks are held and time is left: the command is started. *)
Exec(j) ==
  /\ OnAction(j, "run") /\ ~Stopped(j) /\ proc[j] = "none"
  /\ held[j] = Current(j).paths
  /\ j \notin late
  /\ proc' = [proc EXCEPT ![j] = "running"]
  /\ UNCHANGED <<threads, job, at, failed, late, green, held, fixed,
                 store, passed>>

(* The step is over, with an exit code or with 124: `finally` gives the
   locks back. *)
StepOver(j) ==
  /\ held' = [held EXCEPT ![j] = {}]
  /\ proc' = [proc EXCEPT ![j] = "none"]
  /\ Advance(j)
  /\ UNCHANGED <<threads, job, fixed, store, passed>>

Reap(j) ==
  /\ OnAction(j, "run")
  /\ \/ /\ proc[j] = "zero"
        /\ green' = green \cup {<<j, at[j]>>}
        /\ UNCHANGED failed
     \/ /\ proc[j] = "nonzero"
        /\ Fail(j)
        /\ UNCHANGED green
  /\ UNCHANGED late
  /\ StepOver(j)

(* The deadline of the job passes in a step, or had passed before it: the
   process group is killed, or the command is not started at all.  Either
   way the step is recorded as executed, with 124. *)
TimeOut(j) ==
  /\ OnAction(j, "run") /\ ~Stopped(j)
  /\ held[j] = Current(j).paths
  /\ late' = late \cup {j}
  /\ Fail(j)
  /\ UNCHANGED green
  /\ StepOver(j)

(* A `use` is substituted: a checkout, a toolchain, an artifact fetched *)
Setup(j) ==
  /\ OnAction(j, "setup") /\ ~Stopped(j)
  /\ Fail(j) \/ UNCHANGED failed
  /\ Advance(j)
  /\ UNCHANGED <<threads, job, late, green, held, proc, fixed, store,
                 passed>>

(* upload-artifact: refused when the name is in the store already, as after
   an earlier run in the same directory, or when there is nothing to upload *)
Upload(j) ==
  /\ OnAction(j, "upload") /\ ~Stopped(j)
  /\ \/ Fail(j) /\ UNCHANGED store
     \/ j \notin store /\ store' = store \cup {j} /\ UNCHANGED failed
  /\ Advance(j)
  /\ UNCHANGED <<threads, job, late, green, held, proc, fixed, passed>>

(* run_job returns *)
JobOver(j) ==
  /\ Going(j)
  /\ at[j] \notin DOMAIN Plan[j]
  /\ job' = [job EXCEPT ![j] = IF j \in failed THEN "failure" ELSE "ok"]
  /\ UNCHANGED <<threads, at, failed, late, green, held, proc, fixed,
                 store, passed>>

(* ... or raises, between two steps or in one (a disk that is full) *)
Crash(j) ==
  /\ Going(j)
  /\ proc[j] # "running"
  /\ job' = [job EXCEPT ![j] = "crashed"]
  /\ held' = [held EXCEPT ![j] = {}]
  /\ proc' = [proc EXCEPT ![j] = "none"]
  /\ UNCHANGED <<threads, at, failed, late, green, fixed, store, passed>>

-----------------------------------------------------------------------------
(* The processes of the steps *)

ProcessEnds(j) ==
  /\ proc[j] = "running"
  /\ \/ /\ proc' = [proc EXCEPT ![j] = "zero"]
        /\ passed' = passed \cup {<<j, at[j]>>}
     \/ /\ proc' = [proc EXCEPT ![j] = "nonzero"]
        /\ UNCHANGED passed
  /\ UNCHANGED <<threads, job, at, failed, late, green, held, fixed, store>>

OrphanEnds(j) ==
  /\ j \in orphans
  /\ orphans' = orphans \ {j}
  /\ UNCHANGED <<threads, backend, options, workers, controller, verdict,
                 store, passed, runs>>

-----------------------------------------------------------------------------
(* The controller as a whole *)

(* [mutant] the run is complete when no job it ran has failed *)
CompleteByJobs == \A j \in Jobs : results[j] \in {"absent", "ok"}

(* bundle.completeness over the steps main() hands it: those of a job
   without a result, or whose run_job crashed, count as not executed *)
Complete ==
  \A step \in RunSteps :
    results[step[1]] \in {"ok", "failure"} /\ step \in green

(* Every future has its result: the bundle is built and written, or refused *)
Finish ==
  /\ controller = "up"
  /\ \A j \in Jobs : thread[j] \in {"none", "ended"}
  /\ controller' = "done"
  /\ verdict' \in {"refused", IF Complete THEN "complete" ELSE "incomplete"}
  /\ UNCHANGED <<threads, backend, options, workers, store, orphans, passed, runs>>

(* The controller is killed, or its terminal goes.  A local step runs in a
   session of its own: the process lives on, its locks do not. *)
Kill ==
  /\ controller = "up"
  /\ controller' = "dead"
  /\ IF options.resumable
       THEN UNCHANGED <<backend, orphans>>
       ELSE /\ FreshBackend
            /\ orphans' = orphans \cup {j \in Jobs : proc[j] = "running"}
  /\ thread' = [j \in Jobs |-> "none"]
  /\ results' = [j \in Jobs |-> "absent"]
  /\ done' = {}
  /\ told' = [j \in Jobs |-> [n \in Jobs |-> "unasked"]]
  /\ UNCHANGED <<options, workers, verdict, store, passed, runs>>

Collected == {j \in Selected : job[j] \in Outcomes}

(* --resume: what has ended meanwhile is collected before a worker starts *)
Resume ==
  /\ controller = "dead" /\ options.resumable
  /\ runs <= MaxRuns
  /\ runs' = runs + 1
  /\ controller' = "up"
  /\ workers' \in JobsOptions
  /\ FreshThreads(Collected)
  /\ UNCHANGED <<backend, options, verdict, store, orphans, passed>>

(* The local backend "cannot resume a run": it is run again, in the same
   directory, whose artifacts are still there. *)
Rerun ==
  /\ controller \in {"dead", "done"} /\ ~options.resumable
  /\ runs <= MaxRuns
  /\ runs' = runs + 1
  /\ controller' = "up"
  /\ workers' \in JobsOptions
  /\ FreshThreads({})
  /\ FreshBackend
  /\ verdict' = "none"
  /\ passed' = {}
  /\ UNCHANGED <<options, store, orphans>>

Thread(j) == Take(j) \/ Call(j) \/ StoreResult(j) \/ SetDone(j)
JobStep(j) ==
  \/ PassOver(j) \/ Lock(j) \/ Exec(j) \/ Reap(j) \/ TimeOut(j)
  \/ Setup(j) \/ Upload(j) \/ JobOver(j)

Next ==
  \/ \E j \in Jobs : Thread(j) \/ JobStep(j) \/ Crash(j)
                     \/ ProcessEnds(j) \/ OrphanEnds(j)
  \/ Finish \/ Kill \/ Resume \/ Rerun

Spec == Init /\ [][Next]_vars

(* A worker and run_job go on when what they wait for is there, and the
   deadline of a job passes (TimeOut is a step of run_job).  Nothing makes a
   command end by itself. *)
Fairness ==
  /\ \A j \in Jobs : WF_vars(Thread(j)) /\ WF_vars(JobStep(j))
  /\ WF_vars(Finish)

FairSpec == Spec /\ Fairness

-----------------------------------------------------------------------------
(* Properties *)

(* A bundle says complete only if each run step of gates.yml, of the jobs
   left out by --only too, was run by this run (a controller that died and
   was resumed included) and its process ended with 0. *)
CompleteMeansGreen == verdict = "complete" => RunSteps \subseteq passed

(* What a job is told of a job it needs is how that one has ended, and
   "skipped" of those alone that --only leaves out: a crash, a collected
   result and a result stored by another thread are all seen. *)
NeedsReported ==
  \A j \in Jobs : \A n \in Needs[j] :
    told[j][n] # "unasked" =>
      told[j][n] = CASE n \notin Selected -> "skipped"
                     [] job[n] = "ok" -> "success"
                     [] OTHER -> "failure"

(* "A lock per path serialises two runs of this script on it": two steps of
   one run never use a literal path at the same time. *)
TmpSerialised ==
  \A j, k \in Jobs :
    j # k /\ proc[j] = "running" /\ proc[k] = "running"
      => Current(j).paths \cap Current(k).paths = {}

(* "a waiting job never holds a worker slot while the jobs it waits for are
   still queued": so it is as long as no needed job has needs itself. *)
Flat == \A j \in Jobs : \A n \in Needs[j] : Needs[n] = {}
SlotsNotHeld ==
  \A j \in Jobs : thread[j] = "waiting" => \A n \in Needs[j] : thread[n] # "queued"
FlatSlotsNotHeld == Flat => SlotsNotHeld

(* A run ends, whatever its commands do and however many workers it has. *)
RunEnds == controller = "up" ~> controller # "up"

(* What runner.py says of the local backend: it "runs jobs as children of
   this process, so nothing outlives it". *)
NothingOutlives == controller = "dead" /\ ~options.resumable => orphans = {}
=============================================================================
