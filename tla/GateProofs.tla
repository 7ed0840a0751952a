----------------------------- MODULE GateProofs -----------------------------
(***************************************************************************)
(* Proofs about GateRun, for any jobs, plan, needs and order in gates.yml, *)
(* any number of workers and any number of kills, resumes and reruns.      *)
(*                                                                         *)
(* The inductive invariant has one part for the controller's threads       *)
(* (Scheduled: the submission order; Reported: what results and events say *)
(* of the backend's jobs) and one for the backend (Stepping: the process   *)
(* of a job is that of its current run step and holds its locks;           *)
(* Exclusive: no lock is held twice; Honest: green steps have passed).     *)
(*                                                                         *)
(* Proofs about GateEvidence, for any commits, publishers and number of    *)
(* things done by hand.                                                    *)
(*                                                                         *)
(* The inductive invariant follows a verdict on its way: a signed and      *)
(* complete note never lies (Truthful, Noted), so a verify run that passed *)
(* is of a good commit (Verified), the bot's success status names a        *)
(* run for that very commit (Tied), a run of ci.yml skips or is green on   *)
(* everything only where the commit is good (Judged), and the guard and    *)
(* --rerun-ci read no more than that (Relied).  For the notes, a publisher *)
(* that is not behind has the remote's notes but for its own (Kept).       *)
(***************************************************************************)
EXTENDS GateRun, GateEvidence, FiniteSetTheorems, TLAPS

Scheduled ==
  \A j, k \in Jobs :
    /\ Needs[j] # {} /\ thread[j] \notin {"none", "queued"}
    /\ thread[k] = "queued"
    => Needs[k] # {}

Reported(j) ==
  /\ thread[j] # "none" => j \in Selected
  /\ job[j] # "idle" => j \in Selected
  /\ results[j] # "absent" => results[j] = job[j]
  /\ thread[j] = "stored" => results[j] # "absent"
  /\ j \in done /\ j \in Selected => results[j] # "absent"

Told(j) ==
  \A n \in Jobs :
    told[j][n] # "unasked" =>
      IF n \in Selected
        THEN /\ job[n] \in Outcomes
             /\ told[j][n] = IF job[n] = "ok" THEN "success" ELSE "failure"
        ELSE told[j][n] = "skipped"

Stepping(j) ==
  proc[j] # "none" =>
    /\ job[j] = "going"
    /\ at[j] \in DOMAIN Plan[j]
    /\ Current(j).kind = "run"
    /\ held[j] = Current(j).paths
    /\ proc[j] = "zero" => <<j, at[j]>> \in passed

Exclusive == \A j, k \in Jobs : j # k => held[j] \cap held[k] = {}

Honest ==
  /\ green \subseteq passed
  /\ verdict = "complete" => RunSteps \subseteq passed
  /\ verdict # "none" => controller = "done"

IInv ==
  /\ TypeOK
  /\ Scheduled
  /\ \A j \in Jobs : Reported(j) /\ Told(j) /\ Stepping(j)
  /\ Exclusive
  /\ Honest

-----------------------------------------------------------------------------
LEMMA Constants ==
  /\ Plan \in [Jobs -> Seq(Action)]
  /\ Needs \in [Jobs -> SUBSET Jobs]
  /\ Options \subseteq [only : SUBSET Jobs, resumable : BOOLEAN, keepGoing : BOOLEAN]
  /\ JobsOptions \subseteq Nat \ {0}
  /\ MaxRuns \in Nat
BY GateRunAssumption

LEMMA ActionAt ==
  ASSUME NEW j \in Jobs, NEW i \in DOMAIN Plan[j]
  PROVE  Plan[j][i] \in Action
BY Constants

LEMMA PathsAt ==
  ASSUME NEW j \in Jobs, NEW i \in DOMAIN Plan[j]
  PROVE  Plan[j][i].paths \in SUBSET Nat
BY ActionAt DEF Action

LEMMA StepAt ==
  ASSUME NEW j \in Jobs, NEW i \in DOMAIN Plan[j], Plan[j][i].kind = "run"
  PROVE  <<j, i>> \in RunSteps
<1>1. <<j, i>> \in RunStepsOf(j)
  BY DEF RunStepsOf
<1> QED
  BY <1>1 DEF RunSteps

LEMMA InvInit == Init => IInv
<1> SUFFICES ASSUME Init PROVE IInv
  OBVIOUS
<1>1. TypeOK
  BY Constants DEF Init, TypeOK, Selected
<1>2. Scheduled /\ Exclusive /\ Honest
  BY DEF Init, Scheduled, Exclusive, Honest
<1>3. \A j \in Jobs : Reported(j) /\ Told(j) /\ Stepping(j)
  BY Constants DEF Init, Reported, Told, Stepping, Selected
<1> QED
  BY <1>1, <1>2, <1>3 DEF IInv

-----------------------------------------------------------------------------
(* What the steps of one kind leave alone, and what one job's steps leave
   alone of another job. *)
LEMMA TypeStep == IInv /\ [Next]_vars => TypeOK'
<1> SUFFICES ASSUME TypeOK, \A j \in Jobs : Stepping(j), [Next]_vars PROVE TypeOK'
  BY DEF IInv
<1> USE Constants DEF TypeOK, Outcomes, threads, backend, fixed
<1>1. ASSUME NEW j \in Jobs, Thread(j) PROVE TypeOK'
  <2>1. CASE Take(j)
    BY <2>1 DEF Take
  <2>2. CASE Call(j)
    <3>1. \A n \in Jobs : Result(n) \in {"skipped", "success", "failure"}
      BY DEF Result
    <3> QED
      BY <3>1, <2>2 DEF Call
  <2>3. CASE StoreResult(j)
    BY <2>3 DEF StoreResult
  <2>4. CASE SetDone(j)
    BY <2>4 DEF SetDone
  <2> QED
    BY <1>1, <2>1, <2>2, <2>3, <2>4 DEF Thread
<1>2. ASSUME NEW j \in Jobs, JobStep(j) PROVE TypeOK'
  <2> USE DEF Advance, Fail
  <2>1. CASE PassOver(j)
    BY <2>1 DEF PassOver
  <2>2. CASE Lock(j)
    <3>1. Current(j).paths \in SUBSET Nat
      BY <2>2, PathsAt DEF Lock, OnAction, Current
    <3> QED
      BY <3>1, <2>2 DEF Lock
  <2>3. CASE Exec(j)
    BY <2>3 DEF Exec
  <2>4. CASE Reap(j)
    <3>1. <<j, at[j]>> \in RunSteps
      BY <2>4, StepAt DEF Reap, OnAction, Current
    <3>2. /\ StepOver(j) /\ UNCHANGED late
          /\ green' \in SUBSET RunSteps /\ failed' \in SUBSET Jobs
      BY <3>1, <2>4 DEF Reap
    <3> QED
      BY <3>2 DEF StepOver
  <2>5. CASE TimeOut(j)
    BY <2>5, SMTT(60) DEF TimeOut, StepOver
  <2>6. CASE Setup(j)
    BY <2>6 DEF Setup
  <2>7. CASE Upload(j)
    BY <2>7 DEF Upload
  <2>8. CASE JobOver(j)
    BY <2>8 DEF JobOver
  <2> QED
    BY <1>2, <2>1, <2>2, <2>3, <2>4, <2>5, <2>6, <2>7, <2>8 DEF JobStep
<1>3. ASSUME NEW j \in Jobs, Crash(j) PROVE TypeOK'
  BY <1>3 DEF Crash
<1>4. ASSUME NEW j \in Jobs, OrphanEnds(j) PROVE TypeOK'
  BY <1>4 DEF OrphanEnds
<1>5. ASSUME NEW j \in Jobs, ProcessEnds(j) PROVE TypeOK'
  <2>1. <<j, at[j]>> \in RunSteps
    BY <1>5, StepAt DEF ProcessEnds, Stepping, Current
  <2> QED
    BY <2>1, <1>5 DEF ProcessEnds
<1>6. CASE Finish
  BY <1>6 DEF Finish
<1>7. CASE Kill
  <2>1. orphans' \subseteq Jobs
    BY <1>7 DEF Kill
  <2>2. CASE options.resumable
    BY <1>7, <2>1, <2>2 DEF Kill
  <2>3. CASE ~options.resumable
    BY <1>7, <2>1, <2>3 DEF Kill, FreshBackend
  <2> QED
    BY <2>2, <2>3
<1>8. ASSUME Resume \/ Rerun PROVE TypeOK'
  <2>1. runs' \in 1..(MaxRuns + 1)
    BY <1>8 DEF Resume, Rerun
  <2>2. Collected \subseteq Jobs /\ \A j \in Collected : job[j] \in Outcomes
    BY DEF Collected, Selected
  <2>3. CASE Resume
    BY <2>1, <2>2, <2>3 DEF Resume, FreshThreads
  <2>4. CASE Rerun
    BY <2>1, <2>4 DEF Rerun, FreshThreads, FreshBackend
  <2> QED
    BY <1>8, <2>3, <2>4
<1>9. CASE UNCHANGED vars
  BY <1>9 DEF vars
<1> QED
  BY <1>1, <1>2, <1>3, <1>4, <1>5, <1>6, <1>7, <1>8, <1>9 DEF Next

(* The submission order: a thread leaves the queue only in Take, and enters
   it only when the whole run starts. *)
LEMMA ScheduledStep == IInv /\ [Next]_vars => Scheduled'
<1> SUFFICES ASSUME IInv, [Next]_vars PROVE Scheduled'
  OBVIOUS
<1> USE DEF IInv, TypeOK, Scheduled
<1>1. ASSUME NEW j \in Jobs, Take(j) PROVE Scheduled'
  BY <1>1 DEF Take, SubmittedBefore
<1>2. ASSUME NEW j \in Jobs, Call(j) \/ StoreResult(j) \/ SetDone(j) PROVE Scheduled'
  BY <1>2, SMTT(60) DEF Call, StoreResult, SetDone
<1>3. ASSUME Kill \/ Resume \/ Rerun PROVE Scheduled'
  BY <1>3 DEF Kill, Resume, Rerun, FreshThreads
<1>4. CASE UNCHANGED thread
  BY <1>4
<1>5. ASSUME NEW j \in Jobs, JobStep(j) \/ Crash(j) \/ ProcessEnds(j) \/ OrphanEnds(j)
      PROVE UNCHANGED thread
  BY <1>5 DEF JobStep, PassOver, Lock, Exec, Reap, TimeOut, StepOver, Setup,
     Upload, JobOver, Crash, ProcessEnds, OrphanEnds, threads
<1>6. Finish \/ UNCHANGED vars => UNCHANGED thread
  BY DEF Finish, vars, threads
<1> QED
  BY <1>1, <1>2, <1>3, <1>4, <1>5, <1>6 DEF Next, Thread

(* Results, events and what was told of them: a job that has ended keeps its
   outcome until everything that speaks of it is forgotten with it. *)
LEMMA ReportedStep ==
  IInv /\ [Next]_vars => \A i \in Jobs : Reported(i)' /\ Told(i)'
<1> SUFFICES ASSUME IInv, [Next]_vars, NEW i \in Jobs PROVE Reported(i)' /\ Told(i)'
  OBVIOUS
<1> USE DEF IInv, TypeOK, Reported, Told, Outcomes, Selected
<1>1. ASSUME NEW j \in Jobs, Take(j) \/ StoreResult(j) \/ SetDone(j)
      PROVE Reported(i)' /\ Told(i)'
  <2>1. CASE Take(j)
    BY <2>1 DEF Take, backend, fixed
  <2>2. CASE StoreResult(j)
    <3>1. /\ UNCHANGED <<job, done, told, options>>
          /\ results' = [results EXCEPT ![j] = job[j]]
          /\ thread' = [thread EXCEPT ![j] = "stored"]
          /\ thread[j] = "calling" /\ job[j] \in Outcomes
      BY <2>2 DEF StoreResult, backend, fixed
    <3>2. Reported(i)'
      BY <3>1
    <3>3. Told(i)'
      BY <3>1
    <3> QED
      BY <3>2, <3>3
  <2>3. CASE SetDone(j)
    BY <2>3 DEF SetDone, backend, fixed
  <2> QED
    BY <1>1, <2>1, <2>2, <2>3
<1>2. ASSUME NEW j \in Jobs, Call(j) PROVE Reported(i)' /\ Told(i)'
  <2>1. Reported(i)'
    <3>1. /\ UNCHANGED <<results, done, options>>
          /\ thread[j] = "waiting" /\ thread' = [thread EXCEPT ![j] = "calling"]
          /\ \/ job' = job
             \/ job[j] = "idle" /\ job' = [job EXCEPT ![j] = "going"]
      BY <1>2 DEF Call, fixed
    <3>2. CASE i # j
      BY <3>1, <3>2
    <3>3. CASE i = j /\ job' = job
      BY <3>1, <3>3
    <3>4. CASE i = j /\ job[j] = "idle"
      <4>1. results[j] = "absent" /\ j \in Selected
        BY <3>1, <3>4, SMTT(60)
      <4>2. results'[i] = "absent" /\ (i \in done' => i \notin Selected)
        BY <3>1, <3>4, <4>1
      <4>3. thread'[i] = "calling"
        BY <3>1, <3>4
      <4> QED
        BY <3>1, <3>4, <4>1, <4>2, <4>3
    <3> QED
      BY <3>1, <3>2, <3>3, <3>4
  <2>2. \A n \in Jobs : job[n] \in Outcomes => job'[n] = job[n]
    BY <1>2 DEF Call
  <2>3. CASE i # j
    BY <2>2, <2>3, <1>2 DEF Call, fixed
  <2>4. CASE i = j
    <3> SUFFICES ASSUME NEW n \in Needs[j]
                 PROVE  IF n \in Selected
                          THEN /\ job[n] \in Outcomes
                               /\ Result(n) = IF job[n] = "ok" THEN "success" ELSE "failure"
                          ELSE Result(n) = "skipped"
      BY <2>2, <2>4, <1>2, Constants DEF Call, fixed
    <3>1. n \in Jobs /\ n \in done
      BY <1>2, Constants DEF Call
    <3>2. CASE n \in Selected
      <4>1. results[n] # "absent" /\ results[n] = job[n]
        BY <3>1, <3>2
      <4> QED
        BY <3>1, <3>2, <4>1 DEF Result
    <3>3. CASE n \notin Selected
      <4>1. results[n] = "absent"
        BY <3>1, <3>3, SMTT(60)
      <4> QED
        BY <3>3, <4>1 DEF Result
    <3> QED
      BY <3>2, <3>3
  <2> QED
    BY <2>1, <2>3, <2>4
<1>3. ASSUME NEW j \in Jobs, PassOver(j) \/ Lock(j) \/ Exec(j) \/ Reap(j)
                             \/ TimeOut(j) \/ Setup(j) \/ Upload(j) \/ ProcessEnds(j)
      PROVE Reported(i)' /\ Told(i)'
  BY <1>3 DEF PassOver, Lock, Exec, Reap, TimeOut, StepOver, Setup, Upload,
     ProcessEnds, threads, fixed
<1>4. ASSUME NEW j \in Jobs, JobOver(j) \/ Crash(j) PROVE Reported(i)' /\ Told(i)'
  BY <1>4 DEF JobOver, Crash, Going, threads, fixed
<1>5. ASSUME NEW j \in Jobs, OrphanEnds(j) PROVE Reported(i)' /\ Told(i)'
  BY <1>5 DEF OrphanEnds, threads, backend
<1>6. CASE Finish
  BY <1>6 DEF Finish, threads, backend
<1>7. CASE Kill
  BY <1>7 DEF Kill, FreshBackend, backend
<1>8. CASE Resume
  BY <1>8 DEF Resume, FreshThreads, Collected, backend
<1>9. CASE Rerun
  BY <1>9 DEF Rerun, FreshThreads, FreshBackend
<1>10. CASE UNCHANGED vars
  BY <1>10, SMTT(60) DEF vars
<1> QED
  BY <1>1, <1>2, <1>3, <1>4, <1>5, <1>6, <1>7, <1>8, <1>9, <1>10
     DEF Next, Thread, JobStep

-----------------------------------------------------------------------------
(* The process of a job and its locks. *)
LEMMA SteppingStep ==
  IInv /\ [Next]_vars => (\A i \in Jobs : Stepping(i)') /\ Exclusive'
<1> SUFFICES ASSUME IInv, [Next]_vars
             PROVE  (\A i \in Jobs : Stepping(i)') /\ Exclusive'
  OBVIOUS
<1> USE DEF IInv, TypeOK, Stepping, Exclusive, Current
<1>1. ASSUME NEW j \in Jobs, Take(j) \/ StoreResult(j) \/ SetDone(j) \/ OrphanEnds(j)
      PROVE (\A i \in Jobs : Stepping(i)') /\ Exclusive'
  BY <1>1 DEF Take, StoreResult, SetDone, OrphanEnds, backend
<1>2. ASSUME NEW j \in Jobs, Call(j) PROVE (\A i \in Jobs : Stepping(i)') /\ Exclusive'
  BY <1>2 DEF Call
<1>3. ASSUME NEW j \in Jobs, Lock(j) PROVE (\A i \in Jobs : Stepping(i)') /\ Exclusive'
  BY <1>3 DEF Lock, threads
<1>4. ASSUME NEW j \in Jobs, PassOver(j) \/ JobOver(j) \/ Crash(j)
      PROVE (\A i \in Jobs : Stepping(i)') /\ Exclusive'
  BY <1>4, SMTT(30) DEF PassOver, JobOver, Crash, Advance, threads
<1>5. ASSUME NEW j \in Jobs, Exec(j) PROVE (\A i \in Jobs : Stepping(i)') /\ Exclusive'
  BY <1>5 DEF Exec, OnAction, Going
<1>6. ASSUME NEW j \in Jobs, Reap(j) \/ TimeOut(j)
      PROVE (\A i \in Jobs : Stepping(i)') /\ Exclusive'
  <2>1. StepOver(j) /\ passed' = passed
    BY <1>6 DEF Reap, TimeOut, StepOver
  <2> QED
    BY <2>1 DEF StepOver, Advance
<1>7. ASSUME NEW j \in Jobs, Setup(j) \/ Upload(j)
      PROVE (\A i \in Jobs : Stepping(i)') /\ Exclusive'
  BY <1>7, ZenonT(60) DEF Setup, Upload, OnAction, Advance, threads
<1>8. ASSUME NEW j \in Jobs, ProcessEnds(j)
      PROVE (\A i \in Jobs : Stepping(i)') /\ Exclusive'
  BY <1>8 DEF ProcessEnds
<1>9. CASE Finish
  BY <1>9 DEF Finish, backend
<1>10. CASE Kill
  BY <1>10 DEF Kill, FreshBackend, backend
<1>11. CASE Resume
  BY <1>11 DEF Resume, backend
<1>12. CASE Rerun
  BY <1>12 DEF Rerun, FreshBackend
<1>13. CASE UNCHANGED vars
  BY <1>13 DEF vars
<1> QED
  BY <1>1, <1>2, <1>3, <1>4, <1>5, <1>6, <1>7, <1>8, <1>9, <1>10, <1>11,
     <1>12, <1>13 DEF Next, Thread, JobStep

(* A step is green because its process was seen to end with 0, and the
   verdict speaks of green steps. *)
LEMMA HonestStep == IInv /\ [Next]_vars => Honest'
<1> SUFFICES ASSUME IInv, [Next]_vars PROVE Honest'
  OBVIOUS
<1> USE DEF IInv, Honest
<1>1. ASSUME NEW j \in Jobs, Thread(j) PROVE Honest'
  BY <1>1 DEF Thread, Take, Call, StoreResult, SetDone, backend, fixed
<1>2. ASSUME NEW j \in Jobs, PassOver(j) \/ Lock(j) \/ Exec(j) \/ TimeOut(j) \/ Setup(j)
                             \/ Upload(j) \/ JobOver(j) \/ Crash(j)
      PROVE Honest'
  BY <1>2 DEF PassOver, Lock, Exec, TimeOut, StepOver, Setup, Upload, JobOver,
     Crash, fixed
<1>3. ASSUME NEW j \in Jobs, Reap(j) PROVE Honest'
  BY <1>3 DEF Reap, StepOver, fixed, Stepping
<1>4. ASSUME NEW j \in Jobs, ProcessEnds(j) PROVE Honest'
  BY <1>4 DEF ProcessEnds, fixed
<1>5. ASSUME NEW j \in Jobs, OrphanEnds(j) PROVE Honest'
  BY <1>5 DEF OrphanEnds, backend
<1>6. CASE Finish
  <2>1. Complete => RunSteps \subseteq green
    BY DEF Complete
  <2> QED
    BY <1>6, <2>1 DEF Finish, backend
<1>7. CASE Kill
  BY <1>7 DEF Kill, FreshBackend, backend
<1>8. CASE Resume
  BY <1>8 DEF Resume, backend
<1>9. CASE Rerun
  BY <1>9 DEF Rerun, FreshBackend
<1>10. CASE UNCHANGED vars
  BY <1>10 DEF vars
<1> QED
  BY <1>1, <1>2, <1>3, <1>4, <1>5, <1>6, <1>7, <1>8, <1>9, <1>10
     DEF Next, JobStep

LEMMA InvStep == IInv /\ [Next]_vars => IInv'
BY TypeStep, ScheduledStep, ReportedStep, SteppingStep, HonestStep DEF IInv

LEMMA Invariant == Spec => []IInv
<1>1. Init => IInv
  BY InvInit
<1>2. IInv /\ [Next]_vars => IInv'
  BY InvStep
<1> QED
  BY <1>1, <1>2, PTL DEF Spec

-----------------------------------------------------------------------------
(* Every variable of the run keeps its type, whatever the plan. *)
THEOREM TypeCorrect == Spec => []TypeOK
<1>1. IInv => TypeOK
  BY DEF IInv
<1> QED
  BY <1>1, Invariant, PTL

(* "complete" is said only of a run whose every run step ended with 0. *)
THEOREM CompleteIsGreen == Spec => []CompleteMeansGreen
<1>1. IInv => CompleteMeansGreen
  BY DEF IInv, Honest, CompleteMeansGreen
<1> QED
  BY <1>1, Invariant, PTL

(* What a job is told of its needs is how they have ended. *)
THEOREM NeedsTruth == Spec => []NeedsReported
<1>1. IInv => NeedsReported
  <2> SUFFICES ASSUME IInv, NEW j \in Jobs, NEW n \in Needs[j], told[j][n] # "unasked"
               PROVE  told[j][n] = CASE n \notin Selected -> "skipped"
                                     [] job[n] = "ok" -> "success"
                                     [] OTHER -> "failure"
    BY DEF NeedsReported
  <2>1. n \in Jobs
    BY Constants
  <2>2. Told(j) /\ Reported(n)
    BY <2>1 DEF IInv
  <2>3. CASE n \in Selected
    BY <2>1, <2>2, <2>3 DEF Told
  <2>4. CASE n \notin Selected
    BY <2>1, <2>2, <2>4 DEF Told, Reported
  <2> QED
    BY <2>3, <2>4
<1> QED
  BY <1>1, Invariant, PTL

(* Two steps of one run never use the same literal path at the same time. *)
THEOREM PathsSerialised == Spec => []TmpSerialised
<1>1. IInv => TmpSerialised
  BY DEF IInv, Stepping, Exclusive, TmpSerialised
<1> QED
  BY <1>1, Invariant, PTL

(* As long as no needed job has needs, no worker waits for a queued job. *)
THEOREM FlatSlots == Spec => []FlatSlotsNotHeld
<1>1. IInv => FlatSlotsNotHeld
  <2> SUFFICES ASSUME IInv, Flat, NEW j \in Jobs, thread[j] = "waiting",
                      NEW n \in Needs[j], thread[n] = "queued"
               PROVE  FALSE
    BY DEF FlatSlotsNotHeld, SlotsNotHeld
  <2>1. n \in Jobs /\ Needs[n] = {}
    BY Constants DEF Flat
  <2> QED
    BY <2>1 DEF IInv, Scheduled
<1> QED
  BY <1>1, Invariant, PTL

-----------------------------------------------------------------------------
(* GateEvidence *)


Verified(p) ==
  /\ verify[p] \in {"passed", "posted", "success"} => target[p] \in good
  /\ stage[p] \in {"new", "noted", "rejected", "dispatching"} => verify[p] = "none"

Tied(s) ==
  status[s].bot /\ status[s].state = "success" =>
    status[s].run # NoRun /\ target[status[s].run] = s

Judged(s) ==
  /\ \A e \in Events :
       /\ ci[s][e].plan = "skip" => s \in good
       /\ ci[s][e].phase \in {"running", "green"} => ci[s][e].plan # "none"
       /\ ci[s][e].phase = "green" /\ ci[s][e].plan = "all" => s \in good
  /\ ci[s]["push"].plan \in {"none", "all"}

Relied(s) == guard[s] \in {"proven", "released"} => s \in good

VerifiedFor(s) == \E q \in Publishers : verify[q] = "success" /\ target[q] = s
Rerunning(p) ==
  stage[p] \in {"list", "cancel", "settle", "rerun", "reran"} => VerifiedFor(target[p])

OwnNote(p) == CompleteNote(target[p])
Kept(p) ==
  /\ p \notin behind => \A s \in Shas : s # target[p] => local[p][s] = remote[s]
  /\ stage[p] \in {"noted", "rejected"} => local[p][target[p]] = OwnNote(p)

(* No copy of the notes ref holds a signed and complete note that lies. *)
Truthful(notes) == \A s \in Shas : Authentic(notes[s])
Noted(p) == Truthful(local[p])

EvidenceInv ==
  /\ EvidenceTypeOK
  /\ Truthful(remote)
  /\ \A p \in Publishers : Verified(p) /\ Rerunning(p) /\ Kept(p) /\ Noted(p)
  /\ \A s \in Shas : Tied(s) /\ Judged(s) /\ Relied(s)

-----------------------------------------------------------------------------
LEMMA EvidenceInvInit == EvidenceInit => EvidenceInv
<1> SUFFICES ASSUME EvidenceInit PROVE EvidenceInv
  OBVIOUS
<1> USE GateEvidenceAssumption DEF EvidenceInit, InPhase, NoStatus, NoNotes, Events
<1>1. EvidenceTypeOK
  BY DEF EvidenceTypeOK, Stages, Notes, Note, Status, CiRun
<1>2. Truthful(remote) /\ \A p \in Publishers :
        Verified(p) /\ Rerunning(p) /\ Kept(p) /\ Noted(p)
  BY DEF Verified, Rerunning, Kept, Noted, Truthful, Authentic
<1>3. \A s \in Shas : Tied(s) /\ Judged(s) /\ Relied(s)
  BY DEF Tied, Judged, Relied
<1> QED
  BY <1>1, <1>2, <1>3 DEF EvidenceInv

LEMMA LocalType ==
  ASSUME local \in [Publishers -> Notes], NEW p \in Publishers, NEW s \in Shas,
         NEW note \in Note, local' = [local EXCEPT ![p][s] = note]
  PROVE  local' \in [Publishers -> Notes]
BY DEF Notes

LEMMA StatusType ==
  ASSUME status \in [Shas -> Status], NEW s \in Shas, NEW said \in Status,
         status' = [status EXCEPT ![s] = said]
  PROVE  status' \in [Shas -> Status]
OBVIOUS

LEMMA CiType ==
  ASSUME EvidenceTypeOK, NEW s \in Shas, NEW e \in Events, NEW run \in CiRun,
         ci' = [ci EXCEPT ![s][e] = run]
  PROVE  ci' \in [Shas -> [Events -> CiRun]]
BY DEF EvidenceTypeOK

(* An accepted status is a verdict on this commit. *)
LEMMA AcceptedGood ==
  ASSUME EvidenceInv, NEW s \in Shas, Accepted(s)
  PROVE  s \in good /\ VerifiedFor(s)
<1>1. status[s].run \in Publishers
  BY DEF Accepted, EvidenceInv, EvidenceTypeOK, Status
<1>2. target[status[s].run] = s /\ verify[status[s].run] = "success"
  BY DEF Accepted, EvidenceInv, Tied
<1> QED
  BY <1>1, <1>2 DEF EvidenceInv, Verified, VerifiedFor

-----------------------------------------------------------------------------
LEMMA EvidenceTypeStep == EvidenceTypeOK /\ [EvidenceNext]_evidenceVars => EvidenceTypeOK'
<1> SUFFICES ASSUME EvidenceTypeOK, [EvidenceNext]_evidenceVars PROVE EvidenceTypeOK'
  OBVIOUS
<1> USE GateEvidenceAssumption DEF EvidenceTypeOK, publishing, verifying, Notes, Events
<1>1. ASSUME NEW p \in Publishers, Prepare(p) \/ Push(p) \/ Merge(p) PROVE EvidenceTypeOK'
  <2> USE DEF GoTo, Stages
  <2>1. OwnNote(p) \in Note
    BY DEF OwnNote, CompleteNote, Note
  <2>2. CASE Prepare(p)
    <3>1. local' \in [Publishers -> Notes] /\ stage' \in [Publishers -> Stages]
      <4>1. stage' = [stage EXCEPT ![p] = "over"] \/ stage' = [stage EXCEPT ![p] = "noted"]
        BY <2>2 DEF Prepare
      <4>2. UNCHANGED local \/ local' = [local EXCEPT ![p][target[p]] = OwnNote(p)]
        BY <2>2 DEF Prepare, OwnNote
      <4>3. target[p] \in Shas
        OBVIOUS
      <4> QED
        BY <2>1, <4>1, <4>2, <4>3, LocalType, ZenonT(60)
    <3>2. begun' \in 0..MaxBegun
      BY <2>2 DEF Prepare
    <3> QED
      BY <2>2, <3>1, <3>2 DEF Prepare
  <2>3. CASE Push(p)
    <3>1. remote' \in Notes /\ behind' \in SUBSET Publishers
      BY <2>3 DEF Push
    <3>2. stage' \in [Publishers -> Stages]
      BY <2>3, ZenonT(60) DEF Push
    <3> QED
      BY <2>3, <3>1, <3>2 DEF Push
  <2>4. CASE Merge(p)
    BY <2>4 DEF Merge
  <2> QED
    BY <1>1, <2>2, <2>3, <2>4
<1>2. ASSUME NEW p \in Publishers, Dispatch(p) \/ Watch(p) \/ Evidence(p) \/ List(p) \/ Settle(p)
      PROVE EvidenceTypeOK'
  <2> USE DEF GoTo, Stages
  <2>1. CASE Dispatch(p)
    BY <2>1, ZenonT(60) DEF Dispatch
  <2>2. CASE Watch(p)
    BY <2>2 DEF Watch
  <2>3. CASE Evidence(p) \/ List(p) \/ Settle(p)
    BY <2>3 DEF Evidence, List, Settle
  <2> QED
    BY <1>2, <2>1, <2>2, <2>3
<1>3. ASSUME NEW p \in Publishers, Appear(p) PROVE EvidenceTypeOK'
  <2>1. watched' \in [Publishers -> Publishers \cup {NoRun}]
    BY <1>3, ZenonT(60) DEF Appear
  <2>2. stage' \in [Publishers -> Stages]
    BY <1>3 DEF Appear, GoTo, Stages
  <2> QED
    BY <2>1, <2>2, <1>3 DEF Appear
<1>4. ASSUME NEW p \in Publishers, Cancel(p) \/ RerunCi(p) PROVE EvidenceTypeOK'
  <2>1. InPhase("cancelling") \in CiRun /\ InPhase("planning") \in CiRun
    BY DEF InPhase, CiRun
  <2>2. target[p] \in Shas /\ "pull_request" \in Events
    OBVIOUS
  <2>3. stage' \in [Publishers -> Stages]
    BY <1>4, SMTT(30) DEF Cancel, RerunCi, GoTo, Stages
  <2>4. ci' \in [Shas -> [Events -> CiRun]]
    BY <2>1, <2>2, <1>4, CiType DEF Cancel, RerunCi
  <2> QED
    BY <2>3, <2>4, <1>4 DEF Cancel, RerunCi
<1>5. ASSUME NEW p \in Publishers, Verify(p) PROVE EvidenceTypeOK'
  <2>1. CASE RunAppears(p)
    <3>1. Cardinality(Runs) \in Nat
      BY FS_Subset, FS_CardinalityType DEF Runs
    <3> QED
      BY <2>1, <3>1 DEF RunAppears
  <2>2. CASE VerifyNote(p) \/ VerifyEnds(p)
    BY <2>2 DEF VerifyNote, VerifyEnds
  <2>3. CASE PostStatus(p)
    <3>1. \A state \in {"success", "failure"} :
            [state |-> state, bot |-> TRUE, run |-> p] \in Status
      BY DEF Status
    <3>2. status' \in [Shas -> Status]
      <4>1. UNCHANGED status \/ \E state \in {"success", "failure"} :
              status' = [status EXCEPT ![target[p]] =
                           [state |-> state, bot |-> TRUE, run |-> p]]
        BY <2>3 DEF PostStatus, Says
      <4>2. target[p] \in Shas
        OBVIOUS
      <4> QED
        BY <3>1, <4>1, <4>2, StatusType
    <3>3. verify' \in [Publishers -> {"none", "requested", "queued", "passed",
                                     "refused", "posted", "success", "failure"}]
      BY <2>3 DEF PostStatus
    <3> QED
      BY <3>2, <3>3, <2>3 DEF PostStatus
  <2> QED
    BY <1>5, <2>1, <2>2, <2>3 DEF Verify
<1>6. ASSUME NEW s \in Shas, Ci(s) PROVE EvidenceTypeOK'
  <2>1. \A phase \in {"planning", "cancelling", "failed"} : InPhase(phase) \in CiRun
    BY DEF InPhase, CiRun
  <2> USE CiType
  <2>2. CASE PushMain(s) \/ OpenPullRequest(s)
    <3>1. ci' \in [Shas -> [Events -> CiRun]]
      BY <2>1, <2>2 DEF PushMain, OpenPullRequest
    <3> QED
      BY <2>2, <3>1 DEF PushMain, OpenPullRequest
  <2>3. ASSUME NEW e \in Events, Supersede(s, e) PROVE EvidenceTypeOK'
    <3>1. ci' \in [Shas -> [Events -> CiRun]]
      BY <2>1, <2>3 DEF Supersede
    <3> QED
      BY <2>3, <3>1 DEF Supersede
  <2>4. ASSUME NEW e \in Events, PlanGates(s, e) PROVE EvidenceTypeOK'
    <3>1. \A plan \in Plans(s, e) : [phase |-> "running", plan |-> plan] \in CiRun
      BY DEF Plans, CiRun
    <3>2. ci' \in [Shas -> [Events -> CiRun]]
      BY <3>1, <2>4 DEF PlanGates
    <3> QED
      BY <3>2, <2>4 DEF PlanGates
  <2>5. ASSUME NEW e \in Events, CiEnds(s, e) PROVE EvidenceTypeOK'
    <3>1. [phase |-> "green", plan |-> ci[s][e].plan] \in CiRun
      BY <2>5 DEF CiRun
    <3>2. ci' \in [Shas -> [Events -> CiRun]]
      BY <2>1, <3>1, <2>5 DEF CiEnds
    <3> QED
      BY <3>2, <2>5 DEF CiEnds
  <2> QED
    BY <1>6, <2>2, <2>3, <2>4, <2>5 DEF Ci
<1>7. ASSUME NEW s \in Shas, Release(s) PROVE EvidenceTypeOK'
  BY <1>7 DEF Release, ReadRuns, Decide
<1>8. ASSUME NEW s \in Shas, ByHand(s) PROVE EvidenceTypeOK'
  <2>1. CASE NoteByHand(s)
    BY <2>1 DEF NoteByHand
  <2>2. CASE StatusByHand(s)
    <3>1. \A state \in {"success", "failure"}, run \in Runs \cup {NoRun} :
            [state |-> state, bot |-> FALSE, run |-> run] \in Status
      BY DEF Status, Runs
    <3> QED
      BY <3>1, <2>2 DEF StatusByHand
  <2> QED
    BY <1>8, <2>1, <2>2 DEF ByHand
<1>9. ASSUME NEW p \in Publishers, DispatchByHand(p) PROVE EvidenceTypeOK'
  <2>1. stage' \in [Publishers -> Stages] /\ begun' \in 0..MaxBegun
    BY <1>9 DEF DispatchByHand, GoTo, Stages
  <2> QED
    BY <1>9, <2>1 DEF DispatchByHand
<1>10. CASE UNCHANGED evidenceVars
  BY <1>10 DEF evidenceVars
<1> QED
  BY <1>1, <1>2, <1>3, <1>4, <1>5, <1>6, <1>7, <1>8, <1>9, <1>10 DEF EvidenceNext, Publish

-----------------------------------------------------------------------------
(* Which actions touch what: the lemmas below only look at those. *)
LEMMA Frame ==
  ASSUME [EvidenceNext]_evidenceVars
  PROVE  /\ target' = target /\ good' = good
         /\ \/ UNCHANGED <<verify, status>>
            \/ \E p \in Publishers : Dispatch(p) \/ DispatchByHand(p) \/ Verify(p)
            \/ \E s \in Shas : StatusByHand(s)
         /\ UNCHANGED stage \/ \E p \in Publishers : Publish(p) \/ DispatchByHand(p)
         /\ UNCHANGED guard \/ \E s \in Shas : Release(s)
         /\ \/ UNCHANGED ci
            \/ \E p \in Publishers : Cancel(p) \/ RerunCi(p)
            \/ \E s \in Shas : Ci(s)
         /\ \/ UNCHANGED <<local, behind, remote>>
            \/ \E p \in Publishers : Prepare(p) \/ Push(p) \/ Merge(p)
            \/ \E s \in Shas : NoteByHand(s)
<1> USE DEF publishing, verifying
<1>1. ASSUME NEW p \in Publishers, Publish(p) PROVE
        /\ target' = target /\ good' = good /\ UNCHANGED guard
        /\ UNCHANGED <<verify, status>> \/ Dispatch(p)
        /\ UNCHANGED ci \/ Cancel(p) \/ RerunCi(p)
        /\ UNCHANGED <<local, behind, remote>> \/ Prepare(p) \/ Push(p) \/ Merge(p)
  BY <1>1 DEF Publish, Prepare, Push, Merge, Dispatch, Appear, Watch, Evidence,
     List, Cancel, Settle, RerunCi
<1>2. ASSUME NEW p \in Publishers, Verify(p) PROVE
        UNCHANGED <<target, good, stage, guard, ci, local, behind, remote>>
  BY <1>2 DEF Verify, RunAppears, VerifyNote, PostStatus, VerifyEnds
<1>3. ASSUME NEW s \in Shas, Ci(s) PROVE
        UNCHANGED <<target, good, verify, status, stage, guard, local, behind, remote>>
  BY <1>3 DEF Ci, PushMain, OpenPullRequest, Supersede, PlanGates, CiEnds
<1>4. ASSUME NEW s \in Shas, Release(s) PROVE
        UNCHANGED <<target, good, verify, status, stage, ci, local, behind, remote>>
  BY <1>4 DEF Release, ReadRuns, Decide
<1>5. ASSUME NEW s \in Shas, ByHand(s) PROVE
        /\ UNCHANGED <<target, good, verify, stage, guard, ci, local>>
        /\ UNCHANGED status \/ StatusByHand(s)
        /\ UNCHANGED <<behind, remote>> \/ NoteByHand(s)
  BY <1>5 DEF ByHand, NoteByHand, StatusByHand
<1>6. ASSUME NEW p \in Publishers, DispatchByHand(p) PROVE
        UNCHANGED <<target, good, guard, ci, local, behind, remote>>
  BY <1>6 DEF DispatchByHand
<1>7. CASE UNCHANGED evidenceVars
  BY <1>7 DEF evidenceVars
<1> QED
  BY <1>1, <1>2, <1>3, <1>4, <1>5, <1>6, <1>7 DEF EvidenceNext

(* A verify run passes only a good commit, because the note it accepts is
   signed, of that commit and complete; and it is a success for ever. *)
LEMMA VerifiedStep ==
  EvidenceInv /\ [EvidenceNext]_evidenceVars =>
    \A p \in Publishers : Verified(p)' /\ (verify[p] = "success" => verify'[p] = "success")
<1> SUFFICES ASSUME EvidenceInv, [EvidenceNext]_evidenceVars, NEW p \in Publishers
             PROVE  Verified(p)' /\ (verify[p] = "success" => verify'[p] = "success")
  OBVIOUS
<1>1. /\ target' = target /\ good' = good /\ EvidenceTypeOK
      /\ Truthful(remote) /\ \A q \in Publishers : Verified(q)
  BY Frame DEF EvidenceInv
<1> USE <1>1 DEF Verified
<1> HIDE DEF EvidenceInv, EvidenceNext, evidenceVars
<1>2. ASSUME NEW q \in Publishers, Publish(q)
      PROVE  Verified(p)' /\ (verify[p] = "success" => verify'[p] = "success")
  <2> USE DEF EvidenceTypeOK, GoTo, verifying
  <2>1. CASE Prepare(q) \/ Push(q) \/ Merge(q)
    BY <2>1 DEF Prepare, Push, Merge
  <2>2. CASE Dispatch(q)
    BY <2>2 DEF Dispatch
  <2>3. CASE Appear(q) \/ Watch(q) \/ Evidence(q) \/ List(q)
    BY <2>3 DEF Appear, Watch, Evidence, List
  <2>4. CASE Cancel(q) \/ Settle(q) \/ RerunCi(q)
    BY <2>4 DEF Cancel, Settle, RerunCi
  <2> QED
    BY <1>2, <2>1, <2>2, <2>3, <2>4 DEF Publish
<1>3. ASSUME NEW q \in Publishers, Verify(q)
      PROVE  Verified(p)' /\ (verify[p] = "success" => verify'[p] = "success")
  <2> USE DEF EvidenceTypeOK, publishing
  <2>1. CASE RunAppears(q) \/ PostStatus(q) \/ VerifyEnds(q)
    BY <2>1 DEF RunAppears, PostStatus, VerifyEnds
  <2>2. CASE VerifyNote(q)
    <3>1. Verifies(target[q], remote[target[q]]) => target[q] \in good
      BY DEF Verifies, Truthful, Authentic
    <3> QED
      BY <2>2, <3>1 DEF VerifyNote
  <2> QED
    BY <1>3, <2>1, <2>2 DEF Verify
<1>4. CASE UNCHANGED <<verify, stage>>
  BY <1>4
<1>5. ASSUME NEW s \in Shas, Ci(s) \/ Release(s) \/ ByHand(s)
      PROVE  UNCHANGED <<verify, stage>>
  BY <1>5 DEF Ci, PushMain, OpenPullRequest, Supersede, PlanGates, CiEnds, Release,
     ReadRuns, Decide, ByHand, NoteByHand, StatusByHand, publishing, verifying
<1>6. ASSUME NEW q \in Publishers, DispatchByHand(q)
      PROVE  Verified(p)' /\ (verify[p] = "success" => verify'[p] = "success")
  BY <1>6 DEF DispatchByHand, GoTo, EvidenceTypeOK
<1> QED
  BY <1>2, <1>3, <1>4, <1>5, <1>6 DEF EvidenceNext, evidenceVars

(* The bot's success status names the run that wrote it, for its commit. *)
LEMMA TiedStep == EvidenceInv /\ [EvidenceNext]_evidenceVars => \A s \in Shas : Tied(s)'
<1> SUFFICES ASSUME EvidenceInv, [EvidenceNext]_evidenceVars, NEW s \in Shas PROVE Tied(s)'
  OBVIOUS
<1>1. target' = target /\ EvidenceTypeOK /\ Tied(s)
  BY Frame DEF EvidenceInv
<1> USE <1>1 DEF Tied
<1>2. CASE UNCHANGED status
  BY <1>2
<1>3. ASSUME NEW p \in Publishers, Dispatch(p) \/ DispatchByHand(p) \/ Verify(p)
      PROVE  Tied(s)'
  <2>1. \/ UNCHANGED status
        \/ \E state \in {"success", "failure"} :
             status' = [status EXCEPT ![target[p]] =
                          [state |-> state, bot |-> TRUE, run |-> p]]
    BY <1>3 DEF Dispatch, DispatchByHand, Verify, RunAppears, VerifyNote, PostStatus,
       Says, VerifyEnds
  <2>2. p # NoRun /\ status \in [Shas -> Status] /\ target[p] \in Shas
    BY GateEvidenceAssumption DEF EvidenceTypeOK
  <2> QED
    BY <2>1, <2>2
<1>4. ASSUME NEW t \in Shas, StatusByHand(t) PROVE Tied(s)'
  BY <1>4 DEF StatusByHand, EvidenceTypeOK
<1> QED
  BY <1>2, <1>3, <1>4, Frame

(* A run of ci.yml on one commit and event at a time *)
LEMMA JudgedStep == EvidenceInv /\ [EvidenceNext]_evidenceVars => \A s \in Shas : Judged(s)'
<1> SUFFICES ASSUME EvidenceInv, [EvidenceNext]_evidenceVars, NEW s \in Shas PROVE Judged(s)'
  OBVIOUS
<1>1. good' = good /\ ci \in [Shas -> [Events -> CiRun]] /\ Judged(s)
  BY Frame DEF EvidenceInv, EvidenceTypeOK
<1> USE <1>1 DEF Judged, Events
<1>2. CASE UNCHANGED ci
  BY <1>2
<1>3. ASSUME NEW t \in Shas, NEW e \in Events,
             NEW phase \in {"planning", "cancelling", "failed"},
             ci' = [ci EXCEPT ![t][e] = InPhase(phase)]
      PROVE  Judged(s)'
  BY <1>3, SMTT(60) DEF InPhase
<1>4. ASSUME NEW p \in Publishers, Cancel(p) \/ RerunCi(p) PROVE Judged(s)'
  <2>1. target[p] \in Shas
    BY DEF EvidenceInv, EvidenceTypeOK
  <2> QED
    BY <1>2, <1>3, <1>4, <2>1 DEF Cancel, RerunCi
<1>5. ASSUME NEW t \in Shas, Ci(t) PROVE Judged(s)'
  <2>1. CASE PushMain(t) \/ OpenPullRequest(t)
    BY <1>3, <2>1, SMTT(60) DEF PushMain, OpenPullRequest
  <2>2. ASSUME NEW e \in Events, Supersede(t, e) PROVE Judged(s)'
    <3>1. ci' = [ci EXCEPT ![t][e] = InPhase("cancelling")]
      BY <2>2, ZenonT(60) DEF Supersede
    <3> HIDE DEF Judged, Events
    <3> QED
      BY ONLY <1>3, <2>2, <3>1
  <2>3. ASSUME NEW e \in Events, PlanGates(t, e) PROVE Judged(s)'
    <3>1. PICK plan \in Plans(t, e) : ci' = [ci EXCEPT ![t][e] = [phase |-> "running", plan |-> plan]]
      BY <2>3 DEF PlanGates
    <3>2. plan = "skip" => t \in good
      BY <3>1, AcceptedGood DEF Plans
    <3>3. plan # "none" /\ (e = "push" => plan = "all")
      BY <3>1 DEF Plans
    <3> QED
      BY <3>1, <3>2, <3>3
  <2>4. ASSUME NEW e \in Events, CiEnds(t, e) PROVE Judged(s)'
    <3>1. Judged(t)
      BY SMTT(60) DEF EvidenceInv
    <3>2. CASE ci' = [ci EXCEPT ![t][e] = InPhase("failed")]
      <4> HIDE DEF Judged, Events
      <4> QED
        BY ONLY <1>3, <2>4, <3>2
    <3>3. CASE /\ CanBeGreen(t, ci[t][e].plan)
               /\ ci[t][e].phase = "running"
               /\ ci' = [ci EXCEPT ![t][e] = [phase |-> "green", plan |-> ci[t][e].plan]]
      BY <3>1, <3>3 DEF CanBeGreen
    <3> QED
      BY <2>4, <3>2, <3>3 DEF CiEnds
  <2> QED
    BY <1>5, <2>1, <2>2, <2>3, <2>4, SMTT(60) DEF Ci
<1> QED
  BY <1>2, <1>4, <1>5, Frame

(* The release guard believes a full green push run or an accepted status. *)
LEMMA ReliedStep == EvidenceInv /\ [EvidenceNext]_evidenceVars => \A s \in Shas : Relied(s)'
<1> SUFFICES ASSUME EvidenceInv, [EvidenceNext]_evidenceVars, NEW s \in Shas PROVE Relied(s)'
  OBVIOUS
<1>1. good' = good /\ guard \in [Shas -> {"none", "unproven", "proven", "released"}]
      /\ \A t \in Shas : Relied(t)
  BY Frame DEF EvidenceInv, EvidenceTypeOK
<1> USE <1>1 DEF Relied
<1>2. CASE UNCHANGED guard
  BY <1>2
<1>3. ASSUME NEW t \in Shas, ReadRuns(t) PROVE Relied(s)'
  <2>1. CiEvidence(t) => t \in good
    BY DEF EvidenceInv, Judged, CiEvidence, Events
  <2> QED
    BY <1>3, <2>1 DEF ReadRuns
<1>4. ASSUME NEW t \in Shas, Decide(t) PROVE Relied(s)'
  BY <1>4, AcceptedGood DEF Decide
<1> QED
  BY <1>2, <1>3, <1>4, Frame DEF Release

(* --rerun-ci goes on from the evidence step only with its own commit's. *)
LEMMA RerunningStep == EvidenceInv /\ [EvidenceNext]_evidenceVars => \A p \in Publishers : Rerunning(p)'
<1> SUFFICES ASSUME EvidenceInv, [EvidenceNext]_evidenceVars, NEW p \in Publishers PROVE Rerunning(p)'
  OBVIOUS
<1>1. target' = target /\ target \in [Publishers -> Shas] /\ Rerunning(p)
      /\ stage \in [Publishers -> Stages]
  BY Frame DEF EvidenceInv, EvidenceTypeOK
<1>2. \A s : VerifiedFor(s) => VerifiedFor(s)'
  BY <1>1, VerifiedStep DEF VerifiedFor
<1> USE <1>1, <1>2 DEF Rerunning, GoTo
<1>3. CASE UNCHANGED stage
  BY <1>3
<1>4. ASSUME NEW q \in Publishers, Publish(q) PROVE Rerunning(p)'
  <2>1. CASE Prepare(q) \/ Push(q) \/ Merge(q) \/ Dispatch(q)
    BY <2>1 DEF Prepare, Push, Merge, Dispatch
  <2>2. CASE Appear(q) \/ Watch(q)
    BY <2>2 DEF Appear, Watch
  <2>3. CASE Evidence(q)
    <3>1. Accepted(target[q]) => VerifiedFor(target[q])
      BY AcceptedGood
    <3> QED
      BY <2>3, <3>1 DEF Evidence
  <2>4. CASE List(q) \/ Cancel(q) \/ Settle(q) \/ RerunCi(q)
    BY <2>4 DEF List, Cancel, Settle, RerunCi
  <2> QED
    BY <1>4, <2>1, <2>2, <2>3, <2>4 DEF Publish
<1>5. ASSUME NEW q \in Publishers, DispatchByHand(q) PROVE Rerunning(p)'
  BY <1>5 DEF DispatchByHand
<1> QED
  BY <1>3, <1>4, <1>5, Frame

(* Only a publisher that is not behind writes the remote ref. *)
LEMMA KeptStep == EvidenceInv /\ [EvidenceNext]_evidenceVars => \A p \in Publishers : Kept(p)'
<1> SUFFICES ASSUME EvidenceInv, [EvidenceNext]_evidenceVars, NEW p \in Publishers PROVE Kept(p)'
  OBVIOUS
<1>1. /\ target' = target /\ target \in [Publishers -> Shas]
      /\ local \in [Publishers -> Notes] /\ remote \in Notes
      /\ stage \in [Publishers -> Stages] /\ Kept(p)
  BY Frame DEF EvidenceInv, EvidenceTypeOK
<1> USE <1>1 DEF Kept, OwnNote, GoTo, Notes
<1>2. ASSUME NEW q \in Publishers, Prepare(q) PROVE Kept(p)'
  <2>1. UNCHANGED <<behind, remote>>
    BY <1>2 DEF Prepare
  <2>2. CASE stage' = [stage EXCEPT ![q] = "over"] /\ UNCHANGED local
    BY <2>1, <2>2
  <2>3. CASE /\ stage' = [stage EXCEPT ![q] = "noted"]
             /\ local' = [local EXCEPT ![q][target[q]] = OwnNote(q)]
    <3>1. CASE p # q
      BY <2>1, <2>3, <3>1
    <3>2. CASE p = q
      <4>1. \A s \in Shas : local'[p][s] = IF s = target[p] THEN OwnNote(p) ELSE local[p][s]
        BY <2>3, <3>2
      <4> QED
        BY <2>1, <4>1
    <3> QED
      BY <3>1, <3>2
  <2> QED
    BY <1>2, <2>2, <2>3 DEF Prepare
<1>3. ASSUME NEW q \in Publishers, Push(q) PROVE Kept(p)'
  BY <1>3 DEF Push
<1>4. ASSUME NEW q \in Publishers, Merge(q) PROVE Kept(p)'
  BY <1>4 DEF Merge
<1>5. ASSUME NEW q \in Publishers, Publish(q), ~Prepare(q), ~Push(q), ~Merge(q)
      PROVE  Kept(p)'
  BY <1>5 DEF Publish, Dispatch, Appear, Watch, Evidence, List, Cancel, Settle, RerunCi
<1>6. ASSUME NEW s \in Shas, NoteByHand(s) PROVE Kept(p)'
  BY <1>6 DEF NoteByHand
<1>7. CASE UNCHANGED <<local, behind, remote, stage>>
  BY <1>7
<1>8. ASSUME NEW q \in Publishers, DispatchByHand(q) PROVE Kept(p)'
  BY <1>8 DEF DispatchByHand
<1> QED
  BY <1>2, <1>3, <1>4, <1>5, <1>6, <1>7, <1>8, Frame

(* Publishing, merging and writing by hand leave every signed and complete
   note true: publish.py refuses a bundle that is not, and the key does. *)
LEMMA TruthfulStep ==
  EvidenceInv /\ [EvidenceNext]_evidenceVars =>
    Truthful(remote)' /\ \A p \in Publishers : Noted(p)'
<1> SUFFICES ASSUME EvidenceInv, [EvidenceNext]_evidenceVars
             PROVE  Truthful(remote)' /\ \A p \in Publishers : Noted(p)'
  OBVIOUS
<1>1. /\ good' = good /\ target \in [Publishers -> Shas]
      /\ local \in [Publishers -> Notes] /\ remote \in Notes
      /\ Truthful(remote) /\ \A p \in Publishers : Noted(p)
  BY Frame DEF EvidenceInv, EvidenceTypeOK
<1> USE <1>1 DEF Truthful, Noted, Notes
<1>2. ASSUME NEW q \in Publishers, Prepare(q)
      PROVE  Truthful(remote)' /\ \A p \in Publishers : Noted(p)'
  <2>1. target[q] \in good => Authentic(CompleteNote(target[q]))
    BY DEF Authentic, CompleteNote
  <2>2. remote' = remote
    BY <1>2 DEF Prepare
  <2>3. CASE UNCHANGED local
    BY <2>2, <2>3 DEF Authentic
  <2>4. CASE /\ target[q] \in good
             /\ local' = [local EXCEPT ![q][target[q]] = CompleteNote(target[q])]
    <3>1. \A p \in Publishers, s \in Shas :
            local'[p][s] = IF p = q /\ s = target[q] THEN CompleteNote(target[q])
                                                     ELSE local[p][s]
      BY <2>4
    <3> QED
      BY <2>1, <2>2, <2>4, <3>1 DEF Authentic
  <2> QED
    BY <1>2, <2>3, <2>4 DEF Prepare
<1>3. ASSUME NEW q \in Publishers, Push(q)
      PROVE  Truthful(remote)' /\ \A p \in Publishers : Noted(p)'
  BY <1>3 DEF Push, Authentic
<1>4. ASSUME NEW q \in Publishers, Merge(q)
      PROVE  Truthful(remote)' /\ \A p \in Publishers : Noted(p)'
  <2>1. remote' = remote
    BY <1>4 DEF Merge
  <2>2. \A p \in Publishers, s \in Shas :
          local'[p][s] \in {local[p][s], remote[s]}
    BY <1>4 DEF Merge
  <2> QED
    BY <2>1, <2>2 DEF Authentic
<1>5. ASSUME NEW t \in Shas, NoteByHand(t)
      PROVE  Truthful(remote)' /\ \A p \in Publishers : Noted(p)'
  BY <1>5 DEF NoteByHand, Authentic
<1>6. CASE UNCHANGED <<local, remote>>
  BY <1>6 DEF Authentic
<1> QED
  BY <1>2, <1>3, <1>4, <1>5, <1>6, Frame

LEMMA EvidenceInvStep == EvidenceInv /\ [EvidenceNext]_evidenceVars => EvidenceInv'
BY EvidenceTypeStep, VerifiedStep, TiedStep, JudgedStep, ReliedStep, RerunningStep,
   KeptStep, TruthfulStep DEF EvidenceInv

LEMMA EvidenceInvariant == EvidenceSpec => []EvidenceInv
<1>1. EvidenceInit => EvidenceInv
  BY EvidenceInvInit
<1>2. EvidenceInv /\ [EvidenceNext]_evidenceVars => EvidenceInv'
  BY EvidenceInvStep
<1> QED
  BY <1>1, <1>2, PTL DEF EvidenceSpec

-----------------------------------------------------------------------------
(* Every variable keeps its type, with any number of publishers. *)
THEOREM EvidenceTypeCorrect == EvidenceSpec => []EvidenceTypeOK
<1>1. EvidenceInv => EvidenceTypeOK
  BY DEF EvidenceInv
<1> QED
  BY <1>1, EvidenceInvariant, PTL

(* Only commits whose whole gate set passes are released, whatever notes are
   put on the others, copied or forged, whatever is dispatched to the verifier
   and whatever statuses are posted: it rests on the signature (Authentic), on
   the three checks of the verifier (VerifiedStep) and on the bot and the run
   that a status must name (TiedStep). *)
THEOREM ReleasesJustified == EvidenceSpec => []ReleaseJustified
<1>1. EvidenceInv => ReleaseJustified
  BY DEF EvidenceInv, Relied, ReleaseJustified
<1> QED
  BY <1>1, EvidenceInvariant, PTL

(* Only runs on such commits skip the gates, by the same argument. *)
THEOREM SkipsJustified == EvidenceSpec => []SkipJustified
<1>1. EvidenceInv => SkipJustified
  BY DEF EvidenceInv, Judged, SkipJustified
<1> QED
  BY <1>1, EvidenceInvariant, PTL

(* ci.yml is re-run on the strength of its own commit's verification. *)
THEOREM RerunsTied == EvidenceSpec => []RerunTied
<1>1. EvidenceInv => RerunTied
  BY DEF EvidenceInv, Rerunning, VerifiedFor, RerunTied
<1> QED
  BY <1>1, EvidenceInvariant, PTL

(* A push replaces no other commit's note. *)
THEOREM NotesAreKept == EvidenceSpec => NotesKept
<1>1. EvidenceInv /\ [EvidenceNext]_evidenceVars => [NotesKeptStep]_evidenceVars
  <2> SUFFICES ASSUME EvidenceInv, [EvidenceNext]_evidenceVars, NEW s \in Shas, remote[s] # remote'[s]
               PROVE  begun' # begun \/ remote'[s] = CompleteNote(s)
    BY DEF NotesKeptStep
  <2>1. ASSUME NEW p \in Publishers, Push(p)
        PROVE  remote'[s] = CompleteNote(s)
    BY <2>1 DEF EvidenceInv, Kept, OwnNote, Push
  <2>2. ASSUME NEW p \in Publishers, Prepare(p) \/ Merge(p) PROVE FALSE
    BY <2>2 DEF Prepare, Merge
  <2>3. ASSUME NEW t \in Shas, NoteByHand(t) PROVE begun' # begun
    BY <2>3 DEF NoteByHand, EvidenceInv, EvidenceTypeOK
  <2> QED
    BY <2>1, <2>2, <2>3, Frame
<1> QED
  BY <1>1, EvidenceInvariant, PTL DEF EvidenceSpec, NotesKept
=============================================================================
