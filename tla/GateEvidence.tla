---------------------------- MODULE GateEvidence ----------------------------
(***************************************************************************)
(* How a complete bundle becomes evidence and what relies on it: publish.py*)
(* on the machines of the maintainer, the notes ref they share,            *)
(* verify-external.yml, the commit status it writes, the plan job of ci.yml*)
(* that skips every gate of a commit with accepted evidence, --rerun-ci    *)
(* that makes it plan again, and the release guard release_evidence.py.    *)
(*                                                                         *)
(* Whether the whole gate set of a commit passes is a fact of the commit   *)
(* (`good`), and a true bundle of it is complete just then (GateRun is     *)
(* about that).  What is at stake here is that nothing else is ever        *)
(* believed: anyone who may push can put any note on any commit, and ask   *)
(* for a verification of any commit, so all that stands between such a     *)
(* note and a skipped gate set or a release is what the verifier checks    *)
(* and whose word is taken for its verdict.  GitHub's runs are modelled by *)
(* what the API shows of them.                                             *)
(***************************************************************************)
EXTENDS Naturals, FiniteSets

CONSTANTS
  Shas,        \* the commits
  PullRequests, Pushed, Tagged,
               \* those that become the head of a pull request, that are
               \* pushed to main, and that are tagged for a release
  Publishers,  \* the uses of publish.py, each for one commit and bundle, and
               \* the runs of verify-external.yml dispatched by hand
  NoNote,      \* no note on a commit
  NoRun,       \* no run of verify-external.yml
  MaxBegun     \* uses of publish.py, and runs dispatched and notes and
               \* statuses written by hand, in all (a bound for TLC)

ASSUME GateEvidenceAssumption ==
  /\ NoNote \notin Shas
  /\ PullRequests \subseteq Shas /\ Pushed \subseteq Shas /\ Tagged \subseteq Shas
  /\ IsFiniteSet(Publishers) /\ NoRun \notin Publishers
  /\ MaxBegun \in Nat

VARIABLES
  good,      \* the commits whose whole gate set passes; never changed
  target,    \* target[p]: the commit p publishes for
  stage,     \* stage[p]: how far publish.py has come
  local,     \* local[p]: the notes of p's local ref
  behind,    \* the publishers whose local ref lacks a commit of the remote's
  watched,   \* watched[p]: the run `gh run watch` waits for
  remote,    \* the notes of the ref on GitHub
  verify,    \* verify[p]: the verify run that p dispatched, or a person
  born,      \* born[p]: the place of that run among all, by createdAt; 0: not yet
  status,    \* status[s]: the latest gates/maintainer status of s
  ci,        \* ci[s][e]: the newest run of ci.yml on s for event e
  guard,     \* guard[s]: the release workflow's `verified` job
  begun      \* how many of them there were

publishing == <<target, stage, local, behind, watched>>
verifying == <<verify, born>>
evidenceVars == <<good, target, stage, local, behind, watched, remote, verify, born,
                  status, ci, guard, begun>>

Events == {"push", "pull_request"}

(* A note: the commit its bundle names, whether the gate key signed it, and
   whether the bundle, recomputed, has every step of the gate set green *)
Note == [tree : Shas, signed : BOOLEAN, complete : BOOLEAN] \cup {NoNote}
CompleteNote(s) == [tree |-> s, signed |-> TRUE, complete |-> TRUE]

(* What the signature stands for: the holder of the gate key signs only what
   the gate runner wrote, whole sets or not.  Nobody can check that. *)
Authentic(note) ==
  note # NoNote /\ note.signed /\ note.complete => note.tree \in good
Notes == [Shas -> Note]
NoNotes == [s \in Shas |-> NoNote]

Status == [state : {"none", "success", "failure"},
           bot : BOOLEAN,                     \* written by github-actions[bot]
           run : Publishers \cup {NoRun}]     \* the run target_url names
NoStatus == [state |-> "none", bot |-> FALSE, run |-> NoRun]

(* A run of ci.yml; once it has ended without success its plan is of no
   interest any more and forgotten. *)
CiRun == [phase : {"none", "planning", "running", "cancelling", "failed", "green"},
          plan : {"none", "all", "subset", "skip"}]
InPhase(phase) == [phase |-> phase, plan |-> "none"]
Completed(run) == run.phase \in {"failed", "green"}

Stages == {"new", "noted", "rejected", "dispatching", "appear", "watch", "evidence",
           "list", "cancel", "settle", "rerun", "reran", "over"}

EvidenceTypeOK ==
  /\ good \in SUBSET Shas
  /\ target \in [Publishers -> Shas]
  /\ stage \in [Publishers -> Stages]
  /\ local \in [Publishers -> Notes]
  /\ behind \in SUBSET Publishers
  /\ watched \in [Publishers -> Publishers \cup {NoRun}]
  /\ remote \in Notes
  /\ verify \in [Publishers -> {"none", "requested", "queued", "passed", "refused",
                                "posted", "success", "failure"}]
  /\ born \in [Publishers -> Nat]
  /\ status \in [Shas -> Status]
  /\ ci \in [Shas -> [Events -> CiRun]]
  /\ guard \in [Shas -> {"none", "unproven", "proven", "released"}]
  /\ begun \in 0..MaxBegun

EvidenceInit ==
  /\ good \in SUBSET Shas
  /\ target \in [Publishers -> Shas]
  /\ stage = [p \in Publishers |-> "new"]
  /\ local = [p \in Publishers |-> NoNotes]
  /\ behind = {}
  /\ watched = [p \in Publishers |-> NoRun]
  /\ remote = NoNotes
  /\ verify = [p \in Publishers |-> "none"]
  /\ born = [p \in Publishers |-> 0]
  /\ status = [s \in Shas |-> NoStatus]
  /\ ci = [s \in Shas |-> [e \in Events |-> InPhase("none")]]
  /\ guard = [s \in Shas |-> "none"]
  /\ begun = 0

-----------------------------------------------------------------------------
(* publish.py *)

Runs == {p \in Publishers : born[p] > 0}
Newest(p) == p \in Runs /\ \A q \in Runs : born[q] <= born[p]

GoTo(p, next) == stage' = [stage EXCEPT ![p] = next]

(* prepare refuses a bundle that is not complete or not of this commit; the
   note is written to the local ref, over one that was there. *)
Prepare(p) ==
  /\ stage[p] = "new"
  /\ begun < MaxBegun
  /\ begun' = begun + 1
  /\ \/ GoTo(p, "over") /\ UNCHANGED local
     \/ /\ target[p] \in good
        /\ local' = [local EXCEPT ![p][target[p]] = CompleteNote(target[p])]
        /\ GoTo(p, "noted")
  /\ UNCHANGED <<good, target, behind, watched, remote, verifying, status, ci, guard>>

(* The push of refs/notes/gates goes through if it is a fast-forward. *)
Push(p) ==
  /\ stage[p] = "noted"
  /\ IF p \in behind
       THEN GoTo(p, "rejected") /\ UNCHANGED <<remote, behind>>
       ELSE /\ remote' = local[p]
            /\ behind' = Publishers \ {p}
            /\ GoTo(p, "dispatching")
  /\ UNCHANGED <<good, target, local, watched, verifying, status, ci, guard, begun>>

(* What the refusal asks for: fetch the remote's notes, merge, publish again *)
Merge(p) ==
  /\ stage[p] = "rejected"
  /\ behind' = behind \ {p}
  /\ local' = [local EXCEPT ![p] = [remote EXCEPT ![target[p]] = local[p][target[p]]]]
  /\ GoTo(p, "noted")
  /\ UNCHANGED <<good, target, watched, remote, verifying, status, ci, guard, begun>>

(* `gh workflow run`, which may fail; with --rerun-ci it does not end there. *)
Dispatch(p) ==
  /\ stage[p] = "dispatching"
  /\ \/ GoTo(p, "over") /\ UNCHANGED verify
     \/ /\ verify' = [verify EXCEPT ![p] = "requested"]
        /\ \E next \in {"appear", "over"} : GoTo(p, next)
  /\ UNCHANGED <<good, target, local, behind, watched, remote, born,
                 status, ci, guard, begun>>

(* The newest dispatch run is the one to watch, whoever dispatched it: one
   older than the dispatch too, by CLOCK_SLACK and by the time from
   dispatched_at to the dispatch.  If none appears for APPEAR_TIMEOUT, that
   is the end. *)
Appear(p) ==
  /\ stage[p] = "appear"
  /\ \/ /\ \E q \in Publishers : Newest(q) /\ watched' = [watched EXCEPT ![p] = q]
        /\ GoTo(p, "watch")
     \/ born[p] = 0 /\ GoTo(p, "over") /\ UNCHANGED watched
  /\ UNCHANGED <<good, target, local, behind, remote, verifying, status,
                 ci, guard, begun>>

(* `gh run watch` ends, with the run or before it; `gh run view` says which *)
Watch(p) ==
  /\ stage[p] = "watch"
  /\ GoTo(p, IF verify[watched[p]] = "success" THEN "evidence" ELSE "over")
  /\ watched' = [watched EXCEPT ![p] = NoRun]
  /\ UNCHANGED <<good, target, local, behind, remote, verifying,
                 status, ci, guard, begun>>

(* [mutant] whoever posted the status *)
AcceptedFromAnyone(s) ==
  /\ status[s].state = "success"
  /\ status[s].run # NoRun
  /\ verify[status[s].run] = "success"

(* release_evidence.external_evidence: the latest status, and the run it
   names as it is now *)
Accepted(s) ==
  /\ status[s].state = "success"
  /\ status[s].bot
  /\ status[s].run # NoRun
  /\ verify[status[s].run] = "success"

(* [mutant] a green verify run is enough *)
EvidenceByRun(p) ==
  /\ stage[p] = "evidence"
  /\ GoTo(p, "list") \/ GoTo(p, "over")
  /\ UNCHANGED <<good, target, local, behind, watched, remote, verifying,
                 status, ci, guard, begun>>

(* "the status check below is what ties the verdict to this sha either way" *)
Evidence(p) ==
  /\ stage[p] = "evidence"
  /\ \/ Accepted(target[p]) /\ GoTo(p, "list")
     \/ GoTo(p, "over")                          \* refused, or unreadable
  /\ UNCHANGED <<good, target, local, behind, watched, remote, verifying,
                 status, ci, guard, begun>>

PullRequest(s) == ci[s]["pull_request"]

List(p) ==
  /\ stage[p] = "list"
  /\ GoTo(p, CASE PullRequest(target[p]).phase = "none" -> "over"
               [] Completed(PullRequest(target[p])) -> "rerun"
               [] OTHER -> "cancel")
  /\ UNCHANGED <<good, target, local, behind, watched, remote, verifying,
                 status, ci, guard, begun>>

(* `gh run cancel`; GitHub refuses it of a run that has ended meanwhile. *)
Cancel(p) ==
  /\ stage[p] = "cancel"
  /\ IF Completed(PullRequest(target[p]))
       THEN GoTo(p, "over") /\ UNCHANGED ci
       ELSE /\ ci' = [ci EXCEPT ![target[p]]["pull_request"] = InPhase("cancelling")]
            /\ GoTo(p, "settle")
  /\ UNCHANGED <<good, target, local, behind, watched, remote, verifying,
                 status, guard, begun>>

(* The cancelled run has ended, or has not within SETTLE_TIMEOUT. *)
Settle(p) ==
  /\ stage[p] = "settle"
  /\ GoTo(p, IF Completed(PullRequest(target[p])) THEN "rerun" ELSE "over")
  /\ UNCHANGED <<good, target, local, behind, watched, remote, verifying,
                 status, ci, guard, begun>>

(* `gh run rerun`: a new attempt; refused of a run that is going. *)
RerunCi(p) ==
  /\ stage[p] = "rerun"
  /\ IF Completed(PullRequest(target[p]))
       THEN /\ ci' = [ci EXCEPT ![target[p]]["pull_request"] = InPhase("planning")]
            /\ GoTo(p, "reran")
       ELSE GoTo(p, "over") /\ UNCHANGED ci
  /\ UNCHANGED <<good, target, local, behind, watched, remote, verifying,
                 status, guard, begun>>

-----------------------------------------------------------------------------
(* verify-external.yml *)

RunAppears(p) ==
  /\ verify[p] = "requested"
  /\ verify' = [verify EXCEPT ![p] = "queued"]
  /\ born' = [born EXCEPT ![p] = Cardinality(Runs) + 1]
  /\ UNCHANGED <<good, publishing, remote, status, ci, guard, begun>>

(* [mutant] whatever commit the bundle is of *)
VerifiesAnyCommits(s, note) == note # NoNote /\ note.signed /\ note.complete

(* [mutant] whoever signed it *)
VerifiesUnsigned(s, note) == note # NoNote /\ note.tree = s /\ note.complete

(* [mutant] whatever its steps ended with *)
VerifiesRed(s, note) == note # NoNote /\ note.signed /\ note.tree = s

(* verify_note.verify_envelope: signed, of this commit, and complete *)
Verifies(s, note) ==
  note # NoNote /\ note.signed /\ note.tree = s /\ note.complete

(* The notes are fetched and the note is verified; a fetch may fail. *)
VerifyNote(p) ==
  /\ verify[p] = "queued"
  /\ \/ verify' = [verify EXCEPT ![p] = "refused"]
     \/ /\ Verifies(target[p], remote[target[p]])
        /\ verify' = [verify EXCEPT ![p] = "passed"]
  /\ UNCHANGED <<good, publishing, remote, born, status, ci, guard, begun>>

Says(p, state) ==
  status' = [status EXCEPT ![target[p]] = [state |-> state, bot |-> TRUE, run |-> p]]

(* The status step runs always; a job that cannot write it has failed. *)
PostStatus(p) ==
  /\ verify[p] \in {"passed", "refused"}
  /\ \/ /\ verify[p] = "passed"
        /\ Says(p, "success")
        /\ verify' = [verify EXCEPT ![p] = "posted"]
     \/ /\ (verify[p] = "refused" /\ Says(p, "failure")) \/ UNCHANGED status
        /\ verify' = [verify EXCEPT ![p] = "failure"]
  /\ UNCHANGED <<good, publishing, remote, born, ci, guard, begun>>

VerifyEnds(p) ==
  /\ verify[p] = "posted"
  /\ verify' = [verify EXCEPT ![p] = "success"]
  /\ UNCHANGED <<good, publishing, remote, born, status, ci, guard, begun>>

-----------------------------------------------------------------------------
(* ci.yml and the plan job of gates.yml *)

Underway(run) == run.phase \in {"planning", "running"}

PushMain(s) ==
  /\ s \in Pushed
  /\ ci[s]["push"].phase = "none"
  /\ ci' = [ci EXCEPT ![s]["push"] = InPhase("planning")]
  /\ UNCHANGED <<good, publishing, remote, verifying, status, guard, begun>>

OpenPullRequest(s) ==
  /\ s \in PullRequests
  /\ PullRequest(s).phase = "none"
  /\ ci' = [ci EXCEPT ![s]["pull_request"] = InPhase("planning")]
  /\ UNCHANGED <<good, publishing, remote, verifying, status, guard, begun>>

(* A later commit is pushed to the same ref: the run is superseded and
   cancelled (cancel-in-progress). *)
Supersede(s, e) ==
  /\ Underway(ci[s][e])
  /\ ci' = [ci EXCEPT ![s][e] = InPhase("cancelling")]
  /\ UNCHANGED <<good, publishing, remote, verifying, status, guard, begun>>

(* Only a pull request reads evidence; anything short of acceptance, a read
   that hangs among it, plans as before: a subset, or all. *)
Plans(s, e) ==
  IF e = "push" THEN {"all"}
  ELSE {"all", "subset"} \cup (IF Accepted(s) THEN {"skip"} ELSE {})

PlanGates(s, e) ==
  /\ ci[s][e].phase = "planning"
  /\ \E plan \in Plans(s, e) :
       ci' = [ci EXCEPT ![s][e] = [phase |-> "running", plan |-> plan]]
  /\ UNCHANGED <<good, publishing, remote, verifying, status, guard, begun>>

(* What a plan can end with: a skipped job counts as success, and a subset may
   be green where the whole set is not.  A cancelled run has no verdict. *)
CanBeGreen(s, plan) == plan \in {"subset", "skip"} \/ s \in good
CanFail(plan) == plan # "skip"

CiEnds(s, e) ==
  /\ \/ /\ \/ ci[s][e].phase = "cancelling"
           \/ ci[s][e].phase = "running" /\ CanFail(ci[s][e].plan)
        /\ ci' = [ci EXCEPT ![s][e] = InPhase("failed")]
     \/ /\ ci[s][e].phase = "running" /\ CanBeGreen(s, ci[s][e].plan)
        /\ ci' = [ci EXCEPT ![s][e] = [phase |-> "green", plan |-> ci[s][e].plan]]
  /\ UNCHANGED <<good, publishing, remote, verifying, status, guard, begun>>

-----------------------------------------------------------------------------
(* The `verified` job of release.yml: release_evidence.decide, which reads
   the runs first and the status after them *)

(* [mutant] any successful run will do, as until 2026-09-23 *)
AnyRunEvidence(s) == \E e \in Events : ci[s][e].phase = "green"

(* ci_evidence: a green push run, none of whose jobs was skipped *)
CiEvidence(s) ==
  /\ ci[s]["push"].phase = "green"
  /\ ci[s]["push"].plan # "skip"

ReadRuns(s) ==
  /\ s \in Tagged
  /\ guard[s] = "none"
  /\ guard' = [guard EXCEPT ![s] = IF CiEvidence(s) THEN "proven" ELSE "unproven"]
  /\ UNCHANGED <<good, publishing, remote, verifying, status, ci, begun>>

Decide(s) ==
  /\ guard[s] \in {"proven", "unproven"}
  /\ guard' = [guard EXCEPT ![s] = IF guard[s] = "proven" \/ Accepted(s)
                                     THEN "released" ELSE "none"]
  /\ UNCHANGED <<good, publishing, remote, verifying, status, ci, begun>>

-----------------------------------------------------------------------------
(* What people do: a verification dispatched by hand, a note written or
   copied by hand, a status posted with a person's token *)

(* `gh workflow run`, or the button: any commit, whatever note it has *)
DispatchByHand(p) ==
  /\ stage[p] = "new"
  /\ begun < MaxBegun
  /\ begun' = begun + 1
  /\ GoTo(p, "over")
  /\ verify' = [verify EXCEPT ![p] = "requested"]
  /\ UNCHANGED <<good, target, local, behind, watched, remote, born,
                 status, ci, guard>>

NoteByHand(s) ==
  /\ begun < MaxBegun
  /\ begun' = begun + 1
  /\ \E note \in Note \ {NoNote} :
       /\ Authentic(note)
       /\ remote' = [remote EXCEPT ![s] = note]
  /\ behind' = Publishers
  /\ UNCHANGED <<good, target, stage, local, watched, verifying, status, ci, guard>>

StatusByHand(s) ==
  /\ begun < MaxBegun
  /\ begun' = begun + 1
  /\ \E state \in {"success", "failure"}, run \in Runs \cup {NoRun} :
       status' = [status EXCEPT ![s] = [state |-> state, bot |-> FALSE, run |-> run]]
  /\ UNCHANGED <<good, publishing, remote, verifying, ci, guard>>

Publish(p) ==
  \/ Prepare(p) \/ Push(p) \/ Merge(p) \/ Dispatch(p) \/ Appear(p) \/ Watch(p)
  \/ Evidence(p) \/ List(p) \/ Cancel(p) \/ Settle(p) \/ RerunCi(p)
Verify(p) == RunAppears(p) \/ VerifyNote(p) \/ PostStatus(p) \/ VerifyEnds(p)
Ci(s) ==
  \/ PushMain(s) \/ OpenPullRequest(s)
  \/ \E e \in Events : Supersede(s, e) \/ PlanGates(s, e) \/ CiEnds(s, e)
Release(s) == ReadRuns(s) \/ Decide(s)
ByHand(s) == NoteByHand(s) \/ StatusByHand(s)

EvidenceNext ==
  \/ \E p \in Publishers : Publish(p) \/ Verify(p) \/ DispatchByHand(p)
  \/ \E s \in Shas : Ci(s) \/ Release(s) \/ ByHand(s)

EvidenceSpec == EvidenceInit /\ [][EvidenceNext]_evidenceVars

-----------------------------------------------------------------------------
(* Properties *)

(* A release goes out only of a commit whose whole gate set passes: what a
   subset, a skipped run, a status by hand, a note that the gate key did not
   sign, a bundle with a red step or another commit's bundle says is never
   taken for it, though each of them may be put on the commit and submitted
   to the verifier. *)
ReleaseJustified == \A s \in Shas : guard[s] = "released" => s \in good

(* A run of ci.yml skips every gate only of such a commit: no note, dispatch
   or status by hand makes the plan job skip the gates of any other. *)
SkipJustified == \A s \in Shas : \A e \in Events : ci[s][e].plan = "skip" => s \in good

(* --rerun-ci re-runs ci.yml of a commit only after that commit's own
   verification, though the run it watched may have been another's. *)
RerunTied ==
  \A p \in Publishers : stage[p] = "reran" =>
    \E q \in Publishers : verify[q] = "success" /\ target[q] = target[p]

(* No commit loses its note to a publisher of another commit. *)
NotesKeptStep ==
  \A s \in Shas : remote[s] # remote'[s] =>
    begun' # begun \/ remote'[s] = CompleteNote(s)
NotesKept == [][NotesKeptStep]_evidenceVars

(* What publish.py says of --rerun-ci: it "waits for the verify-external run
   it dispatched". *)
WatchesItsOwn == \A p \in Publishers : watched[p] \in {NoRun, p}
=============================================================================
