---------------------------- MODULE UrlDepsProofs ----------------------------
(***************************************************************************)
(* Proofs about the package cache and about the resolver that uses it, for *)
(* any processes, urls, trees, projects and manifests, and any number of   *)
(* faults and requests.                                                    *)
(*                                                                         *)
(* The cache.  The inductive invariant IInv has one part about the records *)
(* (Recorded: every url in one was seen to produce the hash) and, for each *)
(* process, what it knows where it is: the tree it has fetched was seen    *)
(* (Observed), the record it is about to write is true (HaveObserved), its *)
(* requirement's hash was seen once only the subdir is left to look for    *)
(* (Guarded), the entry was found intact (Checked) or there (Standing)     *)
(* and, unless people touch it, still is.  Other processes do no harm to   *)
(* any of this because of how they change what is shared (OthersKept).     *)
(*                                                                         *)
(* The resolver.  DInv adds, for each builder, what its run knows: which   *)
(* of its requests failed (Remembers), that it waits for the dependency it *)
(* has in hand (Asking), that all the visited directories ask for has been *)
(* recorded (Coverage) under the name the packages give themselves         *)
(* (Recordings, Namings), why a version was picked (Selections), and that  *)
(* whatever is linked, or about to be, has claimed its name (Stack,        *)
(* Linked).  A builder's run is its own: what it knows of the cache is     *)
(* only what it was answered.                                              *)
(***************************************************************************)
EXTENDS UrlDeps, WellFoundedInduction, TLAPS

-----------------------------------------------------------------------------
(* PART ONE: THE CACHE *)


Early == {"idle", "asked", "ensure", "verify", "origin", "fetch"}
Late == {"publish", "rename", "refused", "adopt", "record", "truncate", "write"}

Recorded == \A h \in Hashes : \A u \in origins[h] : h \in saw[u]

Located(p) ==
  /\ pc[p] \in Early => got[p] = NoHash
  /\ pc[p] \in Late => got[p] # NoHash
  /\ pc[p] \in {"asked", "ensure", "verify", "origin", "again"} => purpose[p] # "add"
  /\ pc[p] # "idle" /\ purpose[p] # "add" => want[p].hash \in Hashes
  /\ pc[p] = "verify" => purpose[p] = "hit"
  /\ pc[p] = "origin" => purpose[p] \in {"warm", "hit"}

Observed(p) == got[p] # NoHash => got[p] \in saw[want[p].url]
HaveObserved(p) ==
  pc[p] \in {"truncate", "write"} => \A u \in have[p] : got[p] \in saw[u]
Guarded(p) ==
  pc[p] = "again" \/ (Resolved(p) /\ purpose[p] # "add")
    => want[p].hash \in saw[want[p].url]

Good(p) ==
  /\ Subject(p) \in Hashes
  /\ entry[Subject(p)] = "intact" \/ Subject(p) \in touched[p]
Checked(p) ==
  \/ pc[p] \in {"record", "truncate", "write", "again"}
  \/ pc[p] = "origin" /\ purpose[p] = "hit"
  \/ Resolved(p) /\ (purpose[p] # "warm" \/ got[p] # NoHash)
  => Good(p)
Standing(p) ==
  pc[p] \in {"verify", "refused", "adopt"}
    => /\ Subject(p) \in Hashes
       /\ Present(Subject(p)) \/ Subject(p) \in touched[p]
Caused(p) ==
  pc[p] = "answered" /\ answer[p].diag = "mirror" =>
    \/ offline[p]
    \/ purpose[p] # "add" /\ got[p] \notin {NoHash, want[p].hash}
    \/ Subject(p) \in touched[p]
    \/ Subject(p) \in Hashes /\ entry[Subject(p)] = "damaged"

Local(p) ==
  /\ Located(p) /\ Observed(p) /\ HaveObserved(p) /\ Guarded(p)
  /\ Checked(p) /\ Standing(p) /\ Caused(p)

IInv == TypeOK /\ Recorded /\ \A p \in Procs : Local(p)

-----------------------------------------------------------------------------
LEMMA NothingType == Nothing \in Request /\ Nothing.hash = NoHash /\ Nothing.sub = Whole
BY CacheAssumption DEF Nothing, Request, Served

LEMMA NoAnswerType == NoAnswer \in Answer /\ ~NoAnswer.found /\ NoAnswer.diag = "none"
BY DEF NoAnswer, Answer

LEMMA InvInit == Init => IInv
<1> SUFFICES ASSUME Init PROVE IInv
  OBVIOUS
<1> USE CacheAssumption, NothingType, NoAnswerType DEF Init
<1>1. PICK w \in Worlds : /\ entry = w.entry /\ origins = w.origins /\ serves = w.serves
                          /\ saw = [u \in Urls |-> {h \in Hashes : u \in w.origins[h]}]
  OBVIOUS
<1>2. /\ entry \in [Hashes -> Trees] /\ origins \in [Hashes -> SUBSET Urls]
      /\ serves \in [Urls -> Served] /\ saw \in [Urls -> SUBSET Hashes]
  BY <1>1
<1>3. TypeOK
  BY <1>2 DEF TypeOK, Served
<1>4. Recorded
  BY <1>1, <1>2 DEF Recorded
<1>5. ASSUME NEW p \in Procs PROVE Local(p)
  BY DEF Local, Located, Observed, HaveObserved, Guarded, Resolved, Checked, Standing,
         Caused, Early, Late
<1> QED
  BY <1>3, <1>4, <1>5 DEF IInv

-----------------------------------------------------------------------------
(* What a step of p leaves alone or only adds to *)
OthersKept(p) ==
  /\ \A q \in Procs \ {p} :
       /\ pc'[q] = pc[q] /\ want'[q] = want[q] /\ purpose'[q] = purpose[q]
       /\ got'[q] = got[q] /\ have'[q] = have[q] /\ answer'[q] = answer[q]
       /\ offline'[q] = offline[q] /\ touched'[q] = touched[q]
  /\ \A h \in Hashes : entry'[h] = entry[h] \/ (entry[h] = "absent" /\ entry'[h] = "intact")
  /\ \A u \in Urls : saw[u] \subseteq saw'[u]

LEMMA Others ==
  ASSUME IInv, NEW p \in Procs, OthersKept(p), NEW q \in Procs \ {p}
  PROVE  Local(q)'
<1> USE DEF IInv, OthersKept, Local
<1>0. /\ want[q].url \in Urls /\ have[q] \subseteq Urls /\ TypeOK /\ Local(q)
  BY DEF TypeOK, Request
<1>1. Located(q)'
  BY <1>0 DEF Located
<1>2. Observed(q)' /\ HaveObserved(q)' /\ Guarded(q)'
  BY <1>0 DEF Observed, HaveObserved, Guarded, Resolved
<1>3. Subject(q)' = Subject(q)
  BY DEF Subject
<1>4. Checked(q)'
  BY <1>0, <1>3 DEF Checked, Good, Resolved
<1>5. Standing(q)'
  BY <1>0, <1>3 DEF Standing, Present
<1>6. Caused(q)'
  BY <1>0, <1>3 DEF Caused
<1> QED
  BY <1>1, <1>2, <1>4, <1>5, <1>6
-----------------------------------------------------------------------------
(* The steps of one process *)
StepKeeps(p) == TypeOK' /\ Recorded' /\ OthersKept(p) /\ Local(p)'

(* What the ways for a step to end do to pc, mirrors, subdirs and answer *)
Labels == Early \cup Late \cup {"again", "answered"}

Ends(p) ==
  /\ pc' \in [Procs -> Labels] /\ \A q \in Procs \ {p} : pc'[q] = pc[q]
  /\ mirrors' \in [Procs -> SUBSET (Hashes \X Urls)]
  /\ subdirs' \in [Procs -> SUBSET (Hashes \X Subdirs)]
  /\ answer' \in [Procs -> Answer] /\ \A q \in Procs \ {p} : answer'[q] = answer[q]

LEMMA GotoEnds ==
  ASSUME TypeOK, NEW p \in Procs, NEW label \in Labels, Goto(p, label) PROVE Ends(p)
BY DEF TypeOK, Goto, Ends, Labels, Early, Late

LEMMA AnswersEnd ==
  ASSUME TypeOK, NEW p \in Procs, NEW a \in Answer, Answers(p, a)
  PROVE  /\ pc' \in [Procs -> Labels] /\ \A q \in Procs \ {p} : pc'[q] = pc[q]
         /\ answer' \in [Procs -> Answer] /\ \A q \in Procs \ {p} : answer'[q] = answer[q]
<1> USE DEF TypeOK, Answers
<1>1. pc' \in [Procs -> Labels] /\ \A q \in Procs \ {p} : pc'[q] = pc[q]
  BY DEF Labels, Early, Late
<1>2. answer' \in [Procs -> Answer] /\ \A q \in Procs \ {p} : answer'[q] = answer[q]
  OBVIOUS
<1> QED
  BY <1>1, <1>2

LEMMA KnownEnds ==
  ASSUME TypeOK, NEW p \in Procs, NEW ok \in BOOLEAN, Known(p, ok) PROVE Ends(p)
<1>1. [found |-> FALSE, diag |-> "none", mirror_ok |-> ok] \in Answer
  BY DEF Answer
<1> QED
  BY <1>1, AnswersEnd DEF Known, Ends, TypeOK

LEMMA FoundEnds == ASSUME TypeOK, NEW p \in Procs, Found(p) PROVE Ends(p)
<1>1. [found |-> TRUE, diag |-> "none", mirror_ok |-> TRUE] \in Answer
  BY DEF Answer
<1> QED
  BY <1>1, AnswersEnd DEF Found, Ends, TypeOK

LEMMA FailsEnds ==
  ASSUME TypeOK, NEW p \in Procs, Fails(p), purpose[p] # "add" => want[p].hash \in Hashes
  PROVE  Ends(p)
<1>1. [found |-> FALSE, diag |-> "mirror", mirror_ok |-> FALSE] \in Answer
  BY DEF Answer
<1>2. mirrors' \in [Procs -> SUBSET (Hashes \X Urls)]
  BY DEF TypeOK, Fails, Request
<1> QED
  BY <1>1, <1>2, AnswersEnd DEF Fails, Ends, TypeOK

LEMMA OriginOkEnds == ASSUME TypeOK, NEW p \in Procs, OriginOk(p) PROVE Ends(p)
BY FoundEnds, GotoEnds DEF OriginOk, Labels

LEMMA FetchedEnds ==
  ASSUME TypeOK, NEW p \in Procs, Fetched(p), purpose[p] # "add" => want[p].hash \in Hashes
  PROVE  Ends(p)
BY FoundEnds, OriginOkEnds, FailsEnds DEF Fetched

(* With the end of a step known, the rest of it is quickly typed. *)
LEMMA StepEnds ==
  ASSUME TypeOK, NEW p \in Procs, Ends(p),
         entry' \in [Hashes -> Trees], origins' \in [Hashes -> SUBSET Urls],
         saw' \in [Urls -> SUBSET Hashes], purpose' \in [Procs -> {"warm", "hit", "cold", "add"}],
         got' \in [Procs -> Served], have' \in [Procs -> SUBSET Urls],
         offline' \in [Procs -> BOOLEAN], UNCHANGED <<serves, faults, want, touched>>
  PROVE  TypeOK'
BY DEF TypeOK, Ends, Labels, Early, Late

LEMMA LookKeeps == ASSUME IInv, NEW p \in Procs, Look(p) PROVE StepKeeps(p)
<1>0. TypeOK /\ Recorded /\ Local(p)
  BY DEF IInv
<1>1. Ends(p)
  BY <1>0, GotoEnds, KnownEnds DEF Look, Labels, Early, Late, Local, Located, Present, RootPresent
<1>2. TypeOK'
  BY <1>0, <1>1, StepEnds, ZenonT(60) DEF Look, disk, world, TypeOK, Trees, Served, Local, Located, Early, Late
<1>3. OthersKept(p)
  <2>1. \A h \in Hashes : entry'[h] = entry[h] \/ (entry[h] = "absent" /\ entry'[h] = "intact")
    BY <1>0 DEF Look, disk, world, TypeOK, Present, Trees
  <2>2. \A u \in Urls : saw[u] \subseteq saw'[u]
    BY <1>0 DEF Look, disk, world, TypeOK
  <2> QED
    BY <1>0, <1>1, <2>1, <2>2, ZenonT(60) DEF OthersKept, Ends, TypeOK, Look, disk, world
<1> USE CacheAssumption DEF Look, disk, world, Goto, Known, Answers
<1>4. Recorded'
  BY <1>0 DEF Recorded, TypeOK, Local, Observed, HaveObserved, Request, Served
<1>5. Located(p)'
  BY <1>0, <1>2 DEF Local, Located, TypeOK, Early, Late, Served, Present, RootPresent
<1>6. Observed(p)' /\ HaveObserved(p)' /\ Guarded(p)'
  BY <1>0, <1>2 DEF Local, Located, Observed, HaveObserved, Guarded, Resolved, TypeOK,
                    Early, Late, Served, Request, Recorded
<1>7. Checked(p)' /\ Standing(p)'
  BY <1>0, <1>2 DEF Local, Located, Checked, Standing, Good, Subject, Present, Resolved,
                    TypeOK, Early, Late, Served, Request, RootPresent
<1>8. Caused(p)'
  BY <1>0, <1>2 DEF Local, Located, Checked, Standing, Caused, Good, Subject, Present, Trees,
                    TypeOK, Early, Late, Served, Request
<1> QED
  BY <1>2, <1>3, <1>4, <1>5, <1>6, <1>7, <1>8 DEF StepKeeps, Local

LEMMA EnsureKeeps == ASSUME IInv, NEW p \in Procs, Ensure(p) PROVE StepKeeps(p)
<1>0. TypeOK /\ Recorded /\ Local(p)
  BY DEF IInv
<1>1. Ends(p)
  BY <1>0, GotoEnds DEF Ensure, Labels, Early, Late, Local, Located, Present, RootPresent
<1>2. TypeOK'
  BY <1>0, <1>1, StepEnds DEF Ensure, disk, world, TypeOK, Trees, Served, Local, Located, Early, Late
<1>3. OthersKept(p)
  <2>1. \A h \in Hashes : entry'[h] = entry[h] \/ (entry[h] = "absent" /\ entry'[h] = "intact")
    BY <1>0 DEF Ensure, disk, world, TypeOK, Present, Trees
  <2>2. \A u \in Urls : saw[u] \subseteq saw'[u]
    BY <1>0 DEF Ensure, disk, world, TypeOK
  <2> QED
    BY <1>0, <1>1, <2>1, <2>2 DEF OthersKept, Ends, TypeOK, Ensure, disk, world
<1> USE CacheAssumption DEF Ensure, disk, world, Goto
<1>4. Recorded'
  BY <1>0 DEF Recorded, TypeOK, Local, Observed, HaveObserved, Request, Served
<1>5. Located(p)'
  BY <1>0, <1>2 DEF Local, Located, TypeOK, Early, Late, Served, Present, RootPresent
<1>6. Observed(p)' /\ HaveObserved(p)' /\ Guarded(p)'
  BY <1>0, <1>2 DEF Local, Located, Observed, HaveObserved, Guarded, Resolved, TypeOK,
                    Early, Late, Served, Request, Recorded
<1>7. Checked(p)' /\ Standing(p)'
  BY <1>0, <1>2 DEF Local, Located, Checked, Standing, Good, Subject, Present, Resolved,
                    TypeOK, Early, Late, Served, Request, RootPresent
<1>8. Caused(p)'
  BY <1>0, <1>2 DEF Local, Located, Checked, Standing, Caused, Good, Subject, Present, Trees,
                    TypeOK, Early, Late, Served, Request
<1> QED
  BY <1>2, <1>3, <1>4, <1>5, <1>6, <1>7, <1>8 DEF StepKeeps, Local

LEMMA VerifyKeeps == ASSUME IInv, NEW p \in Procs, Verify(p) PROVE StepKeeps(p)
<1>0. TypeOK /\ Recorded /\ Local(p)
  BY DEF IInv
<1>1. Ends(p)
  BY <1>0, GotoEnds, FailsEnds DEF Verify, Labels, Early, Late, Local, Located, Present, RootPresent
<1>2. TypeOK'
  BY <1>0, <1>1, StepEnds DEF Verify, disk, world, Quiet, request, TypeOK, Trees, Served, Local, Located, Early, Late
<1>3. OthersKept(p)
  <2>1. \A h \in Hashes : entry'[h] = entry[h] \/ (entry[h] = "absent" /\ entry'[h] = "intact")
    BY <1>0 DEF Verify, disk, world, Quiet, request, TypeOK, Present, Trees
  <2>2. \A u \in Urls : saw[u] \subseteq saw'[u]
    BY <1>0 DEF Verify, disk, world, Quiet, request, TypeOK
  <2> QED
    BY <1>0, <1>1, <2>1, <2>2 DEF OthersKept, Ends, TypeOK, Verify, disk, world, Quiet, request
<1> USE CacheAssumption DEF Verify, disk, world, Quiet, request, Goto, Fails, Answers
<1>4. Recorded'
  BY <1>0 DEF Recorded, TypeOK, Local, Observed, HaveObserved, Request, Served
<1>5. Located(p)'
  BY <1>0, <1>2 DEF Local, Located, TypeOK, Early, Late, Served, Present, RootPresent
<1>6. Observed(p)' /\ HaveObserved(p)' /\ Guarded(p)'
  BY <1>0, <1>2 DEF Local, Located, Observed, HaveObserved, Guarded, Resolved, TypeOK,
                    Early, Late, Served, Request, Recorded
<1>7. Checked(p)' /\ Standing(p)'
  BY <1>0, <1>2 DEF Local, Located, Checked, Standing, Good, Subject, Present, Resolved,
                    TypeOK, Early, Late, Served, Request, RootPresent
<1>8. Caused(p)'
  BY <1>0, <1>2 DEF Local, Located, Checked, Standing, Caused, Good, Subject, Present, Trees,
                    TypeOK, Early, Late, Served, Request
<1> QED
  BY <1>2, <1>3, <1>4, <1>5, <1>6, <1>7, <1>8 DEF StepKeeps, Local

LEMMA OriginKeeps == ASSUME IInv, NEW p \in Procs, Origin(p) PROVE StepKeeps(p)
<1>0. TypeOK /\ Recorded /\ Local(p)
  BY DEF IInv
<1>1. Ends(p)
  BY <1>0, GotoEnds, OriginOkEnds DEF Origin, Labels, Early, Late, Local, Located, Present, RootPresent
<1>2. TypeOK'
  BY <1>0, <1>1, StepEnds DEF Origin, disk, world, Quiet, request, TypeOK, Trees, Served, Local, Located, Early, Late
<1>3. OthersKept(p)
  <2>1. \A h \in Hashes : entry'[h] = entry[h] \/ (entry[h] = "absent" /\ entry'[h] = "intact")
    BY <1>0 DEF Origin, disk, world, Quiet, request, TypeOK, Present, Trees
  <2>2. \A u \in Urls : saw[u] \subseteq saw'[u]
    BY <1>0 DEF Origin, disk, world, Quiet, request, TypeOK
  <2> QED
    BY <1>0, <1>1, <2>1, <2>2 DEF OthersKept, Ends, TypeOK, Origin, disk, world, Quiet, request
<1> USE CacheAssumption DEF Origin, disk, world, Quiet, request, OriginOk, Goto, Found, Answers
<1>4. Recorded'
  BY <1>0 DEF Recorded, TypeOK, Local, Observed, HaveObserved, Request, Served
<1>5. Located(p)'
  BY <1>0, <1>2 DEF Local, Located, TypeOK, Early, Late, Served, Present, RootPresent
<1>6. Observed(p)' /\ HaveObserved(p)' /\ Guarded(p)'
  BY <1>0, <1>2 DEF Local, Located, Observed, HaveObserved, Guarded, Resolved, TypeOK,
                    Early, Late, Served, Request, Recorded
<1>7. Checked(p)' /\ Standing(p)'
  BY <1>0, <1>2 DEF Local, Located, Checked, Standing, Good, Subject, Present, Resolved,
                    TypeOK, Early, Late, Served, Request, RootPresent
<1>8. Caused(p)'
  BY <1>0, <1>2 DEF Local, Located, Checked, Standing, Caused, Good, Subject, Present, Trees,
                    TypeOK, Early, Late, Served, Request
<1> QED
  BY <1>2, <1>3, <1>4, <1>5, <1>6, <1>7, <1>8 DEF StepKeeps, Local

LEMMA AgainKeeps == ASSUME IInv, NEW p \in Procs, Again(p) PROVE StepKeeps(p)
<1>0. TypeOK /\ Recorded /\ Local(p)
  BY DEF IInv
<1>1. Ends(p)
  <2>1. CASE RootPresent(want[p])
    BY <1>0, <2>1, FoundEnds DEF Again
  <2>2. CASE ~RootPresent(want[p])
    <3>1. [found |-> FALSE, diag |-> "subdir", mirror_ok |-> TRUE] \in Answer
      BY DEF Answer
    <3>2. want[p].hash \in Hashes /\ want[p].sub \in Subdirs
      BY <1>0 DEF Again, TypeOK, Request, Local, Located
    <3>3. subdirs' \in [Procs -> SUBSET (Hashes \X Subdirs)]
      BY <1>0, <2>2, <3>2 DEF Again, TypeOK
    <3> QED
      BY <1>0, <2>2, <3>1, <3>3, AnswersEnd DEF Again, Ends, TypeOK
  <2> QED
    BY <2>1, <2>2
<1>2. TypeOK'
  BY <1>0, <1>1, StepEnds DEF Again, disk, world, Quiet, request, TypeOK, Trees, Served, Local, Located, Early, Late
<1>3. OthersKept(p)
  <2>1. \A h \in Hashes : entry'[h] = entry[h] \/ (entry[h] = "absent" /\ entry'[h] = "intact")
    BY <1>0 DEF Again, disk, world, Quiet, request, TypeOK, Present, Trees
  <2>2. \A u \in Urls : saw[u] \subseteq saw'[u]
    BY <1>0 DEF Again, disk, world, Quiet, request, TypeOK
  <2> QED
    BY <1>0, <1>1, <2>1, <2>2 DEF OthersKept, Ends, TypeOK, Again, disk, world, Quiet, request
<1> USE CacheAssumption DEF Again, disk, world, Quiet, request, Found, Answers
<1>4. Recorded'
  BY <1>0 DEF Recorded, TypeOK, Local, Observed, HaveObserved, Request, Served
<1>5. Located(p)'
  BY <1>0, <1>2 DEF Local, Located, TypeOK, Early, Late, Served, Present, RootPresent
<1>6. Observed(p)' /\ HaveObserved(p)' /\ Guarded(p)'
  BY <1>0, <1>2 DEF Local, Located, Observed, HaveObserved, Guarded, Resolved, TypeOK,
                    Early, Late, Served, Request, Recorded
<1>7. Checked(p)' /\ Standing(p)'
  BY <1>0, <1>2 DEF Local, Located, Checked, Standing, Good, Subject, Present, Resolved,
                    TypeOK, Early, Late, Served, Request, RootPresent
<1>8. Caused(p)'
  BY <1>0, <1>2 DEF Local, Located, Checked, Standing, Caused, Good, Subject, Present, Trees,
                    TypeOK, Early, Late, Served, Request
<1> QED
  BY <1>2, <1>3, <1>4, <1>5, <1>6, <1>7, <1>8 DEF StepKeeps, Local

LEMMA DownloadKeeps == ASSUME IInv, NEW p \in Procs, Download(p) PROVE StepKeeps(p)
<1>0. TypeOK /\ Recorded /\ Local(p)
  BY DEF IInv
<1>1. Ends(p)
  BY <1>0, GotoEnds DEF Download, Labels, Early, Late, Local, Located, Present, RootPresent
<1>2. TypeOK'
  <2>1. want[p].url \in Urls /\ serves[want[p].url] \in Hashes
    BY <1>0 DEF Download, TypeOK, Request, Served
  <2>2. got' \in [Procs -> Served] /\ saw' \in [Urls -> SUBSET Hashes]
    BY <1>0, <2>1 DEF Download, TypeOK, Served
  <2> QED
    BY <1>0, <1>1, <2>2, StepEnds DEF Download, disk, world, TypeOK
<1>3. OthersKept(p)
  <2>1. \A h \in Hashes : entry'[h] = entry[h] \/ (entry[h] = "absent" /\ entry'[h] = "intact")
    BY <1>0 DEF Download, disk, world, TypeOK, Present, Trees
  <2>2. \A u \in Urls : saw[u] \subseteq saw'[u]
    BY <1>0 DEF Download, disk, world, TypeOK
  <2> QED
    BY <1>0, <1>1, <2>1, <2>2 DEF OthersKept, Ends, TypeOK, Download, disk, world
<1> USE CacheAssumption DEF Download, disk, world, Goto
<1>4. Recorded'
  BY <1>0 DEF Recorded, TypeOK, Local, Observed, HaveObserved, Request, Served
<1>5. Located(p)'
  BY <1>0, <1>2 DEF Local, Located, TypeOK, Early, Late, Served, Present, RootPresent
<1>6. Observed(p)' /\ HaveObserved(p)' /\ Guarded(p)'
  BY <1>0, <1>2 DEF Local, Located, Observed, HaveObserved, Guarded, Resolved, TypeOK,
                    Early, Late, Served, Request, Recorded
<1>7. Checked(p)' /\ Standing(p)'
  BY <1>0, <1>2 DEF Local, Located, Checked, Standing, Good, Subject, Present, Resolved,
                    TypeOK, Early, Late, Served, Request, RootPresent
<1>8. Caused(p)'
  BY <1>0, <1>2 DEF Local, Located, Checked, Standing, Caused, Good, Subject, Present, Trees,
                    TypeOK, Early, Late, Served, Request
<1> QED
  BY <1>2, <1>3, <1>4, <1>5, <1>6, <1>7, <1>8 DEF StepKeeps, Local

LEMMA DownloadFailsKeeps == ASSUME IInv, NEW p \in Procs, DownloadFails(p) PROVE StepKeeps(p)
<1>0. TypeOK /\ Recorded /\ Local(p)
  BY DEF IInv
<1>1. Ends(p)
  BY <1>0, FailsEnds DEF DownloadFails, Labels, Early, Late, Local, Located, Present, RootPresent
<1>2. TypeOK'
  BY <1>0, <1>1, StepEnds DEF DownloadFails, disk, world, TypeOK, Trees, Served, Local, Located, Early, Late
<1>3. OthersKept(p)
  <2>1. \A h \in Hashes : entry'[h] = entry[h] \/ (entry[h] = "absent" /\ entry'[h] = "intact")
    BY <1>0 DEF DownloadFails, disk, world, TypeOK, Present, Trees
  <2>2. \A u \in Urls : saw[u] \subseteq saw'[u]
    BY <1>0 DEF DownloadFails, disk, world, TypeOK
  <2> QED
    BY <1>0, <1>1, <2>1, <2>2 DEF OthersKept, Ends, TypeOK, DownloadFails, disk, world
<1> USE CacheAssumption DEF DownloadFails, disk, world, Fails, Answers
<1>4. Recorded'
  BY <1>0 DEF Recorded, TypeOK, Local, Observed, HaveObserved, Request, Served
<1>5. Located(p)'
  BY <1>0, <1>2 DEF Local, Located, TypeOK, Early, Late, Served, Present, RootPresent
<1>6. Observed(p)' /\ HaveObserved(p)' /\ Guarded(p)'
  BY <1>0, <1>2 DEF Local, Located, Observed, HaveObserved, Guarded, Resolved, TypeOK,
                    Early, Late, Served, Request, Recorded
<1>7. Checked(p)' /\ Standing(p)'
  BY <1>0, <1>2 DEF Local, Located, Checked, Standing, Good, Subject, Present, Resolved,
                    TypeOK, Early, Late, Served, Request, RootPresent
<1>8. Caused(p)'
  BY <1>0, <1>2 DEF Local, Located, Checked, Standing, Caused, Good, Subject, Present, Trees,
                    TypeOK, Early, Late, Served, Request
<1> QED
  BY <1>2, <1>3, <1>4, <1>5, <1>6, <1>7, <1>8 DEF StepKeeps, Local

LEMMA PublishKeeps == ASSUME IInv, NEW p \in Procs, Publish(p) PROVE StepKeeps(p)
<1>0. TypeOK /\ Recorded /\ Local(p)
  BY DEF IInv
<1>1. Ends(p)
  BY <1>0, GotoEnds DEF Publish, Labels, Early, Late, Local, Located, Present, RootPresent
<1>2. TypeOK'
  BY <1>0, <1>1, StepEnds DEF Publish, disk, world, Quiet, request, TypeOK, Trees, Served, Local, Located, Early, Late
<1>3. OthersKept(p)
  <2>1. \A h \in Hashes : entry'[h] = entry[h] \/ (entry[h] = "absent" /\ entry'[h] = "intact")
    BY <1>0 DEF Publish, disk, world, Quiet, request, TypeOK, Present, Trees
  <2>2. \A u \in Urls : saw[u] \subseteq saw'[u]
    BY <1>0 DEF Publish, disk, world, Quiet, request, TypeOK
  <2> QED
    BY <1>0, <1>1, <2>1, <2>2 DEF OthersKept, Ends, TypeOK, Publish, disk, world, Quiet, request
<1> USE CacheAssumption DEF Publish, disk, world, Quiet, request, Goto
<1>4. Recorded'
  BY <1>0 DEF Recorded, TypeOK, Local, Observed, HaveObserved, Request, Served
<1>5. Located(p)'
  BY <1>0, <1>2 DEF Local, Located, TypeOK, Early, Late, Served, Present, RootPresent
<1>6. Observed(p)' /\ HaveObserved(p)' /\ Guarded(p)'
  BY <1>0, <1>2 DEF Local, Located, Observed, HaveObserved, Guarded, Resolved, TypeOK,
                    Early, Late, Served, Request, Recorded
<1>7. Checked(p)' /\ Standing(p)'
  BY <1>0, <1>2 DEF Local, Located, Checked, Standing, Good, Subject, Present, Resolved,
                    TypeOK, Early, Late, Served, Request, RootPresent
<1>8. Caused(p)'
  BY <1>0, <1>2 DEF Local, Located, Checked, Standing, Caused, Good, Subject, Present, Trees,
                    TypeOK, Early, Late, Served, Request
<1> QED
  BY <1>2, <1>3, <1>4, <1>5, <1>6, <1>7, <1>8 DEF StepKeeps, Local

LEMMA RenameKeeps == ASSUME IInv, NEW p \in Procs, Rename(p) PROVE StepKeeps(p)
<1>0. TypeOK /\ Recorded /\ Local(p)
  BY DEF IInv
<1>1. Ends(p)
  BY <1>0, GotoEnds DEF Rename, Labels, Early, Late, Local, Located, Present, RootPresent
<1>2. TypeOK'
  BY <1>0, <1>1, StepEnds, SMTT(60) DEF Rename, disk, world, request, TypeOK, Trees, Served, Local, Located, Early, Late
<1>3. OthersKept(p)
  <2>1. \A h \in Hashes : entry'[h] = entry[h] \/ (entry[h] = "absent" /\ entry'[h] = "intact")
    BY <1>0 DEF Rename, disk, world, request, TypeOK, Present, Trees
  <2>2. \A u \in Urls : saw[u] \subseteq saw'[u]
    BY <1>0 DEF Rename, disk, world, request, TypeOK
  <2> QED
    BY <1>0, <1>1, <2>1, <2>2 DEF OthersKept, Ends, TypeOK, Rename, disk, world, request
<1> USE CacheAssumption DEF Rename, disk, world, request, Goto
<1>4. Recorded'
  BY <1>0 DEF Recorded, TypeOK, Local, Observed, HaveObserved, Request, Served
<1>5. Located(p)'
  BY <1>0, <1>2 DEF Local, Located, TypeOK, Early, Late, Served, Present, RootPresent
<1>6. Observed(p)' /\ HaveObserved(p)' /\ Guarded(p)'
  BY <1>0, <1>2 DEF Local, Located, Observed, HaveObserved, Guarded, Resolved, TypeOK,
                    Early, Late, Served, Request, Recorded
<1>7. Checked(p)' /\ Standing(p)'
  BY <1>0, <1>2 DEF Local, Located, Checked, Standing, Good, Subject, Present, Resolved,
                    TypeOK, Early, Late, Served, Request, RootPresent
<1>8. Caused(p)'
  BY <1>0, <1>2 DEF Local, Located, Checked, Standing, Caused, Good, Subject, Present, Trees,
                    TypeOK, Early, Late, Served, Request
<1> QED
  BY <1>2, <1>3, <1>4, <1>5, <1>6, <1>7, <1>8 DEF StepKeeps, Local

LEMMA RefusedKeeps == ASSUME IInv, NEW p \in Procs, Refused(p) PROVE StepKeeps(p)
<1>0. TypeOK /\ Recorded /\ Local(p)
  BY DEF IInv
<1>1. Ends(p)
  BY <1>0, GotoEnds, FailsEnds DEF Refused, Labels, Early, Late, Local, Located, Present, RootPresent
<1>2. TypeOK'
  BY <1>0, <1>1, StepEnds DEF Refused, disk, world, Quiet, request, TypeOK, Trees, Served, Local, Located, Early, Late
<1>3. OthersKept(p)
  <2>1. \A h \in Hashes : entry'[h] = entry[h] \/ (entry[h] = "absent" /\ entry'[h] = "intact")
    BY <1>0 DEF Refused, disk, world, Quiet, request, TypeOK, Present, Trees
  <2>2. \A u \in Urls : saw[u] \subseteq saw'[u]
    BY <1>0 DEF Refused, disk, world, Quiet, request, TypeOK
  <2> QED
    BY <1>0, <1>1, <2>1, <2>2 DEF OthersKept, Ends, TypeOK, Refused, disk, world, Quiet, request
<1> USE CacheAssumption DEF Refused, disk, world, Quiet, request, Goto, Fails, Answers
<1>4. Recorded'
  BY <1>0 DEF Recorded, TypeOK, Local, Observed, HaveObserved, Request, Served
<1>5. Located(p)'
  BY <1>0, <1>2 DEF Local, Located, TypeOK, Early, Late, Served, Present, RootPresent
<1>6. Observed(p)' /\ HaveObserved(p)' /\ Guarded(p)'
  BY <1>0, <1>2 DEF Local, Located, Observed, HaveObserved, Guarded, Resolved, TypeOK,
                    Early, Late, Served, Request, Recorded
<1>7. Checked(p)' /\ Standing(p)'
  BY <1>0, <1>2 DEF Local, Located, Checked, Standing, Good, Subject, Present, Resolved,
                    TypeOK, Early, Late, Served, Request, RootPresent
<1>8. Caused(p)'
  BY <1>0, <1>2 DEF Local, Located, Checked, Standing, Caused, Good, Subject, Present, Trees,
                    TypeOK, Early, Late, Served, Request
<1> QED
  BY <1>2, <1>3, <1>4, <1>5, <1>6, <1>7, <1>8 DEF StepKeeps, Local

LEMMA AdoptKeeps == ASSUME IInv, NEW p \in Procs, Adopt(p) PROVE StepKeeps(p)
<1>0. TypeOK /\ Recorded /\ Local(p)
  BY DEF IInv
<1>1. Ends(p)
  BY <1>0, GotoEnds, FailsEnds DEF Adopt, Labels, Early, Late, Local, Located, Present, RootPresent
<1>2. TypeOK'
  BY <1>0, <1>1, StepEnds DEF Adopt, disk, world, Quiet, request, TypeOK, Trees, Served, Local, Located, Early, Late
<1>3. OthersKept(p)
  <2>1. \A h \in Hashes : entry'[h] = entry[h] \/ (entry[h] = "absent" /\ entry'[h] = "intact")
    BY <1>0 DEF Adopt, disk, world, Quiet, request, TypeOK, Present, Trees
  <2>2. \A u \in Urls : saw[u] \subseteq saw'[u]
    BY <1>0 DEF Adopt, disk, world, Quiet, request, TypeOK
  <2> QED
    BY <1>0, <1>1, <2>1, <2>2 DEF OthersKept, Ends, TypeOK, Adopt, disk, world, Quiet, request
<1> USE CacheAssumption DEF Adopt, disk, world, Quiet, request, Goto, Fails, Answers
<1>4. Recorded'
  BY <1>0 DEF Recorded, TypeOK, Local, Observed, HaveObserved, Request, Served
<1>5. Located(p)'
  BY <1>0, <1>2 DEF Local, Located, TypeOK, Early, Late, Served, Present, RootPresent
<1>6. Observed(p)' /\ HaveObserved(p)' /\ Guarded(p)'
  BY <1>0, <1>2 DEF Local, Located, Observed, HaveObserved, Guarded, Resolved, TypeOK,
                    Early, Late, Served, Request, Recorded
<1>7. Checked(p)' /\ Standing(p)'
  BY <1>0, <1>2 DEF Local, Located, Checked, Standing, Good, Subject, Present, Resolved,
                    TypeOK, Early, Late, Served, Request, RootPresent
<1>8. Caused(p)'
  BY <1>0, <1>2 DEF Local, Located, Checked, Standing, Caused, Good, Subject, Present, Trees,
                    TypeOK, Early, Late, Served, Request
<1> QED
  BY <1>2, <1>3, <1>4, <1>5, <1>6, <1>7, <1>8 DEF StepKeeps, Local

LEMMA RecordKeeps == ASSUME IInv, NEW p \in Procs, Record(p) PROVE StepKeeps(p)
<1>0. TypeOK /\ Recorded /\ Local(p)
  BY DEF IInv
<1>1. Ends(p)
  BY <1>0, FetchedEnds, GotoEnds DEF Record, Labels, Early, Late, Local, Located, Present, RootPresent
<1>2. TypeOK'
  BY <1>0, <1>1, StepEnds DEF Record, disk, world, TypeOK, Trees, Served, Local, Located, Early, Late
<1>3. OthersKept(p)
  <2>1. \A h \in Hashes : entry'[h] = entry[h] \/ (entry[h] = "absent" /\ entry'[h] = "intact")
    BY <1>0 DEF Record, disk, world, TypeOK, Present, Trees
  <2>2. \A u \in Urls : saw[u] \subseteq saw'[u]
    BY <1>0 DEF Record, disk, world, TypeOK
  <2> QED
    BY <1>0, <1>1, <2>1, <2>2 DEF OthersKept, Ends, TypeOK, Record, disk, world
<1> USE CacheAssumption DEF Record, disk, world, Fetched, OriginOk, Goto, Found, Fails, Answers
<1>4. Recorded'
  BY <1>0 DEF Recorded, TypeOK, Local, Observed, HaveObserved, Request, Served
<1>5. Located(p)'
  BY <1>0, <1>2 DEF Local, Located, TypeOK, Early, Late, Served, Present, RootPresent
<1>6. Observed(p)' /\ HaveObserved(p)' /\ Guarded(p)'
  BY <1>0, <1>2 DEF Local, Located, Observed, HaveObserved, Guarded, Resolved, TypeOK,
                    Early, Late, Served, Request, Recorded
<1>7. Checked(p)' /\ Standing(p)'
  BY <1>0, <1>2 DEF Local, Located, Checked, Standing, Good, Subject, Present, Resolved,
                    TypeOK, Early, Late, Served, Request, RootPresent
<1>8. Caused(p)'
  BY <1>0, <1>2 DEF Local, Located, Checked, Standing, Caused, Good, Subject, Present, Trees,
                    TypeOK, Early, Late, Served, Request
<1> QED
  BY <1>2, <1>3, <1>4, <1>5, <1>6, <1>7, <1>8 DEF StepKeeps, Local

LEMMA TruncateKeeps == ASSUME IInv, NEW p \in Procs, Truncate(p) PROVE StepKeeps(p)
<1>0. TypeOK /\ Recorded /\ Local(p)
  BY DEF IInv
<1>1. Ends(p)
  BY <1>0, FetchedEnds, GotoEnds DEF Truncate, Labels, Early, Late, Local, Located, Present, RootPresent
<1>2. TypeOK'
  BY <1>0, <1>1, StepEnds DEF Truncate, disk, world, request, TypeOK, Trees, Served, Local, Located, Early, Late
<1>3. OthersKept(p)
  <2>1. \A h \in Hashes : entry'[h] = entry[h] \/ (entry[h] = "absent" /\ entry'[h] = "intact")
    BY <1>0 DEF Truncate, disk, world, request, TypeOK, Present, Trees
  <2>2. \A u \in Urls : saw[u] \subseteq saw'[u]
    BY <1>0 DEF Truncate, disk, world, request, TypeOK
  <2> QED
    BY <1>0, <1>1, <2>1, <2>2 DEF OthersKept, Ends, TypeOK, Truncate, disk, world, request
<1> USE CacheAssumption DEF Truncate, disk, world, request, Fetched, OriginOk, Goto, Found, Fails, Answers
<1>4. Recorded'
  <2>1. saw' = saw /\ \A h \in Hashes : origins'[h] \subseteq origins[h]
    BY <1>0 DEF TypeOK
  <2> QED
    BY <1>0, <2>1 DEF Recorded
<1>5. Located(p)'
  BY <1>0, <1>2 DEF Local, Located, TypeOK, Early, Late, Served, Present, RootPresent
<1>6. Observed(p)' /\ HaveObserved(p)' /\ Guarded(p)'
  BY <1>0, <1>2 DEF Local, Located, Observed, HaveObserved, Guarded, Resolved, TypeOK,
                    Early, Late, Served, Request, Recorded
<1>7. Checked(p)' /\ Standing(p)'
  BY <1>0, <1>2 DEF Local, Located, Checked, Standing, Good, Subject, Present, Resolved,
                    TypeOK, Early, Late, Served, Request, RootPresent
<1>8. Caused(p)'
  BY <1>0, <1>2 DEF Local, Located, Checked, Standing, Caused, Good, Subject, Present, Trees,
                    TypeOK, Early, Late, Served, Request
<1> QED
  BY <1>2, <1>3, <1>4, <1>5, <1>6, <1>7, <1>8 DEF StepKeeps, Local

LEMMA WriteKeeps == ASSUME IInv, NEW p \in Procs, Write(p) PROVE StepKeeps(p)
<1>0. TypeOK /\ Recorded /\ Local(p)
  BY DEF IInv
<1>1. Ends(p)
  BY <1>0, FetchedEnds DEF Write, Labels, Early, Late, Local, Located, Present, RootPresent
<1>2. TypeOK' /\ Recorded'
  <2>1. got[p] \in Hashes /\ want[p].url \in Urls /\ have[p] \subseteq Urls
    BY <1>0 DEF Write, TypeOK, Local, Located, Late, Request, Served
  <2>2. CASE UNCHANGED origins
    BY <1>0, <1>1, <2>2, StepEnds DEF Write, disk, world, request, TypeOK, Recorded
  <2>3. ASSUME NEW tail \in SUBSET origins[got[p]],
               origins' = [origins EXCEPT ![got[p]] = have[p] \cup {want[p].url} \cup tail]
        PROVE  TypeOK' /\ Recorded'
    <3>1. origins' \in [Hashes -> SUBSET Urls]
      BY <1>0, <2>1, <2>3 DEF TypeOK
    <3>2. Recorded'
      BY <1>0, <2>1, <2>3, CacheAssumption DEF Write, Recorded, TypeOK, Local, Observed, HaveObserved, Served
    <3> QED
      BY <1>0, <1>1, <3>1, <3>2, StepEnds DEF Write, disk, world, request, TypeOK
  <2> QED
    BY <2>2, <2>3 DEF Write
<1>3. OthersKept(p)
  <2>1. \A h \in Hashes : entry'[h] = entry[h] \/ (entry[h] = "absent" /\ entry'[h] = "intact")
    BY <1>0 DEF Write, disk, world, request, TypeOK, Present, Trees
  <2>2. \A u \in Urls : saw[u] \subseteq saw'[u]
    BY <1>0 DEF Write, disk, world, request, TypeOK
  <2> QED
    BY <1>0, <1>1, <2>1, <2>2 DEF OthersKept, Ends, TypeOK, Write, disk, world, request
<1> USE CacheAssumption DEF Write, disk, world, request, Fetched, OriginOk, Found, Goto, Fails, Answers
<1>5. Located(p)'
  BY <1>0, <1>2 DEF Local, Located, TypeOK, Early, Late, Served, Present, RootPresent
<1>6. Observed(p)' /\ HaveObserved(p)' /\ Guarded(p)'
  BY <1>0, <1>2 DEF Local, Located, Observed, HaveObserved, Guarded, Resolved, TypeOK,
                    Early, Late, Served, Request, Recorded
<1>7. Checked(p)' /\ Standing(p)'
  BY <1>0, <1>2 DEF Local, Located, Checked, Standing, Good, Subject, Present, Resolved,
                    TypeOK, Early, Late, Served, Request, RootPresent
<1>8. Caused(p)'
  BY <1>0, <1>2 DEF Local, Located, Checked, Standing, Caused, Good, Subject, Present, Trees,
                    TypeOK, Early, Late, Served, Request
<1> QED
  BY <1>2, <1>3, <1>5, <1>6, <1>7, <1>8 DEF StepKeeps, Local

-----------------------------------------------------------------------------
(* A request begins, is given back or is forgotten *)

LEMMA AsksKeeps ==
  ASSUME IInv, NEW p \in Procs, NEW r \in Request, NEW why \in {"cold", "add"},
         NEW label \in {"asked", "fetch"}, Asks(p, r, why, label),
         why = "cold" <=> label = "asked", why = "cold" => r.hash \in Hashes
  PROVE  StepKeeps(p)
<1>0. TypeOK /\ Recorded /\ Local(p)
  BY DEF IInv
<1> USE DEF Asks, disk, world
<1>1. TypeOK'
  BY <1>0 DEF TypeOK
<1>2. OthersKept(p)
  BY <1>0 DEF OthersKept, TypeOK
<1>3. Recorded'
  BY <1>0 DEF Recorded
<1>4. /\ pc'[p] = label /\ want'[p] = r /\ purpose'[p] = why /\ got'[p] = NoHash
  BY <1>0 DEF TypeOK, Local, Located, Early
<1>5. Local(p)'
  BY <1>4 DEF Local, Located, Observed, HaveObserved, Guarded, Resolved, Checked, Standing,
              Caused, Early, Late
<1> QED
  BY <1>1, <1>2, <1>3, <1>5 DEF StepKeeps

LEMMA ReturnedKeeps ==
  ASSUME IInv, NEW p \in Procs, Returned(p), UNCHANGED <<disk, serves, saw>>,
         mirrors' \in [Procs -> SUBSET (Hashes \X Urls)],
         subdirs' \in [Procs -> SUBSET (Hashes \X Subdirs)], faults' \in 0..MaxFaults
  PROVE  StepKeeps(p)
<1>0. TypeOK /\ Recorded
  BY DEF IInv
<1> USE DEF Returned, disk
<1>1. TypeOK'
  BY <1>0, NothingType, NoAnswerType DEF TypeOK, Served
<1>2. OthersKept(p)
  BY <1>0 DEF OthersKept, TypeOK
<1>3. Recorded'
  BY <1>0 DEF Recorded
<1>4. pc'[p] = "idle" /\ got'[p] = NoHash
  BY <1>0 DEF TypeOK
<1>5. Local(p)'
  BY <1>4 DEF Local, Located, Observed, HaveObserved, Guarded, Resolved, Checked, Standing,
              Caused, Early, Late
<1> QED
  BY <1>1, <1>2, <1>3, <1>5 DEF StepKeeps

LEMMA TakeKeeps == ASSUME IInv, NEW p \in Procs, Take(p) PROVE StepKeeps(p)
BY ReturnedKeeps DEF Take, world, IInv, TypeOK

LEMMA ForgetKeeps ==
  ASSUME IInv, NEW p \in Procs, Forget(p), faults' \in 0..MaxFaults PROVE StepKeeps(p)
<1>1. /\ mirrors' \in [Procs -> SUBSET (Hashes \X Urls)]
      /\ subdirs' \in [Procs -> SUBSET (Hashes \X Subdirs)]
  BY DEF Forget, IInv, TypeOK
<1> QED
  BY <1>1, ReturnedKeeps DEF Forget

LEMMA FaultBound == ASSUME TypeOK, Fault PROVE faults' \in 0..MaxFaults
BY CacheAssumption DEF TypeOK, Fault

LEMMA CacheStepKeeps == ASSUME IInv, NEW p \in Procs, CacheStep(p) PROVE StepKeeps(p)
BY LookKeeps, EnsureKeeps, VerifyKeeps, OriginKeeps, AgainKeeps, DownloadKeeps,
   DownloadFailsKeeps, PublishKeeps, RenameKeeps, RefusedKeeps, AdoptKeeps, RecordKeeps,
   TruncateKeeps, WriteKeeps DEF CacheStep

-----------------------------------------------------------------------------
(* What people do *)

LEMMA HandleKeeps ==
  ASSUME IInv, NEW h \in Hashes, NEW tree \in Trees, Handle(h, tree)
  PROVE  IInv'
<1>0. TypeOK /\ Recorded /\ \A p \in Procs : Local(p)
  BY DEF IInv
<1> USE DEF Handle, Interferes
<1>1. TypeOK'
  BY <1>0, FaultBound DEF TypeOK
<1>2. Recorded'
  BY <1>0 DEF Recorded
<1>3. ASSUME NEW p \in Procs PROVE Local(p)'
  <2>0. TypeOK /\ Local(p)
    BY <1>0
  <2>1. CASE pc[p] = "idle"
    BY <2>0, <2>1 DEF Local, Located, Observed, HaveObserved, Guarded, Resolved, Checked,
                      Standing, Caused, Early, Late
  <2>2. CASE pc[p] # "idle"
    <3>1. /\ touched'[p] = touched[p] \cup {h}
          /\ \A k \in Hashes : k # h => entry'[k] = entry[k]
      BY <2>0, <2>2 DEF TypeOK
    <3>2. Located(p)' /\ Observed(p)' /\ HaveObserved(p)' /\ Guarded(p)'
      BY <2>0 DEF Local, Located, Observed, HaveObserved, Guarded, Resolved
    <3>3. Subject(p)' = Subject(p)
      BY DEF Subject
    <3>4. Checked(p)' /\ Standing(p)'
      BY <2>0, <3>1, <3>3 DEF Local, Checked, Standing, Good, Present, Resolved
    <3>5. Caused(p)'
      BY <2>0, <3>1, <3>3 DEF Local, Caused
    <3> QED
      BY <3>2, <3>4, <3>5 DEF Local
  <2> QED
    BY <2>1, <2>2
<1> QED
  BY <1>1, <1>2, <1>3 DEF IInv

LEMMA MoveKeeps ==
  ASSUME IInv, NEW u \in Urls, NEW h \in Served, Move(u, h) PROVE IInv'
<1> USE DEF Move, Interferes
<1>1. TypeOK'
  BY FaultBound DEF IInv, TypeOK
<1>2. Recorded'
  BY DEF IInv, Recorded
<1>3. ASSUME NEW p \in Procs PROVE Local(p)'
  BY DEF IInv, Local, Located, Observed, HaveObserved, Guarded, Resolved, Checked, Good,
         Standing, Caused, Present, Subject
<1> QED
  BY <1>1, <1>2, <1>3 DEF IInv

-----------------------------------------------------------------------------
LEMMA InvNext == IInv /\ [CacheNext]_vars => IInv'
<1> SUFFICES ASSUME IInv, [CacheNext]_vars PROVE IInv'
  OBVIOUS
<1>1. ASSUME NEW p \in Procs, StepKeeps(p) PROVE IInv'
  BY <1>1, Others DEF StepKeeps, IInv
<1>2. ASSUME NEW p \in Procs, CacheStep(p) PROVE IInv'
  BY <1>1, <1>2, CacheStepKeeps
<1>3. ASSUME NEW p \in Procs, Take(p) \/ Exit(p) \/ Kill(p) PROVE IInv'
  <2>1. CASE Take(p)
    BY <1>1, <2>1, TakeKeeps
  <2>2. CASE Exit(p)
    BY <1>1, <2>2, ForgetKeeps DEF Exit, IInv, TypeOK
  <2>3. CASE Kill(p)
    BY <1>1, <2>3, ForgetKeeps, FaultBound DEF Kill, IInv
  <2> QED
    BY <1>3, <2>1, <2>2, <2>3
<1>4. ASSUME NEW p \in Procs, NEW r \in [url : Urls, hash : Hashes, sub : Subdirs], Ask(p, r)
      PROVE  IInv'
  <2>1. r \in Request /\ r.hash \in Hashes
    BY DEF Request, Served
  <2> QED
    BY <1>1, <1>4, <2>1, AsksKeeps DEF Ask
<1>5. ASSUME NEW p \in Procs, NEW u \in Urls, Add(p, u) PROVE IInv'
  <2>1. [Nothing EXCEPT !.url = u] \in Request
    BY NothingType DEF Request
  <2> QED
    BY <1>1, <1>5, <2>1, AsksKeeps DEF Add
<1>6. CASE World
  BY <1>6, HandleKeeps, MoveKeeps DEF World
<1>7. CASE UNCHANGED vars
  BY <1>7 DEF vars, IInv, TypeOK, Recorded, Local, Located, Observed, HaveObserved, Guarded,
              Resolved, Checked, Good, Standing, Caused, Present, Subject
<1> QED
  BY <1>2, <1>3, <1>4, <1>5, <1>6, <1>7 DEF CacheNext

LEMMA Invariance == CacheSpec => []IInv
BY InvInit, InvNext, PTL DEF CacheSpec

(* Types: of the cache, of what people and urls do to it and of what every
   process holds, whatever processes, urls, trees and faults there are. *)
THEOREM TypeCorrect == CacheSpec => []TypeOK
BY Invariance, PTL DEF IInv

(* The url and hash guard: no requirement is resolved whose url was never seen
   to produce its hash here, although records are lost, cut, and written by
   several processes at once. *)
THEOREM GuardHolds == CacheSpec => []GuardedByObservation
<1>1. IInv => GuardedByObservation
  BY DEF IInv, Local, Guarded, GuardedByObservation
<1> QED
  BY <1>1, Invariance, PTL

(* Verification: what was fetched, or looked at again, hashes to its name. *)
THEOREM EntriesVerified == CacheSpec => []VerifiedUnlessTouched
<1>1. IInv => VerifiedUnlessTouched
  BY DEF IInv, Local, Checked, Good, VerifiedUnlessTouched
<1> QED
  BY <1>1, Invariance, PTL

(* Processes do not make one another's requests fail, even if they are killed. *)
THEOREM FailuresCaused == CacheSpec => []FailureHasCause
<1>1. IInv => FailureHasCause
  BY DEF IInv, Local, Caused, FailureHasCause
<1> QED
  BY <1>1, Invariance, PTL

-----------------------------------------------------------------------------
(* PART TWO: THE RESOLVER *)

Settled == {"idle", "asked", "answered"}

(* What p's memo says of the request in hand: nothing while it is looked for,
   and the answer once it has one. *)
Remembers(p) ==
  purpose[p] # "add" =>
    /\ pc[p] \notin Settled => ~Failed(p, want[p])
    /\ pc[p] = "answered" => (answer[p].found <=> ~Failed(p, want[p]))

(* The request in hand is the one the run waits for. *)
Asking(b) ==
  pc[b] # "idle" =>
    /\ purpose[b] # "add"
    /\ \/ /\ run[b].phase = "walk" /\ run[b].todo # <<>> /\ ~IsPath(Head(run[b].todo))
          /\ want[b] = RequestOf(Head(run[b].todo))
       \/ /\ run[b].phase = "select" /\ run[b].current # None
          /\ want[b] = RequestOf(Winner(b, run[b].current))

Readable(b, d) == d \in Packages => run[b].mfc[d] = "some"
Visited(b) == run[b].seen \cup ToSet(run[b].queue)

Covered(b, dep) ==
  IF IsPath(dep) THEN dep.path \in Visited(b) ELSE dep \in Required(b)

(* Everything a directory asks for is recorded, and under the right name. *)
Phases(b) ==
  LET r == run[b] IN
  /\ r.phase = "new" => r.queue = <<>> /\ r.seen = {} /\ r.todo = <<>>
  /\ r.phase = "walk" => r.project \in Visited(b)
  /\ r.phase \in {"select", "link", "done"} =>
       r.queue = <<>> /\ r.todo = <<>> /\ r.project \in r.seen
  /\ r.phase \notin {"link", "done"} => r.links = {} /\ r.frames = <<>>
       /\ \A d \in Dirs : r.cache[d] = "new"
  /\ r.phase \notin {"select", "link", "done"} => r.resolved = {} /\ r.left = {}
  /\ r.current # None => r.phase = "select"

Readings(b) == \A d \in Visited(b) : d \in Packages => run[b].mfc[d] # "unread"

Recordings(b) ==
  \A n \in Names : \A r \in ToSet(run[b].reqs[n]) :
    /\ run[b].url_names[PackageOf(r)] # None
    /\ ~Failed(b, r) =>
         /\ run[b].mfc[PackageOf(r)] # "unread"
         /\ run[b].mfc[PackageOf(r)] = "some" => n = Manifest[PackageOf(r)].name
         /\ PackageOf(r) \in Visited(b)

Namings(b) ==
  \A d \in Packages :
    run[b].url_names[d] # None /\ Reached(b, d) => run[b].url_names[d] = Manifest[d].name

Coverage(b) ==
  \A d \in run[b].seen : Readable(b, d) =>
    \A dep \in ToSet(Manifest[d].deps) :
      Covered(b, dep) \/ dep \in ToSet(run[b].todo)

Selectable(b, n) == run[b].reqs[n] # <<>> /\ ~Crossed(b, n)

Chosen(b, n) ==
  LET w == Winner(b, n) IN
  /\ <<n, w.ver>> \notin Misnamed
  /\ PackageOf(w) \in run[b].seen
  /\ run[b].mfc[PackageOf(w)] = "some" => Manifest[PackageOf(w)].name = n

Selections(b) ==
  /\ \A n \in run[b].left : run[b].reqs[n] # <<>>
  /\ run[b].current # None => Selectable(b, run[b].current)
  /\ \A n \in run[b].resolved : Selectable(b, n) /\ Chosen(b, n)

Explored(b, d) == d \in run[b].seen /\ Readable(b, d)
Claims(b, d) == Explored(b, d) /\ run[b].names[Manifest[d].name] = d

LinkOk(b, from, alias, d) ==
  /\ Explored(b, from) /\ Claims(b, d)
  /\ \E dep \in ToSet(Manifest[from].deps) : dep.alias = alias /\ Target(b, dep) = d

FrameOk(b, f) ==
  /\ Claims(b, f.dir)
  /\ ToSet(f.deps) \subseteq ToSet(Manifest[f.dir].deps)
  /\ f.from # None => LinkOk(b, f.from, f.alias, f.dir)

FramesOk(b, fs) ==
  fs # <<>> /\ fs[Len(fs)].from = None /\ \A i \in DOMAIN fs : FrameOk(b, fs[i])

Stack(b) == run[b].phase \in {"link", "done"} => FramesOk(b, run[b].frames)

Linked(b) ==
  run[b].phase \in {"link", "done"} =>
    /\ Claims(b, run[b].project)
    /\ \A d \in Dirs : run[b].cache[d] = "good" => Claims(b, d)
    /\ \A l \in run[b].links : LinkOk(b, l[1], l[2], l[3])

Resolving(b) ==
  /\ Remembers(b) /\ Asking(b) /\ Phases(b) /\ Readings(b) /\ Recordings(b)
  /\ Namings(b) /\ Coverage(b) /\ Selections(b) /\ Stack(b) /\ Linked(b)

DInv == IInv /\ DepsTypeOK /\ \A b \in Builders : Resolving(b)

-----------------------------------------------------------------------------
(* Sequences as sets *)

LEMMA TailSet ==
  ASSUME NEW S, NEW s \in Seq(S), s # <<>>
  PROVE  /\ Head(s) \in S /\ Tail(s) \in Seq(S)
         /\ ToSet(s) = {Head(s)} \cup ToSet(Tail(s))
<1>1. /\ Head(s) = s[1] /\ 1 \in DOMAIN s /\ Tail(s) \in Seq(S)
      /\ \A i \in DOMAIN Tail(s) : i + 1 \in DOMAIN s /\ Tail(s)[i] = s[i + 1]
      /\ \A i \in DOMAIN s : i = 1 \/ (i - 1 \in DOMAIN Tail(s) /\ Tail(s)[i - 1] = s[i])
  OBVIOUS
<1> QED
  BY <1>1 DEF ToSet

LEMMA AppendSet ==
  ASSUME NEW S, NEW s \in Seq(S), NEW x \in S
  PROVE  Append(s, x) \in Seq(S) /\ ToSet(Append(s, x)) = ToSet(s) \cup {x}
<1>1. /\ Append(s, x) \in Seq(S) /\ Len(s) + 1 \in DOMAIN Append(s, x)
      /\ Append(s, x)[Len(s) + 1] = x
      /\ \A i \in DOMAIN s : i \in DOMAIN Append(s, x) /\ Append(s, x)[i] = s[i]
      /\ \A i \in DOMAIN Append(s, x) : i \in DOMAIN s \/ i = Len(s) + 1
  OBVIOUS
<1> QED
  BY <1>1 DEF ToSet

LEMMA EmptySet == \A s : s = <<>> => ToSet(s) = {}
BY DEF ToSet

-----------------------------------------------------------------------------
(* What a step of the cache does to the memo of failures *)

MemoKept(p) ==
  /\ want' = want
  /\ \A q \in Procs \ {p} :
       /\ pc'[q] = pc[q] /\ purpose'[q] = purpose[q] /\ answer'[q] = answer[q]
       /\ mirrors'[q] = mirrors[q] /\ subdirs'[q] = subdirs[q]
  /\ pc[p] # "idle" /\ pc'[p] # "idle"
  /\ purpose[p] # "add" => purpose'[p] # "add"
  /\ mirrors[p] \subseteq mirrors'[p] /\ subdirs[p] \subseteq subdirs'[p]

LEMMA CacheStepMemo == ASSUME IInv, NEW p \in Procs, CacheStep(p) PROVE MemoKept(p)
<1>0. TypeOK /\ Local(p)
  BY DEF IInv
<1> USE <1>0 DEF MemoKept, TypeOK, Goto, Answers, Known, Found, Fails, OriginOk, Fetched,
                 Quiet, disk, world, request
<1>1. CASE Look(p)
  BY <1>1 DEF Look
<1>2. CASE Ensure(p)
  BY <1>2 DEF Ensure
<1>3. CASE Verify(p)
  BY <1>3 DEF Verify
<1>4. CASE Origin(p)
  BY <1>4 DEF Origin
<1>5. CASE Again(p)
  BY <1>5 DEF Again
<1>6. CASE Download(p)
  BY <1>6 DEF Download
<1>7. CASE DownloadFails(p)
  BY <1>7 DEF DownloadFails
<1>8. CASE Publish(p)
  BY <1>8 DEF Publish
<1>9. CASE Rename(p)
  BY <1>9 DEF Rename
<1>10. CASE Refused(p)
  BY <1>10 DEF Refused
<1>11. CASE Adopt(p)
  BY <1>11 DEF Adopt
<1>12. CASE Record(p)
  BY <1>12 DEF Record
<1>13. CASE Truncate(p)
  BY <1>13 DEF Truncate
<1>14. CASE Write(p)
  BY <1>14 DEF Write
<1> QED
  BY <1>1, <1>2, <1>3, <1>4, <1>5, <1>6, <1>7, <1>8, <1>9, <1>10, <1>11, <1>12, <1>13,
     <1>14 DEF CacheStep

LEMMA CacheStepRemembers ==
  ASSUME IInv, NEW p \in Procs, CacheStep(p), Remembers(p) PROVE Remembers(p)'
<1>0. TypeOK /\ Located(p)
  BY DEF IInv, Local
<1> USE <1>0 DEF Remembers, Failed, Settled, TypeOK, Goto, Answers, Known, Found, Fails,
                 OriginOk, Fetched, Quiet, disk, world, request
<1>1. CASE Look(p)
  BY <1>1 DEF Look, Located
<1>2. CASE Ensure(p)
  BY <1>2 DEF Ensure, Located
<1>3. CASE Verify(p)
  BY <1>3 DEF Verify
<1>4. CASE Origin(p)
  BY <1>4 DEF Origin
<1>5. CASE Again(p)
  BY <1>5 DEF Again
<1>6. CASE Download(p)
  BY <1>6 DEF Download
<1>7. CASE DownloadFails(p)
  BY <1>7 DEF DownloadFails
<1>8. CASE Publish(p)
  BY <1>8 DEF Publish
<1>9. CASE Rename(p)
  BY <1>9 DEF Rename
<1>10. CASE Refused(p)
  BY <1>10 DEF Refused
<1>11. CASE Adopt(p)
  BY <1>11 DEF Adopt
<1>12. CASE Record(p)
  BY <1>12 DEF Record
<1>13. CASE Truncate(p)
  BY <1>13 DEF Truncate
<1>14. CASE Write(p)
  BY <1>14 DEF Write
<1> QED
  BY <1>1, <1>2, <1>3, <1>4, <1>5, <1>6, <1>7, <1>8, <1>9, <1>10, <1>11, <1>12, <1>13,
     <1>14 DEF CacheStep

LEMMA SetRun ==
  ASSUME DepsTypeOK, NEW b \in Builders, NEW r \in Run, Set(b, r)
  PROVE  /\ run' \in [Builders -> Run] /\ asks' = asks /\ run'[b] = r
         /\ \A c \in Builders \ {b} : run'[c] = run[c]
BY DEF DepsTypeOK, Set

Changes(b, fields) ==
  \A f \in {"phase", "project", "queue", "todo", "seen", "mfc", "reqs", "url_names",
            "available", "pending", "diags", "left", "current", "resolved", "frames",
            "cache", "names", "links"} \ fields : run'[b][f] = run[b][f]

-----------------------------------------------------------------------------
(* The winner is there, and is a requirement at the highest version *)

LEMMA LeastNat ==
  ASSUME NEW S, S \subseteq Nat, S # {} PROVE \E m \in S : \A k \in S : m <= k
<1>1. PICK m \in S : \A k \in S : <<k, m>> \notin OpToRel(<, Nat)
  BY NatLessThanWellFounded, WFMin
<1>2. \A k \in S : ~(k < m)
  BY <1>1 DEF OpToRel
<1> QED
  BY <1>2

LEMMA MaxReqIs ==
  ASSUME NEW rs \in Seq(UrlDep), rs # <<>>
  PROVE  /\ MaxReq(rs) \in ToSet(rs) /\ MaxReq(rs) \in UrlDep
         /\ \A r \in ToSet(rs) : r.ver <= MaxReq(rs).ver
<1>1. Len(rs) \in Nat /\ Len(rs) >= 1 /\ DOMAIN rs = 1 .. Len(rs)
  OBVIOUS
<1>2. \A i \in 1 .. Len(rs) : rs[i] \in UrlDep /\ rs[i].ver \in Nat
  BY <1>1, DepsAssumption DEF UrlDep, Dep
<1> DEFINE Tops(k) == {i \in 1 .. k : \A j \in 1 .. k : rs[j].ver <= rs[i].ver}
           Topless == {k \in 1 .. Len(rs) : Tops(k) = {}}
<1>3. Topless = {}
  <2> SUFFICES ASSUME Topless # {} PROVE FALSE
    OBVIOUS
  <2>1. Topless \subseteq Nat
    OBVIOUS
  <2>2. PICK k \in Topless : \A l \in Topless : k <= l
    <3> HIDE DEF Topless
    <3> QED BY <2>1, LeastNat
  <2>3. k # 1
    <3>1. 1 \in Tops(1)
      BY <1>1, <1>2
    <3> QED
      BY <3>1
  <2>4. k - 1 \in 1 .. Len(rs) /\ k - 1 \notin Topless
    <3>1. k \in 1 .. Len(rs)
      OBVIOUS
    <3>2. k - 1 \notin Topless
      <4> HIDE DEF Topless
      <4> QED BY <2>2, <3>1
    <3> QED
      BY <1>1, <2>3, <3>1, <3>2
  <2>5. PICK i \in 1 .. k - 1 : \A j \in 1 .. k - 1 : rs[j].ver <= rs[i].ver
    BY <2>4
  <2>6. rs[k].ver \in Nat /\ rs[i].ver \in Nat /\ i \in 1 .. k /\ k \in 1 .. k
        /\ \A j \in 1 .. k : j = k \/ j \in 1 .. k - 1
    BY <1>2, <2>4
  <2>7. CASE rs[k].ver <= rs[i].ver
    <3>1. i \in Tops(k)
      BY <2>5, <2>6, <2>7
    <3> QED
      BY <3>1
  <2>8. CASE rs[i].ver <= rs[k].ver
    <3>1. \A j \in 1 .. k - 1 : rs[j].ver \in Nat
      BY <1>2, <2>4
    <3>2. k \in Tops(k)
      BY <2>5, <2>6, <2>8, <3>1
    <3> QED
      BY <3>2
  <2> QED
    BY <2>6, <2>7, <2>8
<1>4. Tops(Len(rs)) # {} /\ Tops(Len(rs)) \subseteq Nat
  BY <1>1, <1>3
<1>5. PICK m \in Tops(Len(rs)) : \A k \in Tops(Len(rs)) : m <= k
  <2> HIDE DEF Tops
  <2> QED BY <1>4, LeastNat
<1>6. \A j \in 1 .. m - 1 : rs[j].ver < rs[m].ver
  <2> SUFFICES ASSUME NEW j \in 1 .. m - 1, ~(rs[j].ver < rs[m].ver) PROVE FALSE
    OBVIOUS
  <2>1. j \in 1 .. Len(rs) /\ rs[j].ver \in Nat /\ rs[m].ver \in Nat
    BY <1>1, <1>2
  <2>2. \A l \in 1 .. Len(rs) : rs[l].ver \in Nat /\ rs[l].ver <= rs[j].ver
    BY <1>2, <2>1
  <2>3. j \in Tops(Len(rs))
    BY <2>1, <2>2
  <2> QED
    BY <1>5, <2>3
<1> DEFINE Highest(i) == /\ \A j \in DOMAIN rs : rs[j].ver <= rs[i].ver
                         /\ \A j \in 1 .. i - 1 : rs[j].ver < rs[i].ver
<1>7. m \in DOMAIN rs /\ Highest(m)
  BY <1>1, <1>5, <1>6
<1>8. PICK i \in DOMAIN rs : Highest(i) /\ MaxReq(rs) = rs[i]
  BY <1>7 DEF MaxReq
<1> QED
  BY <1>1, <1>2, <1>8 DEF ToSet

-----------------------------------------------------------------------------
(* What the operators of the resolver give *)

LEMMA WinnerIs ==
  ASSUME DepsTypeOK, NEW b \in Builders, NEW n \in Names, run[b].reqs[n] # <<>>
  PROVE  /\ Winner(b, n) \in ToSet(run[b].reqs[n]) /\ Winner(b, n) \in UrlDep
         /\ \A r \in ToSet(run[b].reqs[n]) : r.ver <= Winner(b, n).ver
BY MaxReqIs DEF DepsTypeOK, Run, Winner

LEMMA UrlDepIs ==
  ASSUME NEW dep \in UrlDep
  PROVE  /\ PackageOf(dep) \in Packages /\ PackageOf(dep) \in Dirs
         /\ RequestOf(dep) \in [url : Urls, hash : Hashes, sub : Subdirs]
         /\ RequestOf(dep) \in Request /\ dep.ver \in Nat /\ ~IsPath(dep)
BY DepsAssumption DEF UrlDep, Dep, PackageOf, RequestOf, Packages, Dirs, Request, Served, IsPath

LEMMA RequestFails == ASSUME NEW b, NEW dep PROVE Failed(b, RequestOf(dep)) <=> Failed(b, dep)
BY DEF Failed, RequestOf

LEMMA DirIs ==
  ASSUME NEW d \in Dirs
  PROVE  /\ Manifest[d].name \in Names /\ Manifest[d].deps \in Seq(Dep)
         /\ d # None /\ (d \in Packages <=> d \notin Paths)
BY DepsAssumption DEF Dirs

FrameType == [dir : Dirs, from : Dirs \cup {None}, alias : Names \cup {None}, deps : Seq(Dep)]

LEMMA RunIs ==
  ASSUME DepsTypeOK, NEW b \in Builders
  PROVE  /\ run[b] \in Run /\ run[b].project \in Paths /\ run[b].project \in Dirs
         /\ run[b].frames \in Seq(FrameType)
         /\ \A i \in DOMAIN run[b].frames : run[b].frames[i] \in FrameType
         /\ \A l \in run[b].links : l[1] \in Dirs /\ l[2] \in Names /\ l[3] \in Dirs
         /\ run[b].seen \subseteq Dirs /\ ToSet(run[b].queue) \subseteq Dirs
         /\ \A n \in Names : ToSet(run[b].reqs[n]) \subseteq UrlDep
<1>1. run[b] \in Run
  BY DEF DepsTypeOK
<1>2. run[b].project \in Paths /\ run[b].project \in Dirs
  BY <1>1, DepsAssumption DEF Run, Dirs
<1>3. run[b].frames \in Seq(FrameType)
  BY <1>1 DEF Run, FrameType
<1>4. \A i \in DOMAIN run[b].frames : run[b].frames[i] \in FrameType
  BY <1>3
<1>5. \A l \in run[b].links : l[1] \in Dirs /\ l[2] \in Names /\ l[3] \in Dirs
  BY <1>1 DEF Run
<1>6. run[b].seen \subseteq Dirs /\ ToSet(run[b].queue) \subseteq Dirs
      /\ \A n \in Names : ToSet(run[b].reqs[n]) \subseteq UrlDep
  BY <1>1 DEF Run, ToSet
<1> QED
  BY <1>1, <1>2, <1>3, <1>4, <1>5, <1>6

LEMMA ManifestRead ==
  ASSUME DepsTypeOK, NEW b \in Builders, NEW d \in Dirs
  PROVE  /\ ReadManifest(b, d) \in {"some", "none"}
         /\ DepsOf(b, d) \in Seq(Dep)
         /\ Readings(b) /\ d \in Visited(b) => (ReadManifest(b, d) = "some" <=> Readable(b, d))
<1>1. run[b].mfc \in [Packages -> {"unread", "some", "none"}]
  BY DEF DepsTypeOK, Run
<1>2. d \in Packages <=> d \notin Paths
  BY DirIs
<1>3. /\ ReadManifest(b, d) \in {"some", "none"}
      /\ Readings(b) /\ d \in Visited(b) => (ReadManifest(b, d) = "some" <=> Readable(b, d))
  BY <1>1, <1>2 DEF ReadManifest, Readings, Readable
<1> QED
  BY <1>3, DirIs DEF DepsOf

-----------------------------------------------------------------------------
(* What is kept when the fields it is about are *)

LEMMA ReqsKept ==
  ASSUME NEW b, run'[b].reqs = run[b].reqs
  PROVE  /\ Required(b)' = Required(b)
         /\ \A n : /\ Winner(b, n)' = Winner(b, n)
                   /\ (Crossed(b, n)' <=> Crossed(b, n))
                   /\ (Selectable(b, n)' <=> Selectable(b, n))
<1>1. \A n : Winner(b, n)' = Winner(b, n)
  BY DEF Winner
<1>2. \A n : Crossed(b, n)' <=> Crossed(b, n)
  BY <1>1 DEF Crossed
<1> QED
  BY <1>1, <1>2 DEF Required, Selectable

MemoGrows(b) == mirrors[b] \subseteq mirrors'[b] /\ subdirs[b] \subseteq subdirs'[b]

LEMMA FailedGrows == ASSUME NEW b, MemoGrows(b) PROVE \A r : Failed(b, r) => Failed(b, r)'
BY DEF MemoGrows, Failed

Walked(b) == Readings(b) /\ Recordings(b) /\ Namings(b) /\ Coverage(b)

LEMMA WalkKept ==
  ASSUME NEW b, MemoGrows(b), Walked(b),
         run'[b].queue = run[b].queue, run'[b].todo = run[b].todo, run'[b].seen = run[b].seen,
         run'[b].mfc = run[b].mfc, run'[b].reqs = run[b].reqs,
         run'[b].url_names = run[b].url_names
  PROVE  Walked(b)'
<1>1. /\ Required(b)' = Required(b) /\ Visited(b)' = Visited(b)
      /\ \A r : Failed(b, r) => Failed(b, r)'
  BY ReqsKept, FailedGrows DEF Visited
<1>2. Readings(b)'
  BY <1>1 DEF Walked, Readings
<1>3. Recordings(b)'
  BY <1>1 DEF Walked, Recordings
<1>4. Namings(b)'
  BY <1>1 DEF Walked, Namings, Reached
<1>5. Coverage(b)'
  BY <1>1 DEF Walked, Coverage, Readable, Covered
<1> QED
  BY <1>2, <1>3, <1>4, <1>5 DEF Walked

LEMMA SelectionsKept ==
  ASSUME NEW b, Selections(b),
         run'[b].left = run[b].left, run'[b].current = run[b].current,
         run'[b].resolved = run[b].resolved, run'[b].reqs = run[b].reqs,
         run'[b].seen = run[b].seen, run'[b].mfc = run[b].mfc
  PROVE  Selections(b)'
BY ReqsKept DEF Selections, Chosen

(* what a link rests on, of which only the claims to names grow *)
LinksRest(b) ==
  /\ run'[b].seen = run[b].seen /\ run'[b].mfc = run[b].mfc /\ run'[b].reqs = run[b].reqs
  /\ run'[b].url_names = run[b].url_names /\ run'[b].resolved = run[b].resolved
  /\ run'[b].project = run[b].project
  /\ \A n \in Names : run[b].names[n] # None => run'[b].names[n] = run[b].names[n]

LEMMA LinksKept ==
  ASSUME NEW b, LinksRest(b)
  PROVE  /\ \A dep : Target(b, dep)' = Target(b, dep)
         /\ \A d : Explored(b, d)' <=> Explored(b, d)
         /\ \A d \in Dirs : Claims(b, d) => Claims(b, d)'
         /\ \A from, alias : \A d \in Dirs : LinkOk(b, from, alias, d) => LinkOk(b, from, alias, d)'
         /\ \A f : f.dir \in Dirs /\ FrameOk(b, f) => FrameOk(b, f)'
<1>1. \A dep : Target(b, dep)' = Target(b, dep)
  BY ReqsKept DEF LinksRest, Target
<1>2. \A d : Explored(b, d)' <=> Explored(b, d)
  BY DEF LinksRest, Explored, Readable
<1>3. \A d \in Dirs : Claims(b, d) => Claims(b, d)'
  BY <1>2, DirIs DEF LinksRest, Claims
<1>4. \A from, alias : \A d \in Dirs : LinkOk(b, from, alias, d) => LinkOk(b, from, alias, d)'
  BY <1>1, <1>2, <1>3 DEF LinkOk
<1>5. \A f : f.dir \in Dirs /\ FrameOk(b, f) => FrameOk(b, f)'
  BY <1>3, <1>4 DEF FrameOk
<1> QED
  BY <1>1, <1>2, <1>3, <1>4, <1>5

LEMMA NotLinking ==
  ASSUME NEW b, run'[b].phase \notin {"link", "done"} PROVE Stack(b)' /\ Linked(b)'
BY DEF Stack, Linked

LEMMA StackKept ==
  ASSUME DepsTypeOK, NEW b \in Builders, LinksRest(b), Stack(b), Linked(b),
         run'[b].phase = run[b].phase, run'[b].frames = run[b].frames,
         run'[b].cache = run[b].cache, run'[b].links = run[b].links
  PROVE  Stack(b)' /\ Linked(b)'
<1>1. /\ \A i \in DOMAIN run[b].frames : run[b].frames[i].dir \in Dirs
      /\ \A l \in run[b].links : l[3] \in Dirs
      /\ run[b].project \in Dirs
  BY RunIs DEF FrameType
<1>2. Stack(b)'
  BY <1>1, LinksKept DEF Stack, FramesOk
<1>3. Linked(b)'
  BY <1>1, LinksKept DEF Linked, LinksRest
<1> QED
  BY <1>2, <1>3

LEMMA PhasesKept ==
  ASSUME NEW b, run'[b] = run[b], Phases(b) PROVE Phases(b)'
BY DEF Phases, Visited

(* a step of the cache, or of nobody that b knows *)
LEMMA RunKept ==
  ASSUME DepsTypeOK, NEW b \in Builders, Resolving(b), run'[b] = run[b], MemoGrows(b),
         Remembers(b)', Asking(b)'
  PROVE  Resolving(b)'
<1>1. Walked(b)'
  BY WalkKept DEF Resolving, Walked
<1>2. LinksRest(b)
  BY DEF LinksRest
<1>3. Stack(b)' /\ Linked(b)'
  BY <1>2, StackKept DEF Resolving
<1>4. Selections(b)' /\ Phases(b)'
  BY SelectionsKept, PhasesKept DEF Resolving
<1> QED
  BY <1>1, <1>3, <1>4 DEF Resolving, Walked

SameCall(p) ==
  /\ pc'[p] = pc[p] /\ want'[p] = want[p] /\ purpose'[p] = purpose[p]
  /\ answer'[p] = answer[p] /\ mirrors'[p] = mirrors[p] /\ subdirs'[p] = subdirs[p]

LEMMA SameCallKept ==
  ASSUME NEW b, SameCall(b), Remembers(b) PROVE MemoGrows(b) /\ Remembers(b)'
BY DEF SameCall, MemoGrows, Remembers, Failed

(* a builder is not concerned by what the others do *)
LEMMA OtherKept ==
  ASSUME DepsTypeOK, NEW b \in Builders, Resolving(b), run'[b] = run[b], SameCall(b)
  PROVE  Resolving(b)'
<1>1. MemoGrows(b) /\ Remembers(b)'
  BY SameCallKept DEF Resolving
<1>2. Asking(b)'
  BY ReqsKept DEF Resolving, Asking, SameCall
<1> QED
  BY <1>1, <1>2, RunKept

-----------------------------------------------------------------------------
(* The steps of a builder: the walk *)

RunStep(b) ==
  /\ run' \in [Builders -> Run] /\ asks' = asks
  /\ \A c \in Builders \ {b} : run'[c] = run[c]
  /\ Resolving(b)'

LEMMA BeginKeeps == ASSUME DInv, NEW b \in Builders, Begin(b) PROVE RunStep(b)
<1> DEFINE r == [run[b] EXCEPT !.phase = "walk", !.queue = <<run[b].project>>]
<1>0. DepsTypeOK /\ Resolving(b) /\ run[b] \in Run
  BY DEF DInv, DepsTypeOK
<1>1. run[b].project \in Paths /\ run[b].project \in Dirs /\ <<run[b].project>> \in Seq(Dirs)
  BY <1>0, RunIs
<1>2. r \in Run
  BY <1>0, <1>1, ZenonT(60) DEF Run
<1>3. /\ run' \in [Builders -> Run] /\ asks' = asks /\ run'[b] = r
      /\ \A c \in Builders \ {b} : run'[c] = run[c]
  BY <1>0, <1>2, SetRun DEF Begin
<1>4. /\ run'[b].phase = "walk" /\ run'[b].queue = <<run[b].project>>
      /\ Changes(b, {"phase", "queue"})
  BY <1>0, <1>3, ZenonT(60) DEF Run, Changes
<1>5. SameCall(b)
  BY DEF Begin, vars, SameCall
<1>6. Remembers(b)' /\ MemoGrows(b)
  BY <1>0, <1>5, SameCallKept DEF Resolving
<1>7. /\ run[b].seen = {} /\ Visited(b) = {} /\ Visited(b)' = {run[b].project}
      /\ run[b].todo = <<>> /\ run[b].current = None
  BY <1>0, <1>4, EmptySet DEF Resolving, Phases, Visited, Changes, ToSet, Begin
<1>8. Asking(b)'
  BY <1>0, <1>5 DEF Resolving, Asking, SameCall, Begin
<1>9. Phases(b)'
  BY <1>0, <1>4, <1>7 DEF Resolving, Phases, Changes, Begin
<1>10. Required(b)' = Required(b) /\ \A x : Failed(b, x) => Failed(b, x)'
  BY <1>4, <1>6, ReqsKept, FailedGrows DEF Changes
<1>11. Walked(b)'
  BY <1>0, <1>1, <1>4, <1>7, <1>10, DirIs
     DEF Resolving, Walked, Readings, Recordings, Namings, Coverage, Changes, Reached
<1>12. Selections(b)'
  BY <1>0, <1>4, SelectionsKept DEF Resolving, Changes
<1>13. Stack(b)' /\ Linked(b)'
  BY <1>4, NotLinking
<1> QED
  BY <1>3, <1>6, <1>8, <1>9, <1>11, <1>12, <1>13 DEF RunStep, Resolving, Walked

LEMMA VisitKeeps == ASSUME DInv, NEW b \in Builders, Visit(b) PROVE RunStep(b)
<1> DEFINE d == Head(run[b].queue)
           q == Tail(run[b].queue)
           r == IF d \in run[b].seen THEN [run[b] EXCEPT !.queue = Tail(@)]
                ELSE [run[b] EXCEPT !.queue = Tail(@), !.seen = @ \cup {d},
                                    !.todo = DepsOf(b, d)]
<1>0. DepsTypeOK /\ Resolving(b) /\ run[b] \in Run
  BY DEF DInv, DepsTypeOK
<1>1. /\ d \in Dirs /\ q \in Seq(Dirs) /\ ToSet(run[b].queue) = {d} \cup ToSet(q)
      /\ DepsOf(b, d) \in Seq(Dep)
  BY <1>0, TailSet, ManifestRead, SMTT(60) DEF Run, Visit
<1>2. r \in Run
  <2>1. [run[b] EXCEPT !.queue = Tail(@)] \in Run
    BY <1>0, <1>1, ZenonT(60) DEF Run
  <2>2. [run[b] EXCEPT !.queue = Tail(@), !.seen = @ \cup {d}, !.todo = DepsOf(b, d)] \in Run
    BY <1>0, <1>1, ZenonT(60) DEF Run
  <2> QED
    BY <2>1, <2>2
<1>3. /\ run' \in [Builders -> Run] /\ asks' = asks /\ run'[b] = r
      /\ \A c \in Builders \ {b} : run'[c] = run[c]
  BY <1>0, <1>2, SetRun DEF Visit
<1>4. /\ run'[b].queue = q /\ Changes(b, {"queue", "seen", "todo"})
      /\ run'[b].seen = run[b].seen \cup {d}
      /\ run'[b].todo = IF d \in run[b].seen THEN <<>> ELSE DepsOf(b, d)
  <2>1. CASE d \in run[b].seen
    <3>1. run'[b] = [run[b] EXCEPT !.queue = Tail(@)]
      BY <1>3, <2>1
    <3> QED
      BY <1>0, <2>1, <3>1 DEF Run, Changes, Visit
  <2>2. CASE d \notin run[b].seen
    <3>1. run'[b] = [run[b] EXCEPT !.queue = Tail(@), !.seen = @ \cup {d},
                                   !.todo = DepsOf(b, d)]
      BY <1>3, <2>2
    <3> QED
      BY <1>0, <2>2, <3>1, ZenonT(60) DEF Run, Changes
  <2> QED
    BY <2>1, <2>2
<1>5. SameCall(b)
  BY DEF Visit, vars, SameCall
<1>6. Remembers(b)' /\ MemoGrows(b)
  BY <1>0, <1>5, SameCallKept DEF Resolving
<1>7. Visited(b)' = Visited(b) /\ d \in Visited(b)
  BY <1>1, <1>4 DEF Visited
<1>8. Asking(b)' /\ run[b].current = None
  BY <1>0, <1>5 DEF Resolving, Asking, Phases, SameCall, Visit
<1>9. Phases(b)'
  BY <1>0, <1>4, <1>7 DEF Resolving, Phases, Changes, Visit
<1>10. Required(b)' = Required(b) /\ \A x : Failed(b, x) => Failed(b, x)'
  BY <1>4, <1>6, ReqsKept, FailedGrows DEF Changes
<1>11. Readings(b)' /\ Recordings(b)' /\ Namings(b)'
  BY <1>0, <1>4, <1>7, <1>10
     DEF Resolving, Readings, Recordings, Namings, Changes, Reached
<1>12. Coverage(b)'
  <2>1. \A e \in Dirs : Readable(b, e)' <=> Readable(b, e)
    BY <1>4 DEF Readable, Changes
  <2>2. \A dep : Covered(b, dep)' <=> Covered(b, dep)
    BY <1>7, <1>10 DEF Covered
  <2>3. d \notin run[b].seen /\ Readable(b, d) => run'[b].todo = Manifest[d].deps
    BY <1>0, <1>1, <1>4, <1>7, ManifestRead DEF Resolving, DepsOf
  <2>4. run[b].seen \subseteq Dirs /\ run[b].todo = <<>> /\ ToSet(<<>>) = {}
    BY <1>0, RunIs, EmptySet DEF Visit
  <2> QED
    BY <1>0, <1>1, <1>4, <2>1, <2>2, <2>3, <2>4 DEF Resolving, Coverage
<1>13. Selections(b)'
  BY <1>0, <1>4, <1>8, ReqsKept DEF Resolving, Selections, Chosen, Changes
<1>14. Stack(b)' /\ Linked(b)'
  BY <1>4, NotLinking DEF Changes, Visit
<1> QED
  BY <1>3, <1>6, <1>8, <1>9, <1>11, <1>12, <1>13, <1>14 DEF RunStep, Resolving

LEMMA WalkPathKeeps == ASSUME DInv, NEW b \in Builders, WalkPath(b) PROVE RunStep(b)
<1> DEFINE dep == Head(run[b].todo)
           r == [run[b] EXCEPT !.todo = Tail(@), !.queue = Append(@, dep.path)]
<1>0. DepsTypeOK /\ Resolving(b) /\ run[b] \in Run
  BY DEF DInv, DepsTypeOK
<1>1. /\ dep \in Dep /\ Tail(run[b].todo) \in Seq(Dep)
      /\ ToSet(run[b].todo) = {dep} \cup ToSet(Tail(run[b].todo))
  BY <1>0, TailSet DEF Run, WalkPath
<1>2. dep.path \in Paths /\ dep.path \in Dirs /\ IsPath(dep)
  BY <1>1 DEF WalkPath, IsPath, Dep, Dirs
<1>3. /\ Append(run[b].queue, dep.path) \in Seq(Dirs)
      /\ ToSet(Append(run[b].queue, dep.path)) = ToSet(run[b].queue) \cup {dep.path}
  BY <1>0, <1>2, AppendSet DEF Run
<1>4. r \in Run
  BY <1>0, <1>1, <1>3, ZenonT(60) DEF Run
<1>5. /\ run' \in [Builders -> Run] /\ asks' = asks /\ run'[b] = r
      /\ \A c \in Builders \ {b} : run'[c] = run[c]
  BY <1>0, <1>4, SetRun DEF WalkPath
<1>6. /\ run'[b].todo = Tail(run[b].todo) /\ run'[b].queue = Append(run[b].queue, dep.path)
      /\ Changes(b, {"todo", "queue"})
  BY <1>0, <1>5 DEF Run, Changes
<1>7. SameCall(b)
  BY DEF WalkPath, vars, SameCall
<1>8. Remembers(b)' /\ MemoGrows(b)
  BY <1>0, <1>7, SameCallKept DEF Resolving
<1>9. Visited(b)' = Visited(b) \cup {dep.path}
  BY <1>3, <1>6 DEF Visited, Changes
<1>10. Asking(b)' /\ run[b].current = None
  BY <1>0, <1>2, <1>7, SMTT(60) DEF Resolving, Asking, Phases, SameCall, WalkPath
<1>11. Phases(b)'
  BY <1>0, <1>6, <1>9 DEF Resolving, Phases, Changes, WalkPath
<1>12. Required(b)' = Required(b) /\ \A x : Failed(b, x) => Failed(b, x)'
  BY <1>6, <1>8, ReqsKept, FailedGrows DEF Changes
<1>13. Readings(b)' /\ Recordings(b)' /\ Namings(b)'
  BY <1>0, <1>2, <1>6, <1>9, <1>12, DirIs
     DEF Resolving, Readings, Recordings, Namings, Changes, Reached
<1>14. Coverage(b)'
  BY <1>0, <1>1, <1>2, <1>6, <1>9, <1>12 DEF Resolving, Coverage, Changes, Covered, Readable
<1>15. Selections(b)'
  BY <1>0, <1>6, SelectionsKept DEF Resolving, Changes
<1>16. Stack(b)' /\ Linked(b)'
  BY <1>6, NotLinking DEF Changes, WalkPath
<1> QED
  BY <1>5, <1>8, <1>10, <1>11, <1>13, <1>14, <1>15, <1>16 DEF RunStep, Resolving

LEMMA WalkOverKeeps == ASSUME DInv, NEW b \in Builders, WalkOver(b) PROVE RunStep(b)
<1> DEFINE r == [run[b] EXCEPT !.phase = "select",
                               !.left = {n \in Names : run[b].reqs[n] # <<>>}]
<1>0. DepsTypeOK /\ Resolving(b) /\ run[b] \in Run
  BY DEF DInv, DepsTypeOK
<1>1. r \in Run
  BY <1>0, ZenonT(60) DEF Run
<1>2. /\ run' \in [Builders -> Run] /\ asks' = asks /\ run'[b] = r
      /\ \A c \in Builders \ {b} : run'[c] = run[c]
  BY <1>0, <1>1, SetRun DEF WalkOver
<1>3. /\ run'[b].phase = "select" /\ run'[b].left = {n \in Names : run[b].reqs[n] # <<>>}
      /\ Changes(b, {"phase", "left"})
  BY <1>0, <1>2, ZenonT(60) DEF Run, Changes
<1>4. SameCall(b)
  BY DEF WalkOver, vars, SameCall
<1>5. Remembers(b)' /\ MemoGrows(b)
  BY <1>0, <1>4, SameCallKept DEF Resolving
<1>6. Asking(b)' /\ run[b].current = None
  BY <1>0, <1>4 DEF Resolving, Asking, Phases, SameCall, WalkOver
<1>7. Phases(b)'
  BY <1>0, <1>3, EmptySet DEF Resolving, Phases, Changes, WalkOver, Visited
<1>8. Walked(b)'
  BY <1>0, <1>3, <1>5, WalkKept DEF Resolving, Walked, Changes
<1>9. Selections(b)'
  BY <1>0, <1>3, <1>6, ReqsKept DEF Resolving, Selections, Chosen, Changes
<1>10. Stack(b)' /\ Linked(b)'
  BY <1>3, NotLinking
<1> QED
  BY <1>2, <1>5, <1>6, <1>7, <1>8, <1>9, <1>10 DEF RunStep, Resolving, Walked

-----------------------------------------------------------------------------
(* Asking and being answered *)

LEMMA AskIs ==
  ASSUME TypeOK, NEW p \in Procs, NEW r \in Request, Ask(p, r)
  PROVE  /\ pc'[p] = "asked" /\ want'[p] = r /\ purpose'[p] = "cold"
         /\ mirrors' = mirrors /\ subdirs' = subdirs
         /\ \A q \in Procs \ {p} : SameCall(q)
BY DEF TypeOK, Ask, Asks, SameCall

LEMMA TakeIs ==
  ASSUME TypeOK, NEW p \in Procs, Take(p)
  PROVE  /\ pc[p] = "answered" /\ pc'[p] = "idle"
         /\ mirrors' = mirrors /\ subdirs' = subdirs
         /\ \A q \in Procs \ {p} : SameCall(q)
BY DEF TypeOK, Take, Returned, SameCall

LEMMA AttemptIs ==
  ASSUME DepsTypeOK, NEW b \in Builders, NEW dep \in UrlDep, want[b] = RequestOf(dep)
  PROVE  /\ Attempt(b) \in Run
         /\ \A f \in {"phase", "project", "queue", "todo", "seen", "mfc", "reqs", "url_names",
                      "left", "current", "resolved", "frames", "cache", "names", "links"} :
              Attempt(b)[f] = run[b][f]
<1> DEFINE r == run[b]
           h == want[b].hash
           m == IF answer[b].mirror_ok THEN r.available \cup {h} ELSE r.available
           g == IF answer[b].diag = "subdir" THEN r.diags \cup {<<"subdir", <<h, want[b].sub>>>>}
                ELSE r.diags
           w == IF answer[b].diag = "mirror" /\ h \notin r.available THEN r.pending \cup {h}
                ELSE r.pending
<1>1. h \in Hashes /\ <<h, want[b].sub>> \in Packages
  BY UrlDepIs DEF RequestOf, PackageOf, Packages
<1>2. r \in Run
  BY DEF DepsTypeOK
<1>3. m \in SUBSET Hashes /\ w \in SUBSET Hashes
  BY <1>1, <1>2 DEF Run
<1> DEFINE D == {"mirror", "subdir", "hashes", "classes", "major", "version",
                 "cycle", "copies", "src", "manifest"}
                \X (Hashes \cup Packages \cup Names \cup Dirs)
<1>4. g \in SUBSET D
  <2>1. r.diags \in SUBSET D
    BY <1>2 DEF Run
  <2>2. <<"subdir", <<h, want[b].sub>>>> \in D
    BY <1>1
  <2> HIDE DEF D
  <2> QED
    BY <2>1, <2>2
<1>5. Attempt(b) = [r EXCEPT !.available = m, !.diags = g, !.pending = w]
  BY <1>2 DEF Attempt, Run
<1> HIDE DEF m, g, w
<1>6. Attempt(b) \in Run
  <2>1. [r EXCEPT !.available = m] \in Run
    BY <1>2, <1>3, ZenonT(60) DEF Run
  <2>2. [r EXCEPT !.available = m, !.diags = g] \in Run
    BY <1>4, <2>1, ZenonT(60) DEF Run
  <2>3. [r EXCEPT !.available = m, !.diags = g, !.pending = w] \in Run
    BY <1>3, <2>2, ZenonT(60) DEF Run
  <2> QED
    BY <1>5, <2>3
<1>7. \A f \in {"phase", "project", "queue", "todo", "seen", "mfc", "reqs", "url_names",
               "left", "current", "resolved", "frames", "cache", "names", "links"} :
        Attempt(b)[f] = r[f]
  BY <1>2, <1>5, ZenonT(60) DEF Run
<1> QED
  BY <1>6, <1>7

LEMMA WalkAskKeeps ==
  ASSUME DInv, NEW b \in Builders, WalkAsk(b)
  PROVE  /\ RunStep(b) /\ \A q \in Procs \ {b} : SameCall(q)
         /\ \E r \in [url : Urls, hash : Hashes, sub : Subdirs] : Ask(b, r)
<1> DEFINE dep == Head(run[b].todo)
<1>0. DepsTypeOK /\ TypeOK /\ Resolving(b) /\ run[b] \in Run /\ b \in Procs
  BY DepsAssumption DEF DInv, DepsTypeOK
<1>1. dep \in Dep /\ ~IsPath(dep)
  BY <1>0, TailSet DEF WalkAsk, Run
<1>2. dep \in UrlDep
  BY <1>1 DEF IsPath, UrlDep
<1>3. RequestOf(dep) \in Request /\ RequestOf(dep) \in [url : Urls, hash : Hashes, sub : Subdirs]
  BY <1>2, UrlDepIs
<1>4. /\ pc'[b] = "asked" /\ want'[b] = RequestOf(dep) /\ purpose'[b] = "cold"
      /\ mirrors' = mirrors /\ subdirs' = subdirs
      /\ \A q \in Procs \ {b} : SameCall(q)
  BY <1>0, <1>3, AskIs DEF WalkAsk
<1>5. run' = run /\ asks' = asks
  BY DEF WalkAsk
<1>6. MemoGrows(b) /\ Remembers(b)' /\ Asking(b)'
  BY <1>1, <1>4, <1>5 DEF MemoGrows, Remembers, Asking, Settled, WalkAsk
<1>7. Resolving(b)'
  BY <1>0, <1>5, <1>6, RunKept
<1> QED
  BY <1>0, <1>3, <1>4, <1>5, <1>7 DEF RunStep, DepsTypeOK, WalkAsk

LEMMA WalkAnswerKeeps ==
  ASSUME DInv, NEW b \in Builders, WalkAnswer(b)
  PROVE  RunStep(b) /\ \A q \in Procs \ {b} : SameCall(q)
<1> DEFINE dep == Head(run[b].todo)
           d == PackageOf(dep)
           found == answer[b].found
           name == IF found /\ ReadManifest(b, d) = "some" THEN Manifest[d].name ELSE dep.alias
           m == IF found THEN Memo(b, d) ELSE run[b].mfc
           q == IF found THEN Append(run[b].queue, d) ELSE run[b].queue
           r == [Attempt(b) EXCEPT
                   !.todo = Tail(@),
                   !.mfc = IF found THEN Memo(b, d) ELSE @,
                   !.url_names[d] = name,
                   !.reqs[name] = Append(@, dep),
                   !.queue = IF found THEN Append(@, d) ELSE @]
<1>0. DepsTypeOK /\ TypeOK /\ Resolving(b) /\ run[b] \in Run /\ b \in Procs
  BY DepsAssumption DEF DInv, DepsTypeOK
<1>14. Set(b, r)
  BY ZenonT(60) DEF WalkAnswer
<1>1. /\ pc[b] = "answered" /\ pc'[b] = "idle" /\ mirrors' = mirrors /\ subdirs' = subdirs
      /\ \A p \in Procs \ {b} : SameCall(p)
  BY <1>0, TakeIs, SMTT(60) DEF WalkAnswer
<1>2. /\ run[b].todo # <<>> /\ ~IsPath(dep) /\ want[b] = RequestOf(dep)
      /\ purpose[b] # "add" /\ run[b].phase = "walk"
  BY <1>0, <1>1 DEF Resolving, Asking, WalkAnswer
<1>3. found <=> ~Failed(b, dep)
  BY <1>0, <1>1, <1>2, RequestFails DEF Resolving, Remembers
<1>4. /\ dep \in Dep /\ Tail(run[b].todo) \in Seq(Dep)
      /\ ToSet(run[b].todo) = {dep} \cup ToSet(Tail(run[b].todo))
  BY <1>0, <1>2, TailSet DEF Run
<1>5. dep \in UrlDep /\ d \in Packages /\ d \in Dirs
  BY <1>2, <1>4, UrlDepIs DEF IsPath, UrlDep
<1>6. name \in Names
  BY <1>4, <1>5, DirIs, SMTT(60) DEF Dep
<1>7. /\ m \in [Packages -> {"unread", "some", "none"}]
      /\ \A e \in Packages : run[b].mfc[e] # "unread" => m[e] = run[b].mfc[e]
      /\ found => m[d] # "unread" /\ m[d] = ReadManifest(b, d)
      /\ \A e \in Packages : e # d => m[e] = run[b].mfc[e]
  BY <1>0, <1>5, ManifestRead, DirIs DEF Memo, Run, ReadManifest
<1>8. /\ q \in Seq(Dirs) /\ ToSet(run[b].queue) \subseteq ToSet(q)
      /\ ToSet(q) = ToSet(run[b].queue) \cup (IF found THEN {d} ELSE {})
  BY <1>0, <1>5, AppendSet, SMTT(60) DEF Run
<1>9. /\ Append(run[b].reqs[name], dep) \in Seq(UrlDep)
      /\ ToSet(Append(run[b].reqs[name], dep)) = ToSet(run[b].reqs[name]) \cup {dep}
  <2>1. run[b].reqs[name] \in Seq(UrlDep)
    BY <1>0, <1>6 DEF Run
  <2> HIDE DEF name, dep
  <2> QED
    BY <1>5, <2>1, AppendSet
<1> HIDE DEF name, d, dep
<1>10. /\ Attempt(b) \in Run
       /\ \A f \in {"phase", "project", "queue", "todo", "seen", "mfc", "reqs", "url_names",
                    "left", "current", "resolved", "frames", "cache", "names", "links"} :
              Attempt(b)[f] = run[b][f]
  BY <1>0, <1>2, <1>5, AttemptIs
<1>11. r = [Attempt(b) EXCEPT
              !.todo = Tail(run[b].todo), !.mfc = m,
              !.url_names = [run[b].url_names EXCEPT ![d] = name],
              !.reqs = [run[b].reqs EXCEPT ![name] = Append(@, dep)],
              !.queue = q]
  BY <1>10 DEF Run
<1> HIDE DEF m, q
<1> DEFINE names == [run[b].url_names EXCEPT ![d] = name]
           reqs == [run[b].reqs EXCEPT ![name] = Append(@, dep)]
<1>12. /\ [run[b].url_names EXCEPT ![d] = name] \in [Packages -> Names \cup {None}]
       /\ [run[b].reqs EXCEPT ![name] = Append(@, dep)] \in [Names -> Seq(UrlDep)]
  BY <1>0, <1>5, <1>6, <1>9 DEF Run
<1>13. r \in Run
  <2>1. names \in [Packages -> Names \cup {None}] /\ reqs \in [Names -> Seq(UrlDep)]
    BY <1>12
  <2>2. Attempt(b) \in Run
    BY <1>10
  <2>3. r = [Attempt(b) EXCEPT !.todo = Tail(run[b].todo), !.mfc = m, !.url_names = names,
                               !.reqs = reqs, !.queue = q]
    BY <1>11
  <2>4. m \in [Packages -> {"unread", "some", "none"}] /\ q \in Seq(Dirs)
    BY <1>7, <1>8, SMTT(60)
  <2> HIDE DEF names, reqs, r
  <2> QED
    BY <1>4, <2>1, <2>2, <2>3, <2>4, ZenonT(60) DEF Run
<1> HIDE DEF r
<1>15. /\ run' \in [Builders -> Run] /\ asks' = asks /\ run'[b] = r
       /\ \A c \in Builders \ {b} : run'[c] = run[c]
  BY <1>0, <1>13, <1>14, SetRun
<1>16. /\ run'[b].todo = Tail(run[b].todo) /\ run'[b].mfc = m /\ run'[b].queue = q
       /\ run'[b].url_names = [run[b].url_names EXCEPT ![d] = name]
       /\ run'[b].reqs = [run[b].reqs EXCEPT ![name] = Append(@, dep)]
  BY <1>10, <1>11, <1>15 DEF Run
<1>17. Changes(b, {"todo", "mfc", "queue", "url_names", "reqs", "available", "diags", "pending"})
  <2> HIDE DEF names, reqs
  <2>1. Attempt(b) \in Run
    BY <1>10
  <2>2. run'[b] = [Attempt(b) EXCEPT !.todo = Tail(run[b].todo), !.mfc = m,
                                     !.url_names = names, !.reqs = reqs, !.queue = q]
    BY <1>11, <1>15 DEF names, reqs
  <2>3. \A f \in {"phase", "project", "seen", "left", "current", "resolved", "frames",
                  "cache", "names", "links"} : run'[b][f] = Attempt(b)[f]
    BY <2>1, <2>2 DEF Run
  <2> QED
    BY <1>10, <2>3 DEF Changes
<1>18. /\ \A n \in Names : n # name => run'[b].reqs[n] = run[b].reqs[n]
       /\ ToSet(run'[b].reqs[name]) = ToSet(run[b].reqs[name]) \cup {dep}
       /\ \A e \in Packages : e # d => run'[b].url_names[e] = run[b].url_names[e]
       /\ run'[b].url_names[d] = name
  BY <1>0, <1>5, <1>6, <1>9, <1>16 DEF Run
<1>19. /\ Required(b)' = Required(b) \cup {dep}
       /\ Visited(b)' = Visited(b) \cup (IF found THEN {d} ELSE {})
       /\ \A x : Failed(b, x)' <=> Failed(b, x)
  <2>1. Required(b)' = Required(b) \cup {dep}
    BY <1>6, <1>18 DEF Required
  <2> QED
    BY <1>1, <1>8, <1>16, <1>17, <2>1 DEF Visited, Failed, Changes
<1>20. Remembers(b)' /\ Asking(b)' /\ run[b].current = None /\ run[b].left = {}
       /\ run[b].resolved = {}
  BY <1>0, <1>1, <1>2 DEF Remembers, Asking, Settled, Resolving, Phases
<1>21. Phases(b)'
  BY <1>0, <1>2, <1>17, <1>19 DEF Resolving, Phases, Changes
<1>22. Readings(b)'
  BY <1>0, <1>7, <1>16, <1>19 DEF Resolving, Readings
<1>23. Recordings(b)'
  <2> SUFFICES ASSUME NEW n \in Names, NEW x \in ToSet(run'[b].reqs[n])
               PROVE  /\ run'[b].url_names[PackageOf(x)] # None
                      /\ ~Failed(b, x) =>
                           /\ m[PackageOf(x)] # "unread"
                           /\ m[PackageOf(x)] = "some" => n = Manifest[PackageOf(x)].name
                           /\ PackageOf(x) \in Visited(b)'
    BY <1>16, <1>19, SMTT(60) DEF Recordings
  <2>1. CASE x = dep /\ n = name
    <3>1. PackageOf(x) = d
      BY <2>1 DEF d
    <3>3. found /\ ReadManifest(b, d) = "some" => n = Manifest[d].name
      BY <2>1 DEF name
    <3>2. run'[b].url_names[d] # None
      BY <1>6, <1>18, DepsAssumption
    <3> HIDE DEF m
    <3> QED
      BY <1>3, <1>7, <1>19, <2>1, <3>1, <3>2, <3>3
  <2>2. CASE x \in ToSet(run[b].reqs[n])
    <3>1. x \in UrlDep /\ PackageOf(x) \in Packages
      BY <1>0, <2>2, RunIs, UrlDepIs
    <3> QED
      BY <1>0, <1>6, <1>7, <1>18, <1>19, <2>2, <3>1, DepsAssumption DEF Resolving, Recordings
  <2> QED
    BY <1>18, <2>1, <2>2
<1>24. Namings(b)'
  <2> SUFFICES ASSUME NEW e \in Packages, run'[b].url_names[e] # None, Reached(b, e)'
               PROVE  run'[b].url_names[e] = Manifest[e].name
    BY DEF Namings
  <2>1. m[e] = "some" /\ \A x \in Required(b) \cup {dep} : PackageOf(x) = e => ~Failed(b, x)
    BY <1>16, <1>19 DEF Reached
  <2>2. CASE e = d
    BY <1>3, <1>7, <1>18, <2>1, <2>2 DEF name, d
  <2>3. CASE e # d
    <3>1. Reached(b, e)
      BY <1>7, <2>1, <2>3 DEF Reached
    <3> QED
      BY <1>0, <1>18, <2>3, <3>1 DEF Resolving, Namings
  <2> QED
    BY <2>2, <2>3
<1>25. Coverage(b)'
  <2>1. \A e \in run[b].seen : Readable(b, e)' => Readable(b, e)
    BY <1>0, <1>7, <1>16, RunIs DEF Resolving, Readings, Readable, Visited
  <2>2. \A x : Covered(b, x) => Covered(b, x)'
    BY <1>19 DEF Covered
  <2>3. \A x : x = dep => Covered(b, x)'
    BY <1>2, <1>19 DEF Covered
  <2> QED
    BY <1>0, <1>4, <1>16, <1>17, <2>1, <2>2, <2>3 DEF Resolving, Coverage, Changes
<1>26. Selections(b)'
  BY <1>17, <1>20 DEF Selections, Changes
<1>27. Stack(b)' /\ Linked(b)'
  BY <1>2, <1>17, NotLinking DEF Changes
<1> QED
  BY <1>1, <1>15, <1>20, <1>21, <1>22, <1>23, <1>24, <1>25, <1>26, <1>27 DEF RunStep, Resolving

-----------------------------------------------------------------------------
(* The steps of a builder: the selection *)

Diags == {"mirror", "subdir", "hashes", "classes", "major", "version",
          "cycle", "copies", "src", "manifest"}
         \X (Hashes \cup Packages \cup Names \cup Dirs)

LEMMA DiagsGrow ==
  ASSUME NEW r \in Run, NEW new \in SUBSET Diags
  PROVE  [r EXCEPT !.diags = @ \cup new] \in Run
<1>1. r.diags \cup new \in SUBSET Diags
  BY DEF Run, Diags
<1> QED
  BY <1>1, ZenonT(60) DEF Run, Diags

LEMMA RefuseKeeps ==
  ASSUME DInv, NEW b \in Builders, NEW n \in Names, Refuse(b, n) PROVE RunStep(b)
<1> DEFINE new == {<<IF HashConflict(b, n) THEN "hashes" ELSE "classes", n>>}
           r == [run[b] EXCEPT !.left = @ \ {n}, !.diags = @ \cup new]
<1>0. DepsTypeOK /\ Resolving(b) /\ run[b] \in Run
  BY DEF DInv, DepsTypeOK
<1>1. new \in SUBSET Diags
  BY DEF Diags
<1> HIDE DEF new
<1>2. r \in Run
  <2>1. [run[b] EXCEPT !.left = @ \ {n}] \in Run
    BY <1>0, ZenonT(60) DEF Run
  <2>2. [[run[b] EXCEPT !.left = @ \ {n}] EXCEPT !.diags = @ \cup new] \in Run
    BY <1>1, <2>1, DiagsGrow
  <2> QED
    BY <1>0, <2>2, SMTT(60) DEF Run
<1>3. /\ run' \in [Builders -> Run] /\ asks' = asks /\ run'[b] = r
      /\ \A c \in Builders \ {b} : run'[c] = run[c]
  BY <1>0, <1>2, SetRun DEF Refuse, new
<1>4. run'[b].left = run[b].left \ {n} /\ Changes(b, {"left", "diags"})
  BY <1>0, <1>3 DEF Run, Changes
<1>5. SameCall(b)
  BY DEF Refuse, vars, SameCall
<1>6. Remembers(b)' /\ MemoGrows(b)
  BY <1>0, <1>5, SameCallKept DEF Resolving
<1>7. Asking(b)' /\ run[b].phase = "select"
  BY <1>0, <1>5 DEF Resolving, Asking, SameCall, Refuse, Selecting
<1>8. Phases(b)'
  BY <1>0, <1>4, <1>7 DEF Resolving, Phases, Changes, Visited
<1>9. Walked(b)'
  BY <1>0, <1>4, <1>6, WalkKept DEF Resolving, Walked, Changes
<1>10. Selections(b)'
  BY <1>0, <1>4, ReqsKept DEF Resolving, Selections, Chosen, Changes
<1>11. Stack(b)' /\ Linked(b)'
  BY <1>4, <1>7, NotLinking DEF Changes
<1> QED
  BY <1>3, <1>6, <1>7, <1>8, <1>9, <1>10, <1>11 DEF RunStep, Resolving, Walked

LEMMA SelectAskKeeps ==
  ASSUME DInv, NEW b \in Builders, NEW n \in Names, SelectAsk(b, n)
  PROVE  /\ RunStep(b) /\ \A q \in Procs \ {b} : SameCall(q)
         /\ \E r \in [url : Urls, hash : Hashes, sub : Subdirs] : Ask(b, r)
<1> DEFINE r == [run[b] EXCEPT !.current = n]
<1>0. DepsTypeOK /\ TypeOK /\ Resolving(b) /\ run[b] \in Run /\ b \in Procs
  BY DepsAssumption DEF DInv, DepsTypeOK
<1>1. run[b].reqs[n] # <<>> /\ run[b].phase = "select" /\ Selectable(b, n)
  BY <1>0 DEF Resolving, Selections, SelectAsk, Selecting, Selectable
<1>2. Winner(b, n) \in UrlDep
  BY <1>0, <1>1, WinnerIs
<1>3. /\ RequestOf(Winner(b, n)) \in Request
      /\ RequestOf(Winner(b, n)) \in [url : Urls, hash : Hashes, sub : Subdirs]
  BY <1>2, UrlDepIs
<1>4. /\ pc'[b] = "asked" /\ want'[b] = RequestOf(Winner(b, n)) /\ purpose'[b] = "cold"
      /\ mirrors' = mirrors /\ subdirs' = subdirs
      /\ \A q \in Procs \ {b} : SameCall(q)
  BY <1>0, <1>3, AskIs DEF SelectAsk
<1>5. r \in Run
  BY <1>0, ZenonT(60) DEF Run
<1>6. /\ run' \in [Builders -> Run] /\ asks' = asks /\ run'[b] = r
      /\ \A c \in Builders \ {b} : run'[c] = run[c]
  BY <1>0, <1>5, SetRun DEF SelectAsk
<1>7. run'[b].current = n /\ Changes(b, {"current"})
  BY <1>0, <1>6 DEF Run, Changes
<1>8. MemoGrows(b) /\ Remembers(b)'
  BY <1>4 DEF MemoGrows, Remembers, Settled
<1>9. n # None
  BY DepsAssumption
<1>10. /\ \A k : Winner(b, k)' = Winner(b, k)
       /\ \A k : Selectable(b, k)' <=> Selectable(b, k)
  BY <1>7, ReqsKept DEF Changes
<1>11. Asking(b)'
  BY <1>1, <1>4, <1>7, <1>9, <1>10 DEF Asking, Changes
<1>12. Phases(b)'
  BY <1>0, <1>1, <1>7 DEF Resolving, Phases, Changes, Visited
<1>13. Walked(b)'
  BY <1>0, <1>7, <1>8, WalkKept DEF Resolving, Walked, Changes
<1>14. Selections(b)'
  BY <1>0, <1>1, <1>7, <1>10 DEF Resolving, Selections, Chosen, Changes
<1>15. Stack(b)' /\ Linked(b)'
  BY <1>1, <1>7, NotLinking DEF Changes
<1> QED
  BY <1>3, <1>4, <1>6, <1>8, <1>11, <1>12, <1>13, <1>14, <1>15
     DEF RunStep, Resolving, Walked, SelectAsk

LEMMA SelectAnswerKeeps ==
  ASSUME DInv, NEW b \in Builders, SelectAnswer(b)
  PROVE  RunStep(b) /\ \A q \in Procs \ {b} : SameCall(q)
<1> DEFINE n == run[b].current
           w == Winner(b, n)
           d == PackageOf(w)
           found == answer[b].found
           objections == IF found THEN Objections(b, n) ELSE {}
           picked == IF found /\ objections = {} THEN run[b].resolved \cup {n}
                     ELSE run[b].resolved
           r == [Attempt(b) EXCEPT
                   !.left = @ \ {n}, !.current = None,
                   !.mfc = IF found THEN Memo(b, d) ELSE @,
                   !.diags = @ \cup objections,
                   !.resolved = IF found /\ objections = {} THEN @ \cup {n} ELSE @]
<1>0. DepsTypeOK /\ TypeOK /\ Resolving(b) /\ run[b] \in Run /\ b \in Procs
  BY DepsAssumption DEF DInv, DepsTypeOK
<1>1. /\ pc[b] = "answered" /\ pc'[b] = "idle" /\ mirrors' = mirrors /\ subdirs' = subdirs
      /\ \A p \in Procs \ {b} : SameCall(p)
  BY <1>0, TakeIs DEF SelectAnswer
<1>2. /\ n # None /\ want[b] = RequestOf(w) /\ purpose[b] # "add" /\ run[b].phase = "select"
  BY <1>0, <1>1 DEF Resolving, Asking, SelectAnswer
<1>3. n \in Names /\ Selectable(b, n) /\ run[b].reqs[n] # <<>>
  BY <1>0, <1>2 DEF Run, Resolving, Selections, Selectable
<1>4. w \in UrlDep /\ w \in ToSet(run[b].reqs[n]) /\ d \in Packages /\ d \in Dirs
  BY <1>0, <1>3, WinnerIs, UrlDepIs
<1>5. found <=> ~Failed(b, w)
  BY <1>0, <1>1, <1>2, RequestFails DEF Resolving, Remembers
<1>6. Visited(b) = run[b].seen
  BY <1>0, <1>2, EmptySet DEF Resolving, Phases, Visited
<1>7. found => /\ run[b].mfc[d] # "unread" /\ d \in run[b].seen
               /\ run[b].mfc[d] = "some" => n = Manifest[d].name
  BY <1>0, <1>3, <1>4, <1>5, <1>6 DEF Resolving, Recordings
<1>8. (IF found THEN Memo(b, d) ELSE run[b].mfc) = run[b].mfc
  BY <1>0, <1>4, <1>7, DirIs DEF Memo, ReadManifest, Run
<1>9. objections \in SUBSET Diags /\ (found /\ objections = {} => <<n, w.ver>> \notin Misnamed)
  BY <1>3 DEF Objections, Diags
<1>10. picked \in SUBSET Names
  BY <1>0, <1>3 DEF Run
<1> HIDE DEF objections, d, w, n
<1>11. /\ Attempt(b) \in Run
       /\ \A f \in {"phase", "project", "queue", "todo", "seen", "mfc", "reqs", "url_names",
                    "left", "current", "resolved", "frames", "cache", "names", "links"} :
              Attempt(b)[f] = run[b][f]
  BY <1>0, <1>2, <1>4, AttemptIs
<1>12. r = [Attempt(b) EXCEPT !.left = run[b].left \ {n}, !.current = None,
                              !.mfc = run[b].mfc, !.diags = @ \cup objections,
                              !.resolved = picked]
  BY <1>8, <1>11 DEF Run
<1> HIDE DEF picked
<1>13. r \in Run
  <2> HIDE DEF r
  <2>1. Attempt(b) \in Run
    BY <1>11
  <2>2. [Attempt(b) EXCEPT !.diags = @ \cup objections] \in Run
    BY <1>9, <2>1, DiagsGrow
  <2>3. [[Attempt(b) EXCEPT !.diags = @ \cup objections]
            EXCEPT !.left = run[b].left \ {n}, !.current = None, !.mfc = run[b].mfc,
                   !.resolved = picked] \in Run
    BY <1>0, <1>10, <2>2, ZenonT(60) DEF Run
  <2> QED
    BY <1>12, <2>1, <2>3, ZenonT(60) DEF Run
<1>14. Set(b, r)
  BY DEF SelectAnswer, d, w, n, objections
<1> HIDE DEF r
<1>15. /\ run' \in [Builders -> Run] /\ asks' = asks /\ run'[b] = r
       /\ \A c \in Builders \ {b} : run'[c] = run[c]
  BY <1>0, <1>13, <1>14, SetRun
<1>16. /\ run'[b].left = run[b].left \ {n} /\ run'[b].current = None
       /\ run'[b].mfc = run[b].mfc /\ run'[b].resolved = picked
  <2>1. Attempt(b) \in Run
    BY <1>11
  <2> QED
    BY <1>12, <1>15, <2>1 DEF Run
<1>17. Changes(b, {"left", "current", "mfc", "resolved", "available", "diags", "pending"})
  <2>1. Attempt(b) \in Run
    BY <1>11
  <2>2. run'[b] = [Attempt(b) EXCEPT !.left = run[b].left \ {n}, !.current = None,
                                     !.mfc = run[b].mfc, !.diags = @ \cup objections,
                                     !.resolved = picked]
    BY <1>12, <1>15
  <2>3. \A f \in {"phase", "project", "queue", "todo", "seen", "reqs", "url_names", "frames",
                  "cache", "names", "links"} : run'[b][f] = Attempt(b)[f]
    BY <2>1, <2>2, ZenonT(60) DEF Run
  <2> QED
    BY <1>11, <2>3 DEF Changes
<1>18. Remembers(b)' /\ Asking(b)' /\ MemoGrows(b)
  BY <1>1 DEF Remembers, Asking, Settled, MemoGrows
<1>19. Phases(b)'
  BY <1>0, <1>2, <1>16, <1>17 DEF Resolving, Phases, Changes, Visited
<1>20. Walked(b)'
  BY <1>0, <1>16, <1>17, <1>18, WalkKept DEF Resolving, Walked, Changes
<1>21. Selections(b)'
  <2>1. /\ \A k : Winner(b, k)' = Winner(b, k)
        /\ \A k : Selectable(b, k)' <=> Selectable(b, k)
    BY <1>17, ReqsKept DEF Changes
  <2>2. \A k : Chosen(b, k)' <=> Chosen(b, k)
    BY <1>16, <1>17, <2>1 DEF Chosen, Changes
  <2>3. found /\ objections = {} => Chosen(b, n)
    BY <1>7, <1>9 DEF Chosen, w, d
  <2>4. \A k \in picked : Selectable(b, k) /\ Chosen(b, k)
    BY <1>0, <1>3, <2>3 DEF Resolving, Selections, picked
  <2> QED
    BY <1>0, <1>16, <1>17, <2>1, <2>2, <2>4 DEF Resolving, Selections, Changes
<1>22. Stack(b)' /\ Linked(b)'
  BY <1>2, <1>17, NotLinking DEF Changes
<1> QED
  BY <1>1, <1>15, <1>18, <1>19, <1>20, <1>21, <1>22 DEF RunStep, Resolving, Walked

LEMMA RestartKeeps ==
  ASSUME DInv, NEW b \in Builders, Restart(b)
  PROVE  RunStep(b) /\ \A q \in Procs \ {b} : SameCall(q)
<1>0. DepsTypeOK /\ TypeOK /\ Resolving(b) /\ run[b] \in Run /\ b \in Procs
  BY DepsAssumption DEF DInv, DepsTypeOK
<1>1. Fresh(run[b].project) \in Run
  BY <1>0 DEF Fresh, Run
<1>2. /\ run' \in [Builders -> Run] /\ asks' = asks /\ run'[b] = Fresh(run[b].project)
      /\ \A c \in Builders \ {b} : run'[c] = run[c]
  BY <1>0, <1>1, SetRun DEF Restart
<1>3. pc'[b] = "idle" /\ \A q \in Procs \ {b} : SameCall(q)
  BY <1>0 DEF Restart, Kill, Forget, Returned, SameCall, TypeOK
<1>4. Remembers(b)' /\ Asking(b)'
  BY <1>3 DEF Remembers, Asking, Settled
<1>5. Phases(b)' /\ Selections(b)' /\ Stack(b)' /\ Linked(b)'
  BY <1>2 DEF Fresh, Phases, Selections, Stack, Linked
<1>6. Walked(b)'
  BY <1>2, EmptySet DEF Fresh, Walked, Readings, Recordings, Namings, Coverage, Visited
<1> QED
  BY <1>2, <1>3, <1>4, <1>5, <1>6 DEF RunStep, Resolving, Walked

-----------------------------------------------------------------------------
(* The steps of a builder: the links *)

LEMMA TopIs ==
  ASSUME DInv, NEW b \in Builders, run[b].phase = "link"
  PROVE  /\ run[b].frames # <<>> /\ Top(b) \in FrameType /\ Tail(run[b].frames) \in Seq(FrameType)
         /\ Top(b) = run[b].frames[1] /\ FrameOk(b, Top(b)) /\ FramesOk(b, run[b].frames)
         /\ run[b].todo = <<>> /\ Visited(b) = run[b].seen
         /\ pc[b] = "idle" /\ run[b].current = None
<1>0. DepsTypeOK /\ Resolving(b)
  BY DEF DInv
<1>1. FramesOk(b, run[b].frames) /\ run[b].frames \in Seq(FrameType)
  BY <1>0, RunIs DEF Resolving, Stack
<1>2. /\ run[b].frames # <<>> /\ Top(b) \in FrameType /\ Tail(run[b].frames) \in Seq(FrameType)
      /\ Top(b) = run[b].frames[1] /\ 1 \in DOMAIN run[b].frames
  BY <1>1 DEF Top, FramesOk
<1>3. FrameOk(b, Top(b))
  BY <1>1, <1>2 DEF FramesOk
<1>4. run[b].todo = <<>> /\ Visited(b) = run[b].seen /\ pc[b] = "idle" /\ run[b].current = None
  BY <1>0, EmptySet DEF Resolving, Phases, Asking, Visited
<1> QED
  BY <1>1, <1>2, <1>3, <1>4

LEMMA PassedIs ==
  ASSUME DInv, NEW b \in Builders, Linking(b)
  PROVE  /\ NextDep(b) \in Dep /\ NextDep(b) \in ToSet(Manifest[Top(b).dir].deps)
         /\ Passed(b) \in Run /\ FramesOk(b, Passed(b).frames)
         /\ \A f \in {"phase", "project", "queue", "todo", "seen", "mfc", "reqs", "url_names",
                      "available", "pending", "diags", "left", "current", "resolved", "cache",
                      "names", "links"} : Passed(b)[f] = run[b][f]
<1> DEFINE f == Top(b)
           g == [f EXCEPT !.deps = Tail(@)]
           fs == run[b].frames
           gs == <<g>> \o Tail(fs)
<1>0. DepsTypeOK /\ Resolving(b) /\ run[b] \in Run
  BY DEF DInv, DepsTypeOK
<1>1. /\ fs # <<>> /\ f \in FrameType /\ Tail(fs) \in Seq(FrameType) /\ fs \in Seq(FrameType)
      /\ f = fs[1] /\ FrameOk(b, f) /\ FramesOk(b, fs) /\ f.deps # <<>>
  BY <1>0, TopIs, RunIs DEF Linking
<1>2. /\ Head(f.deps) \in Dep /\ Tail(f.deps) \in Seq(Dep)
      /\ ToSet(f.deps) = {Head(f.deps)} \cup ToSet(Tail(f.deps))
  BY <1>1, TailSet DEF FrameType
<1>3. NextDep(b) \in Dep /\ NextDep(b) \in ToSet(Manifest[Top(b).dir].deps)
  BY <1>1, <1>2 DEF NextDep, FrameOk
<1>4. /\ g \in FrameType /\ g.dir = f.dir /\ g.from = f.from /\ g.alias = f.alias
      /\ g.deps = Tail(f.deps)
  BY <1>1, <1>2 DEF FrameType
<1>5. FrameOk(b, g)
  BY <1>1, <1>2, <1>4 DEF FrameOk
<1> HIDE DEF f, g
<1>6. /\ gs \in Seq(FrameType) /\ gs # <<>> /\ Len(gs) = Len(fs) /\ gs[1] = g
      /\ \A i \in DOMAIN gs : i = 1 \/ (i \in DOMAIN fs /\ gs[i] = fs[i])
  BY <1>1, <1>4
<1>7. FramesOk(b, gs)
  <2>1. gs[Len(gs)].from = None
    BY <1>1, <1>4, <1>6 DEF FramesOk
  <2>2. \A i \in DOMAIN gs : FrameOk(b, gs[i])
    BY <1>1, <1>5, <1>6 DEF FramesOk
  <2> QED
    BY <1>6, <2>1, <2>2 DEF FramesOk
<1>8. Passed(b) = [run[b] EXCEPT !.frames = gs]
  BY <1>0 DEF Passed, Run, g, f
<1> HIDE DEF gs
<1>9. Passed(b) \in Run /\ Passed(b).frames = gs
  BY <1>0, <1>6, <1>8, ZenonT(60) DEF Run, FrameType
<1>10. \A x \in {"phase", "project", "queue", "todo", "seen", "mfc", "reqs", "url_names",
                 "available", "pending", "diags", "left", "current", "resolved", "cache",
                 "names", "links"} : Passed(b)[x] = run[b][x]
  BY <1>0, <1>8, ZenonT(60) DEF Run
<1> QED
  BY <1>3, <1>7, <1>9, <1>10

LEMMA OnwardIs ==
  ASSUME DInv, NEW b \in Builders, Linking(b), Onward(b) # None
  PROVE  /\ Onward(b) \in Dirs /\ Onward(b) \in run[b].seen
         /\ ReadManifest(b, Onward(b)) = "some" => Explored(b, Onward(b))
         /\ Explored(b, Top(b).dir) /\ Onward(b) = Target(b, NextDep(b))
         /\ Claims(b, Onward(b)) => LinkOk(b, Top(b).dir, NextDep(b).alias, Onward(b))
<1> DEFINE dep == NextDep(b)
           d == Onward(b)
<1>0. DepsTypeOK /\ Resolving(b) /\ run[b] \in Run /\ run[b].phase = "link"
  BY DEF DInv, DepsTypeOK, Linking
<1>1. /\ dep \in Dep /\ dep \in ToSet(Manifest[Top(b).dir].deps)
      /\ Explored(b, Top(b).dir) /\ run[b].todo = <<>> /\ Visited(b) = run[b].seen
  BY <1>0, PassedIs, TopIs DEF FrameOk, Claims
<1>2. ASSUME IsPath(dep) PROVE d \in Dirs /\ d \in run[b].seen
  <2>1. d = dep.path /\ d \in Dirs
    BY <1>1, <1>2 DEF Onward, Target, IsPath, Dep, Dirs
  <2>2. Covered(b, dep)
    BY <1>0, <1>1, EmptySet DEF Resolving, Coverage, Explored
  <2> QED
    BY <1>1, <1>2, <2>1, <2>2 DEF Covered
<1>3. ASSUME ~IsPath(dep) PROVE d \in Dirs /\ d \in run[b].seen
  <2>1. PICK n \in run[b].resolved : d = PackageOf(Winner(b, n))
    BY <1>3 DEF Onward, Target
  <2>2. n \in Names /\ run[b].reqs[n] # <<>> /\ Chosen(b, n)
    BY <1>0, <2>1 DEF Run, Resolving, Selections, Selectable
  <2> QED
    BY <1>0, <2>1, <2>2, WinnerIs, UrlDepIs DEF Chosen
<1>4. d \in Dirs /\ d \in run[b].seen
  BY <1>2, <1>3
<1>5. ReadManifest(b, d) = "some" => Explored(b, d)
  BY <1>0, <1>1, <1>4, ManifestRead DEF Resolving, Explored
<1>6. Claims(b, d) => LinkOk(b, Top(b).dir, dep.alias, d)
  BY <1>1 DEF LinkOk, Onward
<1> QED
  BY <1>1, <1>4, <1>5, <1>6 DEF Onward

LEMMA FramesKept ==
  ASSUME NEW b, LinksRest(b), NEW fs \in Seq(FrameType), FramesOk(b, fs)
  PROVE  FramesOk(b, fs)'
<1>1. \A i \in DOMAIN fs : fs[i] \in FrameType
  OBVIOUS
<1>2. \A f \in FrameType : f.dir \in Dirs
  BY DEF FrameType
<1> QED
  BY <1>1, <1>2, LinksKept DEF FramesOk

LEMMA LinkStep ==
  ASSUME DInv, NEW b \in Builders, run[b].phase = "link", UNCHANGED vars,
         run' \in [Builders -> Run], asks' = asks,
         \A c \in Builders \ {b} : run'[c] = run[c],
         Changes(b, {"phase", "frames", "cache", "names", "links", "diags"}),
         run'[b].phase \in {"link", "done"}, Stack(b)', Linked(b)'
  PROVE  RunStep(b)
<1>0. DepsTypeOK /\ Resolving(b) /\ pc[b] = "idle"
  BY TopIs DEF DInv
<1>1. SameCall(b)
  BY DEF vars, SameCall
<1>2. Remembers(b)' /\ MemoGrows(b)
  BY <1>0, <1>1, SameCallKept DEF Resolving
<1>3. Asking(b)'
  BY <1>0, <1>1 DEF Asking, SameCall
<1>4. Phases(b)'
  BY <1>0 DEF Resolving, Phases, Changes
<1>5. Walked(b)'
  BY <1>0, <1>2, WalkKept DEF Resolving, Walked, Changes
<1>6. Selections(b)'
  BY <1>0, SelectionsKept DEF Resolving, Changes
<1> QED
  BY <1>2, <1>3, <1>4, <1>5, <1>6 DEF RunStep, Resolving, Walked

LEMMA LinkedKept ==
  ASSUME DInv, NEW b \in Builders, run[b].phase = "link", LinksRest(b),
         \A d \in Dirs : run'[b].cache[d] = "good" => run[b].cache[d] = "good" \/ Claims(b, d),
         \A l \in run'[b].links \ run[b].links : l[3] \in Dirs /\ LinkOk(b, l[1], l[2], l[3])
  PROVE  Linked(b)'
<1>0. DepsTypeOK /\ Linked(b)
  BY DEF DInv, Resolving
<1>1. run[b].project \in Dirs /\ \A l \in run[b].links : l[3] \in Dirs
  BY <1>0, RunIs
<1>2. \A e \in Dirs : e = run[b].project => Claims(b, e)'
  BY <1>0, LinksKept DEF Linked
<1>3. Claims(b, run[b].project)'
  BY <1>1, <1>2 DEF LinksRest, Claims, Explored, Readable
<1>4. \A d \in Dirs : run'[b].cache[d] = "good" => Claims(b, d)'
  BY <1>0, LinksKept DEF Linked
<1>5. \A l \in run'[b].links : LinkOk(b, l[1], l[2], l[3])'
  BY <1>0, <1>1, LinksKept DEF Linked
<1> QED
  BY <1>3, <1>4, <1>5 DEF Linked

(* a step that takes a dependency and may add a link, a bad directory or a
   diagnostic *)
LEMMA PassedKeeps ==
  ASSUME DInv, NEW b \in Builders, Linking(b), UNCHANGED vars,
         NEW r \in Run, Set(b, r), r.frames = Passed(b).frames,
         \A f \in {"phase", "project", "queue", "todo", "seen", "mfc", "reqs", "url_names",
                   "available", "pending", "left", "current", "resolved", "names"} :
           r[f] = run[b][f],
         \A d \in Dirs : r.cache[d] = "good" => run[b].cache[d] = "good",
         r.links = run[b].links
           \/ /\ Onward(b) # None /\ run[b].cache[Onward(b)] = "good"
              /\ r.links = run[b].links \cup {<<Top(b).dir, NextDep(b).alias, Onward(b)>>}
  PROVE  RunStep(b)
<1>0. DepsTypeOK /\ Linked(b) /\ run[b].phase = "link"
  BY DEF DInv, Resolving, Linking
<1>1. /\ run' \in [Builders -> Run] /\ asks' = asks /\ run'[b] = r
      /\ \A c \in Builders \ {b} : run'[c] = run[c]
  BY <1>0, SetRun
<1>2. Changes(b, {"frames", "cache", "links", "diags"}) /\ LinksRest(b)
  BY <1>1 DEF Changes, LinksRest
<1>3. Stack(b)'
  <2>1. FramesOk(b, r.frames) /\ r.frames \in Seq(FrameType)
    BY PassedIs DEF Run, FrameType
  <2>2. FramesOk(b, r.frames)'
    <3>1. \A fs \in Seq(FrameType) : FramesOk(b, fs) => FramesOk(b, fs)'
      BY <1>2, FramesKept
    <3> QED
      BY <2>1, <3>1
  <2> QED
    BY <1>1, <2>2 DEF Stack
<1>4. Linked(b)'
  <2>1. \A l \in run'[b].links \ run[b].links : l[3] \in Dirs /\ LinkOk(b, l[1], l[2], l[3])
    <3>1. CASE r.links = run[b].links
      BY <1>1, <3>1
    <3>2. CASE /\ Onward(b) # None /\ run[b].cache[Onward(b)] = "good"
               /\ r.links = run[b].links \cup {<<Top(b).dir, NextDep(b).alias, Onward(b)>>}
      <4>1. Onward(b) \in Dirs /\ LinkOk(b, Top(b).dir, NextDep(b).alias, Onward(b))
        BY <1>0, <3>2, OnwardIs DEF Linked
      <4> QED
        BY <1>1, <3>2, <4>1
    <3> QED
      BY <3>1, <3>2
  <2> QED
    BY <1>0, <1>1, <1>2, <2>1, LinkedKept
<1>5. /\ Changes(b, {"phase", "frames", "cache", "names", "links", "diags"})
      /\ run'[b].phase = "link"
  BY <1>0, <1>2 DEF Changes
<1> QED
  BY <1>0, <1>1, <1>3, <1>4, <1>5, LinkStep

LEMMA SkipKeeps == ASSUME DInv, NEW b \in Builders, Skip(b) PROVE RunStep(b)
BY PassedIs, PassedKeeps DEF Skip

LEMMA LinkAgainKeeps == ASSUME DInv, NEW b \in Builders, LinkAgain(b) PROVE RunStep(b)
<1> DEFINE l == <<Top(b).dir, NextDep(b).alias, Onward(b)>>
           r == [Passed(b) EXCEPT !.links = @ \cup {l}]
<1>1. Linking(b) /\ Onward(b) # None /\ run[b].cache[Onward(b)] = "good" /\ DepsTypeOK
  BY DEF LinkAgain, DInv
<1>2. /\ Passed(b) \in Run
      /\ \A f \in {"phase", "project", "queue", "todo", "seen", "mfc", "reqs", "url_names",
                   "available", "pending", "left", "current", "resolved", "names", "cache",
                   "links"} : Passed(b)[f] = run[b][f]
  BY <1>1, PassedIs
<1>3. l \in Dirs \X Names \X Dirs
  BY <1>1, PassedIs, OnwardIs, TopIs DEF Linking, FrameType, Dep
<1> HIDE DEF l
<1>4. r \in Run
  BY <1>2, <1>3, ZenonT(60) DEF Run
<1>5. /\ r.frames = Passed(b).frames /\ r.links = run[b].links \cup {l}
      /\ \A f \in {"phase", "project", "queue", "todo", "seen", "mfc", "reqs", "url_names",
                   "available", "pending", "left", "current", "resolved", "names", "cache"} :
           r[f] = run[b][f]
  BY <1>2 DEF Run
<1>6. Set(b, r) /\ UNCHANGED vars
  BY DEF LinkAgain, l
<1> HIDE DEF r
<1> QED
  BY <1>1, <1>4, <1>5, <1>6, PassedKeeps DEF l

LEMMA LinkRefuseKeeps == ASSUME DInv, NEW b \in Builders, LinkRefuse(b) PROVE RunStep(b)
<1> DEFINE d == Onward(b)
           new == {IF d \in Visiting(b) THEN <<"cycle", NextDep(b).alias>>
                   ELSE <<"copies", Manifest[d].name>>}
           r == [Passed(b) EXCEPT !.diags = @ \cup new]
<1>1. Linking(b) /\ d # None
  BY DEF LinkRefuse, LinkNew
<1>2. /\ Passed(b) \in Run
      /\ \A f \in {"phase", "project", "queue", "todo", "seen", "mfc", "reqs", "url_names",
                   "available", "pending", "left", "current", "resolved", "names", "cache",
                   "links"} : Passed(b)[f] = run[b][f]
  BY <1>1, PassedIs
<1>3. new \in SUBSET Diags
  <2>1. NextDep(b).alias \in Names /\ Manifest[d].name \in Names
    BY <1>1, PassedIs, OnwardIs, DirIs DEF Dep
  <2> QED
    BY <2>1 DEF Diags
<1> HIDE DEF new
<1>4. r \in Run
  BY <1>2, <1>3, DiagsGrow
<1>5. /\ r.frames = Passed(b).frames
      /\ \A f \in {"phase", "project", "queue", "todo", "seen", "mfc", "reqs", "url_names",
                   "available", "pending", "left", "current", "resolved", "names", "cache",
                   "links"} : r[f] = run[b][f]
  BY <1>2 DEF Run
<1>6. Set(b, r) /\ UNCHANGED vars
  BY DEF LinkRefuse, new
<1> HIDE DEF r
<1> QED
  BY <1>1, <1>4, <1>5, <1>6, PassedKeeps

LEMMA LinkBadKeeps == ASSUME DInv, NEW b \in Builders, LinkBad(b) PROVE RunStep(b)
<1> DEFINE d == Onward(b)
           new == {<<IF ReadManifest(b, d) = "some" THEN "src" ELSE "manifest", d>>}
           r == [Passed(b) EXCEPT !.cache[d] = "bad", !.diags = @ \cup new]
<1>1. Linking(b) /\ d # None
  BY DEF LinkBad, LinkNew
<1>2. /\ Passed(b) \in Run
      /\ \A f \in {"phase", "project", "queue", "todo", "seen", "mfc", "reqs", "url_names",
                   "available", "pending", "left", "current", "resolved", "names", "cache",
                   "links"} : Passed(b)[f] = run[b][f]
  BY <1>1, PassedIs
<1>3. d \in Dirs /\ new \in SUBSET Diags
  BY <1>1, OnwardIs DEF Diags
<1> HIDE DEF new, d
<1>4. r \in Run
  <2>1. [Passed(b) EXCEPT !.cache[d] = "bad"] \in Run
    BY <1>2, <1>3, ZenonT(60) DEF Run
  <2>2. [[Passed(b) EXCEPT !.cache[d] = "bad"] EXCEPT !.diags = @ \cup new] \in Run
    BY <1>3, <2>1, DiagsGrow
  <2> QED
    BY <1>2, <2>2, SMTT(60) DEF Run
<1>5. /\ r.frames = Passed(b).frames /\ r.cache = [run[b].cache EXCEPT ![d] = "bad"]
      /\ \A f \in {"phase", "project", "queue", "todo", "seen", "mfc", "reqs", "url_names",
                   "available", "pending", "left", "current", "resolved", "names", "links"} :
           r[f] = run[b][f]
  BY <1>2, ZenonT(60) DEF Run
<1>6. Set(b, r) /\ UNCHANGED vars
  BY DEF LinkBad, new, d
<1> HIDE DEF r
<1>7. run[b].cache \in [Dirs -> {"new", "good", "bad"}]
  BY DEF DInv, DepsTypeOK, Run
<1>8. \A e \in Dirs : r.cache[e] = "good" => run[b].cache[e] = "good"
  BY <1>3, <1>5, <1>7
<1>9. /\ r.frames = Passed(b).frames /\ r.links = run[b].links
      /\ \A f \in {"phase", "project", "queue", "todo", "seen", "mfc", "reqs", "url_names",
                   "available", "pending", "left", "current", "resolved", "names"} :
           r[f] = run[b][f]
  BY <1>5
<1> QED
  BY <1>1, <1>4, <1>6, <1>8, <1>9, PassedKeeps

LEMMA TailIs ==
  ASSUME NEW S, NEW s \in Seq(S), s # <<>>, Len(s) # 1
  PROVE  /\ Tail(s) # <<>> /\ Tail(s)[Len(Tail(s))] = s[Len(s)]
         /\ \A i \in DOMAIN Tail(s) : i + 1 \in DOMAIN s /\ Tail(s)[i] = s[i + 1]
<1>0. /\ Len(s) \in Nat /\ DOMAIN s = 1 .. Len(s) /\ Len(s) # 0
      /\ Tail(s) \in Seq(S) /\ Len(Tail(s)) = Len(s) - 1
  OBVIOUS
<1>1. /\ Len(s) \in Nat /\ Len(s) >= 2 /\ DOMAIN s = 1 .. Len(s)
      /\ Tail(s) \in Seq(S) /\ Len(Tail(s)) = Len(s) - 1
  BY <1>0
<1>2. DOMAIN Tail(s) = 1 .. Len(s) - 1 /\ Tail(s) # <<>>
  BY <1>1, SMTT(60)
<1>3. \A i \in 1 .. Len(s) - 1 : Tail(s)[i] = s[i + 1]
  BY <1>1
<1> QED
  BY <1>1, <1>2, <1>3

LEMMA PushIs ==
  ASSUME NEW S, NEW x \in S, NEW s \in Seq(S)
  PROVE  /\ <<x>> \o s \in Seq(S) /\ <<x>> \o s # <<>>
         /\ s # <<>> => (<<x>> \o s)[Len(<<x>> \o s)] = s[Len(s)]
         /\ \A i \in DOMAIN (<<x>> \o s) :
              (<<x>> \o s)[i] = x \/ \E j \in DOMAIN s : (<<x>> \o s)[i] = s[j]
<1>1. /\ <<x>> \o s \in Seq(S) /\ Len(<<x>> \o s) = Len(s) + 1 /\ (<<x>> \o s)[1] = x
      /\ \A j \in DOMAIN s : (<<x>> \o s)[j + 1] = s[j]
  OBVIOUS
<1>2. \A i \in DOMAIN (<<x>> \o s) : i = 1 \/ i - 1 \in DOMAIN s
  BY <1>1
<1> QED
  BY <1>1, <1>2

LEMMA LinkInKeeps == ASSUME DInv, NEW b \in Builders, LinkIn(b) PROVE RunStep(b)
<1> DEFINE d == Onward(b)
           n == Manifest[d].name
           f == Frame(b, d, Top(b).dir, NextDep(b).alias)
           gs == Passed(b).frames
           fs == <<f>> \o gs
           r == [Passed(b) EXCEPT !.names[n] = d, !.frames = <<f>> \o @]
<1>0. /\ DepsTypeOK /\ Resolving(b) /\ Linking(b) /\ d # None /\ run[b].phase = "link"
      /\ ReadManifest(b, d) = "some" /\ run[b].names[n] \in {None, d} /\ UNCHANGED vars
  BY DEF DInv, LinkIn, LinkNew, Linking, Claimed
<1>1. /\ Passed(b) \in Run /\ FramesOk(b, gs) /\ NextDep(b) \in Dep
      /\ NextDep(b) \in ToSet(Manifest[Top(b).dir].deps)
      /\ \A x \in {"phase", "project", "queue", "todo", "seen", "mfc", "reqs", "url_names",
                   "available", "pending", "diags", "left", "current", "resolved", "names",
                   "cache", "links"} : Passed(b)[x] = run[b][x]
  BY <1>0, PassedIs
<1>2. /\ d \in Dirs /\ Explored(b, d) /\ n \in Names /\ Explored(b, Top(b).dir)
      /\ Target(b, NextDep(b)) = d
  BY <1>0, OnwardIs, DirIs
<1>3. /\ f \in FrameType /\ f.dir = d /\ f.from = Top(b).dir /\ f.alias = NextDep(b).alias
      /\ f.deps = Manifest[d].deps
  <2>1. Top(b).dir \in Dirs /\ NextDep(b).alias \in Names
    BY <1>0, <1>1, TopIs DEF FrameType, Dep
  <2>2. Manifest[d].deps \in Seq(Dep) /\ DepsOf(b, d) = Manifest[d].deps
    BY <1>0, <1>2, DirIs DEF DepsOf
  <2> QED
    BY <1>2, <2>1, <2>2 DEF Frame, FrameType
<1>4. gs \in Seq(FrameType)
  BY <1>1 DEF Run, FrameType
<1> HIDE DEF f, gs, n, d
<1>5. /\ fs \in Seq(FrameType) /\ fs # <<>> /\ fs[Len(fs)].from = None
      /\ \A i \in DOMAIN fs : fs[i] = f \/ \E j \in DOMAIN gs : fs[i] = gs[j]
  BY <1>1, <1>3, <1>4, PushIs DEF FramesOk
<1>6. r = [Passed(b) EXCEPT !.names = [run[b].names EXCEPT ![n] = d], !.frames = fs]
  BY <1>1 DEF Run, gs
<1> HIDE DEF fs
<1>7. /\ [run[b].names EXCEPT ![n] = d] \in [Names -> Dirs \cup {None}]
      /\ [run[b].names EXCEPT ![n] = d][n] = d
      /\ \A m \in Names : run[b].names[m] # None =>
           [run[b].names EXCEPT ![n] = d][m] = run[b].names[m]
  <2>1. run[b].names \in [Names -> Dirs \cup {None}]
    BY <1>0, RunIs DEF Run
  <2> QED
    BY <1>0, <1>2, <2>1
<1>8. r \in Run
  <2>1. Passed(b) \in Run
    BY <1>1
  <2>2. [Passed(b) EXCEPT !.frames = fs] \in Run
    <3>1. fs \in Seq(FrameType)
      BY <1>5
    <3> QED
      BY <2>1, <3>1, ZenonT(60) DEF Run, FrameType
  <2> DEFINE names == [run[b].names EXCEPT ![n] = d]
  <2>3. names \in [Names -> Dirs \cup {None}]
    BY <1>7
  <2> HIDE DEF names
  <2>4. [[Passed(b) EXCEPT !.frames = fs] EXCEPT !.names = names] \in Run
    BY <2>2, <2>3, ZenonT(60) DEF Run
  <2>5. r = [[Passed(b) EXCEPT !.frames = fs] EXCEPT !.names = names]
    BY <1>6, <2>1 DEF Run, names
  <2> QED
    BY <2>4, <2>5
<1>9. Set(b, r)
  BY DEF LinkIn, f, d, n
<1> HIDE DEF r
<1>10. /\ run' \in [Builders -> Run] /\ asks' = asks /\ run'[b] = r
       /\ \A c \in Builders \ {b} : run'[c] = run[c]
  BY <1>0, <1>8, <1>9, SetRun
<1>11. /\ run'[b].names = [run[b].names EXCEPT ![n] = d] /\ run'[b].frames = fs
       /\ \A x \in {"phase", "project", "queue", "todo", "seen", "mfc", "reqs", "url_names",
                    "available", "pending", "diags", "left", "current", "resolved",
                    "cache", "links"} : run'[b][x] = Passed(b)[x]
  <2>1. Passed(b) \in Run
    BY <1>1
  <2>2. run'[b] = [Passed(b) EXCEPT !.names = [run[b].names EXCEPT ![n] = d], !.frames = fs]
    BY <1>6, <1>10
  <2> QED
    BY <2>1, <2>2 DEF Run
<1>12. Changes(b, {"names", "frames"})
  BY <1>1, <1>11 DEF Changes
<1>13. LinksRest(b)
  BY <1>7, <1>11, <1>12 DEF LinksRest, Changes
<1>14. \A x \in FrameType : x = f => FrameOk(b, x)'
  <2>1. \A e \in Dirs : e = d => Claims(b, e)'
    BY <1>2, <1>7, <1>11, <1>13, LinksKept DEF Claims, n
  <2>2. \A x \in FrameType : x = f => LinkOk(b, x.from, x.alias, x.dir)'
    BY <1>1, <1>2, <1>3, <1>13, <2>1, LinksKept DEF LinkOk
  <2> QED
    BY <1>2, <1>3, <2>1, <2>2 DEF FrameOk
<1>15. Stack(b)'
  <2>1. \A x \in Seq(FrameType) : FramesOk(b, x) => FramesOk(b, x)'
    BY <1>13, FramesKept
  <2>2. \A x \in Seq(FrameType) : x = gs => \A j \in DOMAIN x : FrameOk(b, x[j])'
    BY <1>1, <2>1 DEF FramesOk
  <2>3. \A x \in Seq(FrameType) : x = fs => FramesOk(b, x)'
    BY <1>3, <1>4, <1>5, <1>14, <2>2 DEF FramesOk
  <2> QED
    BY <1>5, <1>11, <2>3 DEF Stack
<1>16. Linked(b)'
  BY <1>0, <1>12, <1>13, LinkedKept DEF Changes
<1>17. /\ Changes(b, {"phase", "frames", "cache", "names", "links", "diags"})
       /\ run'[b].phase = "link"
  BY <1>0, <1>12 DEF Changes
<1> QED
  BY <1>0, <1>10, <1>15, <1>16, <1>17, LinkStep

LEMMA LinkOutKeeps == ASSUME DInv, NEW b \in Builders, LinkOut(b) PROVE RunStep(b)
<1> DEFINE f == Top(b)
           fs == Tail(run[b].frames)
           l == <<f.from, f.alias, f.dir>>
           r == [run[b] EXCEPT !.frames = Tail(@), !.cache[f.dir] = "good", !.links = @ \cup {l}]
<1>0. /\ DepsTypeOK /\ Resolving(b) /\ run[b] \in Run /\ run[b].phase = "link" /\ UNCHANGED vars
      /\ f \in FrameType /\ FrameOk(b, f) /\ f = run[b].frames[1]
      /\ FramesOk(b, run[b].frames) /\ fs \in Seq(FrameType) /\ run[b].frames \in Seq(FrameType)
  BY TopIs, RunIs DEF DInv, LinkOut, DepsTypeOK
<1>1. CASE f.from = None
  <2> DEFINE done == [run[b] EXCEPT !.phase = "done"]
  <2>1. done \in Run
    BY <1>0, ZenonT(60) DEF Run
  <2>2. /\ run' \in [Builders -> Run] /\ asks' = asks /\ run'[b] = done
        /\ \A c \in Builders \ {b} : run'[c] = run[c]
    BY <1>0, <1>1, <2>1, SetRun DEF LinkOut
  <2>3. run'[b].phase = "done" /\ Changes(b, {"phase"}) /\ LinksRest(b)
    BY <1>0, <2>2 DEF Run, Changes, LinksRest
  <2>4. Stack(b)'
    <3>1. \A x \in Seq(FrameType) : FramesOk(b, x) => FramesOk(b, x)'
      BY <2>3, FramesKept
    <3>2. \A x \in Seq(FrameType) : x = run[b].frames => FramesOk(b, x)'
      BY <1>0, <3>1
    <3>3. run'[b].frames = run[b].frames
      BY <2>3 DEF Changes
    <3> QED
      BY <1>0, <3>2, <3>3 DEF Stack
  <2>5. Linked(b)'
    BY <1>0, <2>3, LinkedKept DEF Changes
  <2>6. Changes(b, {"phase", "frames", "cache", "names", "links", "diags"})
    BY <2>3 DEF Changes
  <2> QED
    BY <1>0, <2>2, <2>3, <2>4, <2>5, <2>6, LinkStep
<1>2. CASE f.from # None
  <2>1. /\ f.dir \in Dirs /\ f.from \in Dirs /\ Claims(b, f.dir)
        /\ LinkOk(b, f.from, f.alias, f.dir)
    BY <1>0, <1>2 DEF FrameType, FrameOk
  <2>2. f.alias \in Names
    <3>1. PICK dep \in ToSet(Manifest[f.from].deps) : dep.alias = f.alias
      BY <2>1 DEF LinkOk
    <3>2. dep \in Dep
      BY <2>1, DirIs DEF ToSet
    <3> QED
      BY <3>1, <3>2 DEF Dep
  <2>3. l \in Dirs \X Names \X Dirs
    BY <2>1, <2>2
  <2>4. FramesOk(b, fs)
    <3>1. Len(run[b].frames) # 1
      BY <1>0, <1>2 DEF FramesOk
    <3>2. /\ run[b].frames # <<>> /\ fs # <<>> /\ fs[Len(fs)] = run[b].frames[Len(run[b].frames)]
          /\ \A i \in DOMAIN fs : i + 1 \in DOMAIN run[b].frames /\ fs[i] = run[b].frames[i + 1]
      <4>1. run[b].frames # <<>> /\ run[b].frames \in Seq(FrameType)
        BY <1>0 DEF FramesOk
      <4> QED
        BY <3>1, <4>1, TailIs
    <3> HIDE DEF fs
    <3> QED
      BY <1>0, <3>2 DEF FramesOk
  <2>5. Set(b, r)
    BY <1>2 DEF LinkOut
  <2> HIDE DEF f, l
  <2>6. r = [run[b] EXCEPT !.frames = fs, !.cache = [run[b].cache EXCEPT ![f.dir] = "good"],
                           !.links = run[b].links \cup {l}]
    BY <1>0 DEF Run
  <2> DEFINE cache == [run[b].cache EXCEPT ![f.dir] = "good"]
  <2>7. /\ cache \in [Dirs -> {"new", "good", "bad"}]
        /\ \A d \in Dirs : cache[d] = "good" => run[b].cache[d] = "good" \/ d = f.dir
    <3>1. run[b].cache \in [Dirs -> {"new", "good", "bad"}]
      BY <1>0 DEF Run
    <3> QED
      BY <2>1, <3>1
  <2> HIDE DEF fs, cache
  <2>8. r \in Run
    <3>1. [run[b] EXCEPT !.frames = fs] \in Run
      BY <1>0, ZenonT(60) DEF Run, FrameType
    <3>2. [[run[b] EXCEPT !.frames = fs] EXCEPT !.cache = cache, !.links = @ \cup {l}] \in Run
      <4>1. [[run[b] EXCEPT !.frames = fs] EXCEPT !.cache = cache] \in Run
        BY <2>7, <3>1, ZenonT(60) DEF Run
      <4>2. [[[run[b] EXCEPT !.frames = fs] EXCEPT !.cache = cache]
               EXCEPT !.links = @ \cup {l}] \in Run
        BY <2>3, <4>1, ZenonT(60) DEF Run
      <4> QED
        BY <1>0, <4>2, ZenonT(60) DEF Run
    <3>3. r = [[run[b] EXCEPT !.frames = fs] EXCEPT !.cache = cache, !.links = @ \cup {l}]
      BY <1>0, <2>6 DEF Run, cache
    <3> QED
      BY <3>2, <3>3
  <2> HIDE DEF r
  <2>9. /\ run' \in [Builders -> Run] /\ asks' = asks /\ run'[b] = r
        /\ \A c \in Builders \ {b} : run'[c] = run[c]
    BY <1>0, <2>5, <2>8, SetRun
  <2>10. run'[b] = [run[b] EXCEPT !.frames = fs, !.cache = cache, !.links = run[b].links \cup {l}]
    BY <2>6, <2>9 DEF cache
  <2>11. /\ run'[b].frames = fs /\ run'[b].cache = cache /\ run'[b].links = run[b].links \cup {l}
         /\ Changes(b, {"frames", "cache", "links"})
    BY <1>0, <2>10 DEF Run, Changes
  <2>12. LinksRest(b) /\ run'[b].phase = "link"
    BY <1>0, <2>11 DEF LinksRest, Changes
  <2>13. Stack(b)'
    <3>1. \A x \in Seq(FrameType) : FramesOk(b, x) => FramesOk(b, x)'
      BY <2>12, FramesKept
    <3>2. \A x \in Seq(FrameType) : x = fs => FramesOk(b, x)'
      BY <2>4, <3>1
    <3> QED
      BY <1>0, <2>11, <3>2 DEF Stack
  <2>14. Linked(b)'
    <3>1. l[1] = f.from /\ l[2] = f.alias /\ l[3] = f.dir
      BY DEF l
    <3>2. \A x \in run'[b].links \ run[b].links : x[3] \in Dirs /\ LinkOk(b, x[1], x[2], x[3])
      BY <2>1, <2>11, <3>1
    <3> QED
      BY <1>0, <2>1, <2>7, <2>11, <2>12, <3>2, LinkedKept
  <2>15. Changes(b, {"phase", "frames", "cache", "names", "links", "diags"})
    BY <2>11 DEF Changes
  <2> QED
    BY <1>0, <2>9, <2>12, <2>13, <2>14, <2>15, LinkStep
<1> QED
  BY <1>1, <1>2

LEMMA LinkBeginKeeps == ASSUME DInv, NEW b \in Builders, LinkBegin(b) PROVE RunStep(b)
<1> DEFINE d == run[b].project
           n == Manifest[d].name
           new == {<<"mirror", h>> : h \in run[b].pending \ run[b].available}
           f == Frame(b, d, None, None)
           r == [run[b] EXCEPT !.phase = "link", !.diags = @ \cup new, !.names[n] = d,
                               !.frames = <<f>>]
<1>0. DepsTypeOK /\ Resolving(b) /\ run[b] \in Run /\ run[b].phase = "select" /\ UNCHANGED vars
  BY DEF DInv, DepsTypeOK, LinkBegin
<1>1. /\ d \in Dirs /\ d \notin Packages /\ n \in Names
      /\ ReadManifest(b, d) = "some" /\ DepsOf(b, d) = Manifest[d].deps
      /\ Manifest[d].deps \in Seq(Dep)
  BY <1>0, RunIs, DirIs DEF ReadManifest, DepsOf
<1>2. /\ f \in FrameType /\ f.dir = d /\ f.from = None /\ f.deps = Manifest[d].deps
  BY <1>1 DEF Frame, FrameType
<1>3. new \in SUBSET Diags
  BY <1>0 DEF Run, Diags
<1> DEFINE names == [run[b].names EXCEPT ![n] = d]
<1>4. names \in [Names -> Dirs \cup {None}] /\ names[n] = d
  <2>1. run[b].names \in [Names -> Dirs \cup {None}]
    BY <1>0 DEF Run
  <2> QED
    BY <1>1, <2>1
<1>5. <<f>> \in Seq(FrameType) /\ <<f>> # <<>> /\ <<f>>[1] = f /\ Len(<<f>>) = 1
      /\ DOMAIN <<f>> = {1}
  BY <1>2
<1> HIDE DEF new, f, d, n
<1>6. r = [run[b] EXCEPT !.phase = "link", !.diags = @ \cup new, !.names = names,
                         !.frames = <<f>>]
  BY <1>0 DEF Run
<1> HIDE DEF names
<1>7. r \in Run
  <2>1. [run[b] EXCEPT !.diags = @ \cup new] \in Run
    BY <1>0, <1>3, DiagsGrow
  <2>2. [[run[b] EXCEPT !.diags = @ \cup new] EXCEPT !.frames = <<f>>] \in Run
    BY <1>5, <2>1, ZenonT(60) DEF Run, FrameType
  <2>3. [[[run[b] EXCEPT !.diags = @ \cup new] EXCEPT !.frames = <<f>>]
           EXCEPT !.phase = "link", !.names = names] \in Run
    BY <1>4, <2>2, ZenonT(60) DEF Run
  <2>4. r = [[[run[b] EXCEPT !.diags = @ \cup new] EXCEPT !.frames = <<f>>]
               EXCEPT !.phase = "link", !.names = names]
    BY <1>0, <1>6 DEF Run
  <2> QED
    BY <2>3, <2>4
<1>8. Set(b, r)
  BY DEF LinkBegin, d, n, new, f
<1> HIDE DEF r
<1>9. /\ run' \in [Builders -> Run] /\ asks' = asks /\ run'[b] = r
      /\ \A c \in Builders \ {b} : run'[c] = run[c]
  BY <1>0, <1>7, <1>8, SetRun
<1>10. run'[b] = [run[b] EXCEPT !.phase = "link", !.diags = @ \cup new, !.names = names,
                                !.frames = <<f>>]
  BY <1>6, <1>9
<1>11. /\ run'[b].phase = "link" /\ run'[b].names = names /\ run'[b].frames = <<f>>
       /\ Changes(b, {"phase", "diags", "names", "frames"})
  BY <1>0, <1>10 DEF Run, Changes
<1>12. SameCall(b)
  BY <1>0 DEF vars, SameCall
<1>13. Remembers(b)' /\ MemoGrows(b)
  BY <1>0, <1>12, SameCallKept DEF Resolving
<1>14. Asking(b)'
  BY <1>0, <1>12 DEF Resolving, Asking, SameCall, LinkBegin
<1>15. Phases(b)'
  BY <1>0, <1>11 DEF Resolving, Phases, Changes, LinkBegin
<1>16. Walked(b)'
  BY <1>0, <1>11, <1>13, WalkKept DEF Resolving, Walked, Changes
<1>17. Selections(b)'
  BY <1>0, <1>11, SelectionsKept DEF Resolving, Changes
<1>18. \A e \in Dirs : e = d => Claims(b, e)'
  <2>1. d \in run[b].seen
    BY <1>0 DEF Resolving, Phases, d
  <2> QED
    BY <1>1, <1>4, <1>11, <2>1 DEF Claims, Explored, Readable, Changes, n
<1>19. Stack(b)'
  <2>1. \A x \in FrameType : x = f => FrameOk(b, x)'
    BY <1>1, <1>2, <1>18 DEF FrameOk
  <2>2. \A x \in Seq(FrameType) : x = <<f>> => FramesOk(b, x)'
    BY <1>2, <1>5, <2>1 DEF FramesOk
  <2> QED
    BY <1>5, <1>11, <2>2 DEF Stack
<1>20. Linked(b)'
  <2>1. run'[b].links = {} /\ \A e \in Dirs : run'[b].cache[e] = "new"
    BY <1>0, <1>11 DEF Resolving, Phases, Changes
  <2>2. Claims(b, run[b].project)'
    BY <1>1, <1>11, <1>18 DEF Claims, Explored, Readable, Changes, d
  <2> QED
    BY <2>1, <2>2 DEF Linked
<1> QED
  BY <1>9, <1>13, <1>14, <1>15, <1>16, <1>17, <1>19, <1>20 DEF RunStep, Resolving, Walked

-----------------------------------------------------------------------------
(* Every step *)

CacheMove == [CacheNext]_vars

LEMMA QuietCalls == ASSUME UNCHANGED vars PROVE CacheMove /\ \A q \in Procs : SameCall(q)
BY DEF vars, SameCall, CacheMove

LEMMA BuilderMoves ==
  ASSUME DInv, NEW b \in Builders, Builder(b)
  PROVE  RunStep(b) /\ CacheMove /\ \A q \in Procs \ {b} : SameCall(q)
<1>0. b \in Procs
  BY DepsAssumption
<1>1. CASE Begin(b)
  BY <1>1, BeginKeeps, QuietCalls, ZenonT(60) DEF Begin
<1>2. CASE Visit(b)
  BY <1>2, VisitKeeps, QuietCalls, ZenonT(60) DEF Visit
<1>3. CASE WalkPath(b)
  BY <1>3, WalkPathKeeps, QuietCalls, ZenonT(60) DEF WalkPath
<1>4. CASE WalkAsk(b)
  <2>1. PICK r \in [url : Urls, hash : Hashes, sub : Subdirs] : Ask(b, r)
    BY <1>4, WalkAskKeeps, SMTT(60)
  <2> QED
    BY <1>0, <1>4, <2>1, WalkAskKeeps DEF CacheMove, CacheNext
<1>5. CASE WalkAnswer(b)
  BY <1>0, <1>5, WalkAnswerKeeps, ZenonT(60) DEF WalkAnswer, CacheMove, CacheNext
<1>6. CASE WalkOver(b)
  BY <1>6, WalkOverKeeps, QuietCalls, ZenonT(60) DEF WalkOver
<1>7. ASSUME NEW n \in Names, Refuse(b, n) PROVE RunStep(b) /\ UNCHANGED vars
  BY <1>7, RefuseKeeps, ZenonT(60) DEF Refuse
<1>8. ASSUME NEW n \in Names, SelectAsk(b, n)
      PROVE  RunStep(b) /\ CacheMove /\ \A q \in Procs \ {b} : SameCall(q)
  <2>1. PICK r \in [url : Urls, hash : Hashes, sub : Subdirs] : Ask(b, r)
    BY <1>8, SelectAskKeeps, SMTT(60)
  <2> QED
    BY <1>0, <1>8, <2>1, SelectAskKeeps DEF CacheMove, CacheNext
<1>9. CASE SelectAnswer(b)
  BY <1>0, <1>9, SelectAnswerKeeps, ZenonT(60) DEF SelectAnswer, CacheMove, CacheNext
<1>10. CASE LinkBegin(b)
  BY <1>10, LinkBeginKeeps, QuietCalls, ZenonT(60) DEF LinkBegin
<1>11. CASE Skip(b)
  BY <1>11, SkipKeeps, QuietCalls DEF Skip
<1>12. CASE LinkAgain(b)
  BY <1>12, LinkAgainKeeps, QuietCalls DEF LinkAgain
<1>13. CASE LinkRefuse(b)
  BY <1>13, LinkRefuseKeeps, QuietCalls DEF LinkRefuse
<1>14. CASE LinkBad(b)
  BY <1>14, LinkBadKeeps, QuietCalls, ZenonT(60) DEF LinkBad
<1>15. CASE LinkIn(b)
  BY <1>15, LinkInKeeps, QuietCalls, ZenonT(60) DEF LinkIn
<1>16. CASE LinkOut(b)
  BY <1>16, LinkOutKeeps, QuietCalls, ZenonT(60) DEF LinkOut
<1>17. CASE Restart(b)
  BY <1>0, <1>17, RestartKeeps DEF Restart, CacheMove, CacheNext
<1> QED
  BY <1>1, <1>2, <1>3, <1>4, <1>5, <1>6, <1>7, <1>8, <1>9, <1>10, <1>11, <1>12, <1>13, <1>14,
     <1>15, <1>16, <1>17, QuietCalls DEF Builder

LEMMA GuestMoves ==
  ASSUME DInv, NEW p \in Procs \ Builders, Guest(p)
  PROVE  /\ run' = run /\ asks' \in 0 .. MaxAsks /\ CacheMove
         /\ \A q \in Procs \ {p} : SameCall(q)
<1>0. TypeOK /\ asks \in 0 .. MaxAsks
  BY DEF DInv, DepsTypeOK
<1>1. ASSUME NEW r \in Guests, asks < MaxAsks, asks' = asks + 1, UNCHANGED run,
             Ask(p, r) \/ Add(p, r.url)
      PROVE  /\ run' = run /\ asks' \in 0 .. MaxAsks /\ CacheMove
             /\ \A q \in Procs \ {p} : SameCall(q)
  <2>1. r \in [url : Urls, hash : Hashes, sub : Subdirs] /\ r.url \in Urls
    BY DepsAssumption
  <2>2. asks' \in 0 .. MaxAsks
    BY <1>0, <1>1, DepsAssumption
  <2>3. \A q \in Procs \ {p} : SameCall(q)
    BY <1>0, <1>1 DEF Ask, Add, Asks, SameCall, TypeOK
  <2> QED
    BY <1>1, <2>1, <2>2, <2>3 DEF CacheMove, CacheNext
<1>2. CASE (Take(p) \/ Exit(p) \/ Kill(p)) /\ UNCHANGED <<run, asks>>
  <2>1. \A q \in Procs \ {p} : SameCall(q)
    BY <1>0, <1>2 DEF Take, Exit, Kill, Forget, Returned, SameCall, TypeOK
  <2> QED
    BY <1>0, <1>2, <2>1 DEF CacheMove, CacheNext
<1> QED
  BY <1>1, <1>2 DEF Guest

LEMMA CacheMoves ==
  ASSUME DInv, NEW p \in Procs, CacheStep(p), UNCHANGED <<run, asks>>
  PROVE  CacheMove /\ \A b \in Builders : Resolving(b)'
<1>0. IInv /\ DepsTypeOK /\ \A b \in Builders : Resolving(b)
  BY DEF DInv
<1>1. MemoKept(p)
  BY <1>0, CacheStepMemo
<1>2. ASSUME NEW b \in Builders PROVE Resolving(b)'
  <2>1. CASE b = p
    <3>1. Remembers(b)' /\ MemoGrows(b)
      BY <1>0, <1>1, <2>1, CacheStepRemembers DEF Resolving, MemoKept, MemoGrows
    <3>2. Asking(b)'
      <4>1. \A n : Winner(b, n)' = Winner(b, n)
        BY ReqsKept
      <4> QED
        BY <1>0, <1>1, <2>1, <4>1 DEF Resolving, Asking, MemoKept
    <3> QED
      BY <1>0, <3>1, <3>2, RunKept
  <2>2. CASE b # p
    <3>1. SameCall(b)
      BY <1>1, <2>2, DepsAssumption DEF MemoKept, SameCall
    <3> QED
      BY <1>0, <3>1, OtherKept
  <2> QED
    BY <2>1, <2>2
<1> QED
  BY <1>2 DEF CacheMove, CacheNext

LEMMA WorldMoves == ASSUME World PROVE CacheMove /\ \A q \in Procs : SameCall(q)
BY DEF World, Handle, Move, Interferes, SameCall, CacheMove, CacheNext

LEMMA DInvInit == DepsInit => DInv
<1> SUFFICES ASSUME DepsInit PROVE DInv
  OBVIOUS
<1>1. IInv
  BY InvInit DEF DepsInit
<1>2. \A d \in Projects : Fresh(d) \in Run
  BY DEF Fresh, Run
<1>3. DepsTypeOK
  BY <1>1, <1>2, DepsAssumption DEF DepsInit, DepsTypeOK, IInv
<1>4. ASSUME NEW b \in Builders PROVE Resolving(b)
  <2>1. pc[b] = "idle" /\ \E d \in Projects : run[b] = Fresh(d)
    BY DepsAssumption DEF DepsInit, Init
  <2>2. Remembers(b) /\ Asking(b)
    BY <2>1 DEF Remembers, Asking, Settled
  <2>3. Phases(b) /\ Selections(b) /\ Stack(b) /\ Linked(b)
    BY <2>1 DEF Fresh, Phases, Selections, Stack, Linked
  <2>4. Walked(b)
    BY <2>1, EmptySet DEF Fresh, Walked, Readings, Recordings, Namings, Coverage, Visited
  <2> QED
    BY <2>2, <2>3, <2>4 DEF Resolving, Walked
<1> QED
  BY <1>1, <1>3, <1>4 DEF DInv

LEMMA DInvNext == DInv /\ [Next]_allVars => DInv' /\ CacheMove
<1> SUFFICES ASSUME DInv, [Next]_allVars PROVE DInv' /\ CacheMove
  OBVIOUS
<1>0. IInv /\ DepsTypeOK /\ (\A b \in Builders : Resolving(b)) /\ Builders \subseteq Procs
  BY DepsAssumption DEF DInv
<1>1. ASSUME CacheMove, run' \in [Builders -> Run], asks' \in 0 .. MaxAsks,
             \A b \in Builders : Resolving(b)'
      PROVE  DInv' /\ CacheMove
  <2>1. IInv'
    BY <1>0, <1>1, InvNext DEF CacheMove
  <2> QED
    BY <1>1, <2>1 DEF DInv, DepsTypeOK, IInv
<1>2. ASSUME NEW b \in Builders, Builder(b) PROVE DInv' /\ CacheMove
  <2>1. RunStep(b) /\ CacheMove /\ \A q \in Procs \ {b} : SameCall(q)
    BY <1>2, BuilderMoves
  <2>2. \A c \in Builders : Resolving(c)'
    BY <1>0, <2>1, OtherKept DEF RunStep
  <2> QED
    BY <1>0, <1>1, <2>1, <2>2 DEF RunStep, DepsTypeOK
<1>3. ASSUME NEW p \in Procs \ Builders, Guest(p) PROVE DInv' /\ CacheMove
  <2>1. /\ run' = run /\ asks' \in 0 .. MaxAsks /\ CacheMove
        /\ \A q \in Procs \ {p} : SameCall(q)
    BY <1>3, GuestMoves
  <2>2. \A c \in Builders : Resolving(c)'
    BY <1>0, <2>1, OtherKept
  <2> QED
    BY <1>0, <1>1, <2>1, <2>2 DEF DepsTypeOK
<1>4. ASSUME NEW p \in Procs, CacheStep(p), UNCHANGED <<run, asks>> PROVE DInv' /\ CacheMove
  BY <1>0, <1>1, <1>4, CacheMoves DEF DepsTypeOK
<1>5. ASSUME World, UNCHANGED <<run, asks>> PROVE DInv' /\ CacheMove
  BY <1>0, <1>1, <1>5, WorldMoves, OtherKept DEF DepsTypeOK
<1>6. ASSUME UNCHANGED allVars PROVE DInv' /\ CacheMove
  <2>1. UNCHANGED vars /\ run' = run /\ asks' = asks
    BY <1>6 DEF allVars
  <2> QED
    BY <1>0, <1>1, <2>1, QuietCalls, OtherKept DEF DepsTypeOK
<1> QED
  BY <1>2, <1>3, <1>4, <1>5, <1>6 DEF Next

LEMMA DepsInvariance == Spec => []DInv
BY DInvInit, DInvNext, PTL DEF Spec

(* The resolver uses the cache as the cache expects: every step of a build is a
   step of the package cache or leaves it alone, so that all that is proved of
   the cache holds of builds. *)
THEOREM UsesCache == Spec => CacheSpec
<1>1. DepsInit => Init
  BY DEF DepsInit
<1>2. DInv /\ [Next]_allVars => [CacheNext]_vars
  BY DInvNext DEF CacheMove
<1> QED
  BY <1>1, <1>2, DepsInvariance, PTL DEF Spec, CacheSpec

(* Types, of the resolver's records too: whatever projects, manifests and
   builders there are. *)
THEOREM DepsTypeCorrect == Spec => []DepsTypeOK
BY DepsInvariance, PTL DEF DInv

(* One directory per package name: whoever is linked has claimed its name. *)
THEOREM OneCopy == Spec => []OneCopyPerName
<1>1. DInv => OneCopyPerName
  <2> SUFFICES ASSUME DInv, NEW b \in Builders,
                      NEW d \in {l[3] : l \in run[b].links} \cup {run[b].project},
                      NEW e \in {l[3] : l \in run[b].links} \cup {run[b].project},
                      Manifest[d].name = Manifest[e].name
               PROVE  d = e
    BY DEF OneCopyPerName
  <2>0. Resolving(b)
    BY DEF DInv
  <2>1. CASE run[b].phase \in {"link", "done"}
    <3>1. Claims(b, d) /\ Claims(b, e)
      BY <2>0, <2>1 DEF Resolving, Linked, LinkOk
    <3> QED
      BY <3>1 DEF Claims
  <2>2. CASE run[b].phase \notin {"link", "done"}
    BY <2>0, <2>2 DEF Resolving, Phases
  <2> QED
    BY <2>1, <2>2
<1> QED
  BY <1>1, DepsInvariance, PTL

LEMMA AliasTells ==
  ASSUME NEW l, l[1] \in Dirs, NEW dep \in ToSet(Manifest[l[1]].deps), dep.alias = l[2]
  PROVE  DepOf(l) = dep
<1>1. PICK i \in DOMAIN Manifest[l[1]].deps : Manifest[l[1]].deps[i] = dep
  BY DEF ToSet
<1>2. \A j \in DOMAIN Manifest[l[1]].deps : Manifest[l[1]].deps[j].alias = l[2] => j = i
  BY <1>1, DepsAssumption DEF Dirs
<1> QED
  BY <1>1, <1>2 DEF DepOf

(* What a dependency is linked to satisfies it. *)
THEOREM RequirementsAreMet == Spec => []RequirementsMet
<1>1. DInv => RequirementsMet
  <2> SUFFICES ASSUME DInv, NEW b \in Builders, NEW l \in run[b].links, ~IsPath(DepOf(l)),
                      Reached(b, PackageOf(DepOf(l)))
               PROVE  Satisfies(b, l[3], DepOf(l))
    BY DEF RequirementsMet
  <2> DEFINE d == l[3]
  <2>0. DepsTypeOK /\ Resolving(b) /\ run[b] \in Run
    BY DEF DInv, DepsTypeOK
  <2>1. /\ run[b].phase \in {"link", "done"} /\ l[1] \in Dirs
        /\ LinkOk(b, l[1], l[2], d) /\ Explored(b, l[1])
    BY <2>0, RunIs DEF Resolving, Phases, Linked, LinkOk
  <2>2. PICK dep \in ToSet(Manifest[l[1]].deps) : dep.alias = l[2] /\ Target(b, dep) = d
    BY <2>1 DEF LinkOk
  <2>3. DepOf(l) = dep
    BY <2>1, <2>2, AliasTells
  <2>4. dep \in UrlDep /\ ~IsPath(dep) /\ Reached(b, PackageOf(dep)) /\ PackageOf(dep) \in Packages
    <3>1. dep \in Dep
      BY <2>1, DirIs DEF ToSet
    <3> QED
      BY <2>3, <3>1, UrlDepIs DEF IsPath, UrlDep
  <2>5. dep \in Required(b)
    BY <2>0, <2>1, <2>4, EmptySet DEF Resolving, Coverage, Covered, Phases, Explored
  <2> DEFINE n == Manifest[PackageOf(dep)].name
             w == Winner(b, n)
  <2>6. PICK k \in Names : dep \in ToSet(run[b].reqs[k])
    BY <2>5 DEF Required
  <2>7. k = n /\ run[b].url_names[PackageOf(dep)] = n
    <3>1. run[b].url_names[PackageOf(dep)] # None /\ ~Failed(b, dep)
      BY <2>0, <2>4, <2>5, <2>6 DEF Resolving, Recordings, Reached
    <3>2. k = n
      BY <2>0, <2>4, <2>6, <3>1 DEF Resolving, Recordings, Reached
    <3> QED
      BY <2>0, <2>4, <3>1, <3>2 DEF Resolving, Namings
  <2>8. n \in run[b].resolved /\ d = PackageOf(w)
    <3>1. n # None /\ d # None
      BY <2>0, <2>6, <2>7, RunIs, DirIs, DepsAssumption
    <3> QED
      BY <2>2, <2>4, <2>7, <3>1 DEF Target
  <2>9. run[b].reqs[n] # <<>> /\ ~Crossed(b, n) /\ Chosen(b, n)
    BY <2>0, <2>8 DEF Resolving, Selections, Selectable
  <2>10. n \in Names /\ w \in ToSet(run[b].reqs[n]) /\ w \in UrlDep /\ w \in Required(b)
         /\ w.ver >= dep.ver
    BY <2>0, <2>6, <2>7, <2>9, WinnerIs, UrlDepIs, <2>4 DEF Required
  <2>11. Class[w.ver] = Class[dep.ver]
    BY <2>6, <2>7, <2>9 DEF Crossed, Chosen
  <2>12. Manifest[d].name = n
    <3>1. d \in Packages /\ run[b].mfc[d] = "some"
      BY <2>1, <2>8, <2>10, UrlDepIs DEF LinkOk, Claims, Explored, Readable
    <3> QED
      BY <2>8, <2>9, <3>1 DEF Chosen
  <2> QED
    BY <2>3, <2>8, <2>10, <2>11, <2>12 DEF Satisfies
<1> QED
  BY <1>1, DepsInvariance, PTL
=============================================================================
