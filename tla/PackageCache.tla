---------------------------- MODULE PackageCache ----------------------------
(***************************************************************************)
(* The package cache of compiler-plan/src/pkgfetch.dawn, and the question  *)
(* the resolver asks of it (url_pkg_root in source.dawn): which directory  *)
(* holds the package that the manifest calls `url`, `hash`, `subdir`.      *)
(*                                                                         *)
(* The cache is a directory that several `dawn` processes read and fill    *)
(* without a lock.  An entry is named by the hash of its own tree; beside  *)
(* it lies a record of the urls seen to produce that hash.  One action is  *)
(* what a process does between two operations on the file system or the    *)
(* network.  People edit, plant and remove entries, and a url may serve    *)
(* another archive tomorrow.  A tree is its hash: two trees with one hash  *)
(* are the same tree.  Not modelled: the archive's format and its limits,  *)
(* which make a download fail, and the staging directory, which is the     *)
(* process's own and is left behind when the process is killed.            *)
(***************************************************************************)
EXTENDS Naturals

CONSTANTS
  Procs,     \* the dawn processes
  Urls,
  Hashes,    \* the d1 hashes of trees
  Subdirs,   \* the subdirs of archives, Whole among them
  Whole,     \* the subdir "", which every archive has
  Contents,  \* Contents[h]: the subdirs of the tree whose hash is h
  NoHash,    \* not a hash: what a dead url serves
  Worlds,    \* the caches and urls a process may find when it starts
  MaxFaults  \* how often people interfere or a process is killed (a bound for TLC)

Trees == {"absent", "intact", "damaged"}
Served == Hashes \cup {NoHash}

ASSUME CacheAssumption ==
  /\ Urls # {}
  /\ Whole \in Subdirs
  /\ Contents \in [Hashes -> SUBSET Subdirs]
  /\ \A h \in Hashes : Whole \in Contents[h]
  /\ NoHash \notin Hashes
  /\ Worlds \subseteq [entry : [Hashes -> Trees], origins : [Hashes -> SUBSET Urls],
                       serves : [Urls -> Served]]
  /\ MaxFaults \in Nat

Request == [url : Urls, hash : Served, sub : Subdirs]
Answer == [found : BOOLEAN, diag : {"none", "mirror", "subdir"}, mirror_ok : BOOLEAN]

VARIABLES
  entry,    \* entry[h]: the directory named h and what a walk of it would hash to
  origins,  \* origins[h]: the urls in the record of h
  serves,   \* serves[u]: the tree of the archive at u
  saw,      \* history: the hashes a download of u has had on this machine
  pc,       \* where p is
  want,     \* the requirement p resolves
  purpose,  \* why it may fetch: the entry is there and so is the root (warm),
            \* the entry is there and the root was not (hit), no entry (cold),
            \* `dawn add` (add)
  got,      \* the hash of the tree p has fetched for this request
  have,     \* the record as p has read it
  mirrors,  \* UrlFailures of p's run
  subdirs,
  answer,   \* what the request came to
  offline,  \* history: a download of this request failed
  touched,  \* history: the entries people changed during this request
  faults    \* how often people have interfered or a process was killed

disk == <<entry, origins>>
world == <<serves, faults>>
request == <<want, purpose, got, have, offline>>
vars == <<entry, origins, serves, saw, pc, want, purpose, got, have, mirrors,
          subdirs, answer, offline, touched, faults>>

Nothing == [url |-> CHOOSE u \in Urls : TRUE, hash |-> NoHash, sub |-> Whole]
NoAnswer == [found |-> FALSE, diag |-> "none", mirror_ok |-> FALSE]

TypeOK ==
  /\ entry \in [Hashes -> Trees]
  /\ origins \in [Hashes -> SUBSET Urls]
  /\ serves \in [Urls -> Served]
  /\ saw \in [Urls -> SUBSET Hashes]
  /\ pc \in [Procs -> {"idle", "asked", "ensure", "verify", "origin", "fetch",
                       "publish", "rename", "refused", "adopt", "record",
                       "truncate", "write", "again", "answered"}]
  /\ want \in [Procs -> Request]
  /\ purpose \in [Procs -> {"warm", "hit", "cold", "add"}]
  /\ got \in [Procs -> Served]
  /\ have \in [Procs -> SUBSET Urls]
  /\ mirrors \in [Procs -> SUBSET (Hashes \X Urls)]
  /\ subdirs \in [Procs -> SUBSET (Hashes \X Subdirs)]
  /\ answer \in [Procs -> Answer]
  /\ offline \in [Procs -> BOOLEAN]
  /\ touched \in [Procs -> SUBSET Hashes]
  /\ faults \in 0..MaxFaults

Init ==
  /\ \E w \in Worlds :
       /\ entry = w.entry /\ origins = w.origins /\ serves = w.serves
       /\ saw = [u \in Urls |-> {h \in Hashes : u \in w.origins[h]}]
  /\ pc = [p \in Procs |-> "idle"]
  /\ want = [p \in Procs |-> Nothing]
  /\ purpose = [p \in Procs |-> "cold"]
  /\ got = [p \in Procs |-> NoHash]
  /\ have = [p \in Procs |-> {}]
  /\ mirrors = [p \in Procs |-> {}]
  /\ subdirs = [p \in Procs |-> {}]
  /\ answer = [p \in Procs |-> NoAnswer]
  /\ offline = [p \in Procs |-> FALSE]
  /\ touched = [p \in Procs |-> {}]
  /\ faults = 0

-----------------------------------------------------------------------------
(* How a step of p's request ends *)

Present(h) == entry[h] # "absent"
RootPresent(r) == Present(r.hash) /\ r.sub \in Contents[r.hash]

Goto(p, label) ==
  /\ pc' = [pc EXCEPT ![p] = label]
  /\ UNCHANGED <<mirrors, subdirs, answer>>

Answers(p, a) ==
  /\ pc' = [pc EXCEPT ![p] = "answered"]
  /\ answer' = [answer EXCEPT ![p] = a]

Known(p, mirror_ok) ==
  /\ Answers(p, [found |-> FALSE, diag |-> "none", mirror_ok |-> mirror_ok])
  /\ UNCHANGED <<mirrors, subdirs>>

Found(p) ==
  /\ Answers(p, [found |-> TRUE, diag |-> "none", mirror_ok |-> TRUE])
  /\ UNCHANGED <<mirrors, subdirs>>

\* the request ends with an Err: of this mirror, and remembered as such, unless
\* it was `dawn add`'s, which remembers nothing
Fails(p) ==
  /\ Answers(p, [found |-> FALSE, diag |-> "mirror", mirror_ok |-> FALSE])
  /\ mirrors' = IF purpose[p] = "add" THEN mirrors
                ELSE [mirrors EXCEPT ![p] = @ \cup {<<want[p].hash, want[p].url>>}]
  /\ UNCHANGED subdirs

\* check_origin has been answered with Ok
OriginOk(p) == IF purpose[p] = "warm" THEN Found(p) ELSE Goto(p, "again")

\* fetch_and_hash has been answered with Ok
Fetched(p) ==
  IF purpose[p] = "add" THEN Found(p)
  ELSE IF got[p] = want[p].hash THEN OriginOk(p) ELSE Fails(p)

-----------------------------------------------------------------------------
(* The question: url_pkg_root, check_origin, ensure_cached *)

Asks(p, r, why, label) ==
  /\ pc[p] = "idle"
  /\ pc' = [pc EXCEPT ![p] = label]
  /\ want' = [want EXCEPT ![p] = r]
  /\ purpose' = [purpose EXCEPT ![p] = why]
  /\ UNCHANGED <<disk, world, saw, got, have, mirrors, subdirs, answer, offline, touched>>

Ask(p, r) == Asks(p, r, "cold", "asked")
Add(p, url) == Asks(p, [Nothing EXCEPT !.url = url], "add", "fetch")

Look(p) ==
  /\ pc[p] = "asked"
  /\ LET r == want[p] IN
     \/ /\ <<r.hash, r.url>> \in mirrors[p]
        /\ Known(p, FALSE)
        /\ UNCHANGED purpose
     \/ /\ <<r.hash, r.url>> \notin mirrors[p]
        /\ <<r.hash, r.sub>> \in subdirs[p]
        /\ Known(p, Present(r.hash))
        /\ UNCHANGED purpose
     \/ /\ <<r.hash, r.url>> \notin mirrors[p]
        /\ <<r.hash, r.sub>> \notin subdirs[p]
        /\ Goto(p, IF RootPresent(r) THEN "origin" ELSE "ensure")
        /\ purpose' = [purpose EXCEPT ![p] = IF RootPresent(r) THEN "warm" ELSE "cold"]
  /\ UNCHANGED <<disk, world, saw, want, got, have, offline, touched>>

Ensure(p) ==
  /\ pc[p] = "ensure"
  /\ IF Present(want[p].hash)
     THEN Goto(p, "verify") /\ purpose' = [purpose EXCEPT ![p] = "hit"]
     ELSE Goto(p, "fetch") /\ UNCHANGED purpose
  /\ UNCHANGED <<disk, world, saw, want, got, have, offline, touched>>

Quiet(p) == UNCHANGED <<disk, world, saw, request, touched>>

Verify(p) ==
  /\ pc[p] = "verify"
  /\ IF entry[want[p].hash] = "intact" THEN Goto(p, "origin") ELSE Fails(p)
  /\ Quiet(p)

(* [mutant] an entry without a record is adopted *)
OriginAdopts(p) ==
  /\ pc[p] = "origin"
  /\ IF origins[want[p].hash] = {} \/ want[p].url \in origins[want[p].hash]
     THEN OriginOk(p) ELSE Goto(p, "fetch")
  /\ Quiet(p)

Origin(p) ==
  /\ pc[p] = "origin"
  /\ IF want[p].url \in origins[want[p].hash] THEN OriginOk(p) ELSE Goto(p, "fetch")
  /\ Quiet(p)

\* after ensure_cached: is the subdir there?
Again(p) ==
  /\ pc[p] = "again"
  /\ IF RootPresent(want[p])
     THEN Found(p)
     ELSE /\ Answers(p, [found |-> FALSE, diag |-> "subdir", mirror_ok |-> TRUE])
          /\ subdirs' = [subdirs EXCEPT ![p] = @ \cup {<<want[p].hash, want[p].sub>>}]
          /\ UNCHANGED mirrors
  /\ Quiet(p)

-----------------------------------------------------------------------------
(* The fetch: fetch_and_hash_in, fetch_into, record_origin *)

\* a tree is downloaded, unpacked and hashed in the staging directory
Download(p) ==
  /\ pc[p] = "fetch"
  /\ serves[want[p].url] # NoHash
  /\ got' = [got EXCEPT ![p] = serves[want[p].url]]
  /\ saw' = [saw EXCEPT ![want[p].url] = @ \cup {serves[want[p].url]}]
  /\ Goto(p, "publish")
  /\ UNCHANGED <<disk, world, want, purpose, have, offline, touched>>

DownloadFails(p) ==
  /\ pc[p] = "fetch"
  /\ offline' = [offline EXCEPT ![p] = TRUE]
  /\ Fails(p)
  /\ UNCHANGED <<disk, world, saw, want, purpose, got, have, touched>>

(* [mutant] an entry of that name is trusted *)
PublishTrusting(p) ==
  /\ pc[p] = "publish"
  /\ Goto(p, IF Present(got[p]) THEN "record" ELSE "rename")
  /\ Quiet(p)

Publish(p) ==
  /\ pc[p] = "publish"
  /\ Goto(p, IF Present(got[p]) THEN "adopt" ELSE "rename")
  /\ Quiet(p)

\* a directory can not be renamed onto one with files in it
Rename(p) ==
  /\ pc[p] = "rename"
  /\ IF Present(got[p])
     THEN Goto(p, "refused") /\ UNCHANGED entry
     ELSE Goto(p, "record") /\ entry' = [entry EXCEPT ![got[p]] = "intact"]
  /\ UNCHANGED <<origins, world, saw, request, touched>>

(* [mutant] a refused rename is an error *)
RefusedFails(p) ==
  /\ pc[p] = "refused"
  /\ Fails(p)
  /\ Quiet(p)

Refused(p) ==
  /\ pc[p] = "refused"
  /\ IF Present(got[p]) THEN Goto(p, "adopt") ELSE Fails(p)
  /\ Quiet(p)

Adopt(p) ==
  /\ pc[p] = "adopt"
  /\ IF entry[got[p]] = "intact" THEN Goto(p, "record") ELSE Fails(p)
  /\ Quiet(p)

Record(p) ==
  /\ pc[p] = "record"
  /\ IF want[p].url \in origins[got[p]]
     THEN Fetched(p) /\ UNCHANGED have
     ELSE /\ Goto(p, "truncate")
          /\ have' = [have EXCEPT ![p] = origins[got[p]]]
  /\ UNCHANGED <<disk, world, saw, want, purpose, got, offline, touched>>

\* the write's open empties the file; a write that fails is dropped
Truncate(p) ==
  /\ pc[p] = "truncate"
  /\ \/ /\ origins' = [origins EXCEPT ![got[p]] = {}]
        /\ Goto(p, "write")
     \/ /\ UNCHANGED origins
        /\ Fetched(p)
  /\ UNCHANGED <<entry, world, saw, request, touched>>

\* what another process has written meanwhile is overwritten from the start:
\* of a longer file some last lines stay, the first of them perhaps cut (a cut
\* line is no url and stands for nothing)
Write(p) ==
  /\ pc[p] = "write"
  /\ \/ \E tail \in SUBSET origins[got[p]] :
          origins' = [origins EXCEPT ![got[p]] = have[p] \cup {want[p].url} \cup tail]
     \/ UNCHANGED origins
  /\ Fetched(p)
  /\ UNCHANGED <<entry, world, saw, request, touched>>

CacheStep(p) ==
  \/ Look(p) \/ Ensure(p) \/ Verify(p) \/ Origin(p) \/ Again(p)
  \/ Download(p) \/ DownloadFails(p) \/ Publish(p) \/ Rename(p) \/ Refused(p)
  \/ Adopt(p) \/ Record(p) \/ Truncate(p) \/ Write(p)

-----------------------------------------------------------------------------
(* Who asks, and what else happens *)

\* the call has returned, and nothing of it is left but the memo of failures
Returned(p) ==
  /\ pc' = [pc EXCEPT ![p] = "idle"]
  /\ want' = [want EXCEPT ![p] = Nothing]
  /\ purpose' = [purpose EXCEPT ![p] = "cold"]
  /\ got' = [got EXCEPT ![p] = NoHash]
  /\ have' = [have EXCEPT ![p] = {}]
  /\ answer' = [answer EXCEPT ![p] = NoAnswer]
  /\ offline' = [offline EXCEPT ![p] = FALSE]
  /\ touched' = [touched EXCEPT ![p] = {}]

Take(p) ==
  /\ pc[p] = "answered"
  /\ Returned(p)
  /\ UNCHANGED <<disk, world, saw, mirrors, subdirs>>

\* the process ends between two requests or in the middle of one; the next one
\* of its name remembers nothing
Forget(p) ==
  /\ Returned(p)
  /\ mirrors' = [mirrors EXCEPT ![p] = {}]
  /\ subdirs' = [subdirs EXCEPT ![p] = {}]
  /\ UNCHANGED <<disk, serves, saw>>

Fault == faults < MaxFaults /\ faults' = faults + 1

Exit(p) == pc[p] = "idle" /\ Forget(p) /\ UNCHANGED faults
Kill(p) == pc[p] # "idle" /\ Fault /\ Forget(p)

Interferes ==
  /\ Fault
  /\ UNCHANGED <<origins, saw, pc, want, purpose, got, have, mirrors, subdirs,
                 answer, offline>>

\* someone edits, plants, copies in or removes an entry
Handle(h, tree) ==
  /\ Interferes
  /\ tree # entry[h]
  /\ entry' = [entry EXCEPT ![h] = tree]
  /\ touched' = [p \in Procs |-> IF pc[p] = "idle" THEN {} ELSE touched[p] \cup {h}]
  /\ UNCHANGED serves

\* a url serves another archive, or none
Move(u, h) ==
  /\ Interferes
  /\ h # serves[u]
  /\ serves' = [serves EXCEPT ![u] = h]
  /\ UNCHANGED <<entry, touched>>

World ==
  \/ \E h \in Hashes, tree \in Trees : Handle(h, tree)
  \/ \E u \in Urls, h \in Served : Move(u, h)

CacheNext ==
  \/ \E p \in Procs :
       \/ CacheStep(p) \/ Take(p) \/ Exit(p) \/ Kill(p)
       \/ \E r \in [url : Urls, hash : Hashes, sub : Subdirs] : Ask(p, r)
       \/ \E u \in Urls : Add(p, u)
  \/ World

CacheSpec == Init /\ [][CacheNext]_vars

-----------------------------------------------------------------------------
(* A requirement is resolved only if its url has been seen to produce its hash
   on this machine.  Nothing else can tell a manifest whose url was raised and
   whose hash was forgotten from one that is right, as the entry found is the
   one of the hash.  It has to survive lost and half-written records, processes
   killed while they write one, and records of entries long removed. *)
Resolved(p) == pc[p] = "answered" /\ answer[p].found

GuardedByObservation ==
  \A p \in Procs : Resolved(p) /\ purpose[p] # "add" => want[p].hash \in saw[want[p].url]

(* Whoever fetched, or was told to look at the entry again, gets a tree that
   hashes to its name, although the entry may have been planted before and is
   published by whichever process comes first.  Only what people change after
   the request was made escapes.  (A recorded url with its root in place is
   trusted without a walk, as the comment at ensure_cached says.) *)
Subject(p) == IF got[p] = NoHash THEN want[p].hash ELSE got[p]

VerifiedUnlessTouched ==
  \A p \in Procs :
    Resolved(p) /\ (purpose[p] # "warm" \/ got[p] # NoHash)
      => entry[Subject(p)] = "intact" \/ Subject(p) \in touched[p]

(* A request never fails because of other processes, or of ones that were
   killed: every failure has a cause in the network, in the manifest (the url
   serves another tree) or in what people did to the entry.  Two processes
   that publish one entry, or write one record, at the same time both succeed. *)
FailureHasCause ==
  \A p \in Procs :
    pc[p] = "answered" /\ answer[p].diag = "mirror" =>
      \/ offline[p]
      \/ purpose[p] # "add" /\ got[p] \notin {NoHash, want[p].hash}
      \/ Subject(p) \in touched[p]
      \/ entry[Subject(p)] = "damaged"
=============================================================================
