------------------------------ MODULE UrlDeps -------------------------------
(***************************************************************************)
(* The resolver of compiler-plan/src/source.dawn over the package cache:   *)
(* select_url_deps walks every manifest a project reaches and picks one    *)
(* version per package name, resolve_src_deps links the packages picked.   *)
(* A builder is a `dawn` process that resolves a project; the other        *)
(* processes of PackageCache use the same cache for work of their own.     *)
(* Every step here is a step of CacheNext or leaves the cache alone.       *)
(*                                                                         *)
(* A manifest is a constant: that of a package is a fact of its tree, and  *)
(* a damaged entry still has it.  Names are selected in any order.         *)
(* Not modelled: manifests that do not parse, path dependencies that are   *)
(* not there, native sources, Java coordinates, and what diagnostics say.  *)
(***************************************************************************)
EXTENDS PackageCache, SequencesExt

CONSTANTS
  Builders,  \* the processes that resolve a project
  Paths,     \* the directories of path dependencies, projects among them
  Projects,  \* the projects a builder may be asked to resolve
  Manifest,  \* Manifest[dir]: name, version and dependencies of a package
  Names, Versions,
  Class,     \* Class[v]: the compatibility class of a version
  Misnamed,  \* the names and versions of which the name should carry the major
  None,      \* no directory, no name, no version
  Guests,    \* the requirements and urls the other processes have
  MaxAsks    \* how many requests they make (a bound for TLC)

Packages == Hashes \X Subdirs
Dirs == Paths \cup Packages

\* `path` tells a path dependency, which has nothing else, from a url dependency
Dep == {dep \in [alias : Names, path : Paths \cup {None}, ver : Versions, url : Urls,
                 hash : Served, sub : Subdirs] : dep.path = None => dep.hash \in Hashes}
UrlDep == {dep \in Dep : dep.path = None}

ASSUME DepsAssumption ==
  /\ Builders \subseteq Procs /\ Projects \subseteq Paths
  /\ None \notin Dirs \cup Versions \cup Names
  /\ Versions \subseteq Nat /\ DOMAIN Class = Versions
  /\ Misnamed \subseteq Names \X Versions
  /\ DOMAIN Manifest = Dirs
  /\ Paths \cap Packages = {}              \* no path leads into the cache
  /\ \A d \in Dirs :
       /\ Manifest[d].name \in Names /\ Manifest[d].ver \in Versions \cup {None}
       /\ Manifest[d].deps \in Seq(Dep)
       /\ \A i, j \in DOMAIN Manifest[d].deps :
            Manifest[d].deps[i].alias = Manifest[d].deps[j].alias => i = j
  /\ Guests \subseteq [url : Urls, hash : Hashes, sub : Subdirs]
  /\ MaxAsks \in Nat

VARIABLES
  run,   \* run[b]: the variables of select_url_deps and resolve_src_deps, below
  asks   \* how many requests the other processes have made

allVars == <<vars, run, asks>>

Run ==
  [phase : {"new", "walk", "select", "link", "done"},
   project : Projects,
   queue : Seq(Dirs),                       \* directories to visit
   todo : Seq(Dep),                         \* what is left of the one visited
   seen : SUBSET Dirs,
   mfc : [Packages -> {"unread", "some", "none"}],
   reqs : [Names -> Seq(UrlDep)],
   url_names : [Packages -> Names \cup {None}],
   available : SUBSET Hashes,               \* with a mirror validated
   pending : SUBSET Hashes,                 \* with a diagnostic held back
   diags : SUBSET ({"mirror", "subdir", "hashes", "classes", "major", "version",
                    "cycle", "copies", "src", "manifest"}
                   \X (Hashes \cup Packages \cup Names \cup Dirs)),
   left : SUBSET Names,                     \* still to be resolved
   current : Names \cup {None},             \* being resolved
   resolved : SUBSET Names,
   frames : Seq([dir : Dirs, from : Dirs \cup {None}, alias : Names \cup {None},
                 deps : Seq(Dep)]),
   cache : [Dirs -> {"new", "good", "bad"}],
   names : [Names -> Dirs \cup {None}],     \* the directory that claims a name
   links : SUBSET (Dirs \X Names \X Dirs)]  \* directory, alias, package's directory

DepsTypeOK == TypeOK /\ run \in [Builders -> Run] /\ asks \in 0..MaxAsks

Fresh(project) ==
  [phase |-> "new", project |-> project, queue |-> <<>>, todo |-> <<>>, seen |-> {},
   mfc |-> [d \in Packages |-> "unread"], reqs |-> [n \in Names |-> <<>>],
   url_names |-> [d \in Packages |-> None], available |-> {}, pending |-> {},
   diags |-> {}, left |-> {}, current |-> None, resolved |-> {}, frames |-> <<>>,
   cache |-> [d \in Dirs |-> "new"], names |-> [n \in Names |-> None], links |-> {}]

DepsInit ==
  /\ Init
  /\ run \in [Builders -> {Fresh(d) : d \in Projects}]
  /\ asks = 0

-----------------------------------------------------------------------------
IsPath(dep) == dep.path # None
PackageOf(dep) == <<dep.hash, dep.sub>>
RequestOf(dep) == [url |-> dep.url, hash |-> dep.hash, sub |-> dep.sub]
Required(b) == UNION {ToSet(run[b].reqs[n]) : n \in Names}

\* mf_get: what the first read of a package's manifest found is kept
ReadManifest(b, d) ==
  IF d \in Paths THEN "some"
  ELSE IF run[b].mfc[d] # "unread" THEN run[b].mfc[d]
  ELSE IF Present(d[1]) THEN "some" ELSE "none"
Memo(b, d) == [run[b].mfc EXCEPT ![d] = ReadManifest(b, d)]

DepsOf(b, d) == IF ReadManifest(b, d) = "some" THEN Manifest[d].deps ELSE <<>>

\* record_url_attempt, with what the request of b has come to
Attempt(b) ==
  LET r == run[b]  a == answer[b]  h == want[b].hash IN
  [r EXCEPT
     !.available = IF a.mirror_ok THEN @ \cup {h} ELSE @,
     !.diags = IF a.diag = "subdir" THEN @ \cup {<<"subdir", <<h, want[b].sub>>>>} ELSE @,
     !.pending = IF a.diag = "mirror" /\ h \notin r.available THEN @ \cup {h} ELSE @]

Set(b, r) == run' = [run EXCEPT ![b] = r] /\ UNCHANGED asks

-----------------------------------------------------------------------------
(* The walk *)

Begin(b) ==
  /\ run[b].phase = "new"
  /\ Set(b, [run[b] EXCEPT !.phase = "walk", !.queue = <<run[b].project>>])
  /\ UNCHANGED vars

Visit(b) ==
  /\ run[b].phase = "walk" /\ run[b].todo = <<>> /\ run[b].queue # <<>>
  /\ LET d == Head(run[b].queue) IN
     Set(b, IF d \in run[b].seen THEN [run[b] EXCEPT !.queue = Tail(@)]
            ELSE [run[b] EXCEPT !.queue = Tail(@), !.seen = @ \cup {d},
                                !.todo = DepsOf(b, d)])
  /\ UNCHANGED vars

WalkPath(b) ==
  /\ run[b].phase = "walk" /\ run[b].todo # <<>>
  /\ LET dep == Head(run[b].todo) IN
     /\ IsPath(dep)
     /\ Set(b, [run[b] EXCEPT !.todo = Tail(@), !.queue = Append(@, dep.path)])
  /\ UNCHANGED vars

WalkAsk(b) ==
  /\ run[b].phase = "walk" /\ run[b].todo # <<>>
  /\ ~IsPath(Head(run[b].todo))
  /\ Ask(b, RequestOf(Head(run[b].todo)))
  /\ UNCHANGED <<run, asks>>

\* a package is known by the name its manifest gives it, and by the alias when
\* there is no manifest to read
WalkAnswer(b) ==
  /\ run[b].phase = "walk"
  /\ Take(b)
  /\ LET dep == Head(run[b].todo)
         d == PackageOf(dep)
         found == answer[b].found
         name == IF found /\ ReadManifest(b, d) = "some" THEN Manifest[d].name
                 ELSE dep.alias IN
     Set(b, [Attempt(b) EXCEPT
               !.todo = Tail(@),
               !.mfc = IF found THEN Memo(b, d) ELSE @,
               !.url_names[d] = name,
               !.reqs[name] = Append(@, dep),
               !.queue = IF found THEN Append(@, d) ELSE @])

WalkOver(b) ==
  /\ run[b].phase = "walk" /\ run[b].todo = <<>> /\ run[b].queue = <<>>
  /\ Set(b, [run[b] EXCEPT !.phase = "select",
                           !.left = {n \in Names : run[b].reqs[n] # <<>>}])
  /\ UNCHANGED vars

-----------------------------------------------------------------------------
(* The selection *)

\* max_req: the first requirement at the highest version
MaxReq(rs) ==
  rs[CHOOSE i \in DOMAIN rs :
       /\ \A j \in DOMAIN rs : rs[j].ver <= rs[i].ver
       /\ \A j \in 1 .. i - 1 : rs[j].ver < rs[i].ver]

(* [mutant] the first requirement, whatever its version *)
WinnerFirst(b, n) == Head(run[b].reqs[n])

Winner(b, n) == MaxReq(run[b].reqs[n])

HashConflict(b, n) ==
  \E r \in ToSet(run[b].reqs[n]) :
    r.ver = Winner(b, n).ver /\ r.hash # Winner(b, n).hash

\* class_conflicts
Crossed(b, n) ==
  /\ <<n, Winner(b, n).ver>> \notin Misnamed
  /\ \E r \in ToSet(run[b].reqs[n]) : Class[r.ver] # Class[Winner(b, n).ver]

Selecting(b, n) ==
  run[b].phase = "select" /\ run[b].current = None /\ n \in run[b].left

Refuse(b, n) ==
  /\ Selecting(b, n)
  /\ HashConflict(b, n) \/ Crossed(b, n)
  /\ Set(b, [run[b] EXCEPT
               !.left = @ \ {n},
               !.diags = @ \cup {<<IF HashConflict(b, n) THEN "hashes" ELSE "classes", n>>}])
  /\ UNCHANGED vars

SelectAsk(b, n) ==
  /\ Selecting(b, n)
  /\ ~HashConflict(b, n) /\ ~Crossed(b, n)
  /\ Ask(b, RequestOf(Winner(b, n)))
  /\ Set(b, [run[b] EXCEPT !.current = n])

\* why the winner that was found is not taken after all
Objections(b, n) ==
  LET d == PackageOf(Winner(b, n))  v == Winner(b, n).ver IN
  IF <<n, v>> \in Misnamed THEN {<<"major", n>>}
  ELSE IF ReadManifest(b, d) = "some" /\ Manifest[d].ver \notin {None, v}
  THEN {<<"version", n>>} ELSE {}

SelectAnswer(b) ==
  /\ run[b].phase = "select"
  /\ Take(b)
  /\ LET n == run[b].current
         d == PackageOf(Winner(b, n))
         found == answer[b].found
         objections == IF found THEN Objections(b, n) ELSE {} IN
     Set(b, [Attempt(b) EXCEPT
               !.left = @ \ {n}, !.current = None,
               !.mfc = IF found THEN Memo(b, d) ELSE @,
               !.diags = @ \cup objections,
               !.resolved = IF found /\ objections = {} THEN @ \cup {n} ELSE @])

-----------------------------------------------------------------------------
(* The links: resolve_src_deps, one dependency or one return at a time.  A
   frame is a call of it that has not returned: the directory, the dependencies
   it has left, and where the link to the directory belongs. *)

Target(b, dep) ==
  IF IsPath(dep) THEN dep.path
  ELSE LET given == run[b].url_names[PackageOf(dep)]
           n == IF given = None THEN dep.alias ELSE given
       IN IF n \in run[b].resolved THEN PackageOf(Winner(b, n)) ELSE None

Frame(b, d, from, alias) ==
  [dir |-> d, from |-> from, alias |-> alias, deps |-> DepsOf(b, d)]

\* the project's own name is taken: root_claim
LinkBegin(b) ==
  /\ run[b].phase = "select" /\ run[b].left = {} /\ run[b].current = None
  /\ LET d == run[b].project IN
     Set(b, [run[b] EXCEPT
               !.phase = "link",
               !.diags = @ \cup {<<"mirror", h>> : h \in run[b].pending \ run[b].available},
               !.names[Manifest[d].name] = d,
               !.frames = <<Frame(b, d, None, None)>>])
  /\ UNCHANGED vars

Top(b) == Head(run[b].frames)
Visiting(b) == {run[b].frames[i].dir : i \in 1 .. Len(run[b].frames) - 1}
NextDep(b) == Head(Top(b).deps)
Onward(b) == Target(b, NextDep(b))
Linking(b) == run[b].phase = "link" /\ Top(b).deps # <<>>
\* the run with that dependency behind it
Passed(b) == [run[b] EXCEPT !.frames = <<[Top(b) EXCEPT !.deps = Tail(@)]>> \o Tail(@)]

Skip(b) ==
  /\ Linking(b)
  /\ Onward(b) # None => run[b].cache[Onward(b)] = "bad"
  /\ Set(b, Passed(b))
  /\ UNCHANGED vars

LinkAgain(b) ==
  /\ Linking(b)
  /\ Onward(b) # None /\ run[b].cache[Onward(b)] = "good"
  /\ Set(b, [Passed(b) EXCEPT !.links = @ \cup {<<Top(b).dir, NextDep(b).alias, Onward(b)>>}])
  /\ UNCHANGED vars

LinkNew(b) == Linking(b) /\ Onward(b) # None /\ run[b].cache[Onward(b)] = "new"
Claimed(b, d) == run[b].names[Manifest[d].name] \notin {None, d}
SrcThere(d) == d \in Packages => Present(d[1])

\* a cycle, or another directory of that name, is complained of where it is met
LinkRefuse(b) ==
  /\ LinkNew(b)
  /\ LET d == Onward(b)  cycle == d \in Visiting(b) IN
     /\ ~cycle => ReadManifest(b, d) = "some" /\ Claimed(b, d)
     /\ Set(b, [Passed(b) EXCEPT !.diags = @ \cup
                  {IF cycle THEN <<"cycle", NextDep(b).alias>>
                            ELSE <<"copies", Manifest[d].name>>}])
  /\ UNCHANGED vars

\* no manifest, or no sources, makes the directory a bad one
LinkBad(b) ==
  /\ LinkNew(b)
  /\ LET d == Onward(b)  some == ReadManifest(b, d) = "some" IN
     /\ d \notin Visiting(b)
     /\ some => ~Claimed(b, d) /\ ~SrcThere(d)
     /\ Set(b, [Passed(b) EXCEPT
                  !.cache[d] = "bad",
                  !.diags = @ \cup {<<IF some THEN "src" ELSE "manifest", d>>}])
  /\ UNCHANGED vars

(* [mutant] the name of a package is left to whoever takes it next *)
LinkInUnclaimed(b) ==
  /\ LinkNew(b)
  /\ LET d == Onward(b) IN
     /\ d \notin Visiting(b) /\ ReadManifest(b, d) = "some" /\ ~Claimed(b, d) /\ SrcThere(d)
     /\ Set(b, [Passed(b) EXCEPT
                  !.frames = <<Frame(b, d, Top(b).dir, NextDep(b).alias)>> \o @])
  /\ UNCHANGED vars

\* the name is claimed before the package's own dependencies are linked
LinkIn(b) ==
  /\ LinkNew(b)
  /\ LET d == Onward(b) IN
     /\ d \notin Visiting(b) /\ ReadManifest(b, d) = "some" /\ ~Claimed(b, d) /\ SrcThere(d)
     /\ Set(b, [Passed(b) EXCEPT
                  !.names[Manifest[d].name] = d,
                  !.frames = <<Frame(b, d, Top(b).dir, NextDep(b).alias)>> \o @])
  /\ UNCHANGED vars

LinkOut(b) ==
  /\ run[b].phase = "link" /\ Top(b).deps = <<>>
  /\ LET f == Top(b) IN
     Set(b, IF f.from = None THEN [run[b] EXCEPT !.phase = "done"]
            ELSE [run[b] EXCEPT !.frames = Tail(@),
                                !.cache[f.dir] = "good",
                                !.links = @ \cup {<<f.from, f.alias, f.dir>>}])
  /\ UNCHANGED vars

-----------------------------------------------------------------------------
\* a builder that is killed resolves its project anew
Restart(b) == Kill(b) /\ Set(b, Fresh(run[b].project))

Guest(p) ==
  \/ /\ asks < MaxAsks /\ asks' = asks + 1 /\ UNCHANGED run
     /\ \E r \in Guests : Ask(p, r) \/ Add(p, r.url)
  \/ (Take(p) \/ Exit(p) \/ Kill(p)) /\ UNCHANGED <<run, asks>>

Builder(b) ==
  \/ Begin(b) \/ Visit(b) \/ WalkPath(b) \/ WalkAsk(b) \/ WalkAnswer(b) \/ WalkOver(b)
  \/ \E n \in Names : Refuse(b, n) \/ SelectAsk(b, n)
  \/ SelectAnswer(b) \/ LinkBegin(b) \/ Skip(b) \/ LinkAgain(b) \/ LinkRefuse(b)
  \/ LinkBad(b) \/ LinkIn(b) \/ LinkOut(b) \/ Restart(b)

Next ==
  \/ \E b \in Builders : Builder(b)
  \/ \E p \in Procs \ Builders : Guest(p)
  \/ (World \/ \E p \in Procs : CacheStep(p)) /\ UNCHANGED <<run, asks>>

Spec == DepsInit /\ [][Next]_allVars

-----------------------------------------------------------------------------
Done(b) == run[b].phase = "done"
Quietly(b) == Done(b) /\ run[b].diags = {}

(* One package name is one directory in a program, the project included,
   wherever in the graph the two meet, and also in a program that does not
   resolve: two copies would collapse into one module path. *)
OneCopyPerName ==
  \A b \in Builders :
    LET linked == {l[3] : l \in run[b].links} \cup {run[b].project} IN
    \A d, e \in linked : Manifest[d].name = Manifest[e].name => d = e

\* a link, and the dependency it is for
DepOf(l) ==
  LET deps == Manifest[l[1]].deps IN
  deps[CHOOSE i \in DOMAIN deps : deps[i].alias = l[2]]

\* a request for r failed; the package d was read, and no request for it failed
Failed(b, r) == <<r.hash, r.url>> \in mirrors[b] \/ <<r.hash, r.sub>> \in subdirs[b]
Reached(b, d) ==
  /\ run[b].mfc[d] = "some"
  /\ \A r \in Required(b) : PackageOf(r) = d => ~Failed(b, r)

(* What a dependency is linked to satisfies it, although the version was picked
   over the whole graph, by the name the package gives itself, and may be
   another consumer's: the package asked for by content, at the version asked
   for or a later one of its class.  (Of a package one of whose mirrors fails
   the code does not keep this: AliasIsLocal.) *)
Satisfies(b, d, dep) ==
  /\ Manifest[d].name = Manifest[PackageOf(dep)].name
  /\ \E r \in Required(b) :
       PackageOf(r) = d /\ r.ver >= dep.ver /\ Class[r.ver] = Class[dep.ver]

RequirementsMet ==
  \A b \in Builders : \A l \in run[b].links :
    ~IsPath(DepOf(l)) /\ Reached(b, PackageOf(DepOf(l))) => Satisfies(b, l[3], DepOf(l))

(* "The name is the package's own manifest name, not the consumer's alias",
   says select_url_deps of what a version is selected by.  Not so: a
   dependency whose own request succeeded is linked to another package, and
   nothing is said. *)
AliasIsLocal ==
  \A b \in Builders : Quietly(b) =>
    \A l \in run[b].links :
      ~IsPath(DepOf(l)) /\ ~Failed(b, DepOf(l)) => Satisfies(b, l[3], DepOf(l))

(* "selection already errored", says resolve_src_deps of a dependency it leaves
   out: then there is a diagnostic.  Not so. *)
NothingLostSilently ==
  \A b \in Builders : Quietly(b) =>
    \A d \in {run[b].project} \cup {l[3] : l \in run[b].links} :
      \A i \in DOMAIN Manifest[d].deps :
        \E l \in run[b].links : l[1] = d /\ l[2] = Manifest[d].deps[i].alias
=============================================================================
