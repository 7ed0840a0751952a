--------------------------- MODULE LspServerProofs ---------------------------
(***************************************************************************)
(* Proofs about the language server's read loop with any client            *)
(* (LspServerClient), for any documents, messages and number of them.      *)
(*                                                                         *)
(* A message may analyse two texts or none and write any number of frames. *)
(* The argument is therefore made about worlds: what the documents are and *)
(* what has been written when one call has returned and the next has not   *)
(* begun.  A world that is fit stays so under each of these calls, and the *)
(* state between two messages is such a world.                             *)
(***************************************************************************)
EXTENDS LspServerClient, FiniteSetTheorems, TLAPS

-----------------------------------------------------------------------------
(* Sequences *)

LEMMA Concat ==
  ASSUME NEW S, NEW s \in Seq(S), NEW t \in Seq(S)
  PROVE  /\ s \o t \in Seq(S)
         /\ Len(s) \in Nat /\ Len(s \o t) = Len(s) + Len(t)
         /\ DOMAIN s = 1..Len(s) /\ DOMAIN (s \o t) = 1..Len(s \o t)
         /\ \A i \in DOMAIN s : i \in DOMAIN (s \o t) /\ (s \o t)[i] = s[i]
         /\ \A i \in DOMAIN (s \o t) :
              \/ i \in DOMAIN s /\ (s \o t)[i] = s[i]
              \/ /\ i > Len(s) /\ i - Len(s) \in DOMAIN t
                 /\ (s \o t)[i] = t[i - Len(s)]
         /\ \A i \in DOMAIN t :
              Len(s) + i \in DOMAIN (s \o t) /\ (s \o t)[Len(s) + i] = t[i]
OBVIOUS

LEMMA ConcatAssociates ==
  ASSUME NEW S, NEW s \in Seq(S), NEW t \in Seq(S), NEW u \in Seq(S)
  PROVE  (s \o t) \o u = s \o (t \o u)
OBVIOUS

LEMMA SetToSeqFacts ==
  ASSUME NEW S, IsFiniteSet(S)
  PROVE  /\ SetToSeq(S) \in Seq(S)
         /\ \A x \in S : \E i \in DOMAIN SetToSeq(S) : SetToSeq(S)[i] = x
<1> DEFINE n == Cardinality(S)
<1>1. n \in Nat /\ ExistsBijection(1..n, S)
  BY FS_CardinalityType
<1>2. PICK f \in Bijection(1..n, S) : TRUE
  BY <1>1 DEF ExistsBijection
<1>3. f \in [1..n -> S] /\ IsInjective(f)
  BY <1>2 DEF Bijection, Injection, IsInjective
<1>4. f \in Injection(1..n, S) /\ Injection(1..n, S) = {g \in [1..n -> S] : IsInjective(g)}
  BY <1>2 DEF Bijection, Injection
<1>5. SetToSeq(S) \in Injection(1..n, S)
  BY <1>4 DEF SetToSeq
<1>6. IsFiniteSet(1..n) /\ Cardinality(1..n) = n
  BY <1>1, FS_Interval
<1>7. SetToSeq(S) \in Surjection(1..n, S)
  BY <1>5, <1>6, FS_Injection
<1>8. SetToSeq(S) \in [1..n -> S] /\ \A x \in S : \E i \in 1..n : SetToSeq(S)[i] = x
  BY <1>7 DEF Surjection
<1> QED
  BY <1>1, <1>8

-----------------------------------------------------------------------------
(* Worlds *)

Files == Uris \cup {Package, Manifest}
PublishFrame == [k : {"publish"}, uri : Files, ver : Nat, bad : BOOLEAN]
OutFrame == PublishFrame
              \cup [k : {"result"}, id : Ids, uri : Uris, about : Nat, of : Nat]
              \cup [k : {"error", "initialized", "bye"}, id : Ids \cup {NoId}]

(* A project has a workspace when it has members, and one that could not be
   set up shows that at the manifest and nothing else. *)
Slot(w) ==
  /\ Members(w.docs) = {} => ~w.ready /\ w.problems = {}
  /\ Members(w.docs) # {} /\ ~w.ready => w.problems = {Manifest}

Typed(w) ==
  w \in [docs : [Uris -> Nat], ready : BOOLEAN, problems : SUBSET {Package, Manifest},
         out : Seq(OutFrame)]

IsWorld(w) == Typed(w) /\ Slot(w)

(* n is a world that follows w, after the publishes s: of the versions that n
   has, and of the files nobody has open if their problems changed. *)
Says(n, s) ==
  \A i \in DOMAIN s :
    /\ s[i].ver = IF s[i].uri \in Uris THEN n.docs[s[i].uri] ELSE NoVersion
    /\ s[i].bad = (s[i].uri \in n.problems)

Published(w, n) ==
  /\ IsWorld(n)
  /\ \E s \in Seq(PublishFrame) :
       /\ n.out = w.out \o s
       /\ Says(n, s)
       /\ \A u \in {Package, Manifest} :
            (\E i \in DOMAIN s : s[i].uri = u) \/ (u \in n.problems <=> u \in w.problems)

LEMMA PublishUrisFacts ==
  ASSUME NEW w, IsWorld(w), NEW m, IsWorld(m), m.out = w.out,
         NEW uris \in SUBSET Files,
         \A u \in {Package, Manifest} :
           u \in uris \/ (u \in m.problems <=> u \in w.problems)
  PROVE  /\ Published(w, PublishUris(m, uris))
         /\ PublishUris(m, uris).docs = m.docs
<1> DEFINE frames == {Publish(m, uri) : uri \in uris}
           s == SetToSeq(frames)
           n == PublishUris(m, uris)
<1>1. IsFiniteSet(uris)
  <2>1. IsFiniteSet(Uris \cup {Package} \cup {Manifest})
    BY UrisAssumption, FS_AddElement
  <2>2. uris \subseteq Uris \cup {Package} \cup {Manifest}
    BY DEF Files
  <2> QED
    BY <2>1, <2>2, FS_Subset
<1>2. IsFiniteSet(frames)
  <2> DEFINE f == [uri \in uris |-> Publish(m, uri)]
  <2>1. f \in Surjection(uris, frames)
    BY DEF Surjection
  <2> QED
    BY <1>1, <2>1, FS_Surjection
<1>3. \A uri \in uris : /\ Publish(m, uri) \in PublishFrame
                        /\ Publish(m, uri).uri = uri
                        /\ Publish(m, uri).ver = IF uri \in Uris THEN m.docs[uri] ELSE NoVersion
                        /\ Publish(m, uri).bad = (uri \in m.problems)
  BY DEF Publish, PublishFrame, IsWorld, Typed, NoVersion
<1>4. s \in Seq(frames) /\ \A x \in frames : \E i \in DOMAIN s : s[i] = x
  BY <1>2, SetToSeqFacts
<1>5. n = [m EXCEPT !.out = m.out \o s]
  BY DEF PublishUris
<1> HIDE DEF s
<1>6. s \in Seq(PublishFrame)
  BY <1>3, <1>4
<1>7. \A i \in DOMAIN s : \E uri \in uris : s[i] = Publish(m, uri)
  BY <1>4
<1> HIDE DEF n
<1>8. /\ n.docs = m.docs /\ n.ready = m.ready /\ n.problems = m.problems
      /\ n.out = w.out \o s
  BY <1>5 DEF IsWorld, Typed
<1>9. IsWorld(n)
  <2>1. m.out \o s \in Seq(OutFrame)
    BY <1>6 DEF IsWorld, Typed, OutFrame
  <2>2. Typed(n)
    BY <1>5, <2>1 DEF IsWorld, Typed
  <2> QED
    BY <1>8, <2>2 DEF IsWorld, Slot
<1>10. Says(n, s)
  BY <1>3, <1>7, <1>8 DEF Says
<1>11. \A u \in {Package, Manifest} :
         (\E i \in DOMAIN s : s[i].uri = u) \/ (u \in n.problems <=> u \in w.problems)
  <2>1. \A u \in uris : Publish(m, u) \in frames
    OBVIOUS
  <2>2. \A u \in uris : \E i \in DOMAIN s : s[i] = Publish(m, u)
    BY <1>4, <2>1
  <2>3. \A u \in uris : \E i \in DOMAIN s : s[i].uri = u
    BY <1>3, <2>2
  <2> QED
    BY <1>8, <2>3
<1>12. Published(w, n)
  BY <1>6, <1>8, <1>9, <1>10, <1>11 DEF Published
<1> QED
  BY <1>8, <1>12 DEF n

LEMMA RebuiltFacts ==
  ASSUME NEW w, Typed(w), Members(w.docs) # {}, NEW n \in Rebuilt(w)
  PROVE  IsWorld(n) /\ n.docs = w.docs /\ n.out = w.out
<1>1. CASE w.ready
  <2>1. PICK found \in SUBSET {Package} :
          n = [w EXCEPT !.problems = (w.problems \cap {Manifest}) \cup found]
    BY <1>1 DEF Rebuilt
  <2> QED
    BY <1>1, <2>1 DEF IsWorld, Typed, Slot
<1>2. CASE ~w.ready
  <2>1. n = [w EXCEPT !.problems = {Manifest}]
    BY <1>2 DEF Rebuilt
  <2> QED
    BY <1>2, <2>1 DEF IsWorld, Typed, Slot
<1> QED
  BY <1>1, <1>2

LEMMA ActivatedFacts ==
  ASSUME NEW w, Typed(w), Members(w.docs) # {}, NEW n \in Activated(w)
  PROVE  IsWorld(n) /\ n.docs = w.docs /\ n.out = w.out
<1>1. PICK works \in BOOLEAN : n \in Rebuilt([w EXCEPT !.ready = works, !.problems = {}])
  BY DEF Activated
<1> DEFINE v == [w EXCEPT !.ready = works, !.problems = {}]
<1>2. Typed(v) /\ v.docs = w.docs /\ v.out = w.out
  BY DEF Typed
<1> HIDE DEF v
<1>3. n \in Rebuilt(v)
  BY <1>1 DEF v
<1> QED
  BY <1>2, <1>3, RebuiltFacts

LEMMA InstallFacts ==
  ASSUME NEW w, IsWorld(w), NEW m, IsWorld(m), m.out = w.out
  PROVE  Published(w, Install(w, m)) /\ Install(w, m).docs = m.docs
<1>1. SlotUris(w) \cup SlotUris(m) \in SUBSET Files
  BY UrisAssumption DEF SlotUris, Members, Files, IsWorld, Typed
<1>2. \A u \in {Package, Manifest} :
        u \in SlotUris(w) \cup SlotUris(m) \/ (u \in m.problems <=> u \in w.problems)
  BY DEF SlotUris
<1> QED
  BY <1>1, <1>2, PublishUrisFacts DEF Install

LEMMA AnalysedFacts ==
  ASSUME NEW w, IsWorld(w), NEW uri \in Uris, NEW ver \in Nat \ {0},
         NEW n \in Analysed(w, [uri |-> uri, ver |-> ver])
  PROVE  Published(w, n) /\ n.docs = [w.docs EXCEPT ![uri] = ver]
<1> DEFINE v == [w EXCEPT !.docs[uri] = ver]
<1>1. /\ Typed(v) /\ v.docs = [w.docs EXCEPT ![uri] = ver] /\ v.out = w.out
      /\ v.ready = w.ready /\ v.problems = w.problems
  BY DEF IsWorld, Typed
<1>2. CASE uri \in Project
  <2>1. Members(v.docs) # {}
    BY <1>1, <1>2 DEF Members, NoVersion, IsWorld, Typed
  <2>2. PICK m : m \in Rebuilt(v) \cup Activated(v) /\ n = Install(w, m)
    BY <1>2 DEF Analysed
  <2> HIDE DEF v
  <2>3. IsWorld(m) /\ m.docs = v.docs /\ m.out = w.out
    BY <1>1, <2>1, <2>2, RebuiltFacts, ActivatedFacts
  <2> QED
    BY <1>1, <2>2, <2>3, InstallFacts
<1>3. CASE uri \notin Project
  <2>1. n = PublishUris(v, {uri})
    BY <1>3 DEF Analysed
  <2>2. IsWorld(v)
    <3>1. Members(v.docs) = Members(w.docs)
      BY <1>1, <1>3, UrisAssumption DEF Members, IsWorld, Typed
    <3> HIDE DEF v
    <3> QED
      BY <1>1, <3>1 DEF IsWorld, Slot
  <2>3. {uri} \in SUBSET Files
    BY DEF Files
  <2> HIDE DEF v
  <2> QED
    BY <1>1, <2>1, <2>2, <2>3, PublishUrisFacts
<1> QED
  BY <1>2, <1>3

LEMMA WithoutFacts ==
  ASSUME NEW w, IsWorld(w), NEW uri \in Members(w.docs), NEW n \in Without(w, uri)
  PROVE  IsWorld(n) /\ n.docs = [w.docs EXCEPT ![uri] = NoVersion] /\ n.out = w.out
<1> DEFINE v == [w EXCEPT !.docs[uri] = NoVersion]
<1>0. uri \in Uris
  BY UrisAssumption DEF Members
<1>1. /\ Typed(v) /\ v.docs = [w.docs EXCEPT ![uri] = NoVersion] /\ v.out = w.out
  BY <1>0 DEF IsWorld, Typed, NoVersion
<1>2. CASE Members(v.docs) = {}
  <2>1. n = [v EXCEPT !.ready = FALSE, !.problems = {}]
    BY <1>2 DEF Without
  <2> HIDE DEF v
  <2> QED
    BY <1>1, <1>2, <2>1 DEF IsWorld, Typed, Slot
<1>3. CASE Members(v.docs) # {}
  <2>1. n \in Rebuilt(v)
    BY <1>3 DEF Without
  <2> HIDE DEF v
  <2> QED
    BY <1>1, <1>3, <2>1, RebuiltFacts
<1> QED
  BY <1>2, <1>3

LEMMA CloseFacts ==
  ASSUME NEW w, IsWorld(w), NEW uri \in Uris, NEW n \in CloseDoc(w, uri)
  PROVE  Published(w, n) /\ n.docs = [w.docs EXCEPT ![uri] = NoVersion]
<1>1. CASE uri \in Members(w.docs)
  <2>1. PICK m \in Without(w, uri) :
          n = PublishUris(m, {uri} \cup SlotUris(w) \cup SlotUris(m))
    BY <1>1 DEF CloseDoc
  <2>2. IsWorld(m) /\ m.docs = [w.docs EXCEPT ![uri] = NoVersion] /\ m.out = w.out
    BY <1>1, WithoutFacts
  <2> DEFINE uris == {uri} \cup SlotUris(w) \cup SlotUris(m)
  <2>3. uris \in SUBSET Files
    BY <2>2, UrisAssumption DEF SlotUris, Members, Files, IsWorld, Typed
  <2>4. \A u \in {Package, Manifest} : u \in uris \/ (u \in m.problems <=> u \in w.problems)
    BY DEF SlotUris
  <2> HIDE DEF uris
  <2>5. n = PublishUris(m, uris)
    BY <2>1 DEF uris
  <2> QED
    BY <2>2, <2>3, <2>4, <2>5, PublishUrisFacts
<1>2. CASE uri \notin Members(w.docs)
  <2> DEFINE v == [w EXCEPT !.docs[uri] = NoVersion]
  <2>1. /\ Typed(v) /\ v.docs = [w.docs EXCEPT ![uri] = NoVersion] /\ v.out = w.out
        /\ v.ready = w.ready /\ v.problems = w.problems
    BY DEF IsWorld, Typed, NoVersion
  <2>2. Members(v.docs) = Members(w.docs)
    BY <1>2, <2>1, UrisAssumption DEF Members, IsWorld, Typed
  <2>3. n = PublishUris(v, {uri}) /\ {uri} \in SUBSET Files
    BY <1>2 DEF CloseDoc, Files
  <2> HIDE DEF v
  <2>4. IsWorld(v)
    BY <2>1, <2>2 DEF IsWorld, Slot
  <2> QED
    BY <2>1, <2>3, <2>4, PublishUrisFacts
<1> QED
  BY <1>1, <1>2

(* Published, of a call that may do nothing *)
Left(w, n) == n = w \/ Published(w, n)

LEMMA RefreshFacts ==
  ASSUME NEW w, IsWorld(w), NEW n \in Refresh(w)
  PROVE  Left(w, n) /\ n.docs = w.docs
<1>1. CASE Members(w.docs) = {}
  BY <1>1 DEF Refresh, Left
<1>2. CASE Members(w.docs) # {}
  <2> DEFINE v == [w EXCEPT !.problems = {Manifest}]
  <2>1. Typed(v) /\ v.docs = w.docs /\ v.out = w.out /\ v.ready = w.ready /\ v.problems = {Manifest}
    BY DEF IsWorld, Typed
  <2>2. PICK m : /\ n = Install(w, m)
                 /\ m \in Activated(w) \cup (IF w.ready THEN Rebuilt(v) ELSE {v})
    BY <1>2 DEF Refresh
  <2> HIDE DEF v
  <2>3. IsWorld(m) /\ m.docs = w.docs /\ m.out = w.out
    <3>1. CASE m \in Activated(w)
      BY <1>2, <3>1, ActivatedFacts DEF IsWorld
    <3>2. CASE w.ready /\ m \in Rebuilt(v)
      BY <1>2, <2>1, <3>2, RebuiltFacts
    <3>3. CASE ~w.ready /\ m = v
      BY <1>2, <2>1, <3>3 DEF IsWorld, Slot
    <3> QED
      BY <2>2, <3>1, <3>2, <3>3
  <2> QED
    BY <2>2, <2>3, InstallFacts DEF Left
<1> QED
  BY <1>1, <1>2

LEMMA RetryFacts ==
  ASSUME NEW w, IsWorld(w), NEW uri, NEW n \in Retry(w, uri)
  PROVE  Left(w, n) /\ n.docs = w.docs
<1>1. CASE uri \in Members(w.docs) /\ ~w.ready
  <2>1. PICK m \in Activated(w) : n = Install(w, m)
    BY <1>1 DEF Retry
  <2>2. IsWorld(m) /\ m.docs = w.docs /\ m.out = w.out
    BY <1>1, ActivatedFacts DEF IsWorld
  <2> QED
    BY <2>1, <2>2, InstallFacts DEF Left
<1>2. CASE ~(uri \in Members(w.docs) /\ ~w.ready)
  BY <1>2 DEF Retry, Left
<1> QED
  BY <1>1, <1>2

-----------------------------------------------------------------------------
(* What has been written *)

Quiet(o) ==
  \A i \in DOMAIN o :
    o[i].k \in {"publish", "result"} =>
      /\ \E j \in 1 .. i - 1 : o[j].k = "initialized"
      /\ \A j \in 1 .. i - 1 : o[j].k # "bye"

Advance(o) ==
  \A i, j \in DOMAIN o :
    (/\ i < j
     /\ o[i].k = "publish" /\ o[j].k = "publish" /\ o[i].uri = o[j].uri
     /\ o[i].ver # NoVersion /\ o[j].ver # NoVersion)
       => o[i].ver <= o[j].ver

Timely(o) ==
  \A i \in DOMAIN o : Orderly /\ o[i].k = "result" => o[i].of = o[i].about

Told(o) == o \in Seq(OutFrame) /\ Quiet(o) /\ Advance(o) /\ Timely(o)

(* The session has begun and is not over. *)
Begun(o) ==
  (\E i \in DOMAIN o : o[i].k = "initialized") /\ \A i \in DOMAIN o : o[i].k # "bye"

(* Nothing newer was published of an open document than the text it has. *)
Below(o, d) ==
  \A i \in DOMAIN o :
    o[i].k = "publish" /\ o[i].uri \in Uris /\ o[i].ver # NoVersion
      /\ d[o[i].uri] # NoVersion => o[i].ver <= d[o[i].uri]

(* What was last published of a file nobody has open is what is known of it. *)
Shown(o, p) ==
  \A i \in DOMAIN o :
    (/\ o[i].k = "publish" /\ o[i].uri \in {Package, Manifest}
     /\ \A j \in i + 1 .. Len(o) : o[j].k = "publish" => o[j].uri # o[i].uri)
      => o[i].bad = (o[i].uri \in p)

(* None of it is newer than what is still to come. *)
Behind(o, d, horizon) ==
  \A h \in horizon :
    /\ \A u \in Uris : d[u] <= h
    /\ \A i \in DOMAIN o : o[i].k = "publish" => o[i].ver <= h

Fit(o, d, p, horizon) ==
  Told(o) /\ Begun(o) /\ Below(o, d) /\ Shown(o, p) /\ Behind(o, d, horizon)

LEMMA OutFields ==
  ASSUME NEW f \in OutFrame
  PROVE  /\ f.k \in {"publish", "result", "error", "initialized", "bye"}
         /\ f.k = "publish" => f.ver \in Nat /\ f.uri \in Files
BY DEF OutFrame, PublishFrame

(* More publishes, of what the next world has *)
LEMMA FitPublish ==
  ASSUME NEW o, NEW d0, NEW p0, NEW horizon \in SUBSET Nat, Fit(o, d0, p0, horizon),
         NEW n, IsWorld(n), NEW s \in Seq(PublishFrame), Says(n, s),
         Below(o, n.docs), \A h \in horizon, u \in Uris : n.docs[u] <= h,
         \A u \in {Package, Manifest} :
           (\E i \in DOMAIN s : s[i].uri = u) \/ (u \in n.problems <=> u \in p0)
  PROVE  Fit(o \o s, n.docs, n.problems, horizon)
<1> DEFINE r == o \o s
           d == n.docs
           p == n.problems
<1>1. o \in Seq(OutFrame) /\ s \in Seq(OutFrame)
  BY DEF Fit, Told, OutFrame
<1>2. /\ r \in Seq(OutFrame)
      /\ Len(o) \in Nat /\ Len(r) = Len(o) + Len(s)
      /\ DOMAIN o = 1..Len(o) /\ DOMAIN r = 1..Len(r)
      /\ \A i \in DOMAIN o : i \in DOMAIN r /\ r[i] = o[i]
      /\ \A i \in DOMAIN r :
           \/ i \in DOMAIN o /\ r[i] = o[i]
           \/ i > Len(o) /\ i - Len(o) \in DOMAIN s /\ r[i] = s[i - Len(o)]
      /\ \A i \in DOMAIN s : Len(o) + i \in DOMAIN r /\ r[Len(o) + i] = s[i]
  BY <1>1, Concat
<1>3. \A i \in DOMAIN s : /\ s[i] \in PublishFrame /\ s[i].k = "publish"
                          /\ s[i].uri \in Files /\ s[i].ver \in Nat
  <2>1. \A f \in PublishFrame : f.k = "publish" /\ f.uri \in Files /\ f.ver \in Nat
    BY DEF PublishFrame
  <2>2. \A i \in DOMAIN s : s[i] \in PublishFrame
    OBVIOUS
  <2> QED
    BY <2>1, <2>2
<1>4. d \in [Uris -> Nat] /\ DOMAIN s = 1..Len(s) /\ Len(s) \in Nat
  BY DEF IsWorld, Typed
<1>5. \A i \in DOMAIN s : s[i].ver = IF s[i].uri \in Uris THEN d[s[i].uri] ELSE NoVersion
  BY DEF Says
<1>6. \A i \in DOMAIN s : s[i].bad = (s[i].uri \in p)
  BY DEF Says
<1>7. \A i \in DOMAIN o : o[i].k = "publish" => o[i].ver \in Nat
  BY <1>1, OutFields
<1> HIDE DEF r, d, p
<1>8. Begun(r)
  BY <1>2, <1>3 DEF Fit, Begun
<1>9. Quiet(r)
  <2> SUFFICES ASSUME NEW i \in DOMAIN r, r[i].k \in {"publish", "result"}
               PROVE  /\ \E j \in 1 .. i - 1 : r[j].k = "initialized"
                      /\ \A j \in 1 .. i - 1 : r[j].k # "bye"
    BY DEF Quiet
  <2>1. \A j \in DOMAIN r : r[j].k # "bye"
    BY <1>8 DEF Begun
  <2>2. CASE i \in DOMAIN o
    <3>1. PICK j \in 1 .. i - 1 : o[j].k = "initialized"
      BY <1>2, <2>2 DEF Fit, Told, Quiet
    <3>2. j \in DOMAIN o
      BY <1>2, <2>2
    <3>3. r[j].k = "initialized"
      BY <1>2, <3>1, <3>2
    <3>4. \A m \in 1 .. i - 1 : m \in DOMAIN r
      BY <1>2
    <3> QED
      BY <2>1, <3>1, <3>3, <3>4
  <2>3. CASE i > Len(o)
    <3>1. PICK j \in DOMAIN o : o[j].k = "initialized"
      BY DEF Fit, Begun
    <3>2. j \in 1 .. i - 1 /\ r[j].k = "initialized"
      BY <1>2, <2>3, <3>1
    <3>3. \A m \in 1 .. i - 1 : m \in DOMAIN r
      BY <1>2
    <3> QED
      BY <2>1, <3>2, <3>3
  <2> QED
    BY <1>2, <2>2, <2>3
<1>10. Advance(r)
  <2> SUFFICES ASSUME NEW i \in DOMAIN r, NEW j \in DOMAIN r, i < j,
                      r[i].k = "publish", r[j].k = "publish", r[i].uri = r[j].uri,
                      r[i].ver # NoVersion, r[j].ver # NoVersion
               PROVE  r[i].ver <= r[j].ver
    BY DEF Advance
  <2>1. CASE j \in DOMAIN o
    <3>1. i \in DOMAIN o /\ r[i] = o[i] /\ r[j] = o[j]
      BY <1>2, <2>1
    <3> QED
      BY <2>1, <3>1 DEF Fit, Told, Advance
  <2>2. CASE j > Len(o)
    <3>1. j - Len(o) \in DOMAIN s /\ r[j] = s[j - Len(o)]
      BY <1>2, <2>2
    <3>2. r[j].uri \in Uris /\ r[j].ver = d[r[j].uri]
      BY <1>5, <3>1
    <3>3. CASE i \in DOMAIN o
      BY <1>2, <3>2, <3>3 DEF Below, d
    <3>4. CASE i > Len(o)
      <4>1. i - Len(o) \in DOMAIN s /\ r[i] = s[i - Len(o)]
        BY <1>2, <3>4
      <4>2. r[i].ver = d[r[j].uri]
        BY <1>5, <3>2, <4>1
      <4> QED
        BY <1>4, <3>2, <4>2
    <3> QED
      BY <1>2, <3>3, <3>4
  <2> QED
    BY <1>2, <2>1, <2>2
<1>11. Timely(r)
  BY <1>2, <1>3 DEF Fit, Told, Timely
<1>12. Below(r, d)
  <2> SUFFICES ASSUME NEW i \in DOMAIN r, r[i].k = "publish", r[i].uri \in Uris,
                      r[i].ver # NoVersion, d[r[i].uri] # NoVersion
               PROVE  r[i].ver <= d[r[i].uri]
    BY DEF Below
  <2>1. CASE i \in DOMAIN o
    BY <1>2, <2>1 DEF Below, d
  <2>2. CASE i > Len(o)
    <3>1. i - Len(o) \in DOMAIN s /\ r[i] = s[i - Len(o)]
      BY <1>2, <2>2
    <3>2. r[i].ver = d[r[i].uri]
      BY <1>5, <3>1
    <3> QED
      BY <1>4, <3>2
  <2> QED
    BY <1>2, <2>1, <2>2
<1>13. Behind(r, d, horizon)
  <2> SUFFICES ASSUME NEW h \in horizon
               PROVE  /\ \A u \in Uris : d[u] <= h
                      /\ \A i \in DOMAIN r : r[i].k = "publish" => r[i].ver <= h
    BY DEF Behind
  <2>1. \A u \in Uris : d[u] <= h
    BY DEF d
  <2>2. \A i \in DOMAIN s : s[i].ver <= h
    BY <1>5, <2>1 DEF NoVersion
  <2>3. \A i \in DOMAIN o : o[i].k = "publish" => o[i].ver <= h
    BY DEF Fit, Behind
  <2> QED
    BY <1>2, <2>1, <2>2, <2>3
<1>14. Shown(r, p)
  <2> SUFFICES ASSUME NEW i \in DOMAIN r, r[i].k = "publish", r[i].uri \in {Package, Manifest},
                      \A j \in i + 1 .. Len(r) : r[j].k = "publish" => r[j].uri # r[i].uri
               PROVE  r[i].bad = (r[i].uri \in p)
    BY DEF Shown
  <2>1. CASE i > Len(o)
    BY <1>2, <1>6, <2>1
  <2>2. CASE i \in DOMAIN o
    <3>1. r[i] = o[i]
      BY <1>2, <2>2
    <3>2. \A j \in DOMAIN s : s[j].uri # r[i].uri
      <4> SUFFICES ASSUME NEW j \in DOMAIN s PROVE s[j].uri # r[i].uri
        OBVIOUS
      <4>1. Len(o) + j \in i + 1 .. Len(r)
        BY <1>2, <1>4, <2>2
      <4> QED
        BY <1>2, <1>3, <4>1
    <3>3. r[i].uri \in p <=> r[i].uri \in p0
      BY <3>2 DEF p
    <3>4. \A j \in i + 1 .. Len(o) : o[j].k = "publish" => o[j].uri # o[i].uri
      BY <1>2, <2>2, <3>1, SMTT(60)
    <3>5. o[i].bad = (o[i].uri \in p0)
      BY <2>2, <3>1, <3>4 DEF Fit, Shown
    <3> QED
      BY <3>1, <3>3, <3>5
  <2> QED
    BY <1>2, <2>1, <2>2
<1> QED
  BY <1>2, <1>8, <1>9, <1>10, <1>11, <1>12, <1>13, <1>14 DEF Fit, Told, r, d, p

(* One frame more that is no publish *)
LEMMA ToldAppend ==
  ASSUME NEW o, Told(o), NEW f \in OutFrame, f.k # "publish",
         f.k = "result" => Begun(o) /\ (Orderly => f.of = f.about)
  PROVE  Told(Append(o, f))
<1> DEFINE r == Append(o, f)
<1>1. o \in Seq(OutFrame)
  BY DEF Told
<1>2. /\ r \in Seq(OutFrame) /\ Len(o) \in Nat /\ DOMAIN o = 1..Len(o)
      /\ DOMAIN r = 1..(Len(o) + 1)
      /\ \A i \in DOMAIN o : r[i] = o[i]
      /\ r[Len(o) + 1] = f
  BY <1>1
<1> HIDE DEF r
<1>3. Quiet(r)
  <2> SUFFICES ASSUME NEW i \in DOMAIN r, r[i].k \in {"publish", "result"}
               PROVE  /\ \E j \in 1 .. i - 1 : r[j].k = "initialized"
                      /\ \A j \in 1 .. i - 1 : r[j].k # "bye"
    BY DEF Quiet
  <2>1. \A j \in 1 .. i - 1 : j \in DOMAIN o /\ r[j] = o[j]
    BY <1>2
  <2>2. CASE i \in DOMAIN o
    <3>1. /\ \E j \in 1 .. i - 1 : o[j].k = "initialized"
          /\ \A j \in 1 .. i - 1 : o[j].k # "bye"
      BY <1>2, <2>2 DEF Told, Quiet
    <3> QED
      BY <2>1, <3>1
  <2>3. CASE i = Len(o) + 1
    <3>1. Begun(o) /\ 1 .. i - 1 = DOMAIN o
      BY <1>2, <2>3
    <3> QED
      BY <2>1, <3>1 DEF Begun
  <2> QED
    BY <1>2, <2>2, <2>3
<1>4. Advance(r)
  BY <1>2 DEF Told, Advance
<1>5. Timely(r)
  BY <1>2 DEF Told, Timely
<1> QED
  BY <1>2, <1>3, <1>4, <1>5 DEF Told, r

LEMMA FitAppend ==
  ASSUME NEW o, NEW d, NEW p, NEW horizon, Fit(o, d, p, horizon),
         NEW f \in OutFrame, f.k \notin {"publish", "bye"},
         f.k = "result" => (Orderly => f.of = f.about)
  PROVE  Fit(Append(o, f), d, p, horizon)
<1> DEFINE r == Append(o, f)
<1>1. Told(o) /\ Begun(o) /\ o \in Seq(OutFrame)
  BY DEF Fit, Told
<1>2. Told(r)
  BY <1>1, ToldAppend
<1>3. /\ r \in Seq(OutFrame) /\ Len(o) \in Nat /\ DOMAIN o = 1..Len(o)
      /\ DOMAIN r = 1..(Len(o) + 1) /\ Len(r) = Len(o) + 1
      /\ \A i \in DOMAIN o : r[i] = o[i]
      /\ r[Len(o) + 1] = f
  BY <1>1
<1> HIDE DEF r
<1>4. Begun(r)
  BY <1>1, <1>3 DEF Begun
<1>5. Below(r, d)
  BY <1>3 DEF Fit, Below
<1>6. Behind(r, d, horizon)
  BY <1>3 DEF Fit, Behind
<1>7. Shown(r, p)
  <2> SUFFICES ASSUME NEW i \in DOMAIN r, r[i].k = "publish", r[i].uri \in {Package, Manifest},
                      \A j \in i + 1 .. Len(r) : r[j].k = "publish" => r[j].uri # r[i].uri
               PROVE  r[i].bad = (r[i].uri \in p)
    BY DEF Shown
  <2>1. i \in DOMAIN o /\ r[i] = o[i]
    BY <1>3
  <2>2. \A j \in i + 1 .. Len(o) : o[j].k = "publish" => o[j].uri # o[i].uri
    BY <1>3, <2>1
  <2> QED
    BY <2>1, <2>2 DEF Fit, Shown
<1> QED
  BY <1>2, <1>4, <1>5, <1>6, <1>7 DEF Fit, r

-----------------------------------------------------------------------------
(* The state between two messages *)

InFrame == [k : {"sync"}, uri : Uris, ver : Nat \ {0}]
             \cup [k : {"didClose"}, uri : Uris]
             \cup [k : {"didSave"}, uri : Uris \cup {Manifest}]
             \cup [k : {"request"}, id : Ids, class : RequestClasses, uri : Uris, about : Nat]
             \cup [k : {"initialize", "shutdown", "cancel"}, id : Ids]
             \cup [k : {"initialized", "exit", "malformed", "fatal", "eof"}]

Types ==
  /\ stdin \in Seq(InFrame) /\ inbox \in Seq(InFrame) /\ stdout \in Seq(OutFrame)
  /\ IsWorld(World)
  /\ pending \in [uri : Files, ver : Nat]
  /\ pending # NoSync => pending.uri \in Uris /\ pending.ver # 0
  /\ lifecycle \in {"PreInit", "Running", "Shutdown"}
  /\ closed \in BOOLEAN /\ reading \in BOOLEAN /\ unflushed \in BOOLEAN
  /\ working \in BOOLEAN /\ serving \in BOOLEAN
  /\ cancelled \subseteq Ids
  /\ version \in Nat /\ sends \in 0..MaxSends /\ version <= sends
  /\ latest \in [Uris -> Nat]
  /\ profile \in Profiles
  /\ working \/ inbox = <<>> \/ ~serving

(* What has been sent and not handled *)
Queue == inbox \o stdin

(* Versions rise in a queue q, and end with the client's, v. *)
Ordered(q, v) ==
  /\ \A i \in DOMAIN q : q[i].k = "sync" => q[i].ver <= v
  /\ \A i, j \in DOMAIN q :
       i < j /\ q[i].k = "sync" /\ q[j].k = "sync" => q[i].ver <= q[j].ver

(* The versions still to come *)
HorizonOf(q, v) == {v} \cup {q[i].ver : i \in {i \in DOMAIN q : q[i].k = "sync"}}
Horizon == HorizonOf(Queue, version)

FitWorld(w) == IsWorld(w) /\ Fit(stdout \o w.out, w.docs, w.problems, Horizon)

(* The text that waits is newer than what was published of its document and
   older than what is to come. *)
Deferred ==
  pending # NoSync =>
    /\ \A h \in Horizon : pending.ver <= h
    /\ \A i \in DOMAIN stdout :
         stdout[i].k = "publish" /\ stdout[i].uri = pending.uri
           => stdout[i].ver <= pending.ver

Running == serving /\ lifecycle = "Running"
Live == Running => FitWorld(World) /\ Deferred
Rest == ~Running =>
  /\ Told(stdout)
  /\ pending = NoSync /\ docs = [u \in Uris |-> NoVersion] /\ ~ready /\ problems = {}
  /\ lifecycle = "PreInit" => \A i \in DOMAIN stdout : stdout[i].k = "error"

Flushed == IF pending = NoSync THEN docs ELSE [docs EXCEPT ![pending.uri] = pending.ver]

LEMMA PublishedFit ==
  ASSUME stdout \in Seq(OutFrame), Horizon \in SUBSET Nat,
         NEW w, FitWorld(w), NEW n, Published(w, n),
         Below(stdout \o w.out, n.docs), \A h \in Horizon, u \in Uris : n.docs[u] <= h
  PROVE  FitWorld(n)
<1>1. PICK s \in Seq(PublishFrame) :
        /\ n.out = w.out \o s
        /\ Says(n, s)
        /\ \A u \in {Package, Manifest} :
             (\E i \in DOMAIN s : s[i].uri = u) \/ (u \in n.problems <=> u \in w.problems)
  BY DEF Published
<1>2. IsWorld(n) /\ Fit(stdout \o w.out, w.docs, w.problems, Horizon)
  BY DEF Published, FitWorld
<1>3. Fit((stdout \o w.out) \o s, n.docs, n.problems, Horizon)
  BY <1>1, <1>2, FitPublish
<1>4. w.out \in Seq(OutFrame) /\ s \in Seq(OutFrame)
  BY DEF FitWorld, IsWorld, Typed, OutFrame
<1>5. (stdout \o w.out) \o s = stdout \o n.out
  <2>1. \A o \in Seq(OutFrame) : (stdout \o o) \o s = stdout \o (o \o s)
    BY <1>4, ConcatAssociates, SMTT(60)
  <2> QED
    BY <1>1, <1>4, <2>1
<1> QED
  BY <1>2, <1>3, <1>5 DEF FitWorld

LEMMA LeftFit ==
  ASSUME stdout \in Seq(OutFrame), Horizon \in SUBSET Nat,
         NEW w, FitWorld(w), NEW n, Left(w, n), n.docs = w.docs
  PROVE  FitWorld(n)
<1>1. Below(stdout \o w.out, n.docs) /\ \A h \in Horizon, u \in Uris : n.docs[u] <= h
  BY DEF FitWorld, Fit, Behind
<1> QED
  BY <1>1, PublishedFit DEF Left

LEMMA HorizonNat ==
  ASSUME Types
  PROVE  Horizon \in SUBSET Nat /\ Queue \in Seq(InFrame)
<1>1. Queue \in Seq(InFrame)
  BY DEF Types, Queue
<1>2. \A f \in InFrame : f.k = "sync" => f.ver \in Nat
  BY DEF InFrame
<1> QED
  BY <1>1, <1>2 DEF Types, Horizon, HorizonOf

LEMMA WorldFields ==
  ASSUME Types
  PROVE  /\ World.docs = docs /\ World.ready = ready /\ World.problems = problems
         /\ World.out = <<>> /\ stdout \o World.out = stdout
         /\ docs \in [Uris -> Nat]
BY DEF Types, World, IsWorld, Typed

LEMMA FlushFit ==
  ASSUME Types, FitWorld(World), Deferred, NEW n \in Flush(World)
  PROVE  FitWorld(n) /\ n.docs = Flushed
<1>1. CASE pending = NoSync
  BY <1>1 DEF Flush, Flushed, World
<1>2. CASE pending # NoSync
  <2>1. pending.uri \in Uris /\ pending.ver \in Nat \ {0}
        /\ pending = [uri |-> pending.uri, ver |-> pending.ver]
    BY <1>2 DEF Types
  <2>2. n \in Analysed(World, [uri |-> pending.uri, ver |-> pending.ver])
    BY <1>2, <2>1 DEF Flush
  <2>3. IsWorld(World)
    BY DEF Types
  <2>4. Published(World, n) /\ n.docs = [World.docs EXCEPT ![pending.uri] = pending.ver]
    BY <2>1, <2>2, <2>3, AnalysedFacts
  <2>5. n.docs = Flushed
    BY <1>2, <2>4, WorldFields DEF Flushed
  <2>6. \A h \in Horizon, u \in Uris : n.docs[u] <= h
    BY <1>2, <2>1, <2>4, WorldFields DEF FitWorld, Fit, Behind, Deferred
  <2>7. Below(stdout \o World.out, n.docs)
    <3>1. Below(stdout, docs)
      BY WorldFields DEF FitWorld, Fit
    <3> QED
      BY <1>2, <2>1, <2>4, <3>1, WorldFields DEF Below, Deferred
  <2>8. stdout \in Seq(OutFrame)
    BY DEF Types
  <2> QED
    BY <2>4, <2>5, <2>6, <2>7, <2>8, HorizonNat, PublishedFit
<1> QED
  BY <1>1, <1>2

LEMMA CloseFit ==
  ASSUME Types, NEW w, FitWorld(w), NEW uri \in Uris, NEW n \in CloseDoc(w, uri)
  PROVE  FitWorld(n) /\ n.docs = [w.docs EXCEPT ![uri] = NoVersion]
<1>1. IsWorld(w) /\ w.docs \in [Uris -> Nat]
  BY DEF FitWorld, IsWorld, Typed
<1>2. Published(w, n) /\ n.docs = [w.docs EXCEPT ![uri] = NoVersion]
  BY <1>1, CloseFacts
<1>3. \A h \in Horizon, u \in Uris : n.docs[u] <= h
  BY <1>1, <1>2, HorizonNat, SMTT(60) DEF FitWorld, Fit, Behind, NoVersion
<1>4. Below(stdout \o w.out, n.docs)
  BY <1>1, <1>2 DEF FitWorld, Fit, Below
<1>5. stdout \in Seq(OutFrame)
  BY DEF Types
<1> QED
  BY <1>2, <1>3, <1>4, <1>5, HorizonNat, PublishedFit

LEMMA FrameFit ==
  ASSUME Types, NEW w, FitWorld(w), NEW f \in OutFrame, f.k \notin {"publish", "bye"},
         f.k = "result" => (Orderly => f.of = f.about)
  PROVE  FitWorld([w EXCEPT !.out = Append(w.out, f)])
<1> DEFINE n == [w EXCEPT !.out = Append(w.out, f)]
<1>1. w.out \in Seq(OutFrame) /\ stdout \in Seq(OutFrame)
  BY DEF Types, FitWorld, IsWorld, Typed
<1>2. /\ n.docs = w.docs /\ n.ready = w.ready /\ n.problems = w.problems
      /\ n.out = Append(w.out, f)
  BY DEF FitWorld, IsWorld, Typed
<1>3. Typed(n)
  <2>1. Append(w.out, f) \in Seq(OutFrame)
    BY <1>1
  <2> QED
    BY <2>1 DEF FitWorld, IsWorld, Typed
<1> HIDE DEF n
<1>4. IsWorld(n)
  BY <1>2, <1>3 DEF FitWorld, IsWorld, Slot
<1>5. stdout \o n.out = Append(stdout \o w.out, f)
  BY <1>1, <1>2
<1>6. Fit(Append(stdout \o w.out, f), w.docs, w.problems, Horizon)
  BY FitAppend DEF FitWorld
<1> QED
  BY <1>2, <1>4, <1>5, <1>6 DEF FitWorld, n
-----------------------------------------------------------------------------
(* The queue *)

Carried(f) == IF f.k = "sync" THEN f.ver ELSE NoVersion
Sets(f, u) == f.k \in {"sync", "didClose"} /\ f.uri = u

(* The newest texts after a message *)
After(f, d) ==
  IF f.k \in {"sync", "didClose"} THEN [d EXCEPT ![f.uri] = Carried(f)] ELSE d

(* v is the newest text of u when the first n messages of q but the last
   have been handled, from the texts in base. *)
Names(q, n, base, u, v) ==
  /\ (\A j \in 1 .. n - 1 : ~Sets(q[j], u)) => v = base[u]
  /\ \A j \in 1 .. n - 1 :
       Sets(q[j], u) /\ (\A m \in j + 1 .. n - 1 : ~Sets(q[m], u)) => v = Carried(q[j])

(* Every request is about the text its client had sent last. *)
AsksOf(q, base, last) ==
  /\ \A i \in DOMAIN q :
       q[i].k = "request" => Names(q, i, base, q[i].uri, q[i].about)
  /\ \A u \in Uris : Names(q, Len(q) + 1, base, u, last[u])

LEMMA InFields ==
  ASSUME NEW f \in InFrame
  PROVE  /\ f.k = "sync" => f.uri \in Uris /\ f.ver \in Nat \ {0}
         /\ f.k = "didClose" => f.uri \in Uris
         /\ f.k = "didSave" => f.uri \in Uris \cup {Manifest}
         /\ f.k = "request" => /\ f.id \in Ids /\ f.uri \in Uris /\ f.about \in Nat
                              /\ f.class \in RequestClasses
         /\ HasId(f) \/ f.k = "cancel" => f.id \in Ids
         /\ f.k \in Frames
BY DEF InFrame, HasId, Frames

LEMMA QueueTail ==
  ASSUME NEW q \in Seq(InFrame), q # <<>>, NEW v \in Nat, Ordered(q, v)
  PROVE  /\ Ordered(Tail(q), v)
         /\ HorizonOf(Tail(q), v) \subseteq HorizonOf(q, v)
         /\ Head(q).k = "sync" =>
              /\ Head(q).ver \in HorizonOf(q, v)
              /\ \A h \in HorizonOf(Tail(q), v) : Head(q).ver <= h
<1> DEFINE r == Tail(q)
<1>1. /\ Len(q) \in Nat /\ Len(q) > 0 /\ DOMAIN q = 1..Len(q) /\ DOMAIN r = 1..(Len(q) - 1)
      /\ \A i \in DOMAIN r : i + 1 \in DOMAIN q /\ r[i] = q[i + 1]
      /\ Head(q) = q[1] /\ 1 \in DOMAIN q
  OBVIOUS
<1> HIDE DEF r
<1>2. Ordered(r, v)
  BY <1>1 DEF Ordered
<1>3. HorizonOf(r, v) \subseteq HorizonOf(q, v)
  BY <1>1 DEF HorizonOf
<1>4. ASSUME q[1].k = "sync"
      PROVE  q[1].ver \in HorizonOf(q, v) /\ \A h \in HorizonOf(r, v) : q[1].ver <= h
  <2>1. \A i \in DOMAIN r : r[i].k = "sync" => q[1].ver <= r[i].ver
    BY <1>1, <1>4 DEF Ordered
  <2> QED
    BY <1>1, <1>4, <2>1 DEF Ordered, HorizonOf
<1> QED
  BY <1>1, <1>2, <1>3, <1>4 DEF r

LEMMA AsksTail ==
  ASSUME NEW q \in Seq(InFrame), q # <<>>, NEW base \in [Uris -> Nat], NEW last,
         AsksOf(q, base, last)
  PROVE  /\ AsksOf(Tail(q), After(Head(q), base), last)
         /\ Head(q).k = "request" => Head(q).about = base[Head(q).uri]
<1> DEFINE r == Tail(q)
           next == After(Head(q), base)
<1>1. /\ Len(q) \in Nat /\ Len(q) > 0 /\ DOMAIN q = 1..Len(q) /\ DOMAIN r = 1..(Len(q) - 1)
      /\ Len(r) = Len(q) - 1
      /\ \A i \in DOMAIN r : i + 1 \in DOMAIN q /\ r[i] = q[i + 1]
      /\ Head(q) = q[1] /\ 1 \in DOMAIN q
  OBVIOUS
<1>2. \A u \in Uris : next[u] = IF Sets(q[1], u) THEN Carried(q[1]) ELSE base[u]
  BY <1>1 DEF After, Sets
<1> HIDE DEF r, next
<1>3. ASSUME NEW n \in 1 .. Len(r) + 1, NEW u \in Uris, NEW v, Names(q, n + 1, base, u, v)
      PROVE  Names(r, n, next, u, v)
  <2>1. \A j \in 1 .. n - 1 : r[j] = q[j + 1]
    BY <1>1
  <2>2. ASSUME \A j \in 1 .. n - 1 : ~Sets(r[j], u)
        PROVE  v = next[u]
    <3>1. \A j \in 2 .. n : ~Sets(q[j], u)
      <4> SUFFICES ASSUME NEW j \in 2 .. n PROVE ~Sets(q[j], u)
        OBVIOUS
      <4>1. j - 1 \in 1 .. n - 1 /\ (j - 1) + 1 = j
        BY <1>1
      <4> QED
        BY <2>1, <2>2, <4>1
    <3>2. CASE Sets(q[1], u)
      BY <1>1, <1>2, <1>3, <3>1, <3>2 DEF Names
    <3>3. CASE ~Sets(q[1], u)
      BY <1>1, <1>2, <1>3, <3>1, <3>3 DEF Names
    <3> QED
      BY <3>2, <3>3
  <2>3. ASSUME NEW j \in 1 .. n - 1, Sets(r[j], u), \A m \in j + 1 .. n - 1 : ~Sets(r[m], u)
        PROVE  v = Carried(r[j])
    <3>1. \A m \in j + 2 .. n : ~Sets(q[m], u)
      <4> SUFFICES ASSUME NEW m \in j + 2 .. n PROVE ~Sets(q[m], u)
        OBVIOUS
      <4>1. m - 1 \in j + 1 .. n - 1 /\ m - 1 \in 1 .. n - 1 /\ (m - 1) + 1 = m
        BY <1>1
      <4> QED
        BY <2>1, <2>3, <4>1
    <3>2. j + 1 \in 1 .. n /\ (j + 1) + 1 = j + 2 /\ (n + 1) - 1 = n /\ r[j] = q[j + 1]
      BY <1>1, <2>1
    <3> QED
      BY <1>3, <2>3, <3>1, <3>2 DEF Names
  <2> QED
    BY <2>2, <2>3 DEF Names
<1>4. \A i \in DOMAIN r : r[i].k = "request" => Names(r, i, next, r[i].uri, r[i].about)
  <2> SUFFICES ASSUME NEW i \in DOMAIN r, r[i].k = "request"
               PROVE  Names(r, i, next, r[i].uri, r[i].about)
    OBVIOUS
  <2>1. i + 1 \in DOMAIN q /\ r[i] = q[i + 1] /\ i \in 1 .. Len(r) + 1
    BY <1>1
  <2>2. r[i].uri \in Uris
    BY <2>1, InFields
  <2>3. Names(q, i + 1, base, r[i].uri, r[i].about)
    BY <2>1 DEF AsksOf
  <2> QED
    BY <1>3, <2>1, <2>2, <2>3
<1>5. \A u \in Uris : Names(r, Len(r) + 1, next, u, last[u])
  <2> SUFFICES ASSUME NEW u \in Uris PROVE Names(r, Len(r) + 1, next, u, last[u])
    OBVIOUS
  <2>1. Names(q, (Len(r) + 1) + 1, base, u, last[u])
    BY <1>1 DEF AsksOf
  <2> QED
    BY <1>1, <1>3, <2>1
<1>6. q[1].k = "request" => q[1].about = base[q[1].uri]
  BY <1>1 DEF AsksOf, Names
<1> QED
  BY <1>1, <1>4, <1>5, <1>6 DEF AsksOf, r, next

LEMMA QueueAppend ==
  ASSUME NEW q \in Seq(InFrame), NEW v \in Nat, Ordered(q, v), NEW f \in InFrame,
         NEW w \in Nat, v <= w, f.k = "sync" => f.ver = w
  PROVE  /\ Ordered(Append(q, f), w)
         /\ \A h \in HorizonOf(Append(q, f), w) : \E g \in HorizonOf(q, v) : g <= h
<1> DEFINE r == Append(q, f)
<1>1. /\ Len(q) \in Nat /\ DOMAIN q = 1..Len(q) /\ DOMAIN r = 1..(Len(q) + 1)
      /\ \A i \in DOMAIN q : r[i] = q[i]
      /\ r[Len(q) + 1] = f
  OBVIOUS
<1>2. \A i \in DOMAIN q : q[i].k = "sync" => q[i].ver \in Nat
  BY InFields
<1> HIDE DEF r
<1>3. Ordered(r, w)
  BY <1>1, <1>2 DEF Ordered
<1>4. \A h \in HorizonOf(r, w) : h = w \/ h \in HorizonOf(q, v)
  BY <1>1 DEF HorizonOf
<1>5. v \in HorizonOf(q, v) /\ \A h \in HorizonOf(q, v) : h <= h
  BY <1>2 DEF HorizonOf
<1> QED
  BY <1>3, <1>4, <1>5 DEF r

LEMMA AsksAppend ==
  ASSUME NEW q \in Seq(InFrame), NEW base, NEW last \in [Uris -> Nat], AsksOf(q, base, last),
         NEW f \in InFrame, f.k = "request" => f.about = last[f.uri]
  PROVE  AsksOf(Append(q, f), base, After(f, last))
<1> DEFINE r == Append(q, f)
           next == After(f, last)
<1>1. /\ Len(q) \in Nat /\ DOMAIN q = 1..Len(q) /\ DOMAIN r = 1..(Len(q) + 1)
      /\ Len(r) = Len(q) + 1
      /\ \A i \in DOMAIN q : r[i] = q[i]
      /\ r[Len(q) + 1] = f
  OBVIOUS
<1>2. \A u \in Uris : next[u] = IF Sets(f, u) THEN Carried(f) ELSE last[u]
  BY DEF After, Sets
<1> HIDE DEF r, next
<1>3. ASSUME NEW n \in 1 .. Len(q) + 1, NEW u, NEW v, Names(q, n, base, u, v)
      PROVE  Names(r, n, base, u, v)
  <2>1. \A j \in 1 .. n - 1 : r[j] = q[j]
    BY <1>1
  <2> QED
    BY <1>3, <2>1 DEF Names
<1>4. ASSUME NEW i \in DOMAIN r, r[i].k = "request"
      PROVE  Names(r, i, base, r[i].uri, r[i].about)
  <2>1. CASE i \in DOMAIN q
    BY <1>1, <1>3, <1>4, <2>1 DEF AsksOf
  <2>2. CASE i = Len(q) + 1
    <3>1. Names(q, Len(q) + 1, base, f.uri, last[f.uri])
      BY <1>1, <1>4, <2>2, InFields DEF AsksOf
    <3> QED
      BY <1>1, <1>3, <1>4, <2>2, <3>1
  <2> QED
    BY <1>1, <2>1, <2>2
<1>5. ASSUME NEW u \in Uris
      PROVE  Names(r, Len(r) + 1, base, u, next[u])
  <2>1. Names(r, Len(q) + 1, base, u, last[u])
    BY <1>1, <1>3 DEF AsksOf
  <2>2. Len(r) + 1 - 1 = Len(q) + 1
    BY <1>1
  <2>3. CASE Sets(f, u)
    <3>1. next[u] = Carried(f)
      BY <1>2, <2>3
    <3>2. Len(q) + 1 \in 1 .. Len(r) + 1 - 1 /\ Sets(r[Len(q) + 1], u)
      BY <1>1, <2>3
    <3>3. ASSUME NEW j \in 1 .. Len(r) + 1 - 1, \A m \in j + 1 .. Len(r) + 1 - 1 : ~Sets(r[m], u)
          PROVE  j = Len(q) + 1
      BY <1>1, <3>2, <3>3
    <3> QED
      BY <1>1, <3>1, <3>2, <3>3 DEF Names
  <2>4. CASE ~Sets(f, u)
    <3>1. next[u] = last[u]
      BY <1>2, <2>4
    <3>2. \A j \in 1 .. Len(q) + 1 : Sets(r[j], u) => j \in 1 .. Len(q) + 1 - 1
      BY <1>1, <2>4
    <3>3. \A j : \A m \in j + 1 .. Len(q) + 1 - 1 : m \in j + 1 .. Len(r) + 1 - 1
      BY <1>1
    <3> QED
      BY <1>1, <2>1, <2>2, <3>1, <3>2 DEF Names
  <2> QED
    BY <2>3, <2>4
<1> QED
  BY <1>4, <1>5 DEF AsksOf, r, next

-----------------------------------------------------------------------------
(* The invariant *)

Asks == Orderly /\ Running => AsksOf(Queue, Flushed, latest)

(* The loop stops reading at a frame that ends it, which is then the last. *)
Stops ==
  serving /\ working /\ ~reading =>
    inbox # <<>> /\ inbox[Len(inbox)].k \in {"eof", "fatal"}

Inv ==
  /\ Types /\ Ordered(Queue, version)
  /\ Live /\ Rest /\ Asks /\ Stops
  /\ Orderly => lifecycle # "PreInit"

(* What is to come is later than what was to come. *)
LEMMA FitLater ==
  ASSUME NEW o \in Seq(OutFrame), NEW d \in [Uris -> Nat], NEW p,
         NEW before \in SUBSET Nat, Fit(o, d, p, before),
         NEW later \in SUBSET Nat, \A g \in later : \E h \in before : h <= g
  PROVE  Fit(o, d, p, later)
<1>1. \A i \in DOMAIN o : o[i].k = "publish" => o[i].ver \in Nat
  BY OutFields
<1>2. Behind(o, d, later)
  <2> SUFFICES ASSUME NEW g \in later
               PROVE  /\ \A u \in Uris : d[u] <= g
                      /\ \A i \in DOMAIN o : o[i].k = "publish" => o[i].ver <= g
    BY DEF Behind
  <2>1. PICK h \in before : h <= g
    OBVIOUS
  <2>2. /\ \A u \in Uris : d[u] <= h
        /\ \A i \in DOMAIN o : o[i].k = "publish" => o[i].ver <= h
    BY DEF Fit, Behind
  <2> QED
    BY <1>1, <2>1, <2>2
<1> QED
  BY <1>2 DEF Fit

(* The client is the same before and after a step. *)
LEMMA ToldNext ==
  ASSUME profile' = profile, Told(stdout')
  PROVE  Told(stdout)'
BY DEF Told, Quiet, Advance, Timely, Orderly

(* A step that becomes a fit world *)
LEMMA BecomesFit ==
  ASSUME Types, profile' = profile, NEW w, FitWorld(w), Becomes(w),
         Horizon' \in SUBSET Nat, \A g \in Horizon' : \E h \in Horizon : h <= g
  PROVE  /\ stdout' \in Seq(OutFrame) /\ IsWorld(World)' /\ FitWorld(World)'
         /\ docs' = w.docs
<1>1. /\ docs' = w.docs /\ ready' = w.ready /\ problems' = w.problems
      /\ stdout' = stdout \o w.out
  BY DEF Becomes
<1>2. stdout' \in Seq(OutFrame)
  BY <1>1 DEF Types, FitWorld, IsWorld, Typed
<1>3. IsWorld(World)'
  <2>1. Slot(World)'
    BY <1>1 DEF FitWorld, IsWorld, Slot, World
  <2>2. <<>> \in Seq(OutFrame)
    OBVIOUS
  <2>3. Typed(World)'
    BY <1>1, <2>2 DEF FitWorld, IsWorld, Typed, World
  <2> QED
    BY <2>1, <2>3 DEF IsWorld
<1>4. Fit(stdout', docs', problems', Horizon')
  <2>1. w.docs \in [Uris -> Nat]
    BY DEF FitWorld, IsWorld, Typed
  <2>2. Fit(stdout', docs', problems', Horizon)
    BY <1>1 DEF FitWorld
  <2> QED
    BY <1>1, <1>2, <2>1, <2>2, HorizonNat, FitLater
<1>5. FitWorld(World)'
  <2>1. World'.docs = docs' /\ World'.problems = problems' /\ World'.out = <<>>
    BY DEF World
  <2>2. stdout' \o World'.out = stdout'
    BY <1>2, <2>1
  <2>3. Fit(stdout \o World.out, World.docs, World.problems, Horizon)'
    <3>1. Told(stdout)'
      BY <1>4, ToldNext DEF Fit
    <3>2. Told(stdout \o World.out)'
      BY <2>2, <3>1 DEF Told, Quiet, Advance, Timely
    <3>3. Begun(stdout') /\ Below(stdout', docs') /\ Shown(stdout', problems')
          /\ Behind(stdout', docs', Horizon')
      BY <1>4 DEF Fit
    <3> QED
      BY <2>1, <2>2, <3>2, <3>3 DEF Fit
  <2> QED
    BY <1>3, <2>3 DEF FitWorld
<1> QED
  BY <1>1, <1>2, <1>3, <1>5

LEMMA WorldFits ==
  ASSUME Types, UNCHANGED <<docs, ready, problems, stdout>>
  PROVE  Becomes(World)
BY WorldFields DEF Becomes

(* A step outside the session *)
LEMMA Silent ==
  ASSUME Types, docs' = [u \in Uris |-> NoVersion], ready' = FALSE, problems' = {}
  PROVE  IsWorld(World)'
<1>1. Members(docs') = {}
  BY UrisAssumption DEF Members
<1>2. <<>> \in Seq(OutFrame)
  OBVIOUS
<1> QED
  BY <1>1, <1>2 DEF IsWorld, Typed, Slot, World, NoVersion

LEMMA LastOfTail ==
  ASSUME NEW q \in Seq(InFrame), q # <<>>, Len(q) # 1
  PROVE  Tail(q) # <<>> /\ Tail(q)[Len(Tail(q))] = q[Len(q)]
<1>1. Len(q) \in Nat /\ Len(q) > 0
  OBVIOUS
<1>2. /\ Tail(q) \in Seq(InFrame) /\ Len(Tail(q)) = Len(q) - 1
      /\ \A i \in DOMAIN Tail(q) : i + 1 \in DOMAIN q /\ Tail(q)[i] = q[i + 1]
  OBVIOUS
<1>3. DOMAIN Tail(q) = 1 .. Len(q) - 1 /\ Len(q) - 1 \in 1 .. Len(q) - 1
      /\ (Len(q) - 1) + 1 = Len(q)
  <2>1. DOMAIN Tail(q) = 1 .. Len(Tail(q))
    BY <1>2
  <2> QED
    BY <1>1, <1>2, <2>1
<1>4. Tail(q)[Len(Tail(q))] = q[Len(q)]
  BY <1>2, <1>3
<1>5. Tail(q) # <<>>
  <2>1. Len(Tail(q)) # 0
    BY <1>1, <1>2
  <2>2. Len(<<>>) = 0
    OBVIOUS
  <2> QED
    BY <2>1, <2>2, Zenon
<1> QED
  BY <1>4, <1>5

(* The message at the head of the queue *)
LEMMA Handles ==
  ASSUME Inv, NEW kinds, Handling(kinds), UNCHANGED clientVars
  PROVE  /\ inbox # <<>> /\ Queue # <<>> /\ Head(Queue) = Head(inbox)
         /\ Head(inbox) \in InFrame /\ Head(inbox).k \in kinds
         /\ inbox' \in Seq(InFrame) /\ Queue' = Tail(Queue)
         /\ Horizon' \in SUBSET Nat /\ Horizon' \subseteq Horizon
         /\ \A g \in Horizon' : \E h \in Horizon : h <= g
         /\ Ordered(Queue, version)'
         /\ Head(inbox).k = "sync" =>
              Head(inbox).ver \in Horizon /\ \A h \in Horizon' : Head(inbox).ver <= h
         /\ Head(inbox).k \notin {"eof", "fatal"} => Stops' \/ ~serving'
         /\ serving
<1>1. /\ inbox \in Seq(InFrame) /\ stdin \in Seq(InFrame) /\ inbox # <<>>
      /\ inbox' = Tail(inbox) /\ stdin' = stdin /\ version' = version /\ version \in Nat
      /\ serving /\ working /\ Head(inbox).k \in kinds
  BY DEF Inv, Types, Handling, NothingToRead, clientVars
<1>2. /\ Queue \in Seq(InFrame) /\ Queue # <<>> /\ Head(Queue) = Head(inbox)
      /\ inbox' \in Seq(InFrame) /\ Queue' = Tail(Queue) /\ Head(inbox) \in InFrame
  BY <1>1 DEF Queue
<1>3. /\ Ordered(Tail(Queue), version)
      /\ HorizonOf(Tail(Queue), version) \subseteq Horizon
      /\ Head(Queue).k = "sync" =>
           /\ Head(Queue).ver \in Horizon
           /\ \A h \in HorizonOf(Tail(Queue), version) : Head(Queue).ver <= h
  BY <1>1, <1>2, QueueTail DEF Inv, Horizon
<1>4. Horizon' = HorizonOf(Tail(Queue), version)
  BY <1>1, <1>2 DEF Horizon
<1>5. Horizon \in SUBSET Nat
  BY HorizonNat DEF Inv
<1>7. \A g \in Horizon : g <= g
  BY <1>5
<1>6. ASSUME Head(inbox).k \notin {"eof", "fatal"}
      PROVE  Stops' \/ ~serving'
  <2>1. ASSUME ~reading
        PROVE  inbox' # <<>> /\ inbox'[Len(inbox')].k \in {"eof", "fatal"}
    <3>1. inbox[Len(inbox)].k \in {"eof", "fatal"}
      BY <1>1, <2>1 DEF Inv, Stops
    <3>2. Len(inbox) # 1 /\ Len(inbox) \in Nat \ {0}
      BY <1>1, <1>6, <3>1
    <3>3. Tail(inbox) # <<>> /\ Tail(inbox)[Len(Tail(inbox))] = inbox[Len(inbox)]
      BY <1>1, <3>2, LastOfTail
    <3> QED
      BY <1>1, <3>1, <3>3
  <2>2. reading' = reading
    BY DEF Handling
  <2> QED
    BY <2>1, <2>2 DEF Stops
<1>8. \A g \in Horizon' : \E h \in Horizon : h <= g
  BY <1>3, <1>4, <1>7
<1> QED
  BY <1>1, <1>2, <1>3, <1>4, <1>5, <1>6, <1>8

(* A message handled leaves the invariant true if it leaves these facts. *)
LEMMA Handled ==
  ASSUME Inv, NEW kinds, Handling(kinds), UNCHANGED clientVars,
         stdout' \in Seq(OutFrame), IsWorld(World)',
         serving' \in BOOLEAN, unflushed' \in BOOLEAN, cancelled' \subseteq Ids,
         lifecycle' \in {"PreInit", "Running", "Shutdown"},
         lifecycle' = "PreInit" => lifecycle = "PreInit",
         pending' \in {pending, NoSync}
           \/ (pending' \in [uri : Uris, ver : Nat \ {0}]),
         Live', Rest',
         Orderly /\ Running' => Running /\ Flushed' = After(Head(inbox), Flushed),
         Head(inbox).k \in {"eof", "fatal"} => ~serving'
  PROVE  Inv'
<1>1. /\ Queue # <<>> /\ Head(Queue) = Head(inbox) /\ Queue' = Tail(Queue)
      /\ inbox' \in Seq(InFrame) /\ Ordered(Queue, version)'
      /\ Head(inbox).k \notin {"eof", "fatal"} => Stops' \/ ~serving'
  BY Handles
<1>2. Types'
  <2>1. /\ stdin' = stdin /\ closed' = closed /\ reading' = reading /\ working' = working
        /\ working
    BY DEF Handling, NothingToRead
  <2>2. pending' \in [uri : Files, ver : Nat]
        /\ (pending' # NoSync => pending'.uri \in Uris /\ pending'.ver # 0)
    BY DEF Inv, Types, NoSync, NoVersion, Files
  <2> QED
    BY <1>1, <2>1, <2>2 DEF Inv, Types, clientVars
<1>3. Stops'
  BY <1>1 DEF Stops
<1>4. profile' = profile /\ latest' = latest
  BY DEF clientVars
<1>5. Asks'
  <2>1. SUFFICES ASSUME Orderly, Running'
                 PROVE  AsksOf(Queue', Flushed', latest)
    BY <1>4 DEF Asks, Orderly
  <2>2. Running /\ Flushed' = After(Head(Queue), Flushed)
    BY <1>1, <2>1
  <2>3. Flushed \in [Uris -> Nat] /\ Queue \in Seq(InFrame)
    BY WorldFields, HorizonNat DEF Inv, Types, Flushed
  <2>4. AsksOf(Queue, Flushed, latest)
    BY <2>1, <2>2 DEF Inv, Asks
  <2> QED
    BY <1>1, <2>2, <2>3, <2>4, AsksTail
<1>6. (Orderly => lifecycle # "PreInit")'
  BY <1>4 DEF Inv, Orderly
<1> QED
  BY <1>1, <1>2, <1>3, <1>5, <1>6 DEF Inv

(* Messages of the session *)
LEMMA InSession ==
  ASSUME Inv, NEW kinds, Handling(kinds), UNCHANGED clientVars,
         Running, UNCHANGED <<serving, lifecycle>>,
         NEW n, FitWorld(n), Becomes(n), Deferred',
         unflushed' \in BOOLEAN, cancelled' \subseteq Ids,
         pending' \in {pending, NoSync}
           \/ (pending' \in [uri : Uris, ver : Nat \ {0}]),
         Orderly => Flushed' = After(Head(inbox), Flushed),
         Head(inbox).k \notin {"eof", "fatal"}
  PROVE  Inv'
<1>1. Horizon' \in SUBSET Nat /\ \A g \in Horizon' : \E h \in Horizon : h <= g
  BY Handles
<1>2. stdout' \in Seq(OutFrame) /\ IsWorld(World)' /\ FitWorld(World)'
  BY <1>1, BecomesFit DEF Inv, clientVars
<1>3. Live' /\ Rest'
  BY <1>2 DEF Live, Rest, Running
<1>4. /\ serving' \in BOOLEAN /\ lifecycle' \in {"PreInit", "Running", "Shutdown"}
      /\ (lifecycle' = "PreInit" => lifecycle = "PreInit")
      /\ (Orderly /\ Running' => Running /\ Flushed' = After(Head(inbox), Flushed))
  BY DEF Inv, Types
<1> QED
  BY <1>2, <1>3, <1>4, Handled

(* Messages outside it *)
LEMMA OutSession ==
  ASSUME Inv, NEW kinds, Handling(kinds), UNCHANGED clientVars,
         ~Running', pending' = NoSync, docs' = [u \in Uris |-> NoVersion],
         ready' = FALSE, problems' = {},
         serving' \in BOOLEAN, unflushed' \in BOOLEAN, cancelled' \subseteq Ids,
         lifecycle' \in {"PreInit", "Running", "Shutdown"},
         lifecycle' = "PreInit" =>
           lifecycle = "PreInit" /\ \A i \in DOMAIN stdout' : stdout'[i].k = "error",
         Told(stdout'),
         Head(inbox).k \in {"eof", "fatal"} => ~serving'
  PROVE  Inv'
<1>1. IsWorld(World)'
  BY Silent DEF Inv
<1>2. stdout' \in Seq(OutFrame) /\ Told(stdout)'
  BY ToldNext DEF Told, clientVars
<1>3. Live' /\ Rest'
  BY <1>2 DEF Live, Rest
<1>4. pending' \in {pending, NoSync} \/ (pending' \in [uri : Uris, ver : Nat \ {0}])
  OBVIOUS
<1>5. Orderly /\ Running' => Running /\ Flushed' = After(Head(inbox), Flushed)
  OBVIOUS
<1>6. lifecycle' = "PreInit" => lifecycle = "PreInit"
  OBVIOUS
<1> QED
  BY <1>1, <1>2, <1>3, <1>4, <1>5, <1>6, Handled

LEMMA GateFacts ==
  ASSUME NEW msg
  PROVE  /\ Gate(msg) = "dispatch" => lifecycle = "Running" /\ msg.k # "initialize"
         /\ Gate(msg) = "shutdown" => lifecycle = "Running"
         /\ Gate(msg) = "activate" => lifecycle = "PreInit"
         /\ Gate(msg) = "reject" => HasId(msg)
         /\ Gate(msg) \in {"reject", "ignore"} /\ lifecycle = "Running" => msg.k = "initialize"
BY DEF Gate, HasId

(* text_now is the text that a flush would analyse. *)
LEMMA TextNowFlushed ==
  ASSUME Types, NEW uri \in Uris
  PROVE  TextNow(uri) = Flushed[uri]
BY UrisAssumption, WorldFields DEF Types, TextNow, Flushed, NoSync

LEMMA HeadAsked ==
  ASSUME Inv, Running, Orderly, inbox # <<>>, Head(inbox).k = "request"
  PROVE  Head(inbox).about = Flushed[Head(inbox).uri]
<1>1. /\ Queue \in Seq(InFrame) /\ Queue # <<>> /\ Head(Queue) = Head(inbox)
      /\ Flushed \in [Uris -> Nat]
  <2>1. inbox \in Seq(InFrame) /\ stdin \in Seq(InFrame)
    BY DEF Inv, Types
  <2>2. Queue \in Seq(InFrame) /\ Queue # <<>> /\ Head(Queue) = Head(inbox)
    BY <2>1 DEF Queue
  <2>3. Flushed \in [Uris -> Nat]
    BY WorldFields DEF Inv, Types, Flushed
  <2> QED
    BY <2>2, <2>3
<1>2. AsksOf(Queue, Flushed, latest)
  BY DEF Inv, Asks
<1> QED
  BY <1>1, <1>2, AsksTail

LEMMA FitNow ==
  ASSUME Inv, Running
  PROVE  FitWorld(World) /\ Deferred /\ Types
BY DEF Inv, Live

(* A flush and nothing else *)
LEMMA FlushNext ==
  ASSUME Inv, Running, pending' = NoSync
  PROVE  /\ Deferred' /\ Flushed' = docs'
         /\ \A n \in Flush(World) : FitWorld(n) /\ n.docs = Flushed
BY FitNow, FlushFit DEF Deferred, Flushed

(* An answer from the documents as they are *)
Answers(n) ==
  \E f \in OutFrame : n.docs = docs /\ n.out = <<f>> /\ f.k # "publish" /\ Becomes(n)

LEMMA AnswerStep ==
  ASSUME Inv, NEW kinds, Handling(kinds), UNCHANGED clientVars, Running,
         NEW n, FitWorld(n), Answers(n),
         UNCHANGED <<serving, lifecycle, pending>>,
         unflushed' \in BOOLEAN, cancelled' \subseteq Ids,
         Head(inbox).k \notin {"eof", "fatal", "sync", "didClose"}
  PROVE  Inv'
<1>1. PICK f \in OutFrame : n.docs = docs /\ n.out = <<f>> /\ f.k # "publish" /\ Becomes(n)
  BY DEF Answers
<1>2. stdout \in Seq(OutFrame) /\ stdout' = Append(stdout, f) /\ docs' = docs
  BY <1>1 DEF Inv, Types, Becomes
<1>3. Horizon' \subseteq Horizon
  BY Handles
<1>4. \A i \in DOMAIN stdout' :
        stdout'[i].k = "publish" => i \in DOMAIN stdout /\ stdout'[i] = stdout[i]
  BY <1>1, <1>2
<1>5. Deferred'
  BY <1>3, <1>4, FitNow DEF Deferred
<1>6. Flushed' = After(Head(inbox), Flushed)
  BY <1>2 DEF Flushed, After
<1> QED
  BY <1>1, <1>5, <1>6, InSession

LEMMA SyncStep ==
  ASSUME Inv, Sync, UNCHANGED clientVars
  PROVE  Inv'
<1> DEFINE msg == Head(inbox)
           sync == [uri |-> msg.uri, ver |-> msg.ver]
<1>1. /\ Handling({"sync"}) /\ pending' = sync
      /\ unflushed' = FALSE /\ UNCHANGED <<lifecycle, cancelled, serving>>
      /\ IF pending # NoSync /\ pending.uri # sync.uri
           THEN \E w \in Flush(World) : Becomes(w)
           ELSE UNCHANGED <<docs, ready, problems, stdout>>
  BY DEF Sync
<1>2. /\ msg.k = "sync" /\ msg \in InFrame /\ serving
      /\ Horizon' \in SUBSET Nat /\ \A g \in Horizon' : \E h \in Horizon : h <= g
      /\ msg.ver \in Horizon /\ \A h \in Horizon' : msg.ver <= h
  BY <1>1, Handles
<1>3. msg.uri \in Uris /\ msg.ver \in Nat \ {0}
  BY <1>2, InFields
<1>4. Running
  BY <1>2, GateFacts DEF Sync, Dispatching, Running
<1>5. PICK n : /\ Becomes(n) /\ FitWorld(n)
               /\ n.docs = IF pending # NoSync /\ pending.uri # sync.uri THEN Flushed ELSE docs
  <2>1. CASE pending # NoSync /\ pending.uri # sync.uri
    BY <1>1, <1>4, <2>1, FitNow, FlushFit
  <2>2. CASE ~(pending # NoSync /\ pending.uri # sync.uri)
    BY <1>1, <1>4, <2>2, FitNow, WorldFits, WorldFields
  <2> QED
    BY <2>1, <2>2
<1> HIDE DEF sync, msg
<1>6. docs' = n.docs /\ FitWorld(World)' /\ docs \in [Uris -> Nat]
  BY <1>2, <1>4, <1>5, FitNow, BecomesFit, WorldFields DEF clientVars
<1>7. sync.uri = msg.uri /\ sync.ver = msg.ver /\ sync \in [uri : Uris, ver : Nat \ {0}]
  BY <1>3 DEF sync
<1>8. sync # NoSync
  BY <1>7 DEF NoSync, NoVersion
<1>9. Deferred'
  <2>1. \A i \in DOMAIN stdout' : stdout'[i].k = "publish" => stdout'[i].ver <= msg.ver
    BY <1>2, <1>5 DEF FitWorld, Fit, Behind, Becomes
  <2> QED
    BY <1>1, <1>2, <1>7, <2>1 DEF Deferred
<1>10. Flushed' = After(msg, Flushed)
  <2>1. Flushed' = [docs' EXCEPT ![msg.uri] = msg.ver]
    BY <1>1, <1>7, <1>8 DEF Flushed
  <2>2. After(msg, Flushed) = [Flushed EXCEPT ![msg.uri] = msg.ver]
    BY <1>2 DEF After, Carried
  <2>3. CASE pending # NoSync /\ pending.uri # msg.uri
    BY <1>5, <1>6, <1>7, <2>1, <2>2, <2>3
  <2>4. CASE pending = NoSync
    BY <1>5, <1>6, <2>1, <2>2, <2>4 DEF Flushed
  <2>5. CASE pending # NoSync /\ pending.uri = msg.uri
    <3>1. Flushed = [docs EXCEPT ![msg.uri] = pending.ver] /\ docs' = docs
      BY <1>5, <1>6, <1>7, <2>5 DEF Flushed
    <3>2. \A a, b : [[docs EXCEPT ![msg.uri] = a] EXCEPT ![msg.uri] = b]
                     = [docs EXCEPT ![msg.uri] = b]
      BY <1>3, <1>6
    <3> QED
      BY <2>1, <2>2, <3>1, <3>2
  <2> QED
    BY <2>3, <2>4, <2>5
<1>11. /\ pending' \in [uri : Uris, ver : Nat \ {0}] /\ unflushed' \in BOOLEAN
       /\ cancelled' \subseteq Ids /\ UNCHANGED <<serving, lifecycle>>
  BY <1>1, <1>7 DEF Inv, Types
<1> QED
  BY <1>1, <1>2, <1>4, <1>5, <1>9, <1>10, <1>11, InSession DEF msg

LEMMA CancelledStep ==
  ASSUME Inv, Cancelled, UNCHANGED clientVars
  PROVE  Inv'
<1> DEFINE msg == Head(inbox)
           f == [k |-> "error", id |-> msg.id]
           n == [World EXCEPT !.out = Append(World.out, f)]
<1>1. /\ Handling({"request"}) /\ Becomes(n) /\ unflushed' = TRUE
      /\ cancelled' = cancelled \ {msg.id} /\ UNCHANGED <<lifecycle, pending, serving>>
  BY DEF Cancelled, Refuse
<1>2. msg.k = "request" /\ msg \in InFrame /\ serving
  BY <1>1, Handles
<1>3. Running
  BY <1>2, GateFacts DEF Cancelled, Dispatching, Running
<1>4. f \in OutFrame /\ f.k = "error"
  BY <1>2, InFields DEF OutFrame
<1> HIDE DEF f
<1>5. FitWorld(n)
  BY <1>3, <1>4, FitNow, FrameFit
<1>6. n.docs = docs
  BY WorldFields DEF World
<1>7. n.out = <<f>>
  BY DEF World
<1> HIDE DEF n
<1>8. Answers(n)
  BY <1>1, <1>4, <1>6, <1>7 DEF Answers
<1>9. unflushed' \in BOOLEAN /\ cancelled' \subseteq Ids
  BY <1>1 DEF Inv, Types
<1> QED
  BY <1>1, <1>2, <1>3, <1>5, <1>8, <1>9, AnswerStep DEF msg

LEMMA ReadTextStep ==
  ASSUME Inv, ReadText, UNCHANGED clientVars
  PROVE  Inv'
<1> DEFINE msg == Head(inbox)
<1>1. /\ Handling({"request"}) /\ unflushed' = TRUE
      /\ UNCHANGED <<lifecycle, pending, cancelled, serving>>
  BY DEF ReadText
<1>2. msg.k = "request" /\ msg \in InFrame /\ serving /\ inbox # <<>>
  BY <1>1, Handles
<1>3. Running
  BY <1>2, GateFacts DEF ReadText, Dispatching, Running
<1>4. msg.id \in Ids /\ msg.uri \in Uris /\ msg.about \in Nat
  BY <1>2, InFields
<1>5. PICK f \in OutFrame :
        /\ f.k \in {"result", "error"}
        /\ f.k = "result" => (Orderly => f.of = f.about)
        /\ Becomes([World EXCEPT !.out = Append(World.out, f)])
  <2>1. CASE Becomes(Answer(World, msg, TextNow(msg.uri)))
    <3> DEFINE f == [k |-> "result", id |-> msg.id, uri |-> msg.uri, about |-> msg.about,
                     of |-> TextNow(msg.uri)]
    <3>1. TextNow(msg.uri) = Flushed[msg.uri] /\ TextNow(msg.uri) \in Nat
      BY <1>4, TextNowFlushed, WorldFields, SMTT(30) DEF Inv, Types, Flushed
    <3>2. f \in OutFrame /\ f.k = "result" /\ f.of = TextNow(msg.uri) /\ f.about = msg.about
      BY <1>4, <3>1 DEF OutFrame
    <3>3. Orderly => f.of = f.about
      BY <1>2, <1>3, <3>1, <3>2, HeadAsked
    <3>4. Becomes([World EXCEPT !.out = Append(World.out, f)])
      BY <2>1 DEF Answer
    <3> HIDE DEF f
    <3> QED
      BY <3>2, <3>3, <3>4
  <2>2. CASE Becomes(Refuse(World, msg.id))
    <3> DEFINE f == [k |-> "error", id |-> msg.id]
    <3>1. f \in OutFrame /\ f.k = "error"
      BY <1>4 DEF OutFrame
    <3>2. Becomes([World EXCEPT !.out = Append(World.out, f)])
      BY <2>2 DEF Refuse
    <3> HIDE DEF f
    <3> QED
      BY <3>1, <3>2
  <2> QED
    BY <2>1, <2>2 DEF ReadText
<1> DEFINE n == [World EXCEPT !.out = Append(World.out, f)]
<1>6. FitWorld(n)
  BY <1>3, <1>5, FitNow, FrameFit
<1>7. n.docs = docs /\ n.out = <<f>> /\ Becomes(n)
  BY <1>5, WorldFields DEF World
<1> HIDE DEF n
<1>8. Answers(n)
  BY <1>5, <1>7 DEF Answers
<1>9. unflushed' \in BOOLEAN /\ cancelled' \subseteq Ids
  BY <1>1 DEF Inv, Types
<1> QED
  BY <1>1, <1>2, <1>3, <1>6, <1>8, <1>9, AnswerStep DEF msg

(* A message that has the pending text analysed first, and becomes n *)
LEMMA FlushedStep ==
  ASSUME Inv, NEW kinds, Handling(kinds), UNCHANGED clientVars,
         Running, NEW n, FitWorld(n), Becomes(n), n.docs = After(Head(inbox), Flushed),
         pending' = NoSync, unflushed' = FALSE, UNCHANGED <<lifecycle, cancelled, serving>>,
         Head(inbox).k \notin {"eof", "fatal"}
  PROVE  Inv'
<1>1. Deferred' /\ Flushed' = docs'
  BY FlushNext
<1>2. docs' = n.docs
  BY DEF Becomes
<1>3. unflushed' \in BOOLEAN /\ cancelled' \subseteq Ids
  BY DEF Inv, Types
<1> QED
  BY <1>1, <1>2, <1>3, InSession

LEMMA ReadAnalysisStep ==
  ASSUME Inv, ReadAnalysis, UNCHANGED clientVars
  PROVE  Inv'
<1> DEFINE msg == Head(inbox)
<1>1. /\ Handling({"request"}) /\ pending' = NoSync /\ unflushed' = FALSE
      /\ UNCHANGED <<lifecycle, cancelled, serving>>
  BY DEF ReadAnalysis
<1>2. msg.k = "request" /\ msg \in InFrame /\ serving /\ inbox # <<>>
  BY <1>1, Handles
<1>3. Running
  BY <1>2, GateFacts DEF ReadAnalysis, Dispatching, Running
<1>4. msg.id \in Ids /\ msg.uri \in Uris /\ msg.about \in Nat
  BY <1>2, InFields
<1>5. PICK w \in Flush(World) : Becomes(Answer(w, msg, w.docs[msg.uri]))
  BY DEF ReadAnalysis
<1>6. FitWorld(w) /\ w.docs = Flushed /\ w.docs \in [Uris -> Nat]
  BY <1>1, <1>3, FlushNext DEF FitWorld, IsWorld, Typed
<1> DEFINE f == [k |-> "result", id |-> msg.id, uri |-> msg.uri, about |-> msg.about,
                 of |-> w.docs[msg.uri]]
           n == [w EXCEPT !.out = Append(w.out, f)]
<1>7. f \in OutFrame /\ f.k = "result" /\ f.of = w.docs[msg.uri] /\ f.about = msg.about
  BY <1>4, <1>6 DEF OutFrame
<1>8. Orderly => f.of = f.about
  BY <1>2, <1>3, <1>6, <1>7, HeadAsked
<1>9. Becomes(n)
  BY <1>5 DEF Answer
<1> HIDE DEF f
<1>10. FitWorld(n)
  BY <1>6, <1>7, <1>8, FrameFit DEF Inv
<1>11. n.docs = After(msg, Flushed)
  BY <1>2, <1>6 DEF After, FitWorld, IsWorld, Typed
<1> HIDE DEF n
<1> QED
  BY <1>1, <1>2, <1>3, <1>9, <1>10, <1>11, FlushedStep DEF msg

LEMMA DidCloseStep ==
  ASSUME Inv, DidClose, UNCHANGED clientVars
  PROVE  Inv'
<1> DEFINE msg == Head(inbox)
<1>1. /\ Handling({"didClose"}) /\ pending' = NoSync /\ unflushed' = FALSE
      /\ UNCHANGED <<lifecycle, cancelled, serving>>
  BY DEF DidClose
<1>2. msg.k = "didClose" /\ msg \in InFrame /\ serving
  BY <1>1, Handles
<1>3. Running
  BY <1>2, GateFacts DEF DidClose, Dispatching, Running
<1>4. msg.uri \in Uris
  BY <1>2, InFields
<1>9. PICK w \in Flush(World) : \E n \in CloseDoc(w, msg.uri) : Becomes(n)
  BY DEF DidClose
<1>5. PICK n \in CloseDoc(w, msg.uri) : Becomes(n)
  BY <1>9
<1>6. FitWorld(w) /\ w.docs = Flushed
  BY <1>1, <1>3, FlushNext
<1>7. FitWorld(n) /\ n.docs = [w.docs EXCEPT ![msg.uri] = NoVersion]
  BY <1>4, <1>6, CloseFit DEF Inv
<1>8. n.docs = After(msg, Flushed)
  BY <1>2, <1>6, <1>7 DEF After, Carried
<1> QED
  BY <1>1, <1>2, <1>3, <1>5, <1>7, <1>8, FlushedStep DEF msg

LEMMA DidSaveStep ==
  ASSUME Inv, DidSave, UNCHANGED clientVars
  PROVE  Inv'
<1> DEFINE msg == Head(inbox)
<1>1. /\ Handling({"didSave"}) /\ pending' = NoSync /\ unflushed' = FALSE
      /\ UNCHANGED <<lifecycle, cancelled, serving>>
  BY DEF DidSave
<1>2. msg.k = "didSave" /\ msg \in InFrame /\ serving
  BY <1>1, Handles
<1>3. Running
  BY <1>2, GateFacts DEF DidSave, Dispatching, Running
<1>4. PICK w \in Flush(World) :
        \E n \in Refresh(w) \cup Retry(w, msg.uri) : Becomes(n)
  BY DEF DidSave
<1>5. FitWorld(w) /\ w.docs = Flushed
  BY <1>1, <1>3, FlushNext
<1>6. PICK n \in Refresh(w) \cup Retry(w, msg.uri) : Becomes(n)
  BY <1>4
<1>7. Left(w, n) /\ n.docs = w.docs
  BY <1>5, RefreshFacts, RetryFacts DEF FitWorld
<1>8. FitWorld(n)
  BY <1>5, <1>7, HorizonNat, LeftFit DEF Inv, Types
<1>9. n.docs = After(msg, Flushed)
  BY <1>2, <1>5, <1>7 DEF After
<1> QED
  BY <1>1, <1>2, <1>3, <1>6, <1>8, <1>9, FlushedStep DEF msg

LEMMA MalformedStep ==
  ASSUME Inv, Malformed, UNCHANGED clientVars, Running
  PROVE  Inv'
<1> DEFINE msg == Head(inbox)
<1>1. /\ Handling({"malformed"}) /\ pending' = NoSync /\ unflushed' = FALSE
      /\ UNCHANGED <<lifecycle, cancelled, serving>>
  BY DEF Malformed
<1>2. msg.k = "malformed"
  BY <1>1, Handles
<1>3. PICK w \in Flush(World) : Becomes(Refuse(w, NoId))
  BY DEF Malformed
<1>4. FitWorld(w) /\ w.docs = Flushed
  BY <1>1, FlushNext
<1> DEFINE f == [k |-> "error", id |-> NoId]
           n == [w EXCEPT !.out = Append(w.out, f)]
<1>5. f \in OutFrame /\ f.k = "error"
  BY DEF OutFrame
<1>6. Becomes(n)
  BY <1>3 DEF Refuse
<1> HIDE DEF f
<1>7. FitWorld(n)
  BY <1>4, <1>5, FrameFit DEF Inv
<1>8. n.docs = After(msg, Flushed)
  BY <1>2, <1>4 DEF After, FitWorld, IsWorld, Typed
<1> HIDE DEF n
<1> QED
  BY <1>1, <1>2, <1>6, <1>7, <1>8, FlushedStep DEF msg

LEMMA InertStep ==
  ASSUME Inv, Inert, UNCHANGED clientVars
  PROVE  Inv'
<1> DEFINE msg == Head(inbox)
<1>1. /\ Handling({"cancel", "initialized"}) /\ unflushed' = FALSE
      /\ UNCHANGED <<stdout, lifecycle, docs, ready, problems, pending, cancelled, serving>>
  BY DEF Inert
<1>2. msg.k \in {"cancel", "initialized"} /\ serving /\ Horizon' \subseteq Horizon
  BY <1>1, Handles
<1>3. Running
  BY <1>2, GateFacts DEF Inert, Dispatching, Running
<1>4. FitWorld(World) /\ Becomes(World)
  BY <1>1, <1>3, FitNow, WorldFits
<1>5. Deferred'
  BY <1>1, <1>2, <1>3, FitNow DEF Deferred
<1>6. Flushed' = After(msg, Flushed)
  BY <1>1, <1>2 DEF Flushed, After
<1>7. unflushed' \in BOOLEAN /\ cancelled' \subseteq Ids
  BY <1>1 DEF Inv, Types
<1>8. pending' \in {pending, NoSync} /\ UNCHANGED <<serving, lifecycle>>
  BY <1>1
<1> QED
  BY <1>1, <1>2, <1>3, <1>4, <1>5, <1>6, <1>7, <1>8, InSession DEF msg

(* What is known before and after the session *)
LEMMA AtRest ==
  ASSUME Inv, ~Running
  PROVE  /\ Told(stdout) /\ stdout \in Seq(OutFrame)
         /\ pending = NoSync /\ docs = [u \in Uris |-> NoVersion] /\ ready = FALSE /\ problems = {}
         /\ lifecycle = "PreInit" => \A i \in DOMAIN stdout : stdout[i].k = "error"
BY DEF Inv, Rest, Types, IsWorld, Typed, World

LEMMA ToldSoFar ==
  ASSUME Inv
  PROVE  Told(stdout) /\ stdout \in Seq(OutFrame)
         /\ (lifecycle = "PreInit" => \A i \in DOMAIN stdout : stdout[i].k = "error")
<1>1. CASE Running
  BY <1>1, FitNow, WorldFields DEF FitWorld, Fit, Told, Running
<1>2. CASE ~Running
  BY <1>2, AtRest
<1> QED
  BY <1>1, <1>2

LEMMA ErrorToo ==
  ASSUME Inv, NEW id \in Ids \cup {NoId}
  PROVE  LET o == Append(stdout, [k |-> "error", id |-> id]) IN
           /\ Told(o)
           /\ lifecycle = "PreInit" => \A i \in DOMAIN o : o[i].k = "error"
<1> DEFINE f == [k |-> "error", id |-> id]
           o == Append(stdout, f)
<1>1. f \in OutFrame /\ f.k = "error"
  BY DEF OutFrame
<1> HIDE DEF f
<1>2. Told(stdout) /\ stdout \in Seq(OutFrame)
      /\ (lifecycle = "PreInit" => \A i \in DOMAIN stdout : stdout[i].k = "error")
  BY ToldSoFar
<1>3. Told(o)
  BY <1>1, <1>2, ToldAppend
<1>4. \A i \in DOMAIN o : o[i] = f \/ (i \in DOMAIN stdout /\ o[i] = stdout[i])
  BY <1>1, <1>2
<1> QED
  BY <1>1, <1>2, <1>3, <1>4 DEF f

LEMMA InitializeStep ==
  ASSUME Inv, Initialize, UNCHANGED clientVars
  PROVE  Inv'
<1> DEFINE msg == Head(inbox)
           f == [k |-> "initialized", id |-> msg.id]
<1>1. /\ Handling({"initialize"}) /\ unflushed' = FALSE /\ lifecycle' = "Running"
      /\ stdout' = Append(stdout, f)
      /\ UNCHANGED <<docs, ready, problems, pending, cancelled, serving>>
  BY DEF Initialize
<1>2. /\ msg.k = "initialize" /\ msg \in InFrame /\ serving
      /\ Horizon' \in SUBSET Nat
  BY <1>1, Handles
<1>3. lifecycle = "PreInit" /\ ~Running /\ ~Orderly
  BY <1>2, GateFacts DEF Initialize, Running, Inv
<1>4. /\ Told(stdout) /\ stdout \in Seq(OutFrame)
      /\ pending = NoSync /\ docs = [u \in Uris |-> NoVersion] /\ ready = FALSE /\ problems = {}
      /\ \A i \in DOMAIN stdout : stdout[i].k = "error"
  BY <1>3, AtRest
<1>5. f \in OutFrame /\ f.k = "initialized"
  <2>1. msg.id \in Ids
    BY <1>2, InFields DEF HasId
  <2> QED
    BY <2>1 DEF OutFrame
<1> HIDE DEF f
<1>6. /\ stdout' \in Seq(OutFrame) /\ Len(stdout) \in Nat
      /\ DOMAIN stdout' = 1..(Len(stdout) + 1) /\ stdout'[Len(stdout) + 1] = f
      /\ \A i \in DOMAIN stdout' : stdout'[i].k # "publish" /\ stdout'[i].k # "bye"
  BY <1>1, <1>4, <1>5
<1>7. Told(stdout')
  BY <1>1, <1>4, <1>5, ToldAppend
<1>8. Begun(stdout')
  BY <1>5, <1>6 DEF Begun
<1>9. Below(stdout', docs') /\ Shown(stdout', problems')
  BY <1>6 DEF Below, Shown
<1>10. Behind(stdout', docs', Horizon')
  BY <1>1, <1>2, <1>4, <1>6 DEF Behind, NoVersion
<1>11. IsWorld(World)'
  BY <1>1, <1>4, Silent DEF Inv
<1>12. FitWorld(World)'
  <2>1. World'.docs = docs' /\ World'.problems = problems' /\ World'.out = <<>>
    BY DEF World
  <2>2. stdout' \o World'.out = stdout'
    BY <1>6, <2>1
  <2>3. Told(stdout)'
    BY <1>7, ToldNext DEF clientVars
  <2>4. Told(stdout \o World.out)'
    BY <2>2, <2>3 DEF Told, Quiet, Advance, Timely
  <2>5. Fit(stdout \o World.out, World.docs, World.problems, Horizon)'
    BY <1>8, <1>9, <1>10, <2>1, <2>2, <2>4 DEF Fit
  <2> QED
    BY <1>11, <2>5 DEF FitWorld
<1>13. Live' /\ Rest'
  BY <1>1, <1>2, <1>4, <1>12 DEF Live, Rest, Running, Deferred
<1>14. /\ serving' \in BOOLEAN /\ unflushed' \in BOOLEAN /\ cancelled' \subseteq Ids
       /\ lifecycle' \in {"PreInit", "Running", "Shutdown"} /\ lifecycle' # "PreInit"
       /\ pending' = pending
  BY <1>1 DEF Inv, Types
<1> QED
  BY <1>1, <1>2, <1>3, <1>6, <1>11, <1>13, <1>14, Handled

LEMMA BeginShutdownStep ==
  ASSUME Inv, BeginShutdown, UNCHANGED clientVars
  PROVE  Inv'
<1> DEFINE msg == Head(inbox)
           f == [k |-> "bye", id |-> msg.id]
<1>1. /\ Handling({"shutdown"}) /\ unflushed' = FALSE /\ lifecycle' = "Shutdown"
      /\ stdout' = Append(stdout, f)
      /\ docs' = [u \in Uris |-> NoVersion] /\ ready' = FALSE /\ problems' = {}
      /\ pending' = NoSync /\ UNCHANGED <<cancelled, serving>>
  BY DEF BeginShutdown
<1>2. msg.k = "shutdown" /\ msg \in InFrame
  BY <1>1, Handles
<1>3. f \in OutFrame /\ f.k = "bye"
  <2>1. msg.id \in Ids
    BY <1>2, InFields DEF HasId
  <2> QED
    BY <2>1 DEF OutFrame
<1> HIDE DEF f
<1>4. Told(stdout')
  BY <1>1, <1>3, ToldSoFar, ToldAppend
<1>5. /\ serving' \in BOOLEAN /\ unflushed' \in BOOLEAN /\ cancelled' \subseteq Ids
      /\ lifecycle' \in {"PreInit", "Running", "Shutdown"} /\ lifecycle' # "PreInit"
      /\ ~Running'
  BY <1>1 DEF Inv, Types, Running
<1> QED
  BY <1>1, <1>2, <1>4, <1>5, OutSession

LEMMA OutOfTurnStep ==
  ASSUME Inv, OutOfTurn, UNCHANGED clientVars
  PROVE  Inv'
<1> DEFINE msg == Head(inbox)
           kinds == {"sync", "didClose", "didSave", "request", "cancel", "initialize",
                     "initialized", "shutdown"}
<1>1. /\ Handling(kinds) /\ unflushed' = FALSE
      /\ UNCHANGED <<lifecycle, pending, cancelled, serving>>
      /\ \/ Gate(msg) = "reject" /\ Becomes(Refuse(World, msg.id))
         \/ Gate(msg) = "ignore" /\ UNCHANGED <<stdout, docs, ready, problems>>
  BY DEF OutOfTurn
<1>2. msg.k \in kinds /\ msg \in InFrame /\ serving
  BY <1>1, Handles
<1> DEFINE f == [k |-> "error", id |-> msg.id]
<1>3. Gate(msg) = "reject" => msg.id \in Ids /\ f \in OutFrame /\ f.k = "error"
  <2>1. Gate(msg) = "reject" => msg.id \in Ids
    BY <1>2, InFields, GateFacts
  <2> QED
    BY <2>1 DEF OutFrame
<1>4. Gate(msg) = "reject" => Becomes([World EXCEPT !.out = Append(World.out, f)])
  BY <1>1 DEF Refuse
<1>5. unflushed' \in BOOLEAN /\ cancelled' \subseteq Ids
  BY <1>1 DEF Inv, Types
<1>6. CASE Running
  <2>1. lifecycle = "Running"
    BY <1>6 DEF Running
  <2>2. msg.k = "initialize"
    BY <1>1, <2>1, GateFacts
  <2>3. Gate(msg) = "reject"
    BY <2>1, <2>2 DEF Gate, HasId
  <2> DEFINE n == [World EXCEPT !.out = Append(World.out, f)]
  <2>4. f \in OutFrame /\ f.k = "error" /\ Becomes(n)
    BY <1>3, <1>4, <2>3
  <2> HIDE DEF f
  <2>5. FitWorld(n)
    BY <1>6, <2>4, FitNow, FrameFit
  <2>6. n.docs = docs /\ n.out = <<f>>
    BY WorldFields DEF World
  <2> HIDE DEF n
  <2>7. Answers(n)
    BY <2>4, <2>6 DEF Answers
  <2> QED
    BY <1>1, <1>5, <1>6, <2>2, <2>5, <2>7, AnswerStep
<1>7. CASE ~Running
  <2>1. /\ Told(stdout) /\ stdout \in Seq(OutFrame)
        /\ pending = NoSync /\ docs = [u \in Uris |-> NoVersion] /\ ready = FALSE /\ problems = {}
        /\ lifecycle = "PreInit" => \A i \in DOMAIN stdout : stdout[i].k = "error"
    BY <1>7, AtRest
  <2>2. /\ docs' = docs /\ ready' = ready /\ problems' = problems
        /\ stdout' = stdout \/ (msg.id \in Ids /\ stdout' = Append(stdout, f))
    <3>1. CASE Gate(msg) = "reject"
      <4>1. [World EXCEPT !.out = Append(World.out, f)]
              = [docs |-> docs, ready |-> ready, problems |-> problems, out |-> <<f>>]
        BY DEF World
      <4>2. docs' = docs /\ ready' = ready /\ problems' = problems /\ stdout' = stdout \o <<f>>
        BY <1>4, <3>1, <4>1 DEF Becomes
      <4>3. f \in OutFrame
        BY <1>3, <3>1
      <4> HIDE DEF f
      <4>4. stdout \o <<f>> = Append(stdout, f)
        BY <2>1, <4>3
      <4> QED
        BY <1>3, <3>1, <4>2, <4>4
    <3>2. CASE Gate(msg) = "ignore"
      BY <1>1, <3>2
    <3> QED
      BY <1>1, <3>1, <3>2
  <2>3. /\ Told(stdout')
        /\ lifecycle = "PreInit" => \A i \in DOMAIN stdout' : stdout'[i].k = "error"
    BY <2>1, <2>2, ErrorToo
  <2>4. /\ serving' \in BOOLEAN /\ ~Running'
        /\ lifecycle' \in {"PreInit", "Running", "Shutdown"} /\ lifecycle' = lifecycle
    BY <1>1, <1>7 DEF Inv, Types, Running
  <2> QED
    BY <1>1, <1>2, <1>5, <2>1, <2>2, <2>3, <2>4, OutSession
<1> QED
  BY <1>6, <1>7

LEMMA MalformedOutside ==
  ASSUME Inv, Malformed, UNCHANGED clientVars, ~Running
  PROVE  Inv'
<1> DEFINE f == [k |-> "error", id |-> NoId]
<1>1. /\ Handling({"malformed"}) /\ pending' = NoSync /\ unflushed' = FALSE
      /\ UNCHANGED <<lifecycle, cancelled, serving>>
  BY DEF Malformed
<1>2. Head(inbox).k = "malformed"
  BY <1>1, Handles
<1>3. /\ stdout \in Seq(OutFrame)
      /\ pending = NoSync /\ docs = [u \in Uris |-> NoVersion] /\ ready = FALSE /\ problems = {}
  BY AtRest
<1>4. Becomes(Refuse(World, NoId))
  BY <1>3 DEF Malformed, Flush
<1>5. Refuse(World, NoId)
        = [docs |-> docs, ready |-> ready, problems |-> problems, out |-> <<f>>]
  BY DEF World, Refuse
<1>6. docs' = docs /\ ready' = ready /\ problems' = problems /\ stdout' = stdout \o <<f>>
  BY <1>4, <1>5 DEF Becomes
<1>7. f \in OutFrame
  BY DEF OutFrame
<1>8. stdout' = Append(stdout, f)
  <2> HIDE DEF f
  <2> QED
    BY <1>3, <1>6, <1>7
<1>9. /\ Told(stdout')
      /\ lifecycle = "PreInit" => \A i \in DOMAIN stdout' : stdout'[i].k = "error"
  BY <1>8, ErrorToo
<1>10. /\ serving' \in BOOLEAN /\ ~Running' /\ cancelled' \subseteq Ids
       /\ lifecycle' \in {"PreInit", "Running", "Shutdown"} /\ lifecycle' = lifecycle
  BY <1>1 DEF Inv, Types, Running
<1> QED
  BY <1>1, <1>2, <1>3, <1>6, <1>9, <1>10, OutSession

LEMMA StopStep ==
  ASSUME Inv, Stop, UNCHANGED clientVars
  PROVE  Inv'
<1>1. /\ Handling({"eof", "exit", "fatal"}) /\ pending' = NoSync /\ serving' = FALSE
      /\ docs' = [u \in Uris |-> NoVersion] /\ ready' = FALSE /\ problems' = {}
      /\ unflushed' = FALSE /\ UNCHANGED <<lifecycle, cancelled>>
      /\ stdout' = stdout \/ stdout' = Append(stdout, [k |-> "error", id |-> NoId])
  BY DEF Stop
<1>2. /\ Told(stdout')
      /\ lifecycle = "PreInit" => \A i \in DOMAIN stdout' : stdout'[i].k = "error"
  BY <1>1, ToldSoFar, ErrorToo
<1>3. /\ ~Running' /\ cancelled' \subseteq Ids
      /\ lifecycle' \in {"PreInit", "Running", "Shutdown"} /\ lifecycle' = lifecycle
  BY <1>1 DEF Inv, Types, Running
<1> QED
  BY <1>1, <1>2, <1>3, OutSession

-----------------------------------------------------------------------------
(* Steps that handle no message *)

(* The documents and what was said of them stay. *)
LEMMA Keeps ==
  ASSUME Inv, UNCHANGED <<stdout, lifecycle, docs, ready, problems, pending, serving, profile>>,
         Types', Ordered(Queue, version)', Stops',
         \A g \in Horizon' : \E h \in Horizon : h <= g,
         Orderly /\ Running => AsksOf(Queue', Flushed, latest')
  PROVE  Inv'
<1>1. Running' = Running /\ Flushed' = Flushed /\ (Orderly' <=> Orderly)
  BY DEF Running, Flushed, Orderly
<1>2. Horizon \in SUBSET Nat /\ Horizon' \in SUBSET Nat
  <2>1. Horizon \in SUBSET Nat
    BY HorizonNat DEF Inv
  <2>2. Queue' \in Seq(InFrame) /\ version' \in Nat
    BY DEF Types, Queue
  <2>3. \A f \in InFrame : f.k = "sync" => f.ver \in Nat
    BY DEF InFrame
  <2> QED
    BY <2>1, <2>2, <2>3 DEF Horizon, HorizonOf
<1>3. Live'
  <2>1. SUFFICES ASSUME Running PROVE FitWorld(World)' /\ Deferred'
    BY <1>1 DEF Live
  <2>2. FitWorld(World) /\ Becomes(World)
    BY <2>1, FitNow, WorldFits
  <2>3. FitWorld(World)'
    BY <1>2, <2>1, <2>2, FitNow, BecomesFit
  <2>4. Deferred'
    <3>1. SUFFICES ASSUME pending # NoSync, NEW g \in Horizon' PROVE pending.ver <= g
      BY <2>1, FitNow DEF Deferred
    <3>2. PICK h \in Horizon : h <= g
      OBVIOUS
    <3>3. pending.ver <= h /\ pending.ver \in Nat
      BY <2>1, <3>1, FitNow DEF Deferred, Types
    <3> QED
      BY <1>2, <3>2, <3>3
  <2> QED
    BY <2>3, <2>4
<1>4. Rest'
  <2>1. ~Running => Told(stdout)'
    BY AtRest, ToldNext
  <2> QED
    BY <1>1, <2>1 DEF Inv, Rest
<1>5. Asks'
  <2>1. SUFFICES ASSUME Orderly, Running PROVE AsksOf(Queue', Flushed', latest')
    BY <1>1 DEF Asks
  <2> QED
    BY <1>1, <2>1
<1>6. (Orderly => lifecycle # "PreInit")'
  BY <1>1 DEF Inv
<1> QED
  BY <1>3, <1>4, <1>5, <1>6 DEF Inv

LEMMA HorizonKept ==
  ASSUME Inv, Queue' = Queue, version' = version
  PROVE  Ordered(Queue, version)' /\ Horizon' = Horizon
         /\ \A g \in Horizon' : \E h \in Horizon : h <= g
<1>1. Horizon \in SUBSET Nat
  BY HorizonNat DEF Inv
<1>2. Horizon' = Horizon
  BY DEF Horizon
<1>3. \A g \in Horizon : g <= g
  BY <1>1
<1> QED
  BY <1>2, <1>3 DEF Inv

LEMMA Stutter ==
  ASSUME Inv, UNCHANGED allVars
  PROVE  Inv'
<1>1. /\ Types' /\ Stops' /\ Queue' = Queue /\ version' = version /\ latest' = latest
      /\ UNCHANGED <<stdout, lifecycle, docs, ready, problems, pending, serving, profile>>
  BY DEF Inv, Types, Stops, Queue, allVars, vars, clientVars, World
<1> QED
  BY <1>1, HorizonKept, Keeps DEF Inv, Asks

LEMMA Moves ==
  ASSUME NEW q \in Seq(InFrame), NEW s \in Seq(InFrame), s # <<>>
  PROVE  Append(q, Head(s)) \o Tail(s) = q \o s
OBVIOUS

LEMMA TakeStep ==
  ASSUME Inv, Take, UNCHANGED clientVars
  PROVE  Inv'
<1>1. /\ serving /\ ~working /\ inbox' = <<Frame>> /\ cancelled' = {} /\ unflushed' = FALSE
      /\ stdin' = IF stdin = <<>> THEN stdin ELSE Tail(stdin)
      /\ reading' = FrameContinues(Frame) /\ working' = TRUE
      /\ UNCHANGED <<closed, stdout, lifecycle, docs, ready, problems, pending, serving>>
  BY DEF Take
<1>2. /\ inbox = <<>> /\ stdin \in Seq(InFrame) /\ Queue = stdin /\ Queue \in Seq(InFrame)
      /\ version \in Nat
  BY <1>1, SMTT(60) DEF Inv, Types, Queue
<1>3. /\ Frame \in InFrame /\ stdin' \in Seq(InFrame)
      /\ stdin = <<>> => Frame.k = "eof"
  BY <1>1, <1>2 DEF Frame, InFrame
<1>4. Types'
  <2>1. inbox' \in Seq(InFrame) /\ reading' \in BOOLEAN
    BY <1>1, <1>3 DEF FrameContinues
  <2>2. IsWorld(World)'
    BY <1>1 DEF Inv, Types, World
  <2> QED
    BY <1>1, <1>3, <2>1, <2>2 DEF Inv, Types, clientVars
<1>5. Stops'
  <2>1. inbox' # <<>> /\ Len(inbox') = 1 /\ inbox'[1] = Frame
    BY <1>1
  <2> QED
    BY <1>1, <2>1 DEF Stops, FrameContinues
<1>6. CASE stdin = <<>>
  <2>1. Queue' = Append(Queue, Frame)
    BY <1>1, <1>2, <1>3, <1>6 DEF Queue
  <2>2. Frame.k = "eof" /\ version' = version /\ latest' = latest
    BY <1>3, <1>6 DEF clientVars
  <2>3. /\ Ordered(Queue, version)'
        /\ \A g \in Horizon' : \E h \in Horizon : h <= g
    BY <1>2, <1>3, <2>1, <2>2, QueueAppend DEF Inv, Horizon
  <2>4. Orderly /\ Running => AsksOf(Queue', Flushed, latest')
    <3>1. After(Frame, latest) = latest /\ latest \in [Uris -> Nat]
      BY <2>2 DEF After, Inv, Types
    <3> QED
      BY <1>2, <1>3, <2>1, <2>2, <3>1, AsksAppend DEF Inv, Asks
  <2> QED
    BY <1>1, <1>4, <1>5, <2>3, <2>4, Keeps DEF clientVars
<1>7. CASE stdin # <<>>
  <2>1. Queue' = Queue
    <3>1. Append(<<>>, Head(stdin)) \o Tail(stdin) = <<>> \o stdin
      BY <1>2, <1>7, Moves
    <3>2. Append(<<>>, Head(stdin)) = <<Head(stdin)>> /\ <<>> \o stdin = stdin
      BY <1>2
    <3> QED
      BY <1>1, <1>2, <1>7, <3>1, <3>2 DEF Queue, Frame
  <2> QED
    BY <1>1, <1>4, <1>5, <2>1, HorizonKept, Keeps DEF clientVars, Inv, Asks
<1> QED
  BY <1>6, <1>7

LEMMA ReadAheadStep ==
  ASSUME Inv, ReadAhead, UNCHANGED clientVars
  PROVE  Inv'
<1>1. /\ serving /\ working /\ stdin # <<>>
      /\ inbox' = Append(inbox, Frame) /\ stdin' = Tail(stdin)
      /\ cancelled' = cancelled \cup CancelTarget(Frame)
      /\ reading' = FrameContinues(Frame)
      /\ UNCHANGED <<closed, stdout, lifecycle, docs, ready, problems, pending,
                     unflushed, working, serving>>
  BY DEF ReadAhead
<1>2. inbox \in Seq(InFrame) /\ stdin \in Seq(InFrame)
  BY DEF Inv, Types
<1>3. Frame = Head(stdin) /\ Frame \in InFrame /\ inbox' \in Seq(InFrame) /\ stdin' \in Seq(InFrame)
  BY <1>1, <1>2 DEF Frame
<1>4. Types'
  <2>1. cancelled' \subseteq Ids
    BY <1>1, <1>3, InFields DEF Inv, Types, CancelTarget
  <2> QED
    BY <1>1, <1>3, <2>1 DEF Inv, Types, World, FrameContinues, clientVars
<1>5. Stops'
  <2>1. Len(inbox') = Len(inbox) + 1 /\ inbox'[Len(inbox) + 1] = Frame /\ inbox' # <<>>
    BY <1>1, <1>2, <1>3
  <2> QED
    BY <1>1, <2>1 DEF Stops, FrameContinues
<1>6. Queue' = Queue
  BY <1>1, <1>2, <1>3, Moves DEF Queue
<1> QED
  BY <1>1, <1>4, <1>5, <1>6, HorizonKept, Keeps DEF clientVars, Inv, Asks

(* The analysis that no message asked for *)
LEMMA FlushStep ==
  ASSUME Inv, NEW n \in Flush(World), Becomes(n), pending' = NoSync, UNCHANGED clientVars,
         UNCHANGED <<stdin, closed, lifecycle, inbox, reading, cancelled, unflushed, serving>>,
         working' \in BOOLEAN, inbox = <<>>, Stops'
  PROVE  Inv'
<1>1. Queue' = Queue /\ version' = version /\ latest' = latest /\ profile' = profile
  BY DEF Queue, clientVars
<1>2. /\ Ordered(Queue, version)' /\ Horizon' = Horizon /\ Horizon \in SUBSET Nat
      /\ \A g \in Horizon' : \E h \in Horizon : h <= g
  BY <1>1, HorizonKept, HorizonNat DEF Inv
<1>3. ASSUME stdout' \in Seq(OutFrame), IsWorld(World)'
      PROVE  Types'
  BY <1>3 DEF Inv, Types, clientVars, NoSync, NoVersion, Files
<1>4. CASE Running
  <2>1. FitWorld(n) /\ n.docs = Flushed /\ Deferred' /\ Flushed' = docs'
    BY <1>4, FlushNext
  <2>2. stdout' \in Seq(OutFrame) /\ IsWorld(World)' /\ FitWorld(World)' /\ docs' = n.docs
    BY <1>1, <1>2, <2>1, BecomesFit DEF Inv
  <2>3. Types'
    BY <1>3, <2>2
  <2>4. Live' /\ Rest'
    BY <1>4, <2>1, <2>2 DEF Live, Rest, Running
  <2>5. Asks'
    BY <1>1, <1>4, <2>1, <2>2 DEF Inv, Asks, Orderly
  <2>6. (Orderly => lifecycle # "PreInit")'
    BY <1>1 DEF Inv, Orderly
  <2> QED
    BY <1>2, <2>3, <2>4, <2>5, <2>6 DEF Inv
<1>5. CASE ~Running
  <2>1. pending = NoSync /\ n = World
    BY <1>5, AtRest DEF Flush
  <2>2. UNCHANGED <<stdout, docs, ready, problems, pending>>
    BY <2>1, WorldFields DEF Becomes, Inv
  <2>3. Types'
    BY <1>3, <2>2 DEF Inv, Types, World
  <2> QED
    BY <1>1, <1>2, <1>5, <2>2, <2>3, Keeps
<1> QED
  BY <1>4, <1>5

LEMMA DebounceStep ==
  ASSUME Inv, Debounce, UNCHANGED clientVars
  PROVE  Inv'
<1>1. /\ serving /\ ~working /\ pending' = NoSync
      /\ UNCHANGED <<stdin, closed, lifecycle, inbox, reading, cancelled,
                     unflushed, working, serving>>
  BY DEF Debounce
<1>2. inbox = <<>> /\ working' \in BOOLEAN /\ Stops'
  BY <1>1 DEF Inv, Types, Stops
<1>3. PICK n \in Flush(World) : Becomes(n)
  BY DEF Debounce
<1> QED
  BY <1>1, <1>2, <1>3, FlushStep

LEMMA BatchOverStep ==
  ASSUME Inv, BatchOver, UNCHANGED clientVars
  PROVE  Inv'
<1>1. /\ inbox = <<>> /\ working' = FALSE
      /\ UNCHANGED <<stdin, closed, lifecycle, inbox, reading, cancelled, unflushed, serving>>
  BY DEF BatchOver
<1>2. working' \in BOOLEAN /\ Stops'
  BY <1>1 DEF Stops
<1>3. CASE unflushed
  <2>1. pending' = NoSync /\ \E w \in Flush(World) : Becomes(w)
    BY <1>3 DEF BatchOver
  <2>2. PICK n \in Flush(World) : Becomes(n)
    BY <2>1
  <2> QED
    BY <1>1, <1>2, <2>1, <2>2, FlushStep
<1>4. CASE ~unflushed
  <2>1. UNCHANGED <<docs, ready, problems, stdout, pending>>
    BY <1>4 DEF BatchOver
  <2>2. Types'
    BY <1>1, <2>1 DEF Inv, Types, World, clientVars
  <2>3. Queue' = Queue
    BY <1>1 DEF Queue
  <2> QED
    BY <1>1, <1>2, <2>1, <2>2, <2>3, HorizonKept, Keeps DEF clientVars, Inv, Asks
<1> QED
  BY <1>3, <1>4

-----------------------------------------------------------------------------
(* The client's steps *)

LEMMA WriteStep ==
  ASSUME Inv, NEW msg \in InFrame, Write(msg),
         version' = IF msg.k = "sync" THEN version + 1 ELSE version,
         msg.k = "sync" => msg.ver = version + 1,
         latest' = After(msg, latest),
         msg.k = "request" => msg.about = latest[msg.uri]
  PROVE  Inv'
<1>1. /\ serving /\ sends < MaxSends /\ sends' = sends + 1 /\ stdin' = Append(stdin, msg)
      /\ UNCHANGED <<closed, stdout, lifecycle, docs, ready, problems, pending, inbox,
                     reading, cancelled, unflushed, working, serving, profile>>
  BY DEF Write
<1>2. /\ inbox \in Seq(InFrame) /\ stdin \in Seq(InFrame) /\ version \in Nat
      /\ sends \in 0..MaxSends /\ version <= sends /\ latest \in [Uris -> Nat]
  BY DEF Inv, Types
<1>3. Queue \in Seq(InFrame) /\ Queue' = Append(Queue, msg)
  BY <1>1, <1>2 DEF Queue
<1>4. version' \in Nat /\ version <= version' /\ version' <= sends' /\ sends' \in 0..MaxSends
      /\ (msg.k = "sync" => msg.ver = version')
  BY <1>1, <1>2, SendsAssumption
<1>5. latest' \in [Uris -> Nat]
  BY <1>2, InFields DEF After, Carried, NoVersion
<1>6. Types'
  <2>1. stdin' \in Seq(InFrame)
    BY <1>1, <1>2
  <2>2. IsWorld(World)'
    BY <1>1 DEF Inv, Types, World
  <2> QED
    BY <1>1, <1>4, <1>5, <2>1, <2>2 DEF Inv, Types
<1>7. Stops'
  BY <1>1 DEF Inv, Stops
<1>8. /\ Ordered(Queue, version)'
      /\ \A g \in Horizon' : \E h \in Horizon : h <= g
  BY <1>2, <1>3, <1>4, QueueAppend DEF Inv, Horizon
<1>9. Orderly /\ Running => AsksOf(Queue', Flushed, latest')
  BY <1>2, <1>3, AsksAppend DEF Inv, Asks
<1> QED
  BY <1>1, <1>6, <1>7, <1>8, <1>9, Keeps

LEMMA CloseStdinStep ==
  ASSUME Inv, CloseStdin
  PROVE  Inv'
<1>1. /\ closed' = TRUE
      /\ UNCHANGED <<stdin, stdout, lifecycle, docs, ready, problems, pending, inbox,
                     reading, cancelled, unflushed, working, serving, clientVars>>
  BY DEF CloseStdin
<1>2. Types' /\ Stops' /\ Queue' = Queue
  BY <1>1 DEF Inv, Types, Stops, Queue, World, clientVars
<1> QED
  BY <1>1, <1>2, HorizonKept, Keeps DEF clientVars, Inv, Asks

LEMMA WritesStep ==
  ASSUME Inv,
         \/ \E u \in Uris : WriteSync(u) \/ WriteClose(u)
         \/ \E u \in Uris, class \in RequestClasses : WriteRequest(u, class)
         \/ \E u \in Uris \cup {Manifest} : WriteSave(u)
         \/ WriteOther
  PROVE  Inv'
<1>0. version \in Nat /\ latest \in [Uris -> Nat]
  BY DEF Inv, Types
<1>1. ASSUME NEW u \in Uris, WriteSync(u) PROVE Inv'
  <2> DEFINE msg == [k |-> "sync", uri |-> u, ver |-> version + 1]
  <2>1. msg \in InFrame /\ msg.k = "sync" /\ msg.uri = u /\ msg.ver = version + 1
    BY <1>0 DEF InFrame
  <2>2. Write(msg) /\ version' = version + 1 /\ latest' = [latest EXCEPT ![u] = version + 1]
    BY <1>1 DEF WriteSync
  <2> HIDE DEF msg
  <2> QED
    BY <2>1, <2>2, WriteStep DEF After, Carried
<1>2. ASSUME NEW u \in Uris, WriteClose(u) PROVE Inv'
  <2> DEFINE msg == [k |-> "didClose", uri |-> u]
  <2>1. msg \in InFrame /\ msg.k = "didClose" /\ msg.uri = u
    BY DEF InFrame
  <2>2. Write(msg) /\ version' = version /\ latest' = [latest EXCEPT ![u] = NoVersion]
    BY <1>2 DEF WriteClose
  <2> HIDE DEF msg
  <2> QED
    BY <2>1, <2>2, WriteStep DEF After, Carried
<1>3. ASSUME NEW u \in Uris, NEW class \in RequestClasses, WriteRequest(u, class) PROVE Inv'
  <2>1. PICK id \in Ids :
          Write([k |-> "request", id |-> id, class |-> class, uri |-> u, about |-> latest[u]])
    BY <1>3 DEF WriteRequest, Fresh
  <2> DEFINE msg == [k |-> "request", id |-> id, class |-> class, uri |-> u, about |-> latest[u]]
  <2>2. msg \in InFrame /\ msg.k = "request" /\ msg.uri = u /\ msg.about = latest[u]
    BY <1>0 DEF InFrame
  <2>3. Write(msg) /\ version' = version /\ latest' = latest
    BY <1>3, <2>1 DEF WriteRequest
  <2> HIDE DEF msg
  <2> QED
    BY <2>2, <2>3, WriteStep DEF After
<1>4. ASSUME NEW u \in Uris \cup {Manifest}, WriteSave(u) PROVE Inv'
  <2> DEFINE msg == [k |-> "didSave", uri |-> u]
  <2>1. msg \in InFrame /\ msg.k = "didSave"
    BY DEF InFrame
  <2>2. Write(msg) /\ version' = version /\ latest' = latest
    BY <1>4 DEF WriteSave
  <2> HIDE DEF msg
  <2> QED
    BY <2>1, <2>2, WriteStep DEF After
<1>5. ASSUME WriteOther PROVE Inv'
  <2>1. PICK msg \in InFrame :
          /\ Write(msg)
          /\ msg.k \in {"initialize", "shutdown", "cancel", "initialized", "exit",
                        "malformed", "fatal"}
    <3>1. CASE \E id \in Fresh, kind \in {"initialize", "shutdown"} : Write([k |-> kind, id |-> id])
      <4>1. PICK id \in Ids, kind \in {"initialize", "shutdown"} : Write([k |-> kind, id |-> id])
        BY <3>1 DEF Fresh
      <4>2. [k |-> kind, id |-> id] \in InFrame
        BY DEF InFrame
      <4> QED
        BY <4>1, <4>2
    <3>2. CASE \E id \in Ids : Write([k |-> "cancel", id |-> id])
      <4>1. PICK id \in Ids : Write([k |-> "cancel", id |-> id])
        BY <3>2
      <4>2. [k |-> "cancel", id |-> id] \in InFrame
        BY DEF InFrame
      <4> QED
        BY <4>1, <4>2
    <3>3. CASE \E kind \in {"initialized", "exit", "malformed", "fatal"} : Write([k |-> kind])
      <4>1. PICK kind \in {"initialized", "exit", "malformed", "fatal"} : Write([k |-> kind])
        BY <3>3
      <4>2. [k |-> kind] \in InFrame
        BY DEF InFrame
      <4> QED
        BY <4>1, <4>2
    <3> QED
      BY <1>5, <3>1, <3>2, <3>3 DEF WriteOther
  <2>2. version' = version /\ latest' = latest
    BY <1>5 DEF WriteOther
  <2> QED
    BY <2>1, <2>2, WriteStep DEF After
<1> QED
  BY <1>1, <1>2, <1>3, <1>4, <1>5

-----------------------------------------------------------------------------
(* The invariant holds. *)

LEMMA InvInit ==
  ASSUME ClientInit
  PROVE  Inv
<1> DEFINE f == [k |-> "initialized", id |-> NoId]
<1>1. PICK stage, said :
        /\ Started(stage, said)
        /\ \/ stage = "PreInit" /\ said = <<>> /\ ~Orderly
           \/ stage = "Running" /\ said = <<f>> /\ Orderly
  BY DEF ClientInit, Init, Orderly
<1>2. /\ stdin = <<>> /\ closed = FALSE /\ stdout = said /\ lifecycle = stage
      /\ docs = [u \in Uris |-> NoVersion] /\ ready = FALSE /\ problems = {}
      /\ pending = NoSync /\ inbox = <<>> /\ reading = TRUE /\ cancelled = {}
      /\ unflushed = FALSE /\ working = FALSE /\ serving = TRUE
  BY <1>1 DEF Started
<1>3. f \in OutFrame /\ f.k = "initialized"
  BY DEF OutFrame
<1> HIDE DEF f
<1>4. said \in Seq(OutFrame) /\ <<>> \in Seq(OutFrame)
  <2>1. <<f>> \in Seq(OutFrame)
    BY <1>3
  <2>2. <<>> \in Seq(OutFrame)
    OBVIOUS
  <2> QED
    BY <1>1, <2>1, <2>2
<1>5. Told(<<>>)
  BY <1>4 DEF Told, Quiet, Advance, Timely
<1>6. Told(said)
  <2>1. Append(<<>>, f) = <<f>>
    BY <1>3
  <2>2. Told(Append(<<>>, f))
    BY <1>3, <1>5, ToldAppend
  <2> QED
    BY <1>1, <1>5, <2>1, <2>2
<1>7. IsWorld(World)
  <2>1. Members(docs) = {}
    BY <1>2, UrisAssumption DEF Members
  <2> QED
    BY <1>2, <1>4, <2>1 DEF IsWorld, Typed, Slot, World, NoVersion
<1>8. Types
  <2>1. NoSync \in [uri : Files, ver : Nat]
    BY DEF NoSync, NoVersion, Files
  <2>2. sends = 0 /\ version = 0 /\ latest = [u \in Uris |-> 0] /\ profile \in Profiles
    BY DEF ClientInit, NoVersion
  <2>3. <<>> \in Seq(InFrame)
    OBVIOUS
  <2>4. sends \in 0..MaxSends /\ version <= sends
    BY <2>2, SendsAssumption
  <2>5. lifecycle \in {"PreInit", "Running", "Shutdown"}
    BY <1>1, <1>2
  <2> QED
    BY <1>2, <1>4, <1>7, <2>1, <2>2, <2>3, <2>4, <2>5 DEF Types
<1>9. Queue = <<>> /\ DOMAIN Queue = {} /\ Len(Queue) = 0
  BY <1>2 DEF Queue
<1>10. Ordered(Queue, version)
  BY <1>9 DEF Ordered
<1>11. Live
  <2>1. SUFFICES ASSUME Running PROVE FitWorld(World)
    BY <1>2 DEF Live, Deferred
  <2>2. said = <<f>> /\ DOMAIN said = {1} /\ said[1] = f
    BY <1>1, <1>2, <2>1 DEF Running
  <2>3. Begun(said)
    BY <1>3, <2>2 DEF Begun
  <2>4. Below(said, docs) /\ Shown(said, problems)
    BY <1>3, <2>2 DEF Below, Shown
  <2>5. Behind(said, docs, Horizon)
    BY <1>2, <1>3, <1>8, <2>2, HorizonNat DEF Behind, NoVersion
  <2> QED
    BY <1>2, <1>6, <1>7, <1>8, <2>3, <2>4, <2>5, WorldFields DEF FitWorld, Fit
<1>12. Rest
  <2>1. lifecycle = "PreInit" => \A i \in DOMAIN stdout : stdout[i].k = "error"
    BY <1>1, <1>2
  <2> QED
    BY <1>2, <1>6, <2>1 DEF Rest
<1>13. Asks
  <2>1. \A u \in Uris : Flushed[u] = latest[u]
    BY <1>2 DEF Flushed, ClientInit
  <2>2. Len(Queue) + 1 - 1 = 0
    BY <1>9
  <2> QED
    BY <1>9, <2>1, <2>2 DEF Asks, AsksOf, Names
<1>14. Stops /\ (Orderly => lifecycle # "PreInit")
  BY <1>1, <1>2 DEF Stops
<1> QED
  BY <1>8, <1>10, <1>11, <1>12, <1>13, <1>14 DEF Inv

LEMMA InvNext ==
  ASSUME Inv, [ClientNext]_allVars
  PROVE  Inv'
<1>1. CASE Server
  <2>1. Next /\ UNCHANGED clientVars
    BY <1>1 DEF Server
  <2>2. CASE Malformed
    BY <2>1, <2>2, MalformedStep, MalformedOutside
  <2> QED
    BY <2>1, <2>2, TakeStep, DebounceStep, ReadAheadStep, BatchOverStep, SyncStep,
       CancelledStep, ReadTextStep, ReadAnalysisStep, DidCloseStep, DidSaveStep, InertStep,
       InitializeStep, BeginShutdownStep, OutOfTurnStep, StopStep DEF Next
<1>2. CASE UNCHANGED allVars
  BY <1>2, Stutter
<1>3. CASE CloseStdin
  BY <1>3, CloseStdinStep
<1> QED
  BY <1>1, <1>2, <1>3, WritesStep DEF ClientNext

LEMMA Always == ClientSpec => []Inv
<1>1. ClientInit => Inv
  BY InvInit
<1>2. Inv /\ [ClientNext]_allVars => Inv'
  BY InvNext
<1> QED
  BY <1>1, <1>2, PTL DEF ClientSpec

(* The server's state keeps its shape, however many documents, messages and
   clients there are; no version exceeds what the client has sent. *)
THEOREM TypeCorrect == ClientSpec => []TypeOK
<1>1. ASSUME Inv PROVE TypeOK
  <2>1. Types /\ Slot(World) /\ version \in Nat /\ sends \in 0..MaxSends /\ version <= sends
        /\ docs \in [Uris -> Nat]
    BY <1>1, WorldFields DEF Inv, Types, IsWorld
  <2>2. docs \in [Uris -> 0..MaxSends]
    <3>1. \A u \in Uris : docs[u] <= version
      <4>1. CASE Running
        <5>1. Behind(stdout \o World.out, World.docs, Horizon) /\ version \in Horizon
          BY <1>1, <4>1, FitNow DEF FitWorld, Fit, Horizon, HorizonOf
        <5> QED
          BY <2>1, <5>1, WorldFields DEF Behind
      <4>2. CASE ~Running
        BY <1>1, <2>1, <4>2, AtRest DEF NoVersion
      <4> QED
        BY <4>1, <4>2
    <3> QED
      BY <2>1, <3>1, SendsAssumption
  <2>3. pending # NoSync => pending.uri \in Uris /\ pending.ver \in 1..MaxSends
    <3>1. SUFFICES ASSUME pending # NoSync
                   PROVE  pending.uri \in Uris /\ pending.ver \in 1..MaxSends
      OBVIOUS
    <3>2. Running
      BY <1>1, <3>1, AtRest
    <3>3. pending.ver <= version
      BY <1>1, <3>1, <3>2, FitNow DEF Deferred, Horizon, HorizonOf
    <3>4. pending.ver \in Nat /\ pending.ver # 0 /\ pending.uri \in Uris
      BY <2>1, <3>1 DEF Types
    <3> QED
      BY <2>1, <3>3, <3>4, SendsAssumption
  <2>4. \A i \in DOMAIN inbox : inbox[i].k \in Frames
    BY <2>1, InFields DEF Types
  <2>5. /\ ready \in BOOLEAN /\ problems \subseteq {Package, Manifest}
        /\ Members(docs) = {} => ~ready /\ problems = {}
        /\ Members(docs) # {} /\ ~ready => problems = {Manifest}
    BY <2>1, WorldFields DEF Types, IsWorld, Typed, Slot
  <2> QED
    BY <2>1, <2>2, <2>3, <2>4, <2>5 DEF Types, TypeOK
<1> QED
  BY <1>1, Always, PTL

(* Whatever was deferred, batched, cancelled or closed in between, an answer
   is about the text its client had sent last when it asked. *)
THEOREM AnswersTheText == ClientSpec => []AnswersTheTextAsked
<1>1. Inv => AnswersTheTextAsked
  BY ToldSoFar DEF Told, Timely, AnswersTheTextAsked
<1> QED
  BY <1>1, Always, PTL

(* The publishes of one document, in the order they are written, never go
   back to an older text, whoever had it analysed. *)
THEOREM PublishesRise == ClientSpec => []PublishesAdvance
<1>1. Inv => PublishesAdvance
  BY ToldSoFar DEF Told, Advance, PublishesAdvance
<1> QED
  BY <1>1, Always, PTL

(* The problems a client shows for a package or a manifest are the ones its
   workspace has, also after a refresh that failed and a last close. *)
THEOREM NothingLeft == ClientSpec => []NothingLeftShowing
<1>1. Inv => NothingLeftShowing
  <2>1. SUFFICES ASSUME Inv, Running PROVE Shown(stdout, problems)
    BY DEF Running, NothingLeftShowing, Shown
  <2> QED
    BY <2>1, FitNow, WorldFields DEF FitWorld, Fit
<1> QED
  BY <1>1, Always, PTL

(* Nothing is published or answered about a document before the session has
   begun or after it is over. *)
THEOREM QuietOutside == ClientSpec => []QuietOutsideSession
<1>1. Inv => QuietOutsideSession
  BY ToldSoFar DEF Told, Quiet, QuietOutsideSession
<1> QED
  BY <1>1, Always, PTL

(* Only a message that needs an analysis spends one on a text that a sync
   read or arrived behind it replaces. *)
THEOREM NoneReplaced == ClientSpec => NoReplacedAnalysis
<1> DEFINE Spent(u) ==
             /\ docs'[u] # docs[u] /\ docs'[u] # NoVersion
             /\ \E frame \in Range(inbox \o stdin) : frame.k = "sync" /\ frame.uri = u
           Needed(u) ==
             /\ inbox # <<>>
             /\ \/ ReadsAnalysis(Head(inbox))
                \/ Head(inbox).k = "malformed"
                \/ Head(inbox).k = "sync" /\ Head(inbox).uri # u
<1>1. ASSUME Inv, [ClientNext]_allVars, NEW u \in Uris, Spent(u)
      PROVE  Needed(u)
  <2>1. docs' # docs /\ docs'[u] # docs[u] /\ docs'[u] # NoVersion
    BY <1>1
  <2>2. ~(inbox = <<>> /\ stdin = <<>>)
    <3>1. SUFFICES ASSUME inbox = <<>>, stdin = <<>> PROVE FALSE
      OBVIOUS
    <3>2. DOMAIN (inbox \o stdin) = {}
      BY <3>1
    <3> QED
      BY <1>1, <3>2 DEF Range
  <2>3. /\ Types /\ World.docs = docs
        /\ \A id : Refuse(World, id).docs = docs
        /\ \A msg, ver : Answer(World, msg, ver).docs = docs
    BY <1>1 DEF Inv, World, Refuse, Answer
  <2>4. \A kinds : Handling(kinds) => inbox # <<>> /\ Head(inbox).k \in kinds
    BY DEF Handling, NothingToRead
  <2> HIDE DEF Spent, Needed
  <2>5. Server
    <3>1. ~(UNCHANGED docs)
      BY <2>1
    <3> QED
      BY <1>1, <3>1 DEF ClientNext, WriteSync, WriteClose, WriteRequest, WriteSave, WriteOther,
                        Write, CloseStdin, allVars, vars
  <2>6. CASE Take \/ ReadAhead \/ Inert \/ Initialize
    BY <2>1, <2>6 DEF Take, ReadAhead, Inert, Initialize
  <2>7. CASE Cancelled \/ ReadText \/ OutOfTurn
    BY <2>1, <2>3, <2>7 DEF Cancelled, ReadText, OutOfTurn, Becomes
  <2>8. CASE BeginShutdown \/ Stop
    BY <2>1, <2>8 DEF BeginShutdown, Stop
  <2>9. CASE Debounce
    BY <2>2, <2>9, <1>1 DEF Debounce, Inv, Types
  <2>10. CASE BatchOver
    BY <2>2, <2>10, <1>1 DEF BatchOver, AllRead, Inv, Stops
  <2>11. CASE ReadAnalysis \/ DidClose \/ DidSave \/ Malformed
    BY <2>4, <2>11 DEF ReadAnalysis, DidClose, DidSave, Malformed, ReadsAnalysis, Needed
  <2>12. CASE Sync
    <3> DEFINE msg == Head(inbox)
    <3>1. inbox # <<>> /\ msg.k = "sync" /\ msg.uri \in Uris /\ serving
      BY <1>1, <2>4, <2>5, <2>12, Handles, InFields DEF Sync, Server
    <3>2. Running
      BY <2>12, <3>1, GateFacts DEF Sync, Dispatching, Running
    <3>3. /\ pending # NoSync /\ pending.uri # msg.uri
          /\ \E w \in Flush(World) : Becomes(w)
      BY <2>1, <2>12 DEF Sync
    <3>4. docs' = Flushed
      BY <1>1, <3>2, <3>3, FitNow, FlushFit DEF Becomes
    <3>5. pending.uri = u
      BY <2>1, <3>3, <3>4 DEF Flushed
    <3> QED
      BY <3>1, <3>3, <3>5 DEF Needed
  <2> QED
    BY <2>5, <2>6, <2>7, <2>8, <2>9, <2>10, <2>11, <2>12 DEF Server, Next
<1>2. Inv /\ [ClientNext]_allVars => \A u \in Uris : Spent(u) => Needed(u)
  BY <1>1
<1> QED
  BY <1>2, Always, PTL DEF ClientSpec, NoReplacedAnalysis
=============================================================================
