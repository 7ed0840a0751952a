--------------------------- MODULE LspRelayProofs ---------------------------
(***************************************************************************)
(* Part one: a session that relays between any browser and any child       *)
(* (LspRelayAny) gives the child a legal LSP session, and the browser the  *)
(* answers it is owed.  Part two: with the language server as that child   *)
(* (PlaygroundSession), an answer is about the text it was asked of.       *)
(*                                                                         *)
(* The properties of part one are about everything the session ever wrote. *)
(* What they say is restated for a sequence (Legal, Count), with lemmas on *)
(* what one frame more does to it; the invariant then ties the sequences   *)
(* to the session's few variables.                                         *)
(***************************************************************************)
EXTENDS LspRelayAny, PlaygroundSession, FiniteSetTheorems, TLAPS

-----------------------------------------------------------------------------
(* PART ONE: WHAT IS RELAYED

   Sequences that only grow *)

LEMMA AppendFacts ==
  ASSUME NEW S, NEW s \in Seq(S), NEW e
  PROVE  LET t == Append(s, e) IN
         /\ t \in Seq(S \cup {e})
         /\ Len(s) \in Nat /\ Len(t) = Len(s) + 1
         /\ DOMAIN s = 1..Len(s) /\ DOMAIN t = 1..(Len(s) + 1)
         /\ \A i \in 1..Len(s) : t[i] = s[i]
         /\ t[Len(s) + 1] = e
<1>1. s \in Seq(S \cup {e})
  OBVIOUS
<1> QED
  BY <1>1

LEMMA ConcatOne ==
  ASSUME NEW S, NEW s \in Seq(S), NEW e
  PROVE  s \o <<e>> = Append(s, e)
<1>1. s \in Seq(S \cup {e})
  OBVIOUS
<1> QED
  BY <1>1

LEMMA OneFrame ==
  ASSUME NEW S, NEW e \in S
  PROVE  <<e>> \in Seq(S) /\ \A i \in DOMAIN <<e>> : <<e>>[i] = e
OBVIOUS

LEMMA TwoFrames ==
  ASSUME NEW S, NEW s \in Seq(S), NEW d \in S, NEW e \in S
  PROVE  /\ <<d, e>> \in Seq(S) /\ Append(s, d) \in Seq(S)
         /\ DOMAIN <<d, e>> = 1..2 /\ <<d, e>>[1] = d /\ <<d, e>>[2] = e
OBVIOUS

LEMMA ConcatTwo ==
  ASSUME NEW S, NEW s \in Seq(S), NEW d, NEW e
  PROVE  s \o <<d, e>> = Append(Append(s, d), e)
<1>1. s \in Seq(S \cup {d, e})
  OBVIOUS
<1> QED
  BY <1>1

(* The frames of some kinds under an id *)
Count(s, kinds, id) == Cardinality({i \in DOMAIN s : s[i].k \in kinds /\ s[i].id = id})

LEMMA CountAppend ==
  ASSUME NEW S, NEW s \in Seq(S), NEW e, NEW kinds, NEW id
  PROVE  /\ Count(s, kinds, id) \in Nat
         /\ e.k \in kinds /\ e.id = id =>
              Count(Append(s, e), kinds, id) = Count(s, kinds, id) + 1
         /\ ~(e.k \in kinds /\ e.id = id) =>
              Count(Append(s, e), kinds, id) = Count(s, kinds, id)
<1> DEFINE I == {i \in DOMAIN s : s[i].k \in kinds /\ s[i].id = id}
           J == {i \in DOMAIN Append(s, e) :
                   Append(s, e)[i].k \in kinds /\ Append(s, e)[i].id = id}
<1>1. /\ Len(s) \in Nat /\ DOMAIN s = 1..Len(s) /\ DOMAIN Append(s, e) = 1..(Len(s) + 1)
      /\ \A i \in 1..Len(s) : Append(s, e)[i] = s[i]
      /\ Append(s, e)[Len(s) + 1] = e
  BY AppendFacts
<1>2. IsFiniteSet(I)
  <2>1. IsFiniteSet(1..Len(s))
    BY <1>1, FS_Interval
  <2>2. I \subseteq 1..Len(s)
    BY <1>1
  <2> QED
    BY <2>1, <2>2, FS_Subset
<1>3. /\ e.k \in kinds /\ e.id = id => J = I \cup {Len(s) + 1}
      /\ ~(e.k \in kinds /\ e.id = id) => J = I
  BY <1>1
<1>4. Len(s) + 1 \notin I
  BY <1>1
<1>5. Cardinality(I) \in Nat
  BY <1>2, FS_CardinalityType
<1>6. Cardinality(I \cup {Len(s) + 1}) = Cardinality(I) + 1
  BY <1>2, <1>4, FS_AddElement
<1>7. /\ Count(s, kinds, id) = Cardinality(I)
      /\ Count(Append(s, e), kinds, id) = Cardinality(J)
  BY DEF Count
<1> HIDE DEF I, J
<1> QED
  BY <1>3, <1>5, <1>6, <1>7

-----------------------------------------------------------------------------
(* A legal session, as a sequence of frames *)

OpenBefore(s, i) ==
  {uri \in {Doc, Tile} :
     \E j \in 1 .. i - 1 :
       /\ Opens(s[j]) /\ s[j].uri = uri
       /\ \A n \in j + 1 .. i - 1 : ~Closes(s[n], uri)}

(* What is open after frame e where `open` was before it *)
After(open, e) ==
  {uri \in {Doc, Tile} : (Opens(e) /\ e.uri = uri) \/ (uri \in open /\ ~Closes(e, uri))}

(* Frame f may follow s[1..n] when the documents in `open` are open there. *)
MayFollow(s, n, open, f) ==
  /\ Opens(f) => open = {}
  /\ (f.k = "sync" /\ ~f.open) => open = {f.uri}
  /\ f.k \in {"didClose", "request"} => open = {f.uri}
  /\ \A j \in 1..n : f.k = "sync" /\ s[j].k = "sync" => s[j].ver < f.ver

Legal(s) == \A i \in DOMAIN s : MayFollow(s, i - 1, OpenBefore(s, i), s[i])

(* A legal session with these documents open at its end, up to version v *)
Sound(s, open, v) ==
  /\ Legal(s)
  /\ OpenBefore(s, Len(s) + 1) = open
  /\ \A i \in DOMAIN s : s[i].k = "sync" => s[i].ver \in Int /\ s[i].ver <= v

LEMMA OpenNext ==
  ASSUME NEW S, NEW s \in Seq(S), NEW e
  PROVE  /\ \A i \in 1..(Len(s) + 1) : OpenBefore(Append(s, e), i) = OpenBefore(s, i)
         /\ OpenBefore(Append(s, e), Len(s) + 2) =
              After(OpenBefore(s, Len(s) + 1), e)
<1>1. /\ Len(s) \in Nat
      /\ \A i \in 1..Len(s) : Append(s, e)[i] = s[i]
      /\ Append(s, e)[Len(s) + 1] = e
  BY AppendFacts
<1>2. \A i \in 1..(Len(s) + 1) : OpenBefore(Append(s, e), i) = OpenBefore(s, i)
  BY <1>1, SMTT(60) DEF OpenBefore
<1>3. ASSUME NEW uri \in {Doc, Tile}
      PROVE  uri \in OpenBefore(Append(s, e), Len(s) + 2) <=>
               \/ Opens(e) /\ e.uri = uri
               \/ uri \in OpenBefore(s, Len(s) + 1) /\ ~Closes(e, uri)
  BY <1>1, SMTT(60) DEF OpenBefore
<1> QED
  BY <1>2, <1>3, ZenonT(60) DEF OpenBefore, After

LEMMA SoundNext ==
  ASSUME NEW S, NEW s \in Seq(S), NEW e, NEW open, NEW v \in Int, NEW w \in Int,
         Sound(s, open, v), v <= w,
         MayFollow(s, Len(s), open, e),
         e.k = "sync" => e.ver \in Int /\ e.ver <= w
  PROVE  Sound(Append(s, e), After(open, e), w)
<1>1. /\ Len(s) \in Nat /\ Len(Append(s, e)) = Len(s) + 1
      /\ DOMAIN s = 1..Len(s) /\ DOMAIN Append(s, e) = 1..(Len(s) + 1)
      /\ \A i \in 1..Len(s) : Append(s, e)[i] = s[i]
      /\ Append(s, e)[Len(s) + 1] = e
  BY AppendFacts
<1>2. Legal(Append(s, e))
  <2>1. ASSUME NEW i \in 1..Len(s)
        PROVE  MayFollow(Append(s, e), i - 1, OpenBefore(Append(s, e), i), Append(s, e)[i])
    <3>1. MayFollow(s, i - 1, OpenBefore(s, i), s[i])
      BY <1>1 DEF Sound, Legal
    <3>2. OpenBefore(Append(s, e), i) = OpenBefore(s, i)
      BY <1>1, OpenNext
    <3> QED
      BY <1>1, <3>1, <3>2 DEF MayFollow
  <2>2. MayFollow(Append(s, e), Len(s), OpenBefore(Append(s, e), Len(s) + 1), e)
    <3>1. OpenBefore(Append(s, e), Len(s) + 1) = open
      BY <1>1, OpenNext DEF Sound
    <3> QED
      BY <1>1, <3>1 DEF MayFollow
  <2> QED
    BY <1>1, <2>1, <2>2 DEF Legal
<1>3. \A i \in DOMAIN Append(s, e) :
        Append(s, e)[i].k = "sync" => Append(s, e)[i].ver \in Int /\ Append(s, e)[i].ver <= w
  BY <1>1 DEF Sound
<1>4. Len(Append(s, e)) + 1 = Len(s) + 2
  BY <1>1
<1> QED
  BY <1>2, <1>3, <1>4, OpenNext DEF Sound

LEMMA SoundOpen ==
  ASSUME NEW S, NEW s \in Seq(S), NEW v \in Int, NEW w \in Int, NEW tile \in BOOLEAN,
         Sound(s, {}, v), v < w
  PROVE  Sound(Append(s, Sync(w, tile, TRUE)), {Uri(tile)}, w)
<1> DEFINE e == Sync(w, tile, TRUE)
<1>1. e.k = "sync" /\ e.open = TRUE /\ e.uri = Uri(tile) /\ e.ver = w
  BY DEF Sync
<1>2. Uri(tile) \in {Doc, Tile}
  BY DEF Uri
<1>3. Len(s) \in Nat /\ DOMAIN s = 1..Len(s)
  OBVIOUS
<1> HIDE DEF e
<1>4. MayFollow(s, Len(s), {}, e)
  BY <1>1, <1>3 DEF MayFollow, Sound
<1>5. Sound(Append(s, e), After({}, e), w)
  BY <1>1, <1>4, SoundNext
<1>6. After({}, e) = {Uri(tile)}
  BY <1>1, <1>2 DEF After, Opens
<1> QED
  BY <1>5, <1>6 DEF e

LEMMA SoundChange ==
  ASSUME NEW S, NEW s \in Seq(S), NEW v \in Int, NEW w \in Int, NEW tile \in BOOLEAN,
         Sound(s, {Uri(tile)}, v), v < w
  PROVE  Sound(Append(s, Sync(w, tile, FALSE)), {Uri(tile)}, w)
<1> DEFINE e == Sync(w, tile, FALSE)
<1>1. e.k = "sync" /\ e.open = FALSE /\ e.uri = Uri(tile) /\ e.ver = w
  BY DEF Sync
<1>2. Uri(tile) \in {Doc, Tile}
  BY DEF Uri
<1>3. Len(s) \in Nat /\ DOMAIN s = 1..Len(s)
  OBVIOUS
<1> HIDE DEF e
<1>4. MayFollow(s, Len(s), {Uri(tile)}, e)
  BY <1>1, <1>3 DEF MayFollow, Sound, Opens
<1>5. Sound(Append(s, e), After({Uri(tile)}, e), w)
  BY <1>1, <1>4, SoundNext
<1>6. After({Uri(tile)}, e) = {Uri(tile)}
  BY <1>1, <1>2 DEF After, Opens, Closes
<1> QED
  BY <1>5, <1>6 DEF e

LEMMA SoundClose ==
  ASSUME NEW S, NEW s \in Seq(S), NEW v \in Int, NEW tile \in BOOLEAN,
         Sound(s, {Uri(tile)}, v)
  PROVE  Sound(Append(s, [k |-> "didClose", uri |-> Uri(tile)]), {}, v)
<1> DEFINE e == [k |-> "didClose", uri |-> Uri(tile)]
<1>1. e.k = "didClose" /\ e.uri = Uri(tile)
  OBVIOUS
<1> HIDE DEF e
<1>4. MayFollow(s, Len(s), {Uri(tile)}, e)
  BY <1>1 DEF MayFollow, Opens
<1>3. v <= v /\ e.k # "sync"
  BY <1>1
<1>5. Sound(Append(s, e), After({Uri(tile)}, e), v)
  BY <1>3, <1>4, SoundNext
<1>6. After({Uri(tile)}, e) = {}
  BY <1>1 DEF After, Opens, Closes
<1> QED
  BY <1>5, <1>6 DEF e

(* A frame that neither opens, changes nor closes *)
LEMMA SoundOther ==
  ASSUME NEW S, NEW s \in Seq(S), NEW v \in Int, NEW open \in SUBSET {Doc, Tile}, NEW e,
         Sound(s, open, v), e.k \notin {"sync", "didClose"},
         e.k = "request" => open = {e.uri}
  PROVE  Sound(Append(s, e), open, v)
<1>4. MayFollow(s, Len(s), open, e)
  BY DEF MayFollow, Opens
<1>5. Sound(Append(s, e), After(open, e), v)
  BY <1>4, SoundNext
<1>6. After(open, e) = open
  BY DEF After, Opens, Closes
<1> QED
  BY <1>5, <1>6

-----------------------------------------------------------------------------
(* The inductive invariant *)

OpenNow == IF state = "open" THEN {Uri(in_project)} ELSE {}

Heard ==
  /\ \E S : toChild \in Seq(S)
  /\ Sound(toChild, OpenNow, version)
  /\ state # "open" => version = -1

AskedKinds == {"initialize", "request"}
AnswerKinds == {"initialized", "result", "error"}

Balanced ==
  /\ \E S : toClient \in Seq(S)
  /\ \A id \in Ids :
       /\ InFlight(id) => Count(toChild, AskedKinds, id) = Count(toClient, AnswerKinds, id) + 1
       /\ ~InFlight(id) => Count(toChild, AskedKinds, id) = Count(toClient, AnswerKinds, id)
       /\ pending[id] # Idle => state = "open"

IInv == TypeOK /\ Heard /\ Balanced

LEMMA OutstandingFinite ==
  ASSUME TypeOK
  PROVE  IsFiniteSet(Outstanding) /\ Cardinality(Outstanding) \in Nat
BY IdAssumption, FS_Subset, FS_CardinalityType, Outstanding \subseteq Ids DEF Outstanding

-----------------------------------------------------------------------------
LEMMA TypeStep ==
  ASSUME TypeOK, [AnyNext]_relayVars
  PROVE  TypeOK'
<1> USE BudgetAssumption, IdAssumption, VersionAssumption DEF protocol, NoId
<1>0. -1 \in Int /\ Idle \notin Methods /\ 0 \notin Ids
  BY DEF Idle, Methods
<1>1. ASSUME Received, Close(1008) PROVE TypeOK'
  BY <1>1 DEF TypeOK, Received, Close, Outstanding
<1>2. CASE Invalid
  BY <1>1, <1>2 DEF Invalid
<1>3. CASE TooManyMessages
  BY <1>3 DEF TypeOK, TooManyMessages, Close, Outstanding
<1>4. ASSUME NEW id \in Ids \cup {NoId}, NotOffered(id) PROVE TypeOK'
  <2>1. CASE id = NoId /\ UNCHANGED <<protocol, toChild, toClient, ended>>
    BY <1>4, <2>1 DEF TypeOK, NotOffered, Received, Outstanding
  <2>2. CASE Reply([k |-> "refused", id |-> id]) /\ UNCHANGED protocol
    BY <1>4, <2>2 DEF TypeOK, NotOffered, Received, Reply, Outstanding
  <2>3. CASE Close(1008)
    BY <1>1, <1>4, <2>3 DEF NotOffered
  <2> QED
    BY <1>4, <2>1, <2>2, <2>3 DEF NotOffered
<1>5. ASSUME NEW id \in Ids, Initialize(id) PROVE TypeOK'
  <2>1. CASE state # "new" \/ ~IdFree(id)
    BY <1>1, <1>5, <2>1 DEF Initialize
  <2>2. CASE ~(state # "new" \/ ~IdFree(id))
    BY <1>5, <2>2 DEF TypeOK, Initialize, Received, Forward, Outstanding
  <2> QED
    BY <2>1, <2>2
<1>6. CASE Initialized
  <2>1. CASE state # "initialize-done"
    BY <1>1, <1>6, <2>1 DEF Initialized
  <2>2. CASE state = "initialize-done"
    BY <1>6, <2>2 DEF TypeOK, Initialized, Received, Forward, Outstanding
  <2> QED
    BY <2>1, <2>2
<1>7. ASSUME NEW ver \in Versions, NEW tile \in BOOLEAN, DidOpen(ver, tile) PROVE TypeOK'
  <2>1. CASE state # "initialized"
    BY <1>1, <1>7, <2>1 DEF DidOpen
  <2>2. CASE state = "initialized"
    BY <1>7, <2>2 DEF TypeOK, DidOpen, Received, Forward, Outstanding
  <2> QED
    BY <2>1, <2>2
<1>8. ASSUME NEW ver \in Versions, NEW tile \in BOOLEAN, DidChange(ver, tile) PROVE TypeOK'
  <2>1. CASE state # "open" \/ ver <= version
    BY <1>1, <1>8, <2>1 DEF DidChange
  <2>2. CASE ~(state # "open" \/ ver <= version)
    BY <1>8, <2>2 DEF TypeOK, DidChange, Received, Forward, Outstanding
  <2> QED
    BY <2>1, <2>2
<1>9. ASSUME NEW id \in Ids, NEW method \in Methods, NEW uri \in {Doc, Tile},
             Request(id, method, uri)
      PROVE  TypeOK'
  <2> DEFINE Refused == \/ state # "open" \/ uri # Doc \/ ~IdFree(id)
                        \/ Cardinality(Outstanding) >= MaxPending
  <2>1. CASE Refused
    BY <1>1, <1>9, <2>1 DEF Request
  <2>2. CASE ~Refused
    <3>1. pending' = [pending EXCEPT ![id] = method]
      BY <1>9, <2>2 DEF Request
    <3>2. Outstanding' = Outstanding \cup {id}
      BY <1>0, <3>1 DEF Outstanding, TypeOK
    <3>3. /\ Cardinality(Outstanding') = Cardinality(Outstanding) + 1
              \/ Cardinality(Outstanding') = Cardinality(Outstanding)
          /\ Cardinality(Outstanding) \in Nat
      BY <3>2, OutstandingFinite, FS_AddElement
    <3>4. Cardinality(Outstanding') <= MaxPending
      BY <2>2, <3>3
    <3>5. pending' \in [Ids -> Methods \cup {Idle}]
      BY <3>1 DEF TypeOK
    <3>6. /\ UNCHANGED <<state, initialize_id, version, marked, in_project, ended, stdin_closed>>
          /\ message_count < MaxMessages /\ message_count' = message_count + 1
      BY <1>9, <2>2 DEF Request, Received, Forward
    <3> QED
      BY <3>4, <3>5, <3>6 DEF TypeOK
  <2> QED
    BY <2>1, <2>2
<1>10. CASE Publish
  <2> DEFINE publish == Head(fromChild)
  <2>1. UNCHANGED protocol /\ ended' \in {ended, 1011}
    BY <1>10 DEF Publish, Blame, Deliver
  <2> QED
    BY <1>10, <2>1 DEF TypeOK, Publish, ChildSays, Outstanding
<1>11. CASE InitializeAnswer
  BY <1>11 DEF TypeOK, InitializeAnswer, ChildSays, Deliver, Outstanding
<1>12. CASE Response
  <2>1. CASE Head(fromChild).id \notin Outstanding
    BY <1>12, <2>1 DEF TypeOK, Response, ChildSays, Blame, Outstanding
  <2>2. CASE Head(fromChild).id \in Outstanding
    <3>1. pending' = [pending EXCEPT ![Head(fromChild).id] = Idle]
      BY <1>12, <2>2 DEF Response
    <3>2. Outstanding' \subseteq Outstanding
      BY <3>1 DEF Outstanding, TypeOK
    <3>3. Cardinality(Outstanding') <= Cardinality(Outstanding) /\ Cardinality(Outstanding') \in Nat
      BY <3>2, OutstandingFinite, FS_Subset, FS_CardinalityType
    <3>4. Cardinality(Outstanding') <= MaxPending
      BY <3>3, OutstandingFinite DEF TypeOK
    <3>5. pending' \in [Ids -> Methods \cup {Idle}]
      BY <2>2, <3>1 DEF TypeOK, Outstanding
    <3>6. UNCHANGED <<state, initialize_id, version, marked, in_project, ended,
                      stdin_closed, message_count>>
      BY <1>12, <2>2 DEF Response, ChildSays, Deliver
    <3> QED
      BY <3>4, <3>5, <3>6 DEF TypeOK
  <2> QED
    BY <2>1, <2>2
<1>13. CASE Unexpected
  BY <1>13 DEF TypeOK, Unexpected, ChildSays, Blame, Outstanding
<1>14. CASE ChildGone
  BY <1>14 DEF TypeOK, ChildGone, Blame, Outstanding
<1>15. CASE TimeUp
  BY <1>15 DEF TypeOK, TimeUp, Close, Outstanding
<1>16. CASE StopChild
  BY <1>16 DEF TypeOK, StopChild, Outstanding
<1>17. CASE ChildWrites
  BY <1>17 DEF TypeOK, ChildWrites, Outstanding
<1>18. CASE UNCHANGED relayVars
  BY <1>18 DEF TypeOK, relayVars, Outstanding
<1> QED
  BY <1>2, <1>3, <1>4, <1>5, <1>6, <1>7, <1>8, <1>9, <1>10, <1>11, <1>12, <1>13,
     <1>14, <1>15, <1>16, <1>17, <1>18 DEF AnyNext, FromClient, FromChild

-----------------------------------------------------------------------------
(* What the child is sent stays a legal session. *)

(* Nothing more is sent, and the document stays open or closed. *)
LEMMA HeardQuiet ==
  ASSUME Heard, UNCHANGED <<toChild, version, in_project>>,
         state = "open" <=> state' = "open"
  PROVE  Heard'
BY DEF Heard, OpenNow

(* One frame more that neither opens, changes nor closes *)
LEMMA HeardOther ==
  ASSUME Heard, TypeOK, NEW e,
         toChild' = Append(toChild, e), UNCHANGED <<version, in_project>>,
         state = "open" <=> state' = "open",
         e.k \notin {"sync", "didClose"},
         e.k = "request" => OpenNow = {e.uri}
  PROVE  Heard'
<1>1. PICK S : toChild \in Seq(S)
  BY DEF Heard
<1>2. OpenNow \in SUBSET {Doc, Tile} /\ version \in Int
  BY DEF OpenNow, Uri, TypeOK
<1>3. Sound(toChild, OpenNow, version)
  BY DEF Heard
<1>4. Sound(Append(toChild, e), OpenNow, version)
  BY <1>1, <1>2, <1>3, SoundOther
<1>5. OpenNow' = OpenNow
  BY DEF OpenNow
<1>6. toChild' \in Seq(S \cup {e})
  BY <1>1, AppendFacts
<1> QED
  BY <1>4, <1>5, <1>6 DEF Heard

LEMMA HeardStep ==
  ASSUME TypeOK, Heard, [AnyNext]_relayVars
  PROVE  Heard'
<1> USE DEF protocol
<1>0. PICK S : toChild \in Seq(S)
  BY DEF Heard
<1>1. ASSUME Close(1008) PROVE Heard'
  BY <1>1, HeardQuiet DEF Close
<1>2. CASE Invalid
  BY <1>1, <1>2 DEF Invalid
<1>3. CASE TooManyMessages
  BY <1>1, <1>3 DEF TooManyMessages
<1>4. ASSUME NEW id \in Ids \cup {NoId}, NotOffered(id) PROVE Heard'
  BY <1>1, <1>4, HeardQuiet DEF NotOffered, Reply
<1>5. ASSUME NEW id \in Ids, Initialize(id) PROVE Heard'
  <2>1. CASE state # "new" \/ ~IdFree(id)
    BY <1>1, <1>5, <2>1 DEF Initialize
  <2>2. CASE ~(state # "new" \/ ~IdFree(id))
    <3> DEFINE e == [k |-> "initialize", id |-> id]
    <3>1. toChild' = Append(toChild, e)
      BY <1>0, <1>5, <2>2, ConcatOne DEF Initialize, Forward
    <3>2. e.k = "initialize"
      OBVIOUS
    <3>3. state = "new" /\ state' = "initialize-sent" /\ UNCHANGED <<version, in_project>>
      BY <1>5, <2>2 DEF Initialize
    <3> HIDE DEF e
    <3> QED
      BY <3>1, <3>2, <3>3, HeardOther
  <2> QED
    BY <2>1, <2>2
<1>6. CASE Initialized
  <2>1. CASE state # "initialize-done"
    BY <1>1, <1>6, <2>1 DEF Initialized
  <2>2. CASE state = "initialize-done"
    <3> DEFINE e == [k |-> "initialized"]
    <3>1. toChild' = Append(toChild, e)
      BY <1>0, <1>6, <2>2, ConcatOne DEF Initialized, Forward
    <3>2. e.k = "initialized"
      OBVIOUS
    <3>3. state' = "initialized" /\ UNCHANGED <<version, in_project>>
      BY <1>6, <2>2 DEF Initialized
    <3> HIDE DEF e
    <3> QED
      BY <2>2, <3>1, <3>2, <3>3, HeardOther
  <2> QED
    BY <2>1, <2>2
<1>7. ASSUME NEW ver \in Versions, NEW tile \in BOOLEAN, DidOpen(ver, tile) PROVE Heard'
  <2>1. CASE state # "initialized"
    BY <1>1, <1>7, <2>1 DEF DidOpen
  <2>2. CASE state = "initialized"
    <3> DEFINE e == Sync(ver, tile, TRUE)
    <3>1. /\ toChild' = Append(toChild, e)
          /\ state' = "open" /\ version' = ver /\ in_project' = tile
      BY <1>0, <1>7, <2>2, ConcatOne, ZenonT(60) DEF DidOpen, Forward
    <3>2. Sound(toChild, {}, -1)
      BY <2>2 DEF Heard, OpenNow
    <3>3. ver \in Int /\ -1 \in Int /\ -1 < ver
      BY VersionAssumption
    <3>4. Sound(Append(toChild, e), {Uri(tile)}, ver)
      BY <1>0, <3>2, <3>3, SoundOpen
    <3>5. OpenNow' = {Uri(tile)}
      BY <3>1 DEF OpenNow, Uri
    <3>6. toChild' \in Seq(S \cup {e})
      BY <1>0, <3>1, AppendFacts
    <3> HIDE DEF e
    <3> QED
      BY <3>1, <3>4, <3>5, <3>6 DEF Heard
  <2> QED
    BY <2>1, <2>2
<1>8. ASSUME NEW ver \in Versions, NEW tile \in BOOLEAN, DidChange(ver, tile) PROVE Heard'
  <2> DEFINE e == Sync(ver, tile, FALSE)
             closing == [k |-> "didClose", uri |-> Uri(in_project)]
             opening == Sync(ver, tile, TRUE)
  <2>1. CASE state # "open" \/ ver <= version
    BY <1>1, <1>8, <2>1 DEF DidChange
  <2>2. CASE state = "open" /\ ~(ver <= version)
    <3>1. state' = "open" /\ version' = ver /\ in_project' = tile
      BY <1>8, <2>2 DEF DidChange
    <3>2. in_project \in BOOLEAN /\ version \in Int /\ ver \in Int /\ version < ver
      BY <2>2, VersionAssumption DEF TypeOK
    <3>3. Sound(toChild, {Uri(in_project)}, version)
      BY <2>2 DEF Heard, OpenNow
    <3>4. OpenNow' = {Uri(tile)}
      BY <3>1 DEF OpenNow, Uri
    <3>5. CASE tile = in_project
      <4>1. toChild' = Append(toChild, e)
        BY <1>0, <1>8, <2>2, <3>5, ConcatOne, ZenonT(60) DEF DidChange, Forward
      <4>2. Sound(Append(toChild, e), {Uri(tile)}, ver)
        BY <1>0, <3>2, <3>3, <3>5, SoundChange
      <4>3. toChild' \in Seq(S \cup {e})
        BY <1>0, <4>1, AppendFacts
      <4> HIDE DEF e
      <4> QED
        BY <3>1, <3>4, <4>1, <4>2, <4>3 DEF Heard
    <3>6. CASE tile # in_project
      <4>0. toChild' = toChild \o <<closing, opening>>
        BY <1>8, <2>2, <3>6, ZenonT(60) DEF DidChange, Forward, Switched
      <4>1. toChild' = Append(Append(toChild, closing), opening)
        <5> HIDE DEF closing, opening
        <5> QED
          BY <1>0, <4>0, ConcatTwo
      <4>2. Sound(Append(toChild, closing), {}, version)
        BY <1>0, <3>2, <3>3, SoundClose
      <4>3. Append(toChild, closing) \in Seq(S \cup {closing})
        BY <1>0, AppendFacts
      <4>4. Sound(Append(Append(toChild, closing), opening), {Uri(tile)}, ver)
        BY <3>2, <4>2, <4>3, SoundOpen
      <4>5. toChild' \in Seq(S \cup {closing} \cup {opening})
        BY <4>1, <4>3, AppendFacts
      <4> HIDE DEF closing, opening
      <4> QED
        BY <3>1, <3>4, <4>1, <4>4, <4>5 DEF Heard
    <3> QED
      BY <3>5, <3>6
  <2> QED
    BY <2>1, <2>2
<1>9. ASSUME NEW id \in Ids, NEW method \in Methods, NEW uri \in {Doc, Tile},
             Request(id, method, uri)
      PROVE  Heard'
  <2> DEFINE Refused == \/ state # "open" \/ uri # Doc \/ ~IdFree(id)
                        \/ Cardinality(Outstanding) >= MaxPending
             e == [k |-> "request", id |-> id, class |-> "Analysed",
                   uri |-> Uri(in_project), about |-> version]
  <2>1. CASE Refused
    BY <1>1, <1>9, <2>1 DEF Request
  <2>2. CASE ~Refused
    <3>1. toChild' = Append(toChild, e)
      BY <1>0, <1>9, <2>2, ConcatOne DEF Request, Forward
    <3>2. e.k = "request" /\ e.uri = Uri(in_project)
      OBVIOUS
    <3>3. state = "open" /\ UNCHANGED <<state, version, in_project>>
      BY <1>9, <2>2 DEF Request
    <3>4. OpenNow = {e.uri}
      BY <3>2, <3>3 DEF OpenNow
    <3> HIDE DEF e
    <3> QED
      BY <3>1, <3>2, <3>3, <3>4, HeardOther
  <2> QED
    BY <2>1, <2>2
<1>10. CASE Publish
  BY <1>10, HeardQuiet DEF Publish, ChildSays, Blame, Deliver
<1>11. CASE InitializeAnswer
  BY <1>11, HeardQuiet DEF InitializeAnswer, ChildSays
<1>12. CASE Response
  BY <1>12, HeardQuiet DEF Response, ChildSays, Blame
<1>13. CASE Unexpected
  BY <1>13, HeardQuiet DEF Unexpected, ChildSays, Blame
<1>14. CASE ChildGone
  BY <1>14, HeardQuiet DEF ChildGone, Blame
<1>15. CASE TimeUp
  BY <1>15, HeardQuiet DEF TimeUp, Close
<1>16. CASE StopChild
  <2> DEFINE e == [k |-> "shutdown", id |-> NoId]
             f == [k |-> "exit"]
             v == version
  <2>1. UNCHANGED <<state, version, in_project>>
    BY <1>16 DEF StopChild
  <2>2. CASE toChild' = toChild
    BY <2>1, <2>2, HeardQuiet
  <2>3. CASE toChild' = toChild \o <<e, f>>
    <3>1. toChild' = Append(Append(toChild, e), f)
      BY <1>0, <2>3, ConcatTwo
    <3>2. e.k = "shutdown" /\ f.k = "exit"
      OBVIOUS
    <3>3. OpenNow \in SUBSET {Doc, Tile} /\ version \in Int /\ OpenNow' = OpenNow
      BY <2>1 DEF OpenNow, Uri, TypeOK
    <3>4. Sound(toChild, OpenNow, version)
      BY DEF Heard
    <3> HIDE DEF e, f
    <3>5. Sound(Append(toChild, e), OpenNow, version)
      BY <1>0, <3>2, <3>3, <3>4, SoundOther
    <3>6. Append(toChild, e) \in Seq(S \cup {e})
      BY <1>0, AppendFacts
    <3>7. Sound(Append(Append(toChild, e), f), OpenNow, version)
      BY <3>2, <3>3, <3>5, <3>6, SoundOther
    <3>8. toChild' \in Seq(S \cup {e} \cup {f})
      BY <3>1, <3>6, AppendFacts
    <3> QED
      BY <2>1, <3>1, <3>3, <3>7, <3>8 DEF Heard
  <2> QED
    BY <1>16, <2>2, <2>3 DEF StopChild
<1>17. CASE ChildWrites
  BY <1>17, HeardQuiet DEF ChildWrites
<1>18. CASE UNCHANGED relayVars
  BY <1>18, HeardQuiet DEF relayVars
<1> QED
  BY <1>2, <1>3, <1>4, <1>5, <1>6, <1>7, <1>8, <1>9, <1>10, <1>11, <1>12, <1>13,
     <1>14, <1>15, <1>16, <1>17, <1>18 DEF AnyNext, FromClient, FromChild

-----------------------------------------------------------------------------
(* What is owed stays balanced by what is in flight. *)

IsSeq(s) == \E S : s \in Seq(S)

LEMMA Grows ==
  ASSUME NEW s, IsSeq(s), NEW e
  PROVE  /\ IsSeq(Append(s, e))
         /\ \A kinds, id :
              /\ Count(s, kinds, id) \in Nat
              /\ e.k \in kinds /\ e.id = id =>
                   Count(Append(s, e), kinds, id) = Count(s, kinds, id) + 1
              /\ ~(e.k \in kinds /\ e.id = id) =>
                   Count(Append(s, e), kinds, id) = Count(s, kinds, id)
<1>1. PICK S : s \in Seq(S)
  BY DEF IsSeq
<1>2. Append(s, e) \in Seq(S \cup {e})
  BY <1>1, AppendFacts
<1> QED
  BY <1>1, <1>2, CountAppend DEF IsSeq

LEMMA CountNat ==
  ASSUME NEW s, IsSeq(s)
  PROVE  \A kinds, id : Count(s, kinds, id) \in Nat
BY Grows

(* Nothing is asked, answered or put in flight. *)
LEMMA BalancedQuiet ==
  ASSUME Balanced, UNCHANGED <<initialize_id, pending>>,
         state = "open" => state' = "open",
         IsSeq(toClient'),
         \A id \in Ids : Count(toChild', AskedKinds, id) = Count(toChild, AskedKinds, id),
         \A id \in Ids : Count(toClient', AnswerKinds, id) = Count(toClient, AnswerKinds, id)
  PROVE  Balanced'
BY DEF Balanced, InFlight, IsSeq

(* The child is sent a frame that is no request, or none. *)
LEMMA BalancedSent ==
  ASSUME Balanced, IsSeq(toChild),
         UNCHANGED <<initialize_id, pending, toClient>>,
         state = "open" => state' = "open",
         \/ toChild' = toChild
         \/ \E e : toChild' = Append(toChild, e) /\ e.k \notin AskedKinds
         \/ \E d, e : /\ toChild' = Append(Append(toChild, d), e)
                      /\ d.k \notin AskedKinds /\ e.k \notin AskedKinds
  PROVE  Balanced'
<1>1. \A id \in Ids : Count(toChild', AskedKinds, id) = Count(toChild, AskedKinds, id)
  <2>1. CASE toChild' = toChild
    BY <2>1
  <2>2. ASSUME NEW e, toChild' = Append(toChild, e), e.k \notin AskedKinds
        PROVE  \A id \in Ids : Count(toChild', AskedKinds, id) = Count(toChild, AskedKinds, id)
    BY <2>2, Grows
  <2>3. ASSUME NEW d, NEW e, toChild' = Append(Append(toChild, d), e),
               d.k \notin AskedKinds, e.k \notin AskedKinds
        PROVE  \A id \in Ids : Count(toChild', AskedKinds, id) = Count(toChild, AskedKinds, id)
    <3>1. /\ IsSeq(Append(toChild, d))
          /\ \A id \in Ids : Count(Append(toChild, d), AskedKinds, id)
                               = Count(toChild, AskedKinds, id)
      BY <2>3, Grows
    <3>2. \A id \in Ids : Count(Append(Append(toChild, d), e), AskedKinds, id)
                           = Count(Append(toChild, d), AskedKinds, id)
      BY <2>3, <3>1, Grows
    <3> QED
      BY <2>3, <3>1, <3>2
  <2> QED
    BY <2>1, <2>2, <2>3
<1>2. IsSeq(toClient')
  BY DEF Balanced, IsSeq
<1> QED
  BY <1>1, <1>2, BalancedQuiet

(* The browser is sent a frame that is no answer, or none. *)
LEMMA BalancedTold ==
  ASSUME Balanced,
         UNCHANGED <<state, initialize_id, pending, toChild>>,
         toClient' = toClient
           \/ \E e : toClient' = Append(toClient, e) /\ e.k \notin AnswerKinds
  PROVE  Balanced'
<1>1. IsSeq(toClient)
  BY DEF Balanced, IsSeq
<1>2. CASE toClient' = toClient
  BY <1>1, <1>2, BalancedQuiet
<1>3. ASSUME NEW e, toClient' = Append(toClient, e), e.k \notin AnswerKinds
      PROVE  Balanced'
  <2>1. /\ IsSeq(toClient')
        /\ \A id \in Ids : Count(toClient', AnswerKinds, id) = Count(toClient, AnswerKinds, id)
    BY <1>1, <1>3, Grows
  <2> QED
    BY <2>1, BalancedQuiet
<1> QED
  BY <1>2, <1>3

(* One id is asked about: its request goes out, and it is in flight. *)
LEMMA BalancedAsked ==
  ASSUME Balanced, IsSeq(toChild), NEW ask \in Ids, NEW e,
         toChild' = Append(toChild, e), e.k \in AskedKinds, e.id = ask,
         UNCHANGED toClient,
         ~InFlight(ask), InFlight(ask)',
         \A id \in Ids : id # ask => (InFlight(id)' <=> InFlight(id)),
         \A id \in Ids : pending'[id] # Idle => state' = "open"
  PROVE  Balanced'
<1>1. \A id \in Ids : /\ Count(toChild, AskedKinds, id) \in Nat
                      /\ id = ask => Count(toChild', AskedKinds, id)
                                     = Count(toChild, AskedKinds, id) + 1
                      /\ id # ask => Count(toChild', AskedKinds, id)
                                     = Count(toChild, AskedKinds, id)
  BY Grows
<1>2. \A id \in Ids : Count(toClient', AnswerKinds, id) = Count(toClient, AnswerKinds, id)
  OBVIOUS
<1> QED
  BY <1>1, <1>2 DEF Balanced

(* One id is answered: it is in flight no longer. *)
LEMMA BalancedAnswered ==
  ASSUME Balanced, IsSeq(toChild), NEW done \in Ids, NEW e,
         toClient' = Append(toClient, e), e.k \in AnswerKinds, e.id = done,
         UNCHANGED toChild,
         InFlight(done), ~InFlight(done)',
         \A id \in Ids : id # done => (InFlight(id)' <=> InFlight(id)),
         \A id \in Ids : pending'[id] # Idle => state' = "open"
  PROVE  Balanced'
<1>0. IsSeq(toClient)
  BY DEF Balanced, IsSeq
<1>1. /\ IsSeq(toClient')
      /\ \A id \in Ids : /\ Count(toClient, AnswerKinds, id) \in Nat
                         /\ id = done => Count(toClient', AnswerKinds, id)
                                        = Count(toClient, AnswerKinds, id) + 1
                         /\ id # done => Count(toClient', AnswerKinds, id)
                                        = Count(toClient, AnswerKinds, id)
  BY <1>0, Grows
<1>2. \A id \in Ids : /\ Count(toChild, AskedKinds, id) \in Nat
                      /\ Count(toChild', AskedKinds, id) = Count(toChild, AskedKinds, id)
  BY CountNat
<1> QED
  BY <1>1, <1>2 DEF Balanced, IsSeq

LEMMA BalancedStep ==
  ASSUME TypeOK, Heard, Balanced, [AnyNext]_relayVars
  PROVE  Balanced'
<1> USE IdAssumption DEF protocol, NoId
<1>0. IsSeq(toChild) /\ \E S : toChild \in Seq(S)
  BY DEF Heard, IsSeq
<1>a. /\ \A id \in Ids : id # 0 /\ (pending[id] # Idle => state = "open")
      /\ state # "initialize-sent" => initialize_id = 0
      /\ state = "initialize-sent" => initialize_id \in Ids
      /\ \A method \in Methods : method # Idle
  BY DEF Balanced, TypeOK, Methods, Idle
<1>1. ASSUME Close(1008) PROVE Balanced'
  BY <1>0, <1>1, BalancedSent DEF Close
<1>2. CASE Invalid
  BY <1>1, <1>2 DEF Invalid
<1>3. CASE TooManyMessages
  BY <1>1, <1>3 DEF TooManyMessages
<1>4. ASSUME NEW id \in Ids \cup {NoId}, NotOffered(id) PROVE Balanced'
  <2> DEFINE e == [k |-> "refused", id |-> id]
  <2>1. CASE UNCHANGED <<protocol, toChild, toClient, ended>>
    BY <2>1, BalancedTold
  <2>2. CASE Reply(e) /\ UNCHANGED protocol
    <3>1. toClient' = Append(toClient, e) /\ e.k \notin AnswerKinds
      BY <2>2 DEF Reply, AnswerKinds
    <3>2. UNCHANGED <<state, initialize_id, pending, toChild>>
      BY <2>2 DEF Reply
    <3> HIDE DEF e
    <3> QED
      BY <3>1, <3>2, BalancedTold
  <2>3. CASE Close(1008)
    BY <1>1, <2>3
  <2> QED
    BY <1>4, <2>1, <2>2, <2>3 DEF NotOffered
<1>5. ASSUME NEW id \in Ids, Initialize(id) PROVE Balanced'
  <2>1. CASE state # "new" \/ ~IdFree(id)
    BY <1>1, <1>5, <2>1 DEF Initialize
  <2>2. CASE state = "new" /\ IdFree(id)
    <3> DEFINE e == [k |-> "initialize", id |-> id]
    <3>1. toChild' = Append(toChild, e)
      BY <1>0, <1>5, <2>2, ConcatOne DEF Initialize, Forward
    <3>2. e.k \in AskedKinds /\ e.id = id
      BY DEF AskedKinds
    <3>3. initialize_id' = id /\ UNCHANGED <<pending, toClient>>
      BY <1>5, <2>2 DEF Initialize, Forward
    <3>4. \A n \in Ids : pending[n] = Idle /\ ~InFlight(n)
      BY <1>a, <2>2 DEF InFlight
    <3>5. \A n \in Ids : InFlight(n)' <=> n = id
      BY <3>3, <3>4 DEF InFlight
    <3>6. \A n \in Ids : pending'[n] = Idle
      BY <3>3, <3>4
    <3> HIDE DEF e
    <3> QED
      BY <1>0, <3>1, <3>2, <3>3, <3>4, <3>5, <3>6, BalancedAsked
  <2> QED
    BY <2>1, <2>2
<1>6. CASE Initialized
  <2>1. CASE state # "initialize-done"
    BY <1>1, <1>6, <2>1 DEF Initialized
  <2>2. CASE state = "initialize-done"
    <3> DEFINE e == [k |-> "initialized"]
    <3>1. toChild' = Append(toChild, e) /\ e.k \notin AskedKinds
      BY <1>0, <1>6, <2>2, ConcatOne DEF Initialized, Forward, AskedKinds
    <3>2. UNCHANGED <<initialize_id, pending, toClient>>
      BY <1>6, <2>2 DEF Initialized, Forward
    <3> HIDE DEF e
    <3> QED
      BY <1>0, <2>2, <3>1, <3>2, BalancedSent
  <2> QED
    BY <2>1, <2>2
<1>7. ASSUME NEW ver \in Versions, NEW tile \in BOOLEAN, DidOpen(ver, tile) PROVE Balanced'
  <2>1. CASE state # "initialized"
    BY <1>1, <1>7, <2>1 DEF DidOpen
  <2>2. CASE state = "initialized"
    <3> DEFINE e == Sync(ver, tile, TRUE)
    <3>1. toChild' = Append(toChild, e) /\ e.k \notin AskedKinds
      BY <1>0, <1>7, <2>2, ConcatOne, ZenonT(60) DEF DidOpen, Forward, Sync, AskedKinds
    <3>2. UNCHANGED <<initialize_id, pending, toClient>>
      BY <1>7, <2>2 DEF DidOpen, Forward
    <3> HIDE DEF e
    <3> QED
      BY <1>0, <2>2, <3>1, <3>2, BalancedSent
  <2> QED
    BY <2>1, <2>2
<1>8. ASSUME NEW ver \in Versions, NEW tile \in BOOLEAN, DidChange(ver, tile) PROVE Balanced'
  <2> DEFINE e == Sync(ver, tile, FALSE)
             closing == [k |-> "didClose", uri |-> Uri(in_project)]
             opening == Sync(ver, tile, TRUE)
  <2>1. CASE state # "open" \/ ver <= version
    BY <1>1, <1>8, <2>1 DEF DidChange
  <2>2. CASE ~(state # "open" \/ ver <= version)
    <3>1. UNCHANGED <<state, initialize_id, pending, toClient>>
      BY <1>8, <2>2 DEF DidChange, Forward
    <3>2. \A kind \in AskedKinds : e.k # kind /\ closing.k # kind /\ opening.k # kind
      BY DEF Sync, AskedKinds
    <3>3. toChild' = toChild \o <<e>> \/ toChild' = toChild \o <<closing, opening>>
      BY <1>8, <2>2, ZenonT(60) DEF DidChange, Forward, Switched
    <3> HIDE DEF e, closing, opening
    <3>4. toChild' = Append(toChild, e) \/ toChild' = Append(Append(toChild, closing), opening)
      BY <1>0, <3>3, ConcatOne, ConcatTwo
    <3> QED
      BY <1>0, <3>1, <3>2, <3>4, BalancedSent
  <2> QED
    BY <2>1, <2>2
<1>9. ASSUME NEW id \in Ids, NEW method \in Methods, NEW uri \in {Doc, Tile},
             Request(id, method, uri)
      PROVE  Balanced'
  <2> DEFINE Refused == \/ state # "open" \/ uri # Doc \/ ~IdFree(id)
                        \/ Cardinality(Outstanding) >= MaxPending
             e == [k |-> "request", id |-> id, class |-> "Analysed",
                   uri |-> Uri(in_project), about |-> version]
  <2>1. CASE Refused
    BY <1>1, <1>9, <2>1 DEF Request
  <2>2. CASE ~Refused
    <3>1. toChild' = Append(toChild, e)
      BY <1>0, <1>9, <2>2, ConcatOne DEF Request, Forward
    <3>2. e.k \in AskedKinds /\ e.id = id
      BY DEF AskedKinds
    <3>3. /\ state = "open" /\ UNCHANGED <<state, initialize_id, toClient>>
          /\ pending' = [pending EXCEPT ![id] = method]
      BY <1>9, <2>2 DEF Request, Forward
    <3>4. ~InFlight(id)
      BY <2>2 DEF InFlight, IdFree
    <3>5. /\ pending'[id] = method
          /\ \A n \in Ids : n # id => pending'[n] = pending[n]
      BY <3>3 DEF TypeOK
    <3>6. InFlight(id)' /\ \A n \in Ids : n # id => (InFlight(n)' <=> InFlight(n))
      BY <1>a, <3>3, <3>5 DEF InFlight
    <3> HIDE DEF e
    <3> QED
      BY <1>0, <3>1, <3>2, <3>3, <3>4, <3>6, BalancedAsked
  <2> QED
    BY <2>1, <2>2
<1>10. CASE Publish
  <2> DEFINE e == [k |-> "publish", ver |-> Head(fromChild).ver]
  <2>1. UNCHANGED <<protocol, toChild>> /\ toClient' \in {toClient, Append(toClient, e)}
    BY <1>10 DEF Publish, ChildSays, Blame, Deliver
  <2>2. e.k \notin AnswerKinds
    BY DEF AnswerKinds
  <2> HIDE DEF e
  <2> QED
    BY <2>1, <2>2, BalancedTold
<1>11. CASE InitializeAnswer
  <2> DEFINE failed == Head(fromChild).k = "error"
             e == [k |-> IF failed THEN "error" ELSE "initialized", id |-> initialize_id]
  <2>1. /\ toClient' = Append(toClient, e) /\ initialize_id' = 0
        /\ state = "initialize-sent" /\ UNCHANGED <<toChild, pending>>
    BY <1>11 DEF InitializeAnswer, ChildSays, Deliver
  <2>2. e.k \in AnswerKinds /\ e.id = initialize_id
    BY DEF AnswerKinds
  <2>3. initialize_id \in Ids /\ \A id \in Ids : pending[id] = Idle
    BY <1>a, <2>1
  <2>4. /\ InFlight(initialize_id)
        /\ \A id \in Ids : ~InFlight(id)' /\ (id # initialize_id => ~InFlight(id))
    BY <1>a, <2>1, <2>3 DEF InFlight
  <2>5. \A id \in Ids : pending'[id] = Idle
    BY <2>1, <2>3
  <2> HIDE DEF e
  <2>7. PICK n \in Ids : n = initialize_id
    BY <2>3
  <2>8. ~InFlight(n)' /\ InFlight(n) /\ e.id = n
        /\ \A id \in Ids : id # n => (InFlight(id)' <=> InFlight(id))
    BY <2>2, <2>4, <2>7
  <2> QED
    BY <1>0, <2>1, <2>2, <2>5, <2>8, BalancedAnswered
<1>12. CASE Response
  <2> DEFINE id == Head(fromChild).id
             good == [k |-> "result", id |-> id,
                      uris |-> Passed(pending[id], Head(fromChild).uri)]
             bad == [k |-> "error", id |-> id]
  <2>1. CASE id \notin Outstanding
    BY <1>12, <2>1, BalancedTold DEF Response, ChildSays, Blame
  <2>2. CASE id \in Outstanding
    <3>1. /\ pending' = [pending EXCEPT ![id] = Idle]
          /\ UNCHANGED <<state, initialize_id, toChild>>
          /\ toClient' \in {Append(toClient, good), Append(toClient, bad)}
      BY <1>12, <2>2 DEF Response, ChildSays, Deliver
    <3>2. /\ good.k \in AnswerKinds /\ good.id = id
          /\ bad.k \in AnswerKinds /\ bad.id = id
      BY DEF AnswerKinds
    <3> HIDE DEF good, bad, id
    <3>3. PICK done \in Ids : done = id /\ pending[done] # Idle
      BY <2>2 DEF Outstanding
    <3>4. /\ pending'[done] = Idle
          /\ \A n \in Ids : n # done => pending'[n] = pending[n]
      BY <3>1, <3>3 DEF TypeOK
    <3>5. state = "open" /\ initialize_id = 0 /\ done # 0
      BY <1>a, <3>3
    <3>6. /\ InFlight(done) /\ ~InFlight(done)'
          /\ \A n \in Ids : n # done => (InFlight(n)' <=> InFlight(n))
      BY <3>1, <3>3, <3>4, <3>5 DEF InFlight
    <3>7. \E e : toClient' = Append(toClient, e) /\ e.k \in AnswerKinds /\ e.id = done
      BY <3>1, <3>2, <3>3
    <3> QED
      BY <1>0, <3>1, <3>5, <3>6, <3>7, BalancedAnswered
  <2> QED
    BY <2>1, <2>2
<1>13. CASE Unexpected
  BY <1>13, BalancedTold DEF Unexpected, ChildSays, Blame
<1>14. CASE ChildGone
  BY <1>14, BalancedTold DEF ChildGone, Blame
<1>15. CASE TimeUp
  BY <1>15, BalancedTold DEF TimeUp, Close
<1>16. CASE StopChild
  <2> DEFINE e == [k |-> "shutdown", id |-> NoId]
             f == [k |-> "exit"]
  <2>1. UNCHANGED <<state, initialize_id, pending, toClient>>
    BY <1>16 DEF StopChild
  <2>2. toChild' = toChild \/ toChild' = toChild \o <<e, f>>
    BY <1>16 DEF StopChild
  <2>3. e.k \notin AskedKinds /\ f.k \notin AskedKinds
    BY DEF AskedKinds
  <2> HIDE DEF e, f
  <2>4. toChild' = toChild \/ toChild' = Append(Append(toChild, e), f)
    BY <1>0, <2>2, ConcatTwo
  <2> QED
    BY <1>0, <2>1, <2>3, <2>4, BalancedSent
<1>17. CASE ChildWrites
  BY <1>17, BalancedTold DEF ChildWrites
<1>18. CASE UNCHANGED relayVars
  BY <1>18, BalancedTold DEF relayVars
<1> QED
  BY <1>2, <1>3, <1>4, <1>5, <1>6, <1>7, <1>8, <1>9, <1>10, <1>11, <1>12, <1>13,
     <1>14, <1>15, <1>16, <1>17, <1>18 DEF AnyNext, FromClient, FromChild

-----------------------------------------------------------------------------
LEMMA InvInit ==
  ASSUME RelayInit
  PROVE  IInv
<1> USE BudgetAssumption, IdAssumption DEF RelayInit, NoId
<1>1. Outstanding = {}
  BY DEF Outstanding
<1>2. Cardinality(Outstanding) = 0
  BY <1>1, FS_EmptySet
<1>3. TypeOK
  <2>1. Cardinality(Outstanding) <= MaxPending /\ 0 \in 0..MaxMessages
    BY <1>2
  <2>2. pending \in [Ids -> Methods \cup {Idle}]
    OBVIOUS
  <2>3. -1 \in Int
    OBVIOUS
  <2> HIDE DEF RelayInit
  <2>4. /\ state = "new" /\ initialize_id = 0 /\ version = -1 /\ marked = FALSE
        /\ in_project = FALSE /\ message_count = 0 /\ ended = 0 /\ stdin_closed = FALSE
    BY DEF RelayInit
  <2> QED
    BY <2>1, <2>2, <2>3, <2>4, ZenonT(60) DEF TypeOK
<1>4. toChild \in Seq({}) /\ toClient \in Seq({})
  OBVIOUS
<1>5. OpenBefore(toChild, Len(toChild) + 1) = {}
  BY DEF OpenBefore
<1>6. Sound(toChild, OpenNow, version)
  BY <1>5 DEF Sound, Legal, OpenNow
<1>7. \A kinds, id : Count(<<>>, kinds, id) = 0
  BY FS_EmptySet DEF Count
<1>8. \A id \in Ids : ~InFlight(id)
  BY DEF InFlight
<1> QED
  BY <1>3, <1>4, <1>6, <1>7, <1>8 DEF IInv, Heard, Balanced

LEMMA InvStep ==
  ASSUME IInv, [AnyNext]_relayVars
  PROVE  IInv'
BY TypeStep, HeardStep, BalancedStep DEF IInv

LEMMA InvHolds == AnySpec => []IInv
BY InvInit, InvStep, PTL DEF AnySpec

(* Every variable of a session keeps the values the code gives it; in
   particular the requests in flight never exceed the budget, and the id of
   the initialize request is held exactly while its answer is awaited. *)
THEOREM TypeCorrect == AnySpec => []TypeOK
<1>1. IInv => TypeOK
  BY DEF IInv
<1> QED
  BY <1>1, InvHolds, PTL

(* Whatever the browser and the child write, the child is sent a legal LSP
   session: one document open at a time, nothing about any other, versions
   that only rise, for every set of ids, versions and limits. *)
THEOREM SessionIsLegal == AnySpec => []LegalSession
<1>1. IInv => LegalSession
  <2> SUFFICES ASSUME IInv, NEW i \in DOMAIN toChild
               PROVE  LET frame == toChild[i] IN
                        /\ Opens(frame) => OpenAt(i) = {}
                        /\ (frame.k = "sync" /\ ~frame.open) => OpenAt(i) = {frame.uri}
                        /\ frame.k \in {"didClose", "request"} => OpenAt(i) = {frame.uri}
                        /\ \A j \in 1 .. i - 1 : frame.k = "sync" /\ toChild[j].k = "sync"
                                                  => toChild[j].ver < frame.ver
    BY DEF LegalSession
  <2>1. MayFollow(toChild, i - 1, OpenBefore(toChild, i), toChild[i])
    BY DEF IInv, Heard, Sound, Legal
  <2>2. OpenAt(i) = OpenBefore(toChild, i)
    BY DEF OpenAt, OpenBefore
  <2> QED
    BY <2>1, <2>2 DEF MayFollow
<1> QED
  BY <1>1, InvHolds, PTL

(* Each id has been answered as often as it was asked about, less one while
   a request under it is in flight, however often ids are used again and
   whatever the child answers; and no more are in flight than the budget. *)
THEOREM AnswersBalanced == AnySpec => []AnswersBalance
<1>1. IInv => AnswersBalance
  <2> SUFFICES ASSUME IInv PROVE AnswersBalance
    OBVIOUS
  <2>1. \A id \in Ids : /\ Asked(id) = Count(toChild, AskedKinds, id)
                        /\ Answered(id) = Count(toClient, AnswerKinds, id)
    BY DEF Asked, Answered, Count, AskedKinds, AnswerKinds
  <2>2. IsSeq(toClient)
    BY DEF IInv, Balanced, IsSeq
  <2>3. \A id \in Ids : Count(toClient, AnswerKinds, id) \in Nat
    BY <2>2, CountNat
  <2>4. Cardinality({id \in Ids : pending[id] # Idle}) <= MaxPending
    BY DEF IInv, TypeOK, Outstanding
  <2>5. \A id \in Ids : Asked(id) = Answered(id) + (IF InFlight(id) THEN 1 ELSE 0)
    BY <2>1, <2>3 DEF IInv, Balanced
  <2> QED
    BY <2>4, <2>5 DEF AnswersBalance
<1> QED
  BY <1>1, InvHolds, PTL

-----------------------------------------------------------------------------
(* PART TWO: THE SESSION

   What the browser is told of a text was computed from that text, although the
   request went through a pipe, a queue and perhaps a switch of documents.  The
   server knows a document by what it has been told of it and has handled; so
   the invariant is about all that is under way between the two: each request
   there is about what the messages before it will make the newest text. *)

Buffers == {Doc, Tile}
Files == Buffers \cup {Package, Manifest}

PublishFrame == [k : {"publish"}, uri : Files, ver : Nat, bad : BOOLEAN]
DownFrame == PublishFrame
               \cup [k : {"result"}, id : Ids, uri : Buffers, about : Nat, of : Nat]
               \cup [k : {"error", "initialized", "bye"}, id : Ids \cup {NoId}]
UpFrame == [k : {"sync"}, uri : Buffers, ver : Nat, open : BOOLEAN]
             \cup [k : {"didClose"}, uri : Buffers]
             \cup [k : {"request"}, id : Ids, class : {"Analysed"}, uri : Buffers, about : Nat]
             \cup [k : {"initialize", "shutdown"}, id : Ids \cup {NoId}]
             \cup [k : {"initialized", "exit", "eof"}]

LEMMA UpFields ==
  ASSUME NEW f \in UpFrame
  PROVE  /\ f.k = "sync" => f.uri \in Buffers /\ f.ver \in Nat
         /\ f.k = "didClose" => f.uri \in Buffers
         /\ f.k = "request" => f.id \in Ids /\ f.uri \in Buffers /\ f.about \in Nat
                               /\ f.class = "Analysed"
         /\ f.k \in {"initialize", "shutdown"} => f.id \in Ids \cup {NoId}
         /\ f.k \in {"sync", "didClose", "request", "initialize", "shutdown", "initialized",
                     "exit", "eof"}
BY DEF UpFrame

-----------------------------------------------------------------------------
(* What the server's documents are after each of its calls.  A world is the
   record such a call takes and returns; all that it writes are publishes. *)

Worlds == [docs : [Buffers -> Nat], ready : BOOLEAN, problems : SUBSET {Package, Manifest},
           out : Seq(PublishFrame)]

LEMMA SetToSeqIs ==
  ASSUME NEW S, IsFiniteSet(S) PROVE Child!SetToSeq(S) \in Seq(S)
<1> DEFINE n == Cardinality(S)
<1>1. n \in Nat /\ ExistsBijection(1..n, S)
  BY FS_CardinalityType
<1>2. PICK f \in Bijection(1..n, S) : TRUE
  BY <1>1 DEF ExistsBijection
<1>3. f \in [1..n -> S] /\ Child!IsInjective(f)
  BY <1>2 DEF Bijection, Injection, IsInjective, Child!IsInjective
<1>4. Child!Cardinality(S) = n
  BY DEF Child!Cardinality, Cardinality
<1> HIDE DEF n
<1>5. Child!SetToSeq(S) \in [1..n -> S]
  BY <1>3, <1>4 DEF Child!SetToSeq
<1> QED
  BY <1>1, <1>5

LEMMA PublishUrisIs ==
  ASSUME NEW w \in Worlds, NEW uris \in SUBSET Files
  PROVE  Child!PublishUris(w, uris) \in Worlds /\ Child!PublishUris(w, uris).docs = w.docs
<1> DEFINE frames == {Child!Publish(w, uri) : uri \in uris}
           s == Child!SetToSeq(frames)
<1>1. IsFiniteSet(uris)
  <2>1. IsFiniteSet({Doc, Tile, Package, Manifest})
    <3>1. IsFiniteSet({})
      BY FS_EmptySet
    <3>2. IsFiniteSet({} \cup {Doc})
      BY <3>1, FS_AddElement
    <3>3. IsFiniteSet(({} \cup {Doc}) \cup {Tile})
      BY <3>2, FS_AddElement
    <3>4. IsFiniteSet((({} \cup {Doc}) \cup {Tile}) \cup {Package})
      BY <3>3, FS_AddElement
    <3>5. IsFiniteSet(((({} \cup {Doc}) \cup {Tile}) \cup {Package}) \cup {Manifest})
      BY <3>4, FS_AddElement
    <3>6. ((({} \cup {Doc}) \cup {Tile}) \cup {Package}) \cup {Manifest}
            = {Doc, Tile, Package, Manifest}
      OBVIOUS
    <3> QED
      BY <3>5, <3>6
  <2>2. uris \subseteq {Doc, Tile, Package, Manifest}
    BY DEF Files, Buffers
  <2> QED
    BY <2>1, <2>2, FS_Subset
<1>2. IsFiniteSet(frames)
  <2> DEFINE f == [uri \in uris |-> Child!Publish(w, uri)]
  <2>1. f \in Surjection(uris, frames)
    BY DEF Surjection
  <2> QED
    BY <1>1, <2>1, FS_Surjection
<1>3. \A uri \in uris : Child!Publish(w, uri) \in PublishFrame
  BY DEF Child!Publish, PublishFrame, Worlds, Child!NoVersion, Buffers
<1>4. s \in Seq(frames)
  <2> HIDE DEF frames
  <2> QED BY <1>2, SetToSeqIs
<1>5. Child!PublishUris(w, uris) = [w EXCEPT !.out = w.out \o s]
  BY DEF Child!PublishUris
<1> HIDE DEF s
<1>6. s \in Seq(PublishFrame)
  BY <1>3, <1>4
<1>7. w.out \o s \in Seq(PublishFrame)
  BY <1>6 DEF Worlds
<1> HIDE DEF frames
<1> DEFINE o == w.out \o s
<1>8. o \in Seq(PublishFrame) /\ Child!PublishUris(w, uris) = [w EXCEPT !.out = o]
  BY <1>5, <1>7
<1> HIDE DEF o
<1> QED
  BY <1>8 DEF Worlds

LEMMA RebuiltIs ==
  ASSUME NEW w \in Worlds, NEW n \in Child!Rebuilt(w)
  PROVE  n \in Worlds /\ n.docs = w.docs
<1>1. CASE w.ready
  <2>1. PICK found \in SUBSET {Package} :
          n = [w EXCEPT !.problems = (w.problems \cap {Manifest}) \cup found]
    BY <1>1 DEF Child!Rebuilt
  <2> QED
    BY <2>1 DEF Worlds
<1>2. CASE ~w.ready
  BY <1>2 DEF Child!Rebuilt, Worlds
<1> QED
  BY <1>1, <1>2

LEMMA ActivatedIs ==
  ASSUME NEW w \in Worlds, NEW n \in Child!Activated(w)
  PROVE  n \in Worlds /\ n.docs = w.docs
<1>1. PICK works \in BOOLEAN : n \in Child!Rebuilt([w EXCEPT !.ready = works, !.problems = {}])
  BY DEF Child!Activated
<1> DEFINE v == [w EXCEPT !.ready = works, !.problems = {}]
<1>2. v \in Worlds /\ v.docs = w.docs
  BY DEF Worlds
<1> HIDE DEF v
<1>3. n \in Child!Rebuilt(v)
  BY <1>1 DEF v
<1> QED
  BY <1>2, <1>3, RebuiltIs

LEMMA SlotIs == ASSUME NEW w \in Worlds PROVE Child!SlotUris(w) \in SUBSET Files
BY DEF Child!SlotUris, Child!Members, Worlds, Files, Buffers

LEMMA InstallIs ==
  ASSUME NEW w \in Worlds, NEW m \in Worlds
  PROVE  Child!Install(w, m) \in Worlds /\ Child!Install(w, m).docs = m.docs
<1>1. Child!SlotUris(w) \cup Child!SlotUris(m) \in SUBSET Files
  BY SlotIs
<1> QED
  BY <1>1, PublishUrisIs DEF Child!Install

LEMMA AnalysedIs ==
  ASSUME NEW w \in Worlds, NEW sync \in [uri : Files, ver : Nat], sync.uri \in Buffers,
         NEW n \in Child!Analysed(w, sync)
  PROVE  n \in Worlds /\ n.docs = [w.docs EXCEPT ![sync.uri] = sync.ver]
<1> DEFINE v == [w EXCEPT !.docs[sync.uri] = sync.ver]
<1>1. v \in Worlds /\ v.docs = [w.docs EXCEPT ![sync.uri] = sync.ver]
  BY DEF Worlds
<1>2. CASE sync.uri = Tile
  <2>1. PICK m : m \in Child!Rebuilt(v) \cup Child!Activated(v) /\ n = Child!Install(w, m)
    BY <1>2 DEF Child!Analysed
  <2> HIDE DEF v
  <2>2. m \in Worlds /\ m.docs = v.docs
    BY <1>1, <2>1, RebuiltIs, ActivatedIs
  <2> QED
    BY <1>1, <2>1, <2>2, InstallIs
<1>3. CASE sync.uri # Tile
  <2>1. n = Child!PublishUris(v, {sync.uri})
    BY <1>3 DEF Child!Analysed
  <2>2. {sync.uri} \in SUBSET Files
    OBVIOUS
  <2> HIDE DEF v
  <2> QED
    BY <1>1, <2>1, <2>2, PublishUrisIs
<1> QED
  BY <1>2, <1>3

LEMMA CloseIs ==
  ASSUME NEW w \in Worlds, NEW uri \in Buffers, NEW n \in Child!CloseDoc(w, uri)
  PROVE  n \in Worlds /\ n.docs = [w.docs EXCEPT ![uri] = 0]
<1> DEFINE v == [w EXCEPT !.docs[uri] = 0]
<1>1. v \in Worlds /\ v.docs = [w.docs EXCEPT ![uri] = 0]
  BY DEF Worlds
<1>2. CASE uri \in Child!Members(w.docs)
  <2>1. PICK m \in Child!Without(w, uri) :
          n = Child!PublishUris(m, {uri} \cup Child!SlotUris(w) \cup Child!SlotUris(m))
    BY <1>2 DEF Child!CloseDoc
  <2>2. m = [v EXCEPT !.ready = FALSE, !.problems = {}] \/ m \in Child!Rebuilt(v)
    BY DEF Child!Without, Child!NoVersion
  <2> HIDE DEF v
  <2>3. m \in Worlds /\ m.docs = v.docs
    <3>1. CASE m = [v EXCEPT !.ready = FALSE, !.problems = {}]
      BY <1>1, <3>1 DEF Worlds
    <3> QED
      BY <1>1, <2>2, <3>1, RebuiltIs
  <2>4. {uri} \cup Child!SlotUris(w) \cup Child!SlotUris(m) \in SUBSET Files
    BY <2>3, SlotIs DEF Files
  <2> QED
    BY <1>1, <2>1, <2>3, <2>4, PublishUrisIs
<1>3. CASE uri \notin Child!Members(w.docs)
  <2>1. n = Child!PublishUris(v, {uri}) /\ {uri} \in SUBSET Files
    BY <1>3 DEF Child!CloseDoc, Child!NoVersion, Files
  <2> HIDE DEF v
  <2> QED
    BY <1>1, <2>1, PublishUrisIs
<1> QED
  BY <1>2, <1>3

-----------------------------------------------------------------------------
(* What is on its way to the server *)

Queue == inbox \o toChild

Carried(f) == IF f.k = "sync" THEN f.ver ELSE 0
Sets(f, u) == f.k \in {"sync", "didClose"} /\ f.uri = u

(* The newest texts after a message *)
Newest(f, d) ==
  IF f.k \in {"sync", "didClose"} THEN [d EXCEPT ![f.uri] = Carried(f)] ELSE d

(* v is the newest text of u when the first n messages of q but the last have
   been handled, from the texts in base. *)
Names(q, n, base, u, v) ==
  /\ (\A j \in 1 .. n - 1 : ~Sets(q[j], u)) => v = base[u]
  /\ \A j \in 1 .. n - 1 :
       Sets(q[j], u) /\ (\A m \in j + 1 .. n - 1 : ~Sets(q[m], u)) => v = Carried(q[j])

(* Each request of q is about the newest text before it; last is what all of
   q leaves. *)
AsksOf(q, base, last) ==
  /\ \A i \in DOMAIN q :
       q[i].k = "request" => Names(q, i, base, q[i].uri, q[i].about)
  /\ \A u \in Buffers : Names(q, Len(q) + 1, base, u, last[u])

LEMMA NewestIs ==
  ASSUME NEW f \in UpFrame, NEW d \in [Buffers -> Nat]
  PROVE  Newest(f, d) \in [Buffers -> Nat]
BY UpFields DEF Newest, Carried

LEMMA AsksTail ==
  ASSUME NEW q \in Seq(UpFrame), q # <<>>, NEW base \in [Buffers -> Nat], NEW last,
         AsksOf(q, base, last)
  PROVE  /\ AsksOf(Tail(q), Newest(Head(q), base), last)
         /\ Head(q).k = "request" => Head(q).about = base[Head(q).uri]
<1> DEFINE r == Tail(q)
           next == Newest(Head(q), base)
<1>1. /\ Len(q) \in Nat /\ Len(q) > 0 /\ DOMAIN q = 1..Len(q) /\ DOMAIN r = 1..(Len(q) - 1)
      /\ Len(r) = Len(q) - 1
      /\ \A i \in DOMAIN r : i + 1 \in DOMAIN q /\ r[i] = q[i + 1]
      /\ Head(q) = q[1] /\ 1 \in DOMAIN q
  OBVIOUS
<1>2. \A u \in Buffers : next[u] = IF Sets(q[1], u) THEN Carried(q[1]) ELSE base[u]
  BY <1>1 DEF Newest, Sets
<1> HIDE DEF r, next
<1>3. ASSUME NEW n \in 1 .. Len(r) + 1, NEW u \in Buffers, NEW v, Names(q, n + 1, base, u, v)
      PROVE  Names(r, n, next, u, v)
  <2>1. \A j \in 1 .. n - 1 : r[j] = q[j + 1]
    BY <1>1
  <2>2. ASSUME \A j \in 1 .. n - 1 : ~Sets(r[j], u)
        PROVE  v = next[u]
    <3>1. \A j \in 2 .. n : ~Sets(q[j], u)
      <4> SUFFICES ASSUME NEW j \in 2 .. n PROVE ~Sets(q[j], u)
        OBVIOUS
      <4>1. j - 1 \in 1 .. n - 1 /\ (j - 1) + 1 = j
        BY <1>1
      <4> QED
        BY <2>1, <2>2, <4>1
    <3>2. CASE Sets(q[1], u)
      BY <1>1, <1>2, <1>3, <3>1, <3>2 DEF Names
    <3>3. CASE ~Sets(q[1], u)
      BY <1>1, <1>2, <1>3, <3>1, <3>3 DEF Names
    <3> QED
      BY <3>2, <3>3
  <2>3. ASSUME NEW j \in 1 .. n - 1, Sets(r[j], u), \A m \in j + 1 .. n - 1 : ~Sets(r[m], u)
        PROVE  v = Carried(r[j])
    <3>1. \A m \in j + 2 .. n : ~Sets(q[m], u)
      <4> SUFFICES ASSUME NEW m \in j + 2 .. n PROVE ~Sets(q[m], u)
        OBVIOUS
      <4>1. m - 1 \in j + 1 .. n - 1 /\ m - 1 \in 1 .. n - 1 /\ (m - 1) + 1 = m
        BY <1>1
      <4> QED
        BY <2>1, <2>3, <4>1
    <3>2. j + 1 \in 1 .. n /\ (j + 1) + 1 = j + 2 /\ (n + 1) - 1 = n /\ r[j] = q[j + 1]
      BY <1>1, <2>1
    <3> QED
      BY <1>3, <2>3, <3>1, <3>2 DEF Names
  <2> QED
    BY <2>2, <2>3 DEF Names
<1>4. \A i \in DOMAIN r : r[i].k = "request" => Names(r, i, next, r[i].uri, r[i].about)
  <2> SUFFICES ASSUME NEW i \in DOMAIN r, r[i].k = "request"
               PROVE  Names(r, i, next, r[i].uri, r[i].about)
    OBVIOUS
  <2>1. i + 1 \in DOMAIN q /\ r[i] = q[i + 1] /\ i \in 1 .. Len(r) + 1
    BY <1>1
  <2>2. r[i].uri \in Buffers
    BY <2>1, UpFields
  <2>3. Names(q, i + 1, base, r[i].uri, r[i].about)
    BY <2>1 DEF AsksOf
  <2> QED
    BY <1>3, <2>1, <2>2, <2>3
<1>5. \A u \in Buffers : Names(r, Len(r) + 1, next, u, last[u])
  <2> SUFFICES ASSUME NEW u \in Buffers PROVE Names(r, Len(r) + 1, next, u, last[u])
    OBVIOUS
  <2>1. Names(q, (Len(r) + 1) + 1, base, u, last[u])
    BY <1>1 DEF AsksOf
  <2> QED
    BY <1>1, <1>3, <2>1
<1>6. q[1].k = "request" => q[1].about = base[q[1].uri]
  BY <1>1 DEF AsksOf, Names
<1> QED
  BY <1>1, <1>4, <1>5, <1>6 DEF AsksOf, r, next

LEMMA AsksAppend ==
  ASSUME NEW q \in Seq(UpFrame), NEW base, NEW last \in [Buffers -> Nat], AsksOf(q, base, last),
         NEW f \in UpFrame, f.k = "request" => f.about = last[f.uri]
  PROVE  AsksOf(Append(q, f), base, Newest(f, last))
<1> DEFINE r == Append(q, f)
           next == Newest(f, last)
<1>1. /\ Len(q) \in Nat /\ DOMAIN q = 1..Len(q) /\ DOMAIN r = 1..(Len(q) + 1)
      /\ Len(r) = Len(q) + 1
      /\ \A i \in DOMAIN q : r[i] = q[i]
      /\ r[Len(q) + 1] = f
  OBVIOUS
<1>2. \A u \in Buffers : next[u] = IF Sets(f, u) THEN Carried(f) ELSE last[u]
  BY DEF Newest, Sets
<1> HIDE DEF r, next
<1>3. ASSUME NEW n \in 1 .. Len(q) + 1, NEW u, NEW v, Names(q, n, base, u, v)
      PROVE  Names(r, n, base, u, v)
  <2>1. \A j \in 1 .. n - 1 : r[j] = q[j]
    BY <1>1
  <2> QED
    BY <1>3, <2>1 DEF Names
<1>4. ASSUME NEW i \in DOMAIN r, r[i].k = "request"
      PROVE  Names(r, i, base, r[i].uri, r[i].about)
  <2>1. CASE i \in DOMAIN q
    BY <1>1, <1>3, <1>4, <2>1 DEF AsksOf
  <2>2. CASE i = Len(q) + 1
    <3>1. Names(q, Len(q) + 1, base, f.uri, last[f.uri])
      BY <1>1, <1>4, <2>2, UpFields DEF AsksOf
    <3> QED
      BY <1>1, <1>3, <1>4, <2>2, <3>1
  <2> QED
    BY <1>1, <2>1, <2>2
<1>5. ASSUME NEW u \in Buffers
      PROVE  Names(r, Len(r) + 1, base, u, next[u])
  <2>1. Names(r, Len(q) + 1, base, u, last[u])
    BY <1>1, <1>3 DEF AsksOf
  <2>2. Len(r) + 1 - 1 = Len(q) + 1
    BY <1>1
  <2>3. CASE Sets(f, u)
    <3>1. next[u] = Carried(f)
      BY <1>2, <2>3
    <3>2. Len(q) + 1 \in 1 .. Len(r) + 1 - 1 /\ Sets(r[Len(q) + 1], u)
      BY <1>1, <2>3
    <3>3. ASSUME NEW j \in 1 .. Len(r) + 1 - 1, \A m \in j + 1 .. Len(r) + 1 - 1 : ~Sets(r[m], u)
          PROVE  j = Len(q) + 1
      BY <1>1, <3>2, <3>3
    <3> QED
      BY <1>1, <3>1, <3>2, <3>3 DEF Names
  <2>4. CASE ~Sets(f, u)
    <3>1. next[u] = last[u]
      BY <1>2, <2>4
    <3>2. \A j \in 1 .. Len(q) + 1 : Sets(r[j], u) => j \in 1 .. Len(q) + 1 - 1
      BY <1>1, <2>4
    <3>3. \A j : \A m \in j + 1 .. Len(q) + 1 - 1 : m \in j + 1 .. Len(r) + 1 - 1
      BY <1>1
    <3> QED
      BY <1>1, <2>1, <2>2, <3>1, <3>2 DEF Names
  <2> QED
    BY <2>3, <2>4
<1> QED
  BY <1>4, <1>5 DEF AsksOf, r, next

-----------------------------------------------------------------------------
(* The invariant *)

Texts == IF deferred = Child!NoSync THEN docs ELSE [docs EXCEPT ![deferred.uri] = deferred.ver]
Last == [u \in Buffers |-> IF state = "open" /\ u = Uri(in_project) THEN version ELSE 0]

STypes ==
  /\ inbox \in Seq(UpFrame) /\ toChild \in Seq(UpFrame) /\ fromChild \in Seq(DownFrame)
  /\ docs \in [Buffers -> Nat] /\ ready \in BOOLEAN /\ problems \in SUBSET {Package, Manifest}
  /\ deferred \in [uri : Files, ver : Nat]
  /\ deferred # Child!NoSync => deferred.uri \in Buffers
  /\ lifecycle \in {"PreInit", "Running", "Shutdown"}
  /\ version \in Int /\ (state = "open" => version \in Nat)
  /\ in_project \in BOOLEAN
  /\ working \/ inbox = <<>> \/ ~serving

(* Nothing is said of a document before the server has begun. *)
Begun ==
  lifecycle = "PreInit" =>
    /\ state \notin {"initialize-done", "initialized", "open"}
    /\ \A i \in DOMAIN Queue : Queue[i].k \notin {"sync", "didClose"}
    /\ \A i \in DOMAIN fromChild : fromChild[i].k \notin {"initialized", "result"}

Asks == serving /\ lifecycle # "Shutdown" => AsksOf(Queue, Texts, Last)

SInv == STypes /\ Begun /\ Asks /\ AnswersCross

server == <<inbox, docs, ready, problems, deferred, lifecycle, working, serving>>

LEMMA TextsIs ==
  ASSUME STypes
  PROVE  /\ Texts \in [Buffers -> Nat]
         /\ \A u \in Buffers : Child!TextNow(u) = Texts[u]
<1>1. \A u \in Buffers : u # Package
  BY SessionAssumption DEF Buffers
<1> QED
  BY <1>1 DEF STypes, Texts, Child!TextNow, Child!NoSync

LEMMA LastIs == ASSUME STypes PROVE Last \in [Buffers -> Nat]
BY DEF STypes, Last

LEMMA FlushIs ==
  ASSUME STypes, NEW w \in Child!Flush(Child!World)
  PROVE  w \in Worlds /\ w.docs = Texts
<1> DEFINE n == Child!World
<1>1. n \in Worlds /\ n.docs = docs
  BY DEF STypes, Worlds, Child!World
<1>2. w \in (IF deferred = Child!NoSync THEN {n} ELSE Child!Analysed(n, deferred))
  BY DEF Child!Flush
<1> HIDE DEF n
<1>3. CASE deferred = Child!NoSync
  BY <1>1, <1>2, <1>3 DEF Texts
<1>4. CASE deferred # Child!NoSync
  BY <1>1, <1>2, <1>4, AnalysedIs DEF STypes, Texts
<1> QED
  BY <1>3, <1>4

(* The frames s are sent to the child: the relay's fields may change with
   them, the server's do not. *)
LEMMA SentKeeps ==
  ASSUME SInv, NEW s \in Seq(UpFrame), toChild' = toChild \o s,
         UNCHANGED <<server, fromChild>>,
         version' \in Int /\ (state' = "open" => version' \in Nat) /\ in_project' \in BOOLEAN,
         lifecycle = "PreInit" =>
           /\ state' \notin {"initialize-done", "initialized", "open"}
           /\ \A i \in DOMAIN s : s[i].k \notin {"sync", "didClose"},
         Asks => (serving /\ lifecycle # "Shutdown" => AsksOf(Queue \o s, Texts, Last'))
  PROVE  SInv'
<1>1. Queue' = Queue \o s /\ Queue \in Seq(UpFrame)
  BY SMTT(60) DEF SInv, STypes, Queue, server
<1>2. Texts' = Texts
  BY DEF Texts, server, Child!NoSync
<1>3. STypes'
  BY DEF SInv, STypes, server, Child!NoSync
<1>4. Begun'
  <2>1. \A i \in DOMAIN (Queue \o s) :
          \/ i \in DOMAIN Queue /\ (Queue \o s)[i] = Queue[i]
          \/ i - Len(Queue) \in DOMAIN s /\ (Queue \o s)[i] = s[i - Len(Queue)]
    BY <1>1
  <2> QED
    BY <1>1, <2>1 DEF SInv, Begun, server
<1>5. Asks'
  BY <1>1, <1>2 DEF SInv, Asks, server
<1>6. AnswersCross'
  BY DEF SInv, AnswersCross
<1> QED
  BY <1>3, <1>4, <1>5, <1>6 DEF SInv

(* Nothing is sent to the child *)
LEMMA NothingSent ==
  ASSUME SInv, UNCHANGED <<server, toChild>>,
         fromChild' = fromChild \/ (fromChild # <<>> /\ fromChild' = Tail(fromChild)),
         version' = version, in_project' = in_project,
         state' = state \/ (state # "open" /\ state' # "open"),
         lifecycle = "PreInit" => state' \notin {"initialize-done", "initialized", "open"}
  PROVE  SInv'
<1>1. /\ fromChild' \in Seq(DownFrame)
      /\ \A i \in DOMAIN fromChild' : \E j \in DOMAIN fromChild : fromChild'[i] = fromChild[j]
  <2>1. fromChild \in Seq(DownFrame)
    BY DEF SInv, STypes
  <2>2. CASE fromChild' = fromChild
    BY <2>1, <2>2
  <2>3. CASE fromChild # <<>> /\ fromChild' = Tail(fromChild)
    <3>1. /\ Tail(fromChild) \in Seq(DownFrame)
          /\ \A i \in DOMAIN Tail(fromChild) :
               i + 1 \in DOMAIN fromChild /\ Tail(fromChild)[i] = fromChild[i + 1]
      BY <2>1, <2>3
    <3> QED
      BY <2>3, <3>1
  <2> QED
    BY <2>2, <2>3
<1>2. Queue' = Queue /\ Texts' = Texts /\ Last' = Last
  BY DEF Queue, Texts, Last, server, Child!NoSync, Uri
<1>3. STypes'
  BY <1>1 DEF SInv, STypes, server, Child!NoSync
<1>4. Begun'
  BY <1>1, <1>2 DEF SInv, Begun, server
<1>5. Asks'
  BY <1>2 DEF SInv, Asks, server
<1>6. AnswersCross'
  BY <1>1 DEF SInv, AnswersCross
<1> QED
  BY <1>3, <1>4, <1>5, <1>6 DEF SInv

-----------------------------------------------------------------------------
(* The browser and the relay *)

LEMMA UriIs == ASSUME NEW p \in BOOLEAN PROVE Uri(p) \in Buffers
BY DEF Uri, Buffers

LEMMA OneSent ==
  ASSUME SInv, NEW f \in UpFrame, f.k = "request" => f.about = Last[f.uri],
         Last' = Newest(f, Last)
  PROVE  /\ <<f>> \in Seq(UpFrame) /\ \A i \in DOMAIN <<f>> : <<f>>[i] = f
         /\ Asks => (serving /\ lifecycle # "Shutdown" => AsksOf(Queue \o <<f>>, Texts, Last'))
<1>1. Queue \in Seq(UpFrame) /\ Queue \o <<f>> = Append(Queue, f)
  BY DEF SInv, STypes, Queue
<1>2. Texts \in [Buffers -> Nat] /\ Last \in [Buffers -> Nat]
  BY TextsIs, LastIs DEF SInv
<1>3. AsksOf(Queue, Texts, Last) => AsksOf(Append(Queue, f), Texts, Newest(f, Last))
  <2> SUFFICES ASSUME AsksOf(Queue, Texts, Last)
               PROVE  AsksOf(Append(Queue, f), Texts, Newest(f, Last))
    OBVIOUS
  <2> QED
    BY <1>1, <1>2, AsksAppend
<1> QED
  BY <1>1, <1>3, OneFrame DEF Asks

LEMMA BeginKeeps == ASSUME SInv, Begin, UNCHANGED childVars PROVE SInv'
<1>1. PICK id \in Ids : state = "new" /\ Initialize(id)
  BY DEF Begin
<1>2. CASE UNCHANGED <<protocol, toChild>>
  BY <1>1, <1>2, NothingSent DEF SInv, Begun, Initialize, Received, protocol, childVars, server
<1>3. CASE Forward(<<[k |-> "initialize", id |-> id]>>) /\ state' = "initialize-sent"
           /\ UNCHANGED <<version, in_project>>
  <2> DEFINE f == [k |-> "initialize", id |-> id]
  <2>1. f \in UpFrame /\ f.k = "initialize"
    BY DEF UpFrame
  <2>2. toChild' = toChild \o <<f>> /\ fromChild' = fromChild
    BY <1>1, <1>3 DEF Forward, Initialize, Received
  <2> HIDE DEF f
  <2>3. Last' = Last /\ Newest(f, Last) = Last
    BY <1>1, <1>3, <2>1 DEF Last, Newest, Uri
  <2> QED
    BY <1>3, <2>1, <2>2, <2>3, OneSent, SentKeeps DEF SInv, STypes, childVars, server
<1> QED
  BY <1>1, <1>2, <1>3 DEF Initialize, Close

LEMMA ReadyKeeps == ASSUME SInv, Ready, UNCHANGED childVars PROVE SInv'
<1>1. state = "initialize-done" /\ state' = "initialized" /\ UNCHANGED <<version, in_project>>
  BY DEF Ready, Initialized
<1> DEFINE f == [k |-> "initialized"]
<1>2. f \in UpFrame /\ f.k = "initialized"
  BY DEF UpFrame
<1>3. toChild' = toChild \o <<f>> /\ fromChild' = fromChild
  BY DEF Ready, Initialized, Forward, Received
<1> HIDE DEF f
<1>4. Last' = Last /\ Newest(f, Last) = Last
  BY <1>1, <1>2 DEF Last, Newest, Uri
<1>5. lifecycle # "PreInit"
  BY <1>1 DEF SInv, Begun
<1> QED
  BY <1>1, <1>2, <1>3, <1>4, <1>5, OneSent, SentKeeps DEF SInv, STypes, childVars, server

LEMMA SyncIs ==
  ASSUME NEW v \in Nat, NEW tile \in BOOLEAN, NEW open \in BOOLEAN
  PROVE  LET f == Sync(v, tile, open) IN
         f \in UpFrame /\ f.k = "sync" /\ f.uri = Uri(tile) /\ f.ver = v
BY UriIs DEF Sync, UpFrame

LEMMA OpenKeeps == ASSUME SInv, Open, UNCHANGED childVars PROVE SInv'
<1>1. PICK tile \in BOOLEAN : state = "initialized" /\ DidOpen(1, tile)
  BY DEF Open
<1>2. state' = "open" /\ version' = 1 /\ in_project' = tile
  BY <1>1 DEF DidOpen
<1> DEFINE f == Sync(1, tile, TRUE)
<1>3. toChild' = toChild \o <<f>> /\ fromChild' = fromChild
  BY <1>1, ZenonT(60) DEF DidOpen, Forward, Received
<1>4. f \in UpFrame /\ f.k = "sync" /\ f.uri = Uri(tile) /\ f.ver = 1
  BY SyncIs
<1> HIDE DEF f
<1>5. Last' = Newest(f, Last)
  BY <1>1, <1>2, <1>4 DEF Last, Newest, Carried, Uri
<1>6. lifecycle # "PreInit"
  BY <1>1 DEF SInv, Begun
<1>7. /\ <<f>> \in Seq(UpFrame)
      /\ Asks => (serving /\ lifecycle # "Shutdown" => AsksOf(Queue \o <<f>>, Texts, Last'))
  BY <1>4, <1>5, OneSent
<1>8. version' \in Int /\ version' \in Nat /\ in_project' \in BOOLEAN
  BY <1>2
<1> QED
  BY <1>3, <1>6, <1>7, <1>8, SentKeeps DEF childVars, server

LEMMA EditKeeps == ASSUME SInv, Edit, UNCHANGED childVars PROVE SInv'
<1> DEFINE v == version + 1
<1>1. PICK tile \in BOOLEAN : state = "open" /\ v \in Versions /\ DidChange(v, tile)
  BY DEF Edit
<1>2. v \in Nat /\ version \in Nat /\ version < v
  BY <1>1, VersionAssumption DEF SInv, STypes
<1>3. lifecycle # "PreInit"
  BY <1>1 DEF SInv, Begun
<1> HIDE DEF v
<1>4. /\ state' = "open" /\ version' = v /\ in_project' = tile /\ fromChild' = fromChild
      /\ Forward(IF tile # in_project THEN Switched(v, tile) ELSE <<Sync(v, tile, FALSE)>>)
  BY <1>1, <1>2 DEF DidChange, Received
<1>4a. version' \in Int /\ version' \in Nat /\ in_project' \in BOOLEAN
  BY <1>2, <1>4
<1>5. CASE tile = in_project
  <2> DEFINE f == Sync(v, tile, FALSE)
  <2>1. f \in UpFrame /\ f.k = "sync" /\ f.uri = Uri(tile) /\ f.ver = v
    BY <1>2, SyncIs
  <2>2. toChild' = toChild \o <<f>>
    BY <1>4, <1>5 DEF Forward
  <2> HIDE DEF f
  <2>3. Last' = Newest(f, Last)
    BY <1>1, <1>4, <1>5, <2>1, UriIs DEF Last, Newest, Carried
  <2>4. /\ <<f>> \in Seq(UpFrame)
        /\ Asks => (serving /\ lifecycle # "Shutdown" => AsksOf(Queue \o <<f>>, Texts, Last'))
    BY <2>1, <2>3, OneSent
  <2> QED
    BY <1>3, <1>4, <1>4a, <2>2, <2>4, SentKeeps DEF childVars, server
<1>6. CASE tile # in_project
  <2> DEFINE e == [k |-> "didClose", uri |-> Uri(in_project)]
             f == Sync(v, tile, TRUE)
             none == Newest(e, Last)
             s == <<e, f>>
  <2>0. in_project \in BOOLEAN
    BY DEF SInv, STypes
  <2>1. f \in UpFrame /\ f.k = "sync" /\ f.uri = Uri(tile) /\ f.ver = v
    BY <1>2, SyncIs
  <2>2. e \in UpFrame /\ e.k = "didClose" /\ e.uri = Uri(in_project)
    BY <2>0, UriIs DEF UpFrame
  <2>3. toChild' = toChild \o s
    BY <1>4, <1>6 DEF Forward, Switched
  <2> HIDE DEF e, f
  <2>4. Last \in [Buffers -> Nat] /\ none \in [Buffers -> Nat] /\ Texts \in [Buffers -> Nat]
    BY <2>2, LastIs, TextsIs, NewestIs DEF SInv
  <2>5. Last' = Newest(f, none)
    BY <1>4, <1>6, <2>0, <2>1, <2>2, UriIs DEF Last, Newest, Carried
  <2> HIDE DEF none
  <2>6. s \in Seq(UpFrame) /\ Queue \in Seq(UpFrame)
        /\ Queue \o s = Append(Append(Queue, e), f) /\ Append(Queue, e) \in Seq(UpFrame)
    <3>1. Queue \in Seq(UpFrame)
      BY DEF SInv, STypes, Queue
    <3> HIDE DEF Queue
    <3> QED
      BY <2>1, <2>2, <3>1, TwoFrames, ConcatTwo
  <2>7. Asks => (serving /\ lifecycle # "Shutdown" => AsksOf(Queue \o s, Texts, Last'))
    <3> SUFFICES ASSUME AsksOf(Queue, Texts, Last) PROVE AsksOf(Queue \o s, Texts, Last')
      BY DEF Asks
    <3>1. AsksOf(Append(Queue, e), Texts, none)
      BY <2>2, <2>4, <2>6, AsksAppend DEF none
    <3> QED
      BY <2>1, <2>4, <2>5, <2>6, <3>1, AsksAppend
  <2> HIDE DEF s
  <2> QED
    BY <1>3, <1>4, <1>4a, <2>3, <2>6, <2>7, SentKeeps DEF childVars, server
<1> QED
  BY <1>5, <1>6

LEMMA AskKeeps == ASSUME SInv, Ask, UNCHANGED childVars PROVE SInv'
<1>1. PICK id \in Ids, method \in {"completion", "definition"} :
        state = "open" /\ Request(id, method, Doc)
  BY DEF Ask
<1>2. CASE UNCHANGED <<protocol, toChild>>
  BY <1>1, <1>2, NothingSent DEF SInv, Begun, Request, Received, protocol, childVars, server
<1>3. CASE /\ Forward(<<[k |-> "request", id |-> id, class |-> "Analysed",
                         uri |-> Uri(in_project), about |-> version]>>)
           /\ UNCHANGED <<state, version, in_project>>
  <2> DEFINE f == [k |-> "request", id |-> id, class |-> "Analysed",
                   uri |-> Uri(in_project), about |-> version]
  <2>1. /\ f \in UpFrame /\ f.k = "request" /\ f.uri = Uri(in_project) /\ f.about = version
        /\ Uri(in_project) \in Buffers
    BY <1>1, UriIs DEF SInv, STypes, UpFrame
  <2>2. toChild' = toChild \o <<f>> /\ fromChild' = fromChild
    BY <1>1, <1>3 DEF Forward, Request, Received
  <2> HIDE DEF f
  <2>3. Last' = Last /\ Newest(f, Last) = Last /\ f.about = Last[f.uri]
    BY <1>1, <1>3, <2>1 DEF Last, Newest, Uri
  <2>4. lifecycle # "PreInit"
    BY <1>1 DEF SInv, Begun
  <2> QED
    BY <1>3, <2>1, <2>2, <2>3, <2>4, OneSent, SentKeeps DEF SInv, STypes, childVars, server
<1> QED
  BY <1>1, <1>2, <1>3 DEF Request, Close

LEMMA RelayKeeps == ASSUME SInv, Relay PROVE SInv'
<1> USE DEF childVars, server, protocol
<1>1. CASE Publish
  BY <1>1, NothingSent DEF SInv, Begun, Relay, Publish, ChildSays, Blame
<1>2. CASE InitializeAnswer
  <2>1. /\ fromChild # <<>> /\ fromChild' = Tail(fromChild) /\ UNCHANGED <<toChild, version, in_project>>
        /\ state = "initialize-sent"
        /\ state' = IF Head(fromChild).k = "error" THEN "initialize-failed" ELSE "initialize-done"
        /\ Head(fromChild).k \in {"initialized", "result", "error"}
    BY <1>2 DEF InitializeAnswer, ChildSays
  <2>2. lifecycle = "PreInit" => Head(fromChild).k = "error"
    BY <2>1 DEF SInv, Begun, STypes
  <2> QED
    BY <2>1, <2>2, NothingSent DEF Relay
<1>3. CASE Response
  BY <1>3, NothingSent DEF SInv, Begun, Relay, Response, ChildSays, Blame
<1>4. CASE Unexpected
  BY <1>4, NothingSent DEF SInv, Begun, Relay, Unexpected, ChildSays, Blame
<1>5. CASE ChildGone
  BY <1>5, NothingSent DEF SInv, Begun, Relay, ChildGone, Blame
<1>6. CASE StopChild
  <2>0. UNCHANGED <<state, version, in_project, fromChild>> /\ Last' = Last
    BY <1>6 DEF StopChild, Last, Uri
  <2>1. CASE toChild' = toChild
    BY <2>0, <2>1, NothingSent DEF SInv, Begun, Relay
  <2>2. CASE toChild' = toChild \o <<[k |-> "shutdown", id |-> NoId], [k |-> "exit"]>>
    <3> DEFINE e == [k |-> "shutdown", id |-> NoId]
               f == [k |-> "exit"]
               s == <<e, f>>
    <3>1. e \in UpFrame /\ e.k = "shutdown" /\ f \in UpFrame /\ f.k = "exit"
      BY DEF UpFrame
    <3>2. toChild' = toChild \o s
      BY <2>2
    <3> HIDE DEF e, f
    <3>3. s \in Seq(UpFrame) /\ Queue \in Seq(UpFrame) /\ s[1] = e /\ s[2] = f /\ DOMAIN s = 1 .. 2
          /\ Queue \o s = Append(Append(Queue, e), f) /\ Append(Queue, e) \in Seq(UpFrame)
      <4>1. Queue \in Seq(UpFrame)
        BY DEF SInv, STypes, Queue
      <4> QED
        BY <3>1, <4>1, TwoFrames, ConcatTwo
    <3>4. Newest(e, Last) = Last /\ Newest(f, Last) = Last
      BY <3>1 DEF Newest
    <3>5. Last \in [Buffers -> Nat] /\ Texts \in [Buffers -> Nat]
      BY LastIs, TextsIs DEF SInv
    <3>6. Asks => (serving /\ lifecycle # "Shutdown" => AsksOf(Queue \o s, Texts, Last'))
      <4> SUFFICES ASSUME AsksOf(Queue, Texts, Last) PROVE AsksOf(Queue \o s, Texts, Last)
        BY <2>0 DEF Asks
      <4>1. AsksOf(Append(Queue, e), Texts, Newest(e, Last))
        BY <3>1, <3>3, <3>5, AsksAppend
      <4> QED
        BY <3>1, <3>3, <3>4, <3>5, <4>1, AsksAppend
    <3> HIDE DEF s
    <3>7. \A i \in DOMAIN s : s[i].k \notin {"sync", "didClose"}
      BY <3>1, <3>3
    <3> QED
      BY <2>0, <3>2, <3>3, <3>6, <3>7, SentKeeps DEF SInv, STypes, Begun, Relay
  <2> QED
    BY <1>6, <2>1, <2>2, SMTT(60) DEF StopChild
<1> QED
  BY <1>1, <1>2, <1>3, <1>4, <1>5, <1>6 DEF Relay, FromChild

-----------------------------------------------------------------------------
(* The server *)

(* The server goes on to the texts t, having written s. *)
LEMMA ServerKeeps ==
  ASSUME SInv, UNCHANGED protocol, NEW s \in Seq(DownFrame), fromChild' = fromChild \o s,
         \A i \in DOMAIN s : s[i].k = "result" => s[i].of = s[i].about,
         inbox' \in Seq(UpFrame) /\ toChild' \in Seq(UpFrame),
         working' \/ inbox' = <<>> \/ ~serving',
         docs' \in [Buffers -> Nat] /\ ready' \in BOOLEAN,
         problems' \in SUBSET {Package, Manifest},
         deferred' \in [uri : Files, ver : Nat],
         deferred' # Child!NoSync => deferred'.uri \in Buffers,
         lifecycle' \in {"PreInit", "Running", "Shutdown"},
         lifecycle' = "PreInit" =>
           /\ lifecycle = "PreInit"
           /\ \A i \in DOMAIN s : s[i].k \notin {"initialized", "result"},
         \A i \in DOMAIN Queue' : Queue'[i].k \in {"sync", "didClose"} =>
           \E j \in DOMAIN Queue : Queue[j] = Queue'[i],
         serving' /\ lifecycle' # "Shutdown" => AsksOf(Queue', Texts', Last)
  PROVE  SInv'
<1>1. /\ fromChild' \in Seq(DownFrame)
      /\ \A i \in DOMAIN fromChild' :
           \/ i \in DOMAIN fromChild /\ fromChild'[i] = fromChild[i]
           \/ \E j \in DOMAIN s : fromChild'[i] = s[j]
  <2>1. fromChild \in Seq(DownFrame)
    BY DEF SInv, STypes
  <2>2. \A i \in DOMAIN (fromChild \o s) :
          \/ i \in DOMAIN fromChild /\ (fromChild \o s)[i] = fromChild[i]
          \/ i - Len(fromChild) \in DOMAIN s /\ (fromChild \o s)[i] = s[i - Len(fromChild)]
    BY <2>1
  <2> QED
    BY <2>1, <2>2
<1>2. Last' = Last
  BY DEF Last, protocol, Uri
<1>3. STypes'
  BY <1>1 DEF SInv, STypes, protocol, Child!NoSync
<1>4. Begun'
  BY <1>1 DEF SInv, Begun, protocol
<1>5. Asks'
  BY <1>2 DEF Asks
<1>6. AnswersCross'
  BY <1>1 DEF SInv, AnswersCross
<1> QED
  BY <1>3, <1>4, <1>5, <1>6 DEF SInv

LEMMA HeadIs ==
  ASSUME SInv, inbox # <<>>
  PROVE  LET f == Head(inbox)  q == Tail(inbox) \o toChild IN
         /\ f \in UpFrame /\ Tail(inbox) \in Seq(UpFrame)
         /\ \A i \in DOMAIN q : \E j \in DOMAIN Queue : Queue[j] = q[i]
         /\ f = Queue[1] /\ 1 \in DOMAIN Queue
         /\ serving /\ lifecycle # "Shutdown" =>
              /\ AsksOf(q, Newest(f, Texts), Last)
              /\ f.k = "request" => f.about = Texts[f.uri]
<1>1. inbox \in Seq(UpFrame) /\ toChild \in Seq(UpFrame)
  BY DEF SInv, STypes
<1>2. /\ Head(inbox) \in UpFrame /\ Tail(inbox) \in Seq(UpFrame)
      /\ Queue \in Seq(UpFrame) /\ Queue # <<>> /\ Head(Queue) = Head(inbox)
      /\ Tail(Queue) = Tail(inbox) \o toChild
      /\ Head(Queue) = Queue[1] /\ 1 \in DOMAIN Queue
      /\ \A i \in DOMAIN Tail(Queue) : i + 1 \in DOMAIN Queue /\ Queue[i + 1] = Tail(Queue)[i]
  BY <1>1 DEF Queue
<1>3. Texts \in [Buffers -> Nat]
  BY TextsIs DEF SInv
<1> QED
  BY <1>2, <1>3, AsksTail DEF SInv, Asks

(* The message at the head of the inbox is handled, and s written. *)
LEMMA HandledKeeps ==
  ASSUME SInv, UNCHANGED <<protocol, toChild, working>>, serving, inbox # <<>>,
         inbox' = Tail(inbox), working,
         NEW s \in Seq(DownFrame), fromChild' = fromChild \o s,
         \A i \in DOMAIN s : s[i].k = "result" => s[i].of = s[i].about,
         docs' \in [Buffers -> Nat] /\ ready' \in BOOLEAN,
         problems' \in SUBSET {Package, Manifest},
         deferred' \in [uri : Files, ver : Nat],
         deferred' # Child!NoSync => deferred'.uri \in Buffers,
         lifecycle' \in {"PreInit", "Running", "Shutdown"},
         lifecycle' = "PreInit" =>
           /\ lifecycle = "PreInit"
           /\ \A i \in DOMAIN s : s[i].k \notin {"initialized", "result"},
         lifecycle = "Shutdown" => lifecycle' = "Shutdown",
         serving' /\ lifecycle' # "Shutdown" => Texts' = Newest(Head(inbox), Texts)
  PROVE  SInv'
<1>1. Queue' = Tail(inbox) \o toChild
  BY DEF Queue
<1>2. inbox' \in Seq(UpFrame) /\ toChild' \in Seq(UpFrame)
  BY HeadIs DEF SInv, STypes
<1>3. \A i \in DOMAIN Queue' : \E j \in DOMAIN Queue : Queue[j] = Queue'[i]
  BY <1>1, HeadIs
<1>4. serving' /\ lifecycle' # "Shutdown" => AsksOf(Queue', Texts', Last)
  BY <1>1, HeadIs
<1> QED
  BY <1>2, <1>3, <1>4, ServerKeeps

LEMMA PublishesAre ==
  ASSUME NEW w \in Worlds
  PROVE  w.out \in Seq(DownFrame) /\ \A i \in DOMAIN w.out : w.out[i].k = "publish"
<1>1. w.out \in Seq(PublishFrame)
  BY DEF Worlds
<1>2. \A f \in PublishFrame : f \in DownFrame /\ f.k = "publish"
  BY DEF PublishFrame, DownFrame
<1>3. \A i \in DOMAIN w.out : w.out[i] \in PublishFrame
  BY <1>1
<1>4. PublishFrame \subseteq DownFrame
  BY <1>2
<1>5. w.out \in Seq(DownFrame)
  BY <1>1, <1>4
<1> QED
  BY <1>2, <1>3, <1>5

LEMMA WritesIs ==
  ASSUME NEW w \in Worlds, Child!Becomes(w)
  PROVE  /\ docs' = w.docs /\ docs' \in [Buffers -> Nat] /\ ready' \in BOOLEAN
         /\ problems' \in SUBSET {Package, Manifest}
         /\ w.out \in Seq(DownFrame) /\ fromChild' = fromChild \o w.out
         /\ \A i \in DOMAIN w.out : w.out[i].k = "publish"
<1> QED
  BY PublishesAre DEF Worlds, Child!Becomes

(* One frame more than a world's *)
LEMMA OneMore ==
  ASSUME NEW w \in Worlds, NEW f \in DownFrame
  PROVE  /\ Append(w.out, f) \in Seq(DownFrame)
         /\ \A i \in DOMAIN Append(w.out, f) :
              Append(w.out, f)[i] = f \/ Append(w.out, f)[i].k = "publish"
<1> QED
  BY PublishesAre

(* The pending text has been analysed, or nothing has happened to the texts. *)
FlushedNow == docs' = Texts /\ deferred' = Child!NoSync
LEMMA NoSyncIs ==
  /\ Child!NoSync \in [uri : Files, ver : Nat]
  /\ \A u \in Buffers : Child!NoSync.uri # u
BY SessionAssumption DEF Child!NoSync, Child!NoVersion, Files, Buffers

LEMMA FlushedTexts == ASSUME FlushedNow PROVE Texts' = Texts
BY DEF FlushedNow, Texts, Child!NoSync

LEMMA NothingWritten ==
  /\ <<>> \in Seq(DownFrame) /\ \A i \in DOMAIN <<>> : FALSE
  /\ STypes => fromChild \o <<>> = fromChild
<1>1. fromChild \in Seq(DownFrame) => fromChild \o <<>> = fromChild
  OBVIOUS
<1> QED
  BY <1>1 DEF STypes

WorldLeft == UNCHANGED <<docs, ready, problems>>

-----------------------------------------------------------------------------
(* Reading *)

Reads == serving /\ UNCHANGED <<protocol, fromChild, docs, ready, problems, deferred, lifecycle,
                                serving>>

LEMMA ReadsKeeps ==
  ASSUME SInv, Reads, working', inbox' \in Seq(UpFrame), toChild' \in Seq(UpFrame),
         NEW q \in Seq(UpFrame), Queue' = Queue \o q,
         \A i \in DOMAIN q : q[i].k = "eof", Len(q) <= 1
  PROVE  SInv'
<1>1. Queue \in Seq(UpFrame) /\ Texts \in [Buffers -> Nat] /\ Last \in [Buffers -> Nat]
  BY TextsIs, LastIs DEF SInv, STypes, Queue
<1>2. Texts' = Texts
  BY DEF Reads, Texts, Child!NoSync
<1>3. \A i \in DOMAIN Queue' : Queue'[i].k \in {"sync", "didClose"} =>
        \E j \in DOMAIN Queue : Queue[j] = Queue'[i]
  <2>1. \A i \in DOMAIN (Queue \o q) :
          \/ i \in DOMAIN Queue /\ (Queue \o q)[i] = Queue[i]
          \/ i - Len(Queue) \in DOMAIN q /\ (Queue \o q)[i] = q[i - Len(Queue)]
    BY <1>1
  <2> QED
    BY <2>1
<1>4. lifecycle # "Shutdown" => AsksOf(Queue', Texts', Last)
  <2> SUFFICES ASSUME AsksOf(Queue, Texts, Last) PROVE AsksOf(Queue \o q, Texts, Last)
    BY <1>2 DEF SInv, Asks, Reads
  <2>1. CASE q = <<>>
    BY <1>1, <2>1
  <2>2. CASE q # <<>>
    <3>1. q[1] \in UpFrame /\ q[1].k = "eof" /\ Queue \o q = Append(Queue, q[1])
      <4>1. Len(q) = 1 /\ 1 \in DOMAIN q /\ q = <<q[1]>>
        <5>1. Len(q) \in Nat /\ Len(q) # 0 /\ DOMAIN q = 1..Len(q)
          BY <2>2
        <5>2. Len(q) = 1
          BY <5>1
        <5> QED
          BY <5>1, <5>2
      <4>2. q[1] \in UpFrame /\ q[1].k = "eof"
        BY <4>1, SMTT(60)
      <4>3. \A e \in UpFrame : Queue \o <<e>> = Append(Queue, e)
        BY <1>1
      <4> QED
        BY <4>1, <4>2, <4>3
    <3>2. Newest(q[1], Last) = Last
      BY <3>1 DEF Newest
    <3>3. AsksOf(Append(Queue, q[1]), Texts, Newest(q[1], Last))
      <4> HIDE DEF Queue
      <4> QED BY <1>1, <3>1, AsksAppend
    <3> QED
      BY <3>1, <3>2, <3>3
  <2> QED
    BY <2>1, <2>2
<1>5. /\ <<>> \in Seq(DownFrame) /\ fromChild' = fromChild \o <<>>
      /\ \A i \in DOMAIN <<>> : FALSE
  BY NothingWritten DEF SInv, Reads
<1> QED
  BY <1>3, <1>4, <1>5, ServerKeeps DEF SInv, STypes, Reads, Child!NoSync

LEMMA MovesOne ==
  ASSUME SInv, toChild # <<>>
  PROVE  /\ Head(toChild) \in UpFrame /\ Append(inbox, Head(toChild)) \in Seq(UpFrame)
         /\ Tail(toChild) \in Seq(UpFrame)
         /\ Append(inbox, Head(toChild)) \o Tail(toChild) = Queue \o <<>>
         /\ Queue \in Seq(UpFrame) /\ <<>> \in Seq(UpFrame) /\ Len(<<>>) <= 1
         /\ \A i \in DOMAIN <<>> : FALSE
<1>1. inbox \in Seq(UpFrame) /\ toChild \in Seq(UpFrame)
  BY DEF SInv, STypes
<1>2. Head(toChild) \in UpFrame /\ Tail(toChild) \in Seq(UpFrame) /\ Queue \in Seq(UpFrame)
  BY <1>1 DEF Queue
<1>3. Append(inbox, Head(toChild)) \o Tail(toChild) = inbox \o toChild
  BY <1>1, <1>2
<1> QED
  BY <1>1, <1>2, <1>3 DEF Queue

LEMMA TakeKeeps == ASSUME SInv, Child!Take, UNCHANGED protocol PROVE SInv'
<1>1. Reads /\ working' /\ ~working
  BY DEF Child!Take, Reads, protocol
<1>2. inbox = <<>>
  BY <1>1 DEF SInv, STypes, Reads
<1>3. CASE toChild # <<>>
  <2>1. inbox' = <<Head(toChild)>> /\ toChild' = Tail(toChild)
    BY <1>3 DEF Child!Take, Child!Frame
  <2>2. inbox' = Append(inbox, Head(toChild))
    BY <1>2, <1>3, <2>1, MovesOne
  <2>3. Queue' = Queue \o <<>>
    BY <1>3, <2>1, <2>2, MovesOne DEF Queue
  <2> QED
    BY <1>1, <1>3, <2>1, <2>2, <2>3, MovesOne, ReadsKeeps
<1>4. CASE toChild = <<>>
  <2> DEFINE e == [k |-> "eof"]
             q == <<e>>
  <2>1. inbox' = q /\ toChild' = <<>>
    BY <1>4 DEF Child!Take, Child!Frame
  <2>2. e \in UpFrame /\ e.k = "eof"
    BY DEF UpFrame
  <2> HIDE DEF e
  <2>3. /\ q \in Seq(UpFrame) /\ <<>> \in Seq(UpFrame) /\ Len(q) <= 1
        /\ \A i \in DOMAIN q : q[i].k = "eof"
        /\ q \o <<>> = (<<>> \o <<>>) \o q
    BY <2>2
  <2>4. Queue' = Queue \o q
    BY <1>2, <1>4, <2>1, <2>3 DEF Queue
  <2> HIDE DEF q
  <2> QED
    BY <1>1, <2>1, <2>3, <2>4, ReadsKeeps
<1> QED
  BY <1>3, <1>4

LEMMA ReadAheadKeeps == ASSUME SInv, Child!ReadAhead, UNCHANGED protocol PROVE SInv'
<1>1. Reads /\ working' /\ toChild # <<>>
  BY DEF Child!ReadAhead, Reads, protocol
<1>2. inbox' = Append(inbox, Head(toChild)) /\ toChild' = Tail(toChild)
  BY <1>1 DEF Child!ReadAhead, Child!Frame
<1>3. Queue' = Queue \o <<>>
  BY <1>1, <1>2, MovesOne DEF Queue
<1> QED
  BY <1>1, <1>2, <1>3, MovesOne, ReadsKeeps

(* The pending text is analysed between two messages. *)
LEMMA AnalysisKeeps ==
  ASSUME SInv, UNCHANGED <<protocol, inbox, toChild, lifecycle, serving>>,
         working' = working \/ inbox = <<>>,
         NEW w \in Child!Flush(Child!World), Child!Becomes(w), deferred' = Child!NoSync
  PROVE  SInv'
<1>1. w \in Worlds /\ w.docs = Texts
  BY FlushIs DEF SInv
<1>2. Texts' = Texts
  BY <1>1, WritesIs, FlushedTexts DEF FlushedNow
<1>3. Queue' = Queue
  BY DEF Queue
<1>4. \A i \in DOMAIN w.out : w.out[i].k = "publish"
  BY <1>1, WritesIs
<1> QED
  BY <1>1, <1>2, <1>3, <1>4, WritesIs, NoSyncIs, ServerKeeps DEF SInv, STypes, Asks

LEMMA DebounceKeeps == ASSUME SInv, Child!Debounce, UNCHANGED protocol PROVE SInv'
<1>1. PICK w \in Child!Flush(Child!World) : Child!Becomes(w)
  BY DEF Child!Debounce
<1> QED
  BY <1>1, AnalysisKeeps DEF Child!Debounce

LEMMA BatchOverKeeps == ASSUME SInv, Child!BatchOver, UNCHANGED protocol PROVE SInv'
<1>1. CASE unflushed
  <2>1. PICK w \in Child!Flush(Child!World) : Child!Becomes(w)
    BY <1>1 DEF Child!BatchOver
  <2> QED
    BY <1>1, <2>1, AnalysisKeeps DEF Child!BatchOver
<1>2. CASE ~unflushed
  <2>1. /\ UNCHANGED <<protocol, inbox, toChild, fromChild, docs, ready, problems, deferred,
                       lifecycle, serving>>
        /\ inbox = <<>>
    BY <1>2 DEF Child!BatchOver, protocol
  <2>2. Queue' = Queue /\ Texts' = Texts
    BY <2>1 DEF Queue, Texts, Child!NoSync
  <2> QED
    BY <2>1, <2>2, NothingWritten, ServerKeeps DEF SInv, STypes, Asks, Child!NoSync
<1> QED
  BY <1>1, <1>2


-----------------------------------------------------------------------------
(* Handling a message *)

LEMMA HandlingIs ==
  ASSUME NEW kinds, Child!Handling(kinds)
  PROVE  /\ serving /\ working /\ inbox # <<>> /\ Head(inbox).k \in kinds
         /\ inbox' = Tail(inbox) /\ UNCHANGED <<toChild, working>>
BY DEF Child!Handling, Child!NothingToRead

LEMMA GateIs ==
  ASSUME STypes, inbox # <<>>, NEW answer, Child!Gate(Head(inbox)) = answer
  PROVE  /\ answer = "dispatch" => lifecycle = "Running"
         /\ answer = "activate" => lifecycle = "PreInit"
         /\ answer = "shutdown" => lifecycle = "Running"
         /\ (answer \in {"reject", "ignore"} /\ lifecycle = "Running")
               => Head(inbox).k \in {"initialize", "exit"}
BY DEF STypes, Child!Gate, Child!HasId

LEMMA WorldIs ==
  ASSUME STypes
  PROVE  Child!World \in Worlds /\ Child!World.docs = docs /\ Child!World.out = <<>>
BY DEF STypes, Worlds, Child!World

LEMMA SyncKeeps == ASSUME SInv, Child!Sync, UNCHANGED protocol PROVE SInv'
<1> DEFINE f == Head(inbox)
           sync == [uri |-> f.uri, ver |-> f.ver]
<1>1. /\ serving /\ working /\ inbox # <<>> /\ f.k = "sync" /\ inbox' = Tail(inbox)
      /\ UNCHANGED <<toChild, working, lifecycle, serving>>
      /\ deferred' = sync
  BY HandlingIs DEF Child!Sync
<1>2. f \in UpFrame /\ f.uri \in Buffers /\ f.ver \in Nat
  BY <1>1, HeadIs, UpFields
<1>3. lifecycle = "Running"
  BY <1>1, GateIs DEF Child!Sync, Child!Dispatching, SInv
<1>4. sync \in [uri : Files, ver : Nat] /\ sync.uri = f.uri /\ sync.ver = f.ver
      /\ sync # Child!NoSync
  BY <1>2, SessionAssumption DEF Files, Buffers, Child!NoSync
<1>5. Newest(f, Texts) = [Texts EXCEPT ![f.uri] = f.ver]
  BY <1>1 DEF Newest, Carried
<1> HIDE DEF f, sync
<1>6. Texts' = [docs' EXCEPT ![f.uri] = f.ver]
  BY <1>1, <1>4 DEF Texts, Child!NoSync
<1>7. CASE deferred # Child!NoSync /\ deferred.uri # sync.uri
  <2>1. PICK w \in Child!Flush(Child!World) : Child!Becomes(w)
    BY <1>7 DEF Child!Sync, sync, f
  <2>2. w \in Worlds /\ w.docs = Texts
    BY <2>1, FlushIs DEF SInv
  <2>3. Texts' = Newest(f, Texts)
    BY <1>5, <1>6, <2>1, <2>2, WritesIs
  <2> QED
    BY <1>1, <1>2, <1>3, <1>4, <2>1, <2>2, <2>3, WritesIs, HandledKeeps DEF f
<1>8. CASE deferred = Child!NoSync \/ deferred.uri = sync.uri
  <2>1. UNCHANGED <<docs, ready, problems, fromChild>>
    BY <1>8 DEF Child!Sync, sync, f
  <2>2. [docs EXCEPT ![f.uri] = f.ver] = [Texts EXCEPT ![f.uri] = f.ver]
    <3>1. docs \in [Buffers -> Nat]
      BY DEF SInv, STypes
    <3>2. CASE deferred = Child!NoSync
      BY <3>2 DEF Texts
    <3>3. CASE deferred # Child!NoSync /\ deferred.uri = f.uri
      BY <1>2, <3>1, <3>3 DEF Texts
    <3> QED
      BY <1>4, <1>8, <3>2, <3>3
  <2>3. Texts' = Newest(f, Texts)
    BY <1>5, <1>6, <2>1, <2>2
  <2> QED
    BY <1>1, <1>2, <1>3, <1>4, <2>1, <2>3, NothingWritten, HandledKeeps DEF f, SInv, STypes
<1> QED
  BY <1>7, <1>8

(* A message that leaves the texts as they are, answered with s *)
LEMMA AnsweredKeeps ==
  ASSUME SInv, UNCHANGED <<protocol, toChild, working, lifecycle, serving, deferred>>,
         UNCHANGED <<docs, ready, problems>>, serving, working, inbox # <<>>,
         inbox' = Tail(inbox), Head(inbox).k \notin {"sync", "didClose"} \/ lifecycle = "Shutdown",
         NEW s \in Seq(DownFrame), fromChild' = fromChild \o s,
         \A i \in DOMAIN s : s[i].k \notin {"initialized", "result"}
  PROVE  SInv'
<1>1. Texts' = Texts
  BY DEF Texts, Child!NoSync
<1>2. lifecycle # "Shutdown" => Newest(Head(inbox), Texts) = Texts
  BY DEF Newest
<1> QED
  BY <1>1, <1>2, HandledKeeps DEF SInv, STypes, Child!NoSync

LEMMA RefusedIs ==
  ASSUME STypes, NEW id \in Ids \cup {NoId}, Child!Becomes(Child!Refuse(Child!World, id))
  PROVE  /\ UNCHANGED <<docs, ready, problems>>
         /\ \E s \in Seq(DownFrame) : /\ fromChild' = fromChild \o s
                                      /\ \A i \in DOMAIN s : s[i].k = "error"
<1> DEFINE f == [k |-> "error", id |-> id]
           s == <<f>>
<1>1. f \in DownFrame /\ f.k = "error"
  BY DEF DownFrame
<1>2. fromChild' = fromChild \o s /\ UNCHANGED <<docs, ready, problems>>
  BY DEF Child!Becomes, Child!Refuse, Child!World
<1> HIDE DEF f
<1>3. s \in Seq(DownFrame) /\ \A i \in DOMAIN s : s[i].k = "error"
  BY <1>1
<1> QED
  BY <1>2, <1>3

LEMMA CancelledKeeps == ASSUME SInv, Child!Cancelled, UNCHANGED protocol PROVE SInv'
<1>1. /\ serving /\ working /\ inbox # <<>> /\ Head(inbox).k = "request" /\ inbox' = Tail(inbox)
      /\ UNCHANGED <<toChild, working, lifecycle, serving, deferred>>
  BY HandlingIs DEF Child!Cancelled
<1>2. Head(inbox).id \in Ids \cup {NoId}
  BY <1>1, HeadIs, UpFields
<1>3. Child!Becomes(Child!Refuse(Child!World, Head(inbox).id))
  BY DEF Child!Cancelled
<1>4. /\ UNCHANGED <<docs, ready, problems>>
      /\ \E s \in Seq(DownFrame) : /\ fromChild' = fromChild \o s
                                   /\ \A i \in DOMAIN s : s[i].k = "error"
  BY <1>2, <1>3, RefusedIs DEF SInv
<1> QED
  BY <1>1, <1>4, AnsweredKeeps

(* Every request of this browser reads the analysis. *)
LEMMA ReadTextNever == ASSUME SInv, Child!ReadText PROVE FALSE
<1>1. inbox # <<>> /\ Head(inbox).k = "request"
  BY HandlingIs DEF Child!ReadText
<1>2. Head(inbox).class = "Analysed"
  BY <1>1, HeadIs, UpFields
<1> QED
  BY <1>2 DEF Child!ReadText

LEMMA ReadAnalysisKeeps == ASSUME SInv, Child!ReadAnalysis, UNCHANGED protocol PROVE SInv'
<1> DEFINE f == Head(inbox)
<1>1. /\ serving /\ working /\ inbox # <<>> /\ f.k = "request" /\ inbox' = Tail(inbox)
      /\ UNCHANGED <<toChild, working, lifecycle, serving>> /\ deferred' = Child!NoSync
  BY HandlingIs DEF Child!ReadAnalysis
<1>2. lifecycle = "Running"
  BY <1>1, GateIs DEF Child!ReadAnalysis, Child!Dispatching, SInv
<1>3. /\ f.id \in Ids /\ f.uri \in Buffers /\ f.about \in Nat
      /\ f.about = Texts[f.uri] /\ Newest(f, Texts) = Texts
  BY <1>1, <1>2, HeadIs, UpFields DEF Newest
<1>4. PICK w \in Child!Flush(Child!World) : Child!Becomes(Child!Answer(w, f, w.docs[f.uri]))
  BY DEF Child!ReadAnalysis
<1>5. w \in Worlds /\ w.docs = Texts /\ Texts \in [Buffers -> Nat]
  BY <1>4, FlushIs, TextsIs DEF SInv
<1> DEFINE r == [k |-> "result", id |-> f.id, uri |-> f.uri, about |-> f.about,
                 of |-> w.docs[f.uri]]
           s == Append(w.out, r)
<1>6. r \in DownFrame /\ r.k = "result" /\ r.of = r.about
  BY <1>3, <1>5 DEF DownFrame
<1>7. docs' = w.docs /\ ready' = w.ready /\ problems' = w.problems /\ fromChild' = fromChild \o s
  BY <1>4, <1>5 DEF Child!Becomes, Child!Answer, Worlds
<1> HIDE DEF r, f
<1>8. s \in Seq(DownFrame) /\ \A i \in DOMAIN s : s[i] = r \/ s[i].k = "publish"
  BY <1>5, <1>6, OneMore
<1> HIDE DEF s
<1>9. \A i \in DOMAIN s : s[i].k = "result" => s[i].of = s[i].about
  BY <1>6, <1>8
<1>10. /\ docs' \in [Buffers -> Nat] /\ ready' \in BOOLEAN
       /\ problems' \in SUBSET {Package, Manifest}
  BY <1>5, <1>7 DEF Worlds
<1>11. Texts' = Newest(f, Texts)
  BY <1>1, <1>3, <1>5, <1>7, FlushedTexts DEF FlushedNow
<1> QED
  BY <1>1, <1>2, <1>7, <1>8, <1>9, <1>10, <1>11, NoSyncIs, HandledKeeps DEF f

LEMMA DidCloseKeeps == ASSUME SInv, Child!DidClose, UNCHANGED protocol PROVE SInv'
<1> DEFINE f == Head(inbox)
<1>1. /\ serving /\ working /\ inbox # <<>> /\ f.k = "didClose" /\ inbox' = Tail(inbox)
      /\ UNCHANGED <<toChild, working, lifecycle, serving>> /\ deferred' = Child!NoSync
  BY HandlingIs DEF Child!DidClose
<1>2. lifecycle = "Running"
  BY <1>1, GateIs DEF Child!DidClose, Child!Dispatching, SInv
<1>3. f.uri \in Buffers /\ Newest(f, Texts) = [Texts EXCEPT ![f.uri] = 0]
  BY <1>1, HeadIs, UpFields DEF Newest, Carried
<1>4. PICK w \in Child!Flush(Child!World) :
        \E n \in Child!CloseDoc(w, f.uri) : Child!Becomes(n)
  BY DEF Child!DidClose
<1>5. w \in Worlds /\ w.docs = Texts
  BY FlushIs DEF SInv
<1>6. PICK next \in Child!CloseDoc(w, f.uri) : Child!Becomes(next)
  BY <1>4
<1>6a. next \in Worlds /\ next.docs = [Texts EXCEPT ![f.uri] = 0]
  BY <1>3, <1>5, CloseIs
<1>7. /\ docs' = next.docs /\ docs' \in [Buffers -> Nat] /\ ready' \in BOOLEAN
      /\ problems' \in SUBSET {Package, Manifest}
      /\ next.out \in Seq(DownFrame) /\ fromChild' = fromChild \o next.out
      /\ \A i \in DOMAIN next.out : next.out[i].k = "publish"
  BY <1>6, <1>6a, WritesIs
<1>8. Texts' = Newest(f, Texts)
  BY <1>1, <1>3, <1>6a, <1>7 DEF Texts
<1> HIDE DEF f
<1> QED
  BY <1>1, <1>2, <1>7, <1>8, NoSyncIs, HandledKeeps DEF f

(* This browser sends neither saves nor what is no frame. *)
LEMMA NotSent ==
  ASSUME SInv, NEW kinds, Child!Handling(kinds), kinds \subseteq {"didSave", "malformed"}
  PROVE  FALSE
<1>1. inbox # <<>> /\ Head(inbox).k \in kinds
  BY HandlingIs
<1> QED
  BY <1>1, HeadIs, UpFields

LEMMA InertKeeps == ASSUME SInv, Child!Inert, UNCHANGED protocol PROVE SInv'
<1>1. /\ serving /\ working /\ inbox # <<>> /\ Head(inbox).k \in {"cancel", "initialized"}
      /\ inbox' = Tail(inbox)
      /\ UNCHANGED <<toChild, working, lifecycle, serving, deferred, docs, ready, problems,
                     fromChild>>
  BY HandlingIs DEF Child!Inert
<1> QED
  BY <1>1, NothingWritten, AnsweredKeeps DEF SInv

LEMMA InitializeKeeps == ASSUME SInv, Child!Initialize, UNCHANGED protocol PROVE SInv'
<1> DEFINE f == [k |-> "initialized", id |-> Head(inbox).id]
           s == <<f>>
<1>1. /\ serving /\ working /\ inbox # <<>> /\ Head(inbox).k = "initialize"
      /\ inbox' = Tail(inbox)
      /\ UNCHANGED <<toChild, working, serving, deferred, docs, ready, problems>>
      /\ lifecycle' = "Running" /\ fromChild' = Append(fromChild, f)
  BY HandlingIs DEF Child!Initialize
<1>2. lifecycle = "PreInit"
  BY <1>1, GateIs DEF Child!Initialize, SInv
<1>3. Head(inbox).id \in Ids \cup {NoId}
  BY <1>1, HeadIs, UpFields
<1>4. f \in DownFrame /\ f.k = "initialized"
  BY <1>3 DEF DownFrame
<1> HIDE DEF f
<1>5. s \in Seq(DownFrame) /\ fromChild' = fromChild \o s /\ \A i \in DOMAIN s : s[i] = f
  <2>1. fromChild \in Seq(DownFrame)
    BY DEF SInv, STypes
  <2> QED
    BY <1>1, <1>4, <2>1, OneFrame, ConcatOne
<1> HIDE DEF s
<1>6. Texts' = Newest(Head(inbox), Texts)
  BY <1>1 DEF Texts, Newest, Child!NoSync
<1> QED
  BY <1>1, <1>2, <1>4, <1>5, <1>6, HandledKeeps DEF SInv, STypes, Child!NoSync

LEMMA BeginShutdownKeeps == ASSUME SInv, Child!BeginShutdown, UNCHANGED protocol PROVE SInv'
<1> DEFINE f == [k |-> "bye", id |-> Head(inbox).id]
           s == <<f>>
<1>1. /\ serving /\ working /\ inbox # <<>> /\ Head(inbox).k = "shutdown"
      /\ inbox' = Tail(inbox)
      /\ UNCHANGED <<toChild, working, serving>> /\ deferred' = Child!NoSync
      /\ lifecycle' = "Shutdown" /\ fromChild' = Append(fromChild, f)
      /\ docs' = [u \in Buffers |-> 0] /\ ready' = FALSE /\ problems' = {}
  BY HandlingIs DEF Child!BeginShutdown, Child!NoVersion, Buffers
<1>2. Head(inbox).id \in Ids \cup {NoId}
  BY <1>1, HeadIs, UpFields
<1>3. f \in DownFrame /\ f.k = "bye"
  BY <1>2 DEF DownFrame
<1> HIDE DEF f
<1>4. s \in Seq(DownFrame) /\ fromChild' = fromChild \o s /\ \A i \in DOMAIN s : s[i] = f
  <2>1. fromChild \in Seq(DownFrame)
    BY DEF SInv, STypes
  <2> QED
    BY <1>1, <1>3, <2>1, OneFrame, ConcatOne
<1> HIDE DEF s
<1> QED
  BY <1>1, <1>3, <1>4, NoSyncIs, HandledKeeps

LEMMA OutOfTurnKeeps == ASSUME SInv, Child!OutOfTurn, UNCHANGED protocol PROVE SInv'
<1>1. /\ serving /\ working /\ inbox # <<>> /\ inbox' = Tail(inbox)
      /\ UNCHANGED <<toChild, working, lifecycle, serving, deferred>>
  BY HandlingIs DEF Child!OutOfTurn
<1>2. Head(inbox).k \notin {"sync", "didClose"} \/ lifecycle = "Shutdown"
  <2>1. CASE lifecycle = "PreInit"
    BY <1>1, <2>1, HeadIs DEF SInv, Begun
  <2>2. CASE lifecycle = "Running"
    BY <1>1, <2>2, GateIs DEF Child!OutOfTurn, SInv
  <2> QED
    BY <2>1, <2>2 DEF SInv, STypes
<1>3. CASE Child!Gate(Head(inbox)) = "reject" /\ Child!Becomes(Child!Refuse(Child!World, Head(inbox).id))
  <2>1. Head(inbox).k \in {"request", "initialize", "shutdown"}
    BY <1>3 DEF Child!Gate, Child!HasId
  <2>2. Head(inbox).id \in Ids \cup {NoId}
    BY <1>1, <2>1, HeadIs, UpFields
  <2>3. /\ UNCHANGED <<docs, ready, problems>>
        /\ \E s \in Seq(DownFrame) : /\ fromChild' = fromChild \o s
                                     /\ \A i \in DOMAIN s : s[i].k = "error"
    BY <1>3, <2>2, RefusedIs DEF SInv
  <2> QED
    BY <1>1, <1>2, <2>3, AnsweredKeeps
<1>4. CASE UNCHANGED <<fromChild, docs, ready, problems>>
  BY <1>1, <1>2, <1>4, NothingWritten, AnsweredKeeps DEF SInv
<1> QED
  BY <1>3, <1>4 DEF Child!OutOfTurn

LEMMA StopKeeps == ASSUME SInv, Child!Stop, UNCHANGED protocol PROVE SInv'
<1>1. /\ serving /\ working /\ inbox # <<>> /\ Head(inbox).k \in {"eof", "exit", "fatal"}
      /\ inbox' = Tail(inbox)
      /\ UNCHANGED <<toChild, working, lifecycle>> /\ deferred' = Child!NoSync /\ ~serving'
      /\ docs' = [u \in Buffers |-> 0] /\ ready' = FALSE /\ problems' = {}
  BY HandlingIs DEF Child!Stop, Child!NoVersion, Buffers
<1>2. Head(inbox).k # "fatal"
  BY <1>1, HeadIs, UpFields
<1>3. fromChild' = fromChild
  BY <1>2 DEF Child!Stop
<1> QED
  BY <1>1, <1>3, NothingWritten, NoSyncIs, HandledKeeps DEF SInv, STypes

-----------------------------------------------------------------------------
LEMMA SessionInit == Init => SInv
<1> SUFFICES ASSUME Init PROVE SInv
  OBVIOUS
<1> USE DEF Init, RelayInit, Child!Init, Child!Started
<1>1. /\ inbox = <<>> /\ toChild = <<>> /\ fromChild = <<>> /\ docs = [u \in Buffers |-> 0]
      /\ deferred = Child!NoSync /\ lifecycle = "PreInit" /\ state = "new"
      /\ Queue = <<>>
  BY DEF Buffers, Child!NoVersion, Queue
<1>2. STypes
  <2>1. version \in Int
    OBVIOUS
  <2>2. inbox \in Seq(UpFrame) /\ toChild \in Seq(UpFrame) /\ fromChild \in Seq(DownFrame)
    BY <1>1
  <2>3. docs \in [Buffers -> Nat]
    <3> HIDE DEF Init
    <3> QED BY <1>1
  <2>4. in_project \in BOOLEAN /\ ready \in BOOLEAN /\ problems \in SUBSET {Package, Manifest}
    OBVIOUS
  <2> QED
    BY <1>1, <2>1, <2>2, <2>3, <2>4, NoSyncIs DEF STypes
<1>3. Begun
  BY <1>1 DEF Begun
<1>4. Asks
  BY <1>1 DEF Asks, AsksOf, Names, Texts, Last
<1>5. AnswersCross
  BY <1>1 DEF AnswersCross
<1> QED
  BY <1>2, <1>3, <1>4, <1>5 DEF SInv

LEMMA SessionStep == SInv /\ [Next]_vars => SInv'
<1> SUFFICES ASSUME SInv, [Next]_vars PROVE SInv'
  OBVIOUS
<1>1. CASE Browser
  BY <1>1, BeginKeeps, ReadyKeeps, OpenKeeps, EditKeeps, AskKeeps DEF Browser
<1>2. CASE Read
  BY <1>2, NothingSent DEF Read, SInv, Begun, protocol, childVars, server
<1>3. CASE Relay
  BY <1>3, RelayKeeps
<1>4. CASE Leave
  BY <1>4, NothingSent DEF Leave, TimeUp, Close, SInv, Begun, protocol, childVars, server
<1>5. CASE Server
  <2>1. UNCHANGED protocol
    BY <1>5 DEF Server
  <2>2. ~Child!DidSave /\ ~Child!Malformed
    BY NotSent DEF Child!DidSave, Child!Malformed
  <2> QED
    BY <1>5, <2>1, <2>2, TakeKeeps, DebounceKeeps, ReadAheadKeeps, BatchOverKeeps, SyncKeeps,
       CancelledKeeps, ReadTextNever, ReadAnalysisKeeps, DidCloseKeeps, InertKeeps,
       InitializeKeeps, BeginShutdownKeeps, OutOfTurnKeeps, StopKeeps DEF Server, Child!Next
<1>6. CASE UNCHANGED vars
  BY <1>6, NothingSent DEF vars, relayVars, childVars, server, protocol, SInv, Begun
<1> QED
  BY <1>1, <1>2, <1>3, <1>4, <1>5, <1>6 DEF Next

LEMMA SessionInvariance == Spec => []SInv
BY SessionInit, SessionStep, PTL DEF Spec

(* An answer the browser gets was computed from the text it had sent last
   before it asked, in the document the buffer then was: the frames the relay
   writes (forward, _retarget), the server's pending sync (flush before a
   request that reads the analysis) and the switch of documents (didClose
   before didOpen) together keep it so, for any texts, ids and order of steps. *)
THEOREM AnswersReachTheirText == Spec => []AnswersCross
<1>1. SInv => AnswersCross
  BY DEF SInv
<1> QED
  BY <1>1, SessionInvariance, PTL
=============================================================================
