--------------------------- MODULE DomRemoteProofs ---------------------------
(***************************************************************************)
(* Proofs about TreeDiff and DomRemote: trees of any shape and height, any *)
(* application of the kind DomRemote describes, any number of turns.       *)
(*                                                                         *)
(* First the reconciler.  What it answers is known level by level, by      *)
(* induction over the height: DifferencesLand says that wherever a tree    *)
(* stands in a document, its difference from another, replayed, puts the   *)
(* other there; RoundTrip is that at the root.  The keyed lists are the    *)
(* core of it: drops leave the survivors (DroppedLands), each placement    *)
(* keeps the ones before it (StepLands, ArrangedLands), and the pairs are  *)
(* patched where the structural ops have put them (DescendLands).          *)
(*                                                                         *)
(* Then the same for the document, whose elements have an identity that    *)
(* must survive (ViewPatched), and last the turns: the inductive invariant *)
(* says that the document shows the guest's view unless the patches that   *)
(* lead there are under way (Synced), that one turn at most is under way   *)
(* (Turns, Outbox), that the tree the guest diffs against is that view     *)
(* (Begun), and that a failed worker posts nothing (Stopped).              *)
(***************************************************************************)
EXTENDS DomRemote, SequenceTheorems, WellFoundedInduction, TLAPS

-----------------------------------------------------------------------------
(* Recursive functions over the naturals are unfolded by an existence
   argument: the function exists up to every bound, so CHOOSE's has the
   equations.  What holds of 0, and of n + 1 when of n, holds of every n. *)

(* Induction over the naturals, of a set: a least number outside it would
   have a predecessor inside. *)
LEMMA NatSets ==
  ASSUME NEW S, 0 \in S, \A n \in Nat : n \in S => n + 1 \in S
  PROVE  \A n \in Nat : n \in S
<1> DEFINE T == Nat \ S
           R == OpToRel(<, Nat)
<1> SUFFICES ASSUME T # {} PROVE FALSE
  OBVIOUS
<1>1. IsWellFoundedOn(R, Nat)
  BY NatLessThanWellFounded
<1>2. PICK x \in T : \A y \in T : ~ (<<y, x>> \in R)
  <2> HIDE DEF R
  <2> QED BY <1>1, WFMin
<1>3. x # 0 /\ x - 1 \in Nat /\ x - 1 < x
  OBVIOUS
<1>4. <<x - 1, x>> \in R
  BY <1>3 DEF OpToRel
<1>5. x - 1 \in S
  BY <1>2, <1>3, <1>4
<1> QED
  BY <1>3, <1>5

(* The same up to a bound *)
LEMMA UpTo ==
  ASSUME NEW n \in Nat, NEW S, 0 \in S, \A i \in 0..(n - 1) : i \in S => i + 1 \in S
  PROVE  \A i \in 0..n : i \in S
<1> DEFINE U == {i \in Nat : i \in 0..n => i \in S}
<1>1. 0 \in U
  OBVIOUS
<1>2. \A i \in Nat : i \in U => i + 1 \in U
  OBVIOUS
<1>3. \A i \in Nat : i \in U
  <2> HIDE DEF U
  <2> QED BY <1>1, <1>2, NatSets
<1> QED BY <1>3

(* Joined, step by step *)
LEMMA JoinedIs ==
  ASSUME NEW ss, Len(ss) \in Nat
  PROVE  /\ Joined(ss)[0] = <<>>
         /\ \A i \in 1..Len(ss) : Joined(ss)[i] = Joined(ss)[i - 1] \o ss[i]
<1> DEFINE base == <<>>
           G(y, i) == y \o ss[i]
           Is(f, m) == f = [i \in 0..m |-> IF i = 0 THEN base ELSE G(f[i - 1], i)]
           S == {m \in Nat : \E f : Is(f, m)}
<1>1. 0 \in S
  <2> DEFINE g == [i \in 0..0 |-> base]
  <2>1. Is(g, 0)
    <3> HIDE DEF base, G
    <3> QED OBVIOUS
  <2> HIDE DEF g, Is
  <2> QED BY <2>1
<1>2. ASSUME NEW m \in Nat, m \in S PROVE m + 1 \in S
  <2>1. PICK f : Is(f, m)
    BY <1>2
  <2> DEFINE g == [i \in 0..(m + 1) |-> IF i <= m THEN f[i] ELSE G(f[m], m + 1)]
  <2>2. Is(g, m + 1)
    <3> HIDE DEF base, G
    <3> SUFFICES ASSUME NEW n \in 0..(m + 1)
                 PROVE  g[n] = IF n = 0 THEN base ELSE G(g[n - 1], n)
      OBVIOUS
    <3>1. CASE n = m + 1
      BY <3>1
    <3>2. CASE n \in 0..m
      BY <2>1, <3>2
    <3> QED BY <3>1, <3>2
  <2> HIDE DEF g, Is
  <2> QED BY <2>2
<1>3. \A n \in Nat : n \in S
  <2> HIDE DEF S
  <2> QED BY <1>1, <1>2, NatSets
<1>4. PICK n \in Nat : n = Len(ss)
  OBVIOUS
<1> DEFINE v == Joined(ss)
<1>5. v = [i \in 0..n |-> IF i = 0 THEN base ELSE G(v[i - 1], i)]
  <2> DEFINE P(f) == f = [i \in 0..n |-> IF i = 0 THEN base ELSE G(f[i - 1], i)]
  <2>1. \E f : P(f)
    BY <1>3
  <2>2. v = CHOOSE f : P(f)
    BY <1>4 DEF Joined
  <2> HIDE DEF P, v
  <2>3. P(v)
    BY <2>1, <2>2, Zenon
  <2> QED BY <2>3 DEF P
<1>6. v[0] = base /\ \A i \in 1..n : v[i] = G(v[i - 1], i)
  <2> HIDE DEF v, base, G
  <2> QED BY ONLY <1>5, n \in Nat
<1> QED BY ONLY <1>4, <1>6

(* What is joined are lists of patches, and so is the whole. *)
LEMMA JoinedType ==
  ASSUME NEW P, NEW ss \in Seq(Seq(P))
  PROVE  \A i \in 0..Len(ss) : Joined(ss)[i] \in Seq(P)
<1>1. ASSUME NEW j, NEW n \in Nat, j[0] = <<>>, \A i \in 1..n : ss[i] \in Seq(P),
             \A i \in 1..n : j[i] = j[i - 1] \o ss[i]
      PROVE  \A i \in 0..n : j[i] \in Seq(P)
  <2> DEFINE S == {i \in 0..n : j[i] \in Seq(P)}
  <2>1. 0 \in S
    <3>1. j[0] \in Seq(P)
      BY <1>1
    <3> QED BY <3>1
  <2>2. ASSUME NEW i \in 0..(n - 1), i \in S PROVE i + 1 \in S
    <3>1. j[i] \in Seq(P) /\ i + 1 \in 1..n
      BY <2>2
    <3>2. j[i + 1] = j[i] \o ss[i + 1]
      <4>1. (i + 1) - 1 = i
        OBVIOUS
      <4> QED BY <1>1, <3>1, <4>1
    <3>3. j[i + 1] \in Seq(P)
      BY <1>1, <3>1, <3>2
    <3> QED BY <3>1, <3>3
  <2>3. \A i \in 0..n : i \in S
    <3> HIDE DEF S
    <3> QED BY <2>1, <2>2, UpTo
  <2> QED BY <2>3
<1>2. Len(ss) \in Nat /\ \A i \in 1..Len(ss) : ss[i] \in Seq(P)
  OBVIOUS
<1> QED BY <1>1, <1>2, JoinedIs

(* Placed, step by step *)
LEMMA PlacedIs ==
  ASSUME NEW nk, NEW survivors, Len(nk) \in Nat
  PROVE  /\ Placed(nk, survivors)[0] = survivors
         /\ \A t \in 1..Len(nk) : Placed(nk, survivors)[t] = LET before == Placed(nk, survivors)[t - 1]
                                         p == Position(before, nk[t])
                                     IN  IF p = 0 THEN InsertAt(before, t, nk[t])
                                         ELSE IF p = t THEN before ELSE MoveTo(before, p, t)
<1> DEFINE base == survivors
           G(y, t) == LET before == y
                                         p == Position(before, nk[t])
                                     IN  IF p = 0 THEN InsertAt(before, t, nk[t])
                                         ELSE IF p = t THEN before ELSE MoveTo(before, p, t)
           Is(f, m) == f = [t \in 0..m |-> IF t = 0 THEN base ELSE G(f[t - 1], t)]
           S == {m \in Nat : \E f : Is(f, m)}
<1>1. 0 \in S
  <2> DEFINE g == [t \in 0..0 |-> base]
  <2>1. Is(g, 0)
    <3> HIDE DEF base, G
    <3> QED OBVIOUS
  <2> HIDE DEF g, Is
  <2> QED BY <2>1
<1>2. ASSUME NEW m \in Nat, m \in S PROVE m + 1 \in S
  <2>1. PICK f : Is(f, m)
    BY <1>2
  <2> DEFINE g == [t \in 0..(m + 1) |-> IF t <= m THEN f[t] ELSE G(f[m], m + 1)]
  <2>2. Is(g, m + 1)
    <3> HIDE DEF base, G
    <3> SUFFICES ASSUME NEW n \in 0..(m + 1)
                 PROVE  g[n] = IF n = 0 THEN base ELSE G(g[n - 1], n)
      OBVIOUS
    <3>1. CASE n = m + 1
      BY <3>1
    <3>2. CASE n \in 0..m
      BY <2>1, <3>2
    <3> QED BY <3>1, <3>2
  <2> HIDE DEF g, Is
  <2> QED BY <2>2
<1>3. \A n \in Nat : n \in S
  <2> HIDE DEF S
  <2> QED BY <1>1, <1>2, NatSets
<1>4. PICK n \in Nat : n = Len(nk)
  OBVIOUS
<1> DEFINE v == Placed(nk, survivors)
<1>5. v = [t \in 0..n |-> IF t = 0 THEN base ELSE G(v[t - 1], t)]
  <2> DEFINE P(f) == f = [t \in 0..n |-> IF t = 0 THEN base ELSE G(f[t - 1], t)]
  <2>1. \E f : P(f)
    BY <1>3
  <2>2. v = CHOOSE f : P(f)
    BY <1>4 DEF Placed
  <2> HIDE DEF P, v
  <2>3. P(v)
    BY <2>1, <2>2, Zenon
  <2> QED BY <2>3 DEF P
<1>6. v[0] = base /\ \A t \in 1..n : v[t] = G(v[t - 1], t)
  <2> HIDE DEF v, base, G
  <2> QED BY ONLY <1>5, n \in Nat
<1> QED BY ONLY <1>4, <1>6

(* Walk, step by step *)
LEMMA WalkIs ==
  ASSUME NEW w, NEW path, Len(path) \in Nat
  PROVE  /\ Walk(w, path)[0] = w
         /\ \A i \in 1..Len(path) : Walk(w, path)[i] = Walk(w, path)[i - 1].kids[path[i]]
<1> DEFINE base == w
           G(y, i) == y.kids[path[i]]
           Is(f, m) == f = [i \in 0..m |-> IF i = 0 THEN base ELSE G(f[i - 1], i)]
           S == {m \in Nat : \E f : Is(f, m)}
<1>1. 0 \in S
  <2> DEFINE g == [i \in 0..0 |-> base]
  <2>1. Is(g, 0)
    <3> HIDE DEF base, G
    <3> QED OBVIOUS
  <2> HIDE DEF g, Is
  <2> QED BY <2>1
<1>2. ASSUME NEW m \in Nat, m \in S PROVE m + 1 \in S
  <2>1. PICK f : Is(f, m)
    BY <1>2
  <2> DEFINE g == [i \in 0..(m + 1) |-> IF i <= m THEN f[i] ELSE G(f[m], m + 1)]
  <2>2. Is(g, m + 1)
    <3> HIDE DEF base, G
    <3> SUFFICES ASSUME NEW n \in 0..(m + 1)
                 PROVE  g[n] = IF n = 0 THEN base ELSE G(g[n - 1], n)
      OBVIOUS
    <3>1. CASE n = m + 1
      BY <3>1
    <3>2. CASE n \in 0..m
      BY <2>1, <3>2
    <3> QED BY <3>1, <3>2
  <2> HIDE DEF g, Is
  <2> QED BY <2>2
<1>3. \A n \in Nat : n \in S
  <2> HIDE DEF S
  <2> QED BY <1>1, <1>2, NatSets
<1>4. PICK n \in Nat : n = Len(path)
  OBVIOUS
<1> DEFINE v == Walk(w, path)
<1>5. v = [i \in 0..n |-> IF i = 0 THEN base ELSE G(v[i - 1], i)]
  <2> DEFINE P(f) == f = [i \in 0..n |-> IF i = 0 THEN base ELSE G(f[i - 1], i)]
  <2>1. \E f : P(f)
    BY <1>3
  <2>2. v = CHOOSE f : P(f)
    BY <1>4 DEF Walk
  <2> HIDE DEF P, v
  <2>3. P(v)
    BY <2>1, <2>2, Zenon
  <2> QED BY <2>3 DEF P
<1>6. v[0] = base /\ \A i \in 1..n : v[i] = G(v[i - 1], i)
  <2> HIDE DEF v, base, G
  <2> QED BY ONLY <1>5, n \in Nat
<1> QED BY ONLY <1>4, <1>6

(* Rebuilt, step by step *)
LEMMA RebuiltIs ==
  ASSUME NEW w, NEW path, NEW x, Len(path) \in Nat
  PROVE  /\ Rebuilt(w, path, x)[0] = x
         /\ \A i \in 1..Len(path) : Rebuilt(w, path, x)[i] = WithKid(Walk(w, path)[Len(path) - i], path[Len(path) - i + 1], Rebuilt(w, path, x)[i - 1])
<1> DEFINE base == x
           G(y, i) == WithKid(Walk(w, path)[Len(path) - i], path[Len(path) - i + 1], y)
           Is(f, m) == f = [i \in 0..m |-> IF i = 0 THEN base ELSE G(f[i - 1], i)]
           S == {m \in Nat : \E f : Is(f, m)}
<1>1. 0 \in S
  <2> DEFINE g == [i \in 0..0 |-> base]
  <2>1. Is(g, 0)
    <3> HIDE DEF base, G
    <3> QED OBVIOUS
  <2> HIDE DEF g, Is
  <2> QED BY <2>1
<1>2. ASSUME NEW m \in Nat, m \in S PROVE m + 1 \in S
  <2>1. PICK f : Is(f, m)
    BY <1>2
  <2> DEFINE g == [i \in 0..(m + 1) |-> IF i <= m THEN f[i] ELSE G(f[m], m + 1)]
  <2>2. Is(g, m + 1)
    <3> HIDE DEF base, G
    <3> SUFFICES ASSUME NEW n \in 0..(m + 1)
                 PROVE  g[n] = IF n = 0 THEN base ELSE G(g[n - 1], n)
      OBVIOUS
    <3>1. CASE n = m + 1
      BY <3>1
    <3>2. CASE n \in 0..m
      BY <2>1, <3>2
    <3> QED BY <3>1, <3>2
  <2> HIDE DEF g, Is
  <2> QED BY <2>2
<1>3. \A n \in Nat : n \in S
  <2> HIDE DEF S
  <2> QED BY <1>1, <1>2, NatSets
<1>4. PICK n \in Nat : n = Len(path)
  OBVIOUS
<1> DEFINE v == Rebuilt(w, path, x)
<1>5. v = [i \in 0..n |-> IF i = 0 THEN base ELSE G(v[i - 1], i)]
  <2> DEFINE P(f) == f = [i \in 0..n |-> IF i = 0 THEN base ELSE G(f[i - 1], i)]
  <2>1. \E f : P(f)
    BY <1>3
  <2>2. v = CHOOSE f : P(f)
    BY <1>4 DEF Rebuilt
  <2> HIDE DEF P, v
  <2>3. P(v)
    BY <2>1, <2>2, Zenon
  <2> QED BY <2>3 DEF P
<1>6. v[0] = base /\ \A i \in 1..n : v[i] = G(v[i - 1], i)
  <2> HIDE DEF v, base, G
  <2> QED BY ONLY <1>5, n \in Nat
<1> QED BY ONLY <1>4, <1>6

(* Applied, step by step *)
LEMMA AppliedIs ==
  ASSUME NEW w, NEW patches, Len(patches) \in Nat
  PROVE  /\ Applied(w, patches)[0] = w
         /\ \A i \in 1..Len(patches) : Applied(w, patches)[i] = ApplyAt(Applied(w, patches)[i - 1], patches[i].path, patches[i].op)
<1> DEFINE base == w
           G(y, i) == ApplyAt(y, patches[i].path, patches[i].op)
           Is(f, m) == f = [i \in 0..m |-> IF i = 0 THEN base ELSE G(f[i - 1], i)]
           S == {m \in Nat : \E f : Is(f, m)}
<1>1. 0 \in S
  <2> DEFINE g == [i \in 0..0 |-> base]
  <2>1. Is(g, 0)
    <3> HIDE DEF base, G
    <3> QED OBVIOUS
  <2> HIDE DEF g, Is
  <2> QED BY <2>1
<1>2. ASSUME NEW m \in Nat, m \in S PROVE m + 1 \in S
  <2>1. PICK f : Is(f, m)
    BY <1>2
  <2> DEFINE g == [i \in 0..(m + 1) |-> IF i <= m THEN f[i] ELSE G(f[m], m + 1)]
  <2>2. Is(g, m + 1)
    <3> HIDE DEF base, G
    <3> SUFFICES ASSUME NEW n \in 0..(m + 1)
                 PROVE  g[n] = IF n = 0 THEN base ELSE G(g[n - 1], n)
      OBVIOUS
    <3>1. CASE n = m + 1
      BY <3>1
    <3>2. CASE n \in 0..m
      BY <2>1, <3>2
    <3> QED BY <3>1, <3>2
  <2> HIDE DEF g, Is
  <2> QED BY <2>2
<1>3. \A n \in Nat : n \in S
  <2> HIDE DEF S
  <2> QED BY <1>1, <1>2, NatSets
<1>4. PICK n \in Nat : n = Len(patches)
  OBVIOUS
<1> DEFINE v == Applied(w, patches)
<1>5. v = [i \in 0..n |-> IF i = 0 THEN base ELSE G(v[i - 1], i)]
  <2> DEFINE P(f) == f = [i \in 0..n |-> IF i = 0 THEN base ELSE G(f[i - 1], i)]
  <2>1. \E f : P(f)
    BY <1>3
  <2>2. v = CHOOSE f : P(f)
    BY <1>4 DEF Applied
  <2> HIDE DEF P, v
  <2>3. P(v)
    BY <2>1, <2>2, Zenon
  <2> QED BY <2>3 DEF P
<1>6. v[0] = base /\ \A i \in 1..n : v[i] = G(v[i - 1], i)
  <2> HIDE DEF v, base, G
  <2> QED BY ONLY <1>5, n \in Nat
<1> QED BY ONLY <1>4, <1>6

-----------------------------------------------------------------------------
(* Sequences: removal, insertion, a move to the left, a position *)

(* A stretch of a sequence *)
LEMMA SubSeqIs ==
  ASSUME NEW S, NEW s \in Seq(S), NEW a \in 1..(Len(s) + 1), NEW b \in (a - 1)..Len(s)
  PROVE  /\ SubSeq(s, a, b) \in Seq(S)
         /\ Len(SubSeq(s, a, b)) = b - a + 1
         /\ \A j \in 1..(b - a + 1) : SubSeq(s, a, b)[j] = s[a + j - 1]
<1>1. a \in Int /\ b \in Int /\ \A i \in a..b : s[i] \in S
  OBVIOUS
<1>2. (IF a <= b THEN b - a + 1 ELSE 0) = b - a + 1
  OBVIOUS
<1> QED BY <1>1, <1>2, SubSeqProperties

(* RemoveAt: what was right of i moves one to the left. *)
LEMMA RemoveAtIs ==
  ASSUME NEW S, NEW s \in Seq(S), NEW i \in 1..Len(s)
  PROVE  /\ RemoveAt(s, i) \in Seq(S)
         /\ Len(RemoveAt(s, i)) = Len(s) - 1
         /\ \A j \in 1..(Len(s) - 1) : RemoveAt(s, i)[j] = IF j < i THEN s[j] ELSE s[j + 1]
<1> DEFINE x == SubSeq(s, 1, i - 1)
           y == SubSeq(s, i + 1, Len(s))
<1>0. Len(s) \in Nat
  OBVIOUS
<1>1. x \in Seq(S) /\ Len(x) = i - 1 /\ \A j \in 1..(i - 1) : x[j] = s[j]
  <2>1. 1 \in 1..(Len(s) + 1) /\ i - 1 \in (1 - 1)..Len(s)
    BY <1>0
  <2> HIDE <1>0
  <2>2. x \in Seq(S) /\ Len(x) = (i - 1) - 1 + 1 /\ \A j \in 1..((i - 1) - 1 + 1) : x[j] = s[1 + j - 1]
    BY <2>1, SubSeqIs, Zenon
  <2> HIDE DEF x
  <2> QED BY <2>2
<1>2. y \in Seq(S) /\ Len(y) = Len(s) - i /\ \A j \in 1..(Len(s) - i) : y[j] = s[i + j]
  <2>1. i + 1 \in 1..(Len(s) + 1) /\ Len(s) \in (i + 1 - 1)..Len(s)
    BY <1>0
  <2>2. y \in Seq(S) /\ Len(y) = Len(s) - (i + 1) + 1
        /\ \A j \in 1..(Len(s) - (i + 1) + 1) : y[j] = s[i + 1 + j - 1]
    BY <2>1, SubSeqIs
  <2> HIDE DEF y
  <2> QED BY <1>0, <2>2
<1> HIDE DEF x, y
<1>3. /\ x \o y \in Seq(S) /\ Len(x \o y) = Len(x) + Len(y)
      /\ \A j \in 1..(Len(x) + Len(y)) : (x \o y)[j] = IF j <= Len(x) THEN x[j] ELSE y[j - Len(x)]
  BY <1>1, <1>2, ConcatProperties
<1>4. RemoveAt(s, i) = x \o y
  BY DEF RemoveAt, x, y
<1> DEFINE z == x \o y
<1> HIDE DEF z
<1>5. \A j \in 1..(Len(s) - 1) : z[j] = IF j < i THEN s[j] ELSE s[j + 1]
  <2> SUFFICES ASSUME NEW j \in 1..(Len(s) - 1) PROVE z[j] = IF j < i THEN s[j] ELSE s[j + 1]
    OBVIOUS
  <2>1. z[j] = IF j <= Len(x) THEN x[j] ELSE y[j - Len(x)]
    BY <1>0, <1>1, <1>2, <1>3 DEF z
  <2>2. CASE j < i
    BY <1>1, <2>1, <2>2
  <2>3. CASE ~ (j < i)
    BY <1>1, <1>2, <2>1, <2>3
  <2> QED BY <2>2, <2>3
<1>6. z \in Seq(S) /\ Len(z) = Len(s) - 1
  BY <1>0, <1>1, <1>2, <1>3 DEF z
<1>7. RemoveAt(s, i) = z
  BY <1>4 DEF z
<1> QED BY <1>5, <1>6, <1>7, Zenon

(* InsertAt: what was at i, or right of it, moves one to the right. *)
LEMMA InsertAtIs ==
  ASSUME NEW S, NEW s \in Seq(S), NEW e \in S, NEW i \in 1..(Len(s) + 1)
  PROVE  /\ InsertAt(s, i, e) \in Seq(S)
         /\ Len(InsertAt(s, i, e)) = Len(s) + 1
         /\ \A j \in 1..(Len(s) + 1) : InsertAt(s, i, e)[j] =
              IF j < i THEN s[j] ELSE IF j = i THEN e ELSE s[j - 1]
<1> DEFINE x == SubSeq(s, 1, i - 1)
           y == SubSeq(s, i, Len(s))
<1>0. Len(s) \in Nat
  OBVIOUS
<1>1. x \in Seq(S) /\ Len(x) = i - 1 /\ \A j \in 1..(i - 1) : x[j] = s[j]
  <2>1. 1 \in 1..(Len(s) + 1) /\ i - 1 \in (1 - 1)..Len(s)
    BY <1>0
  <2>2. x \in Seq(S) /\ Len(x) = (i - 1) - 1 + 1 /\ \A j \in 1..((i - 1) - 1 + 1) : x[j] = s[1 + j - 1]
    BY <2>1, SubSeqIs, Zenon
  <2> HIDE DEF x
  <2> QED BY <2>2
<1>2. y \in Seq(S) /\ Len(y) = Len(s) - i + 1 /\ \A j \in 1..(Len(s) - i + 1) : y[j] = s[i + j - 1]
  <2>1. Len(s) \in (i - 1)..Len(s)
    BY <1>0
  <2> QED BY <2>1, SubSeqIs, Zenon
<1> HIDE DEF x, y
<1> DEFINE w == x \o <<e>>
<1>3. w \in Seq(S) /\ Len(w) = i /\ w[i] = e /\ \A j \in 1..(i - 1) : w[j] = s[j]
  <2>1. w = Append(x, e)
    BY <1>1, AppendIsConcat
  <2>2. /\ Append(x, e) \in Seq(S) /\ Len(Append(x, e)) = Len(x) + 1
        /\ \A j \in 1..Len(x) : Append(x, e)[j] = x[j]
        /\ Append(x, e)[Len(x) + 1] = e
    BY <1>1, AppendProperties
  <2> HIDE DEF w
  <2> QED BY <1>1, <2>1, <2>2
<1> HIDE DEF w
<1> DEFINE z == w \o y
<1>4. /\ z \in Seq(S) /\ Len(z) = Len(w) + Len(y)
      /\ \A j \in 1..(Len(w) + Len(y)) : z[j] = IF j <= Len(w) THEN w[j] ELSE y[j - Len(w)]
  BY <1>2, <1>3, ConcatProperties
<1>5. InsertAt(s, i, e) = z
  BY DEF InsertAt, x, y, w
<1> HIDE DEF z
<1>6. \A j \in 1..(Len(s) + 1) : z[j] = IF j < i THEN s[j] ELSE IF j = i THEN e ELSE s[j - 1]
  <2> SUFFICES ASSUME NEW j \in 1..(Len(s) + 1)
               PROVE  z[j] = IF j < i THEN s[j] ELSE IF j = i THEN e ELSE s[j - 1]
    OBVIOUS
  <2>1. z[j] = IF j <= Len(w) THEN w[j] ELSE y[j - Len(w)]
    BY <1>0, <1>2, <1>3, <1>4
  <2>2. CASE j < i
    BY <1>3, <2>1, <2>2
  <2>3. CASE j = i
    BY <1>3, <2>1, <2>3
  <2>4. CASE j > i
    <3>1. z[j] = y[j - i] /\ j - i \in 1..(Len(s) - i + 1)
      BY <1>0, <1>3, <2>1, <2>4
    <3>2. y[j - i] = s[i + (j - i) - 1]
      BY <1>2, <3>1, Zenon
    <3>3. i + (j - i) - 1 = j - 1
      OBVIOUS
    <3> QED BY <2>4, <3>1, <3>2, <3>3
  <2> QED BY <2>2, <2>3, <2>4
<1>7. Len(z) = Len(s) + 1
  BY <1>0, <1>2, <1>3, <1>4
<1> QED BY <1>4, <1>5, <1>6, <1>7, Zenon

(* A move to the left: what it passes moves one to the right. *)
LEMMA MoveToIs ==
  ASSUME NEW S, NEW s \in Seq(S), NEW p \in 1..Len(s), NEW t \in 1..p
  PROVE  /\ MoveTo(s, p, t) \in Seq(S)
         /\ Len(MoveTo(s, p, t)) = Len(s)
         /\ \A j \in 1..Len(s) : MoveTo(s, p, t)[j] =
              IF j < t THEN s[j] ELSE IF j = t THEN s[p] ELSE IF j <= p THEN s[j - 1] ELSE s[j]
<1>0. Len(s) \in Nat
  OBVIOUS
<1>1. PICK r \in Seq(S) :
        /\ r = RemoveAt(s, p) /\ Len(r) = Len(s) - 1
        /\ \A j \in 1..(Len(s) - 1) : r[j] = IF j < p THEN s[j] ELSE s[j + 1]
  BY RemoveAtIs
<1>2. PICK e \in S : e = s[p]
  BY <1>0
<1>7. t \in 1..(Len(r) + 1)
  BY <1>0, <1>1
<1> DEFINE m == InsertAt(r, t, e)
<1>3. /\ m \in Seq(S) /\ Len(m) = Len(r) + 1
      /\ \A j \in 1..(Len(r) + 1) : m[j] = IF j < t THEN r[j] ELSE IF j = t THEN e ELSE r[j - 1]
  <2>1. r \in Seq(S) /\ e \in S
    OBVIOUS
  <2>2. m \in Seq(S)
    BY ONLY <2>1, <1>7, InsertAtIs
  <2>3. Len(m) = Len(r) + 1
    BY ONLY <2>1, <1>7, InsertAtIs
  <2>4. ASSUME NEW j \in 1..(Len(r) + 1)
        PROVE  m[j] = IF j < t THEN r[j] ELSE IF j = t THEN e ELSE r[j - 1]
    BY ONLY j \in 1..(Len(r) + 1), <2>1, <1>7, InsertAtIs
  <2> QED BY <2>2, <2>3, <2>4
<1>4. MoveTo(s, p, t) = m
  BY <1>1, <1>2 DEF MoveTo
<1> HIDE DEF m
<1>5. \A j \in 1..Len(s) : m[j] =
              IF j < t THEN s[j] ELSE IF j = t THEN s[p] ELSE IF j <= p THEN s[j - 1] ELSE s[j]
  <2> SUFFICES ASSUME NEW j \in 1..Len(s)
               PROVE  m[j] = IF j < t THEN s[j] ELSE IF j = t THEN s[p]
                             ELSE IF j <= p THEN s[j - 1] ELSE s[j]
    OBVIOUS
  <2>1. m[j] = IF j < t THEN r[j] ELSE IF j = t THEN s[p] ELSE r[j - 1]
    BY <1>0, <1>1, <1>2, <1>3
  <2>2. CASE j < t
    BY <1>0, <1>1, <2>1, <2>2
  <2>3. CASE j = t
    BY <2>1, <2>3
  <2>4. CASE j > t
    <3>1. m[j] = r[j - 1] /\ j - 1 \in 1..(Len(s) - 1)
      BY <1>0, <2>1, <2>4
    <3>2. r[j - 1] = IF j - 1 < p THEN s[j - 1] ELSE s[(j - 1) + 1]
      BY <1>1, <3>1, Zenon
    <3> QED BY <2>4, <3>1, <3>2
  <2> QED BY <2>2, <2>3, <2>4
<1>6. Len(m) = Len(s)
  BY <1>0, <1>1, <1>3
<1> QED BY <1>3, <1>4, <1>5, <1>6, Zenon

(* The place of e in a sequence, 0 if it has none *)
LEMMA PositionIs ==
  ASSUME NEW S, NEW s \in Seq(S), IsInjective(s), NEW e
  PROVE  /\ e \notin Range(s) => Position(s, e) = 0
         /\ \A i \in 1..Len(s) : s[i] = e => Position(s, e) = i
<1>1. Position(s, e) = LET I == {i \in 1..Len(s) : s[i] = e}
                       IN  IF I # {} THEN Min(I) ELSE 0
  BY DEF Position, SelectInSeq
<1>2. e \notin Range(s) => {i \in 1..Len(s) : s[i] = e} = {}
  BY DEF Range
<1>3. ASSUME NEW i \in 1..Len(s), s[i] = e PROVE {j \in 1..Len(s) : s[j] = e} = {i}
  BY <1>3 DEF IsInjective
<1>4. ASSUME NEW i \in 1..Len(s) PROVE Min({i}) = i
  BY DEF Min
<1> QED BY <1>1, <1>2, <1>3, <1>4

-----------------------------------------------------------------------------
(* Addresses: the node at a path, and the tree with another node there *)

(* A node as `rekid` finds it: a record with a list of children *)
HasKids(x) == /\ x = [f \in DOMAIN x |-> x[f]] /\ "kids" \in DOMAIN x
              /\ Len(x.kids) \in Nat
              /\ x.kids = [i \in 1..Len(x.kids) |-> x.kids[i]]

(* The k-th child is the one that was put there. *)
LEMMA SetKid ==
  ASSUME NEW x, HasKids(x), NEW k \in 1..Len(x.kids), NEW z
  PROVE  WithKid(x, k, z).kids[k] = z
BY DEF HasKids, WithKid

(* The last of two children put in one place stays. *)
LEMMA SetKidTwice ==
  ASSUME NEW x, HasKids(x), NEW k \in 1..Len(x.kids), NEW z, NEW y
  PROVE  WithKid(WithKid(x, k, z), k, y) = WithKid(x, k, y)
BY DEF HasKids, WithKid

(* A child put where it is changes nothing. *)
LEMMA SetKidToItself ==
  ASSUME NEW x, HasKids(x), NEW k \in 1..Len(x.kids)
  PROVE  WithKid(x, k, x.kids[k]) = x
BY DEF HasKids, WithKid

(* With another child, a node has as many. *)
LEMMA SetKidHasKids ==
  ASSUME NEW x, HasKids(x), NEW k \in 1..Len(x.kids), NEW z
  PROVE  HasKids(WithKid(x, k, z)) /\ Len(WithKid(x, k, z).kids) = Len(x.kids)
<1> DEFINE S == {x.kids[i] : i \in 1..Len(x.kids)} \cup {z}
           y == [x EXCEPT !.kids[k] = z]
<1>1. PICK n \in Nat : n = Len(x.kids)
  BY DEF HasKids
<1>2. x.kids \in [1..n -> S]
  BY <1>1 DEF HasKids
<1>3. [x.kids EXCEPT ![k] = z] \in [1..n -> S]
  BY <1>2
<1>4. y.kids = [x.kids EXCEPT ![k] = z]
  BY DEF HasKids
<1>5. y = [f \in DOMAIN y |-> y[f]] /\ "kids" \in DOMAIN y
  BY DEF HasKids
<1> HIDE DEF y, S
<1>6. y.kids \in Seq(S) /\ DOMAIN y.kids = 1..n
  <2>1. \A s \in [1..n -> S] : s \in Seq(S) /\ DOMAIN s = 1..n
    OBVIOUS
  <2> QED BY <1>3, <1>4, <2>1
<1>7. Len(y.kids) \in Nat /\ DOMAIN y.kids = 1..Len(y.kids) /\ y.kids = [i \in 1..Len(y.kids) |-> y.kids[i]]
  <2>1. \A s \in Seq(S) : Len(s) \in Nat /\ DOMAIN s = 1..Len(s) /\ s = [i \in 1..Len(s) |-> s[i]]
    OBVIOUS
  <2> QED BY <1>6, <2>1
<1>8. Len(y.kids) = n
  <2>1. \A a, b \in Nat : 1..a = 1..b => a = b
    OBVIOUS
  <2> QED BY <1>6, <1>7, <2>1
<1>9. HasKids(y)
  BY <1>5, <1>7 DEF HasKids
<1> QED BY <1>1, <1>8, <1>9 DEF y, WithKid

(* `rekid`: the children are the new ones. *)
LEMMA SetKids ==
  ASSUME NEW x, HasKids(x), NEW ks, NEW S, ks \in Seq(S)
  PROVE  /\ Rekid(x, ks).kids = ks
         /\ HasKids(Rekid(x, ks))
BY DEF HasKids, Rekid

(* The last of two lists of children stays. *)
LEMMA SetKidsTwice ==
  ASSUME NEW x, HasKids(x), NEW ks, NEW js
  PROVE  Rekid(Rekid(x, ks), js) = Rekid(x, js)
BY DEF HasKids, Rekid

(* A child put among new children *)
LEMMA SetKidsThenKid ==
  ASSUME NEW x, HasKids(x), NEW ks, NEW k \in DOMAIN ks, NEW z
  PROVE  WithKid(Rekid(x, ks), k, z) = Rekid(x, [ks EXCEPT ![k] = z])
BY DEF HasKids, Rekid, WithKid

(* `rekid` with the children there are changes nothing. *)
LEMMA SetKidsToItself ==
  ASSUME NEW x, HasKids(x)
  PROVE  Rekid(x, x.kids) = x
BY DEF HasKids, Rekid

(* Every node of a tree is such a record. *)
LEMMA RecordHasKids ==
  ASSUME NEW T, NEW K, NEW D, NEW U, NEW x \in [tag : T, key : K, self : D, kids : Seq(U)]
  PROVE  HasKids(x)
BY DEF HasKids

-----------------------------------------------------------------------------
(* Every step of the path names a child *)
Sound(w, path) ==
  \A i \in 1..Len(path) : /\ HasKids(Walk(w, path)[i - 1])
                          /\ path[i] \in 1..Len(Walk(w, path)[i - 1].kids)

(* Such a path has a node in HasPath's sense: apply does not ignore it. *)
LEMMA SoundHasPath ==
  ASSUME NEW w, NEW path \in Seq(Nat), Sound(w, path)
  PROVE  HasPath(w, path)
<1>1. DOMAIN path = 1..Len(path)
  OBVIOUS
<1>2. \A y : HasKids(y) => DOMAIN y.kids = 1..Len(y.kids)
  BY DEF HasKids
<1> QED BY <1>1, <1>2 DEF Sound, HasPath

(* A path with one step more *)
LEMMA AppendIs ==
  ASSUME NEW p \in Seq(Nat), NEW k \in Nat
  PROVE  /\ Append(p, k) \in Seq(Nat) /\ Len(p) \in Nat
         /\ Len(Append(p, k)) = Len(p) + 1
         /\ \A i \in 1..Len(p) : Append(p, k)[i] = p[i]
         /\ Append(p, k)[Len(p) + 1] = k
OBVIOUS

(* f is a walk along the first n steps of path. *)
Along(f, path, n) == \A i \in 1..n : f[i] = f[i - 1].kids[path[i]]

(* Two walks from one node along the same steps pass the same nodes. *)
LEMMA SameWalk ==
  ASSUME NEW f, NEW g, NEW p, NEW q, NEW n \in Nat, f[0] = g[0],
         Along(f, p, n), Along(g, q, n), \A i \in 1..n : q[i] = p[i]
  PROVE  \A i \in 0..n : g[i] = f[i]
<1> DEFINE S == {i \in 0..n : g[i] = f[i]}
<1>1. 0 \in S
  OBVIOUS
<1>2. ASSUME NEW i \in 0..(n - 1), i \in S PROVE i + 1 \in S
  <2>1. i + 1 \in 1..n /\ (i + 1) - 1 = i
    OBVIOUS
  <2>2. g[i] = f[i]
    BY <1>2
  <2>3. g[i + 1] = g[i].kids[q[i + 1]] /\ f[i + 1] = f[i].kids[p[i + 1]] /\ q[i + 1] = p[i + 1]
    BY <2>1 DEF Along
  <2>4. g[i + 1] = f[i + 1]
    BY <2>2, <2>3
  <2> QED BY <2>1, <2>4
<1>3. \A i \in 0..n : i \in S
  <2> HIDE DEF S
  <2> QED BY <1>1, <1>2, UpTo
<1> QED BY <1>3

(* A walk with one step more ends at a child of where it ended. *)
LEMMA WalkAppend ==
  ASSUME NEW w, NEW p \in Seq(Nat), NEW k \in Nat
  PROVE  /\ \A i \in 0..Len(p) : Walk(w, Append(p, k))[i] = Walk(w, p)[i]
         /\ At(w, Append(p, k)) = At(w, p).kids[k]
<1> DEFINE q == Append(p, k)
           f == Walk(w, p)
           g == Walk(w, q)
<1>2. PICK n \in Nat : n = Len(p)
  OBVIOUS
<1>3. Len(q) = n + 1 /\ (\A i \in 1..n : q[i] = p[i]) /\ q[n + 1] = k
  BY <1>2, AppendIs
<1>4. f[0] = w /\ \A i \in 1..n : f[i] = f[i - 1].kids[p[i]]
  BY <1>2, WalkIs
<1>5. g[0] = w /\ \A i \in 1..(n + 1) : g[i] = g[i - 1].kids[q[i]]
  <2> HIDE DEF q
  <2>1. Len(q) \in Nat
    BY <1>3
  <2> QED BY <1>3, <2>1, WalkIs, SMTT(60)
<1>a. At(w, q) = g[n + 1] /\ At(w, p) = f[n]
  <2> HIDE DEF q
  <2> QED BY <1>2, <1>3 DEF At
<1> HIDE DEF f, g, q
<1>6. \A i \in 1..n : g[i] = g[i - 1].kids[q[i]]
  BY <1>5
<1>7. \A i \in 0..n : g[i] = f[i]
  <2>1. f[0] = g[0]
    BY <1>4, <1>5
  <2>2. Along(f, p, n) /\ Along(g, q, n)
    BY <1>4, <1>6 DEF Along
  <2>3. \A i \in 1..n : q[i] = p[i]
    BY <1>3
  <2> QED BY ONLY n \in Nat, SameWalk, <2>1, <2>2, <2>3
<1>8. g[n + 1] = g[n].kids[k]
  <2>1. n + 1 \in 1..(n + 1) /\ (n + 1) - 1 = n
    OBVIOUS
  <2> QED BY <1>3, <1>5, <2>1
<1>9. g[n] = f[n]
  BY <1>7
<1>10. At(w, q) = At(w, p).kids[k]
  BY <1>8, <1>9, <1>a
<1> QED BY <1>2, <1>7, <1>10 DEF f, g, q

(* A step to a child makes a sound path sound again. *)
LEMMA SoundAppend ==
  ASSUME NEW w, NEW p \in Seq(Nat), Sound(w, p), HasKids(At(w, p)), NEW k \in 1..Len(At(w, p).kids)
  PROVE  Append(p, k) \in Seq(Nat) /\ Sound(w, Append(p, k))
<1>0. k \in Nat
  BY DEF HasKids
<1> DEFINE q == Append(p, k)
<1>1. PICK n \in Nat : n = Len(p)
  OBVIOUS
<1>2. q \in Seq(Nat) /\ Len(q) = n + 1 /\ (\A i \in 1..n : q[i] = p[i]) /\ q[n + 1] = k
  BY <1>0, <1>1, AppendIs
<1>3. \A i \in 0..n : Walk(w, q)[i] = Walk(w, p)[i]
  BY <1>0, <1>1, WalkAppend
<1> HIDE DEF q
<1>4. ASSUME NEW i \in 1..(n + 1)
      PROVE  HasKids(Walk(w, q)[i - 1]) /\ q[i] \in 1..Len(Walk(w, q)[i - 1].kids)
  <2>1. CASE i \in 1..n
    <3>1. Walk(w, q)[i - 1] = Walk(w, p)[i - 1] /\ q[i] = p[i]
      BY <1>2, <1>3, <2>1
    <3>2. HasKids(Walk(w, p)[i - 1]) /\ p[i] \in 1..Len(Walk(w, p)[i - 1].kids)
      BY <1>1, <2>1 DEF Sound
    <3> QED BY <3>1, <3>2
  <2>2. CASE i = n + 1
    <3>1. Walk(w, q)[i - 1] = At(w, p) /\ q[i] = k
      BY <1>1, <1>2, <1>3, <2>2 DEF At
    <3> QED BY <3>1
  <2>3. i \in 1..n \/ i = n + 1
    OBVIOUS
  <2> QED BY <2>1, <2>2, <2>3
<1>5. Sound(w, q)
  BY <1>2, <1>4 DEF Sound
<1> QED BY <1>2, <1>5 DEF q

(* To put a child is to put its parent with that child. *)
LEMMA PutAppend ==
  ASSUME NEW w, NEW p \in Seq(Nat), NEW k \in Nat, NEW x
  PROVE  Put(w, Append(p, k), x) = Put(w, p, WithKid(At(w, p), k, x))
<1> DEFINE q == Append(p, k)
           y == WithKid(At(w, p), k, x)
           f == Rebuilt(w, p, y)
           g == Rebuilt(w, q, x)
           v == Walk(w, p)
           u == Walk(w, q)
<1>1. PICK n \in Nat : n = Len(p)
  OBVIOUS
<1>2. Len(q) = n + 1 /\ (\A i \in 1..n : q[i] = p[i]) /\ q[n + 1] = k
  BY <1>1, AppendIs
<1>3. \A i \in 0..n : u[i] = v[i]
  BY <1>1, WalkAppend
<1>4. f[0] = y /\ \A i \in 1..n : f[i] = WithKid(v[n - i], p[n - i + 1], f[i - 1])
  <2> HIDE DEF y
  <2>1. f[0] = y /\ \A i \in 1..Len(p) : f[i] = WithKid(v[Len(p) - i], p[Len(p) - i + 1], f[i - 1])
    <3>1. Len(p) \in Nat
      OBVIOUS
    <3> QED BY ONLY <3>1, RebuiltIs
  <2> HIDE DEF f, v
  <2> QED BY <1>1, <2>1
<1>5. g[0] = x /\ \A i \in 1..(n + 1) : g[i] = WithKid(u[n + 1 - i], q[n + 1 - i + 1], g[i - 1])
  <2> HIDE DEF q
  <2>1. Len(q) \in Nat
    BY <1>2
  <2>2. g[0] = x /\ \A i \in 1..Len(q) : g[i] = WithKid(u[Len(q) - i], q[Len(q) - i + 1], g[i - 1])
    BY <2>1, RebuiltIs
  <2> HIDE DEF g, u
  <2> QED BY <1>2, <2>2
<1>6. Put(w, q, x) = g[n + 1] /\ Put(w, p, y) = f[n]
  <2> HIDE DEF q, y
  <2> QED BY <1>1, <1>2 DEF Put
<1>7. y = WithKid(v[n], k, x)
  BY <1>1 DEF At
<1> HIDE DEF q, y, f, g, v, u
<1> DEFINE S == {i \in 0..n : g[i + 1] = f[i]}
<1>8. 0 \in S
  <2>1. 1 \in 1..(n + 1) /\ n + 1 - 1 = n /\ n + 1 - 1 + 1 = n + 1 /\ n \in 0..n
    OBVIOUS
  <2>2. g[1] = WithKid(u[n + 1 - 1], q[n + 1 - 1 + 1], g[1 - 1])
    BY <1>5, <2>1
  <2>3. g[1] = WithKid(u[n], k, x)
    BY <1>2, <1>5, <2>1, <2>2
  <2>4. g[0 + 1] = f[0]
    BY <1>3, <1>4, <1>7, <2>1, <2>3
  <2> QED BY <2>4
<1>9. ASSUME NEW i \in 0..(n - 1), i \in S PROVE i + 1 \in S
  <2>0. g[i + 1] = f[i]
    BY <1>9
  <2>1. /\ i + 2 \in 1..(n + 1) /\ i + 1 \in 1..n /\ n + 1 - (i + 2) = n - (i + 1) /\ n - (i + 1) \in 0..n
        /\ n - (i + 1) + 1 \in 1..n /\ (i + 2) - 1 = i + 1 /\ (i + 1) - 1 = i
    OBVIOUS
  <2>2. g[i + 2] = WithKid(u[n - (i + 1)], q[n - (i + 1) + 1], g[i + 1])
    BY <1>5, <2>1
  <2>3. f[i + 1] = WithKid(v[n - (i + 1)], p[n - (i + 1) + 1], f[i])
    BY <1>4, <2>1
  <2>4. u[n - (i + 1)] = v[n - (i + 1)] /\ q[n - (i + 1) + 1] = p[n - (i + 1) + 1]
    BY <1>2, <1>3, <2>1
  <2>5. g[i + 2] = f[i + 1]
    BY <2>0, <2>2, <2>3, <2>4
  <2> QED BY <2>1, <2>5
<1>10. \A i \in 0..n : i \in S
  <2> HIDE DEF S
  <2> QED BY <1>8, <1>9, UpTo
<1>11. g[n + 1] = f[n]
  BY <1>10
<1> QED BY <1>6, <1>11 DEF q, y

(* Along the path the tree has what Rebuilt made. *)
LEMMA WalkPut ==
  ASSUME NEW w, NEW p \in Seq(Nat), Sound(w, p), NEW x
  PROVE  \A i \in 0..Len(p) : Walk(Put(w, p, x), p)[i] = Rebuilt(w, p, x)[Len(p) - i]
<1> DEFINE f == Rebuilt(w, p, x)
           v == Walk(w, p)
           u == Walk(Put(w, p, x), p)
<1>1. PICK n \in Nat : n = Len(p)
  OBVIOUS
<1>2. \A i \in 1..n : HasKids(v[i - 1]) /\ p[i] \in 1..Len(v[i - 1].kids)
  BY <1>1 DEF Sound
<1>3. \A i \in 1..n : f[i] = WithKid(v[n - i], p[n - i + 1], f[i - 1])
  <2>1. \A i \in 1..Len(p) : f[i] = WithKid(v[Len(p) - i], p[Len(p) - i + 1], f[i - 1])
    BY RebuiltIs, SMTT(60)
  <2> HIDE DEF f, v
  <2> QED BY <1>1, <2>1
<1>4. u[0] = f[n] /\ \A i \in 1..n : u[i] = u[i - 1].kids[p[i]]
  BY <1>1, WalkIs, SMTT(60) DEF Put
<1> HIDE DEF f, u, v
<1> DEFINE S == {i \in 0..n : u[i] = f[n - i]}
<1>5. 0 \in S
  <2>1. u[0] = f[n - 0]
    BY <1>4
  <2> QED BY <2>1
<1>6. ASSUME NEW i \in 0..(n - 1), i \in S PROVE i + 1 \in S
  <2>0. u[i] = f[n - i]
    BY <1>6
  <2>1. i + 1 \in 1..n /\ (i + 1) - 1 = i /\ n - i \in 1..n /\ n - (n - i) = i /\ n - i - 1 = n - (i + 1)
    OBVIOUS
  <2>2. HasKids(v[i]) /\ p[i + 1] \in 1..Len(v[i].kids)
    BY <1>2, <2>1
  <2>3. f[n - i] = WithKid(v[i], p[i + 1], f[n - (i + 1)])
    BY <1>3, <2>1
  <2>4. u[i + 1] = u[i].kids[p[i + 1]]
    BY <1>4, <2>1
  <2>5. u[i + 1] = f[n - (i + 1)]
    BY <2>0, <2>2, <2>3, <2>4, SetKid
  <2> QED BY <2>1, <2>5
<1>7. \A i \in 0..n : i \in S
  <2> HIDE DEF S
  <2> QED BY <1>5, <1>6, UpTo
<1> QED BY <1>1, <1>7 DEF f, u

(* The node that was put there is there, and the path to it is sound still *)
LEMMA AtPut ==
  ASSUME NEW w, NEW p \in Seq(Nat), Sound(w, p), NEW x
  PROVE  At(Put(w, p, x), p) = x /\ Sound(Put(w, p, x), p)
<1> DEFINE f == Rebuilt(w, p, x)
           v == Walk(w, p)
           u == Walk(Put(w, p, x), p)
<1>1. PICK n \in Nat : n = Len(p)
  OBVIOUS
<1>2. \A i \in 1..n : HasKids(v[i - 1]) /\ p[i] \in 1..Len(v[i - 1].kids)
  BY <1>1 DEF Sound
<1>3. f[0] = x /\ \A i \in 1..n : f[i] = WithKid(v[n - i], p[n - i + 1], f[i - 1])
  <2>1. f[0] = x /\ \A i \in 1..Len(p) : f[i] = WithKid(v[Len(p) - i], p[Len(p) - i + 1], f[i - 1])
    <3>1. Len(p) \in Nat
      OBVIOUS
    <3> QED BY ONLY <3>1, RebuiltIs
  <2> HIDE DEF f, v
  <2> QED BY <1>1, <2>1
<1>4. \A i \in 0..n : u[i] = f[n - i]
  BY <1>1, WalkPut
<1>5. At(Put(w, p, x), p) = u[n]
  BY <1>1 DEF At
<1>6. Sound(Put(w, p, x), p) <=> \A i \in 1..n : HasKids(u[i - 1]) /\ p[i] \in 1..Len(u[i - 1].kids)
  BY <1>1 DEF Sound
<1> HIDE DEF f, u, v
<1>7. u[n] = x
  BY <1>3, <1>4
<1>8. ASSUME NEW i \in 1..n PROVE HasKids(u[i - 1]) /\ p[i] \in 1..Len(u[i - 1].kids)
  <2>1. i - 1 \in 0..n /\ n - (i - 1) \in 1..n /\ n - (n - (i - 1)) = i - 1 /\ (i - 1) + 1 = i
    OBVIOUS
  <2>2. u[i - 1] = f[n - (i - 1)]
    BY <1>4, <2>1
  <2>3. f[n - (i - 1)] = WithKid(v[i - 1], p[i], f[n - (i - 1) - 1])
    BY <1>3, <2>1
  <2>4. HasKids(v[i - 1]) /\ p[i] \in 1..Len(v[i - 1].kids)
    BY <1>2
  <2> QED BY <2>2, <2>3, <2>4, SetKidHasKids
<1> QED BY <1>5, <1>6, <1>7, <1>8

(* The last of two nodes put at one path stays. *)
LEMMA PutPut ==
  ASSUME NEW w, NEW p \in Seq(Nat), Sound(w, p), NEW x, NEW y
  PROVE  Put(Put(w, p, x), p, y) = Put(w, p, y)
<1> DEFINE f == Rebuilt(w, p, x)
           g == Rebuilt(w, p, y)
           h == Rebuilt(Put(w, p, x), p, y)
           v == Walk(w, p)
           u == Walk(Put(w, p, x), p)
<1>1. PICK n \in Nat : n = Len(p)
  OBVIOUS
<1>2. \A i \in 1..n : HasKids(v[i - 1]) /\ p[i] \in 1..Len(v[i - 1].kids)
  BY <1>1 DEF Sound
<1>3. f[0] = x /\ \A i \in 1..n : f[i] = WithKid(v[n - i], p[n - i + 1], f[i - 1])
  <2>1. f[0] = x /\ \A i \in 1..Len(p) : f[i] = WithKid(v[Len(p) - i], p[Len(p) - i + 1], f[i - 1])
    <3>1. Len(p) \in Nat
      OBVIOUS
    <3> QED BY ONLY <3>1, RebuiltIs
  <2> HIDE DEF f, v
  <2> QED BY <1>1, <2>1
<1>4. g[0] = y /\ \A i \in 1..n : g[i] = WithKid(v[n - i], p[n - i + 1], g[i - 1])
  <2>1. g[0] = y /\ \A i \in 1..Len(p) : g[i] = WithKid(v[Len(p) - i], p[Len(p) - i + 1], g[i - 1])
    <3>1. Len(p) \in Nat
      OBVIOUS
    <3> QED BY ONLY <3>1, RebuiltIs
  <2> HIDE DEF g, v
  <2> QED BY <1>1, <2>1
<1>5. h[0] = y /\ \A i \in 1..n : h[i] = WithKid(u[n - i], p[n - i + 1], h[i - 1])
  <2>1. h[0] = y /\ \A i \in 1..Len(p) : h[i] = WithKid(u[Len(p) - i], p[Len(p) - i + 1], h[i - 1])
    <3>1. Len(p) \in Nat
      OBVIOUS
    <3> QED BY ONLY <3>1, RebuiltIs
  <2> HIDE DEF h, u
  <2> QED BY <1>1, <2>1
<1>6. \A i \in 0..n : u[i] = f[n - i]
  BY <1>1, WalkPut
<1>7. Put(Put(w, p, x), p, y) = h[n] /\ Put(w, p, y) = g[n]
  BY <1>1 DEF Put
<1> HIDE DEF f, g, h, u, v
<1> DEFINE S == {i \in 0..n : h[i] = g[i]}
<1>8. 0 \in S
  BY <1>4, <1>5
<1>9. ASSUME NEW i \in 0..(n - 1), i \in S PROVE i + 1 \in S
  <2>0. h[i] = g[i]
    BY <1>9
  <2> DEFINE j == n - (i + 1)
  <2>1. i + 1 \in 1..n /\ (i + 1) - 1 = i /\ j \in 0..n /\ n - j = i + 1 /\ j + 1 \in 1..n /\ (j + 1) - 1 = j
    OBVIOUS
  <2>2. h[i + 1] = WithKid(u[j], p[j + 1], h[i])
    BY <1>5, <2>1
  <2>3. g[i + 1] = WithKid(v[j], p[j + 1], g[i])
    BY <1>4, <2>1
  <2>4. f[i + 1] = WithKid(v[j], p[j + 1], f[i])
    BY <1>3, <2>1
  <2>5. u[j] = f[i + 1]
    BY <1>6, <2>1
  <2>6. HasKids(v[j]) /\ p[j + 1] \in 1..Len(v[j].kids)
    BY <1>2, <2>1
  <2> HIDE DEF j
  <2>7. h[i + 1] = g[i + 1]
    BY <2>0, <2>2, <2>3, <2>4, <2>5, <2>6, SetKidTwice
  <2> QED BY <2>1, <2>7
<1>10. \A i \in 0..n : i \in S
  <2> HIDE DEF S
  <2> QED BY <1>8, <1>9, UpTo
<1>11. h[n] = g[n]
  BY <1>10
<1> QED BY <1>7, <1>11

(* A node put where it is changes nothing. *)
LEMMA PutAt ==
  ASSUME NEW w, NEW p \in Seq(Nat), Sound(w, p)
  PROVE  Put(w, p, At(w, p)) = w
<1> DEFINE v == Walk(w, p)
           g == Rebuilt(w, p, At(w, p))
<1>1. PICK n \in Nat : n = Len(p)
  OBVIOUS
<1>2. \A i \in 1..n : HasKids(v[i - 1]) /\ p[i] \in 1..Len(v[i - 1].kids)
  BY <1>1 DEF Sound
<1>3. g[0] = At(w, p) /\ \A i \in 1..n : g[i] = WithKid(v[n - i], p[n - i + 1], g[i - 1])
  <2>1. g[0] = At(w, p) /\ \A i \in 1..Len(p) : g[i] = WithKid(v[Len(p) - i], p[Len(p) - i + 1], g[i - 1])
    <3>1. Len(p) \in Nat
      OBVIOUS
    <3> QED BY ONLY <3>1, RebuiltIs
  <2> HIDE DEF g, v
  <2> QED BY <1>1, <2>1
<1>4. v[0] = w /\ \A i \in 1..n : v[i] = v[i - 1].kids[p[i]]
  BY <1>1, WalkIs
<1>5. At(w, p) = v[n] /\ Put(w, p, At(w, p)) = g[n]
  BY <1>1 DEF At, Put
<1> HIDE DEF g, v
<1> DEFINE S == {i \in 0..n : g[i] = v[n - i]}
<1>6. 0 \in S
  <2>1. g[0] = v[n - 0]
    BY <1>3, <1>5
  <2> QED BY <2>1
<1>7. ASSUME NEW i \in 0..(n - 1), i \in S PROVE i + 1 \in S
  <2> DEFINE j == n - (i + 1)
  <2>1. i + 1 \in 1..n /\ (i + 1) - 1 = i /\ j + 1 \in 1..n /\ (j + 1) - 1 = j /\ n - i = j + 1
    OBVIOUS
  <2>0. g[i] = v[j + 1]
    BY <1>7, <2>1
  <2>2. g[i + 1] = WithKid(v[j], p[j + 1], g[i])
    BY <1>3, <2>1
  <2>3. v[j + 1] = v[j].kids[p[j + 1]] /\ HasKids(v[j]) /\ p[j + 1] \in 1..Len(v[j].kids)
    BY <1>2, <1>4, <2>1
  <2>5. g[i + 1] = v[j]
    <3> HIDE DEF j
    <3> QED BY <2>0, <2>2, <2>3, SetKidToItself
  <2> QED BY <2>1, <2>5
<1>8. \A i \in 0..n : i \in S
  <2> HIDE DEF S
  <2> QED BY <1>6, <1>7, UpTo
<1>9. g[n] = w
  BY <1>4, <1>8
<1> QED BY <1>5, <1>9

-----------------------------------------------------------------------------
(* `apply` of a list of patches, one after another *)

(* f is a replay of the first n patches. *)
Replays(f, patches, n) == \A i \in 1..n : f[i] = ApplyAt(f[i - 1], patches[i].path, patches[i].op)

(* Two replays of the same patches from one tree end in the same tree. *)
LEMMA SameReplays ==
  ASSUME NEW f, NEW g, NEW ps, NEW qs, NEW n \in Nat, f[0] = g[0],
         Replays(f, ps, n), Replays(g, qs, n), \A i \in 1..n : qs[i] = ps[i]
  PROVE  g[n] = f[n]
<1> DEFINE S == {i \in 0..n : g[i] = f[i]}
<1>1. 0 \in S
  OBVIOUS
<1>2. ASSUME NEW i \in 0..(n - 1), i \in S PROVE i + 1 \in S
  <2>1. i + 1 \in 1..n /\ (i + 1) - 1 = i
    OBVIOUS
  <2>2. g[i] = f[i]
    BY <1>2
  <2>3. f[i + 1] = ApplyAt(f[i], ps[i + 1].path, ps[i + 1].op)
    BY <2>1 DEF Replays
  <2>4. g[i + 1] = ApplyAt(g[i], qs[i + 1].path, qs[i + 1].op)
    BY <2>1 DEF Replays
  <2>5. qs[i + 1] = ps[i + 1]
    BY <2>1
  <2>6. g[i + 1] = f[i + 1]
    BY <2>2, <2>3, <2>4, <2>5
  <2> QED BY <2>1, <2>6
<1>3. \A i \in 0..n : i \in S
  <2> HIDE DEF S
  <2> QED BY <1>1, <1>2, UpTo
<1> QED BY <1>3

(* No patches change nothing. *)
LEMMA ApplyNone ==
  ASSUME NEW w
  PROVE  Apply(w, <<>>) = w
<1>1. Len(<<>>) = 0
  OBVIOUS
<1>2. Applied(w, <<>>)[0] = w
  BY <1>1, AppliedIs
<1> QED BY <1>1, <1>2 DEF Apply

(* One patch alone *)
LEMMA ApplyOne ==
  ASSUME NEW w, NEW patch
  PROVE  Apply(w, <<patch>>) = ApplyAt(w, patch.path, patch.op)
<1> DEFINE ps == <<patch>>
<1>1. Len(ps) = 1 /\ ps[1] = patch
  OBVIOUS
<1> HIDE DEF ps
<1>2. Len(ps) \in Nat /\ 1 \in 1..Len(ps) /\ 1 - 1 = 0
  BY <1>1
<1>3. Applied(w, ps)[0] = w
  BY <1>2, AppliedIs
<1>4. Applied(w, ps)[1] = ApplyAt(Applied(w, ps)[0], ps[1].path, ps[1].op)
  BY <1>2, AppliedIs
<1>5. Apply(w, ps) = ApplyAt(w, patch.path, patch.op)
  BY <1>1, <1>3, <1>4 DEF Apply
<1> QED BY <1>5 DEF ps

(* To replay one list after another is to replay the second from where the
   first has led. *)
LEMMA ApplyConcat ==
  ASSUME NEW P, NEW ps \in Seq(P), NEW qs \in Seq(P), NEW w
  PROVE  Apply(w, ps \o qs) = Apply(Apply(w, ps), qs)
<1>1. PICK m \in Nat : m = Len(ps)
  OBVIOUS
<1>2. PICK n \in Nat : n = Len(qs)
  OBVIOUS
<1> DEFINE rs == ps \o qs
<1>3. /\ Len(rs) = m + n /\ \A i \in 1..m : rs[i] = ps[i]
      /\ \A i \in 1..n : rs[m + i] = qs[i]
  <2>1. /\ Len(rs) = Len(ps) + Len(qs)
        /\ \A i \in 1..(Len(ps) + Len(qs)) : rs[i] = IF i <= Len(ps) THEN ps[i] ELSE qs[i - Len(ps)]
    BY ConcatProperties
  <2> HIDE DEF rs
  <2>2. Len(rs) = m + n /\ \A i \in 1..(m + n) : rs[i] = IF i <= m THEN ps[i] ELSE qs[i - m]
    BY <1>1, <1>2, <2>1
  <2>3. ASSUME NEW i \in 1..m PROVE rs[i] = ps[i]
    <3>1. i \in 1..(m + n) /\ i <= m
      OBVIOUS
    <3> QED BY <2>2, <3>1
  <2>4. ASSUME NEW i \in 1..n PROVE rs[m + i] = qs[i]
    <3>1. m + i \in 1..(m + n) /\ ~ (m + i <= m) /\ (m + i) - m = i
      OBVIOUS
    <3>2. rs[m + i] = qs[(m + i) - m]
      BY <2>2, <3>1
    <3> QED BY <3>1, <3>2
  <2> QED BY <2>2, <2>3, <2>4
<1> HIDE DEF rs
<1> DEFINE f == Applied(w, ps)
           g == Applied(Apply(w, ps), qs)
           h == Applied(w, rs)
<1>4. f[0] = w /\ Replays(f, ps, m) /\ Apply(w, ps) = f[m]
  <2>1. f[0] = w /\ \A i \in 1..Len(ps) : f[i] = ApplyAt(f[i - 1], ps[i].path, ps[i].op)
    BY <1>1, AppliedIs
  <2>2. Replays(f, ps, m)
    BY <1>1, <2>1 DEF Replays
  <2> QED BY <1>1, <2>1, <2>2 DEF Apply
<1>5. g[0] = Apply(w, ps) /\ Replays(g, qs, n) /\ Apply(Apply(w, ps), qs) = g[n]
  <2>1. g[0] = Apply(w, ps) /\ \A i \in 1..Len(qs) : g[i] = ApplyAt(g[i - 1], qs[i].path, qs[i].op)
    BY <1>2, AppliedIs
  <2>2. Replays(g, qs, n)
    BY <1>2, <2>1 DEF Replays
  <2>3. Apply(Apply(w, ps), qs) = g[n]
    BY <1>2 DEF Apply
  <2> QED BY <2>1, <2>2, <2>3
<1>6. h[0] = w /\ Replays(h, rs, m + n) /\ Apply(w, rs) = h[m + n]
  <2>0. Len(rs) \in Nat
    BY <1>3
  <2>1. h[0] = w /\ \A i \in 1..Len(rs) : h[i] = ApplyAt(h[i - 1], rs[i].path, rs[i].op)
    BY <2>0, AppliedIs
  <2>2. Replays(h, rs, m + n)
    BY <1>3, <2>1 DEF Replays
  <2> QED BY <1>3, <2>1, <2>2 DEF Apply
<1> HIDE DEF f, g, h
<1>7. Replays(h, rs, m)
  BY <1>6 DEF Replays
<1>8. h[m] = f[m]
  BY <1>3, <1>4, <1>6, <1>7, SameReplays
<1> DEFINE k == [i \in 0..n |-> h[m + i]]
           ts == [i \in 1..n |-> rs[m + i]]
<1>9. k[0] = h[m] /\ k[n] = h[m + n]
  OBVIOUS
<1>10. Replays(k, ts, n)
  <2> SUFFICES ASSUME NEW i \in 1..n PROVE k[i] = ApplyAt(k[i - 1], ts[i].path, ts[i].op)
    BY DEF Replays
  <2>1. m + i \in 1..(m + n) /\ (m + i) - 1 = m + (i - 1) /\ i - 1 \in 0..n /\ i \in 0..n
    OBVIOUS
  <2>2. h[m + i] = ApplyAt(h[(m + i) - 1], rs[m + i].path, rs[m + i].op)
    BY <1>6, <2>1 DEF Replays
  <2>3. k[i] = h[m + i] /\ k[i - 1] = h[m + (i - 1)] /\ ts[i] = rs[m + i]
    BY <2>1
  <2> HIDE DEF k, ts
  <2> QED BY <2>1, <2>2, <2>3
<1>11. \A i \in 1..n : ts[i] = qs[i]
  BY <1>3
<1> HIDE DEF k, ts
<1>12. g[0] = k[0]
  BY <1>4, <1>5, <1>8, <1>9
<1>13. k[n] = g[n]
  BY <1>5, <1>10, <1>11, <1>12, SameReplays
<1> QED BY <1>5, <1>6, <1>9, <1>13 DEF rs

(* A list made of stages, when it is known where each of them leads *)
LEMMA ApplyStages ==
  ASSUME NEW P, NEW ss \in Seq(Seq(P)), NEW tr, NEW n \in Nat, n = Len(ss),
         \A i \in 1..n : Apply(tr[i - 1], ss[i]) = tr[i]
  PROVE  Concat(ss) \in Seq(P) /\ Apply(tr[0], Concat(ss)) = tr[n]
<1>1. \A i \in 0..n : Joined(ss)[i] \in Seq(P)
  BY JoinedType
<1>2. Joined(ss)[0] = <<>> /\ \A i \in 1..n : Joined(ss)[i] = Joined(ss)[i - 1] \o ss[i]
  BY JoinedIs
<1>3. \A i \in 1..n : ss[i] \in Seq(P)
  OBVIOUS
<1> DEFINE j == Joined(ss)
<1> HIDE DEF j
<1> DEFINE S == {i \in 0..n : Apply(tr[0], j[i]) = tr[i]}
<1>4. 0 \in S
  <2>1. Apply(tr[0], j[0]) = tr[0]
    BY <1>2, ApplyNone DEF j
  <2> QED BY <2>1
<1>5. ASSUME NEW i \in 0..(n - 1), i \in S PROVE i + 1 \in S
  <2>0. Apply(tr[0], j[i]) = tr[i]
    BY <1>5
  <2>1. i + 1 \in 1..n /\ (i + 1) - 1 = i /\ i \in 0..n /\ i + 1 \in 0..n
    OBVIOUS
  <2>2. j[i + 1] = j[i] \o ss[i + 1]
    BY <1>2, <2>1 DEF j
  <2>3. j[i] \in Seq(P) /\ ss[i + 1] \in Seq(P)
    BY <1>1, <1>3, <2>1 DEF j
  <2>4. Apply(tr[0], j[i] \o ss[i + 1]) = Apply(Apply(tr[0], j[i]), ss[i + 1])
    BY <2>3, ApplyConcat
  <2>5. Apply(tr[i], ss[i + 1]) = tr[i + 1]
    <3>1. Apply(tr[(i + 1) - 1], ss[i + 1]) = tr[i + 1]
      BY <2>1
    <3> QED BY <2>1, <3>1
  <2>6. Apply(tr[0], j[i + 1]) = tr[i + 1]
    BY <2>0, <2>2, <2>4, <2>5
  <2> QED BY <2>1, <2>6
<1>6. \A i \in 0..n : i \in S
  <2> HIDE DEF S
  <2> QED BY <1>4, <1>5, UpTo
<1>7. Apply(tr[0], j[n]) = tr[n]
  BY <1>6
<1>8. Concat(ss) = j[n]
  BY DEF Concat, j
<1>9. j[n] \in Seq(P)
  BY <1>1 DEF j
<1> QED BY <1>7, <1>8, <1>9

-----------------------------------------------------------------------------
(* The drops of a keyed list *)

(* The children as `drops` leaves them, one removal after another *)
Dropped(ks, nk) ==
  LET cur[i \in 0..Len(ks)] ==
        IF i = 0 THEN ks
        ELSE (IF ks[Len(ks) + 1 - i].key \in Range(nk) THEN cur[i - 1]
              ELSE RemoveAt(cur[i - 1], Len(ks) + 1 - i))
  IN  cur

(* Dropped, step by step *)
LEMMA DroppedIs ==
  ASSUME NEW ks, NEW nk, Len(ks) \in Nat
  PROVE  /\ Dropped(ks, nk)[0] = ks
         /\ \A i \in 1..Len(ks) : Dropped(ks, nk)[i] = (IF ks[Len(ks) + 1 - i].key \in Range(nk) THEN Dropped(ks, nk)[i - 1] ELSE RemoveAt(Dropped(ks, nk)[i - 1], Len(ks) + 1 - i))
<1> DEFINE base == ks
           G(y, i) == (IF ks[Len(ks) + 1 - i].key \in Range(nk) THEN y ELSE RemoveAt(y, Len(ks) + 1 - i))
           Is(f, m) == f = [i \in 0..m |-> IF i = 0 THEN base ELSE G(f[i - 1], i)]
           S == {m \in Nat : \E f : Is(f, m)}
<1>1. 0 \in S
  <2> DEFINE g == [i \in 0..0 |-> base]
  <2>1. Is(g, 0)
    <3> HIDE DEF base, G
    <3> QED OBVIOUS
  <2> HIDE DEF g, Is
  <2> QED BY <2>1
<1>2. ASSUME NEW m \in Nat, m \in S PROVE m + 1 \in S
  <2>1. PICK f : Is(f, m)
    BY <1>2
  <2> DEFINE g == [i \in 0..(m + 1) |-> IF i <= m THEN f[i] ELSE G(f[m], m + 1)]
  <2>2. Is(g, m + 1)
    <3> HIDE DEF base, G
    <3> SUFFICES ASSUME NEW n \in 0..(m + 1)
                 PROVE  g[n] = IF n = 0 THEN base ELSE G(g[n - 1], n)
      OBVIOUS
    <3>1. CASE n = m + 1
      BY <3>1
    <3>2. CASE n \in 0..m
      BY <2>1, <3>2
    <3> QED BY <3>1, <3>2
  <2> HIDE DEF g, Is
  <2> QED BY <2>2
<1>3. \A n \in Nat : n \in S
  <2> HIDE DEF S
  <2> QED BY <1>1, <1>2, NatSets
<1>4. PICK n \in Nat : n = Len(ks)
  OBVIOUS
<1> DEFINE v == Dropped(ks, nk)
<1>5. v = [i \in 0..n |-> IF i = 0 THEN base ELSE G(v[i - 1], i)]
  <2> DEFINE P(f) == f = [i \in 0..n |-> IF i = 0 THEN base ELSE G(f[i - 1], i)]
  <2>1. \E f : P(f)
    BY <1>3
  <2>2. v = CHOOSE f : P(f)
    BY <1>4 DEF Dropped
  <2> HIDE DEF P, v
  <2>3. P(v)
    BY <2>1, <2>2, Zenon
  <2> QED BY <2>3 DEF P
<1>6. v[0] = base /\ \A i \in 1..n : v[i] = G(v[i - 1], i)
  <2> HIDE DEF v, base, G
  <2> QED BY ONLY <1>5, n \in Nat
<1> QED BY ONLY <1>4, <1>6


(* The keys the nodes of a set have *)
KeysOf(U) == {u.key : u \in U}

(* The keys of a list of nodes *)
LEMMA KeysIs ==
  ASSUME NEW U, NEW ks \in Seq(U)
  PROVE  /\ Keys(ks) \in Seq(KeysOf(U))
         /\ Len(Keys(ks)) = Len(ks)
         /\ DOMAIN Keys(ks) = 1..Len(ks) /\ DOMAIN ks = 1..Len(ks)
         /\ Len(ks) \in Nat
         /\ \A i \in 1..Len(ks) : Keys(ks)[i] = ks[i].key
<1>1. Len(ks) \in Nat /\ DOMAIN ks = 1..Len(ks) /\ \A i \in 1..Len(ks) : ks[i] \in U
  OBVIOUS
<1>2. Keys(ks) = [i \in 1..Len(ks) |-> ks[i].key]
  BY <1>1 DEF Keys
<1>3. \A i \in 1..Len(ks) : ks[i].key \in KeysOf(U)
  BY <1>1 DEF KeysOf
<1> QED BY <1>1, <1>2, <1>3

(* The keys of a list with one more in front *)
LEMMA KeysCons ==
  ASSUME NEW U, NEW x \in U, NEW ks \in Seq(U)
  PROVE  Keys(<<x>> \o ks) = <<x.key>> \o Keys(ks)
<1> DEFINE s == <<x>> \o ks
           a == Keys(s)
           b == <<x.key>> \o Keys(ks)
<1>1. PICK n \in Nat : n = Len(ks)
  OBVIOUS
<1>2. s \in Seq(U) /\ Len(s) = n + 1 /\ s[1] = x /\ \A i \in 1..n : s[i + 1] = ks[i]
  <2>1. <<x>> \in Seq(U) /\ Len(<<x>>) = 1 /\ <<x>>[1] = x
    OBVIOUS
  <2>2. s \in Seq(U) /\ Len(s) = Len(<<x>>) + Len(ks) /\
        \A i \in 1..(Len(<<x>>) + Len(ks)) : s[i] = IF i <= Len(<<x>>) THEN <<x>>[i] ELSE ks[i - Len(<<x>>)]
    BY <2>1, ConcatProperties
  <2> HIDE DEF s
  <2> QED BY <1>1, <2>1, <2>2
<1>3. /\ Keys(ks) \in Seq(KeysOf(U)) /\ Len(Keys(ks)) = n
      /\ \A i \in 1..n : Keys(ks)[i] = ks[i].key
  BY <1>1, KeysIs
<1>4. x.key \in KeysOf(U)
  BY DEF KeysOf
<1>5. b \in Seq(KeysOf(U)) /\ Len(b) = n + 1 /\ b[1] = x.key /\ \A i \in 1..n : b[i + 1] = Keys(ks)[i]
  <2>1. <<x.key>> \in Seq(KeysOf(U)) /\ Len(<<x.key>>) = 1 /\ <<x.key>>[1] = x.key
    BY <1>4
  <2> DEFINE c == <<x.key>>
             d == Keys(ks)
  <2>0. c \in Seq(KeysOf(U)) /\ d \in Seq(KeysOf(U)) /\ Len(c) = 1 /\ Len(d) = n /\ c[1] = x.key
    BY <1>3, <2>1
  <2>3. b = c \o d
    OBVIOUS
  <2> HIDE DEF c, d, b
  <2>2. c \o d \in Seq(KeysOf(U)) /\ Len(c \o d) = Len(c) + Len(d) /\
        \A i \in 1..(Len(c) + Len(d)) : (c \o d)[i] = IF i <= Len(c) THEN c[i] ELSE d[i - Len(c)]
    BY <2>0, ConcatProperties
  <2>4. b \in Seq(KeysOf(U)) /\ Len(b) = n + 1 /\ b[1] = x.key
    BY <2>0, <2>2, <2>3
  <2>5. \A i \in 1..n : b[i + 1] = d[i]
    BY <2>0, <2>2, <2>3
  <2> QED BY <2>4, <2>5 DEF d
<1> HIDE DEF s, b
<1>6. /\ a \in Seq(KeysOf(U)) /\ Len(a) = n + 1
      /\ \A i \in 1..(n + 1) : a[i] = s[i].key
  BY <1>2, KeysIs
<1> HIDE DEF a
<1>7. \A i \in 1..(n + 1) : a[i] = b[i]
  <2> SUFFICES ASSUME NEW i \in 1..(n + 1) PROVE a[i] = b[i]
    OBVIOUS
  <2>1. CASE i = 1
    BY <1>2, <1>5, <1>6, <2>1
  <2>2. CASE i # 1
    <3>1. i - 1 \in 1..n /\ (i - 1) + 1 = i
      BY <2>2
    <3>2. b[i] = ks[i - 1].key
      BY <1>3, <1>5, <3>1
    <3>3. a[i] = ks[i - 1].key
      BY <1>2, <1>6, <3>1
    <3> QED BY <3>2, <3>3
  <2> QED BY <2>1, <2>2
<1>8. a = b
  BY <1>5, <1>6, <1>7, SeqEqual
<1> QED BY <1>8 DEF a, b, s

(* Two lists, one after the other *)
LEMMA ConcatIs ==
  ASSUME NEW U, NEW a \in Seq(U), NEW b \in Seq(U), NEW m \in Nat, NEW n \in Nat, m = Len(a), n = Len(b)
  PROVE  /\ a \o b \in Seq(U) /\ Len(a \o b) = m + n
         /\ \A i \in 1..(m + n) : (a \o b)[i] = IF i <= m THEN a[i] ELSE b[i - m]
<1>1. /\ a \o b \in Seq(U) /\ Len(a \o b) = Len(a) + Len(b)
      /\ \A i \in 1..(Len(a) + Len(b)) : (a \o b)[i] = IF i <= Len(a) THEN a[i] ELSE b[i - Len(a)]
  BY ConcatProperties
<1> DEFINE c == a \o b
<1> HIDE DEF c
<1>2. /\ c \in Seq(U) /\ Len(c) = m + n
      /\ \A i \in 1..(m + n) : c[i] = IF i <= m THEN a[i] ELSE b[i - m]
  BY <1>1 DEF c
<1> QED BY <1>2 DEF c

(* The element between two lists removed *)
LEMMA RemoveBetween ==
  ASSUME NEW U, NEW a \in Seq(U), NEW x \in U, NEW r \in Seq(U)
  PROVE  /\ Len(a) + 1 \in 1..Len((a \o <<x>>) \o r)
         /\ RemoveAt((a \o <<x>>) \o r, Len(a) + 1) = a \o r
<1>1. PICK m \in Nat : m = Len(a)
  OBVIOUS
<1>2. PICK n \in Nat : n = Len(r)
  OBVIOUS
<1> DEFINE b == a \o <<x>>
<1>3. b \in Seq(U) /\ Len(b) = m + 1 /\ \A i \in 1..m : b[i] = a[i]
  <2>1. Append(a, x) \in Seq(U) /\ Len(Append(a, x)) = Len(a) + 1 /\ \A i \in 1..Len(a) : Append(a, x)[i] = a[i]
    BY AppendProperties
  <2>2. b = Append(a, x)
    BY AppendIsConcat
  <2> HIDE DEF b
  <2> QED BY <1>1, <2>1, <2>2
<1> HIDE DEF b
<1> DEFINE c == b \o r
<1>4. /\ c \in Seq(U) /\ Len(c) = m + 1 + n
      /\ \A i \in 1..(m + 1 + n) : c[i] = IF i <= m + 1 THEN b[i] ELSE r[i - (m + 1)]
  <2>1. PICK k \in Nat : k = m + 1
    OBVIOUS
  <2>2. k = Len(b)
    BY <1>3, <2>1
  <2>3. /\ c \in Seq(U) /\ Len(c) = k + n
        /\ \A i \in 1..(k + n) : c[i] = IF i <= k THEN b[i] ELSE r[i - k]
    <3>1. b \in Seq(U) /\ r \in Seq(U)
      BY <1>3
    <3> QED BY ONLY <3>1, k \in Nat, n \in Nat, <2>2, <1>2, ConcatIs
  <2> HIDE DEF c
  <2> QED BY <2>1, <2>3
<1> DEFINE d == a \o r
<1>5. /\ d \in Seq(U) /\ Len(d) = m + n
      /\ \A i \in 1..(m + n) : d[i] = IF i <= m THEN a[i] ELSE r[i - m]
  BY <1>1, <1>2, ConcatIs
<1> HIDE DEF c, d
<1>6. m + 1 \in 1..Len(c)
  BY <1>4
<1>7. PICK e \in Seq(U) : /\ e = RemoveAt(c, m + 1) /\ Len(e) = m + n
                          /\ \A j \in 1..(m + n) : e[j] = IF j < m + 1 THEN c[j] ELSE c[j + 1]
  <2>1. PICK k \in Nat : k = Len(c)
    BY <1>4
  <2>2. /\ RemoveAt(c, m + 1) \in Seq(U) /\ Len(RemoveAt(c, m + 1)) = Len(c) - 1
        /\ \A j \in 1..(Len(c) - 1) : RemoveAt(c, m + 1)[j] = IF j < m + 1 THEN c[j] ELSE c[j + 1]
    BY <1>4, <1>6, RemoveAtIs
  <2>3. Len(c) - 1 = m + n
    BY <1>4
  <2> QED BY <2>2, <2>3
<1>8. \A j \in 1..(m + n) : e[j] = d[j]
  <2> SUFFICES ASSUME NEW j \in 1..(m + n) PROVE e[j] = d[j]
    OBVIOUS
  <2>1. CASE j <= m
    <3>1. j \in 1..m /\ j \in 1..(m + 1 + n) /\ j < m + 1 /\ j <= m + 1
      BY <2>1
    <3>2. e[j] = c[j] /\ c[j] = b[j] /\ b[j] = a[j]
      BY <1>3, <1>4, <1>7, <3>1
    <3>3. d[j] = a[j]
      BY <1>5, <2>1
    <3> QED BY <3>2, <3>3
  <2>2. CASE ~ (j <= m)
    <3>1. j + 1 \in 1..(m + 1 + n) /\ ~ (j < m + 1) /\ ~ (j + 1 <= m + 1) /\ (j + 1) - (m + 1) = j - m
      BY <2>2
    <3>2. e[j] = c[j + 1] /\ c[j + 1] = r[j - m]
      BY <1>4, <1>7, <3>1
    <3>3. d[j] = r[j - m]
      BY <1>5, <2>2
    <3> QED BY <3>2, <3>3
  <2> QED BY <2>1, <2>2
<1>9. e = d
  BY <1>5, <1>7, <1>8, SeqEqual
<1> QED BY <1>1, <1>6, <1>7, <1>9 DEF b, c, d

(* `drops` leaves the children whose key is a new one's, in their order: their
   keys are the survivors.  Every removal names a child. *)
LEMMA DroppedLands ==
  ASSUME NEW U, NEW ks \in Seq(U), NEW nk, NEW m \in Nat, m = Len(ks)
  PROVE  /\ \A i \in 0..m : Dropped(ks, nk)[i] \in Seq(U)
         /\ \A i \in 1..m : ks[m + 1 - i].key \notin Range(nk) =>
                              m + 1 - i \in 1..Len(Dropped(ks, nk)[i - 1])
         /\ Keys(Dropped(ks, nk)[m]) = Survivors(Keys(ks), nk)
         /\ Dropped(ks, nk)[m] \in Seq({ks[i] : i \in 1..m})
<1> DEFINE E == {ks[i] : i \in 1..m}
           ok == Keys(ks)
           ss == [i \in DOMAIN ok |-> IF ok[i] \in Range(nk) THEN <<ok[i]>> ELSE <<>>]
           J == Joined(ss)
           D == Dropped(ks, nk)
           Q == KeysOf(U)
<1>1. ok \in Seq(Q) /\ DOMAIN ok = 1..m /\ \A i \in 1..m : ok[i] = ks[i].key /\ ok[i] \in Q /\ ks[i] \in U
  <2>1. ok \in Seq(Q) /\ DOMAIN ok = 1..Len(ks) /\ \A i \in 1..Len(ks) : ok[i] = ks[i].key
    BY KeysIs
  <2>2. \A i \in 1..Len(ks) : ks[i] \in U
    OBVIOUS
  <2> HIDE DEF ok
  <2>3. \A i \in 1..Len(ks) : ok[i] \in Q
    BY <2>1, <2>2 DEF KeysOf
  <2> HIDE DEF Q
  <2> QED BY <2>1, <2>2, <2>3
<1>2. ss \in Seq(Seq(Q)) /\ Len(ss) = m /\ \A i \in 1..m : ss[i] = IF ok[i] \in Range(nk) THEN <<ok[i]>> ELSE <<>>
  <2> DEFINE a(i) == IF ok[i] \in Range(nk) THEN <<ok[i]>> ELSE <<>>
  <2>1. \A i \in 1..m : a(i) \in Seq(Q)
    BY <1>1
  <2>2. ss = [i \in 1..m |-> a(i)]
    BY <1>1
  <2> HIDE DEF a
  <2>3. ss \in Seq(Seq(Q)) /\ Len(ss) = m /\ \A i \in 1..m : ss[i] = a(i)
    <3> HIDE DEF ss
    <3>1. \A f : f = [i \in 1..m |-> a(i)] => f \in Seq(Seq(Q)) /\ Len(f) = m /\ \A i \in 1..m : f[i] = a(i)
      BY <2>1
    <3> QED BY <2>2, <3>1
  <2> QED BY <2>3 DEF a
<1>3. Survivors(ok, nk) = J[m]
  BY <1>2 DEF Survivors, Concat
<1> HIDE DEF ss, ok
<1>4. J[0] = <<>> /\ \A i \in 1..m : J[i] = J[i - 1] \o ss[i]
  BY <1>2, JoinedIs
<1>5. \A i \in 0..m : J[i] \in Seq(Q)
  BY <1>2, JoinedType
<1>6. D[0] = ks /\ \A i \in 1..m : D[i] = IF ks[m + 1 - i].key \in Range(nk) THEN D[i - 1]
                                          ELSE RemoveAt(D[i - 1], m + 1 - i)
  BY DroppedIs
<1> HIDE DEF J, D
<1> DEFINE Left(i, r) == /\ D[i] = SubSeq(ks, 1, m - i) \o r
                         /\ J[m - i] \o Keys(r) = J[m]
           S == {i \in 0..m : \E r \in Seq(E) : Left(i, r)}
<1>7. E \subseteq U /\ \A r \in Seq(E) : r \in Seq(U)
  BY <1>1
<1>8. 0 \in S
  <2>1. SubSeq(ks, 1, m - 0) = ks
    BY SubSeqFull
  <2>2. ks \o <<>> = ks /\ J[m] \o <<>> = J[m] /\ m - 0 = m
    BY <1>5, ConcatEmptySeq
  <2>3. Keys(<<>>) = <<>>
    BY DEF Keys
  <2>4. Left(0, <<>>)
    BY <1>6, <2>1, <2>2, <2>3
  <2>5. <<>> \in Seq(E)
    OBVIOUS
  <2> HIDE DEF Left, E
  <2>6. 0 \in 0..m
    OBVIOUS
  <2> QED BY <2>4, <2>5, <2>6
<1>9. ASSUME NEW i \in 0..(m - 1), NEW r \in Seq(E), Left(i, r)
      PROVE  /\ ks[m - i].key \notin Range(nk) => m - i \in 1..Len(D[i])
             /\ \E q \in Seq(E) : Left(i + 1, q)
  <2> DEFINE j == m - i
  <2>1. j \in 1..m /\ j - 1 \in 0..m /\ m + 1 - (i + 1) = j /\ m - (i + 1) = j - 1 /\ (i + 1) - 1 = i /\ i + 1 \in 1..m
    OBVIOUS
  <2>2. PICK a \in Seq(U) : a = SubSeq(ks, 1, j - 1) /\ Len(a) = j - 1
    <3>1. 1 \in 1..(Len(ks) + 1) /\ j - 1 \in (1 - 1)..Len(ks) /\ (j - 1) - 1 + 1 = j - 1
      BY <2>1
    <3>2. SubSeq(ks, 1, j - 1) \in Seq(U) /\ Len(SubSeq(ks, 1, j - 1)) = (j - 1) - 1 + 1
      BY <3>1, SubSeqIs
    <3> QED BY <3>1, <3>2
  <2>3. SubSeq(ks, 1, j) = a \o <<ks[j]>>
    <3>1. 1 \in 1..Len(ks) /\ j \in 1..Len(ks)
      BY <2>1
    <3> QED BY <2>2, <3>1, SubSeqRecursiveSecond
  <2>4. D[i] = (a \o <<ks[j]>>) \o r /\ J[j] \o Keys(r) = J[m] /\ J[j] = J[j - 1] \o ss[j]
    BY <1>4, <1>9, <2>1, <2>3
  <2>5. ks[j] \in U /\ ks[j] \in E /\ ok[j] = ks[j].key /\ ok[j] \in Q
    BY <1>1, <2>1
  <2>6. r \in Seq(U) /\ Keys(r) \in Seq(Q)
    BY <1>7, KeysIs
  <2>7. Len(a) + 1 \in 1..Len(D[i]) /\ RemoveAt(D[i], Len(a) + 1) = a \o r /\ Len(a) + 1 = j
    <3> DEFINE x == ks[j]
    <3>1. x \in U /\ D[i] = (a \o <<x>>) \o r
      BY <2>4, <2>5
    <3> HIDE DEF x, j
    <3>3. Len(a) + 1 \in 1..Len((a \o <<x>>) \o r) /\ RemoveAt((a \o <<x>>) \o r, Len(a) + 1) = a \o r
      <4>1. a \in Seq(U) /\ r \in Seq(U) /\ x \in U
        BY <2>2, <2>6, <3>1
      <4> QED BY ONLY <4>1, RemoveBetween, ZenonT(60)
    <3>2. Len(a) + 1 \in 1..Len(D[i]) /\ RemoveAt(D[i], Len(a) + 1) = a \o r
      BY ONLY <3>1, <3>3, Zenon
    <3> QED BY <2>1, <2>2, <3>2
  <2>8. D[i + 1] = IF ks[j].key \in Range(nk) THEN D[i] ELSE RemoveAt(D[i], j)
    BY <1>6, <2>1
  <2>9. ss[j] = IF ks[j].key \in Range(nk) THEN <<ks[j].key>> ELSE <<>>
    BY <1>2, <2>1, <2>5
  <2>10. J[j - 1] \in Seq(Q)
    BY <1>5, <2>1
  <2>11. CASE ks[j].key \in Range(nk)
    <3> DEFINE q == <<ks[j]>> \o r
    <3>1. q \in Seq(E)
      BY <2>5, SMTT(60)
    <3>2. D[i + 1] = a \o q
      <4>1. <<ks[j]>> \in Seq(U)
        BY <2>5
      <4>2. (a \o <<ks[j]>>) \o r = a \o (<<ks[j]>> \o r)
      <5> DEFINE c == <<ks[j]>>
      <5>1. a \in Seq(U) /\ c \in Seq(U) /\ r \in Seq(U)
        BY <2>2, <2>6, <4>1
      <5> HIDE DEF c
      <5>2. (a \o c) \o r = a \o (c \o r)
        BY ONLY <5>1, ConcatAssociative, SMTT(60)
      <5> QED BY <5>2 DEF c
      <4> QED BY <2>4, <2>8, <2>11, <4>2
    <3>3. Keys(q) = <<ks[j].key>> \o Keys(r)
      BY <2>5, <2>6, KeysCons
    <3>4. J[j - 1] \o Keys(q) = J[m]
      <4>1. <<ks[j].key>> \in Seq(Q)
        BY <2>5
      <4>2. (J[j - 1] \o <<ks[j].key>>) \o Keys(r) = J[j - 1] \o (<<ks[j].key>> \o Keys(r))
        <5> DEFINE b == J[j - 1]
                   c == <<ks[j].key>>
                   d == Keys(r)
        <5>1. b \in Seq(Q) /\ c \in Seq(Q) /\ d \in Seq(Q)
          BY <2>6, <2>10, <4>1
        <5> HIDE DEF b, c, d, Q
        <5>2. (b \o c) \o d = b \o (c \o d)
          BY ONLY <5>1, ConcatAssociative, SMTT(60)
        <5> QED BY <5>2 DEF b, c, d
      <4> QED BY <2>4, <2>9, <2>11, <3>3, <4>2
    <3> HIDE DEF q
    <3>5. Left(i + 1, q)
      BY <2>1, <2>2, <3>2, <3>4
    <3> HIDE DEF Left, E
    <3> QED BY <2>11, <3>1, <3>5
  <2>12. CASE ks[j].key \notin Range(nk)
    <3>1. D[i + 1] = a \o r
      BY <2>7, <2>8, <2>12
    <3>2. J[j] = J[j - 1]
      BY <2>4, <2>9, <2>10, <2>12, ConcatEmptySeq
    <3>3. Left(i + 1, r)
      BY <2>1, <2>2, <2>4, <3>1, <3>2
    <3>4. j \in 1..Len(D[i])
      BY <2>7
    <3> HIDE DEF Left, E
    <3> QED BY <3>3, <3>4
  <2> QED BY <2>11, <2>12
<1>10. \A i \in 0..m : i \in S
  <2>1. ASSUME NEW i \in 0..(m - 1), i \in S PROVE i + 1 \in S
    <3>1. PICK r \in Seq(E) : Left(i, r)
      BY <2>1
    <3> HIDE DEF Left, E
    <3>2. \E q \in Seq(E) : Left(i + 1, q)
      BY <1>9, <3>1
    <3> QED BY <3>2
  <2> HIDE DEF S
  <2> QED BY <1>8, <2>1, UpTo
<1>11. \A i \in 0..m : D[i] \in Seq(U)
  <2> SUFFICES ASSUME NEW i \in 0..m PROVE D[i] \in Seq(U)
    OBVIOUS
  <2>1. PICK r \in Seq(E) : D[i] = SubSeq(ks, 1, m - i) \o r
    BY <1>10
  <2>2. SubSeq(ks, 1, m - i) \in Seq(U)
    <3>1. 1 \in 1..(Len(ks) + 1) /\ m - i \in (1 - 1)..Len(ks)
      OBVIOUS
    <3> QED BY <3>1, SubSeqIs
  <2>3. r \in Seq(U)
    BY <1>7
  <2> QED BY <2>1, <2>2, <2>3, ConcatProperties
<1>12. ASSUME NEW i \in 1..m, ks[m + 1 - i].key \notin Range(nk)
       PROVE  m + 1 - i \in 1..Len(D[i - 1])
  <2>1. i - 1 \in 0..(m - 1) /\ i - 1 \in 0..m /\ m - (i - 1) = m + 1 - i
    OBVIOUS
  <2>2. PICK r \in Seq(E) : Left(i - 1, r)
    BY <1>10, <2>1
  <2>3. ks[m - (i - 1)].key \notin Range(nk) => m - (i - 1) \in 1..Len(D[i - 1])
    <3> HIDE DEF Left, E
    <3> QED BY <1>9, <2>1, <2>2
  <2> QED BY <1>12, <2>1, <2>3
<1>13. Keys(D[m]) = J[m] /\ D[m] \in Seq(E)
  <2>0. m \in S
    <3> HIDE DEF S
    <3> QED BY <1>10
  <2>1. PICK r \in Seq(E) : Left(m, r)
    BY <2>0
  <2>2. SubSeq(ks, 1, m - m) = <<>>
    BY SubSeqEmpty
  <2>3. r \in Seq(U) /\ Keys(r) \in Seq(Q)
    BY <1>7, KeysIs
  <2>4. <<>> \o r = r /\ <<>> \o Keys(r) = Keys(r)
    BY <2>3, ConcatEmptySeq
  <2>5. m - m = 0
    OBVIOUS
  <2>6. D[m] = r /\ Keys(r) = J[m]
    BY <1>4, <2>1, <2>2, <2>4, <2>5
  <2> QED BY <2>6
<1> QED BY <1>3, <1>11, <1>12, <1>13 DEF D, ok

-----------------------------------------------------------------------------
(* Ranges of sequences without duplicates, and the survivors of the drops *)

(* What is in a sequence is at one of its places. *)
LEMMA InRange ==
  ASSUME NEW S, NEW s \in Seq(S)
  PROVE  /\ DOMAIN s = 1..Len(s) /\ Len(s) \in Nat
         /\ \A x : x \in Range(s) <=> \E i \in 1..Len(s) : s[i] = x
         /\ IsInjective(s) <=> \A i, j \in 1..Len(s) : s[i] = s[j] => i = j
         /\ \A i \in 1..Len(s) : s[i] \in S
BY DEF Range, IsInjective

(* An insertion adds the new element and no duplicate. *)
LEMMA InsertRange ==
  ASSUME NEW S, NEW s \in Seq(S), NEW e \in S, NEW i \in 1..(Len(s) + 1)
  PROVE  /\ Range(InsertAt(s, i, e)) = Range(s) \cup {e}
         /\ IsInjective(s) /\ e \notin Range(s) => IsInjective(InsertAt(s, i, e))
<1> DEFINE z == InsertAt(s, i, e)
<1>1. PICK n \in Nat : n = Len(s)
  OBVIOUS
<1>2. z \in Seq(S) /\ Len(z) = n + 1
      /\ \A j \in 1..(n + 1) : z[j] = IF j < i THEN s[j] ELSE IF j = i THEN e ELSE s[j - 1]
  <2>1. z \in Seq(S) /\ Len(z) = Len(s) + 1
        /\ \A j \in 1..(Len(s) + 1) : z[j] = IF j < i THEN s[j] ELSE IF j = i THEN e ELSE s[j - 1]
    BY InsertAtIs
  <2> HIDE DEF z
  <2> QED BY <1>1, <2>1
<1> HIDE DEF z
<1>3. /\ \A x : x \in Range(s) <=> \E j \in 1..n : s[j] = x
      /\ IsInjective(s) <=> \A j, k \in 1..n : s[j] = s[k] => j = k
  BY <1>1, InRange
<1>4. /\ \A x : x \in Range(z) <=> \E j \in 1..(n + 1) : z[j] = x
      /\ IsInjective(z) <=> \A j, k \in 1..(n + 1) : z[j] = z[k] => j = k
  <2>1. /\ \A x : x \in Range(z) <=> \E j \in 1..Len(z) : z[j] = x
        /\ IsInjective(z) <=> \A j, k \in 1..Len(z) : z[j] = z[k] => j = k
    <3>1. z \in Seq(S)
      BY <1>2
    <3> QED BY ONLY <3>1, InRange
  <2> QED BY <1>2, <2>1
<1>5. i \in 1..(n + 1)
  BY <1>1
<1>6. /\ \A j \in 1..n : j < i => z[j] = s[j]
      /\ \A j \in 1..n : ~ (j < i) => z[j + 1] = s[j]
      /\ z[i] = e
  BY ONLY n \in Nat, <1>2, <1>5
<1>7. \A x : x \in Range(z) => x \in Range(s) \cup {e}
  <2> SUFFICES ASSUME NEW j \in 1..(n + 1), z[j] # e PROVE \E k \in 1..n : s[k] = z[j]
    BY <1>3, <1>4
  <2>1. j # i
    BY <1>6
  <2>2. (j < i /\ j \in 1..n) \/ (j > i /\ j - 1 \in 1..n /\ (j - 1) + 1 = j /\ ~ (j - 1 < i))
    BY <1>5, <2>1
  <2> QED BY <1>6, <2>2
<1>8. \A x \in Range(s) \cup {e} : x \in Range(z)
  <2>1. e \in Range(z)
    BY <1>4, <1>5, <1>6
  <2>2. ASSUME NEW j \in 1..n PROVE s[j] \in Range(z)
    <3>1. j \in 1..(n + 1) /\ j + 1 \in 1..(n + 1)
      OBVIOUS
    <3> QED BY <1>4, <1>6, <3>1
  <2> QED BY <1>3, <2>1, <2>2
<1>9. ASSUME IsInjective(s), e \notin Range(s) PROVE IsInjective(z)
  <2>1. \A j, k \in 1..n : s[j] = s[k] => j = k
    BY <1>3, <1>9
  <2>2. \A j \in 1..n : s[j] # e
    BY <1>3, <1>9
  <2>3. ASSUME NEW j \in 1..(n + 1)
        PROVE  \/ j = i /\ z[j] = e
               \/ j < i /\ j \in 1..n /\ z[j] = s[j]
               \/ j > i /\ j - 1 \in 1..n /\ z[j] = s[j - 1]
    <3>1. j = i \/ (j < i /\ j \in 1..n) \/ (j > i /\ j - 1 \in 1..n /\ ~ (j - 1 < i) /\ (j - 1) + 1 = j)
      BY <1>5
    <3> QED BY <1>6, <3>1
  <2>4. ASSUME NEW j \in 1..(n + 1), NEW k \in 1..(n + 1), z[j] = z[k] PROVE j = k
    <3>1. \/ j = i /\ z[j] = e
          \/ j < i /\ j \in 1..n /\ z[j] = s[j]
          \/ j > i /\ j - 1 \in 1..n /\ z[j] = s[j - 1]
      BY <2>3
    <3>2. \/ k = i /\ z[k] = e
          \/ k < i /\ k \in 1..n /\ z[k] = s[k]
          \/ k > i /\ k - 1 \in 1..n /\ z[k] = s[k - 1]
      BY <2>3
    <3>3. CASE j = i
      <4>1. z[j] = e
        BY <3>3, <1>6
      <4> QED BY <2>2, <2>4, <3>2, <3>3, <4>1
    <3>4. CASE k = i
      <4>1. z[k] = e
        BY <3>4, <1>6
      <4> QED BY <2>2, <2>4, <3>1, <3>4, <4>1
    <3>5. CASE j < i /\ k < i
      <4>1. j \in 1..n /\ z[j] = s[j] /\ k \in 1..n /\ z[k] = s[k]
        BY <1>5, <3>1, <3>2, <3>5
      <4> QED BY <2>1, <2>4, <4>1
    <3>6. CASE j < i /\ k > i
      <4>1. j \in 1..n /\ z[j] = s[j] /\ k - 1 \in 1..n /\ z[k] = s[k - 1] /\ j # k - 1
        BY <1>5, <3>1, <3>2, <3>6
      <4> QED BY <2>1, <2>4, <4>1
    <3>7. CASE j > i /\ k < i
      <4>1. j - 1 \in 1..n /\ z[j] = s[j - 1] /\ k \in 1..n /\ z[k] = s[k] /\ j - 1 # k
        BY <1>5, <3>1, <3>2, <3>7
      <4> QED BY <2>1, <2>4, <4>1
    <3>8. CASE j > i /\ k > i
      <4>1. j - 1 \in 1..n /\ z[j] = s[j - 1] /\ k - 1 \in 1..n /\ z[k] = s[k - 1]
        BY <1>5, <3>1, <3>2, <3>8
      <4>2. j - 1 = k - 1
        BY ONLY <2>1, <2>4, <4>1
      <4> QED BY <4>2
    <3> QED BY <1>5, <3>3, <3>4, <3>5, <3>6, <3>7, <3>8
  <2> QED BY <1>4, <2>4
<1> QED BY <1>7, <1>8, <1>9 DEF z

(* A move changes neither what is in a list nor how often. *)
LEMMA MoveRange ==
  ASSUME NEW S, NEW s \in Seq(S), NEW p \in 1..Len(s), NEW t \in 1..p
  PROVE  /\ Range(MoveTo(s, p, t)) = Range(s)
         /\ IsInjective(s) => IsInjective(MoveTo(s, p, t))
<1> DEFINE z == MoveTo(s, p, t)
<1>1. PICK n \in Nat : n = Len(s)
  OBVIOUS
<1>2. z \in Seq(S) /\ Len(z) = n
      /\ \A j \in 1..n : z[j] = IF j < t THEN s[j] ELSE IF j = t THEN s[p] ELSE IF j <= p THEN s[j - 1] ELSE s[j]
  <2>1. z \in Seq(S) /\ Len(z) = Len(s)
        /\ \A j \in 1..Len(s) : z[j] = IF j < t THEN s[j] ELSE IF j = t THEN s[p] ELSE IF j <= p THEN s[j - 1] ELSE s[j]
    BY MoveToIs
  <2> HIDE DEF z
  <2> QED BY <1>1, <2>1
<1> HIDE DEF z
<1>3. /\ \A x : x \in Range(s) <=> \E j \in 1..n : s[j] = x
      /\ IsInjective(s) <=> \A j, k \in 1..n : s[j] = s[k] => j = k
  BY <1>1, InRange
<1>4. /\ \A x : x \in Range(z) <=> \E j \in 1..n : z[j] = x
      /\ IsInjective(z) <=> \A j, k \in 1..n : z[j] = z[k] => j = k
  <2>1. /\ \A x : x \in Range(z) <=> \E j \in 1..Len(z) : z[j] = x
        /\ IsInjective(z) <=> \A j, k \in 1..Len(z) : z[j] = z[k] => j = k
    <3>1. z \in Seq(S)
      BY <1>2
    <3> QED BY ONLY <3>1, InRange
  <2> QED BY <1>2, <2>1
<1>5. p \in 1..n /\ t \in 1..p
  BY <1>1
<1>6. /\ \A j \in 1..n : j < t \/ j > p => z[j] = s[j]
      /\ \A j \in 1..n : t <= j /\ j < p => z[j + 1] = s[j]
      /\ z[t] = s[p]
  BY ONLY n \in Nat, <1>2, <1>5
<1>7. \A x : x \in Range(z) => x \in Range(s)
  <2> SUFFICES ASSUME NEW j \in 1..n PROVE \E k \in 1..n : s[k] = z[j]
    BY <1>3, <1>4
  <2>2. \/ j < t \/ j > p \/ j = t
        \/ j - 1 \in 1..n /\ (j - 1) + 1 = j /\ t <= j - 1 /\ j - 1 < p
    BY <1>5
  <2> QED BY <1>5, <1>6, <2>2
<1>8. \A x \in Range(s) : x \in Range(z)
  <2>2. ASSUME NEW j \in 1..n PROVE s[j] \in Range(z)
    <3>1. j < t \/ j > p \/ j = p \/ (t <= j /\ j < p /\ j + 1 \in 1..n)
      BY <1>5
    <3>2. t \in 1..n
      BY <1>5
    <3> QED BY <1>4, <1>6, <3>1, <3>2
  <2> QED BY <1>3, <2>2
<1>9. ASSUME IsInjective(s) PROVE IsInjective(z)
  <2>1. \A j, k \in 1..n : s[j] = s[k] => j = k
    BY <1>3, <1>9
  <2>3. ASSUME NEW j \in 1..n
        PROVE  \/ j = t /\ z[j] = s[p]
               \/ (j < t \/ j > p) /\ z[j] = s[j]
               \/ j > t /\ j <= p /\ j - 1 \in 1..n /\ z[j] = s[j - 1]
    <3>1. j = t \/ j < t \/ j > p \/ (j > t /\ j <= p /\ j - 1 \in 1..n /\ t <= j - 1 /\ j - 1 < p /\ (j - 1) + 1 = j)
      BY <1>5
    <3> QED BY <1>6, <3>1
  <2>4. ASSUME NEW j \in 1..n, NEW k \in 1..n, z[j] = z[k] PROVE j = k
    BY <1>5, <2>1, <2>3, <2>4
  <2> QED BY <1>4, <2>4
<1> QED BY <1>7, <1>8, <1>9 DEF z

(* A new element at the end adds no duplicate. *)
LEMMA ExtendInjective ==
  ASSUME NEW S, NEW s \in Seq(S), NEW x \in S
  PROVE  /\ s \o <<x>> \in Seq(S)
         /\ Range(s \o <<x>>) = Range(s) \cup {x}
         /\ IsInjective(s) /\ x \notin Range(s) => IsInjective(s \o <<x>>)
<1> DEFINE z == s \o <<x>>
<1>1. PICK n \in Nat : n = Len(s)
  OBVIOUS
<1>2. z \in Seq(S) /\ Len(z) = n + 1 /\ (\A i \in 1..n : z[i] = s[i]) /\ z[n + 1] = x
  <2>1. Append(s, x) \in Seq(S) /\ Len(Append(s, x)) = Len(s) + 1
        /\ (\A i \in 1..Len(s) : Append(s, x)[i] = s[i]) /\ Append(s, x)[Len(s) + 1] = x
    BY AppendProperties
  <2>2. z = Append(s, x)
    BY AppendIsConcat
  <2> HIDE DEF z
  <2> QED BY <1>1, <2>1, <2>2
<1> HIDE DEF z
<1>3. /\ \A y : y \in Range(s) <=> \E j \in 1..n : s[j] = y
      /\ IsInjective(s) <=> \A j, k \in 1..n : s[j] = s[k] => j = k
  BY <1>1, InRange
<1>4. /\ \A y : y \in Range(z) <=> \E j \in 1..(n + 1) : z[j] = y
      /\ IsInjective(z) <=> \A j, k \in 1..(n + 1) : z[j] = z[k] => j = k
  <2>1. /\ \A y : y \in Range(z) <=> \E j \in 1..Len(z) : z[j] = y
        /\ IsInjective(z) <=> \A j, k \in 1..Len(z) : z[j] = z[k] => j = k
    <3>1. z \in Seq(S)
      BY <1>2
    <3> QED BY ONLY <3>1, InRange
  <2> QED BY <1>2, <2>1
<1>5. \A j : j \in 1..(n + 1) <=> j \in 1..n \/ j = n + 1
  OBVIOUS
<1>6. Range(z) = Range(s) \cup {x}
  BY ONLY <1>2, <1>3, <1>4, <1>5
<1>7. IsInjective(s) /\ x \notin Range(s) => IsInjective(z)
  BY ONLY <1>2, <1>3, <1>4, <1>5
<1> QED BY <1>2, <1>6, <1>7 DEF z

(* The survivors are the old keys that are new ones too, each once *)
LEMMA SurvivorsAre ==
  ASSUME NEW Q, NEW ok \in Seq(Q), IsInjective(ok), NEW nk
  PROVE  /\ Survivors(ok, nk) \in Seq(Q) /\ IsInjective(Survivors(ok, nk))
         /\ Range(Survivors(ok, nk)) = Range(ok) \cap Range(nk)
<1> DEFINE ss == [i \in DOMAIN ok |-> IF ok[i] \in Range(nk) THEN <<ok[i]>> ELSE <<>>]
           J == Joined(ss)
<1>1. PICK m \in Nat : m = Len(ok)
  OBVIOUS
<1>2. DOMAIN ok = 1..m /\ \A i \in 1..m : ok[i] \in Q
  BY <1>1
<1>3. ss \in Seq(Seq(Q)) /\ Len(ss) = m /\ \A i \in 1..m : ss[i] = IF ok[i] \in Range(nk) THEN <<ok[i]>> ELSE <<>>
  <2> DEFINE a(i) == IF ok[i] \in Range(nk) THEN <<ok[i]>> ELSE <<>>
  <2>1. \A i \in 1..m : a(i) \in Seq(Q)
    BY <1>2
  <2>2. ss = [i \in 1..m |-> a(i)]
    BY <1>2
  <2> HIDE DEF a
  <2>3. ss \in Seq(Seq(Q)) /\ Len(ss) = m /\ \A i \in 1..m : ss[i] = a(i)
    <3> HIDE DEF ss
    <3>1. \A f : f = [i \in 1..m |-> a(i)] => f \in Seq(Seq(Q)) /\ Len(f) = m /\ \A i \in 1..m : f[i] = a(i)
      BY <2>1
    <3> QED BY <2>2, <3>1
  <2> QED BY <2>3 DEF a
<1>4. Survivors(ok, nk) = J[m]
  BY <1>3 DEF Survivors, Concat
<1> HIDE DEF ss
<1>5. J[0] = <<>> /\ \A i \in 1..m : J[i] = J[i - 1] \o ss[i]
  BY <1>3, JoinedIs
<1> HIDE DEF J
<1>6. \A x : x \in Range(ok) <=> \E i \in 1..m : ok[i] = x
  BY <1>1, InRange
<1>7. \A i, j \in 1..m : ok[i] = ok[j] => i = j
  BY <1>1, InRange
<1> DEFINE Good(i) == /\ J[i] \in Seq(Q) /\ IsInjective(J[i])
                      /\ Range(J[i]) = {ok[l] : l \in 1..i} \cap Range(nk)
           S == {i \in 0..m : Good(i)}
<1>8. 0 \in S
  <2>1. <<>> \in Seq(Q) /\ IsInjective(<<>>) /\ Range(<<>>) = {}
    BY DEF IsInjective, Range
  <2>2. {ok[l] : l \in 1..0} \cap Range(nk) = {}
    OBVIOUS
  <2>3. Good(0)
    BY <1>5, <2>1, <2>2
  <2> HIDE DEF Good
  <2> QED BY <2>3
<1>9. ASSUME NEW i \in 0..(m - 1), i \in S PROVE i + 1 \in S
  <2>1. i + 1 \in 1..m /\ (i + 1) - 1 = i /\ i + 1 \in 0..m
    OBVIOUS
  <2>2. Good(i)
    BY <1>9
  <2>3. J[i + 1] = J[i] \o ss[i + 1]
    BY <1>5, <2>1
  <2>4. ss[i + 1] = IF ok[i + 1] \in Range(nk) THEN <<ok[i + 1]>> ELSE <<>>
    BY <1>3, <2>1
  <2> DEFINE x == ok[i + 1]
             W == {ok[l] : l \in 1..i}
  <2>5. x \in Q
    BY <1>2, <2>1
  <2>6. {ok[l] : l \in 1..(i + 1)} = W \cup {x}
    <3>1. \A l : l \in 1..(i + 1) <=> l \in 1..i \/ l = i + 1
      OBVIOUS
    <3> QED BY <3>1
  <2>7. x \notin W
    BY <1>7, <2>1
  <2> HIDE DEF x, W
  <2>8. J[i] \in Seq(Q) /\ IsInjective(J[i]) /\ Range(J[i]) = W \cap Range(nk)
    BY <2>2 DEF W
  <2>9. CASE x \in Range(nk)
    <3>1. J[i + 1] = J[i] \o <<x>>
      BY <2>3, <2>4, <2>9 DEF x
    <3>2. /\ J[i] \o <<x>> \in Seq(Q) /\ Range(J[i] \o <<x>>) = Range(J[i]) \cup {x}
          /\ IsInjective(J[i] \o <<x>>)
      BY <2>5, <2>7, <2>8, ExtendInjective
    <3>3. J[i + 1] \in Seq(Q) /\ IsInjective(J[i + 1]) /\ Range(J[i + 1]) = (W \cup {x}) \cap Range(nk)
      BY <2>8, <2>9, <3>1, <3>2
    <3>4. Good(i + 1)
      BY <2>6, <3>3
    <3> HIDE DEF Good
    <3> QED BY <2>1, <3>4
  <2>10. CASE x \notin Range(nk)
    <3>1. J[i + 1] = J[i]
      BY <2>3, <2>4, <2>8, <2>10, ConcatEmptySeq DEF x
    <3>2. J[i + 1] \in Seq(Q) /\ IsInjective(J[i + 1]) /\ Range(J[i + 1]) = (W \cup {x}) \cap Range(nk)
      BY <2>8, <2>10, <3>1
    <3>4. Good(i + 1)
      BY <2>6, <3>2
    <3> HIDE DEF Good
    <3> QED BY <2>1, <3>4
  <2> QED BY <2>9, <2>10
<1>10. \A i \in 0..m : i \in S
  <2> HIDE DEF S
  <2> QED BY <1>8, <1>9, UpTo
<1>11. Good(m)
  <2>1. m \in S
    <3> HIDE DEF S
    <3> QED BY <1>10
  <2> QED BY <2>1
<1>12. {ok[l] : l \in 1..m} = Range(ok)
  BY <1>6
<1> QED BY <1>4, <1>11, <1>12

-----------------------------------------------------------------------------
(* The keys put in their places, left to right *)

(* The children as `place` arranges them, one op after another; the ones that
   are inserted are `fresh`. *)
Arranged(fresh, nk, stay) ==
  LET cur[i \in 0..Len(nk)] ==
        IF i = 0 THEN stay
        ELSE (IF Position(Keys(cur[i - 1]), nk[i]) = 0 THEN InsertAt(cur[i - 1], i, fresh[i])
              ELSE IF Position(Keys(cur[i - 1]), nk[i]) = i THEN cur[i - 1]
              ELSE MoveTo(cur[i - 1], Position(Keys(cur[i - 1]), nk[i]), i))
  IN  cur

(* Arranged, step by step *)
LEMMA ArrangedIs ==
  ASSUME NEW fresh, NEW nk, NEW stay, Len(nk) \in Nat
  PROVE  /\ Arranged(fresh, nk, stay)[0] = stay
         /\ \A i \in 1..Len(nk) : Arranged(fresh, nk, stay)[i] = (IF Position(Keys(Arranged(fresh, nk, stay)[i - 1]), nk[i]) = 0 THEN InsertAt(Arranged(fresh, nk, stay)[i - 1], i, fresh[i]) ELSE IF Position(Keys(Arranged(fresh, nk, stay)[i - 1]), nk[i]) = i THEN Arranged(fresh, nk, stay)[i - 1] ELSE MoveTo(Arranged(fresh, nk, stay)[i - 1], Position(Keys(Arranged(fresh, nk, stay)[i - 1]), nk[i]), i))
<1> DEFINE base == stay
           G(y, i) == (IF Position(Keys(y), nk[i]) = 0 THEN InsertAt(y, i, fresh[i]) ELSE IF Position(Keys(y), nk[i]) = i THEN y ELSE MoveTo(y, Position(Keys(y), nk[i]), i))
           Is(f, m) == f = [i \in 0..m |-> IF i = 0 THEN base ELSE G(f[i - 1], i)]
           S == {m \in Nat : \E f : Is(f, m)}
<1>1. 0 \in S
  <2> DEFINE g == [i \in 0..0 |-> base]
  <2>1. Is(g, 0)
    <3> HIDE DEF base, G
    <3> QED OBVIOUS
  <2> HIDE DEF g, Is
  <2> QED BY <2>1
<1>2. ASSUME NEW m \in Nat, m \in S PROVE m + 1 \in S
  <2>1. PICK f : Is(f, m)
    BY <1>2
  <2> DEFINE g == [i \in 0..(m + 1) |-> IF i <= m THEN f[i] ELSE G(f[m], m + 1)]
  <2>2. Is(g, m + 1)
    <3> HIDE DEF base, G
    <3> SUFFICES ASSUME NEW n \in 0..(m + 1)
                 PROVE  g[n] = IF n = 0 THEN base ELSE G(g[n - 1], n)
      OBVIOUS
    <3>1. CASE n = m + 1
      BY <3>1
    <3>2. CASE n \in 0..m
      BY <2>1, <3>2
    <3> QED BY <3>1, <3>2
  <2> HIDE DEF g, Is
  <2> QED BY <2>2
<1>3. \A n \in Nat : n \in S
  <2> HIDE DEF S
  <2> QED BY <1>1, <1>2, NatSets
<1>4. PICK n \in Nat : n = Len(nk)
  OBVIOUS
<1> DEFINE v == Arranged(fresh, nk, stay)
<1>5. v = [i \in 0..n |-> IF i = 0 THEN base ELSE G(v[i - 1], i)]
  <2> DEFINE P(f) == f = [i \in 0..n |-> IF i = 0 THEN base ELSE G(f[i - 1], i)]
  <2>1. \E f : P(f)
    BY <1>3
  <2>2. v = CHOOSE f : P(f)
    BY <1>4 DEF Arranged
  <2> HIDE DEF P, v
  <2>3. P(v)
    BY <2>1, <2>2, Zenon
  <2> QED BY <2>3 DEF P
<1>6. v[0] = base /\ \A i \in 1..n : v[i] = G(v[i - 1], i)
  <2> HIDE DEF v, base, G
  <2> QED BY ONLY <1>5, n \in Nat
<1> QED BY ONLY <1>4, <1>6


(* The keys of a list with a child inserted *)
LEMMA KeysInsert ==
  ASSUME NEW U, NEW ks \in Seq(U), NEW e \in U, NEW i \in 1..(Len(ks) + 1)
  PROVE  Keys(InsertAt(ks, i, e)) = InsertAt(Keys(ks), i, e.key)
<1> DEFINE z == InsertAt(ks, i, e)
           a == Keys(z)
           ok == Keys(ks)
           Q == KeysOf(U)
           b == InsertAt(ok, i, e.key)
<1>1. PICK n \in Nat : n = Len(ks)
  OBVIOUS
<1>2. z \in Seq(U) /\ Len(z) = n + 1
      /\ \A j \in 1..(n + 1) : z[j] = IF j < i THEN ks[j] ELSE IF j = i THEN e ELSE ks[j - 1]
  <2>1. z \in Seq(U) /\ Len(z) = Len(ks) + 1
        /\ \A j \in 1..(Len(ks) + 1) : z[j] = IF j < i THEN ks[j] ELSE IF j = i THEN e ELSE ks[j - 1]
    <3>1. ks \in Seq(U) /\ e \in U /\ i \in 1..(Len(ks) + 1)
      OBVIOUS
    <3> QED BY ONLY <3>1, InsertAtIs
  <2> HIDE DEF z
  <2> QED BY <1>1, <2>1
<1> HIDE DEF z
<1>3. ok \in Seq(Q) /\ Len(ok) = n /\ \A j \in 1..n : ok[j] = ks[j].key
  <2>1. ok \in Seq(Q) /\ Len(ok) = Len(ks) /\ \A j \in 1..Len(ks) : ok[j] = ks[j].key
    BY KeysIs
  <2> HIDE DEF ok, Q
  <2> QED BY <1>1, <2>1
<1>4. a \in Seq(Q) /\ Len(a) = n + 1 /\ \A j \in 1..(n + 1) : a[j] = z[j].key
  <2>1. z \in Seq(U)
    BY <1>2
  <2>2. a \in Seq(Q) /\ Len(a) = Len(z) /\ \A j \in 1..Len(z) : a[j] = z[j].key
    BY ONLY <2>1, KeysIs
  <2> HIDE DEF a, Q
  <2> QED BY <1>2, <2>2
<1>5. e.key \in Q
  BY DEF KeysOf
<1> HIDE DEF a, ok, Q
<1>6. b \in Seq(Q) /\ Len(b) = n + 1
      /\ \A j \in 1..(n + 1) : b[j] = IF j < i THEN ok[j] ELSE IF j = i THEN e.key ELSE ok[j - 1]
  <2> DEFINE k == e.key
  <2>1. ok \in Seq(Q) /\ k \in Q /\ i \in 1..(Len(ok) + 1)
    BY <1>1, <1>3, <1>5
  <2> HIDE DEF k
  <2>2. InsertAt(ok, i, k) \in Seq(Q) /\ Len(InsertAt(ok, i, k)) = Len(ok) + 1
        /\ \A j \in 1..(Len(ok) + 1) : InsertAt(ok, i, k)[j] = IF j < i THEN ok[j] ELSE IF j = i THEN k ELSE ok[j - 1]
    BY ONLY <2>1, InsertAtIs
  <2>3. InsertAt(ok, i, k) = b
    BY DEF k
  <2> HIDE DEF b
  <2>4. b \in Seq(Q) /\ Len(b) = n + 1
        /\ \A j \in 1..(n + 1) : b[j] = IF j < i THEN ok[j] ELSE IF j = i THEN k ELSE ok[j - 1]
    BY <1>3, <2>2, <2>3
  <2> QED BY <2>4 DEF k
<1> HIDE DEF b
<1>7. ASSUME NEW j \in 1..(n + 1) PROVE a[j] = b[j]
  <2>0. i \in 1..(n + 1)
    BY <1>1
  <2>1. CASE j < i
    <3>1. j \in 1..n
      BY <2>0, <2>1
    <3> QED BY <1>2, <1>3, <1>4, <1>6, <2>1, <3>1
  <2>2. CASE j = i
    BY <1>2, <1>4, <1>6, <2>2
  <2>3. CASE j > i
    <3>1. j - 1 \in 1..n /\ ~ (j < i) /\ j # i
      BY <2>0, <2>3
    <3>2. z[j] = ks[j - 1] /\ b[j] = ok[j - 1]
      BY <1>2, <1>6, <3>1
    <3>3. ok[j - 1] = ks[j - 1].key
      BY <1>3, <3>1
    <3> QED BY <1>4, <3>2, <3>3
  <2> QED BY <2>0, <2>1, <2>2, <2>3
<1>8. a = b
  <2>1. a \in Seq(Q) /\ b \in Seq(Q) /\ Len(a) = Len(b) /\ \A j \in 1..Len(a) : a[j] = b[j]
    BY <1>4, <1>6, <1>7
  <2> QED BY ONLY <2>1, SeqEqual
<1> QED BY <1>8 DEF a, b, z, ok

(* The keys of a list with a child moved *)
LEMMA KeysMove ==
  ASSUME NEW U, NEW ks \in Seq(U), NEW p \in 1..Len(ks), NEW t \in 1..p
  PROVE  Keys(MoveTo(ks, p, t)) = MoveTo(Keys(ks), p, t)
<1> DEFINE z == MoveTo(ks, p, t)
           a == Keys(z)
           ok == Keys(ks)
           Q == KeysOf(U)
           b == MoveTo(ok, p, t)
<1>1. PICK n \in Nat : n = Len(ks)
  OBVIOUS
<1>2. z \in Seq(U) /\ Len(z) = n
      /\ \A j \in 1..n : z[j] = IF j < t THEN ks[j] ELSE IF j = t THEN ks[p] ELSE IF j <= p THEN ks[j - 1] ELSE ks[j]
  <2>1. z \in Seq(U) /\ Len(z) = Len(ks)
      /\ \A j \in 1..Len(ks) : z[j] = IF j < t THEN ks[j] ELSE IF j = t THEN ks[p] ELSE IF j <= p THEN ks[j - 1] ELSE ks[j]
    BY MoveToIs
  <2> HIDE DEF z
  <2> QED BY <1>1, <2>1
<1> HIDE DEF z
<1>3. ok \in Seq(Q) /\ Len(ok) = n /\ \A j \in 1..n : ok[j] = ks[j].key
  <2>1. ok \in Seq(Q) /\ Len(ok) = Len(ks) /\ \A j \in 1..Len(ks) : ok[j] = ks[j].key
    BY KeysIs
  <2> HIDE DEF ok, Q
  <2> QED BY <1>1, <2>1
<1>4. a \in Seq(Q) /\ Len(a) = n /\ \A j \in 1..n : a[j] = z[j].key
  <2>1. z \in Seq(U)
    BY <1>2
  <2>2. a \in Seq(Q) /\ Len(a) = Len(z) /\ \A j \in 1..Len(z) : a[j] = z[j].key
    BY ONLY <2>1, KeysIs
  <2> HIDE DEF a, Q
  <2> QED BY <1>2, <2>2
<1> HIDE DEF a, ok, Q
<1>5. p \in 1..n /\ t \in 1..p
  BY <1>1
<1>6. b \in Seq(Q) /\ Len(b) = n
      /\ \A j \in 1..n : b[j] = IF j < t THEN ok[j] ELSE IF j = t THEN ok[p] ELSE IF j <= p THEN ok[j - 1] ELSE ok[j]
  <2>1. ok \in Seq(Q) /\ p \in 1..Len(ok) /\ t \in 1..p
    BY <1>3, <1>5
  <2>2. b \in Seq(Q) /\ Len(b) = Len(ok)
      /\ \A j \in 1..Len(ok) : b[j] = IF j < t THEN ok[j] ELSE IF j = t THEN ok[p] ELSE IF j <= p THEN ok[j - 1] ELSE ok[j]
    BY ONLY <2>1, MoveToIs
  <2> HIDE DEF b
  <2> QED BY <1>3, <2>2
<1> HIDE DEF b
<1>7. ASSUME NEW j \in 1..n PROVE a[j] = b[j]
  <2>1. CASE j < t \/ j > p
    <3>1. z[j] = ks[j] /\ b[j] = ok[j]
      BY <1>2, <1>5, <1>6, <2>1
    <3> QED BY <1>3, <1>4, <3>1
  <2>2. CASE j = t
    <3>1. z[j] = ks[p] /\ b[j] = ok[p]
      BY <1>2, <1>6, <2>2
    <3> QED BY <1>3, <1>4, <1>5, <3>1
  <2>3. CASE t < j /\ j <= p
    <3>1. j - 1 \in 1..n /\ ~ (j < t) /\ j # t
      BY <1>5, <2>3
    <3>2. z[j] = ks[j - 1] /\ b[j] = ok[j - 1]
      BY <1>2, <1>6, <2>3, <3>1
    <3>3. ok[j - 1] = ks[j - 1].key
      BY <1>3, <3>1
    <3> QED BY <1>4, <3>2, <3>3
  <2> QED BY <1>5, <2>1, <2>2, <2>3
<1>8. a = b
  <2>1. a \in Seq(Q) /\ b \in Seq(Q) /\ Len(a) = Len(b) /\ \A j \in 1..Len(a) : a[j] = b[j]
    BY <1>4, <1>6, <1>7
  <2> QED BY ONLY <2>1, SeqEqual
<1> QED BY <1>8 DEF a, b, z, ok

(* Where a key is in a list that has it at most once *)
LEMMA PositionCases ==
  ASSUME NEW Q, NEW c \in Seq(Q), IsInjective(c), NEW k
  PROVE  \/ Position(c, k) = 0 /\ k \notin Range(c)
         \/ Position(c, k) \in 1..Len(c) /\ c[Position(c, k)] = k
<1>1. CASE k \notin Range(c)
  BY <1>1, PositionIs
<1>2. CASE k \in Range(c)
  <2>1. PICK i \in 1..Len(c) : c[i] = k
    BY <1>2, InRange
  <2>2. Position(c, k) = i
    BY <2>1, PositionIs
  <2> QED BY <2>1, <2>2
<1> QED BY <1>1, <1>2

(* One key put in its place *)
KeyPlaced(c, t, k, e) ==
  IF Position(c, k) = 0 THEN InsertAt(c, t, e)
  ELSE IF Position(c, k) = t THEN c ELSE MoveTo(c, Position(c, k), t)

(* Once a key is in its place it stays there, whatever the later ones do:
   a key that is not yet placed is at t or right of it. *)
LEMMA StepLands ==
  ASSUME NEW Q, NEW c \in Seq(Q), IsInjective(c), NEW t \in 1..(Len(c) + 1), NEW k \in Q,
         \A i \in 1..(t - 1) : c[i] # k
  PROVE  /\ KeyPlaced(c, t, k, k) \in Seq(Q) /\ IsInjective(KeyPlaced(c, t, k, k))
         /\ Range(KeyPlaced(c, t, k, k)) = Range(c) \cup {k}
         /\ t \in 1..Len(KeyPlaced(c, t, k, k)) /\ KeyPlaced(c, t, k, k)[t] = k
         /\ \A i \in 1..(t - 1) : KeyPlaced(c, t, k, k)[i] = c[i]
         /\ Position(c, k) # 0 => Position(c, k) \in 1..Len(c) /\ t \in 1..Position(c, k)
<1> DEFINE d == KeyPlaced(c, t, k, k)
           p == Position(c, k)
<1>0. PICK n \in Nat : n = Len(c)
  OBVIOUS
<1>1. (p = 0 /\ k \notin Range(c)) \/ (p \in 1..n /\ c[p] = k)
  BY <1>0, PositionCases
<1>2. d = IF p = 0 THEN InsertAt(c, t, k) ELSE IF p = t THEN c ELSE MoveTo(c, p, t)
  BY DEF KeyPlaced
<1> HIDE DEF d, p
<1>3. t \in 1..(n + 1)
  BY <1>0
<1>4. CASE p = 0
  <2>1. k \notin Range(c)
    BY <1>1, <1>4
  <2> DEFINE z == InsertAt(c, t, k)
  <2>2. z \in Seq(Q) /\ Len(z) = Len(c) + 1
        /\ \A j \in 1..(Len(c) + 1) : z[j] = IF j < t THEN c[j] ELSE IF j = t THEN k ELSE c[j - 1]
    BY InsertAtIs
  <2>3. Range(z) = Range(c) \cup {k} /\ IsInjective(z)
    BY <2>1, InsertRange
  <2>4. d = z
    BY <1>2, <1>4
  <2> HIDE DEF z
  <2>5. t \in 1..Len(d) /\ d[t] = k /\ \A i \in 1..(t - 1) : d[i] = c[i]
    BY <1>0, <1>3, <2>2, <2>4
  <2> QED BY <1>4, <2>2, <2>3, <2>4, <2>5 DEF d, p
<1>5. CASE p # 0
  <2>1. p \in 1..n /\ c[p] = k
    BY <1>1, <1>5
  <2>2. t \in 1..p
    BY <1>3, <2>1
  <2>3. k \in Range(c)
    BY <1>0, <2>1, InRange
  <2>4. CASE p = t
    <3>1. d = c
      BY <1>2, <1>5, <2>4
    <3>2. Range(d) = Range(c) \cup {k}
      BY <2>3, <3>1
    <3> QED BY <1>0, <2>1, <2>2, <2>4, <3>1, <3>2 DEF d, p
  <2>5. CASE p # t
    <3> DEFINE z == MoveTo(c, p, t)
    <3>0. p \in 1..Len(c)
      BY <1>0, <2>1
    <3>1. z \in Seq(Q) /\ Len(z) = Len(c)
          /\ \A j \in 1..Len(c) : z[j] =
              IF j < t THEN c[j] ELSE IF j = t THEN c[p] ELSE IF j <= p THEN c[j - 1] ELSE c[j]
      BY <2>2, <3>0, MoveToIs
    <3>2. Range(z) = Range(c) /\ IsInjective(z)
      BY <2>2, <3>0, MoveRange
    <3>3. d = z
      BY <1>2, <1>5, <2>5
    <3> HIDE DEF z
    <3>4. t \in 1..Len(d) /\ d[t] = k /\ \A i \in 1..(t - 1) : d[i] = c[i]
      BY <1>0, <2>1, <2>2, <3>1, <3>3
    <3>5. Range(d) = Range(c) \cup {k}
      BY <2>3, <3>2, <3>3
    <3> QED BY <2>2, <3>0, <3>1, <3>2, <3>3, <3>4, <3>5 DEF d, p
  <2> QED BY <2>4, <2>5
<1> QED BY <1>4, <1>5

(* What `place` is given: the children that were kept, whose keys are new ones *)
Placeable(U, fresh, stay, nk, n) ==
  /\ fresh \in Seq(U) /\ stay \in Seq(U) /\ n = Len(fresh) /\ n \in Nat
  /\ nk = Keys(fresh) /\ IsInjective(nk) /\ IsInjective(Keys(stay))
  /\ Range(Keys(stay)) \subseteq Range(nk)

(* One child put in its place *)
ChildPlaced(a, t, k, e) ==
  IF Position(Keys(a), k) = 0 THEN InsertAt(a, t, e)
  ELSE IF Position(Keys(a), k) = t THEN a ELSE MoveTo(a, Position(Keys(a), k), t)

(* Putting one key after another in its place arranges the children by the new
   keys: a child that was kept is where its key is, and any other is a fresh
   one.  Every insertion and every move names places of the list as it is, and
   a move goes left. *)
LEMMA ArrangedLands ==
  ASSUME NEW U, NEW fresh, NEW stay, NEW nk, NEW n, Placeable(U, fresh, stay, nk, n)
  PROVE  /\ \A t \in 0..n : /\ Arranged(fresh, nk, stay)[t] \in Seq(U)
                            /\ Keys(Arranged(fresh, nk, stay)[t]) = Placed(nk, Keys(stay))[t]
                            /\ IsInjective(Placed(nk, Keys(stay))[t])
         /\ \A t \in 1..n :
              LET before == Arranged(fresh, nk, stay)[t - 1]
                  p == Position(Keys(before), nk[t])
              IN  IF p = 0 THEN t \in 1..(Len(before) + 1) ELSE p \in 1..Len(before) /\ t \in 1..p
         /\ Len(Arranged(fresh, nk, stay)[n]) = n
         /\ \A i \in 1..n :
              LET x == Arranged(fresh, nk, stay)[n][i]
              IN  IF nk[i] \in Range(Keys(stay)) THEN x \in Range(stay) /\ x.key = nk[i]
                                                 ELSE x = fresh[i]
<1> DEFINE A == Arranged(fresh, nk, stay)
           c == Placed(nk, Keys(stay))
           Q == KeysOf(U)
           kk == Keys(stay)
<1>0. /\ fresh \in Seq(U) /\ stay \in Seq(U) /\ n = Len(fresh) /\ n \in Nat
      /\ nk = Keys(fresh) /\ IsInjective(nk) /\ IsInjective(kk)
      /\ Range(kk) \subseteq Range(nk)
  BY DEF Placeable
<1> USE <1>0
<1>1. nk \in Seq(Q) /\ Len(nk) = n /\ \A i \in 1..n : nk[i] = fresh[i].key /\ fresh[i] \in U /\ nk[i] \in Q
  <2>1. nk \in Seq(Q) /\ Len(nk) = Len(fresh) /\ \A i \in 1..Len(fresh) : nk[i] = fresh[i].key
    BY KeysIs
  <2>2. \A i \in 1..Len(fresh) : fresh[i] \in U
    OBVIOUS
  <2> HIDE DEF Q
  <2>3. \A i \in 1..Len(nk) : nk[i] \in Q
    BY ONLY <2>1, InRange
  <2> QED BY <2>1, <2>2, <2>3
<1>2. kk \in Seq(Q)
  BY KeysIs
<1>3. \A i, j \in 1..n : nk[i] = nk[j] => i = j
  BY <1>1, InRange
<1>4. \A x : x \in Range(nk) <=> \E i \in 1..n : nk[i] = x
  BY <1>1, InRange
<1>5. A[0] = stay /\ \A t \in 1..n : A[t] = ChildPlaced(A[t - 1], t, nk[t], fresh[t])
  <2>1. A[0] = stay /\ \A t \in 1..Len(nk) : A[t] =
          (IF Position(Keys(A[t - 1]), nk[t]) = 0 THEN InsertAt(A[t - 1], t, fresh[t])
           ELSE IF Position(Keys(A[t - 1]), nk[t]) = t THEN A[t - 1]
           ELSE MoveTo(A[t - 1], Position(Keys(A[t - 1]), nk[t]), t))
    BY <1>1, ArrangedIs
  <2> HIDE DEF A
  <2> QED BY <1>1, <2>1 DEF ChildPlaced
<1>6. c[0] = kk /\ \A t \in 1..n : c[t] = KeyPlaced(c[t - 1], t, nk[t], nk[t])
  <2>1. c[0] = kk /\ \A t \in 1..Len(nk) : c[t] =
          LET before == c[t - 1]
              p == Position(before, nk[t])
          IN  IF p = 0 THEN InsertAt(before, t, nk[t])
              ELSE IF p = t THEN before ELSE MoveTo(before, p, t)
    BY <1>1, PlacedIs
  <2> HIDE DEF c
  <2> QED BY <1>1, <2>1 DEF KeyPlaced
<1> HIDE DEF A, c, Q
<1> DEFINE K(t) == /\ c[t] \in Seq(Q) /\ IsInjective(c[t]) /\ t \in 0..Len(c[t])
                   /\ Range(c[t]) \subseteq Range(nk)
                   /\ \A i \in 1..t : c[t][i] = nk[i]
           E(t) == /\ A[t] \in Seq(U) /\ Keys(A[t]) = c[t]
                   /\ \A x \in Range(A[t]) : \/ x \in Range(stay)
                                             \/ \E i \in 1..t : x = fresh[i] /\ nk[i] \notin Range(kk)
                   /\ Range(kk) \subseteq Range(c[t])
           S == {t \in 0..n : K(t) /\ E(t)}
<1>7. 0 \in S
  <2>1. K(0)
    BY <1>2, <1>6, InRange
  <2>2. E(0)
    BY <1>5, <1>6
  <2> HIDE DEF K, E
  <2> QED BY <2>1, <2>2
<1>8. ASSUME NEW t \in 0..(n - 1), K(t), E(t)
      PROVE  /\ K(t + 1) /\ E(t + 1)
             /\ LET p == Position(Keys(A[t]), nk[t + 1])
                IN  IF p = 0 THEN t + 1 \in 1..(Len(A[t]) + 1) ELSE p \in 1..Len(A[t]) /\ t + 1 \in 1..p
  <2> DEFINE a == A[t]
             b == c[t]
             u == t + 1
             k == nk[u]
             p == Position(b, k)
             f == fresh[u]
  <2>1. u \in 1..n /\ u - 1 = t /\ \A i \in 1..t : i \in 1..n /\ i # u
    OBVIOUS
  <2>2. A[u] = ChildPlaced(a, u, k, f) /\ c[u] = KeyPlaced(b, u, k, k) /\ k \in Q /\ f \in U /\ f.key = k
    BY <1>1, <1>5, <1>6, <2>1
  <2>3. b \in Seq(Q) /\ IsInjective(b) /\ t \in 0..Len(b) /\ Range(b) \subseteq Range(nk)
        /\ \A i \in 1..t : b[i] = nk[i]
    BY <1>8
  <2>4. a \in Seq(U) /\ Keys(a) = b /\ Len(a) = Len(b) /\ Len(b) \in Nat
    <3>1. a \in Seq(U) /\ Keys(a) = b
      BY <1>8
    <3> QED BY <3>1, KeysIs
  <2>5. /\ \A x \in Range(a) : x \in Range(stay) \/ \E i \in 1..t : x = fresh[i] /\ nk[i] \notin Range(kk)
        /\ Range(kk) \subseteq Range(b)
    BY <1>8
  <2>6. \A i \in 1..(u - 1) : b[i] # k
    BY <1>3, <2>1, <2>3
  <2>7. k \in Range(nk)
    BY <1>4, <2>1
  <2>k. u \in 1..(Len(b) + 1)
    BY <2>3, <2>4
  <2>m. A[u] = IF p = 0 THEN InsertAt(a, u, f) ELSE IF p = u THEN a ELSE MoveTo(a, p, u)
    BY <2>2, <2>4 DEF ChildPlaced
  <2>n. c[u] = IF p = 0 THEN InsertAt(b, u, k) ELSE IF p = u THEN b ELSE MoveTo(b, p, u)
    BY <2>2 DEF KeyPlaced
  <2>g. (p = 0 /\ k \notin Range(b)) \/ p # 0
    BY <2>3, PositionCases
  <2> HIDE DEF a, b, k, f
  <2>8. /\ KeyPlaced(b, u, k, k) \in Seq(Q) /\ IsInjective(KeyPlaced(b, u, k, k))
        /\ Range(KeyPlaced(b, u, k, k)) = Range(b) \cup {k}
        /\ u \in 1..Len(KeyPlaced(b, u, k, k)) /\ KeyPlaced(b, u, k, k)[u] = k
        /\ \A i \in 1..(u - 1) : KeyPlaced(b, u, k, k)[i] = b[i]
        /\ p # 0 => p \in 1..Len(b) /\ u \in 1..p
    <3> HIDE DEF u, p
    <3>1. b \in Seq(Q) /\ IsInjective(b) /\ u \in 1..(Len(b) + 1) /\ k \in Q /\ \A i \in 1..(u - 1) : b[i] # k
      BY <2>2, <2>3, <2>6, <2>k
    <3> QED BY ONLY <3>1, StepLands DEF p
  <2>9. /\ c[u] \in Seq(Q) /\ IsInjective(c[u]) /\ u \in 1..Len(c[u]) /\ c[u][u] = k
        /\ \A i \in 1..t : c[u][i] = b[i]
        /\ Range(c[u]) = Range(b) \cup {k}
    BY <2>1, <2>2, <2>8
  <2>10. K(t + 1)
    <3>1. \A i \in 1..u : c[u][i] = nk[i]
      <4>1. \A i \in 1..u : i \in 1..t \/ i = u
        OBVIOUS
      <4> QED BY <2>3, <2>9, <4>1 DEF k
    <3>2. Range(c[u]) \subseteq Range(nk)
      BY <2>3, <2>7, <2>9
    <3>3. u \in 0..Len(c[u])
      BY <2>9
    <3> QED BY <2>9, <3>1, <3>2, <3>3
  <2>11. CASE p = 0
    <3>1. u \in 1..(Len(a) + 1)
      BY <2>4, <2>k
    <3> HIDE DEF u, p
    <3>2. InsertAt(a, u, f) \in Seq(U)
      BY <2>2, <2>4, <3>1, InsertAtIs
    <3>3. Range(InsertAt(a, u, f)) = Range(a) \cup {f}
      BY <2>2, <2>4, <3>1, InsertRange
    <3>4. Keys(InsertAt(a, u, f)) = InsertAt(b, u, k)
      BY <2>2, <2>4, <3>1, KeysInsert
    <3>5. A[u] \in Seq(U) /\ Keys(A[u]) = c[u] /\ Range(A[u]) = Range(a) \cup {f}
      BY <2>11, <2>m, <2>n, <3>2, <3>3, <3>4
    <3>6. k \notin Range(kk)
      BY <2>5, <2>g, <2>11
    <3>7. \A x \in Range(A[u]) : x \in Range(stay) \/ \E i \in 1..u : x = fresh[i] /\ nk[i] \notin Range(kk)
      <4>1. \A i \in 1..t : i \in 1..u
        BY DEF u
      <4>2. u \in 1..u
        BY <2>1
      <4>3. f = fresh[u] /\ nk[u] \notin Range(kk)
        BY <3>6 DEF f, k
      <4> QED BY <2>5, <3>5, <4>1, <4>2, <4>3
    <3>8. E(u)
      BY <2>5, <2>9, <3>5, <3>7
    <3>9. E(t + 1)
      BY <3>8 DEF u
    <3> HIDE DEF K, E
    <3> QED BY <2>4, <2>10, <2>11, <3>1, <3>9 DEF a, k, u, p
  <2>12. CASE p # 0
    <3>1. p \in 1..Len(a) /\ u \in 1..p
      BY <2>4, <2>8, <2>12
    <3> HIDE DEF u, p
    <3>2. MoveTo(a, p, u) \in Seq(U)
      BY <2>4, <3>1, MoveToIs
    <3>3. Range(MoveTo(a, p, u)) = Range(a)
      BY <2>4, <3>1, MoveRange
    <3>4. Keys(MoveTo(a, p, u)) = MoveTo(b, p, u)
      BY <2>4, <3>1, KeysMove
    <3>5. A[u] \in Seq(U) /\ Keys(A[u]) = c[u] /\ Range(A[u]) = Range(a)
      BY <2>4, <2>12, <2>m, <2>n, <3>2, <3>3, <3>4
    <3>7. \A x \in Range(A[u]) : x \in Range(stay) \/ \E i \in 1..u : x = fresh[i] /\ nk[i] \notin Range(kk)
      <4>1. \A i \in 1..t : i \in 1..u
        BY DEF u
      <4> QED BY <2>5, <3>5, <4>1
    <3>8. E(u)
      BY <2>5, <2>9, <3>5, <3>7
    <3>9. E(t + 1)
      BY <3>8 DEF u
    <3> HIDE DEF K, E
    <3> QED BY <2>4, <2>10, <2>12, <3>1, <3>9 DEF a, k, u, p
  <2> QED BY <2>11, <2>12
<1>9. \A t \in 0..n : t \in S
  <2>1. ASSUME NEW t \in 0..(n - 1), t \in S PROVE t + 1 \in S
    <3>1. K(t) /\ E(t)
      BY <2>1
    <3> HIDE DEF K, E
    <3>2. K(t + 1) /\ E(t + 1)
      BY <1>8, <3>1
    <3>3. t + 1 \in 0..n
      OBVIOUS
    <3> QED BY <3>2, <3>3
  <2> HIDE DEF S
  <2> QED BY <1>7, <2>1, UpTo
<1>10. \A t \in 0..n : K(t) /\ E(t)
  <2> SUFFICES ASSUME NEW t \in 0..n PROVE K(t) /\ E(t)
    OBVIOUS
  <2>1. t \in S
    <3> HIDE DEF S
    <3> QED BY <1>9
  <2> HIDE DEF K, E
  <2> QED BY <2>1
<1>11. \A t \in 0..n : A[t] \in Seq(U) /\ Keys(A[t]) = c[t] /\ IsInjective(c[t])
  BY <1>10
<1>12. ASSUME NEW t \in 1..n
       PROVE  LET before == A[t - 1]
                  p == Position(Keys(before), nk[t])
              IN  IF p = 0 THEN t \in 1..(Len(before) + 1) ELSE p \in 1..Len(before) /\ t \in 1..p
  <2>1. PICK s \in 0..(n - 1) : s = t - 1 /\ t = s + 1 /\ s \in 0..n
    OBVIOUS
  <2>2. K(s) /\ E(s)
    <3> HIDE DEF K, E
    <3> QED BY <1>10, <2>1
  <2> HIDE DEF K, E
  <2>3. LET p == Position(Keys(A[s]), nk[s + 1])
        IN  IF p = 0 THEN s + 1 \in 1..(Len(A[s]) + 1) ELSE p \in 1..Len(A[s]) /\ s + 1 \in 1..p
    BY <1>8, <2>2
  <2>4. A[t - 1] = A[s] /\ nk[t] = nk[s + 1]
    BY <2>1
  <2> QED BY <2>1, <2>3, <2>4
<1>13. Len(A[n]) = n /\ \A i \in 1..n : A[n][i].key = nk[i]
  <2> DEFINE a == A[n]
             b == c[n]
  <2>1. a \in Seq(U) /\ Keys(a) = b /\ b \in Seq(Q) /\ IsInjective(b) /\ n \in 0..Len(b)
        /\ Range(b) \subseteq Range(nk) /\ \A i \in 1..n : b[i] = nk[i]
    <3>1. K(n) /\ E(n)
      <4> HIDE DEF K, E
      <4> QED BY <1>10
    <3> QED BY <3>1
  <2> HIDE DEF a, b
  <2>2. Len(b) = Len(a) /\ Len(a) \in Nat /\ \A i \in 1..Len(a) : b[i] = a[i].key
    BY <2>1, KeysIs
  <2>3. \A i, j \in 1..Len(b) : b[i] = b[j] => i = j
    BY <2>1, InRange
  <2>4. \A i \in 1..Len(b) : b[i] \in Range(b)
    BY <2>1, InRange
  <2>5. ~ (n < Len(b))
    <3> SUFFICES ASSUME n < Len(b) PROVE FALSE
      OBVIOUS
    <3>1. n + 1 \in 1..Len(b) /\ \A i \in 1..n : i \in 1..Len(b) /\ i # n + 1
      BY <2>2
    <3>2. PICK i \in 1..n : nk[i] = b[n + 1]
      BY <1>4, <2>1, <2>4, <3>1
    <3> QED BY <2>1, <2>3, <3>1, <3>2
  <2>6. Len(b) = n
    BY <2>1, <2>2, <2>5
  <2> QED BY <2>1, <2>2, <2>6 DEF a
<1>14. ASSUME NEW i \in 1..n
       PROVE  IF nk[i] \in Range(kk) THEN A[n][i] \in Range(stay) /\ A[n][i].key = nk[i]
                                     ELSE A[n][i] = fresh[i]
  <2> DEFINE x == A[n][i]
  <2>1. x.key = nk[i]
    BY <1>13
  <2>2. x \in Range(A[n])
    <3>1. A[n] \in Seq(U) /\ i \in 1..Len(A[n])
      BY <1>11, <1>13
    <3> QED BY <3>1, InRange
  <2>3. x \in Range(stay) \/ \E j \in 1..n : x = fresh[j] /\ nk[j] \notin Range(kk)
    <3>1. E(n)
      <4> HIDE DEF K, E
      <4> QED BY <1>10
    <3> QED BY <2>2, <3>1
  <2> HIDE DEF x
  <2>4. x \in Range(stay) => nk[i] \in Range(kk)
    <3> SUFFICES ASSUME NEW j \in 1..Len(stay), stay[j] = x PROVE nk[i] \in Range(kk)
      BY InRange
    <3>1. Len(kk) = Len(stay) /\ kk[j] = stay[j].key
      BY KeysIs
    <3> HIDE DEF kk
    <3>2. kk[j] \in Range(kk)
      BY <1>2, <3>1, InRange
    <3> QED BY <2>1, <3>1, <3>2
  <2>5. ASSUME NEW j \in 1..n, x = fresh[j], nk[j] \notin Range(kk) PROVE x = fresh[i] /\ nk[i] \notin Range(kk)
    <3>1. nk[j] = nk[i]
      BY <1>1, <2>1, <2>5
    <3>2. i = j
      BY <1>3, <3>1
    <3> QED BY <2>5, <3>2
  <2> HIDE DEF kk
  <2>6. IF nk[i] \in Range(kk) THEN x \in Range(stay) /\ x.key = nk[i] ELSE x = fresh[i]
    BY <2>1, <2>3, <2>4, <2>5
  <2> QED BY <2>6 DEF x
<1> QED BY <1>11, <1>12, <1>13, <1>14 DEF A, c

-----------------------------------------------------------------------------
(* Lists of patches, and ops on the children of one node *)

(* A list, whatever is in it *)
IsList(s) == s \in Seq(Range(s))

(* A sequence over any set is a list. *)
LEMMA IsListIs ==
  ASSUME NEW P, NEW s \in Seq(P)
  PROVE  IsList(s) /\ Range(s) \subseteq P
BY RangeOfSeq, SeqOfRange DEF IsList

(* Two lists make a list, and replay one after the other. *)
LEMMA IsListConcat ==
  ASSUME NEW s, NEW t, IsList(s), IsList(t)
  PROVE  /\ IsList(s \o t)
         /\ \A w : Apply(w, s \o t) = Apply(Apply(w, s), t)
<1> DEFINE P == Range(s) \cup Range(t)
<1>1. Range(s) \subseteq P /\ Range(t) \subseteq P
  OBVIOUS
<1>2. s \in Seq(Range(s)) /\ t \in Seq(Range(t))
  BY DEF IsList
<1> HIDE DEF P
<1>3. s \in Seq(P)
  BY ONLY <1>1, <1>2, SeqMonotonic
<1>4. t \in Seq(P)
  BY ONLY <1>1, <1>2, SeqMonotonic
<1>5. s \o t \in Seq(P)
  BY <1>3, <1>4, ConcatProperties
<1>6. IsList(s \o t)
  BY <1>5, IsListIs
<1>7. \A w : Apply(w, s \o t) = Apply(Apply(w, s), t)
  BY <1>3, <1>4, ApplyConcat
<1> QED BY <1>6, <1>7

(* No patch, or one, is a list. *)
LEMMA IsListSingle ==
  ASSUME NEW x
  PROVE  IsList(<<>>) /\ IsList(<<x>>)
<1>1. <<>> \in Seq({x}) /\ <<x>> \in Seq({x})
  OBVIOUS
<1> QED BY <1>1, IsListIs

(* A function over 1..n whose values are lists is a list of lists *)
LEMMA ListOfLists ==
  ASSUME NEW n \in Nat, NEW ss, ss = [i \in 1..n |-> ss[i]], \A i \in 1..n : IsList(ss[i])
  PROVE  \E P : ss \in Seq(Seq(P)) /\ Len(ss) = n
<1> DEFINE P == UNION {Range(ss[i]) : i \in 1..n}
<1>1. \A i \in 1..n : ss[i] \in Seq(Range(ss[i])) /\ Range(ss[i]) \subseteq P
  BY DEF IsList
<1> HIDE DEF P
<1>2. ASSUME NEW i \in 1..n PROVE ss[i] \in Seq(P)
  <2>1. PICK s : s = ss[i]
    OBVIOUS
  <2>2. s \in Seq(Range(s)) /\ Range(s) \subseteq P
    BY <1>1, <2>1
  <2>3. s \in Seq(P)
    BY ONLY <2>2, SeqMonotonic
  <2> QED BY <2>1, <2>3
<1>3. PICK Z : Z = Seq(P)
  OBVIOUS
<1>4. ss \in [1..n -> Z]
  BY <1>2, <1>3
<1>5. ss \in Seq(Z) /\ Len(ss) = n
  BY ONLY <1>4, n \in Nat
<1> QED BY <1>3, <1>5

(* Stages that each lead one step on lead all the way. *)
LEMMA StagesLand ==
  ASSUME NEW n \in Nat, NEW ss, ss = [i \in 1..n |-> ss[i]], \A i \in 1..n : IsList(ss[i]),
         NEW tr, \A i \in 1..n : Apply(tr[i - 1], ss[i]) = tr[i]
  PROVE  IsList(Concat(ss)) /\ Apply(tr[0], Concat(ss)) = tr[n]
<1>1. PICK P : ss \in Seq(Seq(P)) /\ Len(ss) = n
  BY ListOfLists
<1>2. Concat(ss) \in Seq(P) /\ Apply(tr[0], Concat(ss)) = tr[n]
  BY <1>1, ApplyStages
<1> QED BY <1>2, IsListIs

-----------------------------------------------------------------------------
(* The tree whose node at p has these children instead *)
Having(w, p, ks) == Put(w, p, Rekid(At(w, p), ks))

(* The node at p has those children. *)
LEMMA HavingIs ==
  ASSUME NEW w, NEW p \in Seq(Nat), Sound(w, p), HasKids(At(w, p)), NEW S, NEW ks \in Seq(S)
  PROVE  /\ Sound(Having(w, p, ks), p)
         /\ At(Having(w, p, ks), p) = Rekid(At(w, p), ks)
         /\ HasKids(At(Having(w, p, ks), p))
         /\ At(Having(w, p, ks), p).kids = ks
<1>1. At(Having(w, p, ks), p) = Rekid(At(w, p), ks) /\ Sound(Having(w, p, ks), p)
  BY AtPut DEF Having
<1>2. Rekid(At(w, p), ks).kids = ks /\ HasKids(Rekid(At(w, p), ks))
  BY SetKids
<1> QED BY <1>1, <1>2

(* The last of two lists of children stays. *)
LEMMA HavingTwice ==
  ASSUME NEW w, NEW p \in Seq(Nat), Sound(w, p), HasKids(At(w, p)), NEW S, NEW ks \in Seq(S), NEW js
  PROVE  Put(Having(w, p, ks), p, Rekid(At(Having(w, p, ks), p), js)) = Having(w, p, js)
<1>1. At(Having(w, p, ks), p) = Rekid(At(w, p), ks)
  BY HavingIs
<1>2. Rekid(Rekid(At(w, p), ks), js) = Rekid(At(w, p), js)
  BY SetKidsTwice
<1>3. Put(Having(w, p, ks), p, Rekid(At(w, p), js)) = Put(w, p, Rekid(At(w, p), js))
  BY PutPut DEF Having
<1> QED BY <1>1, <1>2, <1>3 DEF Having

(* The children there are change nothing. *)
LEMMA HavingSame ==
  ASSUME NEW w, NEW p \in Seq(Nat), Sound(w, p), HasKids(At(w, p))
  PROVE  Having(w, p, At(w, p).kids) = w
BY SetKidsToItself, PutAt DEF Having

(* One op on a list of children *)
LEMMA ListOp ==
  ASSUME NEW w, NEW p \in Seq(Nat), Sound(w, p), HasKids(At(w, p)), NEW S, NEW ks \in Seq(S),
         NEW op, op.op \in {"append", "truncate", "insert", "remove", "move"}
  PROVE  Apply(Having(w, p, ks), <<Patch(p, op)>>) = Having(w, p, KidsAfter(ks, op))
<1> DEFINE v == Having(w, p, ks)
<1>1. Sound(v, p) /\ At(v, p).kids = ks
  BY HavingIs
<1>2. Patch(p, op).path = p /\ Patch(p, op).op = op
  BY DEF Patch
<1>3. Apply(v, <<Patch(p, op)>>) = ApplyAt(v, p, op)
  BY <1>2, ApplyOne
<1>4. ApplyAt(v, p, op) = Put(v, p, ApplyOp(At(v, p), op))
  BY <1>1, SoundHasPath DEF ApplyAt
<1>5. ApplyOp(At(v, p), op) = Rekid(At(v, p), KidsAfter(ks, op))
  BY <1>1 DEF ApplyOp
<1>6. Put(v, p, Rekid(At(v, p), KidsAfter(ks, op))) = Having(w, p, KidsAfter(ks, op))
  BY HavingTwice
<1> QED BY <1>3, <1>4, <1>5, <1>6

(* One op on a node *)
LEMMA NodeOp ==
  ASSUME NEW w, NEW p \in Seq(Nat), Sound(w, p), NEW op
  PROVE  Apply(w, <<Patch(p, op)>>) = Put(w, p, ApplyOp(At(w, p), op))
<1>2. Patch(p, op).path = p /\ Patch(p, op).op = op
  BY DEF Patch
<1>3. Apply(w, <<Patch(p, op)>>) = ApplyAt(w, p, op)
  BY <1>2, ApplyOne
<1>4. ApplyAt(w, p, op) = Put(w, p, ApplyOp(At(w, p), op))
  BY SoundHasPath DEF ApplyAt
<1> QED BY <1>3, <1>4

(* One child replaced *)
LEMMA ChildPut ==
  ASSUME NEW w, NEW p \in Seq(Nat), Sound(w, p), HasKids(At(w, p)), NEW S, NEW ks \in Seq(S),
         NEW k \in 1..Len(ks), NEW z
  PROVE  /\ Append(p, k) \in Seq(Nat)
         /\ Sound(Having(w, p, ks), Append(p, k))
         /\ At(Having(w, p, ks), Append(p, k)) = ks[k]
         /\ Put(Having(w, p, ks), Append(p, k), z) = Having(w, p, [ks EXCEPT ![k] = z])
<1> DEFINE v == Having(w, p, ks)
<1>1. Sound(v, p) /\ At(v, p) = Rekid(At(w, p), ks) /\ HasKids(At(v, p)) /\ At(v, p).kids = ks
  BY HavingIs
<1>2. k \in Nat /\ k \in DOMAIN ks
  OBVIOUS
<1> HIDE DEF v
<1>3. Append(p, k) \in Seq(Nat) /\ Sound(v, Append(p, k))
  BY <1>1, SoundAppend
<1>4. At(v, Append(p, k)) = ks[k]
  BY <1>1, <1>2, WalkAppend
<1>5. Put(v, Append(p, k), z) = Put(v, p, WithKid(At(v, p), k, z))
  BY <1>2, PutAppend
<1>6. WithKid(Rekid(At(w, p), ks), k, z) = Rekid(At(w, p), [ks EXCEPT ![k] = z])
  BY <1>2, SetKidsThenKid
<1>7. Put(v, p, Rekid(At(w, p), [ks EXCEPT ![k] = z])) = Having(w, p, [ks EXCEPT ![k] = z])
  BY PutPut DEF v, Having
<1> QED BY <1>1, <1>3, <1>4, <1>5, <1>6, <1>7 DEF v

-----------------------------------------------------------------------------
(* Each structural pass leads where it should *)

(* The smaller and the greater of two numbers *)
LEMMA MinMaxIs ==
  /\ \A a, b \in Int : Min({a, b}) = IF a <= b THEN a ELSE b
  /\ \A a, b \in Int : Max({a, b}) = IF a >= b THEN a ELSE b
<1>1. ASSUME NEW a \in Int, NEW b \in Int PROVE Min({a, b}) = IF a <= b THEN a ELSE b
  BY DEF Min
<1>2. ASSUME NEW a \in Int, NEW b \in Int PROVE Max({a, b}) = IF a >= b THEN a ELSE b
  BY DEF Max
<1> QED BY <1>1, <1>2

(* The ops of a list of children, in the range where apply takes them as
   they are: its clamps and its refusals are then the identity. *)
LEMMA KidsAfterIs ==
  ASSUME NEW U, NEW ks \in Seq(U)
  PROVE  /\ \A ws : KidsAfter(ks, AppendKids(ws)) = ks \o ws
         /\ \A keep \in 0..Len(ks) : KidsAfter(ks, TruncateKids(keep)) = SubSeq(ks, 1, keep)
         /\ \A i \in 1..(Len(ks) + 1) : \A x : KidsAfter(ks, InsertKid(i, x)) = InsertAt(ks, i, x)
         /\ \A i \in 1..Len(ks) : KidsAfter(ks, RemoveKid(i)) = RemoveAt(ks, i)
         /\ \A i, j \in 1..Len(ks) : KidsAfter(ks, MoveKid(i, j)) = MoveTo(ks, i, j)
<1>0. PICK n \in Nat : n = Len(ks) /\ DOMAIN ks = 1..n
  OBVIOUS
<1>1. \A ws : KidsAfter(ks, AppendKids(ws)) = ks \o ws
  BY DEF KidsAfter, AppendKids
<1>2. ASSUME NEW keep \in 0..Len(ks) PROVE KidsAfter(ks, TruncateKids(keep)) = SubSeq(ks, 1, keep)
  <2>1. Min({keep, Len(ks)}) = keep
    BY <1>0, MinMaxIs
  <2> QED BY <2>1 DEF KidsAfter, TruncateKids
<1>3. ASSUME NEW i \in 1..(Len(ks) + 1), NEW x PROVE KidsAfter(ks, InsertKid(i, x)) = InsertAt(ks, i, x)
  <2>0. i \in Int /\ n + 1 \in Int /\ i <= n + 1 /\ 1 <= i /\ 1 \in Int
    BY <1>0
  <2>1. Min({i, Len(ks) + 1}) = i
    BY <1>0, <2>0, MinMaxIs
  <2>2. Max({1, i}) = i
    BY <2>0, MinMaxIs
  <2>3. KidsAfter(ks, InsertKid(i, x)) = InsertAt(ks, Max({1, Min({i, Len(ks) + 1})}), x)
    BY DEF KidsAfter, InsertKid
  <2> QED BY <2>1, <2>2, <2>3
<1>4. \A i \in 1..Len(ks) : KidsAfter(ks, RemoveKid(i)) = RemoveAt(ks, i)
  BY <1>0 DEF KidsAfter, RemoveKid
<1>5. \A i, j \in 1..Len(ks) : KidsAfter(ks, MoveKid(i, j)) = MoveTo(ks, i, j)
  BY <1>0 DEF KidsAfter, MoveKid
<1> QED BY <1>1, <1>2, <1>3, <1>4, <1>5

(* Which ops are about a list of children *)
LEMMA ListOps ==
  /\ \A i, x : InsertKid(i, x).op \in {"append", "truncate", "insert", "remove", "move"}
  /\ \A i : RemoveKid(i).op \in {"append", "truncate", "insert", "remove", "move"}
  /\ \A i, j : MoveKid(i, j).op \in {"append", "truncate", "insert", "remove", "move"}
  /\ \A ws : AppendKids(ws).op \in {"append", "truncate", "insert", "remove", "move"}
  /\ \A keep : TruncateKids(keep).op \in {"append", "truncate", "insert", "remove", "move"}
BY DEF InsertKid, RemoveKid, MoveKid, AppendKids, TruncateKids

(* The patches of `drops`, replayed, leave the survivors: each removal's
   index still names its child. *)
LEMMA DropsLand ==
  ASSUME NEW w, NEW p \in Seq(Nat), Sound(w, p), HasKids(At(w, p)),
         NEW U, NEW ks \in Seq(U), NEW nk, NEW m \in Nat, m = Len(ks)
  PROVE  /\ IsList(Drops(Keys(ks), nk, p))
         /\ Apply(Having(w, p, ks), Drops(Keys(ks), nk, p)) = Having(w, p, Dropped(ks, nk)[m])
<1> DEFINE ok == Keys(ks)
           D == Dropped(ks, nk)
           ss == [i \in DOMAIN ok |->
                    LET j == Len(ok) + 1 - i
                    IN  IF ok[j] \in Range(nk) THEN <<>> ELSE <<Patch(p, RemoveKid(j))>>]
           tr == [i \in 0..m |-> Having(w, p, D[i])]
<1>1. DOMAIN ok = 1..m /\ Len(ok) = m /\ \A i \in 1..m : ok[i] = ks[i].key
  BY KeysIs
<1>2. /\ \A i \in 0..m : D[i] \in Seq(U)
      /\ \A i \in 1..m : ks[m + 1 - i].key \notin Range(nk) => m + 1 - i \in 1..Len(D[i - 1])
  BY DroppedLands
<1>3. D[0] = ks /\ \A i \in 1..m : D[i] = IF ks[m + 1 - i].key \in Range(nk) THEN D[i - 1]
                                          ELSE RemoveAt(D[i - 1], m + 1 - i)
  BY DroppedIs
<1>4. Drops(ok, nk, p) = Concat(ss)
  BY DEF Drops
<1> HIDE DEF ok, D
<1>5. \A i \in 1..m : ss[i] = IF ks[m + 1 - i].key \in Range(nk) THEN <<>> ELSE <<Patch(p, RemoveKid(m + 1 - i))>>
  <2> SUFFICES ASSUME NEW i \in 1..m
               PROVE  ss[i] = IF ks[m + 1 - i].key \in Range(nk) THEN <<>> ELSE <<Patch(p, RemoveKid(m + 1 - i))>>
    OBVIOUS
  <2>1. m + 1 - i \in 1..m
    OBVIOUS
  <2>2. ok[m + 1 - i] = ks[m + 1 - i].key
    BY <1>1, <2>1
  <2> QED BY <1>1, <2>2
<1>6. ss = [i \in 1..m |-> ss[i]]
  BY <1>1
<1>7. \A i \in 0..m : tr[i] = Having(w, p, D[i])
  OBVIOUS
<1> HIDE DEF ss, tr
<1>8. ASSUME NEW i \in 1..m PROVE IsList(ss[i]) /\ Apply(tr[i - 1], ss[i]) = tr[i]
  <2> DEFINE j == m + 1 - i
             x == Patch(p, RemoveKid(j))
  <2>1. i - 1 \in 0..m /\ i \in 0..m
    OBVIOUS
  <2>2. tr[i - 1] = Having(w, p, D[i - 1]) /\ tr[i] = Having(w, p, D[i]) /\ D[i - 1] \in Seq(U)
    BY <1>2, <1>7, <2>1
  <2>3. CASE ks[j].key \in Range(nk)
    <3>1. ss[i] = <<>> /\ D[i] = D[i - 1]
      BY <1>3, <1>5, <2>3
    <3> QED BY <2>2, <3>1, ApplyNone, IsListSingle
  <2>4. CASE ks[j].key \notin Range(nk)
    <3>1. ss[i] = <<x>> /\ D[i] = RemoveAt(D[i - 1], j) /\ j \in 1..Len(D[i - 1])
      BY <1>2, <1>3, <1>5, <2>4
    <3> HIDE DEF j
    <3>2. KidsAfter(D[i - 1], RemoveKid(j)) = D[i]
      BY <2>2, <3>1, KidsAfterIs
    <3>3. Apply(Having(w, p, D[i - 1]), <<x>>) = Having(w, p, KidsAfter(D[i - 1], RemoveKid(j)))
      BY <2>2, ListOp, ListOps
    <3> HIDE DEF x
    <3>4. IsList(<<x>>)
      BY IsListSingle
    <3> QED BY <2>2, <3>1, <3>2, <3>3, <3>4
  <2> QED BY <2>3, <2>4
<1>9. IsList(Concat(ss)) /\ Apply(tr[0], Concat(ss)) = tr[m]
  BY ONLY m \in Nat, <1>6, <1>8, StagesLand
<1> QED BY <1>3, <1>4, <1>7, <1>9 DEF ok, D

(* The patches of `place`, replayed, arrange the children by the new keys. *)
LEMMA PlaceLands ==
  ASSUME NEW w, NEW p \in Seq(Nat), Sound(w, p), HasKids(At(w, p)),
         NEW U, NEW new, NEW stay, NEW nk, NEW n, Placeable(U, new, stay, nk, n)
  PROVE  /\ IsList(Place(new, nk, Keys(stay), p))
         /\ Apply(Having(w, p, stay), Place(new, nk, Keys(stay), p))
              = Having(w, p, Arranged(new, nk, stay)[n])
<1> DEFINE A == Arranged(new, nk, stay)
           c == Placed(nk, Keys(stay))
           ss == [t \in DOMAIN new |->
                LET q == Position(c[t - 1], nk[t])
                IN  IF q = 0 THEN <<Patch(p, InsertKid(t, new[t]))>>
                    ELSE IF q = t THEN <<>> ELSE <<Patch(p, MoveKid(q, t))>>]
           tr == [i \in 0..n |-> Having(w, p, A[i])]
<1>0. new \in Seq(U) /\ stay \in Seq(U) /\ nk = Keys(new) /\ n \in Nat /\ n = Len(new)
  BY DEF Placeable
<1> USE <1>0
<1>1. DOMAIN new = 1..n /\ Len(nk) = n
  BY <1>0, KeysIs
<1>2. /\ \A t \in 0..n : A[t] \in Seq(U) /\ Keys(A[t]) = c[t]
      /\ \A t \in 1..n :
              LET before == A[t - 1]
                  q == Position(Keys(before), nk[t])
              IN  IF q = 0 THEN t \in 1..(Len(before) + 1) ELSE q \in 1..Len(before) /\ t \in 1..q
  <2>2. \A t \in 0..n : A[t] \in Seq(U) /\ Keys(A[t]) = c[t]
    BY ArrangedLands
  <2>3. \A t \in 1..n :
              LET before == A[t - 1]
                  q == Position(Keys(before), nk[t])
              IN  IF q = 0 THEN t \in 1..(Len(before) + 1) ELSE q \in 1..Len(before) /\ t \in 1..q
    BY ArrangedLands
  <2> QED BY <2>2, <2>3
<1>3. A[0] = stay /\ \A t \in 1..n : A[t] =
          (IF Position(Keys(A[t - 1]), nk[t]) = 0 THEN InsertAt(A[t - 1], t, new[t])
           ELSE IF Position(Keys(A[t - 1]), nk[t]) = t THEN A[t - 1]
           ELSE MoveTo(A[t - 1], Position(Keys(A[t - 1]), nk[t]), t))
  <2>1. A[0] = stay /\ \A t \in 1..Len(nk) : A[t] =
          (IF Position(Keys(A[t - 1]), nk[t]) = 0 THEN InsertAt(A[t - 1], t, new[t])
           ELSE IF Position(Keys(A[t - 1]), nk[t]) = t THEN A[t - 1]
           ELSE MoveTo(A[t - 1], Position(Keys(A[t - 1]), nk[t]), t))
    BY <1>0, <1>1, ArrangedIs
  <2> HIDE DEF A
  <2> QED BY <1>1, <2>1
<1>4. Place(new, nk, Keys(stay), p) = Concat(ss)
  BY DEF Place
<1> HIDE DEF c, A
<1>5. \A t \in 1..n : ss[t] =
         LET q == Position(c[t - 1], nk[t])
         IN  IF q = 0 THEN <<Patch(p, InsertKid(t, new[t]))>>
             ELSE IF q = t THEN <<>> ELSE <<Patch(p, MoveKid(q, t))>>
  BY <1>1
<1>6. ss = [i \in 1..n |-> ss[i]]
  BY <1>1
<1>7. \A i \in 0..n : tr[i] = Having(w, p, A[i])
  OBVIOUS
<1> HIDE DEF ss, tr
<1>8. ASSUME NEW t \in 1..n PROVE IsList(ss[t]) /\ Apply(tr[t - 1], ss[t]) = tr[t]
  <2> DEFINE q == Position(c[t - 1], nk[t])
             x == Patch(p, InsertKid(t, new[t]))
             y == Patch(p, MoveKid(q, t))
             a == A[t - 1]
  <2>1. t - 1 \in 0..n /\ t \in 0..n
    OBVIOUS
  <2>2. tr[t - 1] = Having(w, p, a) /\ tr[t] = Having(w, p, A[t]) /\ a \in Seq(U) /\ Keys(a) = c[t - 1]
    BY <1>2, <1>7, <2>1
  <2>3. IF q = 0 THEN t \in 1..(Len(a) + 1) ELSE q \in 1..Len(a) /\ t \in 1..q
    BY <1>2, <2>2
  <2>4. A[t] = IF q = 0 THEN InsertAt(a, t, new[t]) ELSE IF q = t THEN a ELSE MoveTo(a, q, t)
    BY <1>3, <2>2
  <2>5. ss[t] = IF q = 0 THEN <<x>> ELSE IF q = t THEN <<>> ELSE <<y>>
    BY <1>5
  <2> HIDE DEF q, a
  <2>6. CASE q = 0
    <3>1. KidsAfter(a, InsertKid(t, new[t])) = A[t]
      BY <2>2, <2>3, <2>4, <2>6, KidsAfterIs
    <3>2. Apply(Having(w, p, a), <<x>>) = Having(w, p, KidsAfter(a, InsertKid(t, new[t])))
      BY <2>2, ListOp, ListOps
    <3> HIDE DEF x, y
    <3>3. IsList(<<x>>)
      BY IsListSingle
    <3> QED BY <2>2, <2>5, <2>6, <3>1, <3>2, <3>3
  <2>7. CASE q # 0 /\ q = t
    <3> HIDE DEF x, y
    <3> QED BY <2>2, <2>4, <2>5, <2>7, ApplyNone, IsListSingle
  <2>8. CASE q # 0 /\ q # t
    <3>0. q \in 1..Len(a) /\ t \in 1..Len(a)
      <4>1. Len(a) \in Nat
        BY <2>2
      <4> QED BY <2>3, <2>8, <4>1
    <3>1. KidsAfter(a, MoveKid(q, t)) = A[t]
      BY <2>2, <2>4, <2>8, <3>0, KidsAfterIs
    <3>2. Apply(Having(w, p, a), <<y>>) = Having(w, p, KidsAfter(a, MoveKid(q, t)))
      BY <2>2, ListOp, ListOps
    <3> HIDE DEF x, y
    <3>3. IsList(<<y>>)
      BY IsListSingle
    <3> QED BY <2>2, <2>5, <2>8, <3>1, <3>2, <3>3
  <2> QED BY <2>6, <2>7, <2>8
<1>9. IsList(Concat(ss)) /\ Apply(tr[0], Concat(ss)) = tr[n]
  BY ONLY n \in Nat, <1>6, <1>8, StagesLand
<1> QED BY <1>3, <1>4, <1>7, <1>9 DEF A

-----------------------------------------------------------------------------
(* Pairs of children patched in place, one after another *)

Lands(below, T) ==
  \A old, new \in T, path \in Seq(Nat) : \A w :
    Sound(w, path) /\ At(w, path) = old =>
      /\ IsList(below[<<old, new, path>>])
      /\ Apply(w, below[<<old, new, path>>]) = Put(w, path, new)

(* The first t of the children are the new ones *)
Mixed(ks, new, t) == [i \in 1..Len(ks) |-> IF i <= t THEN new[i] ELSE ks[i]]

(* Children of which the first n are patched in place, ss[i] being the patches of the i-th *)
InPlace(below, ks, new, p, n, ss) ==
  /\ n \in Nat /\ n <= Len(ks) /\ n <= Len(new)
  /\ ss = [i \in 1..n |-> ss[i]]
  /\ \A i \in 1..n : \/ ss[i] = below[<<ks[i], new[i], Append(p, i)>>]
                     \/ ss[i] = <<>> /\ ks[i] = new[i]

(* Children patched in place, left to right, become the new ones, and none
   of the patches disturbs another child. *)
LEMMA DescendLands ==
  ASSUME NEW T, NEW below, Lands(below, T),
         NEW w, NEW p \in Seq(Nat), Sound(w, p), HasKids(At(w, p)),
         NEW ks \in Seq(T), NEW new \in Seq(T), NEW n, NEW ss, InPlace(below, ks, new, p, n, ss)
  PROVE  IsList(Concat(ss)) /\ Apply(Having(w, p, ks), Concat(ss)) = Having(w, p, Mixed(ks, new, n))
<1>p1. n \in Nat /\ n <= Len(ks) /\ n <= Len(new)
  BY DEF InPlace
<1>p2. ss = [i \in 1..n |-> ss[i]]
  BY DEF InPlace
<1>p3. \A i \in 1..n :
                     \/ ss[i] = below[<<ks[i], new[i], Append(p, i)>>]
                     \/ ss[i] = <<>> /\ ks[i] = new[i]
  BY DEF InPlace
<1>p4. n \in Nat
  BY <1>p1
<1> USE <1>p4
<1> DEFINE M(t) == Mixed(ks, new, t)
           tr == [i \in 0..n |-> Having(w, p, M(i))]
<1>0. PICK m \in Nat : m = Len(ks) /\ n <= m
  BY <1>p1
<1>1. \A i \in 1..m : ks[i] \in T
  BY <1>0
<1>2. \A i \in 1..n : new[i] \in T
  BY <1>p1
<1>3. ASSUME NEW t \in 0..n
      PROVE  M(t) \in Seq(T) /\ Len(M(t)) = m /\ \A i \in 1..m : M(t)[i] = IF i <= t THEN new[i] ELSE ks[i]
  <2>1. M(t) = [i \in 1..m |-> IF i <= t THEN new[i] ELSE ks[i]]
    BY <1>0 DEF Mixed
  <2>2. \A i \in 1..m : (IF i <= t THEN new[i] ELSE ks[i]) \in T
    BY <1>0, <1>1, <1>2
  <2>3. M(t) \in [1..m -> T]
    BY <2>1, <2>2
  <2>4. \A i \in 1..m : M(t)[i] = IF i <= t THEN new[i] ELSE ks[i]
    BY <2>1
  <2> HIDE DEF M
  <2>5. M(t) \in Seq(T) /\ Len(M(t)) = m
    BY ONLY <2>3, m \in Nat
  <2> QED BY <2>4, <2>5
<1>4. M(0) = ks
  <2>1. M(0) \in Seq(T) /\ Len(M(0)) = m /\ \A i \in 1..m : M(0)[i] = ks[i]
    BY <1>0, <1>3
  <2> QED BY <1>0, <2>1, SeqEqual
<1>5. \A i \in 0..n : tr[i] = Having(w, p, M(i))
  OBVIOUS
<1> HIDE DEF tr
<1>6. ASSUME NEW t \in 1..n PROVE IsList(ss[t]) /\ Apply(tr[t - 1], ss[t]) = tr[t]
  <2>1. PICK u \in 0..n : u = t - 1
    OBVIOUS
  <2>2. t \in 0..n /\ t \in 1..m
    BY <1>0
  <2> DEFINE a == M(u)
             b == M(t)
  <2>3. a \in Seq(T) /\ Len(a) = m /\ \A i \in 1..m : a[i] = IF i <= u THEN new[i] ELSE ks[i]
    BY <1>3
  <2>4. b \in Seq(T) /\ Len(b) = m /\ \A i \in 1..m : b[i] = IF i <= t THEN new[i] ELSE ks[i]
    BY <1>3, <2>2
  <2>5. tr[t - 1] = Having(w, p, a) /\ tr[t] = Having(w, p, b)
    BY <1>5, <2>1, <2>2
  <2> HIDE DEF a, b
  <2>6. a[t] = ks[t] /\ b[t] = new[t] /\ ks[t] \in T /\ new[t] \in T
    BY <1>1, <1>2, <2>1, <2>2, <2>3, <2>4
  <2>7. [a EXCEPT ![t] = new[t]] = b
    <3>1. [a EXCEPT ![t] = new[t]] \in Seq(T) /\ Len([a EXCEPT ![t] = new[t]]) = m
          /\ \A j \in 1..m : [a EXCEPT ![t] = new[t]][j] = IF j = t THEN new[t] ELSE a[j]
      BY <2>2, <2>3, <2>6, ExceptSeq
    <3> DEFINE d == [a EXCEPT ![t] = new[t]]
    <3> HIDE DEF d
    <3>2. \A j \in 1..m : d[j] = b[j]
      <4> SUFFICES ASSUME NEW j \in 1..m PROVE d[j] = b[j]
        OBVIOUS
      <4>1. d[j] = IF j = t THEN new[t] ELSE a[j]
        BY <3>1 DEF d
      <4>2. CASE j = t
        BY <2>6, <4>1, <4>2
      <4>3. CASE j # t
        <5>1. d[j] = a[j]
          BY <4>1, <4>3
        <5>2. (j <= u) <=> (j <= t)
          BY <2>1, <4>3
        <5> QED BY <2>3, <2>4, <5>1, <5>2
      <4> QED BY <4>2, <4>3
    <3>3. d \in Seq(T) /\ Len(d) = m
      BY <3>1 DEF d
    <3>4. d = b
      BY <2>4, <3>2, <3>3, SeqEqual
    <3> QED BY <3>4 DEF d
  <2>8. CASE ss[t] = below[<<ks[t], new[t], Append(p, t)>>]
    <3> DEFINE v == Having(w, p, a)
               q == Append(p, t)
    <3>1. /\ q \in Seq(Nat) /\ Sound(v, q) /\ At(v, q) = ks[t]
          /\ Put(v, q, new[t]) = Having(w, p, [a EXCEPT ![t] = new[t]])
      <4>1. t \in 1..Len(a)
        BY <2>2, <2>3
      <4>2. a \in Seq(T) /\ p \in Seq(Nat) /\ Sound(w, p) /\ HasKids(At(w, p))
        BY <2>3
      <4>3. PICK z : z = new[t]
        OBVIOUS
      <4>4. /\ Append(p, t) \in Seq(Nat) /\ Sound(Having(w, p, a), Append(p, t))
            /\ At(Having(w, p, a), Append(p, t)) = a[t]
            /\ Put(Having(w, p, a), Append(p, t), z) = Having(w, p, [a EXCEPT ![t] = z])
        BY <4>1, <4>2, ChildPut
      <4> QED BY <2>6, <4>3, <4>4
    <3> HIDE DEF v, q
    <3>2. IsList(below[<<ks[t], new[t], q>>]) /\ Apply(v, below[<<ks[t], new[t], q>>]) = Put(v, q, new[t])
      BY <2>6, <3>1 DEF Lands
    <3> QED BY <2>5, <2>7, <2>8, <3>1, <3>2 DEF v, q
  <2>9. CASE ss[t] = <<>> /\ ks[t] = new[t]
    <3>1. a = b
      <4>1. \A j \in 1..m : a[j] = b[j]
        <5> SUFFICES ASSUME NEW j \in 1..m PROVE a[j] = b[j]
          OBVIOUS
        <5>1. CASE j = t
          BY <2>6, <2>9, <5>1
        <5>2. CASE j # t
          <6>1. (j <= u) <=> (j <= t)
            BY <2>1, <5>2
          <6> QED BY <2>3, <2>4, <6>1
        <5> QED BY <5>1, <5>2
      <4> QED BY <2>3, <2>4, <4>1, SeqEqual
    <3> QED BY <2>5, <2>9, <3>1, ApplyNone, IsListSingle
  <2> QED BY <1>p3, <2>8, <2>9
<1>7. IsList(Concat(ss)) /\ Apply(tr[0], Concat(ss)) = tr[n]
  BY ONLY <1>p4, <1>p2, <1>6, StagesLand
<1>8. tr[0] = Having(w, p, ks) /\ tr[n] = Having(w, p, Mixed(ks, new, n))
  <2>1. tr[0] = Having(w, p, M(0)) /\ tr[n] = Having(w, p, M(n))
    <3> HIDE DEF M
    <3> QED BY <1>5
  <2> QED BY <1>4, <2>1
<1> QED BY <1>7, <1>8

(* What such a list has at each place *)
LEMMA MixedIs ==
  ASSUME NEW T, NEW ks \in Seq(T), NEW new \in Seq(T), NEW n \in Nat, n <= Len(ks), n <= Len(new)
  PROVE  /\ Mixed(ks, new, n) \in Seq(T) /\ Len(Mixed(ks, new, n)) = Len(ks)
         /\ \A i \in 1..Len(ks) : Mixed(ks, new, n)[i] = IF i <= n THEN new[i] ELSE ks[i]
<1>1. PICK m \in Nat : m = Len(ks) /\ n <= m
  OBVIOUS
<1>2. Mixed(ks, new, n) = [i \in 1..m |-> IF i <= n THEN new[i] ELSE ks[i]]
  BY <1>1 DEF Mixed
<1>3. \A i \in 1..m : (IF i <= n THEN new[i] ELSE ks[i]) \in T
  BY <1>1
<1>4. Mixed(ks, new, n) \in [1..m -> T]
  BY <1>2, <1>3
<1>5. Mixed(ks, new, n) \in Seq(T) /\ Len(Mixed(ks, new, n)) = m
  BY ONLY <1>4, m \in Nat
<1>6. \A i \in 1..m : Mixed(ks, new, n)[i] = IF i <= n THEN new[i] ELSE ks[i]
  BY <1>2
<1> QED BY <1>1, <1>5, <1>6

(* diff_indexed: replayed on the old children its patches give the new ones. *)
LEMMA DiffIndexedLands ==
  ASSUME NEW T, NEW below, Lands(below, T),
         NEW w, NEW p \in Seq(Nat), Sound(w, p), HasKids(At(w, p)),
         NEW old \in Seq(T), NEW new \in Seq(T)
  PROVE  /\ IsList(DiffIndexed(below, old, new, p))
         /\ Apply(Having(w, p, old), DiffIndexed(below, old, new, p)) = Having(w, p, new)
<1>1. PICK m \in Nat : m = Len(old)
  OBVIOUS
<1>2. PICK n \in Nat : n = Len(new)
  OBVIOUS
<1>3. PICK c \in Nat : c = IF m < n THEN m ELSE n
  OBVIOUS
<1> DEFINE ss == [i \in 1..c |-> below[<<old[i], new[i], Append(p, i)>>]]
           x == Patch(p, AppendKids(Drop(new, c)))
           y == Patch(p, TruncateKids(c))
           tail == IF n > c THEN <<x>> ELSE IF m > c THEN <<y>> ELSE <<>>
           ks == Mixed(old, new, c)
           mid == Having(w, p, ks)
<1>4. DiffIndexed(below, old, new, p) = Concat(ss) \o tail
  BY <1>1, <1>2, <1>3 DEF DiffIndexed
<1>5. c <= m /\ c <= n /\ (c = m \/ c = n)
  BY <1>3
<1>6. ks \in Seq(T) /\ Len(ks) = m /\ \A i \in 1..m : ks[i] = IF i <= c THEN new[i] ELSE old[i]
  BY <1>1, <1>2, <1>5, MixedIs
<1>7. IsList(Concat(ss)) /\ Apply(Having(w, p, old), Concat(ss)) = mid
  <2>1. ss = [i \in 1..c |-> ss[i]]
    OBVIOUS
  <2>2. \A i \in 1..c : ss[i] = below[<<old[i], new[i], Append(p, i)>>]
    OBVIOUS
  <2>3. c <= Len(old) /\ c <= Len(new)
    BY <1>1, <1>2, <1>5
  <2> HIDE DEF ss
  <2>4. InPlace(below, old, new, p, c, ss)
    BY <2>1, <2>2, <2>3 DEF InPlace
  <2> HIDE DEF ks
  <2>5. IsList(Concat(ss)) /\ Apply(Having(w, p, old), Concat(ss)) = Having(w, p, Mixed(old, new, c))
    BY <2>4, DescendLands
  <2> QED BY <2>5 DEF ks
<1> HIDE DEF ss, ks, x, y
<1>8. IsList(tail)
  BY IsListSingle
<1>9. Apply(mid, tail) = Having(w, p, new)
  <2>1. CASE n > c
    <3>1. c = m /\ tail = <<x>>
      BY <1>5, <2>1
    <3>2. Apply(mid, <<x>>) = Having(w, p, KidsAfter(ks, AppendKids(Drop(new, c))))
      BY <1>6, ListOp, ListOps DEF x
    <3>3. KidsAfter(ks, AppendKids(Drop(new, c))) = ks \o Drop(new, c)
      BY <1>6, KidsAfterIs
    <3>4. ks = SubSeq(new, 1, c)
      <4>1. 1 \in 1..(Len(new) + 1) /\ c \in (1 - 1)..Len(new)
        BY <1>2, <2>1
      <4>2. SubSeq(new, 1, c) \in Seq(T) /\ Len(SubSeq(new, 1, c)) = c - 1 + 1
            /\ \A j \in 1..(c - 1 + 1) : SubSeq(new, 1, c)[j] = new[1 + j - 1]
        BY <4>1, SubSeqIs
      <4>3. \A j \in 1..c : ks[j] = new[j]
        BY <1>6, <3>1
      <4>4. PICK d : d = SubSeq(new, 1, c)
        OBVIOUS
      <4>5. d \in Seq(T) /\ Len(d) = c /\ \A j \in 1..c : d[j] = new[j]
        BY <4>2, <4>4
      <4>6. ks = d
        BY <1>6, <3>1, <4>3, <4>5, SeqEqual
      <4> QED BY <4>4, <4>6
    <3>5. SubSeq(new, 1, c) \o SubSeq(new, c + 1, n) = new
      <4>1. 1 \in 1..(Len(new) + 1) /\ c \in (1 - 1)..Len(new) /\ n \in c..Len(new)
        BY <1>2, <2>1
      <4>2. SubSeq(new, 1, c) \o SubSeq(new, c + 1, n) = SubSeq(new, 1, n)
        BY <4>1, ConcatAdjacentSubSeq
      <4> QED BY <1>2, <4>2, SubSeqFull
    <3>6. Drop(new, c) = SubSeq(new, c + 1, n)
      BY <1>2 DEF Drop
    <3> QED BY <3>1, <3>2, <3>3, <3>4, <3>5, <3>6
  <2>2. CASE ~ (n > c) /\ m > c
    <3>1. c = n /\ tail = <<y>>
      BY <1>5, <2>2
    <3>2. Apply(mid, <<y>>) = Having(w, p, KidsAfter(ks, TruncateKids(c)))
      BY <1>6, ListOp, ListOps DEF y
    <3>3. KidsAfter(ks, TruncateKids(c)) = SubSeq(ks, 1, c)
      <4>1. c \in 0..Len(ks)
        BY <1>5, <1>6
      <4>2. PICK z \in Seq(T) : z = ks
        BY <1>6
      <4>3. \A keep \in 0..Len(z) : KidsAfter(z, TruncateKids(keep)) = SubSeq(z, 1, keep)
        BY KidsAfterIs
      <4> QED BY ONLY <4>1, <4>2, <4>3
    <3>4. SubSeq(ks, 1, c) = new
      <4>1. 1 \in 1..(Len(ks) + 1) /\ c \in (1 - 1)..Len(ks)
        BY <1>6, <2>2
      <4>2. SubSeq(ks, 1, c) \in Seq(T) /\ Len(SubSeq(ks, 1, c)) = c - 1 + 1
            /\ \A j \in 1..(c - 1 + 1) : SubSeq(ks, 1, c)[j] = ks[1 + j - 1]
        BY <1>6, <4>1, SubSeqIs
      <4>3. \A j \in 1..c : ks[j] = new[j]
        BY <1>6, <2>2
      <4>4. PICK d : d = SubSeq(ks, 1, c)
        OBVIOUS
      <4>5. d \in Seq(T) /\ Len(d) = c /\ \A j \in 1..c : d[j] = new[j]
        BY <4>2, <4>3, <4>4
      <4>6. new = d
        BY <1>2, <3>1, <4>5, SeqEqual
      <4> QED BY <4>4, <4>6
    <3> QED BY <3>1, <3>2, <3>3, <3>4
  <2>3. CASE ~ (n > c) /\ ~ (m > c)
    <3>1. n = c /\ m = c /\ tail = <<>>
      BY <1>5, <2>3
    <3>2. ks = new
      <4>1. \A j \in 1..c : ks[j] = new[j]
        BY <1>6, <3>1
      <4> QED BY <1>2, <1>6, <3>1, <4>1, SeqEqual
    <3> QED BY <3>1, <3>2, ApplyNone
  <2> QED BY <2>1, <2>2, <2>3
<1> HIDE DEF tail, mid
<1>10. /\ IsList(Concat(ss) \o tail)
       /\ Apply(Having(w, p, old), Concat(ss) \o tail) = Apply(Apply(Having(w, p, old), Concat(ss)), tail)
  BY <1>7, <1>8, IsListConcat
<1> QED BY <1>4, <1>7, <1>9, <1>10

(* diff_keyed: replayed on the old children its patches give the new ones. *)
LEMMA DiffKeyedLands ==
  ASSUME NEW T, NEW below, Lands(below, T),
         NEW w, NEW p \in Seq(Nat), Sound(w, p), HasKids(At(w, p)),
         NEW old \in Seq(T), NEW new \in Seq(T), Keyed(old), Keyed(new)
  PROVE  /\ IsList(DiffKeyed(below, old, new, p))
         /\ Apply(Having(w, p, old), DiffKeyed(below, old, new, p)) = Having(w, p, new)
<1> DEFINE ok == Keys(old)
           nk == Keys(new)
           Q == KeysOf(T)
<1>1. PICK m \in Nat : m = Len(old)
  OBVIOUS
<1>2. PICK n \in Nat : n = Len(new)
  OBVIOUS
<1>3. ok \in Seq(Q) /\ Len(ok) = m /\ DOMAIN ok = 1..m /\ \A i \in 1..m : ok[i] = old[i].key
  BY <1>1, KeysIs
<1>4. nk \in Seq(Q) /\ Len(nk) = n /\ DOMAIN new = 1..n /\ \A i \in 1..n : nk[i] = new[i].key
  BY <1>2, KeysIs
<1>5. IsInjective(ok) /\ IsInjective(nk)
  BY DEF Keyed
<1> DEFINE stay == Dropped(old, nk)[m]
           arr == Arranged(new, nk, stay)[n]
           Descend(t) == LET o == Position(ok, nk[t])
                         IN  IF o = 0 THEN <<>> ELSE below[<<old[o], new[t], Append(p, t)>>]
           ss == [t \in DOMAIN new |-> Descend(t)]
           a == Drops(ok, nk, p)
           b == Place(new, nk, Survivors(ok, nk), p)
           d == Concat(ss)
<1>6. DiffKeyed(below, old, new, p) = (a \o b) \o d
  BY DEF DiffKeyed
<1>7. IsList(a) /\ Apply(Having(w, p, old), a) = Having(w, p, stay)
  <2> HIDE DEF nk
  <2> QED BY <1>1, DropsLand
<1>8. /\ Keys(stay) = Survivors(ok, nk) /\ stay \in Seq({old[i] : i \in 1..m})
      /\ stay \in Seq(T)
  <2> HIDE DEF nk
  <2>1. /\ \A i \in 0..m : Dropped(old, nk)[i] \in Seq(T)
        /\ Keys(Dropped(old, nk)[m]) = Survivors(ok, nk)
        /\ Dropped(old, nk)[m] \in Seq({old[i] : i \in 1..m})
    <3>1. Len(old) \in Nat
      OBVIOUS
    <3>2. \A k \in Nat : k = Len(old) =>
            /\ \A i \in 0..k : Dropped(old, nk)[i] \in Seq(T)
            /\ Keys(Dropped(old, nk)[k]) = Survivors(Keys(old), nk)
            /\ Dropped(old, nk)[k] \in Seq({old[i] : i \in 1..k})
      BY DroppedLands, ZenonT(60)
    <3> QED BY <1>1, <3>2
  <2>2. m \in 0..m
    OBVIOUS
  <2>3. Dropped(old, nk)[m] \in Seq(T)
    BY <2>1, <2>2
  <2> QED BY <2>1, <2>3
<1>9. IsInjective(Survivors(ok, nk)) /\ Range(Survivors(ok, nk)) = Range(ok) \cap Range(nk)
  <2> HIDE DEF nk, ok, Q
  <2> QED BY <1>3, <1>5, SurvivorsAre
<1>10. Placeable(T, new, stay, nk, n)
  <2> HIDE DEF stay, ok
  <2> QED BY <1>2, <1>5, <1>8, <1>9 DEF Placeable
<1>11. IsList(b) /\ Apply(Having(w, p, stay), b) = Having(w, p, arr)
  <2> HIDE DEF stay, nk, ok
  <2>1. /\ IsList(Place(new, nk, Keys(stay), p))
        /\ Apply(Having(w, p, stay), Place(new, nk, Keys(stay), p)) = Having(w, p, Arranged(new, nk, stay)[n])
    BY <1>10, PlaceLands
  <2> QED BY <1>8, <2>1
<1>12. /\ arr \in Seq(T) /\ Len(arr) = n
       /\ \A i \in 1..n : IF nk[i] \in Range(Keys(stay)) THEN arr[i] \in Range(stay) /\ arr[i].key = nk[i]
                                                         ELSE arr[i] = new[i]
  <2> HIDE DEF stay, nk
  <2>1. \A t \in 0..n : Arranged(new, nk, stay)[t] \in Seq(T)
    BY <1>10, ArrangedLands
  <2>2. Len(Arranged(new, nk, stay)[n]) = n
    BY <1>10, ArrangedLands
  <2>3. \A i \in 1..n :
              LET x == Arranged(new, nk, stay)[n][i]
              IN  IF nk[i] \in Range(Keys(stay)) THEN x \in Range(stay) /\ x.key = nk[i] ELSE x = new[i]
    BY <1>10, ArrangedLands
  <2> QED BY <2>1, <2>2, <2>3
<1> HIDE DEF arr, stay, nk, ok, a, b
<1>13. \A i \in 1..n : ss[i] = below[<<arr[i], new[i], Append(p, i)>>] \/ (ss[i] = <<>> /\ arr[i] = new[i])
  <2> SUFFICES ASSUME NEW i \in 1..n
               PROVE  ss[i] = below[<<arr[i], new[i], Append(p, i)>>] \/ (ss[i] = <<>> /\ arr[i] = new[i])
    OBVIOUS
  <2> DEFINE o == Position(ok, nk[i])
  <2>1. ss[i] = IF o = 0 THEN <<>> ELSE below[<<old[o], new[i], Append(p, i)>>]
    BY <1>4
  <2>2. (o = 0 /\ nk[i] \notin Range(ok)) \/ (o \in 1..m /\ ok[o] = nk[i])
    BY <1>3, <1>5, PositionCases
  <2>3. nk[i] \in Range(nk)
    <3> HIDE DEF Q
    <3> QED BY <1>4, InRange
  <2> HIDE DEF o, ss
  <2>4. CASE o = 0 /\ nk[i] \notin Range(ok)
    <3>1. nk[i] \notin Range(Keys(stay))
      BY <1>8, <1>9, <2>4
    <3> QED BY <1>12, <2>1, <2>4, <3>1
  <2>5. CASE o \in 1..m /\ ok[o] = nk[i]
    <3>1. nk[i] \in Range(ok)
      <4> HIDE DEF Q
      <4> QED BY <1>3, <2>5, InRange
    <3>2. nk[i] \in Range(Keys(stay))
      BY <1>8, <1>9, <2>3, <3>1
    <3>3. arr[i] \in Range(stay) /\ arr[i].key = nk[i]
      BY <1>12, <3>2
    <3>4. PICK j \in 1..m : arr[i] = old[j]
      <4>1. Range(stay) \subseteq {old[j] : j \in 1..m}
        BY <1>8, RangeOfSeq
      <4> QED BY <3>3, <4>1
    <3>5. ok[j] = ok[o]
      BY <1>3, <2>5, <3>3, <3>4
    <3>6. j = o
      BY <1>3, <1>5, <2>5, <3>5 DEF IsInjective
    <3> QED BY <2>1, <2>5, <3>4, <3>6
  <2> QED BY <2>2, <2>4, <2>5
<1>14. ss = [i \in 1..n |-> ss[i]]
  BY <1>4
<1> HIDE DEF ss
<1>15. IsList(d) /\ Apply(Having(w, p, arr), d) = Having(w, p, Mixed(arr, new, n))
  <2>1. n <= Len(arr) /\ n <= Len(new)
    BY <1>2, <1>12
  <2>2. InPlace(below, arr, new, p, n, ss)
    BY <1>13, <1>14, <2>1 DEF InPlace
  <2> QED BY <1>12, <2>2, DescendLands
<1>16. Mixed(arr, new, n) = new
  <2>1. n <= Len(arr) /\ n <= Len(new)
    BY <1>2, <1>12
  <2>2. Mixed(arr, new, n) \in Seq(T) /\ Len(Mixed(arr, new, n)) = Len(arr)
        /\ \A i \in 1..Len(arr) : Mixed(arr, new, n)[i] = IF i <= n THEN new[i] ELSE arr[i]
    <3>1. arr \in Seq(T)
      BY <1>12
    <3> QED BY ONLY <3>1, <2>1, MixedIs, n \in Nat, new \in Seq(T)
  <2>3. PICK z : z = Mixed(arr, new, n)
    OBVIOUS
  <2>4. z \in Seq(T) /\ Len(z) = n /\ \A i \in 1..n : z[i] = new[i]
    BY <1>12, <2>2, <2>3
  <2>5. z = new
    BY <1>2, <2>4, SeqEqual
  <2> QED BY <2>3, <2>5
<1> HIDE DEF d
<1>17. IsList(a \o b) /\ Apply(Having(w, p, old), a \o b) = Having(w, p, arr)
  BY <1>7, <1>11, IsListConcat
<1>18. IsList((a \o b) \o d) /\ Apply(Having(w, p, old), (a \o b) \o d) = Having(w, p, new)
  BY <1>15, <1>16, <1>17, IsListConcat
<1> QED BY <1>6, <1>18

(* diff_kids, whichever way the lists pair *)
LEMMA DiffKidsLands ==
  ASSUME NEW T, NEW below, Lands(below, T),
         NEW w, NEW p \in Seq(Nat), Sound(w, p), HasKids(At(w, p)),
         NEW old \in Seq(T), NEW new \in Seq(T)
  PROVE  /\ IsList(DiffKids(below, old, new, p))
         /\ Apply(Having(w, p, old), DiffKids(below, old, new, p)) = Having(w, p, new)
<1>1. CASE Keyed(old) /\ Keyed(new)
  BY <1>1, DiffKeyedLands DEF DiffKids
<1>2. CASE ~ (Keyed(old) /\ Keyed(new))
  BY <1>2, DiffIndexedLands DEF DiffKids
<1> QED BY <1>1, <1>2

(* Nodes whose children are in T *)
Nodes(T) == [tag : NodeTags, key : NodeKeys \cup {NoKey}, self : NodeData, kids : Seq(T)]

(* diff_at: replayed where the old node stands its patches give the new one. *)
LEMMA DiffAtLands ==
  ASSUME NEW T, NEW below, Lands(below, T), NEW old \in Nodes(T), NEW new \in Nodes(T),
         NEW p \in Seq(Nat), NEW w, Sound(w, p), At(w, p) = old
  PROVE  /\ IsList(DiffAt(below, old, new, p))
         /\ Apply(w, DiffAt(below, old, new, p)) = Put(w, p, new)
<1>0. HasKids(old) /\ HasKids(new) /\ old.kids \in Seq(T) /\ new.kids \in Seq(T)
  BY RecordHasKids DEF Nodes
<1>1. CASE old = new
  <2>1. DiffAt(below, old, new, p) = <<>>
    BY <1>1 DEF DiffAt
  <2>2. Put(w, p, new) = w
    BY <1>1, PutAt
  <2> QED BY <2>1, <2>2, ApplyNone, IsListSingle
<1>2. CASE old # new /\ ~ Related(old, new)
  <2> DEFINE x == Patch(p, Replace(new))
  <2>1. DiffAt(below, old, new, p) = <<x>>
    BY <1>2 DEF DiffAt
  <2>2. Apply(w, <<x>>) = Put(w, p, ApplyOp(At(w, p), Replace(new)))
    BY NodeOp
  <2>3. ApplyOp(At(w, p), Replace(new)) = new
    BY DEF ApplyOp, Replace
  <2> HIDE DEF x
  <2> QED BY <2>1, <2>2, <2>3, IsListSingle
<1>3. CASE old # new /\ Related(old, new)
  <2> DEFINE x == Patch(p, SetSelf(new))
             a == IF old.self = new.self THEN <<>> ELSE <<x>>
             b == DiffKids(below, old.kids, new.kids, p)
             y == Rekid(new, old.kids)
             v == Put(w, p, y)
  <2>1. DiffAt(below, old, new, p) = a \o b
    BY <1>3 DEF DiffAt
  <2>2. IsList(a)
    <3> HIDE DEF x
    <3> QED BY IsListSingle
  <2>3. Apply(w, a) = v
    <3>1. CASE old.self = new.self
      <4>1. y = old
        BY <1>3, <3>1 DEF Related, Rekid, Nodes
      <4>2. v = w
        BY <4>1, PutAt
      <4> QED BY <3>1, <4>2, ApplyNone
    <3>2. CASE old.self # new.self
      <4>1. Apply(w, <<x>>) = Put(w, p, ApplyOp(At(w, p), SetSelf(new)))
        BY NodeOp
      <4>2. ApplyOp(At(w, p), SetSelf(new)) = y
        BY DEF ApplyOp, SetSelf
      <4> QED BY <3>2, <4>1, <4>2
    <3> QED BY <3>1, <3>2
  <2>4. Sound(v, p) /\ At(v, p) = y
    BY AtPut
  <2>5. HasKids(y) /\ y.kids = old.kids
    BY <1>0, SetKids
  <2> HIDE DEF a, y, v
  <2>6. Having(v, p, old.kids) = v
    BY <2>4, <2>5, HavingSame
  <2>7. IsList(b) /\ Apply(Having(v, p, old.kids), b) = Having(v, p, new.kids)
    BY <1>0, <2>4, <2>5, DiffKidsLands
  <2>8. Having(v, p, new.kids) = Put(w, p, new)
    <3>1. Rekid(y, new.kids) = new
      BY <1>0, SetKidsTwice, SetKidsToItself DEF y
    <3>2. Having(v, p, new.kids) = Put(v, p, new)
      BY <2>4, <3>1 DEF Having
    <3> QED BY <3>2, PutPut DEF v
  <2> HIDE DEF b
  <2>9. IsList(a \o b) /\ Apply(w, a \o b) = Put(w, p, new)
    BY <2>2, <2>3, <2>6, <2>7, <2>8, IsListConcat
  <2> QED BY <2>1, <2>9
<1> QED BY <1>1, <1>2, <1>3

-----------------------------------------------------------------------------
(* The reconciler, over the height of a tree *)

(* Tree, level by level *)
LEMMA TreeIs ==
  ASSUME Height \in Nat
  PROVE  /\ Tree[0] = {}
         /\ \A n \in 1..Height : Tree[n] = Nodes(Tree[n - 1])
<1> DEFINE base == {}
           G(y, n) == Nodes(y)
           Is(f, m) == f = [n \in 0..m |-> IF n = 0 THEN base ELSE G(f[n - 1], n)]
           S == {m \in Nat : \E f : Is(f, m)}
<1>1. 0 \in S
  <2> DEFINE g == [n \in 0..0 |-> base]
  <2>1. Is(g, 0)
    <3> HIDE DEF base, G
    <3> QED OBVIOUS
  <2> HIDE DEF g, Is
  <2> QED BY <2>1
<1>2. ASSUME NEW m \in Nat, m \in S PROVE m + 1 \in S
  <2>1. PICK f : Is(f, m)
    BY <1>2
  <2> DEFINE g == [n \in 0..(m + 1) |-> IF n <= m THEN f[n] ELSE G(f[m], m + 1)]
  <2>2. Is(g, m + 1)
    <3> HIDE DEF base, G
    <3> SUFFICES ASSUME NEW n \in 0..(m + 1)
                 PROVE  g[n] = IF n = 0 THEN base ELSE G(g[n - 1], n)
      OBVIOUS
    <3>1. CASE n = m + 1
      BY <3>1
    <3>2. CASE n \in 0..m
      BY <2>1, <3>2
    <3> QED BY <3>1, <3>2
  <2> HIDE DEF g, Is
  <2> QED BY <2>2
<1>3. \A n \in Nat : n \in S
  <2> HIDE DEF S
  <2> QED BY <1>1, <1>2, NatSets
<1>4. PICK n \in Nat : n = Height
  OBVIOUS
<1> DEFINE v == Tree
<1>5. v = [i \in 0..n |-> IF i = 0 THEN base ELSE G(v[i - 1], i)]
  <2> DEFINE P(f) == f = [i \in 0..n |-> IF i = 0 THEN base ELSE G(f[i - 1], i)]
  <2>1. \E f : P(f)
    BY <1>3
  <2>2. v = CHOOSE f : P(f)
    BY <1>4 DEF Tree, Nodes
  <2> HIDE DEF P, v
  <2>3. P(v)
    BY <2>1, <2>2, Zenon
  <2> QED BY <2>3 DEF P
<1>6. v[0] = base /\ \A i \in 1..n : v[i] = G(v[i - 1], i)
  <2> HIDE DEF v, base, G
  <2> QED BY ONLY <1>5, n \in Nat
<1> QED BY ONLY <1>4, <1>6

(* Differences, level by level *)
LEMMA DifferencesIs ==
  ASSUME Height \in Nat
  PROVE  /\ Differences[0] = <<>>
         /\ \A n \in 1..Height : Differences[n] = [pair \in Tree[n] \X Tree[n] \X Seq(Nat) |-> DiffAt(Differences[n - 1], pair[1], pair[2], pair[3])]
<1> DEFINE base == <<>>
           G(y, n) == [pair \in Tree[n] \X Tree[n] \X Seq(Nat) |-> DiffAt(y, pair[1], pair[2], pair[3])]
           Is(f, m) == f = [n \in 0..m |-> IF n = 0 THEN base ELSE G(f[n - 1], n)]
           S == {m \in Nat : \E f : Is(f, m)}
<1>1. 0 \in S
  <2> DEFINE g == [n \in 0..0 |-> base]
  <2>1. Is(g, 0)
    <3> HIDE DEF base, G
    <3> QED OBVIOUS
  <2> HIDE DEF g, Is
  <2> QED BY <2>1
<1>2. ASSUME NEW m \in Nat, m \in S PROVE m + 1 \in S
  <2>1. PICK f : Is(f, m)
    BY <1>2
  <2> DEFINE g == [n \in 0..(m + 1) |-> IF n <= m THEN f[n] ELSE G(f[m], m + 1)]
  <2>2. Is(g, m + 1)
    <3> HIDE DEF base, G
    <3> SUFFICES ASSUME NEW n \in 0..(m + 1)
                 PROVE  g[n] = IF n = 0 THEN base ELSE G(g[n - 1], n)
      OBVIOUS
    <3>1. CASE n = m + 1
      BY <3>1
    <3>2. CASE n \in 0..m
      BY <2>1, <3>2
    <3> QED BY <3>1, <3>2
  <2> HIDE DEF g, Is
  <2> QED BY <2>2
<1>3. \A n \in Nat : n \in S
  <2> HIDE DEF S
  <2> QED BY <1>1, <1>2, NatSets
<1>4. PICK n \in Nat : n = Height
  OBVIOUS
<1> DEFINE v == Differences
<1>5. v = [i \in 0..n |-> IF i = 0 THEN base ELSE G(v[i - 1], i)]
  <2> DEFINE P(f) == f = [i \in 0..n |-> IF i = 0 THEN base ELSE G(f[i - 1], i)]
  <2>1. \E f : P(f)
    BY <1>3
  <2>2. v = CHOOSE f : P(f)
    BY <1>4 DEF Differences
  <2> HIDE DEF P, v
  <2>3. P(v)
    BY <2>1, <2>2, Zenon
  <2> QED BY <2>3 DEF P
<1>6. v[0] = base /\ \A i \in 1..n : v[i] = G(v[i - 1], i)
  <2> HIDE DEF v, base, G
  <2> QED BY ONLY <1>5, n \in Nat
<1> QED BY ONLY <1>4, <1>6

(* By induction over the height: whatever two trees, and wherever the old
   one stands in a document, the difference leads to the new one. *)
LEMMA DifferencesLand ==
  \A n \in 0..Height : Lands(Differences[n], Tree[n])
<1> DEFINE S == {n \in 0..Height : Lands(Differences[n], Tree[n])}
<1>0. Height \in Nat
  BY TreeDiffAssumption
<1>1. 0 \in S
  <2>1. Lands(Differences[0], Tree[0])
    BY <1>0, TreeIs DEF Lands
  <2> QED BY <1>0, <2>1
<1>2. ASSUME NEW m \in 0..(Height - 1), m \in S PROVE m + 1 \in S
  <2>0. PICK n \in 1..Height : n = m + 1 /\ n - 1 = m
    BY <1>0
  <2>1. Lands(Differences[n - 1], Tree[n - 1])
    BY <1>2, <2>0
  <2>2. Tree[n] = Nodes(Tree[n - 1])
    BY <1>0, TreeIs
  <2>3. Differences[n] = [pair \in Tree[n] \X Tree[n] \X Seq(Nat) |->
                            DiffAt(Differences[n - 1], pair[1], pair[2], pair[3])]
    BY <1>0, DifferencesIs
  <2>4. ASSUME NEW old \in Tree[n], NEW new \in Tree[n], NEW p \in Seq(Nat)
        PROVE  Differences[n][<<old, new, p>>] = DiffAt(Differences[n - 1], old, new, p)
    <3>1. <<old, new, p>> \in Tree[n] \X Tree[n] \X Seq(Nat)
      OBVIOUS
    <3> QED BY <2>3, <3>1
  <2>5. ASSUME NEW old \in Tree[n], NEW new \in Tree[n], NEW p \in Seq(Nat), NEW w,
               Sound(w, p), At(w, p) = old
        PROVE  /\ IsList(Differences[n][<<old, new, p>>])
               /\ Apply(w, Differences[n][<<old, new, p>>]) = Put(w, p, new)
    <3>1. old \in Nodes(Tree[n - 1]) /\ new \in Nodes(Tree[n - 1])
      BY <2>2
    <3>2. /\ IsList(DiffAt(Differences[n - 1], old, new, p))
          /\ Apply(w, DiffAt(Differences[n - 1], old, new, p)) = Put(w, p, new)
      BY <2>1, <2>5, <3>1, DiffAtLands
    <3> QED BY <2>4, <3>2
  <2>6. Lands(Differences[n], Tree[n])
    BY <2>5 DEF Lands
  <2>7. n \in 0..Height
    BY <1>0
  <2> QED BY <2>0, <2>6, <2>7
<1>3. \A n \in 0..Height : n \in S
  <2> HIDE DEF S
  <2> QED BY <1>0, <1>1, <1>2, UpTo
<1> QED BY <1>3

(* The root, by its address *)
LEMMA RootIs ==
  ASSUME NEW w, NEW x
  PROVE  Sound(w, <<>>) /\ At(w, <<>>) = w /\ Put(w, <<>>, x) = x
<1>1. Len(<<>>) = 0 /\ <<>> \in Seq(Nat)
  OBVIOUS
<1>2. At(w, <<>>) = w
  BY <1>1, WalkIs DEF At
<1>3. Put(w, <<>>, x) = x
  BY <1>1, RebuiltIs DEF Put
<1>4. Sound(w, <<>>)
  BY <1>1 DEF Sound
<1> QED BY <1>2, <1>3, <1>4

(* The law of packages/tea-core, for trees of any shape and height: apply of
   what diff answers, to the old tree, is the new tree exactly. *)
THEOREM RoundTrip ==
  \A old, new \in Tree[Height] : IsList(Diff(old, new)) /\ Apply(old, Diff(old, new)) = new
<1> SUFFICES ASSUME NEW old \in Tree[Height], NEW new \in Tree[Height]
             PROVE  IsList(Diff(old, new)) /\ Apply(old, Diff(old, new)) = new
  OBVIOUS
<1>1. Lands(Differences[Height], Tree[Height])
  BY DifferencesLand, TreeDiffAssumption
<1>2. Sound(old, <<>>) /\ At(old, <<>>) = old /\ Put(old, <<>>, new) = new
  BY RootIs
<1>3. <<>> \in Seq(Nat)
  OBVIOUS
<1> QED BY <1>1, <1>2, <1>3, ZenonT(60) DEF Lands, Diff

-----------------------------------------------------------------------------
(* The same for the document: the host's table of ops *)

(* The element of a set of one *)
LEMMA OnlyIs ==
  ASSUME NEW x
  PROVE  Only({x}) = x
BY DEF Only

(* HostApplied, step by step *)
LEMMA HostAppliedIs ==
  ASSUME NEW d, NEW patches, Len(patches) \in Nat
  PROVE  /\ HostApplied(d, patches)[0] = d
         /\ \A i \in 1..Len(patches) : HostApplied(d, patches)[i] = HostAt(HostApplied(d, patches)[i - 1], patches[i].path, patches[i].op)
<1> DEFINE base == d
           G(y, i) == HostAt(y, patches[i].path, patches[i].op)
           Is(f, m) == f = [i \in 0..m |-> IF i = 0 THEN base ELSE G(f[i - 1], i)]
           S == {m \in Nat : \E f : Is(f, m)}
<1>1. 0 \in S
  <2> DEFINE g == [i \in 0..0 |-> base]
  <2>1. Is(g, 0)
    <3> HIDE DEF base, G
    <3> QED OBVIOUS
  <2> HIDE DEF g, Is
  <2> QED BY <2>1
<1>2. ASSUME NEW m \in Nat, m \in S PROVE m + 1 \in S
  <2>1. PICK f : Is(f, m)
    BY <1>2
  <2> DEFINE g == [i \in 0..(m + 1) |-> IF i <= m THEN f[i] ELSE G(f[m], m + 1)]
  <2>2. Is(g, m + 1)
    <3> HIDE DEF base, G
    <3> SUFFICES ASSUME NEW n \in 0..(m + 1)
                 PROVE  g[n] = IF n = 0 THEN base ELSE G(g[n - 1], n)
      OBVIOUS
    <3>1. CASE n = m + 1
      BY <3>1
    <3>2. CASE n \in 0..m
      BY <2>1, <3>2
    <3> QED BY <3>1, <3>2
  <2> HIDE DEF g, Is
  <2> QED BY <2>2
<1>3. \A n \in Nat : n \in S
  <2> HIDE DEF S
  <2> QED BY <1>1, <1>2, NatSets
<1>4. PICK n \in Nat : n = Len(patches)
  OBVIOUS
<1> DEFINE v == HostApplied(d, patches)
<1>5. v = [i \in 0..n |-> IF i = 0 THEN base ELSE G(v[i - 1], i)]
  <2> DEFINE P(f) == f = [i \in 0..n |-> IF i = 0 THEN base ELSE G(f[i - 1], i)]
  <2>1. \E f : P(f)
    BY <1>3
  <2>0. \A f, i : Only({HostAt(e, patches[i].path, patches[i].op) : e \in {f}})
                    = HostAt(f, patches[i].path, patches[i].op)
    <3> SUFFICES ASSUME NEW f, NEW i
                 PROVE  Only({HostAt(e, patches[i].path, patches[i].op) : e \in {f}})
                          = HostAt(f, patches[i].path, patches[i].op)
      OBVIOUS
    <3>1. {HostAt(e, patches[i].path, patches[i].op) : e \in {f}} = {HostAt(f, patches[i].path, patches[i].op)}
      OBVIOUS
    <3> QED BY <3>1, OnlyIs
  <2> DEFINE K(f) == f = [i \in 0..Len(patches) |->
                   IF i = 0 THEN d
                   ELSE Only({HostAt(e, patches[i].path, patches[i].op) : e \in {f[i - 1]}})]
  <2>2. v = CHOOSE f : K(f)
    BY ONLY TRUE DEF HostApplied
  <2>3. ASSUME NEW f PROVE P(f) <=> K(f)
    <3>1. \A i : Only({HostAt(e, patches[i].path, patches[i].op) : e \in {f[i - 1]}})
                   = HostAt(f[i - 1], patches[i].path, patches[i].op)
      BY <2>0
    <3> QED BY ONLY <1>4, <3>1
  <2> HIDE DEF P, K, v
  <2>4. K(v)
    BY <2>1, <2>2, <2>3, Zenon
  <2> QED BY <2>3, <2>4 DEF P
<1>6. v[0] = base /\ \A i \in 1..n : v[i] = G(v[i - 1], i)
  <2> HIDE DEF v, base, G
  <2> QED BY ONLY <1>5, n \in Nat
<1> QED BY ONLY <1>4, <1>6


(* f is a replay of the first n patches on a document. *)
HostReplays(f, patches, n) == \A i \in 1..n : f[i] = HostAt(f[i - 1], patches[i].path, patches[i].op)

(* Two replays of the same patches on one document end in the same document. *)
LEMMA SameHostReplays ==
  ASSUME NEW f, NEW g, NEW ps, NEW qs, NEW n \in Nat, f[0] = g[0],
         HostReplays(f, ps, n), HostReplays(g, qs, n), \A i \in 1..n : qs[i] = ps[i]
  PROVE  g[n] = f[n]
<1> DEFINE S == {i \in 0..n : g[i] = f[i]}
<1>1. 0 \in S
  OBVIOUS
<1>2. ASSUME NEW i \in 0..(n - 1), i \in S PROVE i + 1 \in S
  <2>1. i + 1 \in 1..n /\ (i + 1) - 1 = i
    OBVIOUS
  <2>2. g[i] = f[i]
    BY <1>2
  <2>3. f[i + 1] = HostAt(f[i], ps[i + 1].path, ps[i + 1].op)
    BY <2>1 DEF HostReplays
  <2>4. g[i + 1] = HostAt(g[i], qs[i + 1].path, qs[i + 1].op)
    BY <2>1 DEF HostReplays
  <2>5. qs[i + 1] = ps[i + 1]
    BY <2>1
  <2>6. g[i + 1] = f[i + 1]
    BY <2>2, <2>3, <2>4, <2>5
  <2> QED BY <2>1, <2>6
<1>3. \A i \in 0..n : i \in S
  <2> HIDE DEF S
  <2> QED BY <1>1, <1>2, UpTo
<1> QED BY <1>3

(* No patches change nothing. *)
LEMMA HostApplyNone ==
  ASSUME NEW w
  PROVE  HostApply(w, <<>>) = w
<1>1. Len(<<>>) = 0
  OBVIOUS
<1>2. HostApplied(w, <<>>)[0] = w
  BY <1>1, HostAppliedIs
<1> QED BY <1>1, <1>2 DEF HostApply

(* One patch alone *)
LEMMA HostApplyOne ==
  ASSUME NEW w, NEW patch
  PROVE  HostApply(w, <<patch>>) = HostAt(w, patch.path, patch.op)
<1> DEFINE ps == <<patch>>
<1>1. Len(ps) = 1 /\ ps[1] = patch
  OBVIOUS
<1> HIDE DEF ps
<1>2. Len(ps) \in Nat /\ 1 \in 1..Len(ps) /\ 1 - 1 = 0
  BY <1>1
<1>3. HostApplied(w, ps)[0] = w
  BY <1>2, HostAppliedIs
<1>4. HostApplied(w, ps)[1] = HostAt(HostApplied(w, ps)[0], ps[1].path, ps[1].op)
  BY <1>2, HostAppliedIs
<1>5. HostApply(w, ps) = HostAt(w, patch.path, patch.op)
  BY <1>1, <1>3, <1>4 DEF HostApply
<1> QED BY <1>5 DEF ps

(* To replay one list after another is to replay the second from where the
   first has led. *)
LEMMA HostApplyConcat ==
  ASSUME NEW P, NEW ps \in Seq(P), NEW qs \in Seq(P), NEW w
  PROVE  HostApply(w, ps \o qs) = HostApply(HostApply(w, ps), qs)
<1>1. PICK m \in Nat : m = Len(ps)
  OBVIOUS
<1>2. PICK n \in Nat : n = Len(qs)
  OBVIOUS
<1> DEFINE rs == ps \o qs
<1>3. /\ Len(rs) = m + n /\ \A i \in 1..m : rs[i] = ps[i]
      /\ \A i \in 1..n : rs[m + i] = qs[i]
  <2>1. /\ Len(rs) = Len(ps) + Len(qs)
        /\ \A i \in 1..(Len(ps) + Len(qs)) : rs[i] = IF i <= Len(ps) THEN ps[i] ELSE qs[i - Len(ps)]
    BY ConcatProperties
  <2> HIDE DEF rs
  <2>2. Len(rs) = m + n /\ \A i \in 1..(m + n) : rs[i] = IF i <= m THEN ps[i] ELSE qs[i - m]
    BY <1>1, <1>2, <2>1
  <2>3. ASSUME NEW i \in 1..m PROVE rs[i] = ps[i]
    <3>1. i \in 1..(m + n) /\ i <= m
      OBVIOUS
    <3> QED BY <2>2, <3>1
  <2>4. ASSUME NEW i \in 1..n PROVE rs[m + i] = qs[i]
    <3>1. m + i \in 1..(m + n) /\ ~ (m + i <= m) /\ (m + i) - m = i
      OBVIOUS
    <3>2. rs[m + i] = qs[(m + i) - m]
      BY <2>2, <3>1
    <3> QED BY <3>1, <3>2
  <2> QED BY <2>2, <2>3, <2>4
<1> HIDE DEF rs
<1> DEFINE f == HostApplied(w, ps)
           g == HostApplied(HostApply(w, ps), qs)
           h == HostApplied(w, rs)
<1>4. f[0] = w /\ HostReplays(f, ps, m) /\ HostApply(w, ps) = f[m]
  <2>1. f[0] = w /\ \A i \in 1..Len(ps) : f[i] = HostAt(f[i - 1], ps[i].path, ps[i].op)
    BY <1>1, HostAppliedIs
  <2>2. HostReplays(f, ps, m)
    BY <1>1, <2>1 DEF HostReplays
  <2> QED BY <1>1, <2>1, <2>2 DEF HostApply
<1>5. g[0] = HostApply(w, ps) /\ HostReplays(g, qs, n) /\ HostApply(HostApply(w, ps), qs) = g[n]
  <2>1. g[0] = HostApply(w, ps) /\ \A i \in 1..Len(qs) : g[i] = HostAt(g[i - 1], qs[i].path, qs[i].op)
    BY <1>2, HostAppliedIs
  <2>2. HostReplays(g, qs, n)
    BY <1>2, <2>1 DEF HostReplays
  <2>3. HostApply(HostApply(w, ps), qs) = g[n]
    BY <1>2 DEF HostApply
  <2> QED BY <2>1, <2>2, <2>3
<1>6. h[0] = w /\ HostReplays(h, rs, m + n) /\ HostApply(w, rs) = h[m + n]
  <2>0. Len(rs) \in Nat
    BY <1>3
  <2>1. h[0] = w /\ \A i \in 1..Len(rs) : h[i] = HostAt(h[i - 1], rs[i].path, rs[i].op)
    BY <2>0, HostAppliedIs
  <2>2. HostReplays(h, rs, m + n)
    BY <1>3, <2>1 DEF HostReplays
  <2> QED BY <1>3, <2>1, <2>2 DEF HostApply
<1> HIDE DEF f, g, h
<1>7. HostReplays(h, rs, m)
  BY <1>6 DEF HostReplays
<1>8. h[m] = f[m]
  BY <1>3, <1>4, <1>6, <1>7, SameHostReplays
<1> DEFINE k == [i \in 0..n |-> h[m + i]]
           ts == [i \in 1..n |-> rs[m + i]]
<1>9. k[0] = h[m] /\ k[n] = h[m + n]
  OBVIOUS
<1>10. HostReplays(k, ts, n)
  <2> SUFFICES ASSUME NEW i \in 1..n PROVE k[i] = HostAt(k[i - 1], ts[i].path, ts[i].op)
    BY DEF HostReplays
  <2>1. m + i \in 1..(m + n) /\ (m + i) - 1 = m + (i - 1) /\ i - 1 \in 0..n /\ i \in 0..n
    OBVIOUS
  <2>2. h[m + i] = HostAt(h[(m + i) - 1], rs[m + i].path, rs[m + i].op)
    BY <1>6, <2>1 DEF HostReplays
  <2>3. k[i] = h[m + i] /\ k[i - 1] = h[m + (i - 1)] /\ ts[i] = rs[m + i]
    BY <2>1
  <2> HIDE DEF k, ts
  <2> QED BY <2>1, <2>2, <2>3
<1>11. \A i \in 1..n : ts[i] = qs[i]
  BY <1>3
<1> HIDE DEF k, ts
<1>12. g[0] = k[0]
  BY <1>4, <1>5, <1>8, <1>9
<1>13. k[n] = g[n]
  BY <1>5, <1>10, <1>11, <1>12, SameHostReplays
<1> QED BY <1>5, <1>6, <1>9, <1>13 DEF rs

(* A list made of stages, when it is known where each of them leads *)
LEMMA HostApplyStages ==
  ASSUME NEW P, NEW ss \in Seq(Seq(P)), NEW tr, NEW n \in Nat, n = Len(ss),
         \A i \in 1..n : HostApply(tr[i - 1], ss[i]) = tr[i]
  PROVE  Concat(ss) \in Seq(P) /\ HostApply(tr[0], Concat(ss)) = tr[n]
<1>1. \A i \in 0..n : Joined(ss)[i] \in Seq(P)
  BY JoinedType
<1>2. Joined(ss)[0] = <<>> /\ \A i \in 1..n : Joined(ss)[i] = Joined(ss)[i - 1] \o ss[i]
  BY JoinedIs
<1>3. \A i \in 1..n : ss[i] \in Seq(P)
  OBVIOUS
<1> DEFINE j == Joined(ss)
<1> HIDE DEF j
<1> DEFINE S == {i \in 0..n : HostApply(tr[0], j[i]) = tr[i]}
<1>4. 0 \in S
  <2>1. HostApply(tr[0], j[0]) = tr[0]
    BY <1>2, HostApplyNone DEF j
  <2> QED BY <2>1
<1>5. ASSUME NEW i \in 0..(n - 1), i \in S PROVE i + 1 \in S
  <2>0. HostApply(tr[0], j[i]) = tr[i]
    BY <1>5
  <2>1. i + 1 \in 1..n /\ (i + 1) - 1 = i /\ i \in 0..n /\ i + 1 \in 0..n
    OBVIOUS
  <2>2. j[i + 1] = j[i] \o ss[i + 1]
    BY <1>2, <2>1 DEF j
  <2>3. j[i] \in Seq(P) /\ ss[i + 1] \in Seq(P)
    BY <1>1, <1>3, <2>1 DEF j
  <2>4. HostApply(tr[0], j[i] \o ss[i + 1]) = HostApply(HostApply(tr[0], j[i]), ss[i + 1])
    BY <2>3, HostApplyConcat
  <2>5. HostApply(tr[i], ss[i + 1]) = tr[i + 1]
    <3>1. HostApply(tr[(i + 1) - 1], ss[i + 1]) = tr[i + 1]
      BY <2>1
    <3> QED BY <2>1, <3>1
  <2>6. HostApply(tr[0], j[i + 1]) = tr[i + 1]
    BY <2>0, <2>2, <2>4, <2>5
  <2> QED BY <2>1, <2>6
<1>6. \A i \in 0..n : i \in S
  <2> HIDE DEF S
  <2> QED BY <1>4, <1>5, UpTo
<1>7. HostApply(tr[0], j[n]) = tr[n]
  BY <1>6
<1>8. Concat(ss) = j[n]
  BY DEF Concat, j
<1>9. j[n] \in Seq(P)
  BY <1>1 DEF j
<1> QED BY <1>7, <1>8, <1>9

(* Two lists make a list, and replay one after the other. *)
LEMMA HostListConcat ==
  ASSUME NEW s, NEW t, IsList(s), IsList(t)
  PROVE  /\ IsList(s \o t)
         /\ \A w : HostApply(w, s \o t) = HostApply(HostApply(w, s), t)
<1> DEFINE P == Range(s) \cup Range(t)
<1>1. Range(s) \subseteq P /\ Range(t) \subseteq P
  OBVIOUS
<1>2. s \in Seq(Range(s)) /\ t \in Seq(Range(t))
  BY DEF IsList
<1> HIDE DEF P
<1>3. s \in Seq(P)
  BY ONLY <1>1, <1>2, SeqMonotonic
<1>4. t \in Seq(P)
  BY ONLY <1>1, <1>2, SeqMonotonic
<1>5. s \o t \in Seq(P)
  BY <1>3, <1>4, ConcatProperties
<1>6. IsList(s \o t)
  BY <1>5, IsListIs
<1>7. \A w : HostApply(w, s \o t) = HostApply(HostApply(w, s), t)
  BY <1>3, <1>4, HostApplyConcat
<1> QED BY <1>6, <1>7

(* Stages that each lead one step on lead all the way. *)
LEMMA HostStagesLand ==
  ASSUME NEW n \in Nat, NEW ss, ss = [i \in 1..n |-> ss[i]], \A i \in 1..n : IsList(ss[i]),
         NEW tr, \A i \in 1..n : HostApply(tr[i - 1], ss[i]) = tr[i]
  PROVE  IsList(Concat(ss)) /\ HostApply(tr[0], Concat(ss)) = tr[n]
<1>1. PICK P : ss \in Seq(Seq(P)) /\ Len(ss) = n
  BY ListOfLists
<1>2. Concat(ss) \in Seq(P) /\ HostApply(tr[0], Concat(ss)) = tr[n]
  BY <1>1, HostApplyStages, SMTT(60)
<1> QED BY <1>2, IsListIs

(* One op on a node of the document, and on a list of its children *)
LEMMA HostNodeOp ==
  ASSUME NEW d, NEW p, NEW op
  PROVE  HostApply(d, <<Patch(p, op)>>) = Put(d, p, HostOp(At(d, p), op))
<1>1. Patch(p, op).path = p /\ Patch(p, op).op = op
  BY DEF Patch
<1>2. HostApply(d, <<Patch(p, op)>>) = HostAt(d, p, op)
  BY <1>1, HostApplyOne
<1> QED BY <1>2 DEF HostAt

(* One op on the children of an element *)
LEMMA HostListOp ==
  ASSUME NEW w, NEW p \in Seq(Nat), Sound(w, p), HasKids(At(w, p)), NEW S, NEW ks \in Seq(S),
         NEW op, op.op \in {"append", "truncate", "insert", "remove", "move"}
  PROVE  HostApply(Having(w, p, ks), <<Patch(p, op)>>) = Having(w, p, HostKids(ks, op))
<1> DEFINE v == Having(w, p, ks)
<1>1. At(v, p).kids = ks
  BY HavingIs
<1>2. HostApply(v, <<Patch(p, op)>>) = Put(v, p, HostOp(At(v, p), op))
  BY HostNodeOp
<1>3. HostOp(At(v, p), op) = Rekid(At(v, p), HostKids(ks, op))
  BY <1>1 DEF HostOp
<1>4. Put(v, p, Rekid(At(v, p), HostKids(ks, op))) = Having(w, p, HostKids(ks, op))
  BY HavingTwice
<1> QED BY <1>2, <1>3, <1>4

(* Elements with keys of their own are no two of them the same *)
LEMMA KeysTellApart ==
  ASSUME NEW U, NEW ks \in Seq(U), IsInjective(Keys(ks))
  PROVE  \A i, j \in 1..Len(ks) : ks[i] = ks[j] => i = j
<1>1. DOMAIN Keys(ks) = 1..Len(ks) /\ \A i \in 1..Len(ks) : Keys(ks)[i] = ks[i].key
  BY KeysIs
<1>2. \A i, j \in 1..Len(ks) : Keys(ks)[i] = Keys(ks)[j] => i = j
  BY <1>1 DEF IsInjective
<1> QED BY <1>1, <1>2

(* insertBefore of a node that is in the list: a move to the left *)
LEMMA MovedIs ==
  ASSUME NEW U, NEW ks \in Seq(U), IsInjective(Keys(ks)), NEW q \in 1..Len(ks), NEW t \in 1..q, q # t
  PROVE  Moved(ks, q, t) = MoveTo(ks, q, t)
<1>0. PICK n \in Nat : n = Len(ks) /\ q \in 1..n
  OBVIOUS
<1>1. t < q /\ t < n /\ t \in 1..n /\ t \in 1..(n - 1) /\ t \in Nat
  BY <1>0
<1>2. PICK r \in Seq(U) : /\ r = RemoveAt(ks, q) /\ Len(r) = n - 1
                          /\ \A j \in 1..(n - 1) : r[j] = IF j < q THEN ks[j] ELSE ks[j + 1]
  BY <1>0, RemoveAtIs
<1>3. \A i, j \in 1..n : ks[i] = ks[j] => i = j
  BY <1>0, KeysTellApart
<1>4. IsInjective(r)
  <2>1. DOMAIN r = 1..(n - 1)
    BY <1>0, <1>2
  <2>2. ASSUME NEW i \in 1..(n - 1), NEW j \in 1..(n - 1), r[i] = r[j] PROVE i = j
    <3>1. PICK a \in 1..n : r[i] = ks[a] /\ a = IF i < q THEN i ELSE i + 1
      <4>1. CASE i < q
        BY <1>2, <4>1
      <4>2. CASE ~ (i < q)
        <5>1. i + 1 \in 1..n
          BY <1>0
        <5> QED BY <1>2, <4>2, <5>1
      <4> QED BY <4>1, <4>2
    <3>2. PICK b \in 1..n : r[j] = ks[b] /\ b = IF j < q THEN j ELSE j + 1
      <4>1. CASE j < q
        BY <1>2, <4>1
      <4>2. CASE ~ (j < q)
        <5>1. j + 1 \in 1..n
          BY <1>0
        <5> QED BY <1>2, <4>2, <5>1
      <4> QED BY <4>1, <4>2
    <3>3. a = b
      BY <1>3, <2>2, <3>1, <3>2
    <3> QED BY <1>0, <3>1, <3>2, <3>3
  <2> QED BY <2>1, <2>2 DEF IsInjective
<1>5. t \in 1..Len(r) /\ r[t] = ks[t]
  BY <1>1, <1>2
<1>6. Position(r, ks[t]) = t
  BY <1>4, <1>5, PositionIs
<1>7. Moved(ks, q, t) = InsertAt(r, t, ks[q])
  BY <1>0, <1>1, <1>2, <1>6 DEF Moved
<1> QED BY <1>2, <1>7 DEF MoveTo

(* The host's ops, case by case *)
LEMMA HostKidsIs ==
  ASSUME NEW U, NEW ks \in Seq(U)
  PROVE  /\ \A ws : HostKids(ks, AppendKids(ws)) = ks \o [i \in DOMAIN ws |-> Build(ws[i])]
         /\ \A keep : HostKids(ks, TruncateKids(keep)) = SubSeq(ks, 1, keep)
         /\ \A i, x : HostKids(ks, InsertKid(i, x)) = InsertAt(ks, i, Build(x))
         /\ \A i : HostKids(ks, RemoveKid(i)) = RemoveAt(ks, i)
         /\ \A i, j : HostKids(ks, MoveKid(i, j)) = Moved(ks, i, j)
<1>1. \A ws : HostKids(ks, AppendKids(ws)) = ks \o [i \in DOMAIN ws |-> Build(ws[i])]
  BY DEF HostKids, AppendKids
<1>2. \A keep : HostKids(ks, TruncateKids(keep)) = SubSeq(ks, 1, keep)
  BY DEF HostKids, TruncateKids
<1>3. \A i, x : HostKids(ks, InsertKid(i, x)) = InsertAt(ks, i, Build(x))
  BY DEF HostKids, InsertKid
<1>4. \A i : HostKids(ks, RemoveKid(i)) = RemoveAt(ks, i)
  BY DEF HostKids, RemoveKid
<1>5. \A i, j : HostKids(ks, MoveKid(i, j)) = Moved(ks, i, j)
  BY DEF HostKids, MoveKid
<1> QED BY <1>1, <1>2, <1>3, <1>4, <1>5

(* Removals, on the document: the elements that stay are those with a new
   key, the same elements as before. *)
LEMMA HostDropsLand ==
  ASSUME NEW w, NEW p \in Seq(Nat), Sound(w, p), HasKids(At(w, p)),
         NEW U, NEW ks \in Seq(U), NEW nk, NEW m \in Nat, m = Len(ks)
  PROVE  /\ IsList(Drops(Keys(ks), nk, p))
         /\ HostApply(Having(w, p, ks), Drops(Keys(ks), nk, p)) = Having(w, p, Dropped(ks, nk)[m])
<1> DEFINE ok == Keys(ks)
           D == Dropped(ks, nk)
           ss == [i \in DOMAIN ok |->
                    LET j == Len(ok) + 1 - i
                    IN  IF ok[j] \in Range(nk) THEN <<>> ELSE <<Patch(p, RemoveKid(j))>>]
           tr == [i \in 0..m |-> Having(w, p, D[i])]
<1>1. DOMAIN ok = 1..m /\ Len(ok) = m /\ \A i \in 1..m : ok[i] = ks[i].key
  BY KeysIs
<1>2. /\ \A i \in 0..m : D[i] \in Seq(U)
      /\ \A i \in 1..m : ks[m + 1 - i].key \notin Range(nk) => m + 1 - i \in 1..Len(D[i - 1])
  BY DroppedLands
<1>3. D[0] = ks /\ \A i \in 1..m : D[i] = IF ks[m + 1 - i].key \in Range(nk) THEN D[i - 1]
                                          ELSE RemoveAt(D[i - 1], m + 1 - i)
  BY DroppedIs
<1>4. Drops(ok, nk, p) = Concat(ss)
  BY DEF Drops
<1> HIDE DEF ok, D
<1>5. \A i \in 1..m : ss[i] = IF ks[m + 1 - i].key \in Range(nk) THEN <<>> ELSE <<Patch(p, RemoveKid(m + 1 - i))>>
  <2> SUFFICES ASSUME NEW i \in 1..m
               PROVE  ss[i] = IF ks[m + 1 - i].key \in Range(nk) THEN <<>> ELSE <<Patch(p, RemoveKid(m + 1 - i))>>
    OBVIOUS
  <2>1. m + 1 - i \in 1..m
    OBVIOUS
  <2>2. ok[m + 1 - i] = ks[m + 1 - i].key
    BY <1>1, <2>1
  <2> QED BY <1>1, <2>2
<1>6. ss = [i \in 1..m |-> ss[i]]
  BY <1>1
<1>7. \A i \in 0..m : tr[i] = Having(w, p, D[i])
  OBVIOUS
<1> HIDE DEF ss, tr
<1>8. ASSUME NEW i \in 1..m PROVE IsList(ss[i]) /\ HostApply(tr[i - 1], ss[i]) = tr[i]
  <2> DEFINE j == m + 1 - i
             x == Patch(p, RemoveKid(j))
  <2>1. i - 1 \in 0..m /\ i \in 0..m
    OBVIOUS
  <2>2. tr[i - 1] = Having(w, p, D[i - 1]) /\ tr[i] = Having(w, p, D[i]) /\ D[i - 1] \in Seq(U)
    BY <1>2, <1>7, <2>1
  <2>3. CASE ks[j].key \in Range(nk)
    <3>1. ss[i] = <<>> /\ D[i] = D[i - 1]
      BY <1>3, <1>5, <2>3
    <3> QED BY <2>2, <3>1, HostApplyNone, IsListSingle
  <2>4. CASE ks[j].key \notin Range(nk)
    <3>1. ss[i] = <<x>> /\ D[i] = RemoveAt(D[i - 1], j) /\ j \in 1..Len(D[i - 1])
      BY <1>2, <1>3, <1>5, <2>4
    <3> HIDE DEF j
    <3>2. HostKids(D[i - 1], RemoveKid(j)) = D[i]
      BY <2>2, <3>1, HostKidsIs
    <3>3. HostApply(Having(w, p, D[i - 1]), <<x>>) = Having(w, p, HostKids(D[i - 1], RemoveKid(j)))
      BY <2>2, HostListOp, ListOps
    <3> HIDE DEF x
    <3>4. IsList(<<x>>)
      BY IsListSingle
    <3> QED BY <2>2, <3>1, <3>2, <3>3, <3>4
  <2> QED BY <2>3, <2>4
<1>9. IsList(Concat(ss)) /\ HostApply(tr[0], Concat(ss)) = tr[m]
  BY ONLY m \in Nat, <1>6, <1>8, HostStagesLand
<1> QED BY <1>3, <1>4, <1>7, <1>9 DEF ok, D

(* Insertions and moves, on the document: an element that was there is moved,
   any other is built. *)
LEMMA HostPlaceLands ==
  ASSUME NEW w, NEW p \in Seq(Nat), Sound(w, p), HasKids(At(w, p)),
         NEW U, NEW new, NEW stay, NEW nk, NEW n, Placeable(U, new, stay, nk, n),
         NEW nodes, DOMAIN nodes = DOMAIN new, \A t \in DOMAIN new : new[t] = Build(nodes[t])
  PROVE  /\ IsList(Place(nodes, nk, Keys(stay), p))
         /\ HostApply(Having(w, p, stay), Place(nodes, nk, Keys(stay), p))
              = Having(w, p, Arranged(new, nk, stay)[n])
<1> DEFINE A == Arranged(new, nk, stay)
           c == Placed(nk, Keys(stay))
           ss == [t \in DOMAIN nodes |->
                LET q == Position(c[t - 1], nk[t])
                IN  IF q = 0 THEN <<Patch(p, InsertKid(t, nodes[t]))>>
                    ELSE IF q = t THEN <<>> ELSE <<Patch(p, MoveKid(q, t))>>]
           tr == [i \in 0..n |-> Having(w, p, A[i])]
<1>0. new \in Seq(U) /\ stay \in Seq(U) /\ nk = Keys(new) /\ n \in Nat /\ n = Len(new)
  BY DEF Placeable
<1> USE <1>0
<1>1. DOMAIN new = 1..n /\ Len(nk) = n
  BY <1>0, KeysIs
<1>2. /\ \A t \in 0..n : A[t] \in Seq(U) /\ Keys(A[t]) = c[t] /\ IsInjective(c[t])
      /\ \A t \in 1..n :
              LET before == A[t - 1]
                  q == Position(Keys(before), nk[t])
              IN  IF q = 0 THEN t \in 1..(Len(before) + 1) ELSE q \in 1..Len(before) /\ t \in 1..q
  <2>2. \A t \in 0..n : A[t] \in Seq(U) /\ Keys(A[t]) = c[t] /\ IsInjective(c[t])
    BY ArrangedLands
  <2>3. \A t \in 1..n :
              LET before == A[t - 1]
                  q == Position(Keys(before), nk[t])
              IN  IF q = 0 THEN t \in 1..(Len(before) + 1) ELSE q \in 1..Len(before) /\ t \in 1..q
    BY ArrangedLands
  <2> QED BY <2>2, <2>3
<1>3. A[0] = stay /\ \A t \in 1..n : A[t] =
          (IF Position(Keys(A[t - 1]), nk[t]) = 0 THEN InsertAt(A[t - 1], t, new[t])
           ELSE IF Position(Keys(A[t - 1]), nk[t]) = t THEN A[t - 1]
           ELSE MoveTo(A[t - 1], Position(Keys(A[t - 1]), nk[t]), t))
  <2>1. A[0] = stay /\ \A t \in 1..Len(nk) : A[t] =
          (IF Position(Keys(A[t - 1]), nk[t]) = 0 THEN InsertAt(A[t - 1], t, new[t])
           ELSE IF Position(Keys(A[t - 1]), nk[t]) = t THEN A[t - 1]
           ELSE MoveTo(A[t - 1], Position(Keys(A[t - 1]), nk[t]), t))
    BY <1>0, <1>1, ArrangedIs
  <2> HIDE DEF A
  <2> QED BY <1>1, <2>1
<1>4. Place(nodes, nk, Keys(stay), p) = Concat(ss)
  BY DEF Place
<1> HIDE DEF c, A
<1>5. \A t \in 1..n : ss[t] =
         LET q == Position(c[t - 1], nk[t])
         IN  IF q = 0 THEN <<Patch(p, InsertKid(t, nodes[t]))>>
             ELSE IF q = t THEN <<>> ELSE <<Patch(p, MoveKid(q, t))>>
  BY <1>1
<1>6. ss = [i \in 1..n |-> ss[i]]
  BY <1>1
<1>7. \A i \in 0..n : tr[i] = Having(w, p, A[i])
  OBVIOUS
<1> HIDE DEF ss, tr
<1>8. ASSUME NEW t \in 1..n PROVE IsList(ss[t]) /\ HostApply(tr[t - 1], ss[t]) = tr[t]
  <2> DEFINE q == Position(c[t - 1], nk[t])
             x == Patch(p, InsertKid(t, nodes[t]))
             y == Patch(p, MoveKid(q, t))
             a == A[t - 1]
  <2>1. t - 1 \in 0..n /\ t \in 0..n
    OBVIOUS
  <2>2. tr[t - 1] = Having(w, p, a) /\ tr[t] = Having(w, p, A[t]) /\ a \in Seq(U) /\ Keys(a) = c[t - 1]
        /\ IsInjective(Keys(a))
    BY <1>2, <1>7, <2>1
  <2>3. IF q = 0 THEN t \in 1..(Len(a) + 1) ELSE q \in 1..Len(a) /\ t \in 1..q
    BY <1>2, <2>2
  <2>4. A[t] = IF q = 0 THEN InsertAt(a, t, new[t]) ELSE IF q = t THEN a ELSE MoveTo(a, q, t)
    BY <1>3, <2>2
  <2>5. ss[t] = IF q = 0 THEN <<x>> ELSE IF q = t THEN <<>> ELSE <<y>>
    BY <1>5
  <2> HIDE DEF q, a
  <2>6. CASE q = 0
    <3>1. HostKids(a, InsertKid(t, nodes[t])) = A[t]
      <4>1. HostKids(a, InsertKid(t, nodes[t])) = InsertAt(a, t, Build(nodes[t]))
        BY <2>2, HostKidsIs
      <4>2. new[t] = Build(nodes[t])
        BY <1>1
      <4> QED BY <2>4, <2>6, <4>1, <4>2
    <3>2. HostApply(Having(w, p, a), <<x>>) = Having(w, p, HostKids(a, InsertKid(t, nodes[t])))
      BY <2>2, HostListOp, ListOps
    <3> HIDE DEF x, y
    <3>3. IsList(<<x>>)
      BY IsListSingle
    <3> QED BY <2>2, <2>5, <2>6, <3>1, <3>2, <3>3
  <2>7. CASE q # 0 /\ q = t
    <3> HIDE DEF x, y
    <3> QED BY <2>2, <2>4, <2>5, <2>7, HostApplyNone, IsListSingle
  <2>8. CASE q # 0 /\ q # t
    <3>0. q \in 1..Len(a) /\ t \in 1..Len(a)
      <4>1. Len(a) \in Nat
        BY <2>2
      <4> QED BY <2>3, <2>8, <4>1
    <3>1. HostKids(a, MoveKid(q, t)) = A[t]
      <4>1. HostKids(a, MoveKid(q, t)) = Moved(a, q, t)
        BY <2>2, HostKidsIs
      <4>2. t \in 1..q
        BY <2>3, <2>8
      <4>3. Moved(a, q, t) = MoveTo(a, q, t)
        BY <2>2, <2>8, <3>0, <4>2, MovedIs
      <4> QED BY <2>4, <2>8, <4>1, <4>3
    <3>2. HostApply(Having(w, p, a), <<y>>) = Having(w, p, HostKids(a, MoveKid(q, t)))
      BY <2>2, HostListOp, ListOps
    <3> HIDE DEF x, y
    <3>3. IsList(<<y>>)
      BY IsListSingle
    <3> QED BY <2>2, <2>5, <2>8, <3>1, <3>2, <3>3
  <2> QED BY <2>6, <2>7, <2>8
<1>9. IsList(Concat(ss)) /\ HostApply(tr[0], Concat(ss)) = tr[n]
  BY ONLY n \in Nat, <1>6, <1>8, HostStagesLand
<1> QED BY <1>3, <1>4, <1>7, <1>9, SMTT(60) DEF A

-----------------------------------------------------------------------------
(* Patches of one element, wherever in the document it stands *)

-----------------------------------------------------------------------------
(* Patches that make one element of the document another, wherever in a
   document it stands *)

HostLands(ps, path, e, e2) ==
  \A w : Sound(w, path) /\ At(w, path) = e => IsList(ps) /\ HostApply(w, ps) = Put(w, path, e2)

(* No patches leave the element as it is. *)
LEMMA HostLandsNone ==
  ASSUME NEW path \in Seq(Nat), NEW e
  PROVE  HostLands(<<>>, path, e, e)
<1>1. ASSUME NEW w, Sound(w, path), At(w, path) = e PROVE HostApply(w, <<>>) = Put(w, path, e)
  <2>1. Put(w, path, At(w, path)) = w
    BY <1>1, PutAt
  <2> QED BY <1>1, <2>1, HostApplyNone
<1> QED BY <1>1, IsListSingle DEF HostLands

(* One op *)
LEMMA HostLandsOp ==
  ASSUME NEW path, NEW e, NEW op
  PROVE  HostLands(<<Patch(path, op)>>, path, e, HostOp(e, op))
<1> DEFINE x == Patch(path, op)
<1>1. \A w : HostApply(w, <<x>>) = Put(w, path, HostOp(At(w, path), op))
  BY HostNodeOp
<1> HIDE DEF x
<1>2. IsList(<<x>>)
  BY IsListSingle
<1>3. HostLands(<<x>>, path, e, HostOp(e, op))
  BY <1>1, <1>2 DEF HostLands
<1> QED BY <1>3 DEF x

(* One list of patches after another *)
LEMMA HostLandsThen ==
  ASSUME NEW path \in Seq(Nat), NEW ps, NEW qs, NEW e, NEW e2, NEW e3,
         HostLands(ps, path, e, e2), HostLands(qs, path, e2, e3)
  PROVE  HostLands(ps \o qs, path, e, e3)
<1>3. ASSUME NEW w, Sound(w, path), At(w, path) = e
      PROVE  IsList(ps \o qs) /\ HostApply(w, ps \o qs) = Put(w, path, e3)
  <2>1. IsList(ps) /\ HostApply(w, ps) = Put(w, path, e2)
    BY <1>3 DEF HostLands
  <2>2. Sound(Put(w, path, e2), path) /\ At(Put(w, path, e2), path) = e2
    BY <1>3, AtPut
  <2>3. IsList(qs) /\ HostApply(Put(w, path, e2), qs) = Put(Put(w, path, e2), path, e3)
    BY <2>2 DEF HostLands
  <2>4. Put(Put(w, path, e2), path, e3) = Put(w, path, e3)
    BY <1>3, PutPut
  <2>5. IsList(ps \o qs) /\ HostApply(w, ps \o qs) = HostApply(HostApply(w, ps), qs)
    BY <2>1, <2>3, HostListConcat
  <2> QED BY <2>1, <2>3, <2>4, <2>5
<1> QED BY <1>3 DEF HostLands

(* Patches of a list of children, when it is known what they make of it *)
LEMMA HostLandsList ==
  ASSUME NEW path \in Seq(Nat), NEW ps, NEW e, HasKids(e), NEW es2,
         \A w : Sound(w, path) /\ HasKids(At(w, path)) =>
                  IsList(ps) /\ HostApply(Having(w, path, e.kids), ps) = Having(w, path, es2)
  PROVE  HostLands(ps, path, e, Rekid(e, es2))
<1>1. ASSUME NEW w, Sound(w, path), At(w, path) = e
      PROVE  IsList(ps) /\ HostApply(w, ps) = Put(w, path, Rekid(e, es2))
  <2>1. Having(w, path, At(w, path).kids) = w
    BY <1>1, HavingSame
  <2>2. IsList(ps) /\ HostApply(Having(w, path, e.kids), ps) = Having(w, path, es2)
    BY <1>1
  <2> QED BY <1>1, <2>1, <2>2 DEF Having
<1> QED BY <1>1 DEF HostLands

(* Each child is patched where it stands, one after another. *)
HostInPlace(es, es2, p, ss) ==
  /\ Len(es2) = Len(es)
  /\ ss = [i \in 1..Len(es) |-> ss[i]]
  /\ \A i \in 1..Len(es) : HostLands(ss[i], Append(p, i), es[i], es2[i])

(* Children patched where they stand *)
LEMMA HostDescendLands ==
  ASSUME NEW w, NEW p \in Seq(Nat), Sound(w, p), HasKids(At(w, p)),
         NEW T, NEW ks \in Seq(T), NEW new \in Seq(T), NEW ss, HostInPlace(ks, new, p, ss)
  PROVE  IsList(Concat(ss)) /\ HostApply(Having(w, p, ks), Concat(ss)) = Having(w, p, new)
<1>0. PICK n \in Nat : n = Len(ks) /\ n = Len(new)
  BY DEF HostInPlace
<1>p2. ss = [i \in 1..n |-> ss[i]]
  BY <1>0 DEF HostInPlace
<1>p3. \A i \in 1..n : HostLands(ss[i], Append(p, i), ks[i], new[i])
  BY <1>0 DEF HostInPlace
<1> DEFINE M(t) == [i \in 1..n |-> IF i <= t THEN new[i] ELSE ks[i]]
           tr == [i \in 0..n |-> Having(w, p, M(i))]
<1>1. \A i \in 1..n : new[i] \in T
  BY <1>0
<1>2. \A i \in 1..n : new[i] \in T /\ ks[i] \in T
  <2>1. \A i \in 1..Len(ks) : ks[i] \in T
    OBVIOUS
  <2>2. \A i \in 1..n : ks[i] \in T
    BY ONLY <1>0, <2>1
  <2> QED BY <1>1, <2>2
<1>3. ASSUME NEW t \in 0..n
      PROVE  M(t) \in Seq(T) /\ Len(M(t)) = n /\ \A i \in 1..n : M(t)[i] = IF i <= t THEN new[i] ELSE ks[i]
  <2>2. \A i \in 1..n : (IF i <= t THEN new[i] ELSE ks[i]) \in T
    BY <1>2
  <2>3. M(t) \in [1..n -> T]
    BY <2>2
  <2>4. \A i \in 1..n : M(t)[i] = IF i <= t THEN new[i] ELSE ks[i]
    OBVIOUS
  <2> HIDE DEF M
  <2>5. M(t) \in Seq(T) /\ Len(M(t)) = n
    BY ONLY <2>3, n \in Nat
  <2> QED BY <2>4, <2>5
<1> HIDE DEF M
<1>4. M(0) = ks /\ M(n) = new
  <2>1. M(0) \in Seq(T) /\ Len(M(0)) = n /\ \A i \in 1..n : M(0)[i] = ks[i]
    BY <1>3
  <2>2. M(n) \in Seq(T) /\ Len(M(n)) = n /\ \A i \in 1..n : M(n)[i] = new[i]
    BY <1>3
  <2> QED BY <1>0, <2>1, <2>2, SeqEqual, ZenonT(60)
<1>5. \A i \in 0..n : tr[i] = Having(w, p, M(i))
  OBVIOUS
<1> HIDE DEF tr
<1>6. ASSUME NEW t \in 1..n PROVE IsList(ss[t]) /\ HostApply(tr[t - 1], ss[t]) = tr[t]
  <2>1. PICK u \in 0..n : u = t - 1
    OBVIOUS
  <2>2. t \in 0..n /\ t \in 1..n
    OBVIOUS
  <2> DEFINE a == M(u)
             b == M(t)
  <2>3. a \in Seq(T) /\ Len(a) = n /\ \A i \in 1..n : a[i] = IF i <= u THEN new[i] ELSE ks[i]
    BY <1>3
  <2>4. b \in Seq(T) /\ Len(b) = n /\ \A i \in 1..n : b[i] = IF i <= t THEN new[i] ELSE ks[i]
    BY <1>3, <2>2
  <2>5. tr[t - 1] = Having(w, p, a) /\ tr[t] = Having(w, p, b)
    BY <1>5, <2>1, <2>2
  <2> HIDE DEF a, b
  <2>6. a[t] = ks[t] /\ b[t] = new[t] /\ ks[t] \in T /\ new[t] \in T
    BY <1>2, <2>1, <2>2, <2>3, <2>4
  <2>7. [a EXCEPT ![t] = new[t]] = b
    <3>1. [a EXCEPT ![t] = new[t]] \in Seq(T) /\ Len([a EXCEPT ![t] = new[t]]) = n
          /\ \A j \in 1..n : [a EXCEPT ![t] = new[t]][j] = IF j = t THEN new[t] ELSE a[j]
      BY <2>2, <2>3, <2>6, ExceptSeq
    <3> DEFINE d == [a EXCEPT ![t] = new[t]]
    <3> HIDE DEF d
    <3>2. \A j \in 1..n : d[j] = b[j]
      <4> SUFFICES ASSUME NEW j \in 1..n PROVE d[j] = b[j]
        OBVIOUS
      <4>1. d[j] = IF j = t THEN new[t] ELSE a[j]
        BY <3>1 DEF d
      <4>2. CASE j = t
        BY <2>6, <4>1, <4>2
      <4>3. CASE j # t
        <5>1. d[j] = a[j]
          BY <4>1, <4>3
        <5>2. (j <= u) <=> (j <= t)
          BY <2>1, <4>3
        <5> QED BY <2>3, <2>4, <5>1, <5>2
      <4> QED BY <4>2, <4>3
    <3>3. d \in Seq(T) /\ Len(d) = n
      BY <3>1 DEF d
    <3>4. d = b
      BY <2>4, <3>2, <3>3, SeqEqual
    <3> QED BY <3>4 DEF d
  <2> DEFINE v == Having(w, p, a)
             q == Append(p, t)
  <2>8. /\ q \in Seq(Nat) /\ Sound(v, q) /\ At(v, q) = ks[t]
        /\ Put(v, q, new[t]) = Having(w, p, [a EXCEPT ![t] = new[t]])
    <3>1. t \in 1..Len(a)
      BY <2>2, <2>3
    <3>2. a \in Seq(T) /\ p \in Seq(Nat) /\ Sound(w, p) /\ HasKids(At(w, p))
      BY <2>3
    <3>3. PICK z : z = new[t]
      OBVIOUS
    <3>4. /\ Append(p, t) \in Seq(Nat) /\ Sound(Having(w, p, a), Append(p, t))
          /\ At(Having(w, p, a), Append(p, t)) = a[t]
          /\ Put(Having(w, p, a), Append(p, t), z) = Having(w, p, [a EXCEPT ![t] = z])
      BY <3>1, <3>2, ChildPut
    <3> QED BY <2>6, <3>3, <3>4
  <2> HIDE DEF v, q
  <2>9. HostLands(ss[t], q, ks[t], new[t])
    BY <1>p3 DEF q
  <2>10. IsList(ss[t]) /\ HostApply(v, ss[t]) = Put(v, q, new[t])
    BY <2>8, <2>9 DEF HostLands
  <2> QED BY <2>5, <2>7, <2>8, <2>10 DEF v
<1>7. IsList(Concat(ss)) /\ HostApply(tr[0], Concat(ss)) = tr[n]
  BY ONLY <1>0, <1>p2, <1>6, HostStagesLand
<1>8. tr[0] = Having(w, p, ks) /\ tr[n] = Having(w, p, new)
  <2>1. tr[0] = Having(w, p, M(0)) /\ tr[n] = Having(w, p, M(n))
    BY <1>5
  <2> QED BY <1>4, <2>1
<1> QED BY <1>7, <1>8

(* The same, as patches of their parent *)
LEMMA HostLandsKids ==
  ASSUME NEW p \in Seq(Nat), NEW e, HasKids(e), NEW T, e.kids \in Seq(T), NEW new \in Seq(T),
         NEW ss, HostInPlace(e.kids, new, p, ss)
  PROVE  HostLands(Concat(ss), p, e, Rekid(e, new))
<1>1. PICK ks \in Seq(T) : ks = e.kids
  OBVIOUS
<1>2. HostInPlace(ks, new, p, ss)
  BY <1>1
<1>3. ASSUME NEW w, Sound(w, p), HasKids(At(w, p))
      PROVE  IsList(Concat(ss)) /\ HostApply(Having(w, p, e.kids), Concat(ss)) = Having(w, p, new)
  BY <1>1, <1>2, <1>3, HostDescendLands
<1> QED BY <1>3, HostLandsList

-----------------------------------------------------------------------------
(* The views of the application, and the elements that show them *)

-----------------------------------------------------------------------------
(* The application's views are trees that the reconciler takes *)

Models == [items : Lists \cup {<<>>}, field : Texts]
ItemLists == {items \in Seq([key : NodeKeys, self : NodeData]) : IsInjective(Keys(items))}
ItemNodes(items) == [i \in DOMAIN items |-> Node("li", items[i].key, items[i].self, <<>>)]
FieldNode(m) == Node("input", NoKey, m.field, <<>>)
ListNode(k, m) == Node("ul", NoKey, k, ItemNodes(m.items))

(* The items of a model have keys of their own. *)
LEMMA ModelsAre ==
  ASSUME NEW m \in Models
  PROVE  m.items \in ItemLists /\ m.field \in Texts
<1>1. <<>> \in ItemLists
  <2>1. <<>> \in Seq([key : NodeKeys, self : NodeData])
    OBVIOUS
  <2>2. IsInjective(Keys(<<>>))
    BY DEF Keys, IsInjective
  <2> QED BY <2>1, <2>2 DEF ItemLists
<1>2. m.items \in Lists \cup {<<>>} /\ m.field \in Texts
  BY DEF Models
<1>3. Lists \subseteq ItemLists
  BY DomRemoteAssumption DEF ItemLists
<1> QED BY <1>1, <1>2, <1>3

(* A node without children is a tree of any height. *)
LEMMA LeafInTree ==
  ASSUME NEW tag \in NodeTags, NEW key \in NodeKeys \cup {NoKey}, NEW self \in NodeData,
         NEW n \in 1..Height
  PROVE  Node(tag, key, self, <<>>) \in Tree[n]
<1>1. Tree[n] = Nodes(Tree[n - 1])
  BY TreeIs, DomRemoteAssumption, TreeDiffAssumption
<1>2. <<>> \in Seq(Tree[n - 1])
  OBVIOUS
<1> QED BY <1>1, <1>2 DEF Nodes, Node

(* A node whose children are trees is one of a level more. *)
LEMMA NodeInTree ==
  ASSUME NEW tag \in NodeTags, NEW key \in NodeKeys \cup {NoKey}, NEW self \in NodeData,
         NEW n \in 1..Height, NEW kids \in Seq(Tree[n - 1])
  PROVE  Node(tag, key, self, kids) \in Tree[n]
<1>1. Tree[n] = Nodes(Tree[n - 1])
  BY TreeIs, TreeDiffAssumption
<1> QED BY <1>1 DEF Nodes, Node

(* The nodes of a list of items: they pair by key unless there are none. *)
LEMMA ItemNodesAre ==
  ASSUME NEW items \in ItemLists, NEW m \in Nat, m = Len(items), NEW n \in 1..Height
  PROVE  /\ ItemNodes(items) \in Seq(Tree[n]) /\ Len(ItemNodes(items)) = m
         /\ DOMAIN ItemNodes(items) = 1..m
         /\ \A i \in 1..m : /\ ItemNodes(items)[i] = Node("li", items[i].key, items[i].self, <<>>)
                            /\ ItemNodes(items)[i] \in Tree[n]
                            /\ items[i].key \in NodeKeys /\ items[i].self \in NodeData
         /\ Keys(ItemNodes(items)) = Keys(items)
         /\ IsInjective(Keys(items))
         /\ m # 0 => Keyed(ItemNodes(items))
         /\ m = 0 => ~ Keyed(ItemNodes(items)) /\ ItemNodes(items) = <<>>
<1> DEFINE s == ItemNodes(items)
<1>1. items \in Seq([key : NodeKeys, self : NodeData]) /\ IsInjective(Keys(items))
  BY DEF ItemLists
<1>2. DOMAIN items = 1..m /\ \A i \in 1..m : items[i] \in [key : NodeKeys, self : NodeData]
  <2>1. PICK R : R = [key : NodeKeys, self : NodeData]
    OBVIOUS
  <2>2. items \in Seq(R)
    BY <1>1, <2>1
  <2>3. DOMAIN items = 1..m /\ \A i \in 1..m : items[i] \in R
    BY ONLY <2>2, m = Len(items)
  <2> QED BY <2>1, <2>3
<1>3. \A i \in 1..m : items[i].key \in NodeKeys /\ items[i].self \in NodeData
  BY <1>2
<1>4. s = [i \in 1..m |-> Node("li", items[i].key, items[i].self, <<>>)]
  BY <1>2 DEF ItemNodes
<1>5. ASSUME NEW i \in 1..m PROVE Node("li", items[i].key, items[i].self, <<>>) \in Tree[n]
  <2>1. "li" \in NodeTags /\ items[i].key \in NodeKeys \cup {NoKey} /\ items[i].self \in NodeData
    BY <1>3, DomRemoteAssumption
  <2> QED BY <2>1, LeafInTree
<1>6. \A i \in 1..m : s[i] = Node("li", items[i].key, items[i].self, <<>>) /\ s[i] \in Tree[n]
  BY <1>4, <1>5
<1>7. s \in [1..m -> Tree[n]]
  BY <1>4, <1>5
<1> HIDE DEF s
<1>8. s \in Seq(Tree[n]) /\ Len(s) = m /\ DOMAIN s = 1..m
  BY ONLY <1>7, m \in Nat
<1>9. \A i \in 1..m : s[i].key = items[i].key
  <2> SUFFICES ASSUME NEW i \in 1..m PROVE s[i].key = items[i].key
    OBVIOUS
  <2>1. s[i] = Node("li", items[i].key, items[i].self, <<>>)
    BY <1>6
  <2> QED BY <2>1 DEF Node
<1>10. Keys(s) = [i \in 1..m |-> items[i].key] /\ Keys(items) = [i \in 1..m |-> items[i].key]
  BY <1>2, <1>8, <1>9 DEF Keys
<1>11. m # 0 => Keyed(s)
  <2> SUFFICES ASSUME m # 0 PROVE Keyed(s)
    OBVIOUS
  <2>1. s # <<>>
    BY <1>8
  <2>2. NoKey \notin Range(Keys(s))
    <3>1. \A i \in 1..m : items[i].key # NoKey
      BY <1>3, TreeDiffAssumption
    <3> QED BY <1>10, <3>1 DEF Range
  <2> QED BY <1>1, <1>10, <2>1, <2>2 DEF Keyed
<1>12. m = 0 => ~ Keyed(s) /\ s = <<>>
  <2>1. m = 0 => s = <<>>
    BY <1>8
  <2> QED BY <2>1 DEF Keyed
<1> QED BY <1>1, <1>3, <1>6, <1>8, <1>10, <1>11, <1>12 DEF s

(* A view is a tree of three levels, its list one of two. *)
LEMMA ViewInTree ==
  ASSUME NEW k \in SUBSET Tags, NEW m \in Models
  PROVE  /\ View(k, m) = Node("div", NoKey, NoText, <<FieldNode(m), ListNode(k, m)>>)
         /\ View(k, m) \in Tree[Height]
         /\ FieldNode(m) \in Tree[Height - 1] /\ ListNode(k, m) \in Tree[Height - 1]
         /\ Height \in 1..Height /\ Height - 1 \in 1..Height /\ Height - 2 \in 1..Height
<1>1. m.items \in ItemLists /\ m.field \in Texts
  BY ModelsAre
<1>2. Height \in Nat /\ Height >= 3
  BY DomRemoteAssumption, TreeDiffAssumption
<1>3. Height \in 1..Height /\ Height - 1 \in 1..Height /\ Height - 2 \in 1..Height /\ (Height - 1) - 1 = Height - 2
  BY <1>2
<1>4. FieldNode(m) \in Tree[Height - 1]
  <2>1. "input" \in NodeTags /\ m.field \in NodeData
    BY <1>1, DomRemoteAssumption
  <2> QED BY <1>3, <2>1, LeafInTree DEF FieldNode
<1>5. ListNode(k, m) \in Tree[Height - 1]
  <2>1. "ul" \in NodeTags /\ k \in NodeData
    BY DomRemoteAssumption
  <2>2. PICK c \in Nat : c = Len(m.items)
    BY <1>1 DEF ItemLists
  <2>3. ItemNodes(m.items) \in Seq(Tree[(Height - 1) - 1])
    BY <1>1, <1>3, <2>2, ItemNodesAre
  <2> QED BY <1>3, <2>1, <2>3, NodeInTree DEF ListNode
<1>6. View(k, m) = Node("div", NoKey, NoText, <<FieldNode(m), ListNode(k, m)>>)
  BY DEF View, FieldNode, ListNode, ItemNodes
<1>7. Node("div", NoKey, NoText, <<FieldNode(m), ListNode(k, m)>>) \in Tree[Height]
  <2>1. "div" \in NodeTags /\ NoText \in NodeData
    BY DomRemoteAssumption
  <2>2. <<FieldNode(m), ListNode(k, m)>> \in Seq(Tree[Height - 1])
    <3>1. \A T, a, b : a \in T /\ b \in T => <<a, b>> \in Seq(T)
      OBVIOUS
    <3> QED BY <1>4, <1>5, <3>1, Zenon
  <2> QED BY <1>3, <2>1, <2>2, NodeInTree
<1> QED BY <1>3, <1>4, <1>5, <1>6, <1>7

(* The difference of two trees is what diff_at answers. *)
LEMMA DifferenceIs ==
  ASSUME NEW n \in 1..Height, NEW old \in Tree[n], NEW new \in Tree[n], NEW p \in Seq(Nat)
  PROVE  Differences[n][<<old, new, p>>] = DiffAt(Differences[n - 1], old, new, p)
<1>1. Differences[n] = [pair \in Tree[n] \X Tree[n] \X Seq(Nat) |->
                          DiffAt(Differences[n - 1], pair[1], pair[2], pair[3])]
  BY DifferencesIs, TreeDiffAssumption
<1>2. <<old, new, p>> \in Tree[n] \X Tree[n] \X Seq(Nat)
  OBVIOUS
<1> QED BY <1>1, <1>2

(* Two lists of nothing *)
LEMMA DiffOfNoKids ==
  ASSUME NEW below, NEW p
  PROVE  DiffKids(below, <<>>, <<>>, p) = <<>>
<1>1. ~ Keyed(<<>>)
  BY DEF Keyed
<1>2. \A ss : Len(ss) = 0 => Concat(ss) = <<>>
  <2> SUFFICES ASSUME NEW ss, Len(ss) = 0 PROVE Concat(ss) = <<>>
    OBVIOUS
  <2>1. Joined(ss)[0] = <<>>
    <3>1. Len(ss) \in Nat
      OBVIOUS
    <3> QED BY <3>1, JoinedIs
  <2> QED BY <2>1 DEF Concat
<1> DEFINE ss == [i \in 1..0 |-> below[<<<<>>[i], <<>>[i], Append(p, i)>>]]
<1>3. Len(ss) = 0
  OBVIOUS
<1>4. DiffIndexed(below, <<>>, <<>>, p) = Concat(ss) \o <<>>
  BY DEF DiffIndexed
<1> HIDE DEF ss
<1>5. Concat(ss) = <<>>
  BY <1>2, <1>3
<1>6. <<>> \o <<>> = <<>>
  OBVIOUS
<1> QED BY <1>1, <1>4, <1>5, <1>6 DEF DiffKids

(* An input element or an item: at most its data are set *)
LEMMA LeafPatched ==
  ASSUME NEW below, NEW p \in Seq(Nat), NEW e, NEW tag, tag # "text", NEW key, NEW s0, NEW s1
  PROVE  HostLands(DiffAt(below, Node(tag, key, s0, <<>>), Node(tag, key, s1, <<>>), p), p, e,
                   IF s0 = s1 THEN e ELSE WithSelf(e, s1))
<1> DEFINE a == Node(tag, key, s0, <<>>)
           b == Node(tag, key, s1, <<>>)
           x == Patch(p, SetSelf(b))
<1>1. CASE s0 = s1
  <2>1. DiffAt(below, a, b, p) = <<>>
    BY <1>1 DEF DiffAt
  <2> QED BY <1>1, <2>1, HostLandsNone
<1>2. CASE s0 # s1
  <2>1. a.self = s0 /\ b.self = s1 /\ a.kids = <<>> /\ b.kids = <<>> /\ a # b /\ Related(a, b)
    BY <1>2 DEF Node, Related
  <2> HIDE DEF a, b
  <2>2. DiffAt(below, a, b, p) = <<x>> \o DiffKids(below, <<>>, <<>>, p)
    BY <1>2, <2>1 DEF DiffAt
  <2>3. <<x>> \o <<>> = <<x>>
    <3> HIDE DEF x
    <3> QED OBVIOUS
  <2>4. HostOp(e, SetSelf(b)) = WithSelf(e, s1)
    BY <2>1 DEF HostOp, SetSelf
  <2>5. HostLands(<<x>>, p, e, WithSelf(e, s1))
    BY <2>4, HostLandsOp
  <2>6. DiffAt(below, a, b, p) = <<x>>
    BY <2>2, <2>3, DiffOfNoKids
  <2> HIDE DEF x
  <2> QED BY <1>2, <2>5, <2>6 DEF a, b
<1> QED BY <1>1, <1>2

-----------------------------------------------------------------------------
(* The elements that show a list of items *)

LeafElements == ElementsOver({<<>>})
Named(e) == e.id.tag = e.tag /\ e.id.key = e.key
IsItem(e, item) ==
  /\ e \in LeafElements /\ Named(e) /\ e.tag = "li"
  /\ e.key = item.key /\ e.self = item.self
ShowsItems(es, items) ==
  /\ es \in Seq(LeafElements) /\ Len(es) = Len(items)
  /\ \A i \in 1..Len(items) : IsItem(es[i], items[i])
SameIds(es, es2) ==
  \A i \in DOMAIN es, j \in DOMAIN es2 : es[i].key = es2[j].key => es[i].id = es2[j].id


(* A new element *)
LEMMA ElementIs ==
  ASSUME NEW S, NEW kids \in S, NEW w, w.tag \in NodeTags, w.key \in NodeKeys \cup {NoKey},
         w.self \in NodeData, applied \in Nat
  PROVE  /\ Element(w, kids) \in ElementsOver(S) /\ Named(Element(w, kids))
         /\ Element(w, kids).tag = w.tag /\ Element(w, kids).key = w.key
         /\ Element(w, kids).self = w.self /\ Element(w, kids).kids = kids
         /\ Element(w, kids).id.built = applied
BY DEF Element, ElementsOver, Ids, Named

(* The element built for an item *)
LEMMA BuiltItem ==
  ASSUME NEW key \in NodeKeys, NEW self \in NodeData, applied \in Nat
  PROVE  LET e == Build(Node("li", key, self, <<>>))
         IN  e \in LeafElements /\ Named(e) /\ e.tag = "li" /\ e.key = key /\ e.self = self
<1> DEFINE w == Node("li", key, self, <<>>)
           F(i) == Element(w.kids[i], [j \in DOMAIN w.kids[i].kids |-> Element(w.kids[i].kids[j], <<>>)])
           kids == [i \in DOMAIN w.kids |-> F(i)]
<1>1. w.tag = "li" /\ w.key = key /\ w.self = self /\ w.kids = <<>>
  BY DEF Node
<1> HIDE DEF w
<1>2. kids = <<>>
  <2>1. DOMAIN w.kids = {}
    BY <1>1
  <2> HIDE DEF F
  <2>2. kids = [i \in {} |-> F(i)]
    BY <2>1
  <2>3. <<>> = [i \in {} |-> F(i)]
    OBVIOUS
  <2> QED BY <2>2, <2>3
<1>3. Build(w) = Element(w, kids)
  BY DEF Build
<1> HIDE DEF kids
<1>4. "li" \in NodeTags
  BY DomRemoteAssumption
<1>5. <<>> \in {<<>>}
  OBVIOUS
<1>6. /\ Element(w, <<>>) \in ElementsOver({<<>>}) /\ Named(Element(w, <<>>))
      /\ Element(w, <<>>).tag = w.tag /\ Element(w, <<>>).key = w.key
      /\ Element(w, <<>>).self = w.self
  BY <1>1, <1>4, <1>5, ElementIs, ZenonT(60)
<1>7. /\ Build(w) \in LeafElements /\ Named(Build(w))
      /\ Build(w).tag = "li" /\ Build(w).key = key /\ Build(w).self = self
  BY <1>1, <1>2, <1>3, <1>6 DEF LeafElements
<1> QED BY <1>7 DEF w

(* An element's data set: its identity stays. *)
LEMMA WithSelfIs ==
  ASSUME NEW S, NEW e \in ElementsOver(S), NEW s \in NodeData
  PROVE  /\ WithSelf(e, s) \in ElementsOver(S)
         /\ WithSelf(e, s).self = s /\ WithSelf(e, s).id = e.id /\ WithSelf(e, s).tag = e.tag
         /\ WithSelf(e, s).key = e.key /\ WithSelf(e, s).kids = e.kids
         /\ e.self = s => WithSelf(e, s) = e
BY DEF WithSelf, ElementsOver

(* An element is a node in the sense of `rekid`, which keeps its identity. *)
LEMMA ElementHasKids ==
  ASSUME NEW S, NEW U, S \subseteq Seq(U), NEW e \in ElementsOver(S)
  PROVE  /\ HasKids(e) /\ e.kids \in S
         /\ \A ks : /\ Rekid(e, ks).kids = ks /\ Rekid(e, ks).id = e.id /\ Rekid(e, ks).tag = e.tag
                    /\ Rekid(e, ks).key = e.key /\ Rekid(e, ks).self = e.self
         /\ \A T : \A ks \in T : Rekid(e, ks) \in ElementsOver(T)
BY DEF HasKids, Rekid, ElementsOver

-----------------------------------------------------------------------------
(* Items patched: by key, or all at once *)

(* The elements that show items have their keys. *)
LEMMA ItemKeys ==
  ASSUME NEW items \in ItemLists, NEW es, ShowsItems(es, items), NEW m \in Nat, m = Len(items)
  PROVE  /\ es \in Seq(LeafElements) /\ Len(es) = m /\ DOMAIN es = 1..m
         /\ Keys(es) = Keys(ItemNodes(items)) /\ IsInjective(Keys(es))
         /\ DOMAIN Keys(es) = 1..m
         /\ \A i \in 1..m : IsItem(es[i], items[i]) /\ Keys(es)[i] = items[i].key /\ es[i].key = items[i].key
<1>1. es \in Seq(LeafElements) /\ Len(es) = m /\ \A i \in 1..m : IsItem(es[i], items[i])
  BY DEF ShowsItems
<1>2. DOMAIN es = 1..m
  BY ONLY <1>1, m \in Nat
<1>3. \A i \in 1..m : es[i].key = items[i].key
  BY <1>1 DEF IsItem
<1>4. DOMAIN items = 1..m /\ IsInjective(Keys(items))
  BY DEF ItemLists
<1>5. Keys(es) = [i \in 1..m |-> items[i].key]
  BY <1>2, <1>3 DEF Keys
<1>6. Keys(items) = [i \in 1..m |-> items[i].key]
  BY <1>4 DEF Keys
<1>7. Keys(ItemNodes(items)) = [i \in 1..m |-> items[i].key]
  <2>1. DOMAIN ItemNodes(items) = 1..m
    BY <1>4 DEF ItemNodes
  <2>2. ASSUME NEW i \in 1..m PROVE ItemNodes(items)[i].key = items[i].key
    BY <1>4 DEF ItemNodes, Node
  <2> QED BY <2>1, <2>2 DEF Keys
<1> QED BY <1>1, <1>2, <1>3, <1>4, <1>5, <1>6, <1>7

(* Elements built for items show them. *)
LEMMA FreshItems ==
  ASSUME NEW items \in ItemLists, applied \in Nat, NEW m \in Nat, m = Len(items),
         NEW fresh, fresh = [i \in 1..m |-> Build(Node("li", items[i].key, items[i].self, <<>>))]
  PROVE  ShowsItems(fresh, items)
<1>1. \A i \in 1..m : items[i].key \in NodeKeys /\ items[i].self \in NodeData
  <2>1. PICK R : R = [key : NodeKeys, self : NodeData]
    OBVIOUS
  <2>2. items \in Seq(R)
    BY <2>1 DEF ItemLists
  <2>3. \A i \in 1..m : items[i] \in R
    BY ONLY <2>2, m = Len(items)
  <2> QED BY <2>1, <2>3
<1>2. ASSUME NEW i \in 1..m PROVE IsItem(fresh[i], items[i])
  <2> DEFINE e == Build(Node("li", items[i].key, items[i].self, <<>>))
  <2>1. e \in LeafElements /\ Named(e) /\ e.tag = "li" /\ e.key = items[i].key /\ e.self = items[i].self
    BY <1>1, BuiltItem
  <2>2. fresh[i] = e
    OBVIOUS
  <2> HIDE DEF e
  <2> QED BY <2>1, <2>2 DEF IsItem
<1>3. \A i \in 1..m : fresh[i] \in LeafElements
  BY <1>2 DEF IsItem
<1>4. fresh \in [1..m -> LeafElements]
  BY <1>3
<1>5. fresh \in Seq(LeafElements) /\ Len(fresh) = m
  BY ONLY <1>4, m \in Nat
<1> QED BY <1>2, <1>5 DEF ShowsItems

(* The items of both lists pair by key: the elements that show the old ones
   come to show the new ones, and an item that both have keeps its element. *)
LEMMA KeyedItemsPatched ==
  ASSUME applied \in Nat, NEW n \in 1..Height, NEW p \in Seq(Nat),
         NEW items0 \in ItemLists, NEW items1 \in ItemLists, items0 # <<>>, items1 # <<>>,
         NEW es, ShowsItems(es, items0), NEW e, HasKids(e), e.kids = es
  PROVE  \E es2 : /\ ShowsItems(es2, items1) /\ SameIds(es, es2)
                  /\ HostLands(DiffKids(Differences[n], ItemNodes(items0), ItemNodes(items1), p), p,
                               e, Rekid(e, es2))
<1> DEFINE old == ItemNodes(items0)
           new == ItemNodes(items1)
           below == Differences[n]
           ok == Keys(old)
           nk == Keys(new)
           U == LeafElements
           fresh == [t \in 1..Len(items1) |-> Build(new[t])]
<1>1. PICK m \in Nat : m = Len(items0) /\ m # 0
  BY DEF ItemLists
<1>2. PICK k \in Nat : k = Len(items1) /\ k # 0
  BY DEF ItemLists
<1>3. /\ es \in Seq(U) /\ Len(es) = m /\ DOMAIN es = 1..m
      /\ Keys(es) = ok /\ IsInjective(ok) /\ DOMAIN ok = 1..m
      /\ \A i \in 1..m : IsItem(es[i], items0[i]) /\ ok[i] = items0[i].key /\ es[i].key = ok[i]
  BY <1>1, ItemKeys
<1>4. /\ new \in Seq(Tree[n]) /\ Len(new) = k /\ DOMAIN new = 1..k
      /\ IsInjective(Keys(items1)) /\ Keys(new) = Keys(items1) /\ Keyed(new)
      /\ \A i \in 1..k : new[i] = Node("li", items1[i].key, items1[i].self, <<>>) /\ new[i] \in Tree[n]
      /\ \A i \in 1..k : items1[i].key \in NodeKeys /\ items1[i].self \in NodeData
  BY <1>2, ItemNodesAre
<1>5. /\ old \in Seq(Tree[n]) /\ Len(old) = m /\ Keyed(old)
      /\ \A i \in 1..m : old[i] = Node("li", items0[i].key, items0[i].self, <<>>) /\ old[i] \in Tree[n]
  BY <1>1, ItemNodesAre
<1>6. fresh = [t \in 1..k |-> Build(Node("li", items1[t].key, items1[t].self, <<>>))]
  BY <1>2, <1>4
<1>7. /\ fresh \in Seq(U) /\ Len(fresh) = k /\ DOMAIN fresh = 1..k /\ Keys(fresh) = nk /\ IsInjective(nk)
      /\ DOMAIN nk = 1..k
      /\ \A i \in 1..k : IsItem(fresh[i], items1[i]) /\ nk[i] = items1[i].key
  <2>1. ShowsItems(fresh, items1)
    <3> HIDE DEF fresh
    <3> QED BY <1>2, <1>6, FreshItems
  <2> HIDE DEF fresh
  <2> QED BY <1>2, <2>1, ItemKeys
<1>8. \A t \in DOMAIN fresh : fresh[t] = Build(new[t])
  BY <1>7
<1> HIDE DEF old, new, fresh, U
<1> DEFINE stay == Dropped(es, nk)[m]
           arr == Arranged(fresh, nk, stay)[k]
           Descend(t) == LET o == Position(ok, nk[t])
                         IN  IF o = 0 THEN <<>> ELSE below[<<old[o], new[t], Append(p, t)>>]
           ss == [t \in DOMAIN new |-> Descend(t)]
           a == Drops(ok, nk, p)
           b == Place(new, nk, Survivors(ok, nk), p)
           d == Concat(ss)
<1>9. DiffKids(below, old, new, p) = (a \o b) \o d
  BY <1>4, <1>5 DEF DiffKids, DiffKeyed
<1> HIDE DEF ok, nk
<1>10. Keys(stay) = Survivors(ok, nk) /\ stay \in Seq({es[i] : i \in 1..m}) /\ stay \in Seq(U)
  <2>1. /\ \A i \in 0..m : Dropped(es, nk)[i] \in Seq(U)
        /\ Keys(Dropped(es, nk)[m]) = Survivors(Keys(es), nk)
        /\ Dropped(es, nk)[m] \in Seq({es[i] : i \in 1..m})
    <3>0. PICK z \in Seq(U) : z = es
      BY <1>3
    <3>1. \A j \in Nat : j = Len(z) =>
            /\ \A i \in 0..j : Dropped(z, nk)[i] \in Seq(U)
            /\ Keys(Dropped(z, nk)[j]) = Survivors(Keys(z), nk)
            /\ Dropped(z, nk)[j] \in Seq({z[i] : i \in 1..j})
      BY DroppedLands, ZenonT(60)
    <3>2. Len(es) = m
      BY <1>3
    <3> QED BY ONLY m \in Nat, <3>0, <3>1, <3>2
  <2>2. m \in 0..m
    OBVIOUS
  <2>3. Dropped(es, nk)[m] \in Seq(U)
    BY <2>1, <2>2
  <2> QED BY <1>3, <2>1, <2>3
<1>11. IsInjective(Survivors(ok, nk)) /\ Range(Survivors(ok, nk)) = Range(ok) \cap Range(nk)
  <2>1. PICK Q : ok \in Seq(Q)
    BY <1>3, KeysIs
  <2> QED BY <1>3, <2>1, SurvivorsAre
<1>12. Placeable(U, fresh, stay, nk, k)
  <2> HIDE DEF stay
  <2> QED BY <1>7, <1>10, <1>11 DEF Placeable
<1>13. /\ arr \in Seq(U) /\ Len(arr) = k
       /\ \A i \in 1..k : IF nk[i] \in Range(Keys(stay)) THEN arr[i] \in Range(stay) /\ arr[i].key = nk[i]
                                                         ELSE arr[i] = fresh[i]
  <2> HIDE DEF stay
  <2>1. \A t \in 0..k : Arranged(fresh, nk, stay)[t] \in Seq(U)
    BY <1>12, ArrangedLands
  <2>2. Len(Arranged(fresh, nk, stay)[k]) = k
    BY <1>12, ArrangedLands
  <2>3. \A i \in 1..k :
              LET x == Arranged(fresh, nk, stay)[k][i]
              IN  IF nk[i] \in Range(Keys(stay)) THEN x \in Range(stay) /\ x.key = nk[i] ELSE x = fresh[i]
    BY <1>12, ArrangedLands
  <2> QED BY <2>1, <2>2, <2>3
<1> DEFINE es2 == [t \in 1..k |-> LET o == Position(ok, nk[t])
                                   IN  IF o = 0 \/ items0[o].self = items1[t].self
                                       THEN arr[t] ELSE WithSelf(arr[t], items1[t].self)]
<1> HIDE DEF arr, stay, ss, a, b, below
<1>14. ASSUME NEW t \in 1..k, NEW o, o = Position(ok, nk[t])
       PROVE  \/ o = 0 /\ nk[t] \notin Range(ok) /\ arr[t] = fresh[t]
              \/ o \in 1..m /\ ok[o] = nk[t] /\ arr[t] = es[o]
  <2>1. PICK Q : ok \in Seq(Q) /\ nk \in Seq(Q) /\ Len(ok) = m /\ Len(nk) = k
    <3>1. ok \in Seq(KeysOf(U)) /\ nk \in Seq(KeysOf(U))
      BY <1>3, <1>7, KeysIs
    <3>2. Len(ok) = m /\ Len(nk) = k
      BY <1>3, <1>7, <3>1
    <3> QED BY <3>1, <3>2
  <2>2. (o = 0 /\ nk[t] \notin Range(ok)) \/ (o \in 1..m /\ ok[o] = nk[t])
    BY <1>3, <1>14, <2>1, PositionCases
  <2>3. nk[t] \in Range(nk)
    BY <2>1, InRange
  <2>4. CASE o = 0 /\ nk[t] \notin Range(ok)
    <3>1. nk[t] \notin Range(Keys(stay))
      BY <1>10, <1>11, <2>4
    <3> QED BY <1>13, <2>4, <3>1
  <2>5. CASE o \in 1..m /\ ok[o] = nk[t]
    <3>1. nk[t] \in Range(ok)
      BY <2>1, <2>5, InRange
    <3>2. nk[t] \in Range(Keys(stay))
      BY <1>10, <1>11, <2>3, <3>1
    <3>3. arr[t] \in Range(stay) /\ arr[t].key = nk[t]
      BY <1>13, <3>2
    <3>4. PICK j \in 1..m : arr[t] = es[j]
      <4>1. Range(stay) \subseteq {es[j] : j \in 1..m}
        BY <1>10, RangeOfSeq
      <4> QED BY <3>3, <4>1
    <3>5. ok[j] = ok[o]
      BY <1>3, <2>5, <3>3, <3>4
    <3>6. j = o
      BY <1>3, <2>5, <3>5 DEF IsInjective
    <3> QED BY <2>5, <3>4, <3>6
  <2> QED BY <2>2, <2>4, <2>5
<1>15. ASSUME NEW t \in 1..k
       PROVE  /\ IsItem(es2[t], items1[t])
              /\ es2[t].id = arr[t].id
              /\ HostLands(ss[t], Append(p, t), arr[t], es2[t])
  <2> PICK o : o = Position(ok, nk[t])
    OBVIOUS
  <2>1. es2[t] = IF o = 0 \/ items0[o].self = items1[t].self THEN arr[t] ELSE WithSelf(arr[t], items1[t].self)
    OBVIOUS
  <2>2. ss[t] = IF o = 0 THEN <<>> ELSE below[<<old[o], new[t], Append(p, t)>>]
    BY <1>4 DEF ss
  <2>3. Append(p, t) \in Seq(Nat)
    OBVIOUS
  <2> HIDE DEF es2
  <2>4. CASE o = 0 /\ nk[t] \notin Range(ok) /\ arr[t] = fresh[t]
    <3>1. IsItem(es2[t], items1[t]) /\ es2[t] = arr[t]
      BY <1>7, <2>1, <2>4
    <3> QED BY <2>2, <2>3, <2>4, <3>1, HostLandsNone
  <2>5. CASE o \in 1..m /\ ok[o] = nk[t] /\ arr[t] = es[o]
    <3>1. o # 0
      BY <2>5
    <3>2. IsItem(es[o], items0[o]) /\ items0[o].key = items1[t].key
      BY <1>3, <1>7, <2>5
    <3>3. items1[t].self \in NodeData
      BY <1>4
    <3>4. /\ es[o] \in LeafElements /\ Named(es[o]) /\ es[o].tag = "li" /\ es[o].key = items1[t].key
          /\ es[o].self = items0[o].self
      BY <3>2 DEF IsItem
    <3>5. /\ WithSelf(es[o], items1[t].self) \in LeafElements
          /\ WithSelf(es[o], items1[t].self).self = items1[t].self
          /\ WithSelf(es[o], items1[t].self).id = es[o].id
          /\ WithSelf(es[o], items1[t].self).tag = es[o].tag
          /\ WithSelf(es[o], items1[t].self).key = es[o].key
      BY <3>3, <3>4, WithSelfIs DEF LeafElements
    <3>6. IsItem(es2[t], items1[t]) /\ es2[t].id = arr[t].id
      <4>1. CASE items0[o].self = items1[t].self
        BY <2>1, <2>5, <3>4, <4>1 DEF IsItem
      <4>2. CASE items0[o].self # items1[t].self
        <5>1. es2[t] = WithSelf(es[o], items1[t].self)
          BY <2>1, <2>5, <3>1, <4>2
        <5> QED BY <2>5, <3>4, <3>5, <5>1 DEF IsItem, Named
      <4> QED BY <4>1, <4>2
    <3>7. below[<<old[o], new[t], Append(p, t)>>] = DiffAt(Differences[n - 1], old[o], new[t], Append(p, t))
      BY <1>4, <1>5, <2>3, <2>5, DifferenceIs DEF below
    <3>8. old[o] = Node("li", items0[o].key, items0[o].self, <<>>)
      BY <1>5, <2>5
    <3>9. new[t] = Node("li", items0[o].key, items1[t].self, <<>>)
      BY <1>4, <3>2
    <3>10. HostLands(DiffAt(Differences[n - 1], old[o], new[t], Append(p, t)), Append(p, t), arr[t],
                     IF items0[o].self = items1[t].self THEN arr[t] ELSE WithSelf(arr[t], items1[t].self))
      BY <2>3, <3>8, <3>9, LeafPatched, ZenonT(60)
    <3> QED BY <2>1, <2>2, <3>1, <3>6, <3>7, <3>10
  <2> QED BY <1>14, <2>4, <2>5
<1>16. es2 = [t \in 1..k |-> es2[t]]
  OBVIOUS
<1> HIDE DEF es2
<1>17. es2 \in Seq(U) /\ Len(es2) = k /\ DOMAIN es2 = 1..k
  <2>1. \A t \in 1..k : es2[t] \in U
    BY <1>15 DEF IsItem, U
  <2>2. es2 \in [1..k -> U]
    BY <1>16, <2>1
  <2> QED BY ONLY <2>2, k \in Nat
<1>18. ShowsItems(es2, items1)
  BY <1>2, <1>15, <1>17 DEF ShowsItems, U
<1>19. SameIds(es, es2)
  <2> SUFFICES ASSUME NEW i \in 1..m, NEW j \in 1..k, es[i].key = es2[j].key PROVE es[i].id = es2[j].id
    BY <1>3, <1>17 DEF SameIds
  <2>1. es2[j].key = nk[j] /\ es[i].key = ok[i]
    BY <1>3, <1>7, <1>15, ZenonT(60) DEF IsItem
  <2> PICK o : o = Position(ok, nk[j])
    OBVIOUS
  <2>2. PICK Q : ok \in Seq(Q) /\ Len(ok) = m
    <3>1. ok \in Seq(KeysOf(U))
      BY <1>3, KeysIs
    <3>2. Len(ok) = m
      BY <1>3, <3>1
    <3> QED BY <3>1, <3>2
  <2>3. nk[j] \in Range(ok)
    BY <2>1, <2>2, InRange
  <2>4. o \in 1..m /\ ok[o] = nk[j] /\ arr[j] = es[o]
    BY <1>14, <2>3
  <2>5. ok[i] = ok[o]
    BY <2>1, <2>4
  <2>6. o = i
    BY <1>3, <2>4, <2>5 DEF IsInjective
  <2> QED BY <1>15, <2>4, <2>6
<1>20. HostInPlace(arr, es2, p, ss)
  <2>1. ss = [t \in 1..k |-> ss[t]]
    BY <1>4 DEF ss
  <2> QED BY <1>13, <1>15, <1>17, <2>1 DEF HostInPlace
<1>21. ASSUME NEW w, Sound(w, p), HasKids(At(w, p))
       PROVE  /\ IsList((a \o b) \o d)
              /\ HostApply(Having(w, p, es), (a \o b) \o d) = Having(w, p, es2)
  <2>1. IsList(a) /\ HostApply(Having(w, p, es), a) = Having(w, p, stay)
    <3>1. /\ IsList(Drops(Keys(es), nk, p))
          /\ HostApply(Having(w, p, es), Drops(Keys(es), nk, p)) = Having(w, p, Dropped(es, nk)[m])
      BY <1>3, <1>21, HostDropsLand
    <3> QED BY <1>3, <3>1 DEF a, stay
  <2>2. IsList(b) /\ HostApply(Having(w, p, stay), b) = Having(w, p, arr)
    <3>1. DOMAIN new = DOMAIN fresh
      BY <1>4, <1>7
    <3>2. /\ IsList(Place(new, nk, Keys(stay), p))
          /\ HostApply(Having(w, p, stay), Place(new, nk, Keys(stay), p))
               = Having(w, p, Arranged(fresh, nk, stay)[k])
      BY <1>8, <1>12, <1>21, <3>1, HostPlaceLands
    <3> QED BY <1>10, <3>2 DEF b, arr
  <2>3. IsList(d) /\ HostApply(Having(w, p, arr), d) = Having(w, p, es2)
    BY <1>13, <1>17, <1>20, <1>21, HostDescendLands
  <2> HIDE DEF d
  <2>4. IsList(a \o b) /\ HostApply(Having(w, p, es), a \o b) = Having(w, p, arr)
    BY <2>1, <2>2, HostListConcat
  <2> QED BY <2>3, <2>4, HostListConcat
<1>22. HostLands((a \o b) \o d, p, e, Rekid(e, es2))
  <2> HIDE DEF d
  <2>1. \A w : Sound(w, p) /\ HasKids(At(w, p)) =>
                  IsList((a \o b) \o d) /\ HostApply(Having(w, p, e.kids), (a \o b) \o d) = Having(w, p, es2)
    BY <1>21
  <2> QED BY <2>1, HostLandsList
<1> QED BY <1>9, <1>18, <1>19, <1>22 DEF old, new, below

(* A list with nothing on one side: all its children at once *)
LEMMA DiffFromNoKids ==
  ASSUME NEW below, NEW p, NEW T, NEW new \in Seq(T), new # <<>>
  PROVE  DiffKids(below, <<>>, new, p) = <<Patch(p, AppendKids(new))>>
<1>1. ~ Keyed(<<>>)
  BY DEF Keyed
<1>2. PICK n \in Nat : n = Len(new) /\ n > 0
  OBVIOUS
<1> DEFINE ss == [i \in 1..0 |-> below[<<<<>>[i], new[i], Append(p, i)>>]]
           x == Patch(p, AppendKids(Drop(new, 0)))
<1>3. Len(ss) = 0
  OBVIOUS
<1>4. DiffIndexed(below, <<>>, new, p) = Concat(ss) \o <<x>>
  <2>1. Len(<<>>) = 0 /\ 0 < Len(new) /\ Len(new) > 0
    BY <1>2
  <2> HIDE DEF x
  <2> QED BY <2>1 DEF DiffIndexed, x
<1> HIDE DEF ss
<1>5. Concat(ss) = <<>>
  <2>1. Len(ss) \in Nat
    BY <1>3
  <2>2. Joined(ss)[0] = <<>>
    BY <2>1, JoinedIs
  <2> QED BY <1>3, <2>2 DEF Concat
<1>6. <<>> \o <<x>> = <<x>>
  <2> HIDE DEF x
  <2> QED OBVIOUS
<1>7. Drop(new, 0) = new
  <2>1. 0 + 1 = 1
    OBVIOUS
  <2> QED BY <2>1, SubSeqFull DEF Drop
<1> HIDE DEF x
<1>8. DiffKids(below, <<>>, new, p) = <<x>>
  BY <1>1, <1>4, <1>5, <1>6 DEF DiffKids
<1> QED BY <1>7, <1>8 DEF x

(* ... and a list that becomes empty *)
LEMMA DiffToNoKids ==
  ASSUME NEW below, NEW p, NEW T, NEW old \in Seq(T), old # <<>>
  PROVE  DiffKids(below, old, <<>>, p) = <<Patch(p, TruncateKids(0))>>
<1>1. ~ Keyed(<<>>)
  BY DEF Keyed
<1>2. PICK n \in Nat : n = Len(old) /\ n > 0
  OBVIOUS
<1> DEFINE ss == [i \in 1..0 |-> below[<<old[i], <<>>[i], Append(p, i)>>]]
           x == Patch(p, TruncateKids(0))
<1>3. Len(ss) = 0
  OBVIOUS
<1>4. DiffIndexed(below, old, <<>>, p) = Concat(ss) \o <<x>>
  <2>1. Len(<<>>) = 0 /\ ~ (Len(old) < 0) /\ Len(old) > 0 /\ ~ (0 > 0)
    BY <1>2
  <2> HIDE DEF x
  <2> QED BY <2>1 DEF DiffIndexed, x
<1> HIDE DEF ss
<1>5. Concat(ss) = <<>>
  <2>1. Len(ss) \in Nat
    BY <1>3
  <2>2. Joined(ss)[0] = <<>>
    BY <2>1, JoinedIs
  <2> QED BY <1>3, <2>2 DEF Concat
<1>6. <<>> \o <<x>> = <<x>>
  <2> HIDE DEF x
  <2> QED OBVIOUS
<1> HIDE DEF x
<1>8. DiffKids(below, old, <<>>, p) = <<x>>
  BY <1>1, <1>4, <1>5, <1>6 DEF DiffKids
<1> QED BY <1>8 DEF x

(* The same whichever of the two lists is empty *)
LEMMA ItemsPatched ==
  ASSUME applied \in Nat, NEW n \in 1..Height, NEW p \in Seq(Nat),
         NEW items0 \in ItemLists, NEW items1 \in ItemLists,
         NEW es, ShowsItems(es, items0), NEW e, HasKids(e), e.kids = es
  PROVE  \E es2 : /\ ShowsItems(es2, items1) /\ SameIds(es, es2)
                  /\ HostLands(DiffKids(Differences[n], ItemNodes(items0), ItemNodes(items1), p), p,
                               e, Rekid(e, es2))
<1> DEFINE old == ItemNodes(items0)
           new == ItemNodes(items1)
           below == Differences[n]
<1>1. PICK m \in Nat : m = Len(items0) /\ (m = 0 <=> items0 = <<>>)
  BY DEF ItemLists
<1>2. PICK k \in Nat : k = Len(items1) /\ (k = 0 <=> items1 = <<>>)
  BY DEF ItemLists
<1>3. es \in Seq(LeafElements) /\ Len(es) = m /\ DOMAIN es = 1..m
  BY <1>1, ItemKeys
<1>4. /\ new \in Seq(Tree[n]) /\ Len(new) = k /\ DOMAIN new = 1..k
      /\ k = 0 => new = <<>>
      /\ \A i \in 1..k : new[i] = Node("li", items1[i].key, items1[i].self, <<>>)
  BY <1>2, ItemNodesAre
<1>5. old \in Seq(Tree[n]) /\ Len(old) = m /\ (m = 0 => old = <<>>)
  BY <1>1, ItemNodesAre
<1> HIDE DEF old, new, below
<1>6. CASE m = 0 /\ k = 0
  <2>1. DiffKids(below, old, new, p) = <<>>
    BY <1>4, <1>5, <1>6, DiffOfNoKids
  <2>2. Rekid(e, es) = e
    BY SetKidsToItself
  <2>3. ShowsItems(es, items1)
    BY <1>1, <1>2, <1>6
  <2>4. SameIds(es, es)
    BY <1>3, <1>6 DEF SameIds
  <2>5. HostLands(<<>>, p, e, Rekid(e, es))
    BY <2>2, HostLandsNone
  <2> QED BY <2>1, <2>3, <2>4, <2>5 DEF old, new, below
<1>7. CASE m = 0 /\ k # 0
  <2> DEFINE op == AppendKids(new)
             fresh == [i \in 1..k |-> Build(Node("li", items1[i].key, items1[i].self, <<>>))]
  <2>1. DiffKids(below, old, new, p) = <<Patch(p, op)>>
    <3>1. new # <<>> /\ old = <<>>
      BY <1>4, <1>5, <1>7
    <3> QED BY <1>4, <3>1, DiffFromNoKids
  <2>2. ShowsItems(fresh, items1)
    BY <1>2, FreshItems
  <2>3. HostKids(es, op) = fresh
    <3>1. HostKids(es, op) = es \o [i \in DOMAIN new |-> Build(new[i])]
      BY <1>3, HostKidsIs
    <3>2. [i \in DOMAIN new |-> Build(new[i])] = fresh
      BY <1>4
    <3>3. fresh \in Seq(LeafElements)
      <4> HIDE DEF fresh
      <4> QED BY <2>2 DEF ShowsItems
    <3>4. es = <<>>
      BY <1>3, <1>7
    <3> HIDE DEF fresh
    <3>5. <<>> \o fresh = fresh
      BY <3>3
    <3> QED BY <3>1, <3>2, <3>4, <3>5
  <2> HIDE DEF fresh
  <2>4. HostOp(e, op) = Rekid(e, fresh)
    BY <2>3 DEF HostOp, AppendKids
  <2>5. HostLands(<<Patch(p, op)>>, p, e, Rekid(e, fresh))
    BY <2>4, HostLandsOp
  <2>6. SameIds(es, fresh)
    BY <1>3, <1>7 DEF SameIds
  <2> HIDE DEF op
  <2> QED BY <2>1, <2>2, <2>5, <2>6 DEF old, new, below
<1>8. CASE m # 0 /\ k = 0
  <2> DEFINE op == TruncateKids(0)
  <2>1. DiffKids(below, old, new, p) = <<Patch(p, op)>>
    <3>1. old # <<>> /\ new = <<>>
      BY <1>4, <1>5, <1>8
    <3> QED BY <1>5, <3>1, DiffToNoKids
  <2>2. HostKids(es, op) = <<>>
    <3>1. HostKids(es, op) = SubSeq(es, 1, 0)
      BY <1>3, HostKidsIs
    <3>2. SubSeq(es, 1, 0) = <<>>
      BY <1>3, SubSeqEmpty
    <3> QED BY <3>1, <3>2
  <2>3. HostOp(e, op) = Rekid(e, <<>>)
    BY <2>2 DEF HostOp, TruncateKids
  <2>4. HostLands(<<Patch(p, op)>>, p, e, Rekid(e, <<>>))
    BY <2>3, HostLandsOp
  <2>5. SameIds(es, <<>>)
    BY DEF SameIds
  <2>6. ShowsItems(<<>>, items1)
    BY <1>2, <1>8 DEF ShowsItems
  <2> HIDE DEF op
  <2> QED BY <2>1, <2>4, <2>5, <2>6 DEF old, new, below
<1>9. CASE m # 0 /\ k # 0
  BY <1>1, <1>2, <1>9, KeyedItemsPatched DEF old, new, below
<1> QED BY <1>6, <1>7, <1>8, <1>9

(* The list with its items: data set, items patched *)
LEMMA ListPatched ==
  ASSUME applied \in Nat, NEW p \in Seq(Nat), NEW n \in 1..Height, n - 1 \in 1..Height,
         NEW k0, NEW k1 \in NodeData, NEW m0 \in Models, NEW m1 \in Models,
         ListNode(k0, m0) \in Tree[n], ListNode(k1, m1) \in Tree[n],
         NEW e \in ElementsOver(Seq(LeafElements)), e.self = k0, ShowsItems(e.kids, m0.items)
  PROVE  \E es2 : /\ ShowsItems(es2, m1.items) /\ SameIds(e.kids, es2)
                  /\ HostLands(Differences[n][<<ListNode(k0, m0), ListNode(k1, m1), p>>], p,
                               e, Rekid(WithSelf(e, k1), es2))
<1> DEFINE a == ListNode(k0, m0)
           b == ListNode(k1, m1)
           below == Differences[n - 1]
           f == WithSelf(e, k1)
           es == e.kids
           x == Patch(p, SetSelf(b))
<1>1. Differences[n][<<a, b, p>>] = DiffAt(below, a, b, p)
  BY DifferenceIs
<1>2. m0.items \in ItemLists /\ m1.items \in ItemLists
  BY ModelsAre
<1>3. /\ a.tag = "ul" /\ a.key = NoKey /\ a.self = k0 /\ a.kids = ItemNodes(m0.items)
      /\ b.tag = "ul" /\ b.key = NoKey /\ b.self = k1 /\ b.kids = ItemNodes(m1.items)
      /\ (a = b <=> k0 = k1 /\ ItemNodes(m0.items) = ItemNodes(m1.items))
  BY DEF ListNode, Node
<1>4. f \in ElementsOver(Seq(LeafElements)) /\ f.kids = es /\ (k0 = k1 => f = e)
  BY WithSelfIs
<1>5. HasKids(f) /\ HasKids(e)
  BY <1>4, ElementHasKids
<1> HIDE DEF a, b, f
<1>6. PICK es2 : /\ ShowsItems(es2, m1.items) /\ SameIds(es, es2)
                 /\ HostLands(DiffKids(below, ItemNodes(m0.items), ItemNodes(m1.items), p), p, f, Rekid(f, es2))
  BY <1>2, <1>4, <1>5, ItemsPatched
<1>7. CASE a = b
  <2>1. DiffAt(below, a, b, p) = <<>>
    BY <1>7 DEF DiffAt
  <2>2. f = e
    BY <1>3, <1>4, <1>7
  <2>3. Rekid(f, es) = e
    BY <1>4, <1>5, <2>2, SetKidsToItself
  <2>4. HostLands(<<>>, p, e, Rekid(f, es))
    BY <2>3, HostLandsNone
  <2>5. ShowsItems(es, m1.items)
    <3>1. PICK c \in Nat : c = Len(m0.items)
      BY <1>2 DEF ItemLists
    <3>2. PICK d \in Nat : d = Len(m1.items)
      BY <1>2 DEF ItemLists
    <3>3. /\ Len(ItemNodes(m0.items)) = c
          /\ \A i \in 1..c : ItemNodes(m0.items)[i] = Node("li", m0.items[i].key, m0.items[i].self, <<>>)
      BY <1>2, <3>1, ItemNodesAre
    <3>4. /\ Len(ItemNodes(m1.items)) = d
          /\ \A i \in 1..d : ItemNodes(m1.items)[i] = Node("li", m1.items[i].key, m1.items[i].self, <<>>)
      BY <1>2, <3>2, ItemNodesAre
    <3>5. c = d
      BY <1>3, <1>7, <3>3, <3>4
    <3>6. ASSUME NEW i \in 1..d PROVE m0.items[i].key = m1.items[i].key /\ m0.items[i].self = m1.items[i].self
      <4>1. Node("li", m0.items[i].key, m0.items[i].self, <<>>) = Node("li", m1.items[i].key, m1.items[i].self, <<>>)
        BY <1>3, <1>7, <3>3, <3>4, <3>5
      <4> QED BY <4>1 DEF Node
    <3> HIDE DEF es
    <3>7. es \in Seq(LeafElements) /\ Len(es) = d /\ \A i \in 1..d : IsItem(es[i], m0.items[i])
      BY <3>1, <3>5 DEF ShowsItems, es
    <3> QED BY <3>2, <3>6, <3>7 DEF ShowsItems, IsItem
  <2>6. SameIds(es, es)
    <3>1. PICK c \in Nat : c = Len(m0.items)
      BY <1>2 DEF ItemLists
    <3> HIDE DEF es
    <3>2. /\ DOMAIN es = 1..c /\ IsInjective(Keys(es)) /\ DOMAIN Keys(es) = 1..c
          /\ \A i \in 1..c : Keys(es)[i] = m0.items[i].key /\ es[i].key = m0.items[i].key
      BY <1>2, <3>1, ItemKeys DEF es
    <3>3. \A i, j \in 1..c : es[i].key = es[j].key => i = j
      BY <3>2, ZenonT(60) DEF IsInjective
    <3> QED BY <3>2, <3>3 DEF SameIds
  <2> QED BY <1>1, <2>1, <2>4, <2>5, <2>6 DEF a, b, f
<1>8. CASE a # b
  <2> DEFINE q == IF a.self = b.self THEN <<>> ELSE <<x>>
             ps == DiffKids(below, ItemNodes(m0.items), ItemNodes(m1.items), p)
  <2>1. DiffAt(below, a, b, p) = q \o ps
    BY <1>3, <1>8 DEF DiffAt, Related
  <2>2. HostLands(q, p, e, f)
    <3>1. CASE k0 = k1
      BY <1>3, <1>4, <3>1, HostLandsNone
    <3>2. CASE k0 # k1
      <4>1. HostOp(e, SetSelf(b)) = f
        BY <1>3 DEF HostOp, SetSelf, f
      <4>2. HostLands(<<x>>, p, e, f)
        BY <4>1, HostLandsOp
      <4> HIDE DEF x
      <4> QED BY <1>3, <3>2, <4>2
    <3> QED BY <3>1, <3>2
  <2> HIDE DEF q, ps
  <2>3. HostLands(ps, p, f, Rekid(f, es2))
    BY <1>6 DEF ps
  <2>4. HostLands(q \o ps, p, e, Rekid(f, es2))
    BY <2>2, <2>3, HostLandsThen
  <2> QED BY <1>1, <1>6, <2>1, <2>4 DEF a, b, f
<1> QED BY <1>7, <1>8

-----------------------------------------------------------------------------
(* Views patched *)

-----------------------------------------------------------------------------
(* The documents that show a view *)

Branches == ElementsOver(Seq(LeafElements))
IsField(e) == e \in Branches /\ Named(e) /\ e.tag = "input" /\ e.key = NoKey /\ e.kids = <<>>
ListShows(e, k, m) ==
  /\ e \in Branches /\ Named(e) /\ e.tag = "ul" /\ e.key = NoKey /\ e.self = k
  /\ ShowsItems(e.kids, m.items)
Shows(d, k, m) ==
  /\ d \in Documents /\ Named(d) /\ d.tag = "div" /\ d.key = NoKey
  /\ Len(d.kids) = 2
  /\ IsField(d.kids[1]) /\ ListShows(d.kids[2], k, m)

(* The patches of the two children of a view, field and list *)
ChildPatches(k0, m0, k1, m1) ==
  << Differences[Height - 1][<<FieldNode(m0), FieldNode(m1), <<1>>>>],
     Differences[Height - 1][<<ListNode(k0, m0), ListNode(k1, m1), <<2>>>>] >>

(* The patches of two children *)
LEMMA ConcatOfTwo ==
  ASSUME NEW a, NEW b
  PROVE  Concat(<<a, b>>) = (<<>> \o a) \o b
<1> DEFINE ss == <<a, b>>
<1>1. Len(ss) = 2 /\ ss[1] = a /\ ss[2] = b
  OBVIOUS
<1> HIDE DEF ss
<1>2. Len(ss) \in Nat
  BY <1>1
<1>3. /\ Joined(ss)[0] = <<>>
      /\ \A i \in 1..Len(ss) : Joined(ss)[i] = Joined(ss)[i - 1] \o ss[i]
  BY <1>2, JoinedIs
<1>4. Joined(ss)[1] = <<>> \o a
  <2>1. 1 \in 1..Len(ss) /\ 1 - 1 = 0
    BY <1>1
  <2>2. Joined(ss)[1] = Joined(ss)[1 - 1] \o ss[1]
    BY <1>3, <2>1
  <2> QED BY <1>1, <1>3, <2>1, <2>2
<1>5. Joined(ss)[2] = (<<>> \o a) \o b
  <2>1. 2 \in 1..Len(ss) /\ 2 - 1 = 1
    BY <1>1
  <2>2. Joined(ss)[2] = Joined(ss)[2 - 1] \o ss[2]
    BY <1>3, <2>1
  <2> QED BY <1>1, <1>4, <2>1, <2>2
<1> QED BY <1>1, <1>5 DEF Concat, ss

(* A list of one, appended to nothing *)
LEMMA ListAppend ==
  ASSUME NEW a
  PROVE  Append(<<>>, a) = <<a>>
OBVIOUS

(* Nothing after a list *)
LEMMA NothingAtTheTail ==
  ASSUME NEW a
  PROVE  IsList(a) => a \o <<>> = a
<1> SUFFICES ASSUME IsList(a) PROVE a \o <<>> = a
  OBVIOUS
<1>1. a \in Seq(Range(a))
  BY DEF IsList
<1> QED BY <1>1

(* Neither the field nor the list has a key, so the two children of a view
   are diffed pairwise. *)
LEMMA DiffOfViews ==
  ASSUME NEW k0 \in SUBSET Tags, NEW m0 \in Models, NEW k1 \in SUBSET Tags, NEW m1 \in Models
  PROVE  LET cs == Concat(ChildPatches(k0, m0, k1, m1))
         IN  Diff(View(k0, m0), View(k1, m1)) = IF View(k0, m0) = View(k1, m1) THEN <<>> ELSE cs \o <<>>
<1> DEFINE v0 == View(k0, m0)
           v1 == View(k1, m1)
           f0 == FieldNode(m0)
           f1 == FieldNode(m1)
           l0 == ListNode(k0, m0)
           l1 == ListNode(k1, m1)
           below == Differences[Height - 1]
<1>1. /\ v0 = Node("div", NoKey, NoText, <<f0, l0>>) /\ v0 \in Tree[Height]
      /\ v1 = Node("div", NoKey, NoText, <<f1, l1>>) /\ v1 \in Tree[Height]
      /\ Height \in 1..Height
  BY ViewInTree
<1>2. f0.key = NoKey /\ f1.key = NoKey
  BY DEF FieldNode, Node
<1> HIDE DEF v0, v1, f0, f1, l0, l1
<1>3. Diff(v0, v1) = DiffAt(below, v0, v1, <<>>)
  <2>1. <<>> \in Seq(Nat)
    OBVIOUS
  <2> QED BY <1>1, <2>1, DifferenceIs DEF Diff
<1> HIDE DEF below
<1>4. /\ v0.kids = <<f0, l0>> /\ v1.kids = <<f1, l1>> /\ v0.self = NoText /\ v1.self = NoText
      /\ Related(v0, v1)
  BY <1>1 DEF Node, Related
<1>5. ~ Keyed(<<f0, l0>>)
  <2> DEFINE ks == <<f0, l0>>
  <2>1. 1 \in DOMAIN ks /\ ks[1] = f0
    OBVIOUS
  <2> HIDE DEF ks
  <2>2. 1 \in DOMAIN Keys(ks) /\ Keys(ks)[1] = NoKey
    BY <1>2, <2>1 DEF Keys
  <2>3. NoKey \in Range(Keys(ks))
    BY <2>2 DEF Range
  <2> QED BY <2>3 DEF Keyed, ks
<1>6. DiffKids(below, <<f0, l0>>, <<f1, l1>>, <<>>) = Concat(<<below[<<f0, f1, <<1>>>>], below[<<l0, l1, <<2>>>>]>>) \o <<>>
  <2> DEFINE o == <<f0, l0>>
             q == <<f1, l1>>
             ss == [i \in 1..2 |-> below[<<o[i], q[i], Append(<<>>, i)>>]]
  <2>1. Len(o) = 2 /\ Len(q) = 2 /\ o[1] = f0 /\ o[2] = l0 /\ q[1] = f1 /\ q[2] = l1
    OBVIOUS
  <2>2. ~ Keyed(o)
    BY <1>5
  <2> HIDE DEF o, q
  <2>3. DiffKids(below, o, q, <<>>) = DiffIndexed(below, o, q, <<>>)
    BY <2>2 DEF DiffKids
  <2>4. DiffIndexed(below, o, q, <<>>) = Concat(ss) \o <<>>
    <3>1. ~ Len(o) < Len(q) /\ ~ Len(q) > 2 /\ ~ Len(o) > 2
      BY <2>1
    <3> QED BY <2>1, <3>1 DEF DiffIndexed
  <2>5. ss = <<below[<<f0, f1, <<1>>>>], below[<<l0, l1, <<2>>>>]>>
    <3>1. ss[1] = below[<<f0, f1, <<1>>>>] /\ ss[2] = below[<<l0, l1, <<2>>>>]
      BY <2>1, ListAppend
    <3>2. ss = <<ss[1], ss[2]>>
      <4> DEFINE H(i) == below[<<o[i], q[i], Append(<<>>, i)>>]
      <4>1. ss = [i \in 1..2 |-> H(i)] /\ ss[1] = H(1) /\ ss[2] = H(2)
        OBVIOUS
      <4> HIDE DEF H
      <4>2. [i \in 1..2 |-> H(i)] = <<H(1), H(2)>>
        OBVIOUS
      <4> HIDE DEF ss
      <4> QED BY <4>1, <4>2
    <3> HIDE DEF ss
    <3> QED BY <3>1, <3>2
  <2> HIDE DEF ss
  <2> QED BY <2>3, <2>4, <2>5 DEF o, q
<1>7. ChildPatches(k0, m0, k1, m1) = <<below[<<f0, f1, <<1>>>>], below[<<l0, l1, <<2>>>>]>>
  BY DEF ChildPatches, below, f0, f1, l0, l1
<1>8. CASE v0 = v1
  <2>1. DiffAt(below, v0, v1, <<>>) = <<>>
    BY <1>8 DEF DiffAt
  <2> QED BY <1>3, <1>8, <2>1 DEF v0, v1
<1>9. CASE v0 # v1
  <2> DEFINE ks == DiffKids(below, <<f0, l0>>, <<f1, l1>>, <<>>)
  <2>1. DiffAt(below, v0, v1, <<>>) = <<>> \o ks
    BY <1>4, <1>9 DEF DiffAt
  <2> DEFINE cs == Concat(ChildPatches(k0, m0, k1, m1))
  <2>2. ks = cs \o <<>>
    BY <1>6, <1>7
  <2> HIDE DEF ks, cs
  <2>3. <<>> \o (cs \o <<>>) = cs \o <<>>
    OBVIOUS
  <2> QED BY <1>3, <1>9, <2>1, <2>2, <2>3 DEF v0, v1, cs
<1> QED BY <1>8, <1>9 DEF v0, v1

(* What a field element becomes *)
LEMMA FieldPatched ==
  ASSUME NEW m0 \in Models, NEW m1 \in Models, NEW e, IsField(e)
  PROVE  \E e2 : /\ IsField(e2) /\ e2.id = e.id
                 /\ HostLands(Differences[Height - 1][<<FieldNode(m0), FieldNode(m1), <<1>>>>], <<1>>, e, e2)
<1> DEFINE f0 == FieldNode(m0)
           f1 == FieldNode(m1)
           below == Differences[(Height - 1) - 1]
           e2 == IF m0.field = m1.field THEN e ELSE WithSelf(e, m1.field)
<1>1. /\ f0 \in Tree[Height - 1] /\ f1 \in Tree[Height - 1] /\ Height - 1 \in 1..Height
  <2>1. {} \in SUBSET Tags
    OBVIOUS
  <2> QED BY <2>1, ViewInTree
<1>2. <<1>> \in Seq(Nat)
  OBVIOUS
<1> HIDE DEF f0, f1
<1>3. Differences[Height - 1][<<f0, f1, <<1>>>>] = DiffAt(below, f0, f1, <<1>>)
  <2>1. PICK n \in 1..Height : n = Height - 1
    BY <1>1
  <2>2. Differences[n][<<f0, f1, <<1>>>>] = DiffAt(Differences[n - 1], f0, f1, <<1>>)
    BY <1>1, <1>2, <2>1, DifferenceIs
  <2> QED BY <2>1, <2>2
<1> HIDE DEF below
<1>4. HostLands(DiffAt(below, f0, f1, <<1>>), <<1>>, e, e2)
  <2>1. "input" # "text"
    OBVIOUS
  <2> QED BY <1>2, <2>1, LeafPatched DEF FieldNode, f0, f1
<1>5. IsField(e2) /\ e2.id = e.id
  <2>1. m1.field \in NodeData
    BY ModelsAre, DomRemoteAssumption
  <2>2. e \in ElementsOver(Seq(LeafElements))
    BY DEF IsField, Branches
  <2> DEFINE x == WithSelf(e, m1.field)
  <2>3. /\ x \in ElementsOver(Seq(LeafElements))
        /\ x.id = e.id /\ x.tag = e.tag /\ x.key = e.key /\ x.kids = e.kids
    BY <2>1, <2>2, WithSelfIs
  <2> HIDE DEF x
  <2>4. IsField(x)
    BY <2>3 DEF IsField, Branches, Named
  <2> QED BY <2>3, <2>4 DEF x
<1> QED BY <1>3, <1>4, <1>5 DEF f0, f1

(* What a list element becomes *)
LEMMA ListElementPatched ==
  ASSUME applied \in Nat, NEW k0 \in SUBSET Tags, NEW k1 \in SUBSET Tags,
         NEW m0 \in Models, NEW m1 \in Models, NEW e, ListShows(e, k0, m0)
  PROVE  \E e2 : /\ ListShows(e2, k1, m1) /\ SameIds(e.kids, e2.kids)
                 /\ HostLands(Differences[Height - 1][<<ListNode(k0, m0), ListNode(k1, m1), <<2>>>>],
                              <<2>>, e, e2)
<1>1. /\ ListNode(k0, m0) \in Tree[Height - 1] /\ ListNode(k1, m1) \in Tree[Height - 1]
      /\ Height - 1 \in 1..Height /\ Height - 2 \in 1..Height
  BY ViewInTree
<1>2. <<2>> \in Seq(Nat) /\ k1 \in NodeData
  BY DomRemoteAssumption
<1>3. PICK n \in 1..Height : n = Height - 1 /\ n - 1 \in 1..Height
  <2>1. (Height - 1) - 1 = Height - 2
    BY TreeDiffAssumption
  <2> QED BY <1>1, <2>1
<1>4. e \in ElementsOver(Seq(LeafElements)) /\ e.self = k0 /\ ShowsItems(e.kids, m0.items)
  BY DEF ListShows, Branches
<1>5. ListNode(k0, m0) \in Tree[n] /\ ListNode(k1, m1) \in Tree[n]
  BY <1>1, <1>3
<1>6. PICK es2 : /\ ShowsItems(es2, m1.items) /\ SameIds(e.kids, es2)
                 /\ HostLands(Differences[n][<<ListNode(k0, m0), ListNode(k1, m1), <<2>>>>], <<2>>,
                              e, Rekid(WithSelf(e, k1), es2))
  BY <1>2, <1>3, <1>4, <1>5, ListPatched
<1> DEFINE f == WithSelf(e, k1)
           x == Rekid(f, es2)
<1>7. /\ f \in ElementsOver(Seq(LeafElements)) /\ f.self = k1
      /\ f.id = e.id /\ f.tag = e.tag /\ f.key = e.key
  BY <1>2, <1>4, WithSelfIs
<1> HIDE DEF f
<1>8. es2 \in Seq(LeafElements)
  BY <1>6 DEF ShowsItems
<1>9. /\ x.kids = es2 /\ x.id = f.id /\ x.tag = f.tag /\ x.key = f.key /\ x.self = f.self
      /\ x \in ElementsOver(Seq(LeafElements))
  BY <1>7, <1>8, ElementHasKids
<1> HIDE DEF x
<1>10. ListShows(x, k1, m1)
  BY <1>4, <1>6, <1>7, <1>9 DEF ListShows, Branches, Named
<1>11. SameIds(e.kids, x.kids)
  BY <1>6, <1>9
<1> QED BY <1>3, <1>6, <1>10, <1>11 DEF x, f

(* The patches that lead from one view to another lead a document that shows
   the one to a document that shows the other, and keep the root, the field
   and the element of every item that both have. *)
LEMMA ViewPatched ==
  ASSUME applied \in Nat, NEW k0 \in SUBSET Tags, NEW k1 \in SUBSET Tags,
         NEW m0 \in Models, NEW m1 \in Models, NEW d, Shows(d, k0, m0)
  PROVE  LET x == HostApply(d, Diff(View(k0, m0), View(k1, m1)))
         IN  /\ Shows(x, k1, m1) /\ x.id = d.id /\ Field(x).id = Field(d).id
             /\ SameIds(Items(d), Items(x))
<1> DEFINE cp == ChildPatches(k0, m0, k1, m1)
           a == Differences[Height - 1][<<FieldNode(m0), FieldNode(m1), <<1>>>>]
           b == Differences[Height - 1][<<ListNode(k0, m0), ListNode(k1, m1), <<2>>>>]
<1>1. /\ d \in Documents /\ Named(d) /\ d.tag = "div" /\ d.key = NoKey /\ Len(d.kids) = 2
      /\ IsField(d.kids[1]) /\ ListShows(d.kids[2], k0, m0)
  BY DEF Shows
<1>2. PICK f2 : IsField(f2) /\ f2.id = d.kids[1].id /\ HostLands(a, <<1>>, d.kids[1], f2)
  BY <1>1, FieldPatched
<1>3. PICK l2 : ListShows(l2, k1, m1) /\ SameIds(d.kids[2].kids, l2.kids) /\ HostLands(b, <<2>>, d.kids[2], l2)
  BY <1>1, ListElementPatched
<1>4. cp = <<a, b>>
  BY DEF ChildPatches
<1> HIDE DEF cp, a, b
<1> DEFINE new == <<f2, l2>>
           x == Rekid(d, new)
<1>5. /\ d.kids \in Seq(Branches) /\ HasKids(d)
      /\ \A ks : /\ Rekid(d, ks).kids = ks /\ Rekid(d, ks).id = d.id /\ Rekid(d, ks).tag = d.tag
                 /\ Rekid(d, ks).key = d.key /\ Rekid(d, ks).self = d.self
      /\ \A T : \A ks \in T : Rekid(d, ks) \in ElementsOver(T)
  <2>1. d \in ElementsOver(Seq(Branches))
    BY <1>1 DEF Documents, Branches, LeafElements
  <2> QED BY <2>1, ElementHasKids
<1>6. new \in Seq(Branches) /\ Len(new) = 2 /\ new[1] = f2 /\ new[2] = l2
  <2>1. f2 \in Branches /\ l2 \in Branches
    BY <1>2, <1>3 DEF IsField, ListShows
  <2>2. \A T, u, v : u \in T /\ v \in T => <<u, v>> \in Seq(T)
    OBVIOUS
  <2>3. Len(new) = 2 /\ new[1] = f2 /\ new[2] = l2
    OBVIOUS
  <2> QED BY <2>1, <2>2, <2>3, Zenon
<1> HIDE DEF new
<1>7. HostInPlace(d.kids, new, <<>>, cp)
  <2>1. cp[1] = a /\ cp[2] = b
    BY <1>4
  <2>2. cp = [i \in 1..2 |-> cp[i]]
    BY <1>4
  <2>3. Append(<<>>, 1) = <<1>> /\ Append(<<>>, 2) = <<2>>
    BY ListAppend
  <2>4. ASSUME NEW i \in 1..2 PROVE HostLands(cp[i], Append(<<>>, i), d.kids[i], new[i])
    <3>1. i = 1 \/ i = 2
      OBVIOUS
    <3> QED BY <1>2, <1>3, <1>6, <2>1, <2>3, <3>1
  <2> QED BY <1>1, <1>6, <2>2, <2>4 DEF HostInPlace
<1>8. HostLands(Concat(cp), <<>>, d, x)
  <2>1. <<>> \in Seq(Nat)
    OBVIOUS
  <2> QED BY <1>5, <1>6, <1>7, <2>1, HostLandsKids
<1>9. IsList(Concat(cp)) /\ HostApply(d, Concat(cp)) = x
  <2>1. Sound(d, <<>>) /\ At(d, <<>>) = d /\ Put(d, <<>>, x) = x
    BY RootIs
  <2> QED BY <1>8, <2>1 DEF HostLands
<1>10. HostApply(d, Diff(View(k0, m0), View(k1, m1))) = x
  <2> DEFINE v0 == View(k0, m0)
             v1 == View(k1, m1)
  <2>1. Diff(v0, v1) = IF v0 = v1 THEN <<>> ELSE Concat(cp) \o <<>>
    BY DiffOfViews DEF cp
  <2>2. CASE v0 # v1
    <3>1. Concat(cp) \o <<>> = Concat(cp)
      BY <1>9, NothingAtTheTail
    <3> QED BY <1>9, <2>1, <2>2, <3>1
  <2>3. CASE v0 = v1
    <3>1. FieldNode(m0) = FieldNode(m1) /\ ListNode(k0, m0) = ListNode(k1, m1)
      <4>1. /\ v0 = Node("div", NoKey, NoText, <<FieldNode(m0), ListNode(k0, m0)>>)
            /\ v1 = Node("div", NoKey, NoText, <<FieldNode(m1), ListNode(k1, m1)>>)
        BY ViewInTree
      <4>2. v0.kids = <<FieldNode(m0), ListNode(k0, m0)>> /\ v1.kids = <<FieldNode(m1), ListNode(k1, m1)>>
        BY <4>1 DEF Node
      <4> HIDE DEF v0, v1
      <4>3. <<FieldNode(m0), ListNode(k0, m0)>> = <<FieldNode(m1), ListNode(k1, m1)>>
        BY <2>3, <4>2
      <4> QED BY <4>3
    <3>2. PICK n \in 1..Height : n = Height - 1
      BY ViewInTree
    <3>3. /\ FieldNode(m0) \in Tree[n] /\ FieldNode(m1) \in Tree[n]
          /\ ListNode(k0, m0) \in Tree[n] /\ ListNode(k1, m1) \in Tree[n]
      BY <3>2, ViewInTree
    <3>4. <<1>> \in Seq(Nat) /\ <<2>> \in Seq(Nat)
      OBVIOUS
    <3>5. a = DiffAt(Differences[n - 1], FieldNode(m0), FieldNode(m1), <<1>>)
          /\ b = DiffAt(Differences[n - 1], ListNode(k0, m0), ListNode(k1, m1), <<2>>)
      BY <3>2, <3>3, <3>4, DifferenceIs, ZenonT(60) DEF a, b
    <3>6. a = <<>> /\ b = <<>>
      BY <3>1, <3>5 DEF DiffAt
    <3>7. Concat(cp) = (<<>> \o <<>>) \o <<>>
      BY <1>4, <3>6, ConcatOfTwo
    <3>8. Concat(cp) = <<>>
      BY <3>7
    <3> QED BY <1>9, <2>1, <2>3, <3>8
  <2> QED BY <2>2, <2>3
<1>11. Shows(x, k1, m1) /\ x.id = d.id /\ Field(x).id = Field(d).id /\ SameIds(Items(d), Items(x))
  <2>1. /\ x.kids = new /\ x.id = d.id /\ x.tag = d.tag /\ x.key = d.key
        /\ x \in ElementsOver(Seq(Branches))
    BY <1>5, <1>6
  <2> HIDE DEF x
  <2>2. Shows(x, k1, m1)
    BY <1>1, <1>2, <1>3, <1>6, <2>1 DEF Shows, Documents, Branches, LeafElements, Named
  <2> QED BY <1>2, <1>3, <1>6, <2>1, <2>2 DEF Field, Items
<1> QED BY <1>10, <1>11

-----------------------------------------------------------------------------
(* Documents built, typed into, and addressed *)

(* A view that is built from nothing *)
LEMMA BuiltShows ==
  ASSUME applied \in Nat, NEW k \in SUBSET Tags, NEW m \in Models
  PROVE  LET x == Build(View(k, m)) IN Shows(x, k, m) /\ x.id.built = applied
<1> DEFINE w == View(k, m)
           f == FieldNode(m)
           l == ListNode(k, m)
           Leaf(v, j) == Element(v.kids[j], <<>>)
           Branch(v) == Element(v, [j \in DOMAIN v.kids |-> Leaf(v, j)])
           K(i) == Branch(w.kids[i])
           kids == [i \in DOMAIN w.kids |-> K(i)]
<1>1. Build(w) = Element(w, kids)
  BY DEF Build
<1>2. w.tag = "div" /\ w.key = NoKey /\ w.self = NoText /\ w.kids = <<f, l>>
  BY ViewInTree DEF Node
<1>3. /\ f.tag = "input" /\ f.key = NoKey /\ f.self \in NodeData /\ f.kids = <<>>
      /\ l.tag = "ul" /\ l.key = NoKey /\ l.self = k /\ k \in NodeData /\ l.kids = ItemNodes(m.items)
  <2>1. m.field \in NodeData /\ k \in NodeData
    BY ModelsAre, DomRemoteAssumption
  <2> QED BY <2>1 DEF FieldNode, ListNode, Node
<1>4. {"div", "input", "ul", "li"} \subseteq NodeTags /\ NoText \in NodeData
  BY DomRemoteAssumption
<1> HIDE DEF w, f, l
<1>5. kids = <<Branch(f), Branch(l)>>
  <2>1. DOMAIN w.kids = 1..2 /\ w.kids[1] = f /\ w.kids[2] = l
    BY <1>2
  <2>2. K(1) = Branch(f) /\ K(2) = Branch(l)
    BY <2>1
  <2> HIDE DEF K, Branch
  <2>3. kids = [i \in 1..2 |-> K(i)]
    BY <2>1
  <2>4. [i \in 1..2 |-> K(i)] = <<K(1), K(2)>>
    OBVIOUS
  <2> QED BY <2>2, <2>3, <2>4
<1> DEFINE ks(v) == [j \in DOMAIN v.kids |-> Leaf(v, j)]
<1>6. ks(f) = <<>>
  <2> HIDE DEF Leaf
  <2>1. DOMAIN f.kids = {}
    BY <1>3
  <2>2. ks(f) = [j \in {} |-> Leaf(f, j)]
    BY <2>1
  <2>3. <<>> = [j \in {} |-> Leaf(f, j)]
    OBVIOUS
  <2> QED BY <2>2, <2>3
<1>7. IsField(Branch(f))
  <2>1. Branch(f) = Element(f, <<>>)
    BY <1>6
  <2>2. <<>> \in Seq(LeafElements)
    OBVIOUS
  <2>3. /\ Element(f, <<>>) \in ElementsOver(Seq(LeafElements)) /\ Named(Element(f, <<>>))
        /\ Element(f, <<>>).tag = f.tag /\ Element(f, <<>>).key = f.key /\ Element(f, <<>>).kids = <<>>
    <3>1. f.tag \in NodeTags /\ f.key \in NodeKeys \cup {NoKey} /\ f.self \in NodeData
      BY <1>3, <1>4
    <3>2. PICK z \in Seq(LeafElements) : z = <<>>
      BY <2>2
    <3>3. /\ Element(f, z) \in ElementsOver(Seq(LeafElements)) /\ Named(Element(f, z))
          /\ Element(f, z).tag = f.tag /\ Element(f, z).key = f.key /\ Element(f, z).kids = z
      BY <3>1, ElementIs
    <3> QED BY <3>2, <3>3
  <2> HIDE DEF Branch
  <2> QED BY <1>3, <2>1, <2>3 DEF IsField, Branches
<1>8. ShowsItems(ks(l), m.items)
  <2>1. m.items \in ItemLists
    BY ModelsAre
  <2>2. PICK c \in Nat : c = Len(m.items)
    BY <2>1 DEF ItemLists
  <2>3. Height \in 1..Height
    BY ViewInTree
  <2>4. /\ DOMAIN ItemNodes(m.items) = 1..c
        /\ \A i \in 1..c : /\ ItemNodes(m.items)[i] = Node("li", m.items[i].key, m.items[i].self, <<>>)
                           /\ m.items[i].key \in NodeKeys /\ m.items[i].self \in NodeData
    BY <2>1, <2>2, <2>3, ItemNodesAre
  <2>5. ASSUME NEW i \in 1..c PROVE IsItem(Leaf(l, i), m.items[i])
    <3>1. PICK v : v = Node("li", m.items[i].key, m.items[i].self, <<>>)
      OBVIOUS
    <3>2. v.tag = "li" /\ v.key = m.items[i].key /\ v.self = m.items[i].self
      BY <3>1 DEF Node
    <3>3. Leaf(l, i) = Element(v, <<>>)
      BY <1>3, <2>4, <3>1
    <3>4. <<>> \in {<<>>}
      OBVIOUS
    <3>5. m.items[i].key \in NodeKeys \cup {NoKey} /\ m.items[i].self \in NodeData
      BY <2>4
    <3>6. /\ Element(v, <<>>) \in LeafElements /\ Named(Element(v, <<>>))
          /\ Element(v, <<>>).tag = v.tag /\ Element(v, <<>>).key = v.key /\ Element(v, <<>>).self = v.self
      <4>1. v.tag \in NodeTags /\ v.key \in NodeKeys \cup {NoKey} /\ v.self \in NodeData
        BY <1>4, <3>2, <3>5
      <4>2. PICK S : S = {<<>>}
        OBVIOUS
      <4>3. PICK z \in S : z = <<>>
        BY <4>2
      <4>4. /\ Element(v, z) \in ElementsOver(S) /\ Named(Element(v, z))
            /\ Element(v, z).tag = v.tag /\ Element(v, z).key = v.key /\ Element(v, z).self = v.self
        BY <4>1, ElementIs
      <4> QED BY <4>2, <4>3, <4>4 DEF LeafElements
    <3> HIDE DEF Leaf
    <3> QED BY <3>2, <3>3, <3>6 DEF IsItem
  <2>6. ks(l) = [j \in 1..c |-> Leaf(l, j)]
    BY <1>3, <2>4
  <2> HIDE DEF Leaf
  <2>7. \A i \in 1..c : Leaf(l, i) \in LeafElements
    BY <2>5 DEF IsItem
  <2>8. ks(l) \in [1..c -> LeafElements] /\ \A i \in 1..c : ks(l)[i] = Leaf(l, i)
    BY <2>6, <2>7
  <2> DEFINE z == ks(l)
  <2>9. z \in [1..c -> LeafElements] /\ \A i \in 1..c : z[i] = Leaf(l, i)
    BY <2>8
  <2> HIDE DEF z
  <2>10. z \in Seq(LeafElements) /\ Len(z) = c
    BY ONLY <2>9, c \in Nat
  <2>11. ShowsItems(z, m.items)
    BY <2>2, <2>5, <2>9, <2>10 DEF ShowsItems
  <2> QED BY <2>11 DEF z
<1>9. ListShows(Branch(l), k, m)
  <2> DEFINE z == ks(l)
  <2>1. Branch(l) = Element(l, z)
    OBVIOUS
  <2>2. ShowsItems(z, m.items) /\ z \in Seq(LeafElements)
    BY <1>8 DEF ShowsItems
  <2> HIDE DEF z, Branch
  <2>3. /\ Element(l, z) \in ElementsOver(Seq(LeafElements)) /\ Named(Element(l, z))
        /\ Element(l, z).tag = l.tag /\ Element(l, z).key = l.key /\ Element(l, z).kids = z
        /\ Element(l, z).self = l.self
    <3>1. l.tag \in NodeTags /\ l.key \in NodeKeys \cup {NoKey} /\ l.self \in NodeData
      BY <1>3, <1>4
    <3> QED BY <2>2, <3>1, ElementIs
  <2> QED BY <1>3, <2>1, <2>2, <2>3 DEF ListShows, Branches
<1> HIDE DEF Branch, kids
<1>10. kids \in Seq(Branches) /\ Len(kids) = 2 /\ kids[1] = Branch(f) /\ kids[2] = Branch(l)
  <2>1. Branch(f) \in Branches /\ Branch(l) \in Branches
    BY <1>7, <1>9 DEF IsField, ListShows
  <2>2. \A T, u, v : u \in T /\ v \in T => <<u, v>> \in Seq(T)
    OBVIOUS
  <2>3. Len(kids) = 2 /\ kids[1] = Branch(f) /\ kids[2] = Branch(l)
    BY <1>5
  <2> QED BY <1>5, <2>1, <2>2, <2>3, Zenon
<1>11. /\ Element(w, kids) \in ElementsOver(Seq(Branches)) /\ Named(Element(w, kids))
       /\ Element(w, kids).tag = w.tag /\ Element(w, kids).key = w.key
       /\ Element(w, kids).kids = kids /\ Element(w, kids).id.built = applied
  BY <1>2, <1>4, <1>10, ElementIs
<1>12. Shows(Build(w), k, m) /\ Build(w).id.built = applied
  BY <1>1, <1>2, <1>7, <1>9, <1>10, <1>11 DEF Shows, Documents, Branches, LeafElements
<1> QED BY <1>12 DEF w

(* The whole document replaced *)
LEMMA ReplacedIs ==
  ASSUME NEW d, NEW v
  PROVE  HostApply(d, <<Patch(<<>>, Replace(v))>>) = Build(v)
<1>1. HostApply(d, <<Patch(<<>>, Replace(v))>>) = Put(d, <<>>, HostOp(At(d, <<>>), Replace(v)))
  BY HostNodeOp
<1>2. HostOp(At(d, <<>>), Replace(v)) = Build(v)
  BY DEF HostOp, Replace
<1> QED BY <1>1, <1>2, RootIs

(* The field of a document set to a text *)
LEMMA TextPut ==
  ASSUME NEW k, NEW m, NEW d, Shows(d, k, m), NEW text \in NodeData
  PROVE  LET x == WithText(d, text)
         IN  /\ Shows(x, k, m) /\ x.id = d.id
             /\ Field(x).id = Field(d).id /\ Field(x).self = text /\ Items(x) = Items(d)
             /\ \A id : AddressOf(x, id) = AddressOf(d, id)
<1> DEFINE f2 == WithSelf(d.kids[1], text)
           ks == [d.kids EXCEPT ![1] = f2]
           x == WithText(d, text)
<1>1. /\ d \in Documents /\ Named(d) /\ d.tag = "div" /\ d.key = NoKey /\ Len(d.kids) = 2
      /\ IsField(d.kids[1]) /\ ListShows(d.kids[2], k, m)
  BY DEF Shows
<1>2. d \in ElementsOver(Seq(Branches)) /\ d.kids \in Seq(Branches)
  BY <1>1 DEF Documents, Branches, LeafElements, ElementsOver
<1>3. x = Rekid(d, ks)
  BY DEF WithText, WithSelf, Rekid
<1>4. /\ f2 \in ElementsOver(Seq(LeafElements)) /\ f2.self = text /\ f2.id = d.kids[1].id
      /\ f2.tag = d.kids[1].tag /\ f2.key = d.kids[1].key /\ f2.kids = d.kids[1].kids
  BY <1>1, WithSelfIs DEF IsField, Branches
<1> HIDE DEF f2
<1>5. IsField(f2)
  BY <1>1, <1>4 DEF IsField, Branches, Named
<1>6. ks \in Seq(Branches) /\ Len(ks) = 2 /\ ks[1] = f2 /\ ks[2] = d.kids[2]
  <2>1. f2 \in Branches
    BY <1>5 DEF IsField
  <2>2. PICK s \in Seq(Branches) : s = d.kids
    BY <1>2
  <2>3. /\ [s EXCEPT ![1] = f2] \in Seq(Branches) /\ Len([s EXCEPT ![1] = f2]) = 2
        /\ \A j \in 1..2 : [s EXCEPT ![1] = f2][j] = IF j = 1 THEN f2 ELSE s[j]
    BY <1>1, <2>1, <2>2, ExceptSeq
  <2> QED BY <2>2, <2>3
<1> HIDE DEF ks, x
<1>7. /\ x.kids = ks /\ x.id = d.id /\ x.tag = d.tag /\ x.key = d.key
      /\ x \in ElementsOver(Seq(Branches))
  BY <1>2, <1>3, <1>6, ElementHasKids
<1>8. Shows(x, k, m)
  BY <1>1, <1>5, <1>6, <1>7 DEF Shows, Documents, Branches, LeafElements, Named
<1>9. ASSUME NEW id PROVE AddressOf(x, id) = AddressOf(d, id)
  <2>1. DOMAIN x.kids = 1..2 /\ DOMAIN d.kids = 1..2
    BY <1>1, <1>2, <1>6, <1>7
  <2>2. \A i \in 1..2 : x.kids[i].id = d.kids[i].id /\ x.kids[i].kids = d.kids[i].kids
    BY <1>4, <1>6, <1>7
  <2> QED BY <1>7, <2>1, <2>2 DEF AddressOf
<1> QED BY <1>1, <1>4, <1>6, <1>7, <1>8, <1>9 DEF Field, Items, x

(* The node at an address of at most two steps *)
LEMMA NodeAtIs ==
  ASSUME NEW v
  PROVE  /\ NodeAt(v, <<>>) = v
         /\ \A i : i \in DOMAIN v.kids => NodeAt(v, <<i>>) = v.kids[i]
         /\ \A i, j : i \in DOMAIN v.kids /\ j \in DOMAIN v.kids[i].kids =>
              NodeAt(v, <<i, j>>) = v.kids[i].kids[j]
<1>1. NodeAt(v, <<>>) = v
  <2>1. HasPath(v, <<>>)
    BY DEF HasPath
  <2> QED BY <2>1, RootIs DEF NodeAt
<1>2. ASSUME NEW i, i \in DOMAIN v.kids PROVE NodeAt(v, <<i>>) = v.kids[i]
  <2>1. PICK p : p = <<i>>
    OBVIOUS
  <2>2. Len(p) = 1 /\ DOMAIN p = {1} /\ p[1] = i
    BY <2>1
  <2>3. Walk(v, p)[0] = v /\ \A a \in 1..Len(p) : Walk(v, p)[a] = Walk(v, p)[a - 1].kids[p[a]]
    <3>1. Len(p) \in Nat
      BY <2>2
    <3> QED BY <3>1, WalkIs
  <2>4. Walk(v, p)[1 - 1] = v /\ Walk(v, p)[1] = v.kids[i]
    <3>1. 1 \in 1..Len(p) /\ 1 - 1 = 0
      BY <2>2
    <3> QED BY <2>2, <2>3, <3>1
  <2>5. HasPath(v, p)
    BY <1>2, <2>2, <2>4 DEF HasPath
  <2>6. At(v, p) = v.kids[i]
    BY <2>2, <2>4 DEF At
  <2> QED BY <2>1, <2>5, <2>6 DEF NodeAt
<1>3. ASSUME NEW i, NEW j, i \in DOMAIN v.kids, j \in DOMAIN v.kids[i].kids
      PROVE  NodeAt(v, <<i, j>>) = v.kids[i].kids[j]
  <2>1. PICK p : p = <<i, j>>
    OBVIOUS
  <2>2. Len(p) = 2 /\ DOMAIN p = {1, 2} /\ p[1] = i /\ p[2] = j
    BY <2>1
  <2>3. Walk(v, p)[0] = v /\ \A a \in 1..Len(p) : Walk(v, p)[a] = Walk(v, p)[a - 1].kids[p[a]]
    <3>1. Len(p) \in Nat
      BY <2>2
    <3> QED BY <3>1, WalkIs
  <2>4. Walk(v, p)[1 - 1] = v /\ Walk(v, p)[1] = v.kids[i]
    <3>1. 1 \in 1..Len(p) /\ 1 - 1 = 0
      BY <2>2
    <3> QED BY <2>2, <2>3, <3>1
  <2>5. Walk(v, p)[2 - 1] = v.kids[i] /\ Walk(v, p)[2] = v.kids[i].kids[j]
    <3>1. 2 \in 1..Len(p) /\ 2 - 1 = 1
      BY <2>2
    <3> QED BY <2>2, <2>3, <2>4, <3>1
  <2>6. HasPath(v, p)
    <3> SUFFICES ASSUME NEW a \in DOMAIN p PROVE p[a] \in DOMAIN Walk(v, p)[a - 1].kids
      BY DEF HasPath
    <3>1. a = 1 \/ a = 2
      BY <2>2
    <3> QED BY <1>3, <2>2, <2>4, <2>5, <3>1
  <2>7. At(v, p) = v.kids[i].kids[j]
    BY <2>2, <2>5 DEF At
  <2> QED BY <2>1, <2>6, <2>7 DEF NodeAt
<1> QED BY <1>1, <1>2, <1>3

(* The address of an element in a document that shows a view leads to a node
   of that view with the element's tag and key. *)
LEMMA AddressHits ==
  ASSUME NEW k \in SUBSET Tags, NEW m \in Models, NEW d, Shows(d, k, m),
         NEW id, NEW path \in AddressOf(d, id)
  PROVE  /\ path \in Seq(Nat)
         /\ NodeAt(View(k, m), path) # None
         /\ NodeAt(View(k, m), path).key = id.key /\ NodeAt(View(k, m), path).tag = id.tag
<1> DEFINE v == View(k, m)
           f == FieldNode(m)
           l == ListNode(k, m)
           s == ItemNodes(m.items)
<1>1. /\ d \in Documents /\ Named(d) /\ d.tag = "div" /\ d.key = NoKey /\ Len(d.kids) = 2
      /\ IsField(d.kids[1]) /\ ListShows(d.kids[2], k, m)
  BY DEF Shows
<1>2. /\ v.tag = "div" /\ v.key = NoKey /\ v.kids = <<f, l>>
      /\ v \in Tree[Height] /\ f \in Tree[Height - 1] /\ l \in Tree[Height - 1]
      /\ Height \in 1..Height /\ Height - 1 \in 1..Height /\ Height - 2 \in 1..Height
  BY ViewInTree DEF Node
<1>3. f.tag = "input" /\ f.key = NoKey /\ l.tag = "ul" /\ l.key = NoKey /\ l.kids = s
  BY DEF FieldNode, ListNode, Node
<1>4. m.items \in ItemLists
  BY ModelsAre
<1>5. PICK c \in Nat : c = Len(m.items)
  BY <1>4 DEF ItemLists
<1>6. /\ DOMAIN s = 1..c
      /\ \A i \in 1..c : s[i] \in Tree[Height - 2] /\ s[i] = Node("li", m.items[i].key, m.items[i].self, <<>>)
  BY <1>2, <1>4, <1>5, ItemNodesAre
<1>7. ASSUME NEW i \in 1..c PROVE s[i].tag = "li" /\ s[i].key = m.items[i].key
  <2>1. PICK x : x = s[i] /\ x = Node("li", m.items[i].key, m.items[i].self, <<>>)
    BY <1>6
  <2>2. x.tag = "li" /\ x.key = m.items[i].key
    BY <2>1 DEF Node
  <2> QED BY <2>1, <2>2
<1>8. None \notin Tree[Height] /\ None \notin Tree[Height - 1] /\ None \notin Tree[Height - 2]
  <2>1. \A n \in 1..Height : n \in 0..Height
    OBVIOUS
  <2> QED BY <1>2, <2>1, NoneAssumption
<1>9. /\ NodeAt(v, <<>>) = v
      /\ \A i : i \in DOMAIN v.kids => NodeAt(v, <<i>>) = v.kids[i]
      /\ \A i, j : i \in DOMAIN v.kids /\ j \in DOMAIN v.kids[i].kids =>
           NodeAt(v, <<i, j>>) = v.kids[i].kids[j]
  BY NodeAtIs
<1>10. DOMAIN v.kids = {1, 2} /\ v.kids[1] = f /\ v.kids[2] = l
  BY <1>2
<1> HIDE DEF v, f, l, s
<1>11. DOMAIN d.kids = {1, 2}
  <2>1. d.kids \in Seq(Branches)
    BY <1>1 DEF Documents, Branches, LeafElements, ElementsOver
  <2> QED BY <1>1, <2>1
<1>12. /\ d.id.tag = "div" /\ d.id.key = NoKey
       /\ d.kids[1].id.tag = "input" /\ d.kids[1].id.key = NoKey /\ d.kids[1].kids = <<>>
       /\ d.kids[2].id.tag = "ul" /\ d.kids[2].id.key = NoKey
  BY <1>1 DEF Named, IsField, ListShows
<1>13. /\ DOMAIN d.kids[2].kids = 1..c
       /\ \A j \in 1..c : d.kids[2].kids[j].id.tag = "li" /\ d.kids[2].kids[j].id.key = m.items[j].key
  <2>1. PICK es : es = d.kids[2].kids
    OBVIOUS
  <2>2. es \in Seq(LeafElements) /\ Len(es) = c /\ \A i \in 1..c : IsItem(es[i], m.items[i])
    BY <1>1, <1>5, <2>1 DEF ListShows, ShowsItems
  <2>3. DOMAIN es = 1..c
    BY <2>2
  <2>4. \A i \in 1..c : es[i].id.tag = "li" /\ es[i].id.key = m.items[i].key
    BY <2>2 DEF IsItem, Named
  <2> QED BY <2>1, <2>3, <2>4
<1>14. \/ path = <<>> /\ d.id = id
       \/ \E i \in {1, 2} : path = <<i>> /\ d.kids[i].id = id
       \/ \E j \in 1..c : path = <<2, j>> /\ d.kids[2].kids[j].id = id
  <2>1. \/ path = <<>> /\ d.id = id
        \/ \E i \in DOMAIN d.kids : path = <<i>> /\ d.kids[i].id = id
        \/ \E i \in DOMAIN d.kids : \E j \in DOMAIN d.kids[i].kids : path = <<i, j>> /\ d.kids[i].kids[j].id = id
    BY DEF AddressOf
  <2>2. DOMAIN d.kids[1].kids = {}
    BY <1>12
  <2>3. CASE \E i \in DOMAIN d.kids : \E j \in DOMAIN d.kids[i].kids : path = <<i, j>> /\ d.kids[i].kids[j].id = id
    <3>1. PICK i \in {1, 2} : \E j \in DOMAIN d.kids[i].kids : path = <<i, j>> /\ d.kids[i].kids[j].id = id
      BY <1>11, <2>3
    <3>2. i = 2
      BY <2>2, <3>1
    <3> QED BY <1>13, <3>1, <3>2
  <2> QED BY <1>11, <2>1, <2>3
<1>15. CASE path = <<>> /\ d.id = id
  <2>1. path \in Seq(Nat)
    BY <1>15
  <2> QED BY <1>2, <1>8, <1>9, <1>12, <1>15, <2>1 DEF v
<1>16. CASE \E i \in {1, 2} : path = <<i>> /\ d.kids[i].id = id
  <2>1. PICK i \in {1, 2} : path = <<i>> /\ d.kids[i].id = id
    BY <1>16
  <2>2. NodeAt(v, path) = v.kids[i]
    BY <1>9, <1>10, <2>1
  <2>3. path \in Seq(Nat)
    BY <2>1
  <2>4. i = 1 \/ i = 2
    OBVIOUS
  <2> QED BY <1>2, <1>3, <1>8, <1>10, <1>12, <2>1, <2>2, <2>3, <2>4 DEF v
<1>17. CASE \E j \in 1..c : path = <<2, j>> /\ d.kids[2].kids[j].id = id
  <2>1. PICK j \in 1..c : path = <<2, j>> /\ d.kids[2].kids[j].id = id
    BY <1>17
  <2>2. NodeAt(v, path) = s[j]
    BY <1>3, <1>6, <1>9, <1>10, <2>1
  <2>3. path \in Seq(Nat)
    <3>1. j \in Nat
      OBVIOUS
    <3> QED BY <2>1, <3>1
  <2> QED BY <1>6, <1>7, <1>8, <1>13, <2>1, <2>2, <2>3 DEF v
<1> QED BY <1>14, <1>15, <1>16, <1>17

-----------------------------------------------------------------------------
-----------------------------------------------------------------------------
(* The inductive invariant *)

(* Turns the page may send: an event of an element that is, or was, in the document *)
Events ==
  {j \in [op : {"event"}, el : Ids, path : Seq(Nat), event : {"click", "input", "keydown"},
          payload : Texts, key : NodeKeys \cup {NoKey}] :
     j.key = j.el.key /\ j.event \in Listens(j.el.tag)}
Jobs == {InitJob} \cup {SupplyJob(t) : t \in Tags} \cup Events

(* Some view is shown, if there is a document. *)
ShowsSome(d) == \E k \in SUBSET Tags, m \in Models : Shows(d, k, m)
Docs == applied \in Nat /\ (doc # None => doc.id.built < applied /\ ShowsSome(doc))

(* The turns that wait and the one that was sent *)
Turns ==
  /\ queue \in Seq(Jobs) /\ (inbox # None => inbox \in Jobs)
  /\ busy \in BOOLEAN /\ (inbox # None \/ queue # <<>> => busy)
  /\ doc = None => /\ inbox # None => inbox.op # "event"
                   /\ \A i \in 1..Len(queue) : queue[i].op # "event"
  /\ inbox # None /\ inbox.op = "event" => inbox.path \in AddressOf(doc, inbox.el)

(* A set of numbers has a least one. *)
LEMMA MinIs ==
  ASSUME NEW S, S \subseteq Nat, S # {}
  PROVE  Min(S) \in S
<1> DEFINE R == OpToRel(<, Nat)
<1>1. IsWellFoundedOn(R, Nat)
  BY NatLessThanWellFounded
<1>2. PICK x \in S : \A y \in S : ~ (<<y, x>> \in R)
  <2> HIDE DEF R
  <2> QED BY <1>1, WFMin
<1>3. \A y \in S : x =< y
  <2> SUFFICES ASSUME NEW y \in S, y < x PROVE FALSE
    OBVIOUS
  <2>1. <<y, x>> \in R
    BY DEF OpToRel
  <2> QED BY <1>2, <2>1
<1> QED BY <1>3 DEF Min

(* Some element of a set that is not empty *)
LEMMA OnlyOne ==
  ASSUME NEW S, S # {}
  PROVE  Only(S) \in S
BY DEF Only

(* The kinds of a turn, by its op *)
LEMMA JobKinds ==
  ASSUME NEW j \in Jobs
  PROVE  /\ j.op = "event" => j \in Events
         /\ j.op = "supply" => \E t \in Tags : j = SupplyJob(t)
<1>1. CASE j = InitJob
  BY <1>1 DEF InitJob
<1>2. CASE \E t \in Tags : j = SupplyJob(t)
  BY <1>2 DEF SupplyJob
<1>3. CASE j \in Events
  <2>1. j.op = "event"
    BY <1>3 DEF Events
  <2> QED BY <1>3, <2>1
<1> QED BY <1>1, <1>2, <1>3 DEF Jobs

(* An event that is sent is the one that waited, at the address its element
   has in the document by then. *)
LEMMA RequestIs ==
  ASSUME NEW j \in Jobs, ~ HasLeft(j), j.op = "event" => ShowsSome(doc')
  PROVE  /\ Request(j) \in Jobs
         /\ Request(j).op = j.op
         /\ j.op = "event" => Request(j).path \in AddressOf(doc', Request(j).el)
<1>1. CASE j.op # "event"
  BY <1>1 DEF Request
<1>2. CASE j.op = "event"
  <2>1. j \in Events
    BY <1>2, JobKinds
  <2> DEFINE A == AddressOf(doc', j.el)
             p == Only(A)
  <2>2. p \in A
    <3>1. A # {}
      BY <1>2 DEF HasLeft
    <3> HIDE DEF A
    <3> QED BY <3>1, OnlyOne
  <2>3. p \in Seq(Nat)
    <3>1. PICK k \in SUBSET Tags, m \in Models : Shows(doc', k, m)
      BY <1>2 DEF ShowsSome
    <3> HIDE DEF p
    <3> QED BY <2>2, <3>1, AddressHits
  <2>4. Request(j) = [j EXCEPT !.path = p]
    BY <1>2 DEF Request
  <2> HIDE DEF p
  <2>5. [j EXCEPT !.path = p] \in Events /\ [j EXCEPT !.path = p].path = p
        /\ [j EXCEPT !.path = p].el = j.el /\ [j EXCEPT !.path = p].op = j.op
    BY <2>1, <2>3 DEF Events
  <2> QED BY <1>2, <2>2, <2>4, <2>5 DEF Jobs
<1> QED BY <1>1, <1>2

(* pump(): an event it sends has the address of its element by then, and
   what it leaves waiting was waiting before. *)
LEMMA PumpOnIs ==
  ASSUME NEW q \in Seq(Jobs), PumpOn(q),
         doc' = None => \A i \in 1..Len(q) : q[i].op # "event",
         doc' # None => ShowsSome(doc')
  PROVE  Turns'
<1> DEFINE due == {i \in DOMAIN q : ~ HasLeft(q[i])}
<1>1. CASE due = {}
  <2>1. queue' = <<>> /\ busy' = FALSE /\ inbox' = None
    BY <1>1 DEF PumpOn
  <2>2. <<>> \in Seq(Jobs) /\ Len(<<>>) = 0
    OBVIOUS
  <2>3. queue' \in Seq(Jobs) /\ \A i \in 1..Len(queue') : queue'[i].op # "event"
    BY <2>1, <2>2
  <2>4. ~ (inbox' # None) /\ ~ (inbox' # None \/ queue' # <<>>) /\ busy' \in BOOLEAN
    BY <2>1
  <2> QED BY <2>3, <2>4 DEF Turns
<1>2. CASE due # {}
  <2>0. PICK n \in Nat : n = Len(q) /\ DOMAIN q = 1..n
    OBVIOUS
  <2> DEFINE a == Min(due)
  <2>1. queue' = Drop(q, a) /\ busy' = TRUE /\ inbox' = Request(q[a])
    BY <1>2 DEF PumpOn
  <2>2. a \in 1..n /\ ~ HasLeft(q[a])
    <3>1. due \subseteq Nat
      BY <2>0
    <3>2. Min(due) \in due
      <4> HIDE DEF due
      <4> QED BY <1>2, <3>1, MinIs
    <3> QED BY <2>0, <3>2
  <2> HIDE DEF a
  <2>3. q[a] \in Jobs
    BY <2>0, <2>2
  <2>4. q[a].op = "event" => doc' # None
    BY <2>0, <2>2
  <2>5. /\ Request(q[a]) \in Jobs /\ Request(q[a]).op = q[a].op
        /\ q[a].op = "event" => Request(q[a]).path \in AddressOf(doc', Request(q[a]).el)
    BY <2>2, <2>3, <2>4, RequestIs
  <2>6. /\ Drop(q, a) \in Seq(Jobs)
        /\ \A i \in 1..Len(Drop(q, a)) : \E j \in 1..n : Drop(q, a)[i] = q[j]
    <3>1. a + 1 \in 1..(Len(q) + 1) /\ Len(q) \in 0..Len(q) /\ a \in Nat
      BY <2>0, <2>2
    <3>2. /\ SubSeq(q, a + 1, Len(q)) \in Seq(Jobs)
          /\ Len(SubSeq(q, a + 1, Len(q))) = Len(q) - a
          /\ \A i \in 1..(Len(q) - a) : SubSeq(q, a + 1, Len(q))[i] = q[a + i]
      <4>1. PICK s : s = SubSeq(q, a + 1, Len(q))
        OBVIOUS
      <4>2. s \in Seq(Jobs) /\ Len(s) = n - a /\ \A i \in 1..(n - a) : s[i] = q[a + i]
        BY <2>0, <2>2, <4>1
      <4> QED BY <2>0, <4>1, <4>2
    <3>3. \A i \in 1..(n - a) : a + i \in 1..n
      BY <2>2
    <3> QED BY <2>0, <3>2, <3>3 DEF Drop
  <2>7. doc' = None => \A i \in 1..Len(Drop(q, a)) : Drop(q, a)[i].op # "event"
    BY <2>0, <2>6
  <2> QED BY <2>1, <2>4, <2>5, <2>6, <2>7 DEF Turns
<1> QED BY <1>1, <1>2

(* A turn joins the queue, or is sent at once when nothing runs. *)
LEMMA EnqueueIs ==
  ASSUME Turns, NEW job \in Jobs, Enqueue(job),
         \A id : AddressOf(doc', id) = AddressOf(doc, id),
         doc' = None => doc = None /\ job.op # "event",
         doc' # None => ShowsSome(doc')
  PROVE  Turns' /\ (busy => busy' = busy /\ inbox' = inbox)
<1>1. CASE busy
  <2>1. queue' = Append(queue, job) /\ busy' = busy /\ inbox' = inbox
    BY <1>1 DEF Enqueue
  <2>2. PICK n \in Nat : n = Len(queue)
    BY DEF Turns
  <2>3. /\ Append(queue, job) \in Seq(Jobs) /\ Len(Append(queue, job)) = n + 1
        /\ \A i \in 1..(n + 1) : Append(queue, job)[i] = IF i = n + 1 THEN job ELSE queue[i]
    BY <2>2 DEF Turns
  <2>4. doc' = None => \A i \in 1..(n + 1) : Append(queue, job)[i].op # "event"
    <3> SUFFICES ASSUME doc' = None, NEW i \in 1..(n + 1) PROVE Append(queue, job)[i].op # "event"
      OBVIOUS
    <3>1. CASE i = n + 1
      BY <2>3, <3>1
    <3>2. CASE i # n + 1
      <4>1. i \in 1..Len(queue)
        BY <2>2, <3>2
      <4> QED BY <2>3, <3>2, <4>1 DEF Turns
    <3> QED BY <3>1, <3>2
  <2> QED BY <1>1, <2>1, <2>3, <2>4 DEF Turns
<1>2. CASE ~ busy
  <2> DEFINE q == <<job>>
  <2>1. PumpOn(q)
    BY <1>2 DEF Enqueue
  <2>2. q \in Seq(Jobs) /\ Len(q) = 1 /\ \A i \in 1..Len(q) : q[i] = job
    OBVIOUS
  <2> HIDE DEF q
  <2>3. doc' = None => \A i \in 1..Len(q) : q[i].op # "event"
    BY <2>2
  <2>4. Turns'
    BY <2>1, <2>2, <2>3, PumpOnIs
  <2> QED BY <1>2, <2>4
<1>3. busy \in BOOLEAN
  BY DEF Turns
<1> QED BY <1>1, <1>2, <1>3

(* What the worker has posted: one reply at most, and none while a turn is in
   the worker *)
Outbox ==
  /\ \E S : outbox \in Seq(S)
  /\ \A i \in 1..Len(outbox) : \/ outbox[i].op = "fetched" /\ outbox[i].tag \in Tags
                               \/ outbox[i].op = "reply" /\ outbox[i].ok \in BOOLEAN
  /\ \A i \in 1..Len(outbox) : outbox[i].op = "reply" =>
       busy /\ inbox = None /\ \A j \in 1..Len(outbox) : outbox[j].op = "reply" => j = i

(* Patches that lead document d to the view of k and m *)
LeadsOn(d, k, m, ps) ==
  \/ ps = <<Patch(<<>>, Replace(View(k, m)))>>
  \/ d # None /\ \E k0 \in SUBSET Tags, m0 \in Models : Shows(d, k0, m0) /\ ps = Diff(View(k0, m0), View(k, m))

(* The document shows the guest's view, unless the patches that lead there are
   under way. *)
Current == IF doc = None THEN shown = None ELSE Shows(doc, kept, model)
Synced ==
  /\ \A i \in 1..Len(outbox) : outbox[i].op = "reply" /\ outbox[i].ok => LeadsOn(doc, kept, model, outbox[i].patches)
  /\ ~ dead /\ (\A i \in 1..Len(outbox) : ~ (outbox[i].op = "reply" /\ outbox[i].ok)) => Current

(* What the guest has shown is the view of its model. *)
Begun == shown \in {None, [model |-> model, tree |-> View(kept, model)]}

(* A worker that has failed neither has a turn nor posts anything. *)
Stopped == dead => inbox = None /\ outbox = <<>>

(* The inductive invariant *)
IInv == TypeOK /\ Begun /\ Turns /\ Outbox /\ Synced /\ Docs /\ Stopped

(* A document that shows a view, in the words of the property *)
LEMMA ViewShown ==
  ASSUME NEW d, kept \in SUBSET Tags, model \in Models, Shows(d, kept, model)
  PROVE  ShowsView(d)
<1> DEFINE es == Items(d)
           f == [i \in DOMAIN es |-> [key |-> es[i].key, self |-> es[i].self]]
<1>1. d.kids[2].self = kept /\ ShowsItems(es, model.items)
  BY DEF Shows, ListShows, Items
<1>2. View(kept, model).kids[2].self = kept
  <2>1. View(kept, model) = Node("div", NoKey, NoText, <<FieldNode(model), ListNode(kept, model)>>)
    BY ViewInTree
  <2> QED BY <2>1 DEF Node, ListNode
<1>3. model.items \in Seq([key : NodeKeys, self : NodeData])
  BY ModelsAre DEF ItemLists
<1>4. PICK R : R = [key : NodeKeys, self : NodeData]
  OBVIOUS
<1>5. PICK s \in Seq(R) : s = model.items
  BY <1>3, <1>4
<1>6. PICK n \in Nat : n = Len(s) /\ DOMAIN s = 1..n /\ \A i \in 1..n : s[i] \in R
  OBVIOUS
<1> HIDE DEF es
<1>7. es \in Seq(LeafElements) /\ Len(es) = n /\ \A i \in 1..n : IsItem(es[i], s[i])
  BY <1>1, <1>5, <1>6 DEF ShowsItems
<1>8. DOMAIN es = 1..n
  BY <1>7
<1>9. ASSUME NEW i \in 1..n PROVE [key |-> es[i].key, self |-> es[i].self] = s[i]
  <2>1. s[i] \in [key : NodeKeys, self : NodeData]
    BY <1>4, <1>6
  <2>2. es[i].key = s[i].key /\ es[i].self = s[i].self
    BY <1>7 DEF IsItem
  <2> QED BY <2>1, <2>2
<1>10. f = s
  <2>1. f = [i \in 1..n |-> s[i]]
    BY <1>8, <1>9
  <2>2. s = [i \in 1..n |-> s[i]]
    BY <1>6
  <2> QED BY <2>1, <2>2
<1> QED BY <1>1, <1>2, <1>5, <1>10 DEF ShowsView, es

(* The text of the field of a document is data of a node. *)
LEMMA FieldIsData ==
  ASSUME NEW d, ShowsSome(d)
  PROVE  /\ d \in Documents /\ d # None
         /\ Field(d).self \in NodeData /\ Field(d).id \in Ids
         /\ Field(d).id.tag = "input" /\ Field(d).id.key = NoKey
<1>1. PICK k \in SUBSET Tags, m \in Models : Shows(d, k, m)
  BY DEF ShowsSome
<1>2. d \in Documents /\ IsField(d.kids[1])
  BY <1>1 DEF Shows
<1>3. d # None
  BY <1>2, NoneAssumption
<1>4. Field(d).self \in NodeData /\ Field(d).id \in Ids
  BY <1>2 DEF IsField, Branches, ElementsOver, Field
<1>5. Field(d).id.tag = "input" /\ Field(d).id.key = NoKey
  BY <1>2 DEF IsField, Named, Field
<1> QED BY <1>2, <1>3, <1>4, <1>5

(* The patches of a reply, replayed *)
LEMMA ReplayedIs ==
  ASSUME Docs, kept \in SUBSET Tags, model \in Models, NEW ps, LeadsOn(doc, kept, model, ps)
  PROVE  LET new == HostApply(doc, ps)
         IN  /\ Shows(new, kept, model) /\ new.id.built < applied + 1
             /\ doc # None /\ doc.id = new.id => SameIds(Items(doc), Items(new))
<1> DEFINE new == HostApply(doc, ps)
<1>0. applied \in Nat
  BY DEF Docs
<1>1. CASE ps = <<Patch(<<>>, Replace(View(kept, model)))>>
  <2>1. new = Build(View(kept, model))
    BY <1>1, ReplacedIs
  <2>2. Shows(new, kept, model) /\ new.id.built = applied
    BY <1>0, <2>1, BuiltShows
  <2> HIDE DEF new
  <2>3. ~ (doc # None /\ doc.id = new.id)
    BY <1>0, <2>2 DEF Docs
  <2>4. new.id.built < applied + 1
    BY <1>0, <2>2
  <2> QED BY <2>2, <2>3, <2>4 DEF new
<1>2. CASE doc # None /\ \E k0 \in SUBSET Tags, m0 \in Models :
                           Shows(doc, k0, m0) /\ ps = Diff(View(k0, m0), View(kept, model))
  <2>1. PICK k0 \in SUBSET Tags, m0 \in Models :
               Shows(doc, k0, m0) /\ ps = Diff(View(k0, m0), View(kept, model))
    BY <1>2
  <2>2. Shows(new, kept, model) /\ new.id = doc.id /\ SameIds(Items(doc), Items(new))
    BY <1>0, <2>1, ViewPatched
  <2> HIDE DEF new
  <2>3. new.id.built < applied + 1
    <3>1. doc.id.built < applied
      BY <1>2 DEF Docs
    <3>2. new \in Documents
      BY <2>2 DEF Shows
    <3>3. new.id.built \in Nat
      BY <3>2 DEF Documents, ElementsOver, Ids
    <3> QED BY <1>0, <2>2, <3>1, <3>3
  <2> QED BY <2>2, <2>3 DEF new
<1> QED BY <1>1, <1>2 DEF LeadsOn

(* A reply that the page takes *)
LEMMA SettledIs ==
  ASSUME Docs, kept \in SUBSET Tags, model \in Models, focus \in BOOLEAN,
         NEW reply, reply.ok, Settle(reply), LeadsOn(doc, kept, model, reply.patches)
  PROVE  /\ Shows(doc', kept, model) /\ doc' # None
         /\ applied' = applied + 1 /\ doc'.id.built < applied' /\ focus' \in BOOLEAN
         /\ doc # None /\ doc.id = doc'.id => SameIds(Items(doc), Items(doc'))
         /\ doc # None /\ focus /\ focus' /\ (\E i \in DOMAIN queue : queue[i].op = "event")
              => Field(doc').self = Field(doc).self
<1> DEFINE new == HostApply(doc, reply.patches)
           text == Field(doc).self
           other == WithText(new, text)
<1>1. /\ doc' = IF doc = None THEN new ELSE PutBack(doc, new)
      /\ focus' = (focus /\ Field(new).id = Field(doc).id)
      /\ applied' = applied + 1
  BY DEF Settle
<1>2. /\ Shows(new, kept, model) /\ new.id.built < applied + 1
      /\ doc # None /\ doc.id = new.id => SameIds(Items(doc), Items(new))
  BY ReplayedIs
<1> HIDE DEF new
<1>3. doc # None =>
        /\ Shows(other, kept, model) /\ other.id = new.id
        /\ Field(other).id = Field(new).id /\ Field(other).self = text /\ Items(other) = Items(new)
  <2> SUFFICES ASSUME doc # None
               PROVE  /\ Shows(other, kept, model) /\ other.id = new.id
                      /\ Field(other).id = Field(new).id /\ Field(other).self = text /\ Items(other) = Items(new)
    OBVIOUS
  <2>1. text \in NodeData
    BY FieldIsData DEF Docs
  <2> HIDE DEF text
  <2> QED BY <1>2, <2>1, TextPut
<1> HIDE DEF other
<1>4. doc' = new \/ (doc # None /\ doc' = other)
  BY <1>1 DEF PutBack, other
<1>5. /\ Shows(doc', kept, model) /\ doc'.id = new.id /\ Items(doc') = Items(new)
  BY <1>2, <1>3, <1>4
<1>6. doc' # None
  BY <1>5, FieldIsData DEF ShowsSome
<1>7. ASSUME doc # None, focus, focus', \E i \in DOMAIN queue : queue[i].op = "event"
      PROVE  Field(doc').self = Field(doc).self
  <2>1. Field(new).id = Field(doc).id
    BY <1>1, <1>7
  <2>2. doc' = other
    BY <1>1, <1>7, <2>1 DEF PutBack, other
  <2> QED BY <1>3, <1>7, <2>2
<1> QED BY <1>1, <1>2, <1>5, <1>6, <1>7

-----------------------------------------------------------------------------
-----------------------------------------------------------------------------
(* The steps *)

(* The outbox without its first message *)
LEMMA OutboxTail ==
  ASSUME Outbox, outbox # <<>>
  PROVE  \E n \in Nat : \E S :
           /\ Len(outbox) = n + 1 /\ Head(outbox) = outbox[1]
           /\ Tail(outbox) \in Seq(S) /\ Len(Tail(outbox)) = n
           /\ \A i \in 1..n : Tail(outbox)[i] = outbox[i + 1]
<1>1. PICK S : outbox \in Seq(S)
  BY DEF Outbox
<1>2. PICK s \in Seq(S) : s = outbox
  BY <1>1
<1>3. PICK n \in Nat : Len(s) = n + 1
  <2>1. Len(s) \in Nat /\ Len(s) # 0
    BY <1>2
  <2>2. Len(s) - 1 \in Nat /\ Len(s) = (Len(s) - 1) + 1
    BY <2>1
  <2> QED BY <2>2, Zenon
<1>4. Head(s) = s[1] /\ Tail(s) \in Seq(S) /\ Len(Tail(s)) = n /\ \A i \in 1..n : Tail(s)[i] = s[i + 1]
  BY <1>2, <1>3
<1> QED BY <1>2, <1>3, <1>4

(* The outbox with one message more *)
LEMMA OutboxGrows ==
  ASSUME Outbox, NEW x
  PROVE  \E n \in Nat : \E S :
           /\ Len(outbox) = n /\ outbox \in Seq(S)
           /\ Append(outbox, x) \in Seq(S \cup {x}) /\ Len(Append(outbox, x)) = n + 1
           /\ \A i \in 1..n : Append(outbox, x)[i] = outbox[i]
           /\ Append(outbox, x)[n + 1] = x
<1>1. PICK S : outbox \in Seq(S)
  BY DEF Outbox
<1>2. PICK s \in Seq(S) : s = outbox
  BY <1>1
<1>3. PICK n \in Nat : Len(s) = n
  OBVIOUS
<1>4. s \in Seq(S \cup {x})
  <2>1. S \subseteq S \cup {x}
    OBVIOUS
  <2> QED BY <2>1, SeqMonotonic
<1>5. Append(s, x) \in Seq(S \cup {x}) /\ Len(Append(s, x)) = n + 1
      /\ \A i \in 1..(n + 1) : Append(s, x)[i] = IF i = n + 1 THEN x ELSE s[i]
  <2> DEFINE U == S \cup {x}
  <2>1. s \in Seq(U) /\ x \in U
    BY <1>4
  <2> HIDE DEF U
  <2>2. Append(s, x) \in Seq(U) /\ Len(Append(s, x)) = n + 1
        /\ \A i \in 1..(n + 1) : Append(s, x)[i] = IF i = n + 1 THEN x ELSE s[i]
    BY <1>3, <2>1
  <2> QED BY <2>2 DEF U
<1>6. n + 1 \in 1..(n + 1) /\ \A i \in 1..n : i \in 1..(n + 1) /\ i # n + 1
  OBVIOUS
<1>7. Append(s, x)[n + 1] = x /\ \A i \in 1..n : Append(s, x)[i] = s[i]
  BY <1>5, <1>6
<1> HIDE DEF Outbox
<1> QED BY <1>2, <1>3, <1>5, <1>7

(* A step that posts something, or nothing, takes no reply. *)
LEMMA NoReplyTaken ==
  ASSUME Outbox, outbox' = outbox \/ \E x : outbox' = Append(outbox, x)
  PROVE  PatchesLandStep
<1> SUFFICES ASSUME outbox # <<>>, outbox' = Tail(outbox) PROVE FALSE
  BY DEF PatchesLandStep
<1>1. PICK n \in Nat : Len(outbox) = n + 1 /\ Len(Tail(outbox)) = n
  BY OutboxTail
<1>2. CASE outbox' = outbox
  <2>1. PICK l \in Nat : l = Len(outbox) /\ l = n + 1
    BY <1>1
  <2>2. outbox = Tail(outbox)
    BY <1>2, Zenon
  <2>3. Len(outbox) = n
    BY ONLY <1>1, <2>2
  <2> QED BY <2>1, <2>3
<1>3. CASE \E x : outbox' = Append(outbox, x)
  <2>1. PICK x : outbox' = Append(outbox, x)
    BY <1>3
  <2>2. PICK k \in Nat : Len(outbox) = k /\ Len(Append(outbox, x)) = k + 1
    BY OutboxGrows
  <2> QED BY <1>1, <2>1, <2>2
<1> QED BY <1>2, <1>3

(* What TypeOK says of the single variables *)
LEMMA InvTypes ==
  ASSUME TypeOK
  PROVE  /\ model \in Models /\ kept \in SUBSET Tags
         /\ focus \in BOOLEAN /\ busy \in BOOLEAN /\ dead \in BOOLEAN
BY DEF TypeOK, Models

(* mount() has sent the first turn: nothing is shown, and no document is there. *)
LEMMA InvInit == Init => IInv
<1> SUFFICES ASSUME Init PROVE IInv
  OBVIOUS
<1>1. TypeOK
  <2>1. model \in [items : Lists \cup {<<>>}, field : Texts]
    BY DomRemoteAssumption DEF Init
  <2>2. kept \in SUBSET Tags /\ fetch \in [Tags -> {"unasked", "going", "fetched"}]
    BY DEF Init
  <2>3. {focus, busy, dead} \subseteq BOOLEAN /\ (inbox # None \/ queue # <<>> => busy)
    BY DEF Init
  <2>4. used \in 0..MaxEvents
    BY DomRemoteAssumption DEF Init
  <2> QED BY <2>1, <2>2, <2>3, <2>4 DEF TypeOK
<1>2. Begun /\ Stopped
  BY DEF Init, Begun, Stopped
<1>3. Turns
  <2>1. queue \in Seq(Jobs) /\ Len(queue) = 0
    BY DEF Init
  <2>2. inbox \in Jobs /\ inbox.op # "event" /\ busy = TRUE
    BY DEF Init, Jobs, InitJob
  <2> QED BY <2>1, <2>2 DEF Turns
<1>4. Len(outbox) = 0
  BY DEF Init
<1>5. Outbox
  <2>1. outbox \in Seq({})
    BY DEF Init
  <2> QED BY <1>4, <2>1 DEF Outbox
<1>6. Synced
  BY <1>4 DEF Synced, Current, Init
<1>7. Docs
  BY DEF Docs, Init
<1> QED BY <1>1, <1>2, <1>3, <1>5, <1>6, <1>7 DEF IInv

(* The page takes a reply: the patches it carries lead from the document's
   view to the guest's. *)
LEMMA TakeReplyStep ==
  ASSUME IInv, TakeReply
  PROVE  IInv' /\ PatchesLandStep /\ NotRolledBackStep
<1>1. /\ outbox # <<>> /\ Head(outbox).op = "reply" /\ outbox' = Tail(outbox)
      /\ Settle(Head(outbox)) /\ PumpOn(queue)
      /\ model' = model /\ kept' = kept /\ shown' = shown
      /\ fetch' = fetch /\ dead' = dead /\ used' = used
  BY DEF TakeReply, guest
<1>2. TypeOK /\ Begun /\ Turns /\ Outbox /\ Synced /\ Docs /\ Stopped
  BY DEF IInv
<1>3. model \in Models /\ kept \in SUBSET Tags /\ focus \in BOOLEAN /\ dead \in BOOLEAN
  BY <1>2, InvTypes
<1>4a. PICK n \in Nat : \E S : /\ Len(outbox) = n + 1 /\ Head(outbox) = outbox[1]
                          /\ Tail(outbox) \in Seq(S) /\ Len(Tail(outbox)) = n
                          /\ \A i \in 1..n : Tail(outbox)[i] = outbox[i + 1]
  BY <1>1, <1>2, OutboxTail
<1>4. PICK S : /\ Len(outbox) = n + 1 /\ Head(outbox) = outbox[1]
                          /\ Tail(outbox) \in Seq(S) /\ Len(Tail(outbox)) = n
                          /\ \A i \in 1..n : Tail(outbox)[i] = outbox[i + 1]
  BY <1>4a
<1> DEFINE r == outbox[1]
<1>5. r.ok \in BOOLEAN /\ \A i \in 2..(n + 1) : outbox[i].op = "fetched" /\ outbox[i].tag \in Tags
  <2>1. 1 \in 1..(n + 1) /\ \A i \in 2..(n + 1) : i \in 1..(n + 1) /\ i # 1
    OBVIOUS
  <2>2. r.op = "reply"
    BY <1>1, <1>4
  <2>3. \A j \in 1..(n + 1) : outbox[j].op = "reply" => j = 1
    BY <1>2, <1>4, <2>1, <2>2 DEF Outbox
  <2>4. \A i \in 1..(n + 1) : \/ outbox[i].op = "fetched" /\ outbox[i].tag \in Tags
                              \/ outbox[i].op = "reply" /\ outbox[i].ok \in BOOLEAN
    BY <1>2, <1>4 DEF Outbox
  <2> QED BY <2>1, <2>2, <2>3, <2>4
<1>6. \A i \in 1..Len(outbox') : outbox'[i].op = "fetched" /\ outbox'[i].tag \in Tags
  <2>1. \A i \in 1..n : i + 1 \in 2..(n + 1)
    OBVIOUS
  <2> QED BY <1>1, <1>4, <1>5, <2>1
<1>7. Outbox'
  <2>1. outbox' \in Seq(S)
    BY <1>1, <1>4
  <2>2. \A i \in 1..Len(outbox') : outbox'[i].op # "reply"
    BY <1>6
  <2> QED BY <1>6, <2>1, <2>2 DEF Outbox
<1>8. ~ dead
  BY <1>1, <1>2 DEF Stopped
<1>9. CASE r.ok
  <2>1. LeadsOn(doc, kept, model, r.patches)
    <3>1. 1 \in 1..Len(outbox) /\ r.op = "reply"
      BY <1>1, <1>4
    <3> QED BY <1>2, <1>9, <3>1 DEF Synced
  <2>2. Settle(r)
    BY <1>1, <1>4
  <2>3. /\ Shows(doc', kept, model) /\ doc' # None
        /\ applied' = applied + 1 /\ doc'.id.built < applied' /\ focus' \in BOOLEAN
        /\ doc # None /\ doc.id = doc'.id => SameIds(Items(doc), Items(doc'))
        /\ doc # None /\ focus /\ focus' /\ (\E i \in DOMAIN queue : queue[i].op = "event")
             => Field(doc').self = Field(doc).self
    <3> HIDE DEF r
    <3> QED BY <1>2, <1>3, <1>9, <2>1, <2>2, SettledIs
  <2>4. ShowsSome(doc')
    BY <1>3, <2>3 DEF ShowsSome
  <2>5. Turns'
    BY <1>1, <1>2, <2>3, <2>4, PumpOnIs DEF Turns
  <2>6. Docs'
    BY <1>2, <2>3, <2>4 DEF Docs
  <2>7. Synced'
    <3>1. Current'
      BY <1>1, <2>3 DEF Current
    <3> QED BY <1>6, <3>1 DEF Synced
  <2>8. TypeOK'
    BY <1>1, <1>2, <2>3, <2>5 DEF TypeOK, Turns
  <2>9. Begun' /\ Stopped'
    BY <1>1, <1>2, <1>8 DEF Begun, Stopped
  <2>10. PatchesLandStep
    <3>1. ShowsView(doc')
      BY <1>3, <2>3, ViewShown
    <3> QED BY <2>3, <3>1 DEF PatchesLandStep, SameIds
  <2>11. NotRolledBackStep
    BY <2>3 DEF NotRolledBackStep
  <2> QED BY <1>7, <2>5, <2>6, <2>7, <2>8, <2>9, <2>10, <2>11 DEF IInv
<1>10. CASE ~ r.ok
  <2>1. doc' = doc /\ focus' = focus /\ applied' = applied
    BY <1>1, <1>4, <1>10 DEF Settle
  <2>2. Current
    <3>1. \A i \in 1..Len(outbox) : ~ (outbox[i].op = "reply" /\ outbox[i].ok)
      <4>1. \A i \in 1..(n + 1) : i = 1 \/ i \in 2..(n + 1)
        OBVIOUS
      <4> QED BY <1>4, <1>5, <1>10, <4>1
    <3> QED BY <1>2, <1>8, <3>1 DEF Synced
  <2>3. doc' # None => ShowsSome(doc')
    BY <1>2, <2>1 DEF Docs
  <2>4. Turns'
    BY <1>1, <1>2, <2>1, <2>3, PumpOnIs DEF Turns
  <2>5. Docs'
    BY <1>2, <2>1, <2>3 DEF Docs
  <2>6. Synced'
    <3>1. Current'
      BY <1>1, <2>1, <2>2 DEF Current
    <3> QED BY <1>6, <3>1 DEF Synced
  <2>7. TypeOK'
    BY <1>1, <1>2, <1>3, <2>1, <2>4 DEF TypeOK, Turns
  <2>8. Begun' /\ Stopped'
    BY <1>1, <1>2, <1>8 DEF Begun, Stopped
  <2>9. PatchesLandStep
    BY <1>4, <1>10 DEF PatchesLandStep
  <2>10. NotRolledBackStep
    BY <2>1 DEF NotRolledBackStep
  <2> QED BY <1>7, <2>4, <2>5, <2>6, <2>7, <2>8, <2>9, <2>10 DEF IInv
<1> QED BY <1>5, <1>9, <1>10

(* While a turn is in the worker, no reply is under way and the document
   shows the guest's view. *)
LEMMA InTurn ==
  ASSUME IInv, inbox # None
  PROVE  /\ inbox \in Jobs /\ busy = TRUE /\ ~ dead /\ Current
         /\ \A i \in 1..Len(outbox) : outbox[i].op = "fetched" /\ outbox[i].tag \in Tags
         /\ HeldTree = View(kept, model)
<1>1. TypeOK /\ Begun /\ Turns /\ Outbox /\ Synced /\ Docs /\ Stopped
  BY DEF IInv
<1>2. inbox \in Jobs /\ busy = TRUE
  BY <1>1 DEF Turns
<1>3. ~ dead
  BY <1>1 DEF Stopped
<1>4. \A i \in 1..Len(outbox) : outbox[i].op # "reply"
  BY <1>1 DEF Outbox
<1>5. \A i \in 1..Len(outbox) : outbox[i].op = "fetched" /\ outbox[i].tag \in Tags
  BY <1>1, <1>4 DEF Outbox
<1>6. Current
  BY <1>1, <1>3, <1>4 DEF Synced
<1>7. HeldTree = View(kept, model)
  BY <1>1 DEF Begun, HeldTree
<1> QED BY <1>2, <1>3, <1>5, <1>6, <1>7

(* What is the same whatever the worker answers *)
LEMMA ReplyPosted ==
  ASSUME IInv, inbox # None, NEW r, r.op = "reply", r.ok \in BOOLEAN, Posts(r), inbox' = None,
         UNCHANGED <<doc, focus, queue, busy, dead, applied, used>>
  PROVE  /\ Turns' /\ Outbox' /\ Docs' /\ Stopped' /\ PatchesLandStep /\ NotRolledBackStep
         /\ \A i \in 1..Len(outbox') : outbox'[i].op = "reply" => outbox'[i] = r
         /\ \E i \in 1..Len(outbox') : outbox'[i] = r
<1>1. TypeOK /\ Begun /\ Turns /\ Outbox /\ Synced /\ Docs /\ Stopped
  BY DEF IInv
<1>2. /\ busy = TRUE /\ ~ dead
      /\ \A i \in 1..Len(outbox) : outbox[i].op = "fetched" /\ outbox[i].tag \in Tags
  BY InTurn
<1>3. outbox' = Append(outbox, r)
  BY DEF Posts
<1>4a. PICK n \in Nat : \E S :
           /\ Len(outbox) = n /\ outbox \in Seq(S)
           /\ Append(outbox, r) \in Seq(S \cup {r}) /\ Len(Append(outbox, r)) = n + 1
           /\ \A i \in 1..n : Append(outbox, r)[i] = outbox[i]
           /\ Append(outbox, r)[n + 1] = r
  BY <1>1, OutboxGrows
<1>4. PICK S :
           /\ Len(outbox) = n /\ outbox \in Seq(S)
           /\ Append(outbox, r) \in Seq(S \cup {r}) /\ Len(Append(outbox, r)) = n + 1
           /\ \A i \in 1..n : Append(outbox, r)[i] = outbox[i]
           /\ Append(outbox, r)[n + 1] = r
  BY <1>4a
<1>5. /\ outbox' \in Seq(S \cup {r}) /\ Len(outbox') = n + 1
      /\ \A i \in 1..n : outbox'[i].op = "fetched" /\ outbox'[i].tag \in Tags
      /\ outbox'[n + 1] = r
  BY <1>2, <1>3, <1>4
<1>6. \A i \in 1..(n + 1) : i \in 1..n \/ i = n + 1
  OBVIOUS
<1>7. \A i \in 1..(n + 1) : outbox'[i].op = "reply" => i = n + 1
  <2>1. \A i \in 1..n : outbox'[i].op # "reply"
    BY <1>5
  <2> QED BY <1>6, <2>1
<1>8. Outbox'
  <2>1. busy' = TRUE
    BY <1>2
  <2>2. \A i \in 1..(n + 1) : \/ outbox'[i].op = "fetched" /\ outbox'[i].tag \in Tags
                              \/ outbox'[i].op = "reply" /\ outbox'[i].ok \in BOOLEAN
    BY <1>5, <1>6
  <2>3. \A i \in 1..(n + 1) : outbox'[i].op = "reply" =>
          \A j \in 1..(n + 1) : outbox'[j].op = "reply" => j = i
    BY <1>7
  <2> QED BY <1>5, <2>1, <2>2, <2>3 DEF Outbox
<1>9. Turns'
  BY <1>1, <1>2 DEF Turns
<1>10. Docs' /\ Stopped'
  BY <1>1, <1>2 DEF Docs, Stopped
<1>11. PatchesLandStep
  BY <1>1, <1>3, NoReplyTaken
<1>12. NotRolledBackStep
  BY DEF NotRolledBackStep
<1>13. n + 1 \in 1..(n + 1)
  OBVIOUS
<1> QED BY <1>5, <1>7, <1>8, <1>9, <1>10, <1>11, <1>12, <1>13

(* A turn that is refused, or panics, leaves guest and document alone. *)
LEMMA RefusesStep ==
  ASSUME IInv, inbox # None, Refuses, inbox' = None, UNCHANGED <<guest, fetch>>,
         UNCHANGED <<doc, focus, queue, busy, dead, applied, used>>
  PROVE  IInv' /\ PatchesLandStep /\ NotRolledBackStep
<1>1. PICK r : r = [op |-> "reply", ok |-> FALSE]
  OBVIOUS
<1>2. r.op = "reply" /\ r.ok = FALSE /\ Posts(r)
  BY <1>1 DEF Refuses
<1>3. /\ Turns' /\ Outbox' /\ Docs' /\ Stopped' /\ PatchesLandStep /\ NotRolledBackStep
      /\ \A i \in 1..Len(outbox') : outbox'[i].op = "reply" => outbox'[i] = r
  BY <1>2, ReplyPosted
<1>4. model' = model /\ kept' = kept /\ shown' = shown /\ fetch' = fetch
  BY DEF guest
<1>5. Synced'
  <2>1. Current
    BY InTurn
  <2>2. Current'
    BY <1>4, <2>1 DEF Current
  <2> QED BY <1>2, <1>3, <2>2 DEF Synced
<1>6. TypeOK'
  BY <1>3, <1>4 DEF IInv, TypeOK, Turns
<1>7. Begun'
  BY <1>4 DEF IInv, Begun
<1> QED BY <1>3, <1>5, <1>6, <1>7 DEF IInv

(* A turn that succeeds posts patches that lead the document on. *)
LEMMA AnswersStep ==
  ASSUME IInv, inbox # None, NEW k \in SUBSET Tags, NEW m \in Models, NEW ps, Answers(k, m, ps),
         LeadsOn(doc, k, m, ps), inbox' = None,
         UNCHANGED <<doc, focus, queue, busy, dead, applied, used>>
  PROVE  IInv' /\ PatchesLandStep /\ NotRolledBackStep
<1>1. PICK r : r = [op |-> "reply", ok |-> TRUE, patches |-> ps]
  OBVIOUS
<1>2. r.op = "reply" /\ r.ok = TRUE /\ r.patches = ps /\ Posts(r)
  BY <1>1 DEF Answers
<1>3. /\ Turns' /\ Outbox' /\ Docs' /\ Stopped' /\ PatchesLandStep /\ NotRolledBackStep
      /\ \A i \in 1..Len(outbox') : outbox'[i].op = "reply" => outbox'[i] = r
      /\ \E i \in 1..Len(outbox') : outbox'[i] = r
  BY <1>2, ReplyPosted
<1>4. model' = m /\ kept' = k /\ shown' = [model |-> m, tree |-> View(k, m)]
  BY DEF Answers
<1>5. Synced'
  <2>1. LeadsOn(doc', kept', model', ps)
    BY <1>4
  <2>2. \A i \in 1..Len(outbox') : outbox'[i].op = "reply" /\ outbox'[i].ok =>
          LeadsOn(doc', kept', model', outbox'[i].patches)
    BY <1>2, <1>3, <2>1
  <2>3. ~ (\A i \in 1..Len(outbox') : ~ (outbox'[i].op = "reply" /\ outbox'[i].ok))
    BY <1>2, <1>3
  <2> QED BY <2>2, <2>3 DEF Synced
<1>6. TypeOK'
  <2>1. fetch' \in [Tags -> {"unasked", "going", "fetched"}]
    <3>1. PICK asked : fetch' = [t \in Tags |-> IF t \in asked THEN "going" ELSE fetch[t]]
      BY DEF Answers
    <3> QED BY <3>1 DEF IInv, TypeOK
  <2>2. model' \in [items : Lists \cup {<<>>}, field : Texts] /\ kept' \in SUBSET Tags
    BY <1>4 DEF Models
  <2> QED BY <1>3, <2>1, <2>2 DEF IInv, TypeOK, Turns
<1>7. Begun'
  BY <1>4 DEF Begun
<1> QED BY <1>3, <1>5, <1>6, <1>7 DEF IInv

(* The worker takes a turn: it diffs against the tree the document shows, as
   no reply is under way. *)
LEMMA HandleTurnStep ==
  ASSUME IInv, HandleTurn
  PROVE  IInv' /\ PatchesLandStep /\ NotRolledBackStep
<1>1. /\ inbox # None /\ TakeTurn /\ inbox' = None
      /\ UNCHANGED <<doc, focus, queue, busy, dead, applied, used>>
  BY DEF HandleTurn
<1>2. inbox \in Jobs /\ Current /\ HeldTree = View(kept, model)
  BY <1>1, InTurn
<1>3. model \in Models /\ kept \in SUBSET Tags
  BY InvTypes DEF IInv
<1>4. CASE Refuses /\ UNCHANGED <<guest, fetch>>
  BY <1>1, <1>4, RefusesStep
<1>5. CASE /\ inbox.op = "init"
           /\ \E items \in Lists :
                LET m == [items |-> items, field |-> NoText]
                IN  Answers({}, m, <<Patch(<<>>, Replace(View({}, m)))>>)
  <2>1. PICK items \in Lists :
                LET m == [items |-> items, field |-> NoText]
                IN  Answers({}, m, <<Patch(<<>>, Replace(View({}, m)))>>)
    BY <1>5
  <2>2. PICK m : m = [items |-> items, field |-> NoText]
    OBVIOUS
  <2>3. m \in Models
    BY <2>2, DomRemoteAssumption DEF Models
  <2> DEFINE ps == <<Patch(<<>>, Replace(View({}, m)))>>
  <2>4. Answers({}, m, ps) /\ LeadsOn(doc, {}, m, ps)
    BY <2>1, <2>2 DEF LeadsOn
  <2>5. {} \in SUBSET Tags
    OBVIOUS
  <2> HIDE DEF ps
  <2> QED BY <1>1, <2>3, <2>4, <2>5, AnswersStep
<1>6. ASSUME Shows(doc, kept, model), doc # None, NEW k \in SUBSET Tags, NEW m \in Models, TurnsTo(k, m)
      PROVE  IInv' /\ PatchesLandStep /\ NotRolledBackStep
  <2>1. PICK ps : ps = Diff(View(kept, model), View(k, m))
    OBVIOUS
  <2>2. Answers(k, m, ps)
    BY <1>2, <1>6, <2>1 DEF TurnsTo
  <2>3. LeadsOn(doc, k, m, ps)
    BY <1>3, <1>6, <2>1 DEF LeadsOn
  <2> QED BY <1>1, <2>2, <2>3, AnswersStep
<1>7. CASE /\ inbox.op = "event"
           /\ \E items \in Lists, field \in NextFields(inbox) :
                TurnsTo(kept, [items |-> items, field |-> field])
  <2>1. PICK items \in Lists, field \in NextFields(inbox) : TurnsTo(kept, [items |-> items, field |-> field])
    BY <1>7
  <2>2. doc # None
    BY <1>1, <1>7 DEF IInv, Turns
  <2>3. inbox.payload \in Texts
    <3>1. inbox \in Events
      BY <1>2, <1>7, JobKinds
    <3> QED BY <3>1 DEF Events
  <2>4. field \in Texts
    BY <1>3, <2>3, DomRemoteAssumption DEF NextFields, Models
  <2>5. [items |-> items, field |-> field] \in Models
    BY <2>4 DEF Models
  <2> QED BY <1>2, <1>3, <1>6, <2>1, <2>2, <2>5 DEF Current
<1>8. CASE /\ inbox.op = "supply" /\ shown # None
           /\ \E items \in Lists : TurnsTo(kept \cup {inbox.tag}, [model EXCEPT !.items = items])
  <2>1. PICK items \in Lists : TurnsTo(kept \cup {inbox.tag}, [model EXCEPT !.items = items])
    BY <1>8
  <2>2. doc # None
    BY <1>2, <1>8 DEF Current
  <2>3. kept \cup {inbox.tag} \in SUBSET Tags
    <3>1. PICK t \in Tags : inbox = SupplyJob(t)
      BY <1>2, <1>8, JobKinds
    <3> QED BY <1>3, <3>1 DEF SupplyJob
  <2>4. [model EXCEPT !.items = items] \in Models
    BY <1>3 DEF Models
  <2> QED BY <1>2, <1>6, <2>1, <2>2, <2>3, <2>4 DEF Current
<1> QED BY <1>1, <1>4, <1>5, <1>7, <1>8 DEF TakeTurn

(* A fetch that is over: its turn joins the queue. *)
LEMMA TakeFetchedStep ==
  ASSUME IInv, TakeFetched
  PROVE  IInv' /\ PatchesLandStep /\ NotRolledBackStep
<1>1. /\ outbox # <<>> /\ Head(outbox).op = "fetched" /\ outbox' = Tail(outbox)
      /\ doc' = doc /\ focus' = focus /\ Enqueue(SupplyJob(Head(outbox).tag))
      /\ model' = model /\ kept' = kept /\ shown' = shown
      /\ fetch' = fetch /\ dead' = dead /\ applied' = applied /\ used' = used
  BY DEF TakeFetched, guest
<1>2. TypeOK /\ Begun /\ Turns /\ Outbox /\ Synced /\ Docs /\ Stopped
  BY DEF IInv
<1>3a. PICK n \in Nat : \E S : /\ Len(outbox) = n + 1 /\ Head(outbox) = outbox[1]
                          /\ Tail(outbox) \in Seq(S) /\ Len(Tail(outbox)) = n
                          /\ \A i \in 1..n : Tail(outbox)[i] = outbox[i + 1]
  BY <1>1, <1>2, OutboxTail
<1>3. PICK S : /\ Len(outbox) = n + 1 /\ Head(outbox) = outbox[1]
                          /\ Tail(outbox) \in Seq(S) /\ Len(Tail(outbox)) = n
                          /\ \A i \in 1..n : Tail(outbox)[i] = outbox[i + 1]
  BY <1>3a
<1>4. outbox' \in Seq(S) /\ Len(outbox') = n /\ \A i \in 1..n : outbox'[i] = outbox[i + 1]
  BY <1>1, <1>3
<1>5. \A i \in 1..n : i + 1 \in 1..(n + 1)
  OBVIOUS
<1>6. outbox[1].op = "fetched" /\ outbox[1].tag \in Tags
  <2>1. 1 \in 1..Len(outbox)
    BY <1>3
  <2>2. outbox[1].op = "fetched"
    BY <1>1, <1>3
  <2> QED BY <1>2, <2>1, <2>2 DEF Outbox
<1>7. ~ dead
  BY <1>1, <1>2 DEF Stopped
<1>8. Turns' /\ (busy => busy' = busy /\ inbox' = inbox)
  <2>1. PICK job : job = SupplyJob(outbox[1].tag)
    OBVIOUS
  <2>2. job \in Jobs /\ job.op # "event"
    BY <1>6, <2>1 DEF Jobs, SupplyJob
  <2>3. Enqueue(job)
    BY <1>1, <1>3, <2>1
  <2>4. doc' # None => ShowsSome(doc')
    BY <1>1, <1>2 DEF Docs
  <2> QED BY <1>1, <1>2, <2>2, <2>3, <2>4, EnqueueIs
<1>9. Outbox'
  <2>1. \A i \in 1..n : \/ outbox'[i].op = "fetched" /\ outbox'[i].tag \in Tags
                        \/ outbox'[i].op = "reply" /\ outbox'[i].ok \in BOOLEAN
    BY <1>2, <1>3, <1>4, <1>5 DEF Outbox
  <2>2. ASSUME NEW i \in 1..n, outbox'[i].op = "reply"
        PROVE  busy' /\ inbox' = None /\ \A j \in 1..n : outbox'[j].op = "reply" => j = i
    <3>1. i + 1 \in 1..Len(outbox) /\ outbox[i + 1].op = "reply"
      BY <1>3, <1>4, <1>5, <2>2
    <3>2. busy /\ inbox = None /\ \A j \in 1..Len(outbox) : outbox[j].op = "reply" => j = i + 1
      BY <1>2, <3>1 DEF Outbox
    <3>3. ASSUME NEW j \in 1..n, outbox'[j].op = "reply" PROVE j = i
      <4>1. j + 1 \in 1..Len(outbox) /\ outbox[j + 1].op = "reply"
        BY <1>3, <1>4, <1>5, <3>3
      <4>2. j + 1 = i + 1
        BY <3>2, <4>1
      <4> QED BY <4>2
    <3> QED BY <1>8, <3>2, <3>3
  <2> QED BY <1>4, <2>1, <2>2 DEF Outbox
<1>10. Synced'
  <2>1. \A i \in 1..n : outbox'[i].op = "reply" /\ outbox'[i].ok => LeadsOn(doc', kept', model', outbox'[i].patches)
    BY <1>1, <1>2, <1>3, <1>4, <1>5 DEF Synced
  <2>2. ASSUME \A i \in 1..n : ~ (outbox'[i].op = "reply" /\ outbox'[i].ok) PROVE Current'
    <3>1. ASSUME NEW i \in 1..(n + 1) PROVE ~ (outbox[i].op = "reply" /\ outbox[i].ok)
      <4>1. CASE i = 1
        BY <1>6, <4>1
      <4>2. CASE i # 1
        <5>1. PICK j \in 1..n : i = j + 1
          <6>1. i - 1 \in 1..n /\ i = (i - 1) + 1
            BY <4>2
          <6> QED BY <6>1
        <5> QED BY <1>4, <2>2, <5>1
      <4> QED BY <4>1, <4>2
    <3>2. Current
      BY <1>2, <1>3, <1>7, <3>1 DEF Synced
    <3> QED BY <1>1, <3>2 DEF Current
  <2> QED BY <1>4, <2>1, <2>2 DEF Synced
<1>11. Docs' /\ Begun' /\ Stopped'
  BY <1>1, <1>2, <1>7 DEF Docs, Begun, Stopped
<1>12. TypeOK'
  BY <1>1, <1>2, <1>8 DEF TypeOK, Turns
<1>13. PatchesLandStep
  BY <1>1 DEF PatchesLandStep
<1>14. NotRolledBackStep
  BY <1>1 DEF NotRolledBackStep
<1> QED BY <1>8, <1>9, <1>10, <1>11, <1>12, <1>13, <1>14 DEF IInv

(* The worker fails: nothing is sent any more, what it had posted is lost. *)
LEMMA WorkerFailsStep ==
  ASSUME IInv, WorkerFails
  PROVE  IInv' /\ PatchesLandStep /\ NotRolledBackStep
<1>1. /\ dead' = TRUE /\ queue' = <<>> /\ busy' = FALSE /\ inbox' = None /\ outbox' = <<>>
      /\ model' = model /\ kept' = kept /\ shown' = shown
      /\ fetch' = fetch /\ doc' = doc /\ focus' = focus /\ applied' = applied /\ used' = used
  BY DEF WorkerFails, guest
<1>2. TypeOK /\ Begun /\ Turns /\ Outbox /\ Synced /\ Docs /\ Stopped
  BY DEF IInv
<1>3. Turns'
  <2>1. queue' \in Seq(Jobs) /\ \A i \in 1..Len(queue') : queue'[i].op # "event"
    BY <1>1
  <2>2. ~ (inbox' # None) /\ ~ (inbox' # None \/ queue' # <<>>) /\ busy' \in BOOLEAN
    BY <1>1
  <2> QED BY <2>1, <2>2 DEF Turns
<1>4. Outbox' /\ Synced' /\ Stopped'
  <2>1. outbox' \in Seq({}) /\ Len(outbox') = 0
    BY <1>1
  <2>2. Outbox'
    BY <2>1 DEF Outbox
  <2> QED BY <1>1, <2>1, <2>2 DEF Synced, Stopped
<1>5. Docs' /\ Begun'
  BY <1>1, <1>2 DEF Docs, Begun
<1>6. TypeOK'
  BY <1>1, <1>2, <1>3 DEF TypeOK, Turns
<1>7. PatchesLandStep /\ NotRolledBackStep
  BY <1>1 DEF PatchesLandStep, NotRolledBackStep
<1> QED BY <1>3, <1>4, <1>5, <1>6, <1>7 DEF IInv

(* A fetch ends behind the reply that waits, if one does. *)
LEMMA FetchEndsStep ==
  ASSUME IInv, NEW t \in Tags, FetchEnds(t)
  PROVE  IInv' /\ PatchesLandStep /\ NotRolledBackStep
<1>1. PICK x : x = [op |-> "fetched", tag |-> t]
  OBVIOUS
<1>2. /\ outbox' = Append(outbox, x) /\ fetch' = [fetch EXCEPT ![t] = "fetched"] /\ ~ dead
      /\ model' = model /\ kept' = kept /\ shown' = shown
      /\ UNCHANGED <<inbox, doc, focus, queue, busy, dead, applied, used>>
  BY <1>1 DEF FetchEnds, Posts, guest
<1>3. TypeOK /\ Begun /\ Turns /\ Outbox /\ Synced /\ Docs /\ Stopped
  BY DEF IInv
<1>4a. PICK n \in Nat : \E S :
           /\ Len(outbox) = n /\ outbox \in Seq(S)
           /\ Append(outbox, x) \in Seq(S \cup {x}) /\ Len(Append(outbox, x)) = n + 1
           /\ \A i \in 1..n : Append(outbox, x)[i] = outbox[i]
           /\ Append(outbox, x)[n + 1] = x
  BY <1>3, OutboxGrows
<1>4. PICK S :
           /\ Len(outbox) = n /\ outbox \in Seq(S)
           /\ Append(outbox, x) \in Seq(S \cup {x}) /\ Len(Append(outbox, x)) = n + 1
           /\ \A i \in 1..n : Append(outbox, x)[i] = outbox[i]
           /\ Append(outbox, x)[n + 1] = x
  BY <1>4a
<1>5. /\ outbox' \in Seq(S \cup {x}) /\ Len(outbox') = n + 1
      /\ \A i \in 1..n : outbox'[i] = outbox[i]
      /\ outbox'[n + 1].op = "fetched" /\ outbox'[n + 1].tag = t
  BY <1>1, <1>2, <1>4
<1>6. \A i \in 1..(n + 1) : i \in 1..n \/ i = n + 1
  OBVIOUS
<1>7. \A i \in 1..(n + 1) : outbox'[i].op = "reply" => i \in 1..n /\ outbox'[i] = outbox[i]
  <2>1. outbox'[n + 1].op # "reply"
    BY <1>5
  <2> QED BY <1>5, <1>6, <2>1
<1>8. Outbox'
  <2>1. \A i \in 1..(n + 1) : \/ outbox'[i].op = "fetched" /\ outbox'[i].tag \in Tags
                              \/ outbox'[i].op = "reply" /\ outbox'[i].ok \in BOOLEAN
    <3>1. \A i \in 1..n : \/ outbox'[i].op = "fetched" /\ outbox'[i].tag \in Tags
                          \/ outbox'[i].op = "reply" /\ outbox'[i].ok \in BOOLEAN
      BY <1>3, <1>4, <1>5 DEF Outbox
    <3> QED BY <1>5, <1>6, <3>1
  <2>2. ASSUME NEW i \in 1..(n + 1), outbox'[i].op = "reply"
        PROVE  busy' /\ inbox' = None /\ \A j \in 1..(n + 1) : outbox'[j].op = "reply" => j = i
    <3>1. i \in 1..n /\ outbox[i].op = "reply"
      BY <1>7, <2>2
    <3>2. busy /\ inbox = None /\ \A j \in 1..n : outbox[j].op = "reply" => j = i
      BY <1>3, <1>4, <3>1 DEF Outbox
    <3>3. \A j \in 1..(n + 1) : outbox'[j].op = "reply" => j = i
      BY <1>7, <3>2
    <3> QED BY <1>2, <3>2, <3>3
  <2> QED BY <1>5, <2>1, <2>2 DEF Outbox
<1>9. Synced'
  <2>1. \A i \in 1..(n + 1) : outbox'[i].op = "reply" /\ outbox'[i].ok => LeadsOn(doc', kept', model', outbox'[i].patches)
    BY <1>2, <1>3, <1>4, <1>7 DEF Synced
  <2>2. ASSUME \A i \in 1..(n + 1) : ~ (outbox'[i].op = "reply" /\ outbox'[i].ok) PROVE Current'
    <3>1. \A i \in 1..n : i \in 1..(n + 1)
      OBVIOUS
    <3>2. \A i \in 1..n : ~ (outbox[i].op = "reply" /\ outbox[i].ok)
      BY <1>5, <2>2, <3>1
    <3>3. Current
      BY <1>2, <1>3, <1>4, <3>2 DEF Synced
    <3> QED BY <1>2, <3>3 DEF Current
  <2> QED BY <1>5, <2>1, <2>2 DEF Synced
<1>10. Turns' /\ Docs' /\ Begun' /\ Stopped'
  BY <1>2, <1>3 DEF Turns, Docs, Begun, Stopped
<1>11. TypeOK'
  BY <1>2, <1>3 DEF TypeOK
<1>12. PatchesLandStep
  BY <1>2, <1>3, NoReplyTaken
<1>13. NotRolledBackStep
  BY <1>2 DEF NotRolledBackStep
<1> QED BY <1>8, <1>9, <1>10, <1>11, <1>12, <1>13 DEF IInv

(* A turn the reader asks for, who may have typed into the field *)
LEMMA EventStep ==
  ASSUME IInv, Event, NEW job \in Jobs, Enqueue(job), job.op = "event" => doc # None,
         doc' = doc \/ (doc # None /\ \E text \in NodeData : doc' = WithText(doc, text))
  PROVE  IInv' /\ PatchesLandStep /\ NotRolledBackStep
<1>1. /\ used < MaxEvents /\ ~ dead /\ used' = used + 1
      /\ model' = model /\ kept' = kept /\ shown' = shown
      /\ outbox' = outbox /\ fetch' = fetch /\ focus' = focus /\ dead' = dead /\ applied' = applied
  BY DEF Event, guest
<1>2. TypeOK /\ Begun /\ Turns /\ Outbox /\ Synced /\ Docs /\ Stopped
  BY DEF IInv
<1>3. /\ \A id : AddressOf(doc', id) = AddressOf(doc, id)
      /\ \A k, m : Shows(doc, k, m) => Shows(doc', k, m)
      /\ doc' = None <=> doc = None
      /\ doc # None => doc'.id = doc.id
  <2>1. CASE doc' = doc
    BY <2>1
  <2>2. CASE doc # None /\ \E text \in NodeData : doc' = WithText(doc, text)
    <3>1. PICK text \in NodeData : doc' = WithText(doc, text)
      BY <2>2
    <3>2. \A k, m : Shows(doc, k, m) =>
            Shows(doc', k, m) /\ doc'.id = doc.id /\ \A id : AddressOf(doc', id) = AddressOf(doc, id)
      BY <3>1, TextPut
    <3>3. PICK k \in SUBSET Tags, m \in Models : Shows(doc, k, m)
      BY <1>2, <2>2 DEF Docs, ShowsSome
    <3>4. doc' # None
      BY <3>2, <3>3, FieldIsData DEF ShowsSome
    <3> QED BY <2>2, <3>2, <3>3, <3>4
  <2> QED BY <2>1, <2>2
<1>4. doc' # None => ShowsSome(doc')
  BY <1>2, <1>3 DEF Docs, ShowsSome
<1>5. Turns' /\ (busy => busy' = busy /\ inbox' = inbox)
  BY <1>2, <1>3, <1>4, EnqueueIs
<1>6. Outbox'
  BY <1>1, <1>2, <1>5 DEF Outbox
<1>7. Synced'
  <2>1. \A ps : LeadsOn(doc, kept, model, ps) => LeadsOn(doc', kept', model', ps)
    BY <1>1, <1>3 DEF LeadsOn
  <2>2. Current => Current'
    BY <1>1, <1>3 DEF Current
  <2> QED BY <1>1, <1>2, <2>1, <2>2 DEF Synced
<1>8. Docs' /\ Begun' /\ Stopped'
  BY <1>1, <1>2, <1>3, <1>4 DEF Docs, Begun, Stopped
<1>9. TypeOK'
  <2>1. used' \in 0..MaxEvents
    BY <1>1, <1>2, DomRemoteAssumption DEF TypeOK
  <2> QED BY <1>1, <1>2, <1>5, <2>1 DEF TypeOK, Turns
<1>10. PatchesLandStep
  BY <1>1, <1>2, NoReplyTaken
<1>11. NotRolledBackStep
  <2>1. used' # used
    BY <1>1, <1>2 DEF TypeOK
  <2> QED BY <2>1 DEF NotRolledBackStep
<1> QED BY <1>5, <1>6, <1>7, <1>8, <1>9, <1>10, <1>11 DEF IInv

(* A click on an item *)
LEMMA ClickStep ==
  ASSUME IInv, doc # None, NEW i \in DOMAIN Items(doc), Click(i)
  PROVE  IInv' /\ PatchesLandStep /\ NotRolledBackStep
<1>1. PICK e : e = Items(doc)[i]
  OBVIOUS
<1>2. PICK job : job = EventJob(e.id, <<2, i>>, "click", NoText, e.key)
  OBVIOUS
<1>3. Event /\ doc' = doc /\ Enqueue(job)
  BY <1>1, <1>2 DEF Click
<1>4. e \in LeafElements /\ Named(e) /\ e.tag = "li" /\ i \in Nat
  <2>1. PICK k \in SUBSET Tags, m \in Models : Shows(doc, k, m)
    BY DEF IInv, Docs, ShowsSome
  <2>2. PICK items \in ItemLists : items = m.items
    BY ModelsAre
  <2>3. PICK n \in Nat : n = Len(items)
    BY DEF ItemLists
  <2>4. PICK es : es = Items(doc)
    OBVIOUS
  <2>5. es \in Seq(LeafElements) /\ Len(es) = n /\ \A j \in 1..n : IsItem(es[j], items[j])
    BY <2>1, <2>2, <2>3, <2>4 DEF Shows, ListShows, ShowsItems, Items
  <2>6. DOMAIN es = 1..n
    BY <2>5
  <2>7. i \in 1..n /\ e = es[i]
    BY <1>1, <2>4, <2>6
  <2> QED BY <2>5, <2>7 DEF IsItem
<1>5. job \in Events
  <2>1. e.id \in Ids /\ e.key \in NodeKeys \cup {NoKey} /\ e.id.tag = "li" /\ e.id.key = e.key
    BY <1>4 DEF LeafElements, ElementsOver, Named
  <2>2. <<2, i>> \in Seq(Nat)
    BY <1>4
  <2>3. NoText \in Texts
    BY DomRemoteAssumption
  <2>4. "click" \in Listens("li")
    BY DEF Listens
  <2> QED BY <1>2, <2>1, <2>2, <2>3, <2>4 DEF Events, EventJob
<1>6. job \in Jobs
  BY <1>5 DEF Jobs
<1> QED BY <1>3, <1>6, EventStep

(* An event of the field *)
LEMMA FieldEvent ==
  ASSUME IInv, doc # None, NEW event \in {"input", "keydown"}, NEW payload \in Texts
  PROVE  EventJob(Field(doc).id, <<1>>, event, payload, NoKey) \in Jobs
<1>1. Field(doc).id \in Ids /\ Field(doc).id.tag = "input" /\ Field(doc).id.key = NoKey
  BY FieldIsData DEF IInv, Docs
<1>2. <<1>> \in Seq(Nat)
  OBVIOUS
<1>3. event \in Listens("input")
  BY DEF Listens
<1>4. EventJob(Field(doc).id, <<1>>, event, payload, NoKey) \in Events
  BY <1>1, <1>2, <1>3 DEF Events, EventJob
<1> QED BY <1>4 DEF Jobs

(* The reader types: the field has the text before the guest does. *)
LEMMA TypeStep ==
  ASSUME IInv, doc # None, NEW text \in Texts, Type(text)
  PROVE  IInv' /\ PatchesLandStep /\ NotRolledBackStep
<1>1. PICK job : job = EventJob(Field(doc).id, <<1>>, "input", text, NoKey)
  OBVIOUS
<1>2. Event /\ doc' = WithText(doc, text) /\ Enqueue(job)
  BY <1>1 DEF Type
<1>3. job \in Jobs
  BY <1>1, FieldEvent
<1>4. text \in NodeData
  BY DomRemoteAssumption
<1> QED BY <1>2, <1>3, <1>4, EventStep

(* A key pressed in the field *)
LEMMA PressStep ==
  ASSUME IInv, doc # None, Press
  PROVE  IInv' /\ PatchesLandStep /\ NotRolledBackStep
<1>1. PICK job : job = EventJob(Field(doc).id, <<1>>, "keydown", NoText, NoKey)
  OBVIOUS
<1>2. Event /\ doc' = doc /\ Enqueue(job)
  BY <1>1 DEF Press
<1>3. job \in Jobs
  BY <1>1, FieldEvent, DomRemoteAssumption
<1> QED BY <1>2, <1>3, EventStep

(* The page starts the application again. *)
LEMMA RestartStep ==
  ASSUME IInv, Restart
  PROVE  IInv' /\ PatchesLandStep /\ NotRolledBackStep
<1>1. Event /\ doc' = doc /\ Enqueue(InitJob)
  BY DEF Restart
<1>2. PICK job : job = InitJob
  OBVIOUS
<1>3. job \in Jobs /\ job.op # "event"
  BY <1>2 DEF Jobs, InitJob
<1> QED BY <1>1, <1>2, <1>3, EventStep

(* A step that only the focus may notice *)
LEMMA UnseenStep ==
  ASSUME IInv, focus' \in BOOLEAN,
         UNCHANGED <<guest, inbox, outbox, fetch, doc, queue, busy, dead, applied, used>>
  PROVE  IInv' /\ PatchesLandStep /\ NotRolledBackStep
<1>1. /\ model' = model /\ kept' = kept /\ shown' = shown /\ inbox' = inbox /\ outbox' = outbox
      /\ fetch' = fetch /\ doc' = doc /\ queue' = queue /\ busy' = busy /\ dead' = dead
      /\ applied' = applied /\ used' = used
  BY DEF guest
<1>2. TypeOK /\ Begun /\ Turns /\ Outbox /\ Synced /\ Docs /\ Stopped
  BY DEF IInv
<1>3. TypeOK' /\ Begun' /\ Turns' /\ Docs' /\ Stopped'
  BY <1>1, <1>2 DEF TypeOK, Begun, Turns, Docs, Stopped
<1>4. Outbox' /\ Synced'
  BY <1>1, <1>2 DEF Outbox, Synced, Current
<1>5. PatchesLandStep
  BY <1>1, <1>2, NoReplyTaken
<1>6. NotRolledBackStep
  BY <1>1 DEF NotRolledBackStep
<1> QED BY <1>3, <1>4, <1>5, <1>6 DEF IInv

(* Every step keeps the invariant and does what the action properties ask. *)
LEMMA InvStep ==
  ASSUME IInv, [Next]_vars
  PROVE  IInv' /\ PatchesLandStep /\ NotRolledBackStep
<1>1. CASE Reader
  <2>1. CASE /\ doc # None
             /\ \/ \E i \in DOMAIN Items(doc) : Click(i)
                \/ \E text \in Texts : Type(text)
                \/ Press
                \/ MoveFocus
    <3>1. CASE MoveFocus
      <4>1. focus' \in BOOLEAN
        BY <3>1 DEF MoveFocus
      <4> QED BY <3>1, <4>1, UnseenStep DEF MoveFocus
    <3> QED BY <2>1, <3>1, ClickStep, TypeStep, PressStep
  <2> QED BY <1>1, <2>1, RestartStep DEF Reader
<1>2. CASE Page
  BY <1>2, TakeReplyStep, TakeFetchedStep DEF Page
<1>3. CASE HandleTurn
  BY <1>3, HandleTurnStep
<1>4. CASE WorkerFails
  BY <1>4, WorkerFailsStep
<1>5. CASE \E t \in Tags : FetchEnds(t)
  BY <1>5, FetchEndsStep
<1>6. CASE UNCHANGED vars
  <2>1. focus' \in BOOLEAN
    BY <1>6 DEF vars, IInv, TypeOK
  <2>2. UNCHANGED <<guest, inbox, outbox, fetch, doc, queue, busy, dead, applied, used>>
    BY <1>6 DEF vars, guest
  <2> QED BY <2>1, <2>2, UnseenStep
<1> QED BY <1>1, <1>2, <1>3, <1>4, <1>5, <1>6 DEF Next

(* The inductive invariant holds of every behaviour, whatever the application
   shows and however the reader, the worker and the page interleave. *)
THEOREM Invariant == Spec => []IInv
<1>1. IInv /\ [Next]_vars => IInv'
  BY InvStep
<1> QED BY InvInit, <1>1, PTL DEF Spec

(* The state of page, worker and guest has its type (remote.mjs, reactor.dawn). *)
THEOREM TypeCorrect == Spec => []TypeOK
<1>1. IInv => TypeOK
  BY DEF IInv
<1> QED BY Invariant, <1>1, PTL

(* An event that is in the worker is at an address of its element, the
   document shows the guest's view, and so the address hits the right node. *)
LEMMA SentHits == IInv => EventHitsItsElement
<1> SUFFICES ASSUME IInv, inbox # None, inbox.op = "event"
             PROVE  LET at == NodeAt(View(kept, model), inbox.path)
                    IN  at # None /\ at.key = inbox.key /\ inbox.event \in Listens(at.tag)
  BY DEF EventHitsItsElement
<1>1. Turns /\ Docs /\ kept \in SUBSET Tags /\ model \in Models
  BY InvTypes DEF IInv
<1>2. inbox \in Events /\ Current
  BY InTurn, JobKinds
<1>3. doc # None /\ inbox.path \in AddressOf(doc, inbox.el)
  BY <1>1 DEF Turns
<1>4. Shows(doc, kept, model)
  BY <1>2, <1>3 DEF Current
<1>5. /\ NodeAt(View(kept, model), inbox.path) # None
      /\ NodeAt(View(kept, model), inbox.path).key = inbox.el.key
      /\ NodeAt(View(kept, model), inbox.path).tag = inbox.el.tag
  BY <1>1, <1>3, <1>4, AddressHits
<1>6. inbox.key = inbox.el.key /\ inbox.event \in Listens(inbox.el.tag)
  BY <1>2 DEF Events
<1> QED BY <1>5, <1>6

(* An event reaches the node of the guest's tree that its element shows, however
   many turns moved that element while the event waited (path_of in pump()). *)
THEOREM EventsHitTheirElements == Spec => []EventHitsItsElement
BY Invariant, SentHits, PTL

(* Patches of a turn, replayed by dom.mjs, make the document the guest's view
   and keep the element of every item that stays. *)
THEOREM PatchesLandHolds == Spec => PatchesLand
<1>1. IInv /\ [Next]_vars => PatchesLandStep
  BY InvStep
<1>2. IInv /\ [Next]_vars => [PatchesLandStep]_vars
  BY <1>1
<1> QED BY Invariant, <1>2, PTL DEF Spec, PatchesLand

(* Settling a reply never takes back what the reader has typed into the
   focused field while its event waits (remote.mjs's putBack). *)
THEOREM NotRolledBackHolds == Spec => NotRolledBack
<1>1. IInv /\ [Next]_vars => NotRolledBackStep
  BY InvStep
<1>2. IInv /\ [Next]_vars => [NotRolledBackStep]_vars
  BY <1>1
<1> QED BY Invariant, <1>2, PTL DEF Spec, NotRolledBack
=============================================================================
