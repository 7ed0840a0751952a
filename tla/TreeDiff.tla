------------------------------ MODULE TreeDiff ------------------------------
(***************************************************************************)
(* The reconciler of packages/tea-core: the difference of two trees as a   *)
(* list of patches, and `apply`, which replays them.  The vocabulary is the*)
(* DOM's (packages/tea-dom/src/node.dawn), with a node's props and listened*)
(* events as one value, `self`.  Indices count from 1, as sequences do; the*)
(* code's count from 0.  Every recursion is a recursive function: over the *)
(* height of a tree, or along a sequence.                                  *)
(***************************************************************************)
EXTENDS SequencesExt

CONSTANTS
  NoKey,      \* the key of a node that has none
  NodeTags,   \* the tags of nodes
  NodeKeys,   \* the keys of nodes that have one
  NodeData,   \* a node's props and listened events
  Height      \* of the highest tree: any number, as a program's trees are finite

ASSUME TreeDiffAssumption == NoKey \notin NodeKeys /\ Height \in Nat

Node(tag, key, self, kids) == [tag |-> tag, key |-> key, self |-> self, kids |-> kids]

(* The trees of at most n levels *)
Tree[n \in 0..Height] ==
  IF n = 0 THEN {}
  ELSE [tag : NodeTags, key : NodeKeys \cup {NoKey}, self : NodeData, kids : Seq(Tree[n - 1])]

(* `relate`: may an unequal pair be diffed in place *)
Related(old, new) == old.tag # "text" /\ old.tag = new.tag /\ old.key = new.key

Patch(path, op) == [path |-> path, op |-> op]
Replace(w) == [op |-> "replace", w |-> w]
SetSelf(w) == [op |-> "set-self", w |-> w]
AppendKids(ws) == [op |-> "append", ws |-> ws]
TruncateKids(keep) == [op |-> "truncate", keep |-> keep]
InsertKid(at, w) == [op |-> "insert", at |-> at, w |-> w]
RemoveKid(at) == [op |-> "remove", at |-> at]
MoveKid(from, to) == [op |-> "move", from |-> from, to |-> to]

Keys(kids) == [i \in DOMAIN kids |-> kids[i].key]
Drop(s, n) == SubSeq(s, n + 1, Len(s))
Position(s, e) == SelectInSeq(s, LAMBDA x : x = e)     \* 0: not in it

(* `acc ++ ...` of a loop over a list: ss[1], ss[2], ... one after another *)
Joined(ss) == LET upto[i \in 0..Len(ss)] == IF i = 0 THEN <<>> ELSE upto[i - 1] \o ss[i]
              IN  upto
Concat(ss) == Joined(ss)[Len(ss)]

(* pair_keys: a list pairs by key if every child has one and no two the same *)
Keyed(kids) ==
  /\ kids # <<>>
  /\ NoKey \notin Range(Keys(kids))
  /\ IsInjective(Keys(kids))

(* Highest index first, so that each index still names its child *)
Drops(ok, nk, path) ==
  Concat([i \in DOMAIN ok |->
            LET j == Len(ok) + 1 - i
            IN  IF ok[j] \in Range(nk) THEN <<>> ELSE <<Patch(path, RemoveKid(j))>>])

Survivors(ok, nk) ==
  Concat([i \in DOMAIN ok |-> IF ok[i] \in Range(nk) THEN <<ok[i]>> ELSE <<>>])

MoveTo(s, from, to) == InsertAt(RemoveAt(s, from), to, s[from])

(* The order of the keys when the first t of the new ones are in place *)
Placed(nk, survivors) ==
  LET cur[t \in 0..Len(nk)] ==
        IF t = 0 THEN survivors
        ELSE LET before == cur[t - 1]
                 p == Position(before, nk[t])
             IN  IF p = 0 THEN InsertAt(before, t, nk[t])
                 ELSE IF p = t THEN before ELSE MoveTo(before, p, t)
  IN  cur

(* Left to right over the new order *)
Place(new, nk, survivors, path) ==
  LET cur == Placed(nk, survivors)
  IN  Concat([t \in DOMAIN new |->
                LET p == Position(cur[t - 1], nk[t])
                IN  IF p = 0 THEN <<Patch(path, InsertKid(t, new[t]))>>
                    ELSE IF p = t THEN <<>> ELSE <<Patch(path, MoveKid(p, t))>>])

(* Every structural op first, at the parent's address; then the pairs that
   both lists have, at the positions those ops gave them.  `below` has the
   differences of the children: below[<<old, new, path>>]. *)
DiffKeyed(below, old, new, path) ==
  LET ok == Keys(old)
      nk == Keys(new)
      Descend(t) == LET o == Position(ok, nk[t])
                    IN  IF o = 0 THEN <<>> ELSE below[<<old[o], new[t], Append(path, t)>>]
  IN  Drops(ok, nk, path) \o Place(new, nk, Survivors(ok, nk), path)
        \o Concat([t \in DOMAIN new |-> Descend(t)])

(* Pairwise over the common prefix, then at most one op at the tail *)
DiffIndexed(below, old, new, path) ==
  LET common == IF Len(old) < Len(new) THEN Len(old) ELSE Len(new)
  IN  Concat([i \in 1..common |-> below[<<old[i], new[i], Append(path, i)>>]])
        \o IF Len(new) > common THEN <<Patch(path, AppendKids(Drop(new, common)))>>
           ELSE IF Len(old) > common THEN <<Patch(path, TruncateKids(common))>>
           ELSE <<>>

DiffKids(below, old, new, path) ==
  IF Keyed(old) /\ Keyed(new) THEN DiffKeyed(below, old, new, path)
                              ELSE DiffIndexed(below, old, new, path)

DiffAt(below, old, new, path) ==
  IF old = new THEN <<>>
  ELSE IF ~Related(old, new) THEN <<Patch(path, Replace(new))>>
  ELSE (IF old.self = new.self THEN <<>> ELSE <<Patch(path, SetSelf(new))>>)
         \o DiffKids(below, old.kids, new.kids, path)

(* diff_at, of trees of at most n levels that stand at a path *)
Differences[n \in 0..Height] ==
  IF n = 0 THEN <<>>
  ELSE [pair \in Tree[n] \X Tree[n] \X Seq(Nat) |->
          DiffAt(Differences[n - 1], pair[1], pair[2], pair[3])]

Diff(old, new) == Differences[Height][<<old, new, <<>>>>]

-----------------------------------------------------------------------------
(* Addresses: the node at a path, if there is one, and the tree with another
   node there *)

(* The nodes a path leads through, each after that many steps *)
Walk(w, path) ==
  LET node[i \in 0..Len(path)] == IF i = 0 THEN w ELSE node[i - 1].kids[path[i]]
  IN  node

At(w, path) == Walk(w, path)[Len(path)]
HasPath(w, path) == \A i \in DOMAIN path : path[i] \in DOMAIN Walk(w, path)[i - 1].kids

WithKid(w, k, x) == [w EXCEPT !.kids[k] = x]

(* Each of them as it becomes, from the last one up *)
Rebuilt(w, path, x) ==
  LET node[n \in 0..Len(path)] ==
        LET i == Len(path) - n
        IN  IF n = 0 THEN x ELSE WithKid(Walk(w, path)[i], path[i + 1], node[n - 1])
  IN  node

Put(w, path, x) == Rebuilt(w, path, x)[Len(path)]

-----------------------------------------------------------------------------
(* apply: total, so an op that names nothing leaves the node as it is *)

KidsAfter(kids, op) ==
  IF op.op = "append" THEN kids \o op.ws
  ELSE IF op.op = "truncate" THEN SubSeq(kids, 1, Min({op.keep, Len(kids)}))
  ELSE IF op.op = "insert" THEN InsertAt(kids, Max({1, Min({op.at, Len(kids) + 1})}), op.w)
  ELSE IF op.op = "remove" /\ op.at \in DOMAIN kids THEN RemoveAt(kids, op.at)
  ELSE IF op.op = "move" /\ {op.from, op.to} \subseteq DOMAIN kids THEN MoveTo(kids, op.from, op.to)
  ELSE kids

(* `rekid`; a text node ignores them, but has none and is given none by diff *)
Rekid(w, kids) == [w EXCEPT !.kids = kids]

ApplyOp(w, op) ==
  IF op.op = "replace" THEN op.w
  ELSE IF op.op = "set-self" THEN Rekid(op.w, w.kids)
  ELSE Rekid(w, KidsAfter(w.kids, op))

ApplyAt(w, path, op) ==
  IF HasPath(w, path) THEN Put(w, path, ApplyOp(At(w, path), op)) ELSE w

(* The tree after each patch *)
Applied(w, patches) ==
  LET after[i \in 0..Len(patches)] ==
        IF i = 0 THEN w ELSE ApplyAt(after[i - 1], patches[i].path, patches[i].op)
  IN  after

Apply(w, patches) == Applied(w, patches)[Len(patches)]
=============================================================================
