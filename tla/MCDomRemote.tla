---------------------------- MODULE MCDomRemote ----------------------------
(* DomRemote for TLC, and the reconciler over all pairs of small trees. *)
EXTENDS DomRemote

CONSTANTS A, B, C, T, X, Plain, Marked

Item(key, self) == [key |-> key, self |-> self]
(* The two long lists differ by a drop, a move and a changed item. *)
MCLists == { <<>>, <<Item(A, Plain), Item(B, Plain), Item(C, Plain)>>, <<Item(C, Plain), Item(B, Marked)>> }
OneList == {<<>>}
MCNodeData == {Plain, Marked} \cup Texts \cup SUBSET Tags

(* Every list of up to three leaves, keyed or not, keys repeated or not, and
   boxes of them; a box may change its own data too. *)
Leaves == {Node("li", k, s, <<>>) : k \in {A, B, NoKey}, s \in {Plain, Marked}}
            \cup {Node("text", NoKey, Plain, <<>>)}
Boxes(kids) == {Node("ul", k, s, ks) : k \in {A, C}, s \in {Plain, Marked}, ks \in kids}
Roots == {Node("div", NoKey, Plain, ks) :
            ks \in BoundedSeq(Leaves, 2)
               \cup {<<x, y>> : x \in Boxes(BoundedSeq({Node("li", A, Plain, <<>>), Node("li", B, Plain, <<>>)}, 1)),
                                y \in Boxes({<<>>, <<Node("li", B, Plain, <<>>), Node("li", A, Marked, <<>>)>>}) \cup Leaves}}
Permuted == {Node("div", NoKey, Plain, [i \in DOMAIN p |-> Node("li", p[i], Plain, <<>>)]) :
               p \in SetToAllKPermutations({A, B, C, T})}

(* tea-core's contract: apply(old, diff(old, new)) = new *)
ASSUME Roundtrip ==
  /\ \A old, new \in Roots : Apply(old, Diff(old, new)) = new
  /\ \A old, new \in Permuted : Apply(old, Diff(old, new)) = new
=============================================================================
