----------------------------- MODULE MCLspRelay -----------------------------
(* LspRelayAny for TLC.  Ids and frames are kept few: a child that answers
   only what the run is about, and one that says anything. *)
EXTENDS LspRelayAny, TLC

CONSTANTS r1, r2, Elsewhere

Symmetry == Permutations({r1, r2})

Answers == [k : {"result"}, id : Ids, uri : {Doc}]

Anything ==
  Answers
    \cup [k : {"publish"}, uri : {Doc, Tile, Elsewhere}, ver : {1}]
    \cup [k : {"error", "initialized"}, id : Ids \cup {NoId}, uri : {Tile}]
    \cup {[k |-> "other"]}
=============================================================================
