---------------------------- MODULE MCLspGateway ----------------------------
(* LspGateway for TLC: connections are interchangeable. *)
EXTENDS LspGateway, TLC

Symmetry == Permutations(Conns)
=============================================================================
