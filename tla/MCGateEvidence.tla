--------------------------- MODULE MCGateEvidence ---------------------------
(* GateEvidence for TLC: two commits, two uses of publish.py. *)
EXTENDS GateEvidence, TLC

CONSTANTS S1, S2, P1, P2

Symmetry == Permutations({P1, P2})
=============================================================================
