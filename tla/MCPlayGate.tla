----------------------------- MODULE MCPlayGate -----------------------------
(* PlayGate for TLC: requests are model values *)
EXTENDS PlayGate, TLC

CONSTANTS r1, r2, r3

(* One job has two phases; the others compete with it for a slot. *)
Jobs == (r1 :> 2) @@ (r2 :> 0) @@ (r3 :> 0)
=============================================================================
