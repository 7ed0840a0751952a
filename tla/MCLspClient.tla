---------------------------- MODULE MCLspClient -----------------------------
(* LspClient for TLC: two queries of one method *)
EXTENDS LspClient

CONSTANTS hover1, hover2

OneMethod == [q \in Queries |-> "hover"]
=============================================================================
