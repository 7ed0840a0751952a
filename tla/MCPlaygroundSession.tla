----------------------- MODULE MCPlaygroundSession -------------------------
(* PlaygroundSession for TLC *)
EXTENDS PlaygroundSession
=============================================================================
