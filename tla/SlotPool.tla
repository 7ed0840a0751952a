------------------------------ MODULE SlotPool ------------------------------
(***************************************************************************)
(* What a bounded admission pool promises, whatever keeps the count: a set *)
(* of holders, never larger than Slots, that a client joins and leaves one *)
(* at a time.  The language-service gateway keeps the count in an integer  *)
(* (Gateway.active in playground/lsp_gateway.py) and the runner keeps it   *)
(* in advisory file locks (playground/src/play/gate.dawn); LspGateway and  *)
(* PlayGate are each shown to implement this module.                       *)
(***************************************************************************)
EXTENDS Integers, FiniteSets

CONSTANTS Clients,   \* whoever may hold a slot
          Slots      \* how many slots there are

VARIABLE holders     \* the clients that hold a slot now

Init == holders = {}

Acquire(c) ==
  /\ c \notin holders
  /\ Cardinality(holders) < Slots
  /\ holders' = holders \cup {c}

Release(c) ==
  /\ c \in holders
  /\ holders' = holders \ {c}

Next == \E c \in Clients : Acquire(c) \/ Release(c)

Spec == Init /\ [][Next]_holders
=============================================================================
