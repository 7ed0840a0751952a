------------------------------ MODULE MCGateRun -----------------------------
(* GateRun for TLC: two shards that use the same two literal paths and upload
   an artifact each, and the job that collects them, first in gates.yml. *)
EXTENDS GateRun

CONSTANTS Shard1, Shard2, Collect

Run(paths, cond) == [kind |-> "run", paths |-> paths, cond |-> cond]
Use(kind) == [kind |-> kind, paths |-> {}, cond |-> FALSE]

MCPlan ==
  [j \in Jobs |->
     CASE j = Shard1 -> <<Run({1, 2}, FALSE), Use("upload")>>
       [] j = Shard2 -> <<Run({1, 2}, TRUE)>>
       [] j = Collect -> <<Use("setup"), Run({}, FALSE)>>]

MCNeeds == [j \in Jobs |-> IF j = Collect THEN {Shard1, Shard2} ELSE {}]
ChainNeeds == [j \in Jobs |-> CASE j = Collect -> {Shard1}
                                [] j = Shard1 -> {Shard2}
                                [] j = Shard2 -> {}]
MCPosition == [j \in Jobs |-> CASE j = Collect -> 1 [] j = Shard1 -> 2
                                [] j = Shard2 -> 3]

Option(only, resumable, keepGoing) ==
  [only |-> only, resumable |-> resumable, keepGoing |-> keepGoing]
MCOptions == 
  {Option({}, FALSE, FALSE), Option({}, TRUE, FALSE),
   Option({Shard1, Collect}, FALSE, TRUE)}
=============================================================================
