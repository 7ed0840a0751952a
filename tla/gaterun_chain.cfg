SPECIFICATION Spec
CONSTANTS
  Shard1 = Shard1
  Shard2 = Shard2
  Collect = Collect
  Jobs = {Shard1, Shard2, Collect}
  Plan <- MCPlan
  Needs <- ChainNeeds
  Position <- MCPosition
  Options <- MCOptions
  JobsOptions = {1, 2}
  MaxRuns = 1
INVARIANT SlotsNotHeld
CHECK_DEADLOCK FALSE
