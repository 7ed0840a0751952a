SPECIFICATION FairSpec
CONSTANTS
  r1 = r1
  r2 = r2
  r3 = r3
  Requests = {r1, r2, r3}
  SLOTS = 2
  Polls = 2
  MaxPhases <- Jobs
  MaxKills = 1
INVARIANTS PermitCoversUnit RefusedWhenTaken
PROPERTIES PoolSpec EveryRequestEnds
CHECK_DEADLOCK FALSE
