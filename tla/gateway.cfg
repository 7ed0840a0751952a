SPECIFICATION FairSpec
CONSTANTS
  conn1 = conn1
  conn2 = conn2
  conn3 = conn3
  Conns = {conn1, conn2, conn3}
  MaxSessions = 1
  MaxHandshakes = 2
INVARIANT CountersExact
PROPERTIES SlotOutlivesChild PoolSpec SlotReturned OnlyUnreadHoldsShutdown
CHECK_DEADLOCK FALSE
