SPECIFICATION Spec
CONSTANTS
  conn1 = conn1
  conn2 = conn2
  Conns = {conn1, conn2}
  MaxSessions = 1
  MaxHandshakes = 2
SYMMETRY Symmetry
INVARIANT SessionStopsItsChild
CHECK_DEADLOCK FALSE
