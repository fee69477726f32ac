SPECIFICATION MCSpec
CONSTANTS
  Callers = {c1, c2}
  Admin = admin
  Versions = {v1, v2}
  Threshold = 2
  MaxGenerations = 2
  MaxOrders = 1
SYMMETRY Symmetric
INVARIANTS TypeOK NoOrphan FailureCountedOnce WaitersReleased InFlightExact
CHECK_DEADLOCK FALSE
