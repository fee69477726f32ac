SPECIFICATION MCSpec
CONSTANTS
  c1 = c1
  c2 = c2
  c3 = c3
  k1 = k1
  k2 = k2
  Calls <- ThreeCalls
  Keys <- TwoKeys
  KeyOf <- Inbound
  MaxApprovals = 2
  MaxMissed = 1
  MaxCrashes = 1
  MaxDbFaults = 1
INVARIANTS
  TypeOK
  AnsweredOnce
  EndedReplyIsSaved
  StreamEndsOnce
  SilenceKept
  RunningIsOwned
  WaitShowsRequest
CHECK_DEADLOCK FALSE
