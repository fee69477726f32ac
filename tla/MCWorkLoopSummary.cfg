SPECIFICATION Spec
CONSTANTS
  Replies <- SummaryReplies
  MaxToolRounds = 6
  MaxEscalations = 2
  KeepRounds = 1
  MaxEdits = 0
INVARIANT DecisionsKept
CHECK_DEADLOCK FALSE
