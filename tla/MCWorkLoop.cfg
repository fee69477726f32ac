SPECIFICATION MCSpec
CONSTANTS
  Replies <- MCReplies
  MaxToolRounds = 4
  MaxEscalations = 2
  KeepRounds = 1
  MaxEdits = 1
INVARIANTS TypeOK HistoryPaired ConsentSpentOnce EffectsReported DecisionsBounded
CHECK_DEADLOCK FALSE
