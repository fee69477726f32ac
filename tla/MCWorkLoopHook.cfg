SPECIFICATION Spec
CONSTANTS
  Replies <- MCReplies
  MaxToolRounds = 3
  MaxEscalations = 2
  KeepRounds = 1
  MaxEdits = 0
INVARIANT ReadOnlyWritesNothing
CHECK_DEADLOCK FALSE
