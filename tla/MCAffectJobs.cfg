\* Two owners, two workers, one more writer of a mood; a worker is late, dies
\* or cannot write once, and every queued turn is settled all the same.
SPECIFICATION MCSpec
CONSTANTS
  o1 = o1
  Owners = {o1, o2}
  Workers = {w1, w2}
  Writers = {r1}
  MaxJobs = 2
  MaxAttempts = 2
  MaxBatches = 6
  MaxFaults = 1
INVARIANTS
  TypeOK
  FoldedOnce
  OneBatchPerOwner
  OvertakenOnlyByRetry
PROPERTIES
  EventuallySettled
CHECK_DEADLOCK FALSE
