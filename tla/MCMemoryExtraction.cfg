\* Workers with retries and takeovers, racing callers, a segment longer than the limit.
CONSTANTS
  None = None
  Segments = {s1}
  JobIds = {j1, j2}
  Workers = {w1, w2}
  Callers = {c1, c2}
  MaxAttempts = 2
  ClaimTTL = 1
  Backoff = 1
  EpisodeLimit = 2
  MaxActivity = 3
  MaxClaims = 3
SYMMETRY Symmetry
SPECIFICATION SceneSpec
INVARIANTS
  TypeOK
  WindowCovered
  UnreadInView
PROPERTIES
  LateWorkerIgnored
