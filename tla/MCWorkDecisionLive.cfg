\* Two tasks share the request table: each step is one of the approval ledger,
\* and every decision is archived in the end, with leaked and abandoned claims.
CONSTANTS
  None = None
  t1 = t1
  t2 = t2
  Owners <- TwoOwners
  ApprovalIds = {a1, a2}
  Handlers = {h1}
  SoftTTL = 1
  HardTTL = 2
  ClaimTTL = 1
  ArchiveTTL = 1
  MaxEscalations = 1
  MaxPauses = 2
  MaxClaims = 2
SPECIFICATION SharedSpec
PROPERTIES
  ImplementsLedger
  EventuallyArchived
