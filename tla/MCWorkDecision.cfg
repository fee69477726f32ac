\* Two tasks' worth of claims on one or two rows, two concurrent resume calls.
CONSTANTS
  None = None
  t1 = t1
  t2 = t2
  Owners <- OneOwner
  ApprovalIds = {a1, a2}
  Handlers = {h1, h2}
  SoftTTL = 1
  HardTTL = 2
  ClaimTTL = 1
  ArchiveTTL = 1
  MaxEscalations = 2
  MaxPauses = 2
  MaxClaims = 2
SYMMETRY Symmetry
SPECIFICATION Spec
INVARIANTS
  TypeOK
  GrantSpentOnce
  LeaseHonoured
  ResolvedNeedsConsent
  AutoRejectClosesRequest
