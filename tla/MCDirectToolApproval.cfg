\* Two parked calls, two turns that carry decisions.
CONSTANTS
  None = None
  Owners = {t1, t2}
  ApprovalIds = {a1, a2}
  Turns = {k1, k2}
  CallTTL = 2
SYMMETRY Symmetry
SPECIFICATION Spec
INVARIANTS
  TypeOK
  CallRecordHonest
  OneContinuation
PROPERTIES
  ImplementsLedger
