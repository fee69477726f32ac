\* One change over two paths, or two changes of one path; two calls at a time,
\* edits at every moment.
SPECIFICATION MCSpec
CONSTANTS
  None = None
  Changes = {c1, c2}
  Paths = {f1, f2}
  Calls = {p1, p2}
  MaxEdits = 1
  MaxFaults = 1
SYMMETRY Symmetry
INVARIANTS
  TypeOK
  NothingLostUnseen
  EffectOnce
CHECK_DEADLOCK FALSE
