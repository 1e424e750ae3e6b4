SPECIFICATION Spec

CONSTANTS
  Workers = {w1, w2}
  Dates = {d1, d2}
  Phones = {p1, p2}
  None = None
  MaxNoRetries = 3
  MaxId = 6
  MaxRows = 4
  MaxFixes = 1

SYMMETRY IdSymmetry

INVARIANTS
  TypeOK
  GapFree
  CollisionsAreConcurrent

PROPERTIES
  GivesUpOnlyInACrowd

CHECK_DEADLOCK FALSE
