SPECIFICATION Spec

CONSTANTS
  l1 = l1
  l2 = l2
  t1 = t1
  t2 = t2
  Loans = {l1, l2}
  Tenants = {t1}
  TenantOf <- TwoOfOneTenant
  Workers = {w1, w2}
  None = None
  Months = {1}
  Contacts <- AllKinds
  MaxOwed = 1
  MaxRuns = 2
  MaxChanges = 2
  ByHand = {"pending", "sent"}

SYMMETRY RowSymmetry

INVARIANTS
  OneMessageAMonth
  RowsTellTheTruth

PROPERTIES
  FinishedRunsAreComplete

CHECK_DEADLOCK FALSE
