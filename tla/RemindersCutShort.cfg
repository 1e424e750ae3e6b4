SPECIFICATION Spec

CONSTANTS
  l1 = l1
  l2 = l2
  t1 = t1
  t2 = t2
  Loans = {l1, l2}
  Tenants = {t1, t2}
  TenantOf <- OneOfEach
  Workers = {w1}
  None = None
  Months = {1}
  Contacts <- Reachable
  MaxOwed = 1
  MaxRuns = 1
  MaxChanges = 0
  ByHand = {}

PROPERTIES
  NobodyIsLeftOut

CHECK_DEADLOCK FALSE
