SPECIFICATION Spec

CONSTANTS
  Loans = {l1}
  Workers = {w1, w2}
  None = None
  Dues = {60, 100}
  Prices = {80}
  Maturities <- Matured
  Lags <- UtcLags
  Steps <- AboutTwoWeeks
  LastDay = 30
  MaxEdits = 1
  AdminActs = {"edit_case", "delete_case", "delete_notice", "edit_loan"}

SYMMETRY IdSymmetry

INVARIANTS
  TypeOK
  NoticePeriods
  SettledTogether

PROPERTIES
  ClosedCasesStayClosed

CHECK_DEADLOCK FALSE
