SPECIFICATION Spec

CONSTANTS
  Loans = {l1, l2, l3}
  Receipts = {r1, r2}
  Workers = {w1, w2}
  None = None
  Principals = {100}
  EntryStatuses = {"active", "closed"}
  Extras = {50, 80}
  Payments <- HalfOrOver
  RateType = "monthly"
  RatePct = 10000
  EligiblePrincipal = 120
  StartOffsets <- FromToday
  PaidOffsets <- FromToday
  Lags <- NoLag
  TickDays = 31
  LastDay = 31
  AdminActs = {"delete_repayment", "edit_repayment"}
  SameLoanOverlap = FALSE

SYMMETRY RowSymmetry

INVARIANTS
  TypeOK
  NoOverSettlement
  SettledLoansAreClosed
  OneLoanPerPledge
  RenewalIsLinked
PROPERTIES
  ClosedStaysClosed
  FollowsLifecycle

CHECK_DEADLOCK FALSE
