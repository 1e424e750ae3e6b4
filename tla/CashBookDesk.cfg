SPECIFICATION Spec

CONSTANTS
  Loans = {l1, l2}
  Receipts = {r1}
  Entries = {e1}
  Clerks = {c1, c2}
  Principals = {100}
  Extras = {20}
  Amounts = {30}
  Payments <- SomePayments
  Offsets <- OnTheDay
  LastDay = 1
  Habits = {"late_rows", "busy_desk", "skip_days", "corrections", "renewals", "admin_close", "overnight"}
  MaxHabits = 1
  MaxStrays = 2

SYMMETRY IdSymmetry

INVARIANTS
  TypeOK
  CarefulOnHandIsTrue
  OpeningsChain
  HonestDayBalances
  NoOrphanRows
  BooksBalance

CHECK_DEADLOCK FALSE
