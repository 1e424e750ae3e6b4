SPECIFICATION PricingSpec

CONSTANTS
  home = home
  other = other
  Tenants = {home, other}
  Home = home
  Purities = {18, 22}
  RateValues = {61, 95}
  Items = {i1, i2}
  Weights = {5003}
  MaxLtvPct = 75
  RateDays = {0, 15, 31}
  DaySteps = {15, 16}
  LastDay = 62
  MaxEntries = 2

SYMMETRY ItemSymmetry

INVARIANTS
  CapIsExact
  FormAgreesWithCap
  AccrualWithinCycles

PROPERTIES
  OnlyLatestRateCounts

CHECK_DEADLOCK FALSE
