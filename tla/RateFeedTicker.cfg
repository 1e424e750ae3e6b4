SPECIFICATION Spec

CONSTANTS
  home = home
  other = other
  Tenants = {home, other}
  Home = home
  Newest = other
  Purities = {22}
  RateValues = {300}
  Items = {}
  Weights = {}
  MaxLtvPct = 75
  RateDays = {0, 1}
  DaySteps = {1}
  LastDay = 1
  MaxEntries = 1
  WebWorkers = {w1}
  CeleryWorkers = {c1}
  MinuteSteps = {1, 7}

INVARIANTS
  StandInsAreBrief

PROPERTIES
  PagesSeldomWait

CHECK_DEADLOCK FALSE
