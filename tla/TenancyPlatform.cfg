SPECIFICATION Spec

CONSTANTS
  x = x
  y = y
  ann = ann
  bob = bob
  m1 = m1
  Slugs = {x, y}
  Forms <- Rivals
  Requests = {r1}
  TenantIds = {t1, t2}
  Workers = {w1, w2}
  None = None
  Acts = {"add", "edit", "delete", "account"}
  Keys = {k1}

SYMMETRY IdSymmetry

INVARIANTS
  TypeOK
  OneShopPerRequest
  VerifiedHasShop
  OwnScope
  OnlyRacesFail

CHECK_DEADLOCK FALSE
