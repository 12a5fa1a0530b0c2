CONSTANTS
  r1 = r1
  r2 = r2
  r3 = r3
  r4 = r4
  home = home
  office = office
  ann = ann
  bob = bob
  Request = {r1, r2, r3, r4}
  Client = {home, office}
  ClientOf <- MCClientOf
  Email = {ann, bob}
  EmailOf <- MCEmailOf
  Valid = {r1, r2, r4}
  Limit = 2
  MaxWindow = 2
  NoRequest = NoRequest
SPECIFICATION Spec
INVARIANTS AloneLimitIsExact ThanksMeansStored
CHECK_DEADLOCK FALSE
