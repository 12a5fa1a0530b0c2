CONSTANTS
  c1 = c1
  c2 = c2
  c3 = c3
  g1 = g1
  g2 = g2
  Capture = {c1, c2, c3}
  Generation = {g1, g2}
  GenOf <- MCGenOf
  Hidden = {c3}
  Lifetime = 1
  MaxTime = 2
  NoGeneration = NoGeneration
SPECIFICATION Spec
PROPERTIES MixedCohortRetained
