CONSTANTS
  c1 = c1
  c2 = c2
  g1 = g1
  g2 = g2
  Capture = {c1, c2}
  Generation = {g1, g2}
  GenOf <- MCGenOf
  Hidden = {}
  Lifetime = 1
  MaxTime = 2
  NoGeneration = NoGeneration
  ObservationLimit = 2
  MaxAnswer = 2
SPECIFICATION FairSpec
INVARIANTS SendingIsPermitted RetentionStrandsNothing
PROPERTIES AttemptEnds AnalysedIsNeverResent AllOrNothing ImplementsRetention
