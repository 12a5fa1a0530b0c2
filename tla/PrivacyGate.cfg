CONSTANTS
  noimage = noimage
  norect = norect
  Grid = 128
  Significand = 32
  Spacings <- MCSpacings
  NoRect = norect
  NoImage = noimage
  Inputs <- MCInputs
  Reports <- MCReports
  Budget = 1
  MaxElapsed = 2
SPECIFICATION Spec
INVARIANTS CoverageIsExact FailsClosed RegionsAreBlack SecretsAreReplaced
CHECK_DEADLOCK FALSE
