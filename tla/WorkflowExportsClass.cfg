CONSTANTS
  None = None
  Invalid = Invalid
  Process = {p}
  Session <- MCSession
  Capture <- MCCapture
  Candidates <- MCCandidates
  Findings <- MCFindings
  Supplied <- MCSupplied
  OlderVersion = {0}
  Saved = {"handoff"}
  MaxWrites = 2
SPECIFICATION Spec
INVARIANTS ExportsNameNoClass
CHECK_DEADLOCK FALSE
