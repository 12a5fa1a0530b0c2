CONSTANTS
  None = None
  Invalid = Invalid
  Process = {p, q}
  Session <- MCSession
  Capture <- MCCapture
  Candidates <- MCCandidates
  Findings <- MCFindings
  Supplied <- MCSupplied
  OlderVersion = {0, 1, 3}
  Saved = {"sop"}
  MaxWrites = 2
SYMMETRY Interchangeable
SPECIFICATION Spec
INVARIANTS SchemaIsWhole RestoresWhatWasWritten ExportsHideNothing
PROPERTIES ReplyTellsTheFile
CHECK_DEADLOCK FALSE
