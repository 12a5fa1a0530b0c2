CONSTANTS
  claude = claude
  codex = codex
  jcode = jcode
  openrouter = openrouter
  plain = plain
  Claude = claude
  Codex = codex
  Jcode = jcode
  Endpoint = {openrouter, plain}
  Capabilities <- MCCapabilities
  Dir = 2
  Kinds <- MCKinds
  Payloads <- MCPayloads
  Replies <- MCReplies
  Hints <- MCHints
  MaxAttempts = 1
  MaxChanges = 2
  NoPath = 0
SPECIFICATION FairSpec
INVARIANTS InvokedAsProven TakenWholeOrNotAtAll
PROPERTIES FailureNamesItsCause AttemptSettles
CHECK_DEADLOCK FALSE
