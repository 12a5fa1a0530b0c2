CONSTANTS
  LastInstant = 3
  Durations = {0, 1, 2}
  MaxGrants = 2
  Unset = Unset
  Refused = Refused
  Application = {editor}
  Window = {mail}
  Character = {"a", "b", "CR"}
  Identifiers <- MCIdentifiers
  Millis <- MCMillis
  KeyLength <- MCKeyLength
SPECIFICATION Spec
INVARIANTS OverStaysOver EnabledIsCurrent ManifestIsFaithful
