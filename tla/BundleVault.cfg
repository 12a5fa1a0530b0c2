CONSTANTS
  Helper = {h}
  App = {a, b}
  Capture = {c1, c2}
  Generation = {g1, g2}
  Payload = {image}
  NoProcess = NoProcess
  NoCapture = NoCapture
  NoGeneration = NoGeneration
SPECIFICATION Spec
SYMMETRY Symmetry
INVARIANTS OneCallInside OpenIsNeverTorn KeyGoneBeforeUnlink
PROPERTIES CommittedAtomically ImplementsErasure
