SPECIFICATION Spec
CONSTANTS
  r1 = r1
  r2 = r2
  Rooms = {r1, r2}
  Default = Default
  None = None
  Lists <- TwoOrOne
  Buttons <- SomeButtons
  MaxMoves = 2
  MaxBuilds = 2
INVARIANTS
  OneOfAKind
  QrIsOfRoom
PROPERTIES
  CatchesUp
  NoBlank
