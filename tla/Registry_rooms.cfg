SPECIFICATION Spec
CONSTANTS
  s1 = s1
  s2 = s2
  s3 = s3
  link1 = link1
  link2 = link2
  None = None
  Ids = {s1, s2, s3}
  Codes = {link1, link2}
  MaxCrashes = 1
SYMMETRY Same
INVARIANTS
  TypeOK
  RoomsAreKept
  CreatesOnlyOwn
  OneRoomPerKey
  EveryRoomListens
CHECK_DEADLOCK FALSE
