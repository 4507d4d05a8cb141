SPECIFICATION Spec
CONSTANTS
  owner = owner
  m = m
  n = n
  t = t
  u = u
  Devices = {owner, m, n}
  Founder = owner
  NoDevice = NoDevice
  Questions = {q}
  Polls = {}
  Tickets = {t, u}
  Rooms <- StreamRooms
  MaxEvents = 5
SYMMETRY Names
INVARIANTS HiddenStaysHidden
CHECK_DEADLOCK FALSE
