SPECIFICATION Spec
CONSTANTS
  owner = owner
  m = m
  n = n
  t = t
  u = u
  Devices = {owner, m, n}
  Founder = owner
  NoDevice = NoDevice
  Questions = {q}
  Polls = {p}
  Tickets = {t, u}
  Rooms <- TicketAndBoardRooms
  MaxEvents = 4
SYMMETRY Names
INVARIANTS AdminsComeFromOwner TicketOnce AuthorsDeleteIsTerminal BoardIsLastWrites
           LastWordStands
PROPERTIES RolesAreKept
CHECK_DEADLOCK FALSE
