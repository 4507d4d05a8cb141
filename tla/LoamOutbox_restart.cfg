SPECIFICATION Safe
CONSTANTS
  Events = {e1, e2, c1}
  Claims = {c1}
  MaxCrashes = 1
  MaxFailures = 0
  e1 = e1
  e2 = e2
  c1 = c1
INVARIANT
  RootedRoomIsLoam
