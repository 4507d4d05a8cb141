SPECIFICATION OverlaySpec
CONSTANTS
  i1 = i1
  i2 = i2
  e1 = e1
  e2 = e2
  q1 = q1
  p1 = p1
  p2 = p2
  NoPort = NoPort
  Instances = {i1, i2}
  Events = {e1, e2}
  MaxExits = 1
  Questions = {q1}
  Ports = {p1, p2}
  Default = p1
  MaxClicks = 2
INVARIANTS
  KeptUnlessDisturbed
  PageAsTold
PROPERTY
  ReceivedIsSaved
