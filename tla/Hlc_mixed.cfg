SPECIFICATION Spec
CONSTANTS
  Devices = {1, 2}
  ClockDevices = {2}
  MaxEvents = 4
  MaxWall = 3
  MaxRestarts = 1
INVARIANT
  CausalToTheMillisecond
  ClockIsCausal
  OwnOrder
CHECK_DEADLOCK FALSE
