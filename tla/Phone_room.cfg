SPECIFICATION Spec
CONSTANTS
  o1 = o1
  o2 = o2
  f1 = f1
  c1 = c1
  c2 = c2
  NoEvent = NoEvent
  Own = {o1}
  Foreign = {f1}
  Callers = {c1, c2}
  MaxCrashes = 2
  MaxFailures = 1
INVARIANTS
  OwnIsOnDiskUnlessRejoined
  UnsentIsQueued
  DeletedIsGone
CHECK_DEADLOCK FALSE
PROPERTY SavedIsSent
