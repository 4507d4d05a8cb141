SPECIFICATION Spec
CONSTANTS
  Events = {e1, e2, c1}
  Claims = {c1}
  MaxCrashes = 2
  MaxFailures = 3
  e1 = e1
  e2 = e2
  c1 = c1
INVARIANTS
  OneIdentity
  NothingLost
  InOrder
  ClaimsCarryProof
  RootedUntilRestart
PROPERTIES
  BindingIsStable
  OutboxDrains
