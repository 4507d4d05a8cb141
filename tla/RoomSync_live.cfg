SPECIFICATION Spec
CONSTANTS
  p1 = p1
  p2 = p2
  p3 = p3
  Peers = {p1, p2}
  MaxId = 2
  AuthorOf <- MCAuthorOf
  Threshold = 1
  Buckets = 2
  MaxCrashes = 1
  Capacity = 1
PROPERTIES
  Converges
  
  ImplementsSharedLog
\* both starts may fail, and nobody need start them again
CHECK_DEADLOCK FALSE
