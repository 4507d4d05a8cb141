SPECIFICATION Safe
CONSTANTS
  p1 = p1
  p2 = p2
  p3 = p3
  Peers = {p1, p2}
  MaxId = 3
  AuthorOf <- MCAuthorOf
  Threshold = 1
  Buckets = 2
  MaxCrashes = 1
  Capacity = 2
INVARIANTS
  TypeOK
  
  OwnIsDurable
  RangesTile
PROPERTY
  AgreedIsQuiet
\* both starts may fail, and nobody need start them again
CHECK_DEADLOCK FALSE
