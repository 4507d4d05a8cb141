SPECIFICATION Spec
CONSTANTS
  p1 = p1
  p2 = p2
  Peers = {p1, p2}
  MaxId = 6
  Threshold = 1
  Buckets = 2
PROPERTY
  Converges
