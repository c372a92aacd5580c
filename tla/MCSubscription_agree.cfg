SPECIFICATION Spec
CONSTANTS
  w1 = w1
  w2 = w2
  ann = ann
  bob = bob
  club = club
  feed = feed
  Worker = {w1, w2}
  User = {ann}
  Group = {club, feed}
  Feed = {feed}
  MaxRequests = 3
  MaxFaults = 1
SYMMETRY Workers
INVARIANTS
  InstancesAgree
  CountsAgree
CHECK_DEADLOCK FALSE
