SPECIFICATION Spec
CONSTANTS
  w1 = w1
  w2 = w2
  ann = ann
  bob = bob
  cat = cat
  here = here
  there = there
  Worker = {w1, w2}
  Person = {ann, bob, cat}
  Site = {here, there}
  Lives <- Mixed
  MaxMessages = 2
  MaxRequests = 3
SYMMETRY Symmetries
INVARIANTS
  SidesAgree
  UnreadAgrees
CHECK_DEADLOCK FALSE
