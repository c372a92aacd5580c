SPECIFICATION Spec
CONSTANTS
  w1 = w1
  w2 = w2
  north = north
  ann = ann
  bob = bob
  cat = cat
  yes = yes
  no = no
  Worker = {w1, w2}
  Follower = {north}
  Voter = {ann, bob, cat}
  Lives <- Everywhere
  Text = {yes, no}
  MaxRequests = 2
  MaxEdits = 1
SYMMETRY Symmetries
INVARIANTS
  NeverAhead
  CopiesAgree
CHECK_DEADLOCK FALSE
