SPECIFICATION FirstSpec
CONSTANTS
  w1 = w1
  w2 = w2
  ann = ann
  bob = bob
  p1 = p1
  p2 = p2
  r1 = r1
  r2 = r2
  Worker = {w1, w2}
  User = {ann, bob}
  Local = {ann}
  Bot = {ann}
  Post = {p1, p2}
  Reply = {r1, r2}
  AuthorOf <- Written_
  PostOf <- OnFirst
  Above <- Nested
  MaxRequests = 2
  MaxAborts = 1
SYMMETRY Workers
INVARIANTS
  CountersAgree
PROPERTY
  OnlyRestoringRevives
CHECK_DEADLOCK FALSE
