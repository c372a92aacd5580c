SPECIFICATION FairSpec
CONSTANTS
  w1 = w1
  w2 = w2
  page = page
  other = other
  Worker = {w1, w2}
  Posts = 3
  Url = {page, other}
  Limit = 2
  MaxRequests = 2
  MaxCrashes = 1
ACTION_CONSTRAINT FirstIdle
CONSTRAINT FirstPage
INVARIANTS
  TypeOK
  NoDeadlock
  LinksAgree
PROPERTY
  EveryRequestEnds
CHECK_DEADLOCK FALSE
