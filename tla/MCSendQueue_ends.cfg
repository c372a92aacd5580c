SPECIFICATION FairSpec
CONSTANTS
  c1 = c1
  c2 = c2
  post = post
  vote = vote
  here = here
  Activity = {vote}
  Instance = {here}
  To <- ToOne
  Batched = {vote}
  Runner = {c1, c2}
  Number = {1, 2, 3, 4, 5, 6}
  MaxRetries = 0
  MaxCrashes = 1
  MaxChanges = 1
  MayOverrun = TRUE
  MaxTroubles = 1
INVARIANTS
  TypeOK
  ReceivedOnce
  PostsBounded
PROPERTIES
  KeepsPromise
  EverySendEnds
CHECK_DEADLOCK FALSE
