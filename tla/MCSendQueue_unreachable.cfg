SPECIFICATION Spec
CONSTANTS
  c1 = c1
  c2 = c2
  post = post
  vote = vote
  here = here
  Activity = {post, vote}
  Instance = {here}
  To <- ToOne
  Batched = {vote}
  Runner = {c1}
  Number = {1, 2, 3, 4, 5, 6}
  MaxRetries = 0
  MaxCrashes = 0
  MaxChanges = 0
  MayOverrun = FALSE
  MaxTroubles = 0
INVARIANTS
  FailuresRetried
CHECK_DEADLOCK FALSE
