SPECIFICATION Spec
CONSTANTS
  w1 = w1
  w2 = w2
  c1 = c1
  c2 = c2
  post = post
  reply = reply
  Web = {w1, w2}
  Celery = {c1, c2}
  Object = {post, reply}
  Parent <- Answers
  Activity <- Activities
  Script <- Scripts
  MaxRepeats = 1
  MaxFaults = 1
SYMMETRY Workers
INVARIANTS
  TypeOK
  AnsweredIsHandled
  HandledOnce
  NewestShows
  FollowersKnow
CHECK_DEADLOCK FALSE
