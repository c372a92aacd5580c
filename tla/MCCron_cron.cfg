SPECIFICATION FairSpec
CONSTANTS
  r1 = r1
  r2 = r2
  once = once
  daily = daily
  x1 = x1
  x2 = x2
  Run = {r1, r2}
  Post = {once, daily}
  Repeats = {daily}
  Reminder = {x1, x2}
  About <- Abouts
  MaxTime = 2
  MaxEdits = 2
  MaxFailures = 1
INVARIANTS
  CronTypeOK
  PublishedOnce
  NoneSkipped
  PublicIsSent
  RemindedOnce
PROPERTIES
  DueIsPublished
  RemindersEnd
CHECK_DEADLOCK FALSE
