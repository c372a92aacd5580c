SPECIFICATION FairSpec
CONSTANTS
  near = near
  Instance = {near}
  Reliable = {near}
  Garbling = {near}
  Links = 1
  Moved = {}
  HasAdmins = {near}
  MaxFailures = 13
  Days = 1
  Meddling = 1
ACTION_CONSTRAINT
  NeighboursMatter
INVARIANTS
  OneBadDay
PROPERTIES
  BackOnline
CHECK_DEADLOCK FALSE
