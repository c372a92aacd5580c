SPECIFICATION BanSpec
CONSTANTS
  w1 = w1
  w2 = w2
  here = here
  there = there
  Worker = {w1, w2}
  Site = {here, there}
  Host = here
  Home = there
  MaxTime = 2
  MaxOrders = 2
  MaxFaults = 1
INVARIANTS
  BanTypeOK
  CacheTells
  FlagsAgree
  BansAgree
SYMMETRY Alike
CONSTRAINT FewMishaps
CHECK_DEADLOCK FALSE
