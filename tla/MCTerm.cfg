CONSTANTS
  Buffer = {b1, b2, b3}
  Elsewhere = Elsewhere
  MaxSwitches = 2
  Fails = TRUE
SPECIFICATION FairSpec
INVARIANTS
  TypeOK
  CurrentExists
  CycleVisitsAll
PROPERTIES
  SwitchLeavesClosed
  SwitchHappens
