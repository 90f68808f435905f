CONSTANTS
  w1 = w1
  w2 = w2
  Window = {w1, w2}
  MaxSize = 2
  DefaultSize = 2
  Delay = 2
  TimerId = {1, 2}
  MaxChanges = 4
SPECIFICATION FairSpec
INVARIANTS
  TypeOK
  PtyAgrees
  PendingIsHeld
  NoStaleSize
PROPERTIES
  SizeSettles
  ResizeApplied
