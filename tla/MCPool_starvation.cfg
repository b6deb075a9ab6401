SPECIFICATION FairSpec
CONSTANTS
  Runs = {r1, r2, r3}
  Holders = {h1, h2}
  Min = 1
  Max = 2
  IdleTicks = 0
  Expiring = {}
  Faults = {}
  NoHolder = NoHolder
  NoRun = NoRun
  Gone = Gone
  Free = Free
PROPERTIES
  WaitersServed
CHECK_DEADLOCK FALSE
