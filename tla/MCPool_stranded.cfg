SPECIFICATION FairSpec
CONSTANTS
  Runs = {r1, r2}
  Holders = {h1, h2}
  Min = 0
  Max = 1
  IdleTicks = 0
  Expiring = {}
  Faults = {"death"}
  NoHolder = NoHolder
  NoRun = NoRun
  Gone = Gone
  Free = Free
PROPERTIES
  WaitersServed
CHECK_DEADLOCK FALSE
