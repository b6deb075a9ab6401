SPECIFICATION Spec
CONSTANTS
  Runs = {r1, r2}
  Holders = {h1, h2, h3}
  Min = 1
  Max = 2
  IdleTicks = 1
  Expiring = {}
  Faults = {"build"}
  NoHolder = NoHolder
  NoRun = NoRun
  Gone = Gone
  Free = Free
PROPERTIES
  ReaperKeepsMin
CHECK_DEADLOCK FALSE
