SPECIFICATION Spec
CONSTANTS
  Runs = {r1}
  Holders = {h1, h2}
  Min = 0
  Max = 1
  IdleTicks = 0
  Expiring = {}
  Faults = {}
  NoHolder = NoHolder
  NoRun = NoRun
  Gone = Gone
  Free = Free
INVARIANTS
  CloseNeverPanics
CHECK_DEADLOCK FALSE
