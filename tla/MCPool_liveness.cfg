SPECIFICATION FairSpec
CONSTANTS
  Runs = {r1, r2}
  Holders = {h1, h2, h3}
  Min = 1
  Max = 2
  IdleTicks = 1
  Expiring = {r1}
  Faults = {"build"}
  NoHolder = NoHolder
  NoRun = NoRun
  Gone = Gone
  Free = Free
PROPERTIES
  ImplementsLease
  CloseReturns
  ExpiringReturns
  ShrinksToMin
CHECK_DEADLOCK FALSE
