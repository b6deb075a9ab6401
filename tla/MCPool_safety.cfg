SPECIFICATION Spec
CONSTANTS
  Runs = {r1, r2, r3}
  Holders = {h1, h2, h3}
  Min = 1
  Max = 2
  IdleTicks = 1
  Expiring = {r1, r2, r3}
  Faults = {"death", "build", "inspect"}
  NoHolder = NoHolder
  NoRun = NoRun
  Gone = Gone
  Free = Free
INVARIANTS
  TypeOK
  LiveWithinMax
  Custody
  SlotsAccounted
  SendNeverBlocks
  DeadNotReused
  NoLeak
  NobodyWaitsInVain
PROPERTIES
  OnlyCloseInterrupts
  ImplementsPoolImpl
SYMMETRY Symmetry
CHECK_DEADLOCK FALSE
