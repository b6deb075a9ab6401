SPECIFICATION Spec
CONSTANTS
  Last = 2
  Faults = {"lost", "api", "slow", "storm"}
INVARIANTS
  OutputOwn
PROPERTIES
  ScratchKept
CHECK_DEADLOCK FALSE
