SPECIFICATION Spec
CONSTANTS
  Last = 2
  Faults = {"lost"}
INVARIANTS
  OutputAlwaysOwn
CHECK_DEADLOCK FALSE
