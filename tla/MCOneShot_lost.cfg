SPECIFICATION Spec
CONSTANTS
  Calls = {c1}
  Backends = {"docker", "k8s"}
  Writers = {}
  Chunks = 0
  Faults = {"lost", "cancel"}
INVARIANTS
  CleanedUp
CHECK_DEADLOCK FALSE
