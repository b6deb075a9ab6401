SPECIFICATION FairSpec
CONSTANTS
  Calls = {c1, c2}
  Backends = {"docker", "k8s"}
  Writers = {c1}
  Chunks = 1
  Faults = {"api", "death", "cancel", "stream"}
INVARIANTS
  TypeOK
  CleanedUp
  OutputWhole
  ResultTrue
  Isolated
PROPERTIES
  QuietAfterReturn
  TimeoutReturns
CHECK_DEADLOCK FALSE
