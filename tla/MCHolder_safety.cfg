SPECIFICATION FairSpec
CONSTANTS
  Procs = {h, p1, p2, p3}
  HolderProc = h
  NoProc = NoProc
  Last = 2
  Backends = {"docker", "k8s"}
  Faults = {"api", "lost", "remove", "stream", "death"}
INVARIANTS
  TypeOK
  NothingBuiltInVain
  HolderSpared
  OrphansReaped
  ResultTrue
PROPERTIES
  RunReturns
  ImplementsPoolImpl
CHECK_DEADLOCK FALSE
