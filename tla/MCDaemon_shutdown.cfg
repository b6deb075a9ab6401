SPECIFICATION FairSpec
CONSTANTS
  Calls = {c1, c2}
  Limited = {c1}
  Min = 1
  Max = 1
  Faults = {"death", "build", "listen", "remove", "kill"}
INVARIANTS
  TypeOK
  ClosesAfterServing
  NothingLeft
PROPERTIES
  SocketRemoved
  ShutdownEnds
  AbandonedEnds
