SPECIFICATION AllSpec
CONSTANTS
  Nodes = {n1, n2}
  Manual = {n2}
  Runs = {r1, r2}
  Concurrency = 1
  MaxVer = 2
  MaxFaults = 2
INVARIANTS
  CallersAreServed
PROPERTIES
  CalmPushesArrive
  RotationRepairs
