SPECIFICATION Spec
CONSTANTS
  Jobs = {j1, j2}
  Kinds <- MCKinds
  MaxRows = 2
  MaxVer = 2
  MaxFaults = 1
INVARIANTS
  RowsAreTrue
PROPERTIES
  MachineFollows
CHECK_DEADLOCK FALSE
