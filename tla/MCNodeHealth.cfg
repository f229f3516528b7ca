SPECIFICATION FairSpec
CONSTANTS
  Nodes = {vless}
  Reporter = vless
  Aws = {vless}
  Capped = TRUE
  MaxRestarts = 1
  MaxSwaps = 1
  MaxStops = 1
PROPERTIES
  OutageNeedsThree
  DeadServiceShown
  HealthyMachineReturns
