SPECIFICATION Spec
CONSTANTS
  Nodes = {vless}
  Reporter = vless
  Aws = {}
  Capped = TRUE
  MaxRestarts = 0
  MaxSwaps = 1
  MaxStops = 0
PROPERTIES
  CapHolds
