SPECIFICATION Spec
CONSTANTS
  ann = ann
  bob = bob
  Users <- TwoFarmers
  Farmers <- TwoFarmers
  Players = {}
  PlotsByLevel <- OnePlot
  UpgradeAt <- FirstDay
  Mature = 1
  Day = 1
  Yield = 3
  StealMax = 2
  StealDaily = 1
  RpsDaily = 1
  FlipDaily = 1
  Cards = {c1}
  Runners = {j1, j2}
  MaxClock = 1
  MaxRestarts = 0
INVARIANTS
  ToldOnce
CHECK_DEADLOCK FALSE
