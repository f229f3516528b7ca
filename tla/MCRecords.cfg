SPECIFICATION AllSpec
CONSTANTS
  Orders = {p1, p2, p3}
  MaxDay = 2
  None = None
  Restores = {r1, r2}
  MaxWrites = 3
  MaxCrashes = 1
  Owners = {u1}
  Nodes = {n1, n2, n3}
  Names = {1, 2, 3, 4, 5}
  OldNames = {1, 2}
  MaxDeaths = 2
  MaxStarts = 2
  ann = ann
  bob = bob
  cyn = cyn
  dan = dan
  Users <- Village
  Farmers = {ann}
  Players = {ann}
  PlotsByLevel <- TwoGroups
  UpgradeAt <- SecondDay
  Mature = 1
  Day = 1
  Yield = 3
  StealMax = 2
  StealDaily = 1
  RpsDaily = 1
  FlipDaily = 1
  Cards = {c1}
  Runners = {j1}
  MaxClock = 2
  MaxRestarts = 1
  e1 = e1
  e2 = e2
  o1 = o1
  x1 = x1
  x2 = x2
  Accounts = {e1, e2, o1}
  Kind <- Kinds
  Address <- Addrs
  Invites = {i1, i2}
  SignupCodes = 2
  Tries = 1
  Boxes = {a1, a2}
  CodeTtl = 1
  Hour = 2
  GlobalLimit = 2
  RecipientLimit = 2
  Entries = 1
  TokenTtl = 1
  TokenUntil = 2
  MaxTime = 3
  MaxCodes = 3
SYMMETRY Exchangeable
INVARIANTS
  CreditedOnceIffCompleted
  OnePaidToday
  DatabaseIsWhole
  NothingLostBehindTheBackup
  SchemaIsSound
  CropsAreSharedOut
  RegistrationIsSound
  CodesAreBounded
CHECK_DEADLOCK FALSE
