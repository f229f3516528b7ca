SPECIFICATION AllFairSpec
CONSTANTS
  Parts = {"swap", "core"}
  vless = vless
  hy2 = hy2
  ss = ss
  Nodes = {vless, hy2, ss}
  V6 = {ss}
  Bound = {vless, ss}
  Reporter = vless
  Swaps = {s1}
  Addrs = {a1, a2, a3}
  None = None
  SixAddr = SixAddr
  Failing = {"describe", "detach", "allocate", "attach"}
  MaxStops = 1
  Users = {u1}
  Conns = {c1, c2}
  MaxUnits = 1
  MaxRestarts = 1
  MaxChanges = 1
INVARIANTS
  NoAddressLeaked
  TrafficIsConserved
PROPERTIES
  SixKeptByOthers
  AddressConverges
  FrozenIsShutOut
  ConnectionEndsWhole
CHECK_DEADLOCK FALSE
