SPECIFICATION AllSpec
CONSTANTS
  Parts = {"swap"}
  vless = vless
  hy2 = hy2
  ss = ss
  Nodes = {vless, hy2, ss}
  V6 = {ss}
  Bound = {vless, ss}
  Reporter = vless
  Swaps = {s1, s2}
  Addrs = {a1, a2, a3}
  None = None
  SixAddr = SixAddr
  Failing = {}
  MaxStops = 0
  Users = {u1}
  Conns = {c1}
  MaxUnits = 1
  MaxRestarts = 0
  MaxChanges = 0
INVARIANTS
  NoAddressLeaked
CHECK_DEADLOCK FALSE
