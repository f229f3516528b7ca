SPECIFICATION FairLinkSpec
CONSTANTS
  n1 = n1
  None = None
  Nodes = {n1}
  Conns = {c1, c2}
  Cmds = {k1}
  Units = {u1}
  MaxFlaps = 1
  Host <- SingleHost
  Protocol <- SingleProto
  LongOutages = FALSE
  MaxFaults = 1
INVARIANTS
  LinkInv
  TrafficRecordedOnce
PROPERTIES
  OnlineAgentReports
  CallSpec
  LinkComesBack
  SilenceIsNoticed
