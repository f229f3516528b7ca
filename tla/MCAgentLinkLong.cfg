SPECIFICATION FairLinkSpec
CONSTANTS
  n1 = n1
  None = None
  Nodes = {n1}
  Conns = {c1, c2, c3}
  Cmds = {}
  Units = {}
  MaxFlaps = 1
  Host <- SingleHost
  Protocol <- SingleProto
  LongOutages = TRUE
  MaxFaults = 1
PROPERTIES
  LinkComesBack
