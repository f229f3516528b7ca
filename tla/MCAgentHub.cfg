SPECIFICATION Spec
CONSTANTS
  n1 = n1
  n2 = n2
  None = None
  Nodes = {n1, n2}
  Conns = {c1, c2}
  Cmds = {k1}
  MaxFlaps = 1
  Host <- OneHost
  Protocol <- TwoProtocols
SYMMETRY Symmetry
INVARIANTS
  RegistryMatchesConnections
  TimersMatch
PROPERTIES
  AnsweringAgentNotEvicted
  OwnCommandLostWithCarrier
  OfflineOnlyWhenAbsent
