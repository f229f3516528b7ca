SPECIFICATION AllSpec
CONSTANTS
  Users = {u1}
  OAuthUsers = {u1}
  n1 = n1
  Nodes = {n1}
  Manual = {}
  MinLevel <- VipOnly
  MaxLevel = 1
  MaxLimit = 2
  MaxUse = 2
  MaxRestarts = 1
  Members = {a1, a2}
  Telegrams = {t1, t2}
  None = None
  Clients = {c1, c2}
  MaxReq = 2
  MaxSeen = 1
  UaLimit = 1
  MaxLinks = 2
  MaxKeys = 3
INVARIANTS
  NodesFollowAccounts
  BindingsAreSound
  LinksAreSound
PROPERTIES
  ReleaseForCause
  ServiceFollows
  UnboundAreCleared
  SharedLinkGoes
CHECK_DEADLOCK FALSE
