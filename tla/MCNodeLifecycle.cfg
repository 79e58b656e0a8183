SPECIFICATION FairSpec
CONSTANTS
  n1 = n1
  t1 = t1
  t2 = t2
  h1 = h1
  h2 = h2
  a1 = a1
  s1 = s1
  s2 = s2
  None = None
  Orders = {"disabled", "offline", "online"}
  Nodes = {n1}
  Tokens = {t1, t2}
  Hosts = {h1, h2}
  Admins = {a1}
  Secrets = {s1, s2}
CHECK_DEADLOCK FALSE
INVARIANTS
  TypeOK
  TokenUsedOnce
  SecretsAgree
  OrdersStand
  OnlineWasInstalled
PROPERTIES
  InstalledNodesShowUp
