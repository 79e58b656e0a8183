SPECIFICATION Spec
CONSTANTS
  a = a
  b = b
  None = None
  Tasks = {t1, t2}
  Targets = {a, b}
  Policies <- MCPolicies
  Credentials <- MCCredentials
  Ttl = 2
  RestartDelay = 2
  MaxTime = 3
  MaxPackets = 3
SYMMETRY Symmetry
INVARIANTS
  TypeOK
  RelayAuthorised
  RelayAdmittedAlive
  TtlHonoured
  CountersReconcile
PROPERTIES
  SessionIdFresh
