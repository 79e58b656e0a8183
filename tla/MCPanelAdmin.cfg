SPECIFICATION FairSpec
CONSTANTS
  o1 = o1
  o2 = o2
  u1 = u1
  r1 = r1
  r2 = r2
  Bootstrap = Bootstrap
  Unset = Unset
  Operators = {o1, o2}
  Actions = {"test_connection", "upgrade_node"}
  MaxTasks = 2
  MaxCredentials = 2
  Users = {u1}
  Requests = {r1, r2}
  SessionTtl = 1
  Updates <- MCUpdates
CONSTRAINT Apart
INVARIANTS
  TypeOK
  VerdictsAreEarned
PROPERTIES
  OperationsEnd
  SessionsLapse
