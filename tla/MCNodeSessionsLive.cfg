SPECIFICATION FairSpec
CONSTANTS
  a = a
  b = b
  None = None
  Tasks = {t1, t2}
  Targets = {a}
  Policies = {}
  Credentials <- MCLiveCredentials
  Ttl = 1
  RestartDelay = 2
  MaxTime = 2
  MaxPackets = 3
PROPERTIES
  EveryPacketAnswered
  SessionsReclaimed
