SPECIFICATION Spec
CONSTANTS
  h1 = h1
  h2 = h2
  u1 = u1
  d1 = d1
  d2 = d2
  east = east
  west = west
  domain = domain
  None = None
  Width = 3
  MaxTargets = 2
  MaxPorts = 2
  PortNumbers = {0, 1, 2, 3, 4, 5, 6, 7, 8}
  Nodes = {1, 2}
  Quality <- MCOrderQuality
  Rules <- MCOrderRules
  Turning <- MCTurning
  Requests <- MCOrderRequests
  Handlers = {h1}
  Ttl = 1
  FreshFor = 0
  Loads = {1}
  MaxClock = 1
  MaxIntents = 1
PROPERTIES
  PriorityDecides
