SPECIFICATION Spec
CONSTANTS
  h1 = h1
  h2 = h2
  n1 = n1
  n2 = n2
  business = business
  None = None
  Handlers = {h1, h2}
  Requests <- MCRequests
  Nodes = {n1, n2}
  MaxRequests = 4
  MaxCategories = 3
INVARIANTS
  TypeOK
  SyncIdempotent
PROPERTIES
  ImplementsStore
