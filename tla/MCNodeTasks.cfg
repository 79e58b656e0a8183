SPECIFICATION FairSpec
CONSTANTS
  h1 = h1
  h2 = h2
  None = None
  MaxTasks = 3
  Handlers = {h1, h2}
  MaxBoots = 2
INVARIANTS
  TypeOK
  SucceededMeansRestart
PROPERTIES
  HandedOutOnce
  ImplementsQueue
  TasksHandedOut
