SPECIFICATION FairSpec
CONSTANTS
  l1 = l1
  l2 = l2
  Listings = {l1, l2}
  Orders = {"draining"}
  Answered = {"node_status"}
  Answers = {"open", "ignored"}
  Reports = {"ready", "error"}
  SlowAfter = 0
  StaleAfter = 1
  MaxClock = 2
  MaxEvents = 2
INVARIANTS
  TypeOK
PROPERTIES
  AlertsConverge
