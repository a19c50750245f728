CONSTANTS
  a = a
  b = b
  c = c
  t1 = t1
  t2 = t2
  Nodes = {a, b, c}
  Tests = {t1, t2}
  Requests <- Mixed
  InitialNodeStates = {"IDLE", "RESERVED"}
  Rounds = 2
  MaxDown = 1
SPECIFICATION FairNodesSpec
INVARIANTS
  RequestHonoured
PROPERTIES
  OnlyCompletionUnlocks
  EveryRequestServed
CHECK_DEADLOCK FALSE
