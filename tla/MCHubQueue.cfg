SPECIFICATION FairSpec
CONSTANTS
  MainThread = main
  HandlerThread = handler
  Node = {n1, n2, n3}
  Data = {d1, d2}
  NULL = NULL
INVARIANTS
  Inv
PROPERTIES
  EveryMessageProcessed
  ImplementsQueue
