SPECIFICATION Spec
CONSTANTS
  MainThread = main
  HandlerThread = handler
  Node = {n1, n2}
  Data = {d1}
  NULL = NULL
INVARIANTS
  LogReadsLiveNode
