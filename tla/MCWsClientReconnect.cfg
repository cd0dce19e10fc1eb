SPECIFICATION Spec
CONSTANTS
  HubWriter = {hub}
  StatusWriter = {status}
  WsThread = wsThread
  Node = {n1, n2}
  Data = {d1}
  NULL = NULL
  Wsi = wsi
  MaxWait = 0
INVARIANTS
  SleepsConnected
