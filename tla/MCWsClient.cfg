SPECIFICATION TalkingServerSpec
CONSTANTS
  HubWriter = {hub}
  StatusWriter = {status}
  WsThread = wsThread
  Node = {n1, n2, n3}
  Data = {d1}
  NULL = NULL
  Wsi = wsi
  MaxWait = 2
INVARIANTS
  SendsLiveNode
  NoLostWakeup
  HandleBeforeUse
  AirGap
  Inv
  UrgentFirst
PROPERTIES
  ImplementsQueue
  QueueDrains
