SPECIFICATION Spec
CONSTANTS
  Words <- MCWords
  Switch <- MCSwitch
  HubMessage <- MCHubMessage
  FirstText <- MCFirstText
  ServerText <- MCServerText
  Reading <- MCReading
  LoraNode = "7076e841"
  Station = "7076e800"
  NestingLimit = 2
  BufferSize = 24
  MaxAllocations = 28
  MaxRead = 2
  Max1ByteLenReg = 511
  StackDigit = {7}
  NULL = NULL
INVARIANTS
  CommandsArrive
  
  ParsesExactly
  NothingElseLeaks
  PrintsReadably
