SPECIFICATION Spec
CONSTANTS
  Words <- MCWords
  Switch <- MCSwitch
  HubMessage = {}
  FirstText = {}
  ServerText <- MCServerText
  Reading <- MCWindReading
  LoraNode = "7076e841"
  Station = "7076e800"
  NestingLimit = 2
  BufferSize = 24
  MaxAllocations = 0
  MaxRead = 2
  Max1ByteLenReg = 511
  StackDigit = {7}
  NULL = NULL
INVARIANT
  WeatherAsMeasured
