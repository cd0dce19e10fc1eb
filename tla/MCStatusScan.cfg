SPECIFICATION FairSpec
CONSTANTS
  Name <- MCName
  Plc <- MCPlc
  MaxRegAddr = 4
  File <- MCFile
  NULL = NULL
  LoraNodes = 2
  MaxRead = 2
INVARIANTS
  TablesOfFile
  CommandsFindLastDefinition
  ReportsUnderCommandName
  AskedSoFar
  QueriesFit
  RoundComplete
PROPERTIES
  NoRegisterTwice
  RoundsGoOn
