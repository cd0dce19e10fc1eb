SPECIFICATION StartFairSpec
CONSTANTS
  Socket = {s1, s2}
  MaxDrops = 2
  NULL = NULL
  None = None
  Hash <- MCHash
  DictMinSz = 4
  Files <- MCFiles
  Length <- MCLength
  Lower <- MCLower
  ASCIILINESZ = 100
  Accounts <- MCAccounts
  MaxFailures = 1
CHECK_DEADLOCK FALSE
INVARIANTS
  NoSocketLeaks
  ServesSubscribed
  ConfigAsWritten
  PasswordSigns
PROPERTY
  Recovers
