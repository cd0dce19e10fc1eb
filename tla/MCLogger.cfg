SPECIFICATION FairSpec
CONSTANTS
  Thread = {t1, t2}
  MaxBackup = 2
  MaxSize = 2
  MaxLines = 6
  NULL = NULL
INVARIANTS
  Chronological
  NewestKept
  NoGap
  BoundedFiles
PROPERTY CallsReturn
