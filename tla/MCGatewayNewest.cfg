SPECIFICATION Spec
CONSTANTS
  s1 = s1
  s2 = s2
  other = other
  on = on
  off = off
  Switch = {s1, s2}
  Stranger = {other}
  Value = {on, off}
  NoNumber = NoNumber
  Params <- MCParams
  MaxMessages = 2
  MaxQueries = 1
  NoMsg = NoMsg
INVARIANT NewestCommandHolds
