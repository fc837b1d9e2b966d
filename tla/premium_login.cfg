SPECIFICATION Spec
CONSTANTS
  old = old
  new = new
  Device <- MCDevice
  MaxAhead = 0
  Ahead <- MCTogether
  AppVersion <- MCAppVersion
  MaxClock = 2
  MaxEdits = 1
  MaxLogins = 3
  MaxTransfers = 3
  NoFile = NoFile

INVARIANT NewerRemoteIsAskedFor
CHECK_DEADLOCK FALSE
