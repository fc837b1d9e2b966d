SPECIFICATION Spec
CONSTANTS
  old = old
  new = new
  Device <- MCDevice
  MaxAhead = 1
  Ahead <- MCAhead
  AppVersion <- MCAppVersion
  MaxClock = 1
  MaxEdits = 1
  MaxLogins = 3
  MaxTransfers = 3
  NoFile = NoFile
INVARIANT TypeOK
INVARIANT EditsSurvive
PROPERTY ShrinksOnlyByForceOrRace
CHECK_DEADLOCK FALSE
