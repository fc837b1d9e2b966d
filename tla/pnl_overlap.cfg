SPECIFICATION Spec
CONSTANTS
    Overlap = TRUE
    Events <- SimpleEvents
    Settings <- AllMethods
    Rates = {1}
    Fiat = {"EUR"}
    ForkTime = 3
    MaxEvents <- TwoShort
    Digits = 1
INVARIANT SameSettingsThroughout
CHECK_DEADLOCK FALSE
