SPECIFICATION Spec
CONSTANTS
    Overlap = FALSE
    Events <- AllEvents
    Settings <- AllMethods
    Rates = {1}
    Fiat = {"EUR"}
    ForkTime = 2
    MaxEvents <- LongThenShort
    Digits = 1
INVARIANT TypeOK
INVARIANT HeldIsBalance
INVARIANT SpendAddsUp
INVARIANT ForkFollowsParent
INVARIANT SkippedEventExists
PROPERTY UsedInMethodOrder
PROPERTY ErrorNeedsLostDigits
CHECK_DEADLOCK FALSE
