SPECIFICATION Spec
CONSTANTS
    Nothing = Nothing
    None = None
    Half = Half
    Mixed = Mixed
    NoTables = NoTables
    Torn = Torn
    NoFile = NoFile
    MinSupported = 1
    Latest = 3
    Cases <- AllCases
INVARIANT TypeOK
INVARIANT OpenIsUpgraded
INVARIANT HalfUpgradedIsFlagged
INVARIANT BackupsAreNotNewer
