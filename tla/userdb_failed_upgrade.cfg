SPECIFICATION Spec
CONSTANTS
    Nothing = Nothing
    None = None
    Half = Half
    Mixed = Mixed
    NoTables = NoTables
    Torn = Torn
    NoFile = NoFile
    MinSupported = 1
    Latest = 2
    Cases <- PlainCases
PROPERTY FailedUpgradeIsRestored
