SPECIFICATION Spec
CONSTANTS
    Nothing = Nothing
    None = None
    Half = Half
    Mixed = Mixed
    Torn = Torn
    NoFile = NoFile
    MinSupported = 1
    Latest = 3
    Scripted = {1}
INVARIANT TypeOK
INVARIANT OpenIsUpgraded
INVARIANT FlaggedHasBackup
