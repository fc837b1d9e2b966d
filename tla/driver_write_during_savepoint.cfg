SPECIFICATION Spec
CONSTANTS
    a = a
    b = b
    Greenlets = {a, b}
    Writers = {a}
    Savepointers = {b}
    Exporters = {}
    Updaters = {}
    Detachers = {}
    Committers = {}
    Yielders = {a, b}
    KillErrors = {}
    Names = {"s1", "s2"}
    NoOne = NoOne
    MaxOpened = 2
    MaxKills = 0
INVARIANT WriteWaitsForSavepoints
