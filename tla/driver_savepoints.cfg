SPECIFICATION FairSpec
CONSTANTS
    a = a
    b = b

    Greenlets = {a, b}
    Writers = {a, b}
    Savepointers = {a, b}
    Exporters = {}
    Updaters = {}
    Detachers = {}
    Committers = {}
    Yielders = {}
    KillErrors = {"Exception","GreenletExit"}
    Names = {"s1", "s2"}
    NoOne = NoOne
    MaxOpened = 2
    MaxKills = 1
INVARIANT SavepointsMatch
INVARIANT NoStrayRows
PROPERTY ActsAsTransactionalStore
PROPERTY EveryGreenletFinishes
