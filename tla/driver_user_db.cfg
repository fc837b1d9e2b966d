SPECIFICATION Spec
CONSTANTS
    a = a
    b = b
    c = c
    Greenlets = {a, b, c}
    Writers = {a, b}
    Savepointers = {}
    Exporters = {c}
    Updaters = {}
    Detachers = {c}
    Committers = {c}
    Yielders = {}
    KillErrors = {"Exception", "GreenletExit"}
    Names = {"s1", "s2"}
    NoOne = NoOne
    MaxOpened = 2
    MaxKills = 1
INVARIANT TypeOK
INVARIANT AllOrNothing
INVARIANT Isolation
INVARIANT BeginSucceeds
INVARIANT CriticalSectionRunsAlone
PROPERTY CallbackUndisturbed
