SPECIFICATION Spec
CONSTANTS
    Goroutines = {g1}
    Backends = {b1, b2, b3}
    NoBackend = NoBackend
    Configs <- BareConfigs
    UserValues = {u1}
    Machines = {m1, m2}
    NoFile = NoFile
    MaxEpochs = 2
    Faults = {}
    Ops = {}
    RestoresSettle = TRUE
    EditsSettled = TRUE
PROPERTIES ForeignKept
