SPECIFICATION Spec
CONSTANTS
    Goroutines = {g1}
    Backends = {b1, b2, b3}
    NoBackend = NoBackend
    Configs <- DefaultConfigs
    UserValues = {u1}
    Machines = {m1}
    NoFile = NoFile
    MaxEpochs = 3
    Faults = {"setInet"}
    Ops = {}
    RestoresSettle = TRUE
    EditsSettled = TRUE
INVARIANTS UndoKept
