SPECIFICATION Spec
CONSTANTS
    Goroutines = {g1}
    Backends = {b1, b2, b3}
    NoBackend = NoBackend
    Configs <- DefaultConfigs
    UserValues = {u1}
    Machines = {m1}
    NoFile = NoFile
    MaxEpochs = 2
    Faults = {}
    Ops = {}
    RestoresSettle = FALSE
    EditsSettled = TRUE
INVARIANTS UndoKept
