SPECIFICATION Spec
CONSTANTS
    Goroutines = {g1, g2}
    Backends = {b1, b2, b3}
    NoBackend = NoBackend
    Configs <- TwoConfigs
    UserValues = {u1}
    Machines = {m1}
    NoFile = NoFile
    MaxEpochs = 1
    Faults = {}
    Ops = {"apply"}
    RestoresSettle = TRUE
    EditsSettled = TRUE
PROPERTIES SavedOnce
