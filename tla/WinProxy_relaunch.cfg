SPECIFICATION Spec
CONSTANTS
    Goroutines = {g1}
    Backends = {b1}
    NoBackend = NoBackend
    Configs <- FaultConfigs
    UserValues = {u1, u2}
    Machines = {m1}
    NoFile = NoFile
    MaxEpochs = 2
    Faults = {"setInet", "setEnv"}
    Ops = {"apply", "quit", "edit", "powercut"}
    RestoresSettle = FALSE
    EditsSettled = FALSE
INVARIANTS NeverStale
SYMMETRY UserSymmetry
