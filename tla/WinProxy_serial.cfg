SPECIFICATION Spec
CONSTANTS
    Goroutines = {g1}
    Backends = {b1, b2, b3}
    NoBackend = NoBackend
    Configs <- AllConfigs
    UserValues = {u1, u2}
    Machines = {m1}
    NoFile = NoFile
    MaxEpochs = 3
    Faults = {}
    Ops = {"apply", "switch", "quit", "edit", "powercut"}
    RestoresSettle = TRUE
    EditsSettled = TRUE
INVARIANTS TypeOK NetsInPlace CleanExitRestores CleanExitLeavesNothing IInv
PROPERTIES ImplementsGuard
