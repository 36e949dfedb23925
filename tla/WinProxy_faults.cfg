SPECIFICATION FairSpec
CONSTANTS
    Goroutines = {g1}
    Backends = {b1, b2, b3}
    NoBackend = NoBackend
    Configs <- FaultConfigs
    UserValues = {u1}
    Machines = {m1}
    NoFile = NoFile
    MaxEpochs = 2
    Faults = {"capture", "save", "files", "runOnce", "watchdog", "setEnv", "removeJson", "removeNets", "config", "start", "listen"}
    Ops = {"apply", "switch", "quit"}
    RestoresSettle = TRUE
    EditsSettled = TRUE
INVARIANTS UndoKept
PROPERTIES SavedOnce DeadProxyHealed
