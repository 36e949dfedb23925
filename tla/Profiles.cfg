SPECIFICATION Spec
CONSTANTS
    Names = {1, 2, 3}
    DefaultName = 1
    Keys = {k1, k2, k3}
    Backends = {b1, b2, b3}
    Workers = {w1, w2}
    Main = Main
    NoDir = NoDir
    NoKey = NoKey
    None = None
    NewItem = NewItem
    Faults = {"config", "start"}
    RefreshRaces = FALSE
    MaxOrders = 2
SYMMETRY Symmetry
INVARIANTS TypeOK KeysKept OneNode RunningDirKept ActiveRight BridgeRight SelectorRight
