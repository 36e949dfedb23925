SPECIFICATION ViewerFairSpec
CONSTANTS
    Writers = {w1}
    Sizes <- SomeSizes
    Dirs = {d1, d2}
    NoFile = NoFile
    BufferMax = 2
    MaxLines = 5
    MaxClears = 2
    MaxOpens = 2
INVARIANTS Numbered Bounded LogsApart ViewTypeOK InOrder CaughtUp
PROPERTIES SelectionStable EventuallyFetched
