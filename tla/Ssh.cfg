SPECIFICATION FairSpec
CONSTANTS
    Servers = {s1, s2}
    Writers = {s1, s2}
    Values = {k1, k2}
    NoFile = NoFile
    Empty = Empty
    Torn = Torn
    WriteFaults = TRUE
    Conns = {c1, c2}
    Watched = c1
    Logins = {me, other}
    None = None
    NoLogin = NoLogin
    MaxEvents = 2
    MaxWins = 1
INVARIANTS TypeOK FileWhole Admitted Stoppable KeyStable ConsoleApart OutputBeforeExit Released
PROPERTIES SessionEnds
CHECK_DEADLOCK FALSE
