SPECIFICATION FairSpec
CONSTANTS
    Width = 4
    TailscaleNet <- MCTailscaleNet
    LoopbackNet <- MCLoopbackNet
    NoSuffix = NoSuffix
    Bus = bus
    Poll = poll
    NoFile = NoFile
    Statuses <- MCStatuses
    Unknown = Unknown
    AllTraffic = FALSE
    NoScript = NoScript
    Configs = {TRUE}
    MaxChanges = 1
    MaxEvents = 1
INVARIANTS TypeOK NoLostRefresh ScriptFollows Routed SummarySaved
PROPERTIES EventuallyShown
