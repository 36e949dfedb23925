---------------------------- MODULE StatusProofs ----------------------------
(***************************************************************************)
(* For any statuses, changes and failures: no refresh of the window is     *)
(* lost, browsers are told, and saves that do not overlap leave the last   *)
(* summary on disk.  For any width of addresses and any routes: the script *)
(* sends to the proxy what it should.                                      *)
(***************************************************************************)
EXTENDS Status, WellFoundedInduction, TLAPS

\* Where a goroutine is, it holds what it will store, save or tell.
Holds ==
    /\ world \in Statuses
    /\ pc \in [Refreshers -> Labels] /\ got \in [Refreshers -> Known]
    /\ toTell \in [Refreshers -> BOOLEAN]
    /\ \A r \in Refreshers :
         /\ pc[r] \in {"store", "save"} => got[r] \in Statuses
         /\ toTell[r] => pc[r] \in {"save", "tell"}

\* What a browser may have been given: inputs, while WinINet names the script;
\* the first ones, if there were none to compare with yet, and nothing told it.
Scripts ==
    /\ lastPAC # NoScript => proxyOn /\ status # Unknown /\ lastPAC = InputsOf(status)
    /\ script # NoScript /\ lastPAC = NoScript => untold
    /\ script # NoScript => inUse
    /\ inUse \/ applying => proxyOn

\* The last summary is that of the snapshot; without overlapping or failed
\* saves one goroutine at most has a summary to save, and it is the last.
SavesInOrder ==
    /\ lastSummary = IF status = Unknown THEN Unknown ELSE status.summary
    /\ ~overtaken => \A r \in Refreshers : pc[r] = "save" =>
         /\ got[r].summary = lastSummary
         /\ \A o \in Refreshers : pc[o] = "save" => o = r

FlowInv == Holds /\ Scripts /\ SavesInOrder /\ NoLostRefresh /\ ScriptFollows /\ SummarySaved

LEMMA InitFlow == Init => FlowInv
<1> SUFFICES ASSUME Init PROVE FlowInv
    OBVIOUS
<1> USE DEF Init
<1>1. Holds
    BY SMT DEF Holds, Labels, Known
<1>2. Scripts /\ SavesInOrder
    BY SMT DEF Scripts, SavesInOrder
<1>3. NoLostRefresh /\ ScriptFollows /\ SummarySaved
    BY DEF NoLostRefresh, ScriptFollows, SummarySaved
<1> QED BY <1>1, <1>2, <1>3 DEF FlowInv

\* A goroutine on its way to store: nothing a property looks at changes.
LEMMA FetchFlow ==
    ASSUME FlowInv, NEW r \in Refreshers, pc[r] \in {"down", "next", "idle", "fetch"},
           NEW l \in {"down", "next", "idle", "fetch", "store"}, Goto(r, l),
           NEW s \in Statuses \cup {got[r]}, got' = [got EXCEPT ![r] = s], l = "store" => s \in Statuses,
           UNCHANGED <<world, toTell, overtaken, status, lastSummary, lastPAC, browsers, window, summaryFile>>
    PROVE  FlowInv'
<1> USE DEF FlowInv, registration, browsers, window, Goto
<1>1. \A o \in Refreshers : pc'[o] \in {"save", "tell"} <=> pc[o] \in {"save", "tell"}
    BY SMT DEF Holds
<1>2. \A o \in Refreshers : pc'[o] = "save" => pc[o] = "save" /\ got'[o] = got[o]
    BY SMT DEF Holds
<1>3. \A o \in Refreshers : pc[o] = "save" => pc'[o] = "save"
    BY SMT DEF Holds
<1>4. Holds'
    BY SMT DEF Holds, Labels, Known
<1>5. Scripts' /\ ScriptFollows'
    BY Zenon DEF Scripts, ScriptFollows
<1>6. SavesInOrder' /\ SummarySaved'
    BY <1>2, <1>3, Zenon DEF SavesInOrder, SummarySaved
<1>7. NoLostRefresh'
    BY <1>1, Zenon DEF NoLostRefresh
<1> QED BY <1>4, <1>5, <1>6, <1>7

LEMMA OtherFlow ==
    ASSUME FlowInv, Change \/ Watch \/ BusFails \/ NextNote \/ Tick \/ Fire \/ Refresh
                    \/ \E r \in Refreshers : Fetch(r)
    PROVE  FlowInv'
<1> USE StatusAssumption DEF FlowInv, Refreshers
<1>g. \A r \in Refreshers : got = [got EXCEPT ![r] = got[r]]
    BY SMT DEF Holds
<1>1. CASE Change
    <2>1. world' \in Statuses /\ UNCHANGED <<goroutines, snapshot, browsers, window, summaryFile>>
        BY <1>1, Zenon DEF Change
    <2> QED BY <2>1, Zenon DEF goroutines, snapshot, registration, browsers, window, Holds, Scripts, ScriptFollows, SavesInOrder,
                               SummarySaved, NoLostRefresh
<1>2. CASE Watch
    BY <1>2, <1>g, FetchFlow, Zenon DEF Watch, snapshot
<1>3. CASE BusFails
    BY <1>3, <1>g, FetchFlow, Zenon DEF BusFails, snapshot, node
<1>4. CASE NextNote
    BY <1>4, <1>g, FetchFlow, Zenon DEF NextNote
<1>5. CASE Tick
    BY <1>5, <1>g, FetchFlow, Zenon DEF Tick, snapshot, node
<1>6. ASSUME NEW r \in Refreshers, Fetch(r) PROVE FlowInv'
    <2>1. Rest(r) \in {"next", "idle"}
        BY DEF Rest
    <2>2. world \in Statuses
        BY DEF Holds
    <2> QED BY <1>6, <1>g, <2>1, <2>2, FetchFlow, Zenon DEF Fetch, snapshot, node
<1>7. CASE Fire
    BY <1>7, Zenon DEF Fire, node, goroutines, snapshot, registration, browsers, Holds, Scripts, ScriptFollows, SavesInOrder,
                       SummarySaved, NoLostRefresh
<1>8. CASE Refresh
    BY <1>8, Zenon DEF Refresh, node, goroutines, snapshot, registration, browsers, Holds, Scripts, ScriptFollows, SavesInOrder,
                       SummarySaved, NoLostRefresh
<1> QED BY <1>1, <1>2, <1>3, <1>4, <1>5, <1>6, <1>7, <1>8

LEMMA BrowserFlow ==
    ASSUME FlowInv, StartProxy \/ Configure \/ Register \/ FetchScript \/ Restart
    PROVE  FlowInv'
<1> USE StatusAssumption DEF FlowInv, Refreshers
<1>1. CASE StartProxy \/ Configure \/ Register \/ FetchScript
    <2>1. UNCHANGED <<node, goroutines, snapshot, window, summaryFile>>
        BY <1>1, Zenon DEF StartProxy, Configure, Register, FetchScript
    <2>2. Holds' /\ SavesInOrder' /\ SummarySaved' /\ NoLostRefresh'
        BY <2>1 DEF Holds, SavesInOrder, SummarySaved, NoLostRefresh, goroutines, snapshot, window, node
    <2>3. CASE StartProxy
        BY <2>2, <2>3, Zenon DEF StartProxy, Scripts, ScriptFollows, goroutines, snapshot
    <2>4. CASE Configure
        <3>1. applying => applying' = TRUE
            BY <2>4, Zenon DEF Configure, Scripts
        <3>2. applying' => proxyOn
            BY <2>4, Zenon DEF Configure, Scripts
        <3>3. UNCHANGED <<proxyOn, inUse, script, told, untold, goroutines, snapshot>>
            BY <2>4, Zenon DEF Configure
        <3> QED BY <2>2, <3>1, <3>2, <3>3, Zenon DEF Scripts, ScriptFollows, goroutines, snapshot
    <2>5. CASE Register
        <3>1. CASE wanted
            BY <2>2, <2>5, <3>1, Zenon DEF Register, Scripts, ScriptFollows, goroutines, snapshot
        <3>2. CASE ~wanted
            BY <2>2, <2>5, <3>2, Zenon DEF Register, Scripts, ScriptFollows, goroutines, snapshot
        <3> QED BY <3>1, <3>2
    <2>6. CASE FetchScript
        BY <2>2, <2>6, Zenon DEF FetchScript, Scripts, ScriptFollows, goroutines, snapshot, registration
    <2> QED BY <1>1, <2>3, <2>4, <2>5, <2>6
<1>2. CASE Restart
    <2>1. Holds'
        BY <1>2, SMT DEF Restart, Holds, Labels, Known
    <2> QED BY <1>2, <2>1, SMT DEF Restart, Scripts, SavesInOrder, SummarySaved, NoLostRefresh, ScriptFollows
<1> QED BY <1>1, <1>2

\* The part of refreshStatus under the lock.
LEMMA StoreFlow ==
    ASSUME FlowInv, NEW r \in Refreshers, Store(r)
    PROVE  FlowInv'
<1> USE StatusAssumption DEF FlowInv
<1> DEFINE st == got[r]
           inputs == InputsOf(st)
<1>0. /\ st \in Statuses /\ st # Unknown /\ inputs # NoScript /\ pc[r] = "store" /\ ~toTell[r]
      /\ st.summary \in Summaries /\ st.summary # Unknown
    <2>1. st \in Statuses /\ st # Unknown /\ pc[r] = "store" /\ ~toTell[r]
        BY DEF Store, Holds
    <2>2. inputs # NoScript
        BY <2>1 DEF InputsOf, AllInputs, Known
    <2> QED BY <2>1, <2>2 DEF Summaries
<1>1. Holds'
    <2>1. pc' \in [Refreshers -> Labels] /\ got' \in [Refreshers -> Known] /\ world' \in Statuses
        BY <1>0, SMT DEF Store, Holds, Goto, Labels, Known, node
    <2>2. pacChanged(inputs) \in BOOLEAN
        BY Zenon DEF pacChanged
    <2>3. toTell' \in [Refreshers -> BOOLEAN]
        BY <2>2, Zenon DEF Store, Holds
    <2>4. \A o \in Refreshers : pc'[o] \in {"store", "save"} => got'[o] \in Statuses
        BY <1>0, SMT DEF Store, Holds, Goto
    <2>5. \A o \in Refreshers : o # r => toTell'[o] = toTell[o] /\ pc'[o] = pc[o]
        BY SMT DEF Store, Holds, Goto
    <2>6. pc'[r] \in {"save", "tell"}
        BY SMT DEF Store, Holds, Goto
    <2> QED BY <2>1, <2>3, <2>4, <2>5, <2>6, Zenon DEF Holds
<1>2. Scripts'
    BY <1>0, SMT DEF Store, Scripts, registration, browsers
<1>3. ScriptFollows'
    <2>1. toTell'[r] = pacChanged(inputs) /\ \A o \in Refreshers : o # r => toTell'[o] = toTell[o]
        BY SMT DEF Store, Holds
    <2>2. CASE pacChanged(inputs)
        BY <2>1, <2>2, Zenon DEF ScriptFollows
    <2>3. CASE ~pacChanged(inputs)
        <3>1. lastPAC # NoScript => lastPAC' = lastPAC
            BY <2>3, SMT DEF Store, pacChanged
        <3>2. lastPAC = NoScript => script = NoScript \/ untold
            BY DEF Scripts
        <3>3. UNCHANGED <<applying, script, told, untold>>
            BY DEF Store, browsers, registration
        <3>4. \A o \in Refreshers : toTell[o] => toTell'[o]
            BY <1>0, <2>1, Zenon
        <3> QED BY <3>1, <3>2, <3>3, <3>4, Zenon DEF ScriptFollows
    <2> QED BY <2>2, <2>3
<1>4. lastSummary' = status'.summary /\ status' = st
    BY SMT DEF Store, summaryChanged
<1>5. SavesInOrder'
    <2>1. CASE summaryChanged(st)
        <3>1. ~overtaken' => ~overtaken /\ \A o \in Refreshers : pc[o] # "save"
            BY <2>1, Zenon DEF Store
        <3>2. pc'[r] = "save" /\ \A o \in Refreshers : o # r => pc'[o] = pc[o]
            BY <2>1, SMT DEF Store, Holds, Goto
        <3>3. got' = got
            BY <2>1, SMT DEF Store
        <3> QED BY <1>0, <1>4, <3>1, <3>2, <3>3, Zenon DEF SavesInOrder
    <2>2. CASE ~summaryChanged(st)
        <3>1. ~overtaken' => ~overtaken
            BY Zenon DEF Store
        <3>2. \A o \in Refreshers : pc'[o] = "save" => pc[o] = "save" /\ got'[o] = got[o]
            BY <2>2, SMT DEF Store, Holds, Goto
        <3>3. lastSummary' = lastSummary
            BY <2>2, SMT DEF Store
        <3> QED BY <1>0, <1>4, <3>1, <3>2, <3>3, Zenon DEF SavesInOrder
    <2> QED BY <2>1, <2>2
<1>6. SummarySaved'
    <2>1. CASE summaryChanged(st)
        <3>1. pc'[r] = "save"
            BY <2>1, SMT DEF Store, Holds, Goto
        <3> QED BY <3>1 DEF SummarySaved
    <2>2. CASE ~summaryChanged(st)
        <3>1. ~overtaken' => ~overtaken
            BY Zenon DEF Store
        <3>2. \A o \in Refreshers : pc[o] = "save" => pc'[o] = "save"
            BY <1>0, SMT DEF Store, Holds, Goto
        <3>3. status # Unknown /\ st.summary = status.summary
            BY <2>2, <1>0, SMT DEF summaryChanged, SavesInOrder
        <3>4. summaryFile' = summaryFile
            BY DEF Store
        <3> QED BY <1>4, <3>1, <3>2, <3>3, <3>4, Zenon DEF SummarySaved
    <2> QED BY <2>1, <2>2
<1>7. NoLostRefresh'
    <2>1. pc'[r] \in {"save", "tell"}
        BY SMT DEF Store, Holds, Goto
    <2> QED BY <2>1, Zenon DEF NoLostRefresh
<1> QED BY <1>1, <1>2, <1>3, <1>5, <1>6, <1>7

LEMMA SaveFlow ==
    ASSUME FlowInv, NEW r \in Refreshers, SaveSummary(r)
    PROVE  FlowInv'
<1> USE DEF FlowInv
<1>1. /\ pc' = [pc EXCEPT ![r] = "tell"] /\ pc[r] = "save"
      /\ got' = [got EXCEPT ![r] = Unknown]
      /\ UNCHANGED <<node, toTell, snapshot, browsers, window>>
    BY Zenon DEF SaveSummary, Goto
<1>2. ~overtaken' => (~overtaken \/ SavesAlone(r)) /\ summaryFile' = got[r].summary
    BY Zenon DEF SaveSummary
<1>3. \A o \in Refreshers : (pc'[o] \in {"save", "tell"} <=> pc[o] \in {"save", "tell"})
                             /\ (pc'[o] = "save" <=> pc[o] = "save" /\ o # r)
    BY <1>1, SMT DEF Holds
<1>4. Holds'
    BY <1>1, SMT DEF Holds, Labels, Known, node
<1>5. Scripts' /\ ScriptFollows'
    BY <1>1, Zenon DEF Scripts, ScriptFollows, snapshot, registration, browsers
<1>6. ~overtaken' => /\ got[r].summary = lastSummary
                    /\ \A o \in Refreshers : pc'[o] # "save"
    BY <1>1, <1>2, <1>3, Zenon DEF SavesInOrder, SavesAlone
<1>7. SavesInOrder'
    BY <1>1, <1>6, Zenon DEF SavesInOrder, snapshot
<1>8. SummarySaved'
    <2>1. status # Unknown => lastSummary = status.summary
        BY DEF SavesInOrder
    <2> QED BY <1>1, <1>2, <1>6, <2>1, Zenon DEF SummarySaved, snapshot
<1>9. NoLostRefresh'
    BY <1>1, <1>3, Zenon DEF NoLostRefresh, snapshot, window
<1> QED BY <1>4, <1>5, <1>7, <1>8, <1>9

LEMMA TellFlow ==
    ASSUME FlowInv, NEW r \in Refreshers, Tell(r)
    PROVE  FlowInv'
<1> USE DEF FlowInv
<1>1. /\ pc' = [pc EXCEPT ![r] = Rest(r)] /\ pc[r] = "tell" /\ Rest(r) \in {"next", "idle"}
      /\ toTell' = [toTell EXCEPT ![r] = FALSE] /\ got' = got
      /\ timer' = TRUE
      /\ UNCHANGED <<node, overtaken, snapshot, script, registration, summaryFile>>
    BY SMT DEF Tell, Goto, Rest, scheduleRefresh
<1>2. \A o \in Refreshers : pc'[o] = "save" <=> pc[o] = "save" /\ o # r
    BY <1>1, SMT DEF Holds
<1>3. \A o \in Refreshers : o # r => toTell'[o] = toTell[o] /\ got'[o] = got[o]
    BY <1>1, SMT DEF Holds
<1>4. Holds'
    BY <1>1, SMT DEF Holds, Labels, Known, node
<1>5. /\ told' <=> told \/ (toTell[r] /\ wanted)
      /\ untold' <=> untold \/ (toTell[r] /\ ~wanted /\ inUse /\ ~applying)
    BY Zenon DEF Tell, notify
<1>6. Scripts' /\ ScriptFollows'
    <2>1. Scripts'
        BY <1>1, <1>5, Zenon DEF Scripts, snapshot, registration
    <2>2. ScriptFollows'
        <3> SUFFICES ASSUME script' # NoScript, lastPAC' # NoScript, script' # lastPAC', ~untold'
                     PROVE  told' \/ applying' \/ \E o \in Refreshers : toTell'[o]
            BY DEF ScriptFollows
        <3>1. script # NoScript /\ lastPAC # NoScript /\ script # lastPAC /\ applying' = applying
            BY <1>1 DEF snapshot, registration
        <3>2. ~untold /\ inUse
            BY <1>5, <3>1, Zenon DEF Scripts
        <3>3. CASE told \/ applying
            BY <1>5, <3>1, <3>3
        <3>4. CASE toTell[r]
            BY <1>5, <3>1, <3>2, <3>4, Zenon
        <3>5. CASE \E o \in Refreshers : o # r /\ toTell[o]
            BY <1>3, <3>5, Zenon
        <3> QED BY <3>1, <3>2, <3>3, <3>4, <3>5, Zenon DEF ScriptFollows
    <2> QED BY <2>1, <2>2
<1>7. SavesInOrder' /\ SummarySaved'
    BY <1>1, <1>2, <1>3, Zenon DEF SavesInOrder, SummarySaved, snapshot
<1>8. NoLostRefresh'
    BY <1>1, Zenon DEF NoLostRefresh
<1> QED BY <1>4, <1>6, <1>7, <1>8

LEMMA FlowAlways == Spec => []FlowInv
<1>1. FlowInv /\ [Next]_vars => FlowInv'
    <2> SUFFICES ASSUME FlowInv, [Next]_vars PROVE FlowInv'
        OBVIOUS
    <2>1. CASE UNCHANGED vars
        BY <2>1 DEF vars, node, goroutines, snapshot, registration, browsers, window, FlowInv, Holds, Scripts, SavesInOrder,
                    NoLostRefresh, ScriptFollows, SummarySaved
    <2> QED BY <2>1, OtherFlow, BrowserFlow, StoreFlow, SaveFlow, TellFlow DEF Next, Refresher
<1> QED BY <1>1, InitFlow, PTL DEF Spec

\* If the screen is behind the snapshot, a refresh is on its way: for any
\* number of changes, failures and restarts.
THEOREM NoRefreshLost == Spec => []NoLostRefresh
<1>1. FlowInv => NoLostRefresh
    BY DEF FlowInv
<1> QED BY <1>1, FlowAlways, PTL

\* While WinINet names the script, a browser with an outdated one is told,
\* whatever the options do meanwhile; but for the two cases of untold.
THEOREM BrowsersTold == Spec => []ScriptFollows
<1>1. FlowInv => ScriptFollows
    BY DEF FlowInv
<1> QED BY <1>1, FlowAlways, PTL

\* The last summary is on disk; after a save that failed or overlapped another,
\* from the next summary saved alone.
THEOREM LastSummarySaved == Spec => []SummarySaved
<1>1. FlowInv => SummarySaved
    BY DEF FlowInv
<1> QED BY <1>1, FlowAlways, PTL
-----------------------------------------------------------------------------
(* Types.                                                                  *)

NodeTyped ==
    /\ world \in Statuses /\ changes \in 0 .. MaxChanges /\ events \in 0 .. MaxEvents
    /\ notes \in Seq({"state", "url", "login"})

WorkTyped ==
    /\ pc \in [Refreshers -> Labels] /\ got \in [Refreshers -> Known]
    /\ toTell \in [Refreshers -> BOOLEAN]
    /\ \A r \in Refreshers : pc[r] \in {"store", "save"} => got[r] \in Statuses

SnapTyped ==
    /\ status \in Known
    /\ summaryFile \in Summaries \cup {NoFile} /\ lastSummary \in Summaries \cup {Unknown}
    /\ status # Unknown => lastSummary = status.summary
    /\ lastPAC \in {InputsOf(s) : s \in Statuses} \cup {NoScript}

SeenTyped ==
    /\ shown \in Known /\ script \in {InputsOf(s) : s \in Known} \cup {NoScript}

FlagsTyped ==
    /\ authURL \in BOOLEAN
    /\ proxyOn \in BOOLEAN /\ wanted \in BOOLEAN /\ applying \in BOOLEAN /\ inUse \in BOOLEAN
    /\ told \in BOOLEAN /\ untold \in BOOLEAN /\ overtaken \in BOOLEAN
    /\ timer \in BOOLEAN /\ due \in BOOLEAN

Typed == NodeTyped /\ WorkTyped /\ SnapTyped /\ SeenTyped /\ FlagsTyped

LEMMA TypedIsTypeOK == Typed <=> TypeOK
BY Zenon DEF Typed, NodeTyped, WorkTyped, SnapTyped, SeenTyped, FlagsTyped, TypeOK

LEMMA TypedAtFirst == Init => Typed
<1> SUFFICES ASSUME Init PROVE Typed
    OBVIOUS
<1> USE StatusAssumption
<1>1. NodeTyped /\ WorkTyped
    BY SMT DEF Init, NodeTyped, WorkTyped, Labels, Known
<1>2. SnapTyped /\ SeenTyped
    BY SMT DEF Init, SnapTyped, SeenTyped, Known
<1>3. FlagsTyped
    BY Zenon DEF Init, FlagsTyped
<1> QED BY <1>1, <1>2, <1>3 DEF Typed

\* The flags: every step sets them from flags and comparisons.
LEMMA FlagsStep == FlagsTyped /\ WorkTyped /\ [Next]_vars => FlagsTyped'
<1> SUFFICES ASSUME FlagsTyped, WorkTyped, [Next]_vars PROVE FlagsTyped'
    OBVIOUS
<1> USE DEF FlagsTyped
<1>0. ASSUME NEW p, NEW q PROVE (p \/ q) \in BOOLEAN /\ (p /\ q) \in BOOLEAN
    BY Zenon
<1>1. CASE Change \/ Watch \/ BusFails \/ Tick \/ (\E r \in Refreshers : Fetch(r)) \/ UNCHANGED vars
    <2>1. UNCHANGED <<overtaken, snapshot, browsers, window>>
        BY <1>1, Zenon DEF Change, Watch, BusFails, Tick, Fetch, vars, goroutines
    <2> QED BY <2>1, Zenon DEF snapshot, registration, browsers, window
<1>2. CASE NextNote
    <2>1. authURL' \in BOOLEAN
        <3>1. authURL' = TRUE \/ authURL' = FALSE \/ authURL' = authURL
            BY <1>2, SMT DEF NextNote
        <3> QED BY <3>1, Zenon
    <2> QED BY <1>2, <2>1, Zenon DEF NextNote, registration, browsers, window
<1>3. ASSUME NEW r \in Refreshers, Store(r) PROVE FlagsTyped'
    <2>1. authURL' \in BOOLEAN /\ overtaken' \in BOOLEAN
        BY <1>3, <1>0, Zenon DEF Store, LinkKept
    <2> QED BY <1>3, <2>1, Zenon DEF Store, registration, browsers, window
<1>4. ASSUME NEW r \in Refreshers, SaveSummary(r) PROVE FlagsTyped'
    <2>2. overtaken' \in BOOLEAN
        BY <1>4, <1>0, Zenon DEF SaveSummary
    <2> QED BY <1>4, <2>2, Zenon DEF SaveSummary, snapshot, registration, browsers, window
<1>5. ASSUME NEW r \in Refreshers, Tell(r) PROVE FlagsTyped'
    <2>1. told' \in BOOLEAN /\ untold' \in BOOLEAN /\ timer' \in BOOLEAN
        BY <1>5, <1>0, Zenon DEF Tell, notify, scheduleRefresh
    <2> QED BY <1>5, <2>1, Zenon DEF Tell, snapshot, registration
<1>6. CASE Fire \/ Refresh \/ StartProxy
    BY <1>6, Zenon DEF Fire, Refresh, StartProxy, goroutines, snapshot, registration, browsers, window
<1>7. CASE FetchScript
    BY <1>7, Zenon DEF FetchScript, goroutines, snapshot, registration, window
<1>8. CASE Restart
    <2>1. wanted' \in BOOLEAN
        BY <1>8, StatusAssumption DEF Restart
    <2> QED BY <1>8, <2>1, Zenon DEF Restart
<1>9. CASE Configure
    <2>1. wanted' \in BOOLEAN /\ applying' \in BOOLEAN
        BY <1>9, Zenon DEF Configure
    <2> QED BY <1>9, <2>1, Zenon DEF Configure, goroutines, snapshot, window
<1>10. CASE Register
    BY <1>10, Zenon DEF Register, goroutines, snapshot, window
<1> QED BY <1>1, <1>2, <1>3, <1>4, <1>5, <1>6, <1>7, <1>8, <1>9, <1>10 DEF Next, Refresher

LEMMA NodeStep == NodeTyped /\ [Next]_vars => NodeTyped'
<1> SUFFICES ASSUME NodeTyped, [Next]_vars PROVE NodeTyped'
    OBVIOUS
<1> USE StatusAssumption DEF NodeTyped
<1>1. CASE Change
    <2>1. notes' \in Seq({"state", "url", "login"})
        BY <1>1, SMT DEF Change
    <2> QED BY <1>1, <2>1, SMT DEF Change
<1>2. CASE Watch
    <2>1. notes' \in {<<"state">>, <<"url">>} /\ UNCHANGED <<world, changes, events>>
        BY <1>2, SMT DEF Watch
    <2>2. <<"state">> \in Seq({"state", "url", "login"}) /\ <<"url">> \in Seq({"state", "url", "login"})
        OBVIOUS
    <2> QED BY <2>1, <2>2, Zenon
<1>3. CASE NextNote
    BY <1>3, SMT DEF NextNote
<1>4. CASE BusFails \/ (\E r \in Refreshers : Fetch(r) \/ SaveSummary(r))
    <2>1. events' = events \/ (events < MaxEvents /\ events' = events + 1)
        BY <1>4, Zenon DEF BusFails, Fetch, SaveSummary
    <2>2. UNCHANGED node
        BY <1>4, Zenon DEF BusFails, Fetch, SaveSummary
    <2> QED BY <2>1, <2>2, SMT DEF node
<1>6. CASE Restart
    <2>1. events < MaxEvents /\ events' = events + 1 /\ notes' = <<>> /\ UNCHANGED <<world, changes>>
        BY <1>6, Zenon DEF Restart
    <2> QED BY <2>1, SMT
<1>5. CASE Tick \/ (\E r \in Refreshers : Store(r) \/ Tell(r)) \/ Fire \/ Refresh \/ StartProxy \/ Register \/ FetchScript
           \/ UNCHANGED vars
    <2>1. UNCHANGED <<node, events>>
        BY <1>5, Zenon DEF Tick, Store, Tell, Fire, Refresh, StartProxy, Register, FetchScript, vars
    <2> QED BY <2>1, Zenon DEF node
<1>7. CASE Configure
    <2>1. events < MaxEvents /\ events' = events + 1 /\ UNCHANGED node
        BY <1>7, Zenon DEF Configure
    <2> QED BY <2>1, SMT DEF node
<1> QED BY <1>1, <1>2, <1>3, <1>4, <1>5, <1>6, <1>7 DEF Next, Refresher

LEMMA WorkStep == NodeTyped /\ WorkTyped /\ [Next]_vars => WorkTyped'
<1> SUFFICES ASSUME NodeTyped, WorkTyped, [Next]_vars PROVE WorkTyped'
    OBVIOUS
<1> USE StatusAssumption DEF WorkTyped, NodeTyped, Known, Goto, Refreshers
<1>1. CASE \/ Change \/ Fire \/ Refresh \/ StartProxy \/ Configure \/ Register \/ FetchScript
           \/ UNCHANGED vars
    BY <1>1, Zenon DEF Change, Fire, Refresh, StartProxy, Configure, Register, FetchScript, vars, goroutines
<1>2. CASE Watch \/ BusFails \/ NextNote \/ Tick
    <2>1. PICK r \in Refreshers, l \in {"down", "fetch"} : pc' = [pc EXCEPT ![r] = l]
        BY <1>2, Zenon DEF Watch, BusFails, NextNote, Tick
    <2>2. got' = got /\ toTell' = toTell
        BY <1>2, Zenon DEF Watch, BusFails, NextNote, Tick
    <2> QED BY <2>1, <2>2, SMT DEF Labels
<1>3. ASSUME NEW r \in Refreshers, Fetch(r) PROVE WorkTyped'
    BY <1>3, SMT DEF Fetch, Rest, Labels
<1>4. ASSUME NEW r \in Refreshers, Store(r) PROVE WorkTyped'
    <2>1. pacChanged(InputsOf(got[r])) \in BOOLEAN
        BY Zenon DEF pacChanged
    <2>2. toTell' \in [Refreshers -> BOOLEAN]
        BY <1>4, <2>1, Zenon DEF Store
    <2>3. pc' \in [Refreshers -> Labels] /\ got' \in [Refreshers -> Known]
        BY <1>4, SMT DEF Store, Labels
    <2>4. \A o \in Refreshers : pc'[o] \in {"store", "save"} => got'[o] \in Statuses
        BY <1>4, <2>3, SMT DEF Store
    <2> QED BY <2>2, <2>3, <2>4
<1>5. ASSUME NEW r \in Refreshers, SaveSummary(r) PROVE WorkTyped'
    BY <1>5, SMT DEF SaveSummary, Labels
<1>6. ASSUME NEW r \in Refreshers, Tell(r) PROVE WorkTyped'
    BY <1>6, SMT DEF Tell, Rest, Labels
<1>7. CASE Restart
    BY <1>7, SMT DEF Restart, Labels
<1> QED BY <1>1, <1>2, <1>3, <1>4, <1>5, <1>6, <1>7 DEF Next, Refresher

LEMMA SnapStep == WorkTyped /\ SnapTyped /\ SeenTyped /\ [Next]_vars => SnapTyped' /\ SeenTyped'
<1> SUFFICES ASSUME WorkTyped, SnapTyped, SeenTyped, [Next]_vars PROVE SnapTyped' /\ SeenTyped'
    OBVIOUS
<1> USE StatusAssumption DEF SnapTyped, SeenTyped
<1>1. CASE \/ Change \/ Watch \/ BusFails \/ NextNote \/ Tick \/ Fire \/ StartProxy \/ Configure
           \/ (\E r \in Refreshers : Fetch(r) \/ Tell(r)) \/ UNCHANGED vars
    <2>1. UNCHANGED <<status, lastSummary, lastPAC, summaryFile, script, shown>>
        BY <1>1, Zenon DEF Change, Watch, BusFails, NextNote, Tick, Fire, StartProxy, Configure, Fetch, Tell, vars,
                            snapshot, browsers, window
    <2> QED BY <2>1, Zenon
<1>2. ASSUME NEW r \in Refreshers, Store(r) PROVE SnapTyped' /\ SeenTyped'
    <2>1. got[r] \in Statuses /\ got[r] \in Known /\ got[r].summary \in Summaries
        BY <1>2 DEF Store, WorkTyped, Known, Summaries
    <2>2. status' = got[r] /\ lastSummary' = got[r].summary /\ summaryFile' = summaryFile
        BY <1>2, SMT DEF Store, summaryChanged
    <2>3. lastPAC' = lastPAC \/ lastPAC' = InputsOf(got[r])
        BY <1>2, SMT DEF Store
    <2>4. script' = script /\ shown' = shown
        BY <1>2, Zenon DEF Store, browsers, window
    <2>5. lastPAC' \in {InputsOf(s) : s \in Statuses} \cup {NoScript}
        BY <2>1, <2>3, Zenon
    <2> QED BY <2>1, <2>2, <2>4, <2>5, Zenon
<1>3. ASSUME NEW r \in Refreshers, SaveSummary(r) PROVE SnapTyped' /\ SeenTyped'
    <2>1. got[r].summary \in Summaries
        BY <1>3 DEF SaveSummary, WorkTyped, Summaries
    <2>2. summaryFile' \in {summaryFile, got[r].summary}
        BY <1>3, Zenon DEF SaveSummary
    <2>3. UNCHANGED <<status, lastSummary, lastPAC, script, shown>>
        BY <1>3, Zenon DEF SaveSummary, snapshot, browsers, window
    <2> QED BY <2>1, <2>2, <2>3, Zenon
<1>4. CASE Refresh \/ FetchScript
    <2>1. UNCHANGED <<status, lastSummary, lastPAC, summaryFile>>
        BY <1>4, Zenon DEF Refresh, FetchScript, snapshot
    <2>2. shown' \in {shown, status} /\ script' \in {script, InputsOf(status)}
        BY <1>4, Zenon DEF Refresh, FetchScript, window, browsers
    <2> QED BY <2>1, <2>2, Zenon
<1>5. CASE Restart
    BY <1>5, Zenon DEF Restart, Known
<1>6. CASE Register
    <2>1. UNCHANGED <<status, lastSummary, lastPAC, summaryFile, shown>>
        BY <1>6, Zenon DEF Register, snapshot, window
    <2>2. script' \in {script, NoScript}
        BY <1>6, Zenon DEF Register
    <2> QED BY <2>1, <2>2, Zenon
<1> QED BY <1>1, <1>2, <1>3, <1>4, <1>5, <1>6 DEF Next, Refresher

\* Types of the node, the goroutines, the snapshot and the browsers: in
\* particular a goroutine that stores or saves has an answer of the
\* node, and the last summary is that of the snapshot.
THEOREM TypesAlways == Spec => []TypeOK
<1>1. Typed /\ [Next]_vars => Typed'
    BY FlagsStep, NodeStep, WorkStep, SnapStep DEF Typed
<1> QED BY <1>1, TypedAtFirst, TypedIsTypeOK, PTL DEF Spec
-----------------------------------------------------------------------------
(* Powers of two and bits.                                                 *)

USE PacAssumption

\* A set of numbers that is not empty has a least member.
LEMMA LeastOf ==
    ASSUME NEW S \in SUBSET Nat, S # {}
    PROVE  \E n \in S : \A m \in S : n <= m
<1>1. PICK n \in S : \A m \in S : ~ (<<m, n>> \in OpToRel(<, Nat))
    BY NatLessThanWellFounded, WFMin, Zenon
<1>2. \A m \in S : ~ (m < n)
    BY <1>1 DEF OpToRel
<1> QED BY <1>2

\* Power2 is what its equation says: with the powers up to n there are those
\* up to n + 1.
LEMMA Powers ==
    /\ Power2 \in [0 .. Width -> Nat] /\ Power2[0] = 1
    /\ \A k \in 1 .. Width : Power2[k] = 2 * Power2[k - 1]
    /\ \A k \in 0 .. Width : Power2[k] > 0
<1> DEFINE Doubles(f, n) == f[0] = 1 /\ \A k \in 1 .. n : f[k] = 2 * f[k - 1]
           Bad == {n \in 0 .. Width : ~ \E f \in [0 .. n -> Nat] : Doubles(f, n)}
<1>0. Width \in Nat
    OBVIOUS
<1>1. Bad = {}
    <2> SUFFICES ASSUME Bad # {} PROVE FALSE
        OBVIOUS
    <2>0. Bad \in SUBSET Nat
        BY <1>0
    <2>1. PICK n \in Bad : \A m \in Bad : n <= m
        <3> HIDE DEF Bad
        <3> QED BY <2>0, LeastOf
    <2>2. CASE n = 0
        <3>1. [k \in 0 .. 0 |-> 1] \in [0 .. 0 -> Nat] /\ Doubles([k \in 0 .. 0 |-> 1], 0)
            OBVIOUS
        <3> QED BY <2>1, <2>2, <3>1
    <2>3. CASE n # 0
        <3>0. n \in 0 .. Width
            BY <2>1
        <3>1. n \in 1 .. Width /\ n - 1 \in 0 .. Width /\ n - 1 \notin Bad
            <4>1. n \in 1 .. Width /\ n - 1 \in 0 .. Width /\ ~ (n <= n - 1)
                BY <1>0, <2>3, <3>0
            <4> HIDE DEF Bad
            <4> QED BY <2>1, <4>1
        <3>2. PICK f \in [0 .. n - 1 -> Nat] : Doubles(f, n - 1)
            BY <3>1
        <3> DEFINE g == [k \in 0 .. n |-> IF k = n THEN 2 * f[n - 1] ELSE f[k]]
        <3>3. g \in [0 .. n -> Nat]
            BY <1>0, <3>1, <3>2
        <3>4. Doubles(g, n)
            <4>1. g[0] = 1
                BY <3>1, <3>2
            <4>2. ASSUME NEW k \in 1 .. n PROVE g[k] = 2 * g[k - 1]
                <5>1. k \in 0 .. n /\ k - 1 \in 0 .. n /\ k - 1 # n /\ n \in Nat
                    BY <1>0, <3>1
                <5>2. g[k - 1] = f[k - 1]
                    BY <5>1
                <5>3. g[k] = IF k = n THEN 2 * f[n - 1] ELSE f[k]
                    BY <5>1
                <5>4. CASE k = n
                    BY <5>2, <5>3, <5>4
                <5>5. CASE k # n
                    <6>1. k \in 1 .. n - 1
                        BY <5>1, <5>5
                    <6> QED BY <3>2, <5>2, <5>3, <5>5, <6>1
                <5> QED BY <5>4, <5>5
            <4> QED BY <4>1, <4>2
        <3> QED BY <2>1, <3>3, <3>4
    <2> QED BY <2>2, <2>3
<1>2. PICK f \in [0 .. Width -> Nat] : Doubles(f, Width)
    <2>1. Width \in 0 .. Width /\ Width \notin Bad
        <3> HIDE DEF Bad
        <3> QED BY <1>0, <1>1
    <2> HIDE DEF Doubles
    <2> QED BY <2>1
<1>3. f = [n \in 0 .. Width |-> IF n = 0 THEN 1 ELSE 2 * f[n - 1]]
    BY <1>0, <1>2
<1>4. Power2 = [n \in 0 .. Width |-> IF n = 0 THEN 1 ELSE 2 * Power2[n - 1]]
    BY <1>3 DEF Power2
<1>5. Doubles(Power2, Width)
    <2>1. \A n \in 0 .. Width : Power2[n] = IF n = 0 THEN 1 ELSE 2 * Power2[n - 1]
        BY <1>4, Zenon
    <2>2. \A k \in 1 .. Width : k \in 0 .. Width /\ k # 0
        BY <1>0
    <2>3. 0 \in 0 .. Width
        BY <1>0
    <2> QED BY <2>1, <2>2, <2>3, Zenon
<1> DEFINE Off == {k \in 0 .. Width : ~ (Power2[k] \in Nat /\ Power2[k] > 0)}
<1>6. Off = {}
    <2> SUFFICES ASSUME Off # {} PROVE FALSE
        OBVIOUS
    <2>0. Off \in SUBSET Nat
        BY <1>0
    <2>1. PICK n \in Off : \A m \in Off : n <= m
        <3> HIDE DEF Off
        <3> QED BY <2>0, LeastOf
    <2>2. n # 0 /\ n \in 0 .. Width
        BY <1>5, <2>1
    <2>3. n \in 1 .. Width /\ n - 1 \in 0 .. Width /\ ~ (n <= n - 1)
        BY <1>0, <2>2
    <2>4. n - 1 \notin Off
        <3> HIDE DEF Off
        <3> QED BY <2>1, <2>3
    <2>5. Power2[n - 1] \in Nat /\ Power2[n - 1] > 0 /\ Power2[n] = 2 * Power2[n - 1]
        BY <1>5, <2>3, <2>4
    <2> QED BY <2>1, <2>5
<1> QED BY <1>4, <1>5, <1>6

LEMMA PowersAdd ==
    ASSUME NEW j \in 0 .. Width, NEW k \in 0 .. Width, j + k <= Width
    PROVE  Power2[j + k] = Power2[j] * Power2[k]
<1> DEFINE Bad == {n \in 0 .. k : Power2[j + n] # Power2[j] * Power2[n]}
<1>0. Width \in Nat /\ j \in Nat /\ k \in Nat
    OBVIOUS
<1> SUFFICES ASSUME Bad # {} PROVE FALSE
    <2>1. k \in 0 .. k
        BY <1>0
    <2> QED BY <2>1, Zenon
<1>1. Bad \in SUBSET Nat
    BY <1>0
<1>2. PICK n \in Bad : \A m \in Bad : n <= m
    <2> HIDE DEF Bad
    <2> QED BY <1>1, LeastOf
<1>3. n \in 0 .. k /\ n \in Nat
    BY <1>0, <1>2
<1>4. n # 0
    <2>1. Power2[j] \in Nat /\ Power2[0] = 1 /\ j + 0 = j
        BY <1>0, Powers
    <2>2. Power2[j] * 1 = Power2[j]
        BY <2>1
    <2> QED BY <1>2, <2>1, <2>2
<1>5. n - 1 \in 0 .. k /\ ~ (n <= n - 1) /\ n - 1 \notin Bad
    <2>1. n - 1 \in 0 .. k /\ ~ (n <= n - 1)
        BY <1>0, <1>3, <1>4
    <2> HIDE DEF Bad
    <2> QED BY <1>2, <2>1
<1>6. Power2[j + (n - 1)] = Power2[j] * Power2[n - 1]
    BY <1>5
<1>7. j + n \in 1 .. Width /\ j + n - 1 = j + (n - 1) /\ n \in 1 .. Width /\ n - 1 \in 0 .. Width
    BY <1>0, <1>3, <1>4
<1>8. Power2[j + n] = 2 * Power2[j + (n - 1)] /\ Power2[n] = 2 * Power2[n - 1]
    BY <1>7, Powers
<1>9. Power2[j] \in Nat /\ Power2[n - 1] \in Nat
    BY <1>7, Powers
<1>10. Power2[j + n] = Power2[j] * Power2[n]
    <2>1. \A p, q \in Nat : 2 * (p * q) = p * (2 * q)
        OBVIOUS
    <2> QED BY <1>6, <1>8, <1>9, <2>1
<1> QED BY <1>2, <1>10

LEMMA Halves ==
    ASSUME NEW x \in Nat, NEW i \in 1 .. Width
    PROVE  /\ x \div Power2[i - 1] \in Nat /\ x \div Power2[i] \in Nat
           /\ x \div Power2[i] = (x \div Power2[i - 1]) \div 2
           /\ x \div Power2[i - 1] = 2 * (x \div Power2[i]) + Bit(x, i - 1)
<1> DEFINE d == Power2[i - 1]
<1>1. i - 1 \in 0 .. Width
    OBVIOUS
<1>2. d \in Nat /\ d > 0 /\ Power2[i] = 2 * d
    BY <1>1, Powers
<1> HIDE DEF d
<1>3. x \div (2 * d) = (x \div d) \div 2 /\ x \div d \in Nat /\ x \div (2 * d) \in Nat
    BY <1>2
<1>4. x \div d = 2 * ((x \div d) \div 2) + ((x \div d) % 2)
    BY <1>3
<1> QED BY <1>2, <1>3, <1>4 DEF Bit, d

\* What agrees from bit n on agrees from any later bit on.
LEMMA Coarser ==
    ASSUME NEW a \in Nat, NEW c \in Nat, NEW n \in 0 .. Width, NEW m \in n .. Width,
           a \div Power2[n] = c \div Power2[n]
    PROVE  a \div Power2[m] = c \div Power2[m]
<1> DEFINE Bad == {i \in n .. Width : a \div Power2[i] # c \div Power2[i]}
<1>0. Width \in Nat /\ n \in Nat
    OBVIOUS
<1> SUFFICES ASSUME Bad # {} PROVE FALSE
    BY Zenon
<1>1. Bad \in SUBSET Nat
    BY <1>0
<1>2. PICK i \in Bad : \A j \in Bad : i <= j
    <2> HIDE DEF Bad
    <2> QED BY <1>1, LeastOf
<1>3. i \in n .. Width /\ i # n
    BY <1>2
<1>4. i - 1 \in n .. Width /\ i \in 1 .. Width /\ ~ (i <= i - 1)
    BY <1>0, <1>3
<1>5. i - 1 \notin Bad
    <2> HIDE DEF Bad
    <2> QED BY <1>2, <1>4
<1>6. a \div Power2[i - 1] = c \div Power2[i - 1]
    BY <1>4, <1>5
<1> QED BY <1>2, <1>4, <1>6, Halves

\* Two addresses agree in all bits from n on if and only if they are equal
\* without the bits before n.
LEMMA BitsAgree ==
    ASSUME NEW a \in Addresses, NEW c \in Addresses, NEW n \in 0 .. Width
    PROVE  (\A i \in n .. Width - 1 : Bit(a, i) = Bit(c, i)) <=> a \div Power2[n] = c \div Power2[n]
<1>0. Width \in Nat /\ n \in Nat /\ Width \in 0 .. Width
    OBVIOUS
<1>1. Power2[Width] \in Nat /\ Power2[Width] > 0
    BY <1>0, Powers
<1>2. a \in Nat /\ c \in Nat /\ a < Power2[Width] /\ c < Power2[Width]
    BY <1>1 DEF Addresses
<1>3. ASSUME \A i \in n .. Width - 1 : Bit(a, i) = Bit(c, i)
      PROVE  a \div Power2[n] = c \div Power2[n]
    <2> DEFINE Bad == {k \in 0 .. Width - n : a \div Power2[Width - k] # c \div Power2[Width - k]}
    <2>1. CASE Bad = {}
        <3>1. Width - n \in 0 .. Width - n /\ Width - (Width - n) = n
            BY <1>0
        <3> QED BY <2>1, <3>1
    <2>2. ASSUME Bad # {} PROVE FALSE
        <3>1. Bad \in SUBSET Nat
            BY <1>0
        <3>2. PICK k \in Bad : \A j \in Bad : k <= j
            <4> HIDE DEF Bad
            <4> QED BY <2>2, <3>1, LeastOf
        <3>3. k \in 0 .. Width - n
            BY <3>2
        <3>4. k # 0
            <4>1. a \div Power2[Width] = 0 /\ c \div Power2[Width] = 0 /\ Width - 0 = Width
                BY <1>0, <1>1, <1>2
            <4> QED BY <3>2, <4>1
        <3>5. k - 1 \in 0 .. Width - n /\ ~ (k <= k - 1)
            BY <1>0, <3>3, <3>4
        <3>6. k - 1 \notin Bad
            <4> HIDE DEF Bad
            <4> QED BY <3>2, <3>5
        <3> DEFINE i == Width - (k - 1)
        <3>7. i \in 1 .. Width /\ i - 1 = Width - k /\ i - 1 \in n .. Width - 1
            BY <1>0, <3>3, <3>4
        <3>8. a \div Power2[i] = c \div Power2[i]
            BY <3>5, <3>6
        <3>9. Bit(a, i - 1) = Bit(c, i - 1)
            BY <1>3, <3>7
        <3> HIDE DEF i
        <3>10. a \div Power2[i - 1] = c \div Power2[i - 1]
            <4>1. a \div Power2[i - 1] = 2 * (a \div Power2[i]) + Bit(a, i - 1)
                BY <1>2, <3>7, Halves
            <4>2. c \div Power2[i - 1] = 2 * (c \div Power2[i]) + Bit(c, i - 1)
                BY <1>2, <3>7, Halves
            <4> QED BY <3>8, <3>9, <4>1, <4>2, Zenon
        <3> QED BY <3>2, <3>7, <3>10
    <2> QED BY <2>1, <2>2
<1>4. ASSUME a \div Power2[n] = c \div Power2[n], NEW i \in n .. Width - 1
      PROVE  Bit(a, i) = Bit(c, i)
    <2>1. i \in n .. Width
        BY <1>0
    <2>2. a \div Power2[i] = c \div Power2[i]
        BY <1>2, <1>4, <2>1, Coarser
    <2> QED BY <2>2 DEF Bit
<1> QED BY <1>3, <1>4

\* The mask of b bits has the last b bits of an address, and no others.
LEMMA MaskBits ==
    ASSUME NEW b \in 1 .. Width, NEW i \in 0 .. Width - 1
    PROVE  Bit(v4Mask(b), i) = IF i >= Width - b THEN 1 ELSE 0
<1> DEFINE n == Width - b
           W == Power2[Width]
           N == Power2[n]
           I == Power2[i]
           R == Power2[Width - i]
<1>0. /\ Width \in Nat /\ b \in Nat /\ i \in Nat /\ n \in 0 .. Width - 1 /\ n \in 0 .. Width
      /\ i \in 0 .. Width /\ Width - i \in 1 .. Width /\ b \in 0 .. Width /\ Width - i \in 0 .. Width
    OBVIOUS
<1>1. /\ W \in Nat /\ N \in Nat /\ I \in Nat /\ R \in Nat /\ Power2[b] \in Nat
      /\ N > 0 /\ I > 0 /\ R > 0 /\ Power2[b] > 0 /\ W > 0
    BY <1>0, Powers
<1>2. W = Power2[b] * N
    <2>1. b + n = Width
        BY <1>0
    <2> QED BY <1>0, <2>1, PowersAdd
<1>3. W = I * R
    <2>1. i + (Width - i) = Width
        BY <1>0
    <2> QED BY <1>0, <2>1, PowersAdd
<1>4. PICK r \in Nat : R = 2 * r
    <2>1. R = 2 * Power2[Width - i - 1] /\ Width - i - 1 \in 0 .. Width
        BY <1>0, Powers
    <2>2. Power2[Width - i - 1] \in Nat
        BY <2>1, Powers
    <2> QED BY <2>1, <2>2
<1>5. v4Mask(b) = W - N
    <2>1. b # 0 /\ v4Mask(b) = ((W - 1) * N) % W
        BY <1>0 DEF v4Mask
    <2> HIDE DEF W, N, n
    <2>2. N <= W
        BY <1>1, <1>2
    <2>3. (W - 1) * N = W * (N - 1) + (W - N)
        BY <1>1
    <2>4. N - 1 \in Nat /\ W - N \in 0 .. W - 1
        BY <1>1, <2>2
    <2>5. \A q, x \in Nat : x < W => (W * q + x) % W = x
        BY <1>1
    <2>6. W - N < W
        BY <1>1
    <2>7. (W * (N - 1) + (W - N)) % W = W - N
        BY <2>4, <2>5, <2>6
    <2> QED BY <2>1, <2>3, <2>7
<1>6. CASE i >= n
    <2> DEFINE D == Power2[i - n]
    <2>1. D \in Nat /\ D > 0 /\ I = N * D
        <3>1. i - n \in 0 .. Width /\ n + (i - n) = i
            BY <1>0, <1>6
        <3>2. Power2[n + (i - n)] = Power2[n] * Power2[i - n]
            <4> HIDE DEF n
            <4> QED BY <1>0, <3>1, PowersAdd
        <3> QED BY <3>1, <3>2, Powers
    <2> HIDE DEF D, W, N, I, R, n
    <2>2. N <= I
        BY <1>1, <2>1
    <2>3. W - N = I * (R - 1) + (I - N) /\ I - N \in 0 .. I - 1 /\ R - 1 \in Nat
        BY <1>1, <1>3, <2>2
    <2>4. \A q, x \in Nat : x < I => (I * q + x) \div I = q
        BY <1>1
    <2>5. (W - N) \div I = R - 1
        BY <1>1, <2>3, <2>4
    <2>6. (R - 1) % 2 = 1
        BY <1>1, <1>4
    <2> QED BY <1>5, <1>6, <2>5, <2>6 DEF Bit, I, n
<1>7. CASE ~ (i >= n)
    <2> DEFINE D == Power2[n - i]
    <2>1. n - i \in 1 .. Width /\ n - i \in 0 .. Width /\ n - i - 1 \in 0 .. Width /\ i + (n - i) = n
        BY <1>0, <1>7
    <2>2. D \in Nat /\ D > 0 /\ N = I * D
        <3>1. Power2[i + (n - i)] = Power2[i] * Power2[n - i]
            <4> HIDE DEF n
            <4> QED BY <1>0, <2>1, PowersAdd
        <3> QED BY <2>1, <3>1, Powers
    <2>3. PICK h \in Nat : D = 2 * h
        <3>1. D = 2 * Power2[n - i - 1] /\ Power2[n - i - 1] \in Nat
            BY <2>1, Powers
        <3> QED BY <3>1
    <2> HIDE DEF D, W, N, I, R, n
    <2>4. N <= W
        BY <1>1, <1>2
    <2>5. D <= R
        BY <1>1, <1>3, <2>2, <2>4
    <2>6. W - N = I * (R - D) /\ R - D \in Nat
        BY <1>1, <1>3, <2>2, <2>5
    <2>7. \A q \in Nat : (I * q) \div I = q
        BY <1>1
    <2>8. (W - N) \div I = R - D
        BY <2>6, <2>7
    <2>9. (R - D) % 2 = 0
        BY <1>4, <2>3, <2>5
    <2> QED BY <1>5, <1>7, <2>8, <2>9 DEF Bit, I, n
<1> QED BY <1>6, <1>7

\* A rule of the script is about the addresses of its prefix.
LEMMA RuleIsPrefix ==
    ASSUME NEW p \in Prefixes, NEW a \in Addresses
    PROVE  isInNet(a, p.addr, v4Mask(p.bits)) <=> In(a, p)
<1> DEFINE n == Width - p.bits
<1>0. Width \in Nat /\ p.addr \in Addresses /\ p.bits \in 0 .. Width /\ n \in 0 .. Width
    BY DEF Prefixes
<1>1. isInNet(a, p.addr, v4Mask(p.bits)) <=> \A i \in n .. Width - 1 : Bit(a, i) = Bit(p.addr, i)
    <2>1. CASE p.bits = 0
        <3>1. n = Width /\ v4Mask(p.bits) = 0
            BY <1>0, <2>1 DEF v4Mask
        <3>2. \A i \in 0 .. Width - 1 : Bit(0, i) = 0
            <4> SUFFICES ASSUME NEW i \in 0 .. Width - 1 PROVE Bit(0, i) = 0
                OBVIOUS
            <4>1. Power2[i] \in Nat /\ Power2[i] > 0
                BY <1>0, Powers
            <4> QED BY <4>1 DEF Bit
        <3>3. n .. Width - 1 = {}
            BY <1>0, <3>1
        <3> QED BY <3>1, <3>2, <3>3 DEF isInNet
    <2>2. CASE p.bits # 0
        <3>1. p.bits \in 1 .. Width
            BY <1>0, <2>2
        <3>2. \A i \in 0 .. Width - 1 : Bit(v4Mask(p.bits), i) = 1 <=> i \in n .. Width - 1
            <4> SUFFICES ASSUME NEW i \in 0 .. Width - 1
                         PROVE  Bit(v4Mask(p.bits), i) = 1 <=> i \in n .. Width - 1
                OBVIOUS
            <4>1. Bit(v4Mask(p.bits), i) = IF i >= n THEN 1 ELSE 0
                BY <3>1, MaskBits
            <4>2. i >= n <=> i \in n .. Width - 1
                BY <1>0
            <4> QED BY <4>1, <4>2
        <3>3. n .. Width - 1 \subseteq 0 .. Width - 1
            BY <1>0
        <3> QED BY <3>2, <3>3, Zenon DEF isInNet
    <2> QED BY <2>1, <2>2
<1>2. (\A i \in n .. Width - 1 : Bit(a, i) = Bit(p.addr, i))
        <=> a \div Power2[n] = p.addr \div Power2[n]
    <2> HIDE DEF n
    <2> QED BY <1>0, BitsAgree
<1> QED BY <1>1, <1>2 DEF In

\* A prefix without its host bits is a prefix of the same addresses.
LEMMA MaskedIsPrefix ==
    ASSUME NEW p \in Prefixes
    PROVE  /\ Prefix(Masked(p), p.bits) \in Prefixes
           /\ \A a \in Addresses : In(a, Prefix(Masked(p), p.bits)) <=> In(a, p)
<1> DEFINE d == Power2[Width - p.bits]
<1>0. Width \in Nat /\ p.addr \in Addresses /\ p.bits \in 0 .. Width /\ Width - p.bits \in 0 .. Width
    BY DEF Prefixes
<1>1. d \in Nat /\ d > 0
    BY <1>0, Powers
<1>2. Power2[Width] \in Nat
    BY <1>0, Powers
<1>3. p.addr \in Nat /\ p.addr < Power2[Width]
    BY <1>0, <1>2 DEF Addresses
<1>4. Masked(p) = p.addr - (p.addr % d)
    BY DEF Masked
<1> HIDE DEF d
<1>5. \A x \in Nat : x - (x % d) \in 0 .. x /\ (x - (x % d)) \div d = x \div d
    BY <1>1
<1>6. Masked(p) \in Addresses /\ Masked(p) \div d = p.addr \div d
    BY <1>2, <1>3, <1>4, <1>5 DEF Addresses
<1>7. Prefix(Masked(p), p.bits) \in Prefixes
    BY <1>0, <1>6 DEF Prefix, Prefixes
<1> QED BY <1>6, <1>7 DEF In, Prefix, d

\* A masked route fits, if the last bit of the tailnet's range is set.
LEMMA MaskedFits ==
    ASSUME NEW p \in Prefixes, Masked(p) = p.addr, TailscaleNet.bits # 0,
           Bit(TailscaleNet.addr, Width - TailscaleNet.bits) = 1
    PROVE  Fits(p)
<1> DEFINE m == Width - TailscaleNet.bits
           n == Width - p.bits
           d == Power2[n]
           e == Power2[m]
<1> SUFFICES ASSUME In(p.addr, TailscaleNet), p.bits < TailscaleNet.bits PROVE FALSE
    BY PacAssumption DEF Fits, Prefixes
<1>0. /\ Width \in Nat /\ p.addr \in Nat /\ p.bits \in 0 .. Width /\ TailscaleNet.bits \in 1 .. Width
      /\ m \in 0 .. Width /\ n \in 0 .. Width /\ n - m \in 1 .. Width /\ n - m \in 0 .. Width
      /\ n - m - 1 \in 0 .. Width /\ m + (n - m) = n
    BY PacAssumption DEF Prefixes, Addresses
<1>1. d \in Nat /\ d > 0 /\ e \in Nat /\ e > 0
    BY <1>0, Powers
<1>2. Bit(p.addr, m) = 1
    BY DEF In, Bit
<1>3. PICK h \in Nat : d = e * (2 * h)
    <2>1. Power2[m + (n - m)] = Power2[m] * Power2[n - m]
        <3> HIDE DEF m, n
        <3> QED BY <1>0, PowersAdd
    <2>2. Power2[n - m] = 2 * Power2[n - m - 1] /\ Power2[n - m - 1] \in Nat
        <3> HIDE DEF m, n
        <3> QED BY <1>0, Powers
    <2> QED BY <1>0, <2>1, <2>2
<1>4. p.addr % d = 0
    <2>1. p.addr - (p.addr % d) = p.addr
        BY DEF Masked
    <2>2. p.addr % d \in Nat
        BY <1>0, <1>1
    <2> QED BY <1>0, <2>1, <2>2
<1> HIDE DEF d, e, m, n
<1>5. PICK q \in Nat : p.addr = d * q
    <2>1. \A x \in Nat : x = d * (x \div d) + (x % d) /\ x \div d \in Nat
        BY <1>1
    <2>2. p.addr = d * (p.addr \div d) + 0 /\ p.addr \div d \in Nat
        BY <1>0, <1>4, <2>1
    <2>3. \A y \in Nat : d * y + 0 = d * y
        BY <1>1
    <2> QED BY <2>2, <2>3
<1>6. p.addr = e * (2 * (h * q)) /\ h * q \in Nat
    BY <1>1, <1>3, <1>5
<1>7. \A x \in Nat : ((e * (2 * x)) \div e) % 2 = 0
    <2>1. \A y \in Nat : (e * y) \div e = y
        BY <1>1
    <2>2. \A x \in Nat : 2 * x \in Nat /\ (2 * x) % 2 = 0
        OBVIOUS
    <2> QED BY <2>1, <2>2
<1>8. Bit(p.addr, m) = 0
    BY <1>6, <1>7 DEF Bit, e
<1> QED BY <1>2, <1>8

\* The script decides as it should, for every host, and any routes that fit.
THEOREM ScriptDecides ==
    ASSUME NEW st, st.routes \subseteq Prefixes, \A p \in st.routes : Fits(p),
           NEW allTraffic \in BOOLEAN, NEW domains, NEW h \in Hosts(domains)
    PROVE  Decide(pacInputs(st, allTraffic), h) <=> Goes(st, allTraffic, h)
<1> DEFINE in == pacInputs(st, allTraffic)
           TN == TailscaleNet
<1>1. /\ in.all <=> allTraffic \/ st.exit
      /\ in.suffix = st.suffix
      /\ in.routes = {Prefix(Masked(p), p.bits) : p \in {q \in st.routes : Useful(q)}}
    BY Zenon DEF pacInputs
<1>2. h.kind = "v4" => h.addr \in Addresses
    BY DEF Hosts
<1>3. ASSUME h.kind = "v4"
      PROVE  (\/ isInNet(h.addr, TN.addr, v4Mask(TN.bits))
              \/ \E p \in in.routes : isInNet(h.addr, p.addr, v4Mask(p.bits)))
             <=> \E p \in {q \in st.routes : q.bits # 0} \cup {TN} : In(h.addr, p)
    <2> DEFINE a == h.addr
    <2>1. a \in Addresses /\ TN \in Prefixes
        BY <1>2, <1>3, PacAssumption
    <2>2. isInNet(a, TN.addr, v4Mask(TN.bits)) <=> In(a, TN)
        BY <2>1, RuleIsPrefix
    <2>3. (\E p \in in.routes : isInNet(a, p.addr, v4Mask(p.bits)))
              <=> \E q \in st.routes : Useful(q) /\ In(a, q)
        <3>1. ASSUME NEW q \in st.routes
              PROVE  isInNet(a, Prefix(Masked(q), q.bits).addr, v4Mask(Prefix(Masked(q), q.bits).bits)) <=> In(a, q)
            <4>1. q \in Prefixes
                OBVIOUS
            <4>2. /\ Prefix(Masked(q), q.bits) \in Prefixes
                  /\ In(a, Prefix(Masked(q), q.bits)) <=> In(a, q)
                BY <2>1, <4>1, MaskedIsPrefix
            <4> HIDE DEF a
            <4> QED BY <2>1, <4>2, RuleIsPrefix
        <3> HIDE DEF a, in
        <3> QED BY <1>1, <3>1, Zenon
    <2>4. ASSUME NEW q \in st.routes, q.bits # 0, ~ Useful(q), In(a, q) PROVE In(a, TN)
        <3>1. In(q.addr, TN) /\ q.bits >= TN.bits
            BY <2>4 DEF Useful, Fits
        <3>2. /\ Width \in Nat /\ q.bits \in 0 .. Width /\ TN.bits \in 0 .. Width
              /\ a \in Addresses /\ q.addr \in Addresses
            BY <2>1 DEF Prefixes
        <3>3. Power2[Width] \in Nat
            BY <3>2, Powers
        <3>4. a \in Nat /\ q.addr \in Nat /\ Width - q.bits \in 0 .. Width
              /\ Width - TN.bits \in Width - q.bits .. Width
            BY <3>1, <3>2, <3>3 DEF Addresses
        <3>5. a \div Power2[Width - q.bits] = q.addr \div Power2[Width - q.bits]
            BY <2>4 DEF In
        <3> HIDE DEF a, TN
        <3>6. a \div Power2[Width - TN.bits] = q.addr \div Power2[Width - TN.bits]
            BY <3>4, <3>5, Coarser
        <3> QED BY <3>1, <3>6 DEF In
    <2>5. \A q \in st.routes : Useful(q) => q.bits # 0
        BY DEF Useful
    <2> HIDE DEF in, TN
    <2> QED BY <2>2, <2>3, <2>4, <2>5, Zenon
<1> HIDE DEF in
<1> QED BY <1>1, <1>3, Zenon DEF Decide, Goes, in, TN

LEMMA RoutedWhen == TypeOK => Routed
<1> SUFFICES ASSUME TypeOK, status # Unknown, script = InputsOf(status),
                    NEW h \in Hosts({status.suffix, "elsewhere"})
             PROVE  Decide(script, h) = Goes(status, AllTraffic, h)
    BY Zenon DEF Routed, Decided, TypeOK, Known
<1>1. status \in Statuses
    BY DEF TypeOK, Known
<1>2. status.routes \subseteq Prefixes /\ (\A p \in status.routes : Fits(p)) /\ AllTraffic \in BOOLEAN
    BY <1>1, RoutesAssumption, StatusAssumption
<1>3. script = pacInputs(status, AllTraffic)
    BY <1>1, Zenon DEF InputsOf, AllInputs, Known
<1>4. Decide(script, h) <=> Goes(status, AllTraffic, h)
    BY <1>2, <1>3, ScriptDecides
<1>5. Decide(script, h) \in BOOLEAN /\ Goes(status, AllTraffic, h) \in BOOLEAN
    BY Zenon DEF Decide, Goes
<1> QED BY <1>4, <1>5, Zenon

\* A browser with the script of the last snapshot sends through the proxy
\* exactly what it should, for addresses of any width and routes of any
\* length: masking a prefix, shifting a mask in a word and comparing under it
\* bit by bit is membership in the prefix, and the routes left out change
\* nothing.
THEOREM RoutedAlways == Spec => []Routed
<1> QED BY TypesAlways, RoutedWhen, PTL
=============================================================================
