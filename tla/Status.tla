------------------------------- MODULE Status -------------------------------
(***************************************************************************)
(* From tsnet to what the user and the browsers see.  watchIPNBus and      *)
(* pollStatus both run refreshStatus: fetch, store under the lock, save    *)
(* the summary, tell WinINet if the PAC inputs changed, schedule a UI      *)
(* refresh.  Only the store holds the lock, so the two may overtake each   *)
(* other between any two steps.                                            *)
(***************************************************************************)
EXTENDS Pac, Sequences

CONSTANTS
    Bus, Poll,      \* the two goroutines
    NoFile,         \* no last-status.json
    Statuses,       \* snapshots: state, summary, exit, suffix, routes
    Unknown,        \* nil, before the first snapshot
    AllTraffic,     \* Config.PACAllTraffic
    NoScript,       \* no browser has fetched the script
    Configs,        \* what a profile's config may say of wanted, below
    MaxChanges,     \* bound: changes of the node's state
    MaxEvents       \* bound: crashes, options changed, and status calls, bus
                    \* connections and saves that fail

Refreshers == {Bus, Poll}
Summaries == {s.summary : s \in Statuses}

ASSUME StatusAssumption ==
    /\ Bus # Poll /\ NoFile \notin Summaries /\ Unknown \notin Summaries
    /\ Unknown \notin Statuses /\ NoScript \notin Statuses /\ AllTraffic \in BOOLEAN
    /\ \A s \in Statuses : pacInputs(s, AllTraffic) # NoScript
    /\ Configs \subseteq BOOLEAN
    /\ MaxChanges \in Nat /\ MaxEvents \in Nat

\* PrimaryRoutes are prefixes, none of which begins inside the tailnet range
\* and leaves it.
ASSUME RoutesAssumption ==
    \A s \in Statuses : s.routes \subseteq Prefixes /\ \A p \in s.routes : Fits(p)

VARIABLES
    world,      \* the node's status now (external)
    changes, events,
    notes,      \* IPN bus: notifications not read yet
    pc,         \* each goroutine
    got,        \* the snapshot it has yet to store or save
    toTell,     \* pacChanged
    status, authURL, lastSummary, lastPAC,
    proxyOn,    \* proxyLn is set
    wanted,     \* registerProxy() and proxyMode() = PAC, of the live config
    applying,   \* startProxy or an ApplyOutbound is to register or unregister
    inUse,      \* WinINet names the script
    summaryFile,    \* last-status.json
    script,     \* the inputs of the script a browser holds
    told,       \* WinINet has been told, browsers have not fetched yet
    timer,      \* refreshTimer is set
    due,        \* fyne.Do(refresh) is queued
    shown,      \* the snapshot on the screen
    untold,     \* ghost: the script was fetched before there was a lastPAC, or
                \* new inputs came while the config denied a script in use
    overtaken   \* ghost: a save failed, or a summary was to be saved while an
                \* older one was; no later one has been saved alone since

node == <<world, changes, notes>>
goroutines == <<pc, got, toTell, overtaken>>
snapshot == <<status, authURL, lastSummary, lastPAC>>
registration == <<proxyOn, wanted, applying, inUse>>
browsers == <<registration, script, told, untold>>
window == <<timer, due, shown>>
vars == <<node, events, goroutines, snapshot, browsers, window, summaryFile>>

Known == Statuses \cup {Unknown}
NoneYet == [exit |-> FALSE, suffix |-> NoSuffix, routes |-> {}]
\* pac(): the inputs of the script for a snapshot.
AllInputs == [st \in Known |-> pacInputs(IF st = Unknown THEN NoneYet ELSE st, AllTraffic)]
InputsOf(st) == AllInputs[st]
Labels == {"down", "next", "idle", "fetch", "store", "save", "tell"}
Goto(r, l) == pc' = [pc EXCEPT ![r] = l]
\* After refreshStatus, watchIPNBusOnce reads on and pollStatus waits.
Rest(r) == IF r = Bus THEN "next" ELSE "idle"

-----------------------------------------------------------------------------
(* tsnet and its notification bus.                                         *)

\* The node's status changes; what browsers to, and whether a login ended,
\* come as notifications of their own.
Change ==
    /\ changes < MaxChanges /\ changes' = changes + 1 /\ Len(notes) < 2
    /\ \E s \in Statuses \ {world} :
         /\ world' = s
         /\ notes' \in IF s.state = "NeedsLogin" THEN {Append(notes, "state"), notes \o <<"state", "url">>}
                       ELSE {Append(notes, IF s.state = "Running" THEN "login" ELSE "state")}
    /\ UNCHANGED <<events, goroutines, snapshot, browsers, window, summaryFile>>

-----------------------------------------------------------------------------
(* watchIPNBus and pollStatus.                                             *)

\* watchIPNBusOnce: the connection, which starts with the state and the
\* login link, and a first refresh.  What was notified before is lost.
Watch ==
    /\ pc[Bus] = "down"
    /\ notes' \in {<<"state">>} \cup (IF world.state = "NeedsLogin" THEN {<<"url">>} ELSE {})
    /\ Goto(Bus, "fetch")
    /\ UNCHANGED <<world, changes, events, got, toTell, overtaken, snapshot, browsers, window, summaryFile>>

\* w.Next events; the watcher waits a second and starts over.
BusFails ==
    /\ pc[Bus] = "next" /\ events < MaxEvents
    /\ events' = events + 1
    /\ Goto(Bus, "down")
    /\ UNCHANGED <<node, got, toTell, overtaken, snapshot, browsers, window, summaryFile>>

\* w.Next returns.
NextNote ==
    /\ pc[Bus] = "next" /\ notes # <<>>
    /\ notes' = Tail(notes)
    /\ authURL' = CASE Head(notes) = "url" -> TRUE [] Head(notes) = "login" -> FALSE
                    [] OTHER -> authURL
    /\ Goto(Bus, "fetch")
    /\ UNCHANGED <<world, changes, events, got, toTell, overtaken, status, lastSummary, lastPAC,
                   browsers, window, summaryFile>>

\* The ticker.
Tick ==
    /\ pc[Poll] = "idle"
    /\ Goto(Poll, "fetch")
    /\ UNCHANGED <<node, events, got, toTell, overtaken, snapshot, browsers, window, summaryFile>>

-----------------------------------------------------------------------------
(* refreshStatus.                                                          *)

Fetch(r) ==
    /\ pc[r] = "fetch"
    /\ \/ got' = [got EXCEPT ![r] = world] /\ Goto(r, "store") /\ UNCHANGED events
       \/ events < MaxEvents /\ events' = events + 1 /\ Goto(r, Rest(r)) /\ UNCHANGED got
    /\ UNCHANGED <<node, toTell, overtaken, snapshot, browsers, window, summaryFile>>

\* A node that runs needs no login.
LinkKept(st) == authURL /\ st.state # "Running"
\* Mutant: only the first summary is news.
summaryChangedOnce(st) == lastSummary = Unknown
summaryChanged(st) == st.summary # lastSummary
\* Mutant: only the first inputs are news.
pacChangedOnce(inputs) == proxyOn /\ lastPAC = NoScript
\* The first inputs are no change.
pacChanged(inputs) == proxyOn /\ lastPAC \notin {NoScript, inputs}

\* The part under the lock.
Store(r) ==
    LET st == got[r]  inputs == InputsOf(st) IN
    /\ pc[r] = "store"
    /\ status' = st
    /\ authURL' = LinkKept(st)
    /\ lastSummary' = IF summaryChanged(st) THEN st.summary ELSE lastSummary
    /\ overtaken' = (overtaken \/ (summaryChanged(st) /\ \E o \in Refreshers : pc[o] = "save"))
    /\ toTell' = [toTell EXCEPT ![r] = pacChanged(inputs)]
    /\ lastPAC' = IF proxyOn THEN inputs ELSE lastPAC
    /\ Goto(r, IF summaryChanged(st) THEN "save" ELSE "tell")
    /\ got' = IF summaryChanged(st) THEN got ELSE [got EXCEPT ![r] = Unknown]
    /\ UNCHANGED <<node, events, browsers, window, summaryFile>>

SavesAlone(r) ==
    got[r].summary = lastSummary /\ \A o \in Refreshers \ {r} : pc[o] # "save"

\* OnSummary, after the lock is released; a save that fails is only logged.
SaveSummary(r) ==
    /\ pc[r] = "save"
    /\ \/ /\ summaryFile' = got[r].summary
          /\ overtaken' = (overtaken /\ ~SavesAlone(r))
          /\ UNCHANGED events
       \/ /\ events < MaxEvents /\ events' = events + 1
          /\ overtaken' = TRUE
          /\ UNCHANGED summaryFile
    /\ Goto(r, "tell")
    /\ got' = [got EXCEPT ![r] = Unknown]
    /\ UNCHANGED <<node, toTell, snapshot, browsers, window>>

\* Mutant: only new PAC inputs are worth a refresh.
scheduleRefreshSome(r) == timer' = (timer \/ toTell[r])
\* A timer that is set already will do.
scheduleRefresh(r) == timer' = TRUE

\* notifyProxySettingsChanged, if the config registers the script.
notify(r) == told' = (told \/ (toTell[r] /\ wanted))

\* WinINet is told, then the UI by OnChange.
Tell(r) ==
    /\ pc[r] = "tell"
    /\ notify(r)
    /\ untold' = (untold \/ (toTell[r] /\ ~wanted /\ inUse /\ ~applying))
    /\ scheduleRefresh(r)
    /\ toTell' = [toTell EXCEPT ![r] = FALSE]
    /\ Goto(r, Rest(r))
    /\ UNCHANGED <<node, events, got, overtaken, snapshot, registration, script, due, shown, summaryFile>>

-----------------------------------------------------------------------------
(* The window, the proxy and the browsers.                                 *)

\* The coalescing timer: it forgets itself, then queues a refresh.
Fire ==
    /\ timer
    /\ timer' = FALSE /\ due' = TRUE
    /\ UNCHANGED <<node, events, goroutines, snapshot, browsers, shown, summaryFile>>

Refresh ==
    /\ due
    /\ due' = FALSE
    /\ shown' = status
    /\ UNCHANGED <<node, events, goroutines, snapshot, browsers, timer, summaryFile>>

\* startProxy, in Start beside the goroutines.
StartProxy ==
    /\ ~proxyOn /\ proxyOn' = TRUE
    /\ applying' = TRUE
    /\ UNCHANGED <<node, events, goroutines, snapshot, wanted, inUse, script, told, untold, window, summaryFile>>

\* The user edits the live config; ApplyOutbound follows if it can be saved
\* and the proxy is there.
Configure ==
    /\ events < MaxEvents /\ events' = events + 1
    /\ wanted' = ~wanted
    /\ applying' \in {applying, proxyOn}
    /\ UNCHANGED <<node, goroutines, snapshot, proxyOn, inUse, script, told, untold, window, summaryFile>>

\* The registration in Start or ApplyOutbound: setting the script's address
\* tells WinINet; without it browsers use the script no more.
Register ==
    /\ applying /\ applying' = FALSE
    /\ inUse' = wanted
    /\ told' = wanted
    /\ script' = IF wanted THEN script ELSE NoScript
    /\ UNCHANGED <<node, events, goroutines, snapshot, proxyOn, wanted, untold, window, summaryFile>>

\* A browser fetches the script, because it was told or on its own.
FetchScript ==
    /\ inUse
    /\ script' = InputsOf(status)
    /\ told' = FALSE
    /\ untold' = (lastPAC = NoScript)
    /\ UNCHANGED <<node, events, goroutines, snapshot, registration, window, summaryFile>>

\* The program dies and starts over; only the files survive, and the config
\* may be another profile's.
Restart ==
    /\ events < MaxEvents /\ events' = events + 1
    /\ notes' = <<>> /\ pc' = [r \in Refreshers |-> IF r = Bus THEN "down" ELSE "idle"]
    /\ got' = [r \in Refreshers |-> Unknown]
    /\ toTell' = [r \in Refreshers |-> FALSE]
    /\ status' = Unknown /\ authURL' = FALSE /\ lastSummary' = Unknown /\ lastPAC' = NoScript
    /\ proxyOn' = FALSE /\ wanted' \in Configs /\ applying' = FALSE /\ inUse' = FALSE
    /\ script' = NoScript /\ told' = FALSE /\ untold' = FALSE /\ overtaken' = FALSE
    /\ timer' = FALSE /\ due' = FALSE /\ shown' = Unknown
    /\ UNCHANGED <<world, changes, summaryFile>>

Init ==
    /\ world \in Statuses /\ changes = 0 /\ events = 0 /\ notes = <<>>
    /\ pc = [r \in Refreshers |-> IF r = Bus THEN "down" ELSE "idle"]
    /\ got = [r \in Refreshers |-> Unknown]
    /\ toTell = [r \in Refreshers |-> FALSE]
    /\ status = Unknown /\ authURL = FALSE /\ lastSummary = Unknown /\ lastPAC = NoScript
    /\ proxyOn = FALSE /\ wanted \in Configs /\ applying = FALSE /\ inUse = FALSE
    /\ script = NoScript /\ told = FALSE /\ untold = FALSE /\ overtaken = FALSE
    /\ timer = FALSE /\ due = FALSE /\ shown = Unknown
    /\ summaryFile = NoFile

Refresher(r) == Fetch(r) \/ Store(r) \/ SaveSummary(r) \/ Tell(r)

Next ==
    \/ Change \/ Watch \/ BusFails \/ NextNote \/ Tick
    \/ \E r \in Refreshers : Refresher(r)
    \/ Fire \/ Refresh \/ StartProxy \/ Configure \/ Register \/ FetchScript \/ Restart

Spec == Init /\ [][Next]_vars

\* The goroutines go on, the ticker ticks, the timer fires, the UI loop
\* turns, a registration ends, and a browser that is told fetches the script.
Fairness ==
    /\ WF_vars(Watch \/ NextNote \/ Refresher(Bus))
    /\ WF_vars(Tick \/ Refresher(Poll))
    /\ WF_vars(Fire) /\ WF_vars(Refresh) /\ WF_vars(Register)
    /\ WF_vars(told /\ FetchScript)

FairSpec == Spec /\ Fairness

-----------------------------------------------------------------------------
(* Properties.                                                             *)

\* Types; lastSummary and, with a proxy, lastPAC are those of a snapshot.
TypeOK ==
    /\ world \in Statuses /\ changes \in 0 .. MaxChanges /\ events \in 0 .. MaxEvents
    /\ notes \in Seq({"state", "url", "login"})
    /\ pc \in [Refreshers -> Labels] /\ got \in [Refreshers -> Known]
    /\ toTell \in [Refreshers -> BOOLEAN]
    /\ status \in Known /\ shown \in Known /\ authURL \in BOOLEAN
    /\ summaryFile \in Summaries \cup {NoFile} /\ lastSummary \in Summaries \cup {Unknown}
    /\ status # Unknown => lastSummary = status.summary
    /\ lastPAC \in {InputsOf(s) : s \in Statuses} \cup {NoScript}
    /\ script \in {InputsOf(s) : s \in Known} \cup {NoScript}
    /\ proxyOn \in BOOLEAN /\ wanted \in BOOLEAN /\ applying \in BOOLEAN /\ inUse \in BOOLEAN
    /\ told \in BOOLEAN /\ untold \in BOOLEAN /\ overtaken \in BOOLEAN
    /\ timer \in BOOLEAN /\ due \in BOOLEAN
    /\ \A r \in Refreshers : pc[r] \in {"store", "save"} => got[r] \in Statuses

\* No refresh is lost between the coalescing timer, the UI queue and the
\* goroutines: if the screen is behind the snapshot, something that will
\* bring it up to date is on its way.
NoLostRefresh ==
    shown # status =>
        timer \/ due \/ \E r \in Refreshers : pc[r] \in {"save", "tell"}

\* "Browsers cache the script; tell WinINet settings changed so they fetch it
\* again" (backend.go:398): while WinINet names the script, a browser that holds
\* one for other inputs than the last is told, also when the options change at
\* the same time. Two are not: one that fetched it before the first inputs were
\* recorded, and one whose new inputs came after the registration was switched
\* off in a config that could not be saved, and so not applied.
ScriptFollows ==
    (script # NoScript /\ lastPAC # NoScript /\ script # lastPAC /\ ~untold) =>
        told \/ applying \/ \E r \in Refreshers : toTell[r]

\* A browser with the script of the last snapshot sends through the proxy
\* exactly what the tailnet may answer for, whatever the host.
Decided == [st \in Statuses |->
    \A h \in Hosts({st.suffix, "elsewhere"}) :
        Decide(InputsOf(st), h) = Goes(st, AllTraffic, h)]
Routed == (status # Unknown /\ script = InputsOf(status)) => Decided[status]

\* The last summary is on disk, unless its save failed or overlapped another;
\* an older one that stays then goes with the next summary saved alone.
SummarySaved ==
    (~overtaken /\ status # Unknown /\ \A r \in Refreshers : pc[r] # "save") =>
        summaryFile = status.summary

\* Once the node stays as it is, the snapshot, the screen, the login link
\* and the browsers' script follow it, whatever was fetched in the wrong
\* order; only a browser that nothing told may go on with its own.
EventuallyShown ==
    <>[] /\ status = world /\ shown = world
         /\ world.state = "Running" => ~authURL
         /\ script \in {NoScript, InputsOf(world)} \/ untold
=============================================================================
