------------------------------ MODULE Profiles ------------------------------
(***************************************************************************)
(* Profiles on disk, the App that runs one of them, the LocalAPI bridge    *)
(* that points at it and the dropdown that names it.  The UI goroutine     *)
(* only starts goroutines (Workers); each runs stopBackend, Rename and     *)
(* startBackend as a chain of steps, and nothing keeps two of them apart.  *)
(* main's own goroutine runs startBackend at launch and stopBackend at     *)
(* the end.  The process may die between any two steps.                    *)
(***************************************************************************)
EXTENDS Integers

CONSTANTS
    Names,          \* valid profile names, in sort order
    DefaultName,    \* defaultProfileName
    Keys,           \* node keys tsnet may generate
    Backends,       \* Backend objects, reused once closed and forgotten
    Workers,        \* goroutines of switchProfile, renameProfile and quit
    Main,           \* main's goroutine
    NoDir, NoKey,   \* no directory; a directory without a node key
    None,           \* nil, ""
    NewItem,        \* newProfileItem of the dropdown
    Faults,         \* calls that may fail: "config", "start"
    RefreshRaces,   \* may a profile be published inside a refresh?
    MaxOrders       \* bound: orders the user gives to one process

ASSUME NamesAssumption == Names \subseteq Nat /\ DefaultName \in Names
ASSUME DistinctAssumption ==
    /\ NoDir \notin Keys /\ NoKey \notin Keys /\ NoDir # NoKey
    /\ None \notin Names /\ NewItem \notin Names /\ None # NewItem
    /\ None \notin Backends /\ None \notin Keys
    /\ Main \notin Workers
ASSUME BoundsAssumption == RefreshRaces \in BOOLEAN /\ MaxOrders \in Nat \ {0}

VARIABLES
    dir,        \* on disk: each name's directory, by the node key in it
    active,     \* on disk: active-profile.txt
    up,         \* the process runs
    pc, job,    \* what each goroutine does, and for which profile
    mine,       \* each goroutine's b
    backend, profName,   \* App.backend, App.profName
    node,       \* each Backend: made, open, closed, or closed before it opened
    owner,      \* each Backend's profile
    logDir,     \* the profile whose log file is open
    target,     \* localAPIBridge.target
    sel, opts,  \* the dropdown's Selected and Options
    dialog,     \* the New profile dialog is open
    ui,         \* a UI handler between two steps
    dirty,      \* a refresh is due
    keys,       \* ghost: keys made and not deleted by the user
    usedKey,    \* ghost: the key each Backend started with
    orders,     \* orders given to this process, for the bound
    overlapped  \* ghost: an order was given while another was under way

disk == <<dir, active, keys>>
app == <<backend, profName, node, owner, usedKey, logDir, target>>
screen == <<sel, opts, dialog, ui, dirty, orders, overlapped>>
threads == <<pc, job, mine>>
vars == <<disk, up, threads, app, screen>>

Threads == Workers \cup {Main}
Labels == {"idle", "check", "stop", "detach", "close", "rename", "record", "load",
           "active", "publish", "start", "target", "done", "leave", "exit"}
Jobs == [kind : {"none", "switch", "rename", "restart", "quit", "launch", "exit"},
         from : Names \cup {None}, name : Names \cup {None}]
Job(kind, from, name) == [kind |-> kind, from |-> from, name |-> name]
NoJob == Job("none", None, None)
Idle == [name |-> None, step |-> "loop"]

-----------------------------------------------------------------------------
(* The state directory.                                                    *)

Existing(d) == {n \in Names : d[n] # NoDir}
First(S) == CHOOSE n \in S : \A m \in S : n <= m
\* List creates the default profile if there is none.
List == IF Existing(dir) = {} THEN [dir EXCEPT ![DefaultName] = NoKey] ELSE dir
\* Mutant: no fallback to the first profile.
ActiveOrNothing == IF active \in Existing(List) THEN active ELSE None
\* Active, in the directory as List leaves it.
Active == IF active \in Existing(List) THEN active ELSE First(Existing(List))
MkdirAll(n) == IF dir[n] = NoDir THEN [dir EXCEPT ![n] = NoKey] ELSE dir

\* Profiles.Create.
MakeProfile(n) == dir[n] = NoDir /\ dir' = MkdirAll(n)

Running(b) == node[b] \in {"open", "stray"}
Busy == \E t \in Workers : pc[t] # "idle"
Goto(t, l) == pc' = [pc EXCEPT ![t] = l]

\* Backend.Close: a second call does nothing, and a call that comes before
\* Start has set ts closes nothing, so that Start opens a stray node.
Close(b) ==
    LET ends == node[b] = "open" IN
    /\ node' = [node EXCEPT ![b] = CASE @ = "open" -> "closed"
                                     [] @ = "made" -> "shut"
                                     [] OTHER -> @]
    /\ owner' = [owner EXCEPT ![b] = IF ends THEN None ELSE @]
    /\ usedKey' = [usedKey EXCEPT ![b] = IF ends THEN None ELSE @]

-----------------------------------------------------------------------------
(* stopBackend.                                                            *)

AfterStop(t) ==
    CASE job[t].kind = "restart" -> "rename"
      [] job[t].kind = "quit" -> "leave"
      [] job[t].kind = "exit" -> "exit"
      [] OTHER -> "load"

TakeBackend(t) ==
    /\ pc[t] = "stop"
    /\ mine' = [mine EXCEPT ![t] = backend]
    /\ backend' = None
    /\ Goto(t, IF backend = None THEN AfterStop(t) ELSE "detach")
    /\ UNCHANGED <<disk, up, job, profName, node, owner, usedKey, logDir, target, screen>>

\* Mutant: SetTarget(nil) is forgotten.
DetachNothing(t) ==
    /\ pc[t] = "detach"
    /\ Goto(t, "close")
    /\ UNCHANGED <<disk, up, job, mine, app, screen>>

Detach(t) ==
    /\ pc[t] = "detach"
    /\ target' = None
    /\ Goto(t, "close")
    /\ UNCHANGED <<disk, up, job, mine, backend, profName, node, owner, usedKey, logDir, screen>>

\* Mutant: the node is left running.
CloseBackendNot(t) ==
    /\ pc[t] = "close"
    /\ mine' = [mine EXCEPT ![t] = None]
    /\ Goto(t, AfterStop(t))
    /\ UNCHANGED <<disk, up, job, app, screen>>

CloseBackend(t) ==
    /\ pc[t] = "close"
    /\ Close(mine[t])
    /\ mine' = [mine EXCEPT ![t] = None]
    /\ Goto(t, AfterStop(t))
    /\ UNCHANGED <<disk, up, job, backend, profName, logDir, target, screen>>

-----------------------------------------------------------------------------
(* renameProfile: job.from is moved to job.name.  Kind "restart" is a      *)
(* rename of the running profile, which is started again.                  *)

CheckRunning(t) ==
    /\ pc[t] = "check"
    /\ IF profName = job[t].from
       THEN Goto(t, "stop") /\ job' = [job EXCEPT ![t].kind = "restart"]
       ELSE Goto(t, "rename") /\ UNCHANGED job
    /\ UNCHANGED <<disk, up, mine, app, screen>>

AfterRename(t) == IF job[t].kind = "restart" THEN "load" ELSE "done"

\* Mutant: an existing profile is overwritten.
RenameDirOver(t) ==
    LET from == job[t].from  to == job[t].name IN
    /\ pc[t] = "rename" /\ dir[from] # NoDir
    /\ dir' = [dir EXCEPT ![to] = dir[from], ![from] = NoDir]
    /\ Goto(t, "record")
    /\ UNCHANGED <<active, keys, up, job, mine, app, screen>>

\* The directory moves and an open log file with it, where the system
\* allows that; Windows refuses while a file in it is open.
RenameDir(t) ==
    LET from == job[t].from  to == job[t].name IN
    /\ pc[t] = "rename"
    /\ \/ /\ dir[from] # NoDir /\ dir[to] = NoDir
          /\ dir' = [dir EXCEPT ![to] = dir[from], ![from] = NoDir]
          /\ logDir' = IF logDir = from THEN to ELSE logDir
          /\ Goto(t, "record")
          /\ UNCHANGED job
       \/ /\ dir[from] = NoDir \/ dir[to] # NoDir \/ logDir = from
          /\ job' = [job EXCEPT ![t].name = from]
          /\ Goto(t, AfterRename(t))
          /\ UNCHANGED <<dir, logDir>>
    /\ UNCHANGED <<active, keys, up, mine, backend, profName, node, owner, usedKey,
                   target, screen>>

\* Active falls back to another profile once from is gone, so from is only
\* found active here if another goroutine has made it again.
RecordRename(t) ==
    /\ pc[t] = "record"
    /\ active' = IF Active = job[t].from THEN job[t].name ELSE active
    /\ dir' = List
    /\ Goto(t, AfterRename(t))
    /\ UNCHANGED <<keys, up, job, mine, app, screen>>

-----------------------------------------------------------------------------
(* startBackend.                                                           *)

LoadConfig(t) ==
    /\ pc[t] = "load"
    /\ \/ /\ dir' = MkdirAll(job[t].name)
          /\ logDir' = job[t].name
          /\ Goto(t, "active")
       \/ /\ "config" \in Faults
          /\ Goto(t, "done")
          /\ UNCHANGED <<dir, logDir>>
    /\ UNCHANGED <<active, keys, up, job, mine, backend, profName, node, owner, usedKey,
                   target, screen>>

\* Mutant: the choice is not recorded.
SetActiveNot(t) ==
    /\ pc[t] = "active"
    /\ Goto(t, "publish")
    /\ UNCHANGED <<disk, up, job, mine, app, screen>>

SetActive(t) ==
    /\ pc[t] = "active"
    /\ active' = job[t].name
    /\ Goto(t, "publish")
    /\ UNCHANGED <<dir, keys, up, job, mine, app, screen>>

\* A Backend object no one refers to stands for the new one.
Unused == {b \in Backends : /\ node[b] = "closed" /\ b \notin {backend, target}
                            /\ \A t \in Threads : mine[t] # b}

Publish(t) ==
    /\ pc[t] = "publish"
    /\ RefreshRaces \/ ui.step # "select"
    /\ \E b \in Unused :
         /\ node' = [node EXCEPT ![b] = "made"]
         /\ owner' = [owner EXCEPT ![b] = job[t].name]
         /\ mine' = [mine EXCEPT ![t] = b]
         /\ backend' = b
    /\ profName' = job[t].name
    /\ Goto(t, "start")
    /\ UNCHANGED <<disk, up, job, usedKey, logDir, target, screen>>

\* tsnet makes a key if the directory has none, and the directory too.
StartNode(t) ==
    LET b == mine[t]  n == owner[b] IN
    /\ pc[t] = "start"
    /\ \/ /\ \E k \in Keys :
               /\ IF dir[n] \in Keys THEN k = dir[n] ELSE k \notin keys
               /\ dir' = [dir EXCEPT ![n] = k]
               /\ keys' = keys \cup {k}
               /\ usedKey' = [usedKey EXCEPT ![b] = k]
          /\ node' = [node EXCEPT ![b] = IF @ = "shut" THEN "stray" ELSE "open"]
          /\ Goto(t, "target")
          /\ UNCHANGED <<backend, mine, owner>>
       \/ /\ "start" \in Faults
          /\ node' = [node EXCEPT ![b] = "closed"]
          /\ owner' = [owner EXCEPT ![b] = None]
          /\ backend' = None
          /\ mine' = [mine EXCEPT ![t] = None]
          /\ Goto(t, "done")
          /\ UNCHANGED <<dir, keys, usedKey>>
    /\ UNCHANGED <<active, up, job, profName, logDir, target, screen>>

\* Asking a closed server for its address may fail, or not.
SetTarget(t) ==
    /\ pc[t] = "target"
    /\ target' \in {mine[t]} \cup (IF node[mine[t]] = "open" THEN {} ELSE {target})
    /\ mine' = [mine EXCEPT ![t] = None]
    /\ dirty' = TRUE
    /\ Goto(t, "done")
    /\ UNCHANGED <<disk, up, job, backend, profName, node, owner, usedKey, logDir,
                   sel, opts, dialog, ui, orders, overlapped>>

\* Mutant: nobody refreshes at the end.
DoneQuietly(t) ==
    /\ pc[t] = "done"
    /\ job' = [job EXCEPT ![t] = NoJob]
    /\ Goto(t, "idle")
    /\ UNCHANGED <<disk, up, mine, app, screen>>

Done(t) ==
    /\ pc[t] = "done"
    /\ dirty' = TRUE
    /\ job' = [job EXCEPT ![t] = NoJob]
    /\ Goto(t, "idle")
    /\ UNCHANGED <<disk, up, mine, app, sel, opts, dialog, ui, orders, overlapped>>

-----------------------------------------------------------------------------
(* The UI goroutine.                                                       *)

UiFree == up /\ pc[Main] = "idle" /\ ui = Idle

Spawn(start, j) ==
    /\ \E w \in Workers :
         /\ pc[w] = "idle"
         /\ Goto(w, start)
         /\ job' = [job EXCEPT ![w] = j]
    /\ UNCHANGED mine

\* switchProfile as a goroutine.
Switch(n) == Spawn("stop", Job("switch", None, n))
Ordered ==
    /\ orders < MaxOrders
    /\ orders' = orders + 1
    /\ overlapped' = (overlapped \/ Busy)

\* refresh: the options, and the current profile if it is not selected.
Refresh ==
    /\ UiFree
    /\ dir' = List
    /\ opts' = Existing(dir')
    /\ dirty' = FALSE
    /\ ui' = IF sel # profName THEN [name |-> profName, step |-> "select"] ELSE Idle
    /\ UNCHANGED <<active, keys, up, threads, app, sel, dialog, orders, overlapped>>

\* SetSelected with a name read before: it ignores what is not an option
\* and otherwise calls OnChanged, which reads the current profile again.
SetSelected ==
    /\ up /\ ui.step = "select"
    /\ ui' = Idle
    /\ sel' = IF ui.name \in opts THEN ui.name ELSE sel
    /\ IF ui.name \in opts /\ profName # ui.name THEN Switch(ui.name) ELSE UNCHANGED threads
    /\ UNCHANGED <<disk, up, app, opts, dialog, dirty, orders, overlapped>>

\* The user chooses a profile.
Pick(n) ==
    /\ UiFree /\ ~dialog /\ n \in opts
    /\ sel' = n
    /\ IF profName # n THEN Switch(n) /\ Ordered ELSE UNCHANGED <<threads, orders, overlapped>>
    /\ UNCHANGED <<disk, up, app, opts, dialog, ui, dirty>>

PickNew ==
    /\ UiFree /\ ~dialog
    /\ sel' = NewItem
    /\ dialog' = TRUE
    /\ orders < MaxOrders /\ orders' = orders + 1
    /\ UNCHANGED <<disk, up, threads, app, opts, ui, dirty, overlapped>>

\* Cancel, no name, or a name that exists.
CancelNew ==
    /\ UiFree /\ dialog
    /\ dialog' = FALSE
    /\ ui' = [name |-> profName, step |-> "select"]
    /\ UNCHANGED <<disk, up, threads, app, sel, opts, dirty, orders, overlapped>>

Create(n) ==
    /\ UiFree /\ dialog
    /\ dialog' = FALSE
    /\ MakeProfile(n)
    /\ Switch(n) /\ overlapped' = (overlapped \/ Busy)
    /\ UNCHANGED <<active, keys, up, app, sel, opts, ui, dirty, orders>>

Rename(from, to) ==
    /\ UiFree /\ from \in opts /\ from # to
    /\ Spawn("check", Job("rename", from, to)) /\ Ordered
    /\ UNCHANGED <<disk, up, app, sel, opts, dialog, ui, dirty>>

\* Mutant: the running profile may go.
DeleteAny(n) ==
    /\ UiFree /\ n \in opts
    /\ ui' = [name |-> n, step |-> "remove"]
    /\ Ordered
    /\ UNCHANGED <<disk, up, threads, app, sel, opts, dialog, dirty>>

\* deleteProfile: the check.
Delete(n) ==
    /\ UiFree /\ n \in opts /\ n # profName
    /\ ui' = [name |-> n, step |-> "remove"]
    /\ Ordered
    /\ UNCHANGED <<disk, up, threads, app, sel, opts, dialog, dirty>>

\* deleteProfile: RemoveAll.  Windows keeps a file that is open, and with
\* it the directory.
Remove ==
    LET n == ui.name IN
    /\ up /\ ui.step = "remove"
    /\ ui' = Idle
    /\ \E left \in {NoDir} \cup (IF logDir = n THEN {NoKey} ELSE {}) :
         dir' = [dir EXCEPT ![n] = left]
    /\ keys' = keys \ {dir[n]}
    /\ dirty' = TRUE
    /\ UNCHANGED <<active, up, threads, app, sel, opts, dialog, orders, overlapped>>

\* applyOutbound with another proxy address restarts the profile.
ChangeAddr ==
    /\ UiFree /\ backend # None
    /\ Switch(owner[backend]) /\ Ordered
    /\ UNCHANGED <<disk, up, app, sel, opts, dialog, ui, dirty>>

Quit ==
    /\ UiFree
    /\ Spawn("stop", Job("quit", None, None)) /\ Ordered
    /\ UNCHANGED <<disk, up, app, sel, opts, dialog, ui, dirty>>

\* fyne.Quit: the UI loop ends and main stops what still runs.
Leave(t) ==
    /\ pc[t] = "leave" /\ pc[Main] = "idle" /\ ui = Idle
    /\ pc' = [pc EXCEPT ![t] = "idle", ![Main] = "stop"]
    /\ job' = [job EXCEPT ![t] = NoJob, ![Main] = Job("exit", None, None)]
    /\ UNCHANGED <<disk, up, mine, app, screen>>

-----------------------------------------------------------------------------
(* The process.                                                            *)

\* main up to startBackend.
Launch ==
    /\ ~up /\ up' = TRUE
    /\ dir' = List
    /\ Goto(Main, "load")
    /\ job' = [job EXCEPT ![Main] = Job("launch", None, Active)]
    /\ UNCHANGED <<active, keys, mine, app, screen>>

\* The process ends: at the end of main, or at any moment.
End ==
    /\ up /\ up' = FALSE
    /\ pc' = [t \in Threads |-> "idle"] /\ job' = [t \in Threads |-> NoJob]
    /\ mine' = [t \in Threads |-> None]
    /\ backend' = None /\ profName' = None /\ target' = None /\ logDir' = None
    /\ node' = [b \in Backends |-> "closed"] /\ owner' = [b \in Backends |-> None]
    /\ usedKey' = [b \in Backends |-> None]
    /\ sel' = None /\ opts' = {} /\ dialog' = FALSE /\ ui' = Idle
    /\ dirty' = FALSE /\ overlapped' = FALSE /\ orders' = 0
    /\ UNCHANGED disk

Exit == pc[Main] = "exit" /\ End
Crash == pc[Main] # "exit" /\ End

\* A directory as earlier runs may have left it.
Init ==
    /\ dir \in [Names -> Keys \cup {NoDir, NoKey}]
    /\ \A m, n \in Names : dir[m] \in Keys /\ dir[m] = dir[n] => m = n
    /\ keys = {dir[n] : n \in Names} \cap Keys
    /\ active \in Existing(dir) \cup {None}
    /\ up = FALSE
    /\ pc = [t \in Threads |-> "idle"] /\ job = [t \in Threads |-> NoJob]
    /\ mine = [t \in Threads |-> None]
    /\ backend = None /\ profName = None /\ target = None /\ logDir = None
    /\ node = [b \in Backends |-> "closed"] /\ owner = [b \in Backends |-> None]
    /\ usedKey = [b \in Backends |-> None]
    /\ sel = None /\ opts = {} /\ dialog = FALSE /\ ui = Idle
    /\ dirty = FALSE /\ overlapped = FALSE /\ orders = 0

Step(t) ==
    \/ TakeBackend(t) \/ Detach(t) \/ CloseBackend(t)
    \/ CheckRunning(t) \/ RenameDir(t) \/ RecordRename(t)
    \/ LoadConfig(t) \/ SetActive(t) \/ Publish(t) \/ StartNode(t) \/ SetTarget(t)
    \/ Done(t) \/ Leave(t)

Order ==
    \/ \E n \in Names : Pick(n) \/ Create(n) \/ Delete(n)
    \/ \E from, to \in Names : Rename(from, to)
    \/ PickNew \/ CancelNew \/ ChangeAddr \/ Quit

Next ==
    \/ Launch \/ Exit \/ Crash
    \/ \E t \in Threads : Step(t)
    \/ Order \/ Refresh \/ SetSelected \/ Remove

Spec == Init /\ [][Next]_vars

-----------------------------------------------------------------------------
(* Properties.                                                             *)

DiskTypeOK ==
    /\ dir \in [Names -> Keys \cup {NoDir, NoKey}] /\ active \in Names \cup {None}
    /\ keys \subseteq Keys /\ up \in BOOLEAN

ThreadsTypeOK ==
    /\ pc \in [Threads -> Labels] /\ job \in [Threads -> Jobs]
    /\ mine \in [Threads -> Backends \cup {None}]

AppTypeOK ==
    /\ backend \in Backends \cup {None} /\ profName \in Names \cup {None}
    /\ node \in [Backends -> {"made", "shut", "open", "stray", "closed"}]
    /\ owner \in [Backends -> Names \cup {None}] /\ usedKey \in [Backends -> Keys \cup {None}]
    /\ logDir \in Names \cup {None} /\ target \in Backends \cup {None}

ScreenTypeOK ==
    /\ sel \in Names \cup {None, NewItem} /\ opts \subseteq Names
    /\ dialog \in BOOLEAN /\ dirty \in BOOLEAN /\ overlapped \in BOOLEAN
    /\ orders \in 0 .. MaxOrders
    /\ ui \in [name : Names \cup {None}, step : {"loop", "select", "remove"}]
    /\ ui.step = "remove" => ui.name \in Names

JobsKnown ==
    \A t \in Threads :
      /\ pc[t] \in {"load", "active", "publish", "check", "rename", "record"} => job[t].name \in Names
      /\ pc[t] \in {"check", "rename", "record"} => job[t].from \in Names
      /\ pc[t] \in {"close", "start", "target"} => mine[t] \in Backends
      /\ pc[t] = "start" => owner[mine[t]] \in Names

\* Types; a goroutine that starts a profile knows which, and one that
\* starts or points at a Backend has it.
TypeOK == DiskTypeOK /\ ThreadsTypeOK /\ AppTypeOK /\ ScreenTypeOK /\ JobsKnown

\* A node key is never lost or in two profiles: however switches, renames,
\* refreshes, deletions and crashes fall together, every key that was made
\* and that the user has not deleted is in exactly one directory.
KeysKept ==
    /\ keys = {dir[n] : n \in Names} \cap Keys
    /\ \A m, n \in Names : dir[m] \in Keys /\ dir[m] = dir[n] => m = n

\* What startBackend asks for: one order at a time, one node at a time.
OneNode ==
    ~overlapped => \A b, c \in Backends : Running(b) /\ Running(c) => b = c

\* The directory of a node that runs stays, with its key: it is neither
\* deleted nor renamed under it.
RunningDirKept ==
    ~overlapped => \A b \in Backends : Running(b) => dir[owner[b]] = usedKey[b]

\* Wherever the process dies, the next launch starts the profile that was
\* current, or the one it was about to become; only while a renamed
\* profile is not yet recorded is it the first in the list.
ActiveRight ==
    (up /\ ~overlapped /\ profName \in Existing(dir)) =>
        Active \in {profName} \cup {job[t].name : t \in {x \in Threads : pc[x] = "publish"}}

\* The bridge never points at a node that is closed, and when nothing is
\* under way it points at the current one.
BridgeRight ==
    (up /\ ~overlapped) =>
        /\ target # None => node[target] = "open"
        /\ (\A t \in Threads : pc[t] = "idle") => target = backend

\* Once nothing is under way and the last refresh has run, the dropdown
\* shows the current profile, whatever was chosen, cancelled or failed.
SelectorRight ==
    (UiFree /\ ~Busy /\ ~dirty /\ ~dialog /\ profName \in opts) => sel = profName
=============================================================================
