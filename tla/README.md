# TLA+ models of tswipoexp

tswipoexp is a portable Tailscale client for Windows: a GUI that embeds tsnet,
runs a SOCKS5 and HTTP proxy, and registers that proxy as the user's system
proxy while it runs. It lives on a USB stick that may be pulled at any moment.
This directory holds TLA+ models of its parts, the TLC configurations that
check them on small instances, and TLAPS proofs about them for every instance.

    tlc -workers 2 -config WinProxy_serial.cfg MCWinProxy.tla
    tlapm SshProofs.tla

## Inventory

| Component | Source | State it keeps | Operations | Hard behaviour |
|---|---|---|---|---|
| System proxy registration | `winproxy_windows.go`, `winproxy.go` | the user's WinINet settings and environment; `proxy-restore.json`; `restore-proxy.reg` and `.cmd`; the RunOnce entry; the watchdog | register, unregister | a crash or power cut between any two system calls; failures that are only logged; two goroutines at once; another machine's snapshot |
| Restore script and watchdog | `winproxy_restore.go`, `winproxy_windows.go:348` | processes that outlive the program | wait for the parent, run the script | races with a relaunch; a second power cut |
| App | `tswipoexp.go` | current backend, current profile | launch, switch, rename, delete, apply, quit | background goroutines that nothing serialises |
| Backend | `backend.go` | tsnet, listener, SSH server, last status, PAC fingerprint, last error | Start, ApplyOutbound, SetSSHMode, Close, status polling | two status goroutines; callbacks after the lock is released |
| Profiles | `profiles.go` | profile directories, `active-profile.txt`, config and summary files | List, Create, Active, Rename, Delete, writeFileAtomic | crash between rename and recording; shared `.tmp` names |
| Log sink | `logsink.go` | a bounded buffer of numbered lines, the open log file | SetFile, Write, Since, Clear, Stats, Lines | I/O outside the lock; eviction at the limit |
| Log viewer | `ui_logs.go` | copy of the buffer, selection, Follow | pull, clear, select, follow | a pull takes the lock twice; row indexes that shift |
| PAC script | `pac.go` | none | inputs from status, script | masks and prefixes; staleness of what browsers cache |
| HTTP and SOCKS proxy | `httpproxy.go` | connections | forward, CONNECT, serve the PAC script | the two halves of a tunnel |
| SSH server | `ssh.go` | listener, host key | admit, serve, start, stop | mode changes against live connections; a key made once |
| Pseudoconsole | `ssh_windows.go` | console handle, pipes, process | resize, wait, close | calls that stall; bounded waits; a shared mutex |
| LocalAPI bridge | `localapi*.go` | one atomic pointer | SetTarget, serve | also the single-instance lock |
| Windows and widgets | `ui*.go`, `guistate.go`, `screen*.go`, `icon.go` | widgets, refresh timer, window size | refresh, dialogs | selector callbacks during a switch |
| Debug endpoint, crash log, fatal box, `cmd/` | `debug.go`, `crashlog*.go`, `fatal*.go`, `cmd/*` | none of note | | |

How they interact. `main` takes the LocalAPI pipe (so that one instance runs),
restores what an earlier run left, starts the active profile's Backend and runs
the event loop. UI handlers run on the UI goroutine and start a goroutine for
anything slow: `applyOutbound`, `switchProfile`, `renameProfile` and `quit`
therefore run side by side. A Backend calls back (`OnChange`, `OnSummary`) from
its own two goroutines. Its SSH server runs a goroutine for each connection and
four for a terminal session. Everything logs through the log sink, which the log
viewer polls. The registration code shares its files and the Windows settings
with processes that are not the program: the watchdog, and the script that a
logon starts.

What makes each component correct:

* Registration: whatever the user had chosen can be put back at any moment, by
  the next start, by the watchdog, at logon, and is put back at a clean exit;
  no restore brings back anything older.
* Profiles: a node key is never lost; one node runs at a time, and its
  directory stays; the profile that starts is the one last chosen; the bridge
  and the dropdown follow it.
* File writes: old or new, never torn, wherever the power goes.
* Status: the screen, the summary on disk and the script in browsers catch up
  with the node; the script sends to the tailnet what belongs there.
* SSH and pseudoconsole: only peers the mode admits get a session, under one
  host key; Off stops what listens; a session ends, its output first, and its
  handles are released, whatever stalls.
* Log sink: numbers describe the buffer exactly, the bound holds, a line stays
  in its own profile's file.
* Log viewer: it shows what the sink keeps, in order; a selection stays on its
  lines; every line is fetched or was dropped.

## Modules

| Module | What it is |
|---|---|
| `ProxyGuard` | the abstract promise of the registration: save, take, give back, forget |
| `WinProxy` | the registration code, its callers, the restore script, the watchdog, crashes, reboots, user edits; refinement mapping to `ProxyGuard`; the inductive invariant |
| `WinProxyProofs`, `WinProxySafety`, `WinProxyPromises` | type correctness of `WinProxy`; its inductive invariant and what follows from it; the other promises and the refinement of `ProxyGuard` |
| `Profiles`, `ProfilesProofs` | the profile directories, the goroutines that start, stop and rename profiles, the bridge, the dropdown; theorems |
| `Pac` | the PAC script as a decision, and what it is for |
| `Status`, `StatusProofs` | from tsnet's status to the screen, the summary file and the browsers; extends `Pac`; theorems |
| `AtomicFile`, `AtomicFileProofs` | `writeFileAtomic` on one path, theorems |
| `SshServer` | the SSH server, its host key an `AtomicFile` |
| `PtySession` | one terminal session on a pseudoconsole |
| `Ssh`, `SshProofs` | server and session together; theorems about both |
| `LogSink` | the log sink |
| `LogViewer`, `LogProofs` | the log viewer over the sink; theorems about both |
| `MCWinProxy`, `MCProfiles`, `MCStatus`, `MCLogViewer` | option sets, statuses and symmetry for TLC |

Operators that a comment marks as a mutant are plausible bugs of the definition
that follows them. They are used by no specification; PROJECT.json names the
property each of them breaks.

### WinProxy

The settings in force are `inet` (WinINet) and `env` (the three proxy
variables); `want` remembers what the user last chose and `choices` all
they chose since nothing was left to restore. The files are `json`,
`regFile` and `cmdFile`, the entry is `runOnce`, and `runner[r]` is the
watchdog process of launch `r`, or for `r = 0` the script a logon started. The
program is `proc`, `epoch`, `backend`, `cfg`, `listens`; each goroutine has a
label `pc[g]`, a `job[g]` that says who called it, and the local variables the
code keeps across system calls: the backend (`bk`), the loaded snapshot
(`prev`) and the options (`opt`).

One action is one system call another process can observe. `u.*` labels are
`unregisterSystemProxy` (load, stop the watchdog, WinINet, environment, snapshot,
entry, script, .reg), `r.*` labels are `registerSystemProxy` (load, capture,
save, .reg, .cmd, entry, watchdog, WinINet, environment). `Launch`, `Apply`,
`Switch`, `Quit` start a goroutine; `ApplyBegin`, `StopBackend`, `ApplyRest`,
`StartNext`, `Publish`, `StartBackend`, `LeaveLoop` and `Exit` are the code around
the two calls. A failing call is a disjunct guarded by a member of `Faults`;
what the code logs and ignores goes on, what it returns goes to `failed` or
`idle`.

The script's lines are actions of a runner; each needs `cmdFile`, because cmd
reads the file again before every line, and `ScriptGone` ends a script whose
file has gone. `Crash` ends the process at any point and leaves the watchdog.
`Reboot` ends everything, may change the machine's name, and runs the RunOnce
entry. `Edit` is the user choosing other settings, at any time: also while ours
are in force, or a restore is still to come, which then takes the edit away.

What is abstracted: WinINet's flags, server, bypass and script address are one
value, and so are the three environment variables, because the code reads and
writes each group in one call or loop and no property tells their members
apart; the text of the files is what importing them does; a file write is one
step (`writeFileAtomic` renames); log lines and dialogs are left out. Not
modelled: a watchdog that cannot be killed, a connection blob that cannot be
read, a process number used again within seconds.

Two assumptions on use are parameters, so that runs can drop them:
`RestoresSettle` (no launch while a script or watchdog of an earlier run is at
work) and `EditsSettled` (the user edits only when no restore is due: there is no
snapshot, entry, script or watchdog, and no call is under way). Nothing in the
code obliges the user to the second. `UndoKept`, `IInv` and the refinement need
it, since an edit before a restore makes the snapshot obsolete; all they promise
is the choice made last with nothing to be restored. `relaunch` and
`NeverStaleAlways` go without it. `oldscript` shows what happens without the
first.

### ProxyGuard

Four variables: the two settings, what the user chose, and what an undo would
put back. Settings are taken only while something is saved; the save is made
once, equals what is in force, and is dropped only when it is in force again;
the user chooses only while nothing is saved. `WinProxy` maps `saved` to the
JSON snapshot without its machine name.

### Profiles

`dir[n]` is the directory of name `n` by the node key in it, `active` the text
of `active-profile.txt`. The App is `backend`, `profName`; a Backend object is
`made`, `open`, `closed`, or `shut` if it was closed before `Start` had set
`ts` (then `Start` opens a node nobody closes, `stray`). `logDir` is the profile
whose log file is open and `target` the bridge's. Each goroutine's `pc[t]` walks
through `stopBackend` (stop, detach, close), `Rename` (check, rename, record) and
`startBackend` (load, active, publish, start, target). UI handlers are atomic
but for the two that use what they read earlier: `Refresh` and `SetSelected`,
`Delete` and `Remove`. `Crash` ends the process anywhere and keeps the disk.

The properties that Windows or one goroutine at a time give are stated under
`~overlapped`: the user gave no order while another was under way. `KeysKept`
needs no such assumption. Abstracted: a configuration's fields, failures to open
the log or to record the active profile, `RemoveAll` failing halfway elsewhere
than at the open log file.

### Pac and Status

`Pac` writes addresses as numbers of `Width` bits and keeps the code's masks: a
shift in a word of that width, the comparison of `isInNet` bit by bit, the
prefixes that `pacInputsFrom` masks and drops. `Goes` says by ranges, without
masks, what should use the proxy. The powers of two are a recursive function, for
the prover does not know `^`. `Fits` is what dropping routes inside the tailnet's
range takes for granted: that a route which begins there stays there. A masked
route does, by `MaskedFits`, and nodes advertise no others.

`Status` has the node's own status `world`, the notifications `notes`, and for
each of the two goroutines its place, the answer it holds (`got`) and whether it
found other PAC inputs (`toTell`). `Fetch`, `Store`, `SaveSummary`, `Tell` are
`refreshStatus`; only `Store` holds the lock. `timer`, `due`, `shown` are the
coalescing timer, the queued refresh and the screen. `wanted` is what the live
config says of the registration, `true` if it is on and by script; `Configure`
changes it, `applying` is an `ApplyOutbound` that is still to follow, `Register`
what that does, and `inUse` whether WinINet names the script. `Tell` notifies only
if `wanted`, as the code does. `script` is what a browser holds, `told` that it is
to ask again. Two ghosts name what the code does not promise. `untold`: a browser
asked before the first status, or new inputs came while a config that was not
applied denied the script in use; nothing tells it later. `overtaken`: two saves
of the summary overlapped, or one failed and is not tried again; the next summary
saved alone mends it.

### AtomicFile, SshServer, PtySession, Ssh

`AtomicFile` is one path with its `.tmp`: which text each holds, which texts are
on the disk (`safe`), what the path may go back to because nothing syncs the
directory (`old`), each writer's handle and place. A handle follows its file
through a rename. `PowerCut` keeps, loses or tears what was not synced and may
undo a rename that has not settled.

`SshServer` extends it with the server: `startSSH`, `SetSSHMode` and the SSH side
of `Close`, each in its goroutine. `mine` is the local `s`: a server to be
published, or one taken from the field whose listener is still to be closed
(`StopSSH`, `CloseListener`). `Close` goes on to the node (`CloseNode`), which
takes any listener with it. tsnet allows one listener; connections ask who the
peer is, read the mode, the login, the key. `once` is `hostKeyOnce`; `ReadKey`
begins a save, `WriteKey`, `KeySaved`, `KeyUnsaved` are the calls of
`writeFileAtomic` in it. `seen` remembers the modes and logins since a connection
was accepted. `clash` and `undone` name two excuses: two servers made a key at
once, a crash took a rename back.

`PtySession` is `runWithPTY`: the steps of `startConPTY` with the handles open at
each and the cleanup of one that fails, the goroutines `stdin`, `reader`,
`resizer`, `closer`, the mutex as `Locked`, the wait for the process, which may
fail (`WaitFails`), the two bounded waits as `Await`, which a timer may end, and
the deferred `Close` (`Unwind`, `ConsoleClosed`, `Release`). `ClosePseudoConsole`
may take for ever in each of its three places. Exit codes are left out. `Ssh` puts
both together; a session begins on an admitted connection.

### LogSink and LogViewer

The sink keeps the buffered lines with the number each was given, and its own
`bytes`, `first` and `next`. `WriteBegin`, `WriteFile` and `WriteAppend` are the
two critical sections of `Write` and the I/O between them; `StopsAt` says where
the eviction loop may stop. `disk[d]` records, for the log in directory `d`,
which directory's file was current when each line's `Write` began. The viewer's
`PullSince` and `PullStats` are the two times a pull takes the sink's lock; all
its other actions are handlers on the UI goroutine and wait for a pull to end.
The line text is left out; a line is its number, its writer and its length.

## Runs

| Run | Bounds | Shows |
|---|---|---|
| `serial` | 1 goroutine, 3 backends, 3 launches, 4 option sets, 2 user values, no faults, all operations | `TypeOK`, `NetsInPlace`, `CleanExitRestores`, `CleanExitLeavesNothing`, `IInv` (of which `UndoKept` is a consequence), `ImplementsGuard` |
| `faults` | 2 launches, faults of all calls but the loads and WinINet, fair | `UndoKept`, `SavedOnce`, `DeadProxyHealed` |
| `relaunch` | 1 backend, 2 launches that may race an old script, faults of WinINet and the environment, user edits at any time | `NeverStale` |
| `overlap` | 2 goroutines, applies | `SavedOnce` is violated |
| `oldscript` | a launch does not wait for old scripts | `UndoKept` is violated |
| `failedrestore` | WinINet may fail | `UndoKept` is violated |
| `foreign` | 2 machines | `ForeignKept` is violated |
| `profiles` | 3 names, 3 keys, 3 backends, 2 goroutines beside main's, 2 orders a launch, failing configs and starts, any number of launches | `TypeOK`, `KeysKept`, `OneNode`, `RunningDirKept`, `ActiveRight`, `BridgeRight`, `SelectorRight` |
| `spurious_switch` | a profile may be published inside a refresh | `OneNode` is violated |
| `status` | 2 statuses with 5 routes, 4-bit addresses, 1 change, 1 failure, change of options or crash, a config that registers the script at first, fair | `TypeOK`, `NoLostRefresh`, `ScriptFollows`, `Routed`, `SummarySaved`, `EventuallyShown` |
| `ssh` | 2 servers, 2 connections, 2 logins, 2 keys, 2 events, 1 window change, fair | the server's and the session's invariants, `FileWhole`, `SessionEnds` |
| `logs` | 1 writer, 5 lines, 2 clears, 2 openings, a switch of file, fair | the sink's and the viewer's invariants, `SelectionStable`, `EventuallyFetched` |

Why the bounds are enough. The registration remembers nothing across launches
but the files and the settings: two launches are a crash and its repair, three
are a repair that crashes too. Three backends are one running, one stopping and
one starting. Two user values tell a stale restore from a right one, and four
option sets switch each net and the environment on and off.

A snapshot that cannot be read is in the model but in none of these runs: a
relaunch then saves the program's own settings as the user's, so no undo can be
promised, and with the other failures of `relaunch` the states are too many.
`NeverStaleAlways` and `TypeCorrect` hold with it.

In `profiles`, `MaxOrders = 2` lets a second order overlap the first; the number
of launches is not bounded, because a launch starts from nothing but the disk.
Three names are one running, one chosen and one bystander. `RefreshRaces` is off
in `profiles` and on in `spurious_switch`: it says whether a profile may be
published between the two halves of a refresh.

In `status` one change is what a fetch can miss (`MaxChanges`), and one failure
(`MaxEvents`) may be of any call, of the bus, of a save, or a crash or a change of
options. `Width = 4` has every length of prefix from none to a single address; the
five routes are one unmasked, one inside each of the two reserved nets, one
address, one default route, and every host is decided.

In `ssh`, `MaxEvents = 2` is a choice and its revocation, or a crash and what
follows it; two servers are one being replaced by the next; `MaxWins = 1` is a
window change at any moment. A session shares nothing with the server but its
connection, so it is watched beside a server at rest (`AtRest`), not beside
every state of the other connection.

A buffer of two bytes with lines of up to three makes the eviction loop drop
none, some, all but one, and stop on a line that does not fit; a clear, a
reopening and a writer may fall between the two halves of a pull.

Deadlock is checked in all runs but `ssh`, where the bound on events ends the
behaviour. Elsewhere a crash, a reboot or a reopened window is always possible, so
the check says little there.

Fairness. In `WinProxy`, `FairSpec` asks weak fairness of each goroutine's steps
and of each watchdog or script: the operating system schedules them, and none
waits for anything but the steps of another process that has died. Nothing obliges
the user to act, the machine to reboot or the program to be started; healing is
therefore promised from the moment a watchdog has found its parent or a logon has
started the script. In `Status` the two goroutines go on (calls to the local node
return or time out), the ticker ticks, the timer fires, the UI loop turns, a
registration that has begun ends, and a browser that WinINet has told fetches the
script; the node need not change, nor anything fail. In `Ssh` the handler and the
goroutine that resizes are fair, and the other goroutines once the handler has
returned, when channel and console are closed: `ClosePseudoConsole`, the copy of
the output, the process and the client may take for ever, which is why the code
has its timers. `ViewerFairSpec` asks that the ticker keeps firing, that is that
pulls keep happening, and that a writer finishes its write.

## What the violated runs show

* `overlap`: two changes of the outbound settings in quick succession run two
  `ApplyOutbound` at once; one of them saves our proxy as the user's setting.
* `oldscript`: a relaunch right after a kill races the old watchdog's script, which
  deletes the new snapshot.
* `failedrestore`: if restoring fails at startup, the script is rewritten from the
  settings in force, which are ours, and later deletes the good snapshot.
* `foreign`: a foreign snapshot is ignored when read but overwritten when the
  local settings are saved.
* `spurious_switch`: a refresh that read the current profile just before a switch
  publishes the new one sets the dropdown back; the callback takes that for a
  choice and switches again, beside the first switch: two nodes run.

Seen while modelling, and not claimed as findings: Windows deletes the RunOnce
entry before running it, so that a second power cut leaves the repair to the next
start; nets left by a crash in the last lines of a restore survive the clean exits
of launches that register nothing, as unregistering stops early without a
snapshot; a .reg that cannot be rewritten leaves an older one armed; a user who
edits settings while ours are in force or before a pending RunOnce loses the edit
to the restore; a script in use is not told of new inputs once a config that could
not be saved denies it; a start of a session that fails waits for its console
without a timer; a second quit ends the process while the first is restoring; a
browser that fetched the script before the first status is not told of it; a
summary whose save failed is not saved again until it changes; a rename never
records the new name itself, because `Active` no longer finds the old one, and
relies on `startBackend` to; a profile whose start fails leaves nothing running; a
host key that could not be read or saved is not tried again until SSH is switched
off and on; a shell outlives the client that left it.

## Proofs

| Theorem | Says |
|---|---|
| `TypeCorrect` (`WinProxyProofs`) | every variable keeps its type and no goroutine uses a snapshot or backend it does not have; no assumption on use or faults |
| `Safe` (`WinProxySafety`) | `IInv` is an invariant, under `SafeUse` (below), which leaves out edits while something is to be restored, here and in the theorems that have it |
| `UndoAlways` | `UndoKept` under `SafeUse`: what undoes taken settings is always on disk |
| `ExitRestores` | `CleanExitRestores` under `SafeUse`, if restoring the environment does not fail |
| `SavedOnceAlways` (`WinProxyPromises`) | `SavedOnce` under `OneCall`: one call at a time, one machine, a readable snapshot, any other failure, any race with an old script |
| `NeverStaleAlways` | `NeverStale` under `FreshUse`: any number of goroutines and machines, edits at any time, any failure but of writing a file |
| `NetsAlways` | `NetsInPlace` under `NetsUse`: `SafeUse`, and no failure to install a net |
| `ExitLeavesNothing` | `CleanExitLeavesNothing` under `ExitUse`: `SafeUse`, and no failure to restore the environment or to remove |
| `ProxyGuarded` | `WinProxy` implements `ProxyGuard`, under `SafeUse` |
| `KeysAlways` (`ProfilesProofs`) | no node key is lost or in two profiles, whatever orders overlap and wherever the process dies |
| `TypesAlways` | types of `Profiles`; who starts or renames a profile knows which |
| `OneNodeAlways`, `RunningDirAlways`, `ActiveAlways`, `BridgeAlways` | the properties under `~overlapped`, unless `RefreshRaces` |
| `SelectorAlways` | `SelectorRight`, with no such condition |
| `NoRefreshLost`, `BrowsersTold`, `LastSummarySaved` (`StatusProofs`) | the window, the browsers and the saved summary follow the snapshot |
| `TypesAlways` | types of `Status` |
| `ScriptDecides`, `RoutedAlways` | the script decides by masks what `Goes` says by ranges, for every host, every width and all routes that fit |
| `FileTypeCorrect`, `FileStaysWhole` (`AtomicFileProofs`) | saves that do not overlap leave the file whole, whatever fails and wherever the power is cut |
| `KeyFileIsAtomic` (`SshProofs`) | the server's steps are steps of `AtomicFile`; so `KeyFileWhole` |
| `TypeCorrect` | types of the server and of a session |
| `OnlyTheAdmitted`, `AlwaysStoppable`, `OneHostKey` | the safety invariants of the server |
| `ConsoleStaysApart`, `OutputPrecedesExit`, `AllReleased` | the safety invariants of a session |
| `NumberedAlways`, `BoundedAlways` (`LogProofs`) | the sink's numbers describe its buffer exactly, its byte count too, and the bound holds |
| `SinceExact` | `Since(seq)` returns exactly the retained lines from `seq` on |
| `LogsStayApart` | a line lands only in the log that was set when its `Write` began |
| `ViewTypeAlways`, `InOrderAlways`, `CaughtUpAlways` | the invariants of the viewer |
| `SelectionNeverShifts` | a row that stays selected is the same line, in every step |

They hold for every set of profiles, settings, backends, servers, connections,
keys, statuses, writers, sizes, widths and directories, and for every number of
launches, orders, events, window changes, lines, clears and files. What is assumed
of the constants are the named assumptions of the modules, which TLC evaluates in
the runs.

`SafeUse` is what the safety of the registration needs: one registration call at a
time (`overlap`), one machine (`foreign`), no failure of the calls that read the
snapshot or set WinINet (`failedrestore`), scripts left to finish before a launch
(`oldscript`); each of these has a violated run. It also has the user edit
settings only when none is to be restored (`EditsSettled`): the code cannot keep
an edit that it is going to overwrite, so a snapshot that must hold the last
choice allows none. `NeverStaleAlways` says what remains true without that. A .reg
that cannot be written is allowed only where the user keeps to one choice and no
power cut falls inside a restore: otherwise the entry is armed with an older
choice, or with a script whose .reg is gone, and `UndoKept` fails, though no run
of its own shows it. All other failures, a crash between any two system calls,
power cuts in the middle of a script and reboots are in the theorem.

The condition of the theorems of `Profiles`, `~RefreshRaces`, is the one that
the run `spurious_switch` drops.

The argument for the registration. `UndoKept` follows from `TakenIsSaved` (taken
settings have a snapshot) and `SnapshotIsUsers` (a snapshot is what the user
chose), but neither survives a step alone:

* a call that captures must know that nothing is taken when it does, a call that
  restores must know that its local copy is the file: `UsesSnapshot` and `Untaken`
  say so label by label;
* a script that imports must import what the user chose (`ScriptIsUsers`), and one
  that deletes the snapshot must have imported first; a runner of an earlier
  launch must be gone before the files are rewritten (`RunnersApart`);
* a clean exit restores only if `Close` runs the unregistration, so settings that
  are taken while no call is under way must belong to the published backend, and
  that backend must have a listener (`Owned`); this is what makes
  `CleanExitRestores` inductive;
* the environment may stay ours after a restore that failed there: the snapshot is
  kept then, so that the next call restores it, and what the other conjuncts need
  is only that WinINet is back (`Back`), because the .reg takes the connection
  settings from WinINet and the variables from the snapshot;
* `TypeOK` and `LocalsKnown` carry the types and which labels imply which locals.

`WinProxySafety` groups the conjuncts in three (`SavedIsUsers`, `ScriptsReady`,
`CallsInOrder`) and proves each of the three for every action, in one lemma per
group of actions.

The other promises each have an invariant of their own, over as little as they
need. `SavedOnce`: a call that is about to save found nothing saved (`SavesNew`).
`NeverStale` has nothing to do with order: every copy a restore may use (the
snapshot, a call's own, the .reg while something is armed) holds ours or one of
`choices` (`CopiesFresh`), and `choices` is reset only when there is no such copy.
`NetsInPlace`: the nets go up one after the other before the settings are taken
(`NetsStaged`). `CleanExitLeavesNothing`: a snapshot has an owner that will remove
it, and once it is gone what is left of the nets can be read off the call's place
(`Cleaned`). For the refinement, every step is shown to be of one of six kinds
(`Guarded`), each of which is an action of `ProxyGuard` or a stutter.

The argument for files and keys. `FileWhole` is inductive with `Alone`: while no
two saves have overlapped there is one writer, its handle is on the `.tmp` name,
and by its place the `.tmp` is empty, holds a complete text, or holds one that is
on the disk. `OneHostKey` adds `KeyInv`: a server makes a key only while there is
no file, its `.tmp` holds that very key, and a server that is ready has the key of
the file. `Stoppable` needs `ListenInv`: until the node is closed at most one
thread has a server, to publish or to close, and while it does that server is the
listener and nothing is published. `Admitted` needs `AdmitInv`: the current mode
and login are among those seen by every open connection, and each stage of a
connection keeps what was asked there.

The argument for a session. `PtyInv` adds to the properties what holds of the
console at each place of the handler (`ConsoleStage`) and of the output while no
timer has fired (`OutputStage`): the drain begins when the closer is done, the
closer is done when the console is closed, and only then does a reader that
delivers everything end. The reset of a restart is PtyInit again.

The sink's proof strengthens `Numbered` with the sequence's type (`SinkInv`): an
eviction is a `SubSeq` from `k + 1`, which shifts every index and `first` by the
same `k`. `LogsStayApart` needs no more than the types of `disk`. The byte count
needs sums of the parts of a sequence. What induction would say of them is proved
by the least counterexample, which exists because the natural numbers are well
founded (`LeastOf`); so are the powers of two of the PAC script.

The viewer's invariant is `ViewInv`. Its lines are in order and end where `vnext`
says (`Ordered`); it is never ahead of the sink, and before it learns of a Clear it
has fetched nothing numbered after it (`Trails`); the lines it has fetched and
the sink still keeps are the last it shows (`Kept`), so that dropping from the front
by the sink's count leaves the sink's own; and after a pull nothing that was dropped
is shown until more is written (`Settled`), which makes `Kept` the equality that
`CaughtUp` states.

`KeysKept` is inductive beside types alone: a directory is made without a key,
moved to a free name, given the key of its node, or removed with its key, and one
lemma says of each that no key is lost. What needs care is that the name written
to is a profile: a goroutine about to start a node holds a Backend that nobody
else starts, closes or forgets (`Held`), and `Active` names a profile because
`List` has made one (the least element of a set of numbers exists by
well-foundedness).

The rest of `Profiles` is `OneInv`. While no order has overlapped another, one
goroutine at most is under way, and its place says how far the only Backend that
has been made and not closed has got, and where the App and the bridge point
(`OneChain`); a node that runs is in its own directory with its own key (`OwnDir`);
and `active-profile.txt` names the current profile, or the one about to be published
(`ActiveKnown`). `SelectorRight` needs `SelKnown` only: the
dropdown differs from the current profile only while a refresh is due or
selecting, or an order is under way.

The status argument is `FlowInv`. A goroutine has something to tell only between
its store and its tell (`Holds`); recorded inputs are those of the current
snapshot, and a browser whose script was fetched before any were recorded is
`untold` (`Scripts`); without overlapping or failed saves one goroutine at most is
about to save, and what it saves is the last summary (`SavesInOrder`).

The script's argument is about bits. A prefix length's mask has the bits from
`Width - bits` up (`MaskBits`), two numbers that agree in those bits have the same
quotient by that power of two (`BitsAgree`), so a rule is its prefix
(`RuleIsPrefix`), and so is a rule made from the masked address
(`MaskedIsPrefix`). A route inside the tailnet's range makes no rule and needs none
if it fits there.

Only model-checked: `DeadProxyHealed`, `EventuallyShown`, `SessionEnds` and
`EventuallyFetched`, which are liveness under fairness and out of the prover's
reach. Every other property of a passing run is a theorem.

## Not modelled

* `httpproxy.go`: forwarding and tunnels are library copies without state of
  their own.
* `runWithPipes`: the order of its copies and its wait is in a comment there; who
  holds the pipes is the command's business.
* `debug.go` drives the same handlers as the window, on the UI goroutine.
* `guistate.go`, `crashlog*.go`, `fatal*.go`, `cmd/`: a file read once and written
  once, a redirect, a message box, wrappers and test servers.
* The fields of a configuration, their editing while another goroutine reads
  them, and the widgets that show them.

## Plan

1. Proofs: that one `PtySession` step leaves the others' handles alone, for any
   number of sessions.
2. `Profiles` with `WinProxy`: a switch's registration beside its directories.
3. The CONNECT tunnel, if the proxy grows state of its own.
