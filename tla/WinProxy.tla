------------------------------ MODULE WinProxy ------------------------------
(***************************************************************************)
(* The registration of tswipoexp as the Windows user's proxy, and its      *)
(* undoing: registerSystemProxy and unregisterSystemProxy, called by       *)
(* Backend.Start, Backend.ApplyOutbound, Backend.Close and main, together  *)
(* with the three safety nets, the JSON snapshot read at the next start,   *)
(* the RunOnce script run at the next logon and the watchdog process that  *)
(* runs the same script when tswipoexp dies.                               *)
(*                                                                         *)
(* One action is one system call that other processes, or a process that   *)
(* starts after a crash, can observe.  The user's WinINet settings are one *)
(* value, and so are the three proxy environment variables.                *)
(***************************************************************************)
EXTENDS Naturals

CONSTANTS
    Goroutines,     \* goroutines that call into the registration code
    Backends,       \* identities of Backend objects
    NoBackend,      \* the nil *Backend
    Configs,        \* outbound settings a profile's config.json may hold
    UserValues,     \* settings the user may have chosen
    Machines,       \* values of machineAndUser()
    NoFile,         \* a file that does not exist
    MaxEpochs,      \* bound: launches of the program
    Faults,         \* the calls that may fail
    Ops,            \* what may happen: "apply", "switch", "quit", "edit" by the
                    \* user, "powercut" for one in the middle of a restore script
    RestoresSettle, \* no launch while a restore script or watchdog is still at work
    EditsSettled    \* the user edits settings only when no restore is due

Modes == {"pac", "static"}
OurEnv == "proxy"

Options == [register: BOOLEAN, mode: Modes, envVars: BOOLEAN,
            watchdog: BOOLEAN, runOnce: BOOLEAN]
NoOptions == [register |-> FALSE, mode |-> "pac", envVars |-> FALSE,
              watchdog |-> FALSE, runOnce |-> FALSE]

InetValues == UserValues \cup Modes
EnvValues == UserValues \cup {OurEnv}
Chosen == [inet: UserValues, env: UserValues]
Settings == [inet: InetValues, env: EnvValues]
Snapshots == [machine: Machines, inet: InetValues, env: EnvValues]

FaultKinds == {"load", "capture", "save", "files", "runOnce", "watchdog",
               "setInet", "setEnv", "removeJson", "removeNets", "config", "start", "listen"}

ASSUME ValuesAssumption ==
    /\ UserValues \cap (Modes \cup {OurEnv}) = {}
    /\ NoFile \notin Snapshots
    /\ NoFile \notin Settings
    /\ NoBackend \notin Backends
ASSUME ParametersAssumption ==
    /\ MaxEpochs \in Nat \ {0}
    /\ Configs \subseteq Options
    /\ Faults \subseteq FaultKinds
    /\ RestoresSettle \in BOOLEAN
    /\ EditsSettled \in BOOLEAN

(***************************************************************************)
(* Runner 0 is the script started from RunOnce at logon; runner e is the   *)
(* watchdog process started by launch e, which outlives its parent.        *)
(***************************************************************************)
Logon == 0
Runners == 0 .. MaxEpochs
RunnerStates == {"none", "starting", "waiting", "import", "delRunOnce",
                 "delJson", "delReg", "delCmd"}
InScript == {"import", "delRunOnce", "delJson", "delReg", "delCmd"}

Unregistering == {"u.load", "u.watchdog", "u.inet", "u.env", "u.json",
                  "u.runOnce", "u.cmd", "u.reg"}
Registering == {"r.load", "r.capture", "r.save", "r.reg", "r.cmd", "r.runOnce",
                "r.watchdog", "r.inet", "r.env"}
Labels == Unregistering \cup Registering \cup
          {"idle", "stop", "apply", "done", "failed", "publish", "listen"}
Jobs == {"none", "launch", "apply", "switch", "quit", "main"}

VARIABLES
    inet, env,      \* the WinINet settings and environment variables in force
    want,           \* history: what the user last chose
    choices,        \* history: what the user chose since all was quiet, the
                    \* last choice made when it was included
    machine,        \* what machineAndUser() returns
    json,           \* proxy-restore.json
    regFile,        \* restore-proxy.reg
    cmdFile,        \* whether restore-proxy.cmd exists
    runOnce,        \* whether the RunOnce entry exists
    runner,         \* watchdog processes and restore scripts
    proc,           \* "running", or how the last process ended
    epoch,          \* launches so far
    asked,          \* history: options of this launch's last registration
    backend,        \* App.backend
    cfg,            \* Backend.cfg of each backend, edited in place
    listens,        \* whether Backend.proxyLn is set
    pc, job,        \* where each goroutine is, and on whose behalf
    bk,             \* the backend each goroutine works on
    prev,           \* its local copy of the saved settings
    opt             \* its proxyRegistration argument

user == <<want, choices>>
world == <<inet, env, user>>
nets == <<regFile, cmdFile, runOnce>>
disk == <<machine, json, nets>>
process == <<proc, epoch, asked, backend, cfg, listens>>
locals == <<job, bk, prev, opt>>
vars == <<world, disk, runner, process, pc, locals>>

Up == proc = "running"
Idle(g) == pc[g] = "idle"
Fails(kind) == kind \in Faults
Goto(g, label) == pc' = [pc EXCEPT ![g] = label]
ThisMachine(file) == file # NoFile /\ file.machine = machine
Restored(s) == s.inet = want.inet /\ s.env = want.env
InForce == [inet |-> inet, env |-> env]
Taken == ~Restored(InForce)

Init ==
    /\ \E i, e \in UserValues : /\ inet = i /\ env = e
                                /\ want = [inet |-> i, env |-> e]
    /\ choices = {want}
    /\ machine \in Machines
    /\ json = NoFile /\ regFile = NoFile /\ cmdFile = FALSE /\ runOnce = FALSE
    /\ runner = [r \in Runners |-> "none"]
    /\ proc = "exited" /\ epoch = 0 /\ asked = NoOptions /\ backend = NoBackend
    /\ cfg = [b \in Backends |-> NoOptions]
    /\ listens = [b \in Backends |-> FALSE]
    /\ pc = [g \in Goroutines |-> "idle"]
    /\ job = [g \in Goroutines |-> "none"]
    /\ bk = [g \in Goroutines |-> NoBackend]
    /\ prev = [g \in Goroutines |-> NoFile]
    /\ opt = [g \in Goroutines |-> NoOptions]
-----------------------------------------------------------------------------
(***************************************************************************)
(* unregisterSystemProxy                                                   *)
(***************************************************************************)
UnLoad(g) ==
    /\ pc[g] = "u.load"
    /\ \/ Fails("load") /\ Goto(g, "failed") /\ UNCHANGED prev
       \/ /\ prev' = [prev EXCEPT ![g] = json]
          /\ Goto(g, "u.watchdog")
    /\ UNCHANGED <<world, disk, runner, process, job, bk, opt>>

\* Mutant: the snapshot is dropped before the settings are back.
UnWatchdogForgetsFirst(g) ==
    /\ pc[g] = "u.watchdog"
    /\ runner' = [runner EXCEPT ![epoch] = "none"]
    /\ Goto(g, IF ThisMachine(prev[g]) THEN "u.json" ELSE "done")
    /\ UNCHANGED <<world, disk, process, locals>>

\* The early return and the restore path both begin with stopWatchdog.
UnWatchdog(g) ==
    /\ pc[g] = "u.watchdog"
    /\ runner' = [runner EXCEPT ![epoch] = "none"]
    /\ Goto(g, IF ThisMachine(prev[g]) THEN "u.inet" ELSE "done")
    /\ UNCHANGED <<world, disk, process, locals>>

\* Mutant: the flags are restored without the server and script addresses.
RestoreInetFlagsOnly(g) ==
    /\ pc[g] = "u.inet"
    /\ inet' = "flags only" /\ Goto(g, "u.env")
    /\ UNCHANGED <<env, user, disk, runner, process, locals>>

RestoreInet(g) ==
    /\ pc[g] = "u.inet"
    /\ \/ Fails("setInet") /\ Goto(g, "failed") /\ UNCHANGED inet
       \/ inet' = prev[g].inet /\ Goto(g, "u.env")
    /\ UNCHANGED <<env, user, disk, runner, process, locals>>

\* Mutant: a failure to restore the variables is logged and not returned.
RestoreEnvLogged(g) ==
    /\ pc[g] = "u.env"
    /\ Goto(g, "u.json")
    /\ \/ Fails("setEnv") /\ UNCHANGED env
       \/ env' = prev[g].env
    /\ UNCHANGED <<inet, user, disk, runner, process, locals>>

RestoreEnv(g) ==
    /\ pc[g] = "u.env"
    /\ \/ Fails("setEnv") /\ Goto(g, "failed") /\ UNCHANGED env
       \/ env' = prev[g].env /\ Goto(g, "u.json")
    /\ UNCHANGED <<inet, user, disk, runner, process, locals>>

RemoveSaved(g) ==
    /\ pc[g] = "u.json"
    /\ \/ Fails("removeJson") /\ UNCHANGED json
       \/ json' = NoFile
    /\ Goto(g, "u.runOnce")
    /\ UNCHANGED <<world, machine, nets, runner, process, locals>>

\* Mutant: removing the entry returns before the files are removed.
RemoveRunOnceOnly(g) ==
    /\ pc[g] = "u.runOnce"
    /\ runOnce' = FALSE /\ Goto(g, "done")
    /\ UNCHANGED <<world, machine, json, regFile, cmdFile, runner, process, locals>>

\* removeCrashRestore: the entry, then the .cmd, then the .reg; the first
\* failure ends it, and is only logged.
RemoveRunOnce(g) ==
    /\ pc[g] = "u.runOnce"
    /\ \/ Fails("removeNets") /\ Goto(g, "done") /\ UNCHANGED runOnce
       \/ runOnce' = FALSE /\ Goto(g, "u.cmd")
    /\ UNCHANGED <<world, machine, json, regFile, cmdFile, runner, process, locals>>

RemoveCmd(g) ==
    /\ pc[g] = "u.cmd"
    /\ \/ Fails("removeNets") /\ Goto(g, "done") /\ UNCHANGED cmdFile
       \/ cmdFile' = FALSE /\ Goto(g, "u.reg")
    /\ UNCHANGED <<world, machine, json, regFile, runOnce, runner, process, locals>>

RemoveReg(g) ==
    /\ pc[g] = "u.reg"
    /\ \/ Fails("removeNets") /\ UNCHANGED regFile
       \/ regFile' = NoFile
    /\ Goto(g, "done")
    /\ UNCHANGED <<world, machine, json, cmdFile, runOnce, runner, process, locals>>

Unregister(g) ==
    \/ UnLoad(g) \/ UnWatchdog(g) \/ RestoreInet(g) \/ RestoreEnv(g)
    \/ RemoveSaved(g) \/ RemoveRunOnce(g) \/ RemoveCmd(g) \/ RemoveReg(g)
-----------------------------------------------------------------------------
(***************************************************************************)
(* registerSystemProxy                                                     *)
(***************************************************************************)
\* Mutant: the settings are captured afresh at every registration.
RegLoadNothing(g) ==
    /\ pc[g] = "r.load"
    /\ prev' = [prev EXCEPT ![g] = NoFile]
    /\ Goto(g, "r.capture")
    /\ UNCHANGED <<world, disk, runner, process, job, bk, opt>>

\* A file that cannot be read, or is another machine's, counts as no file.
RegLoad(g) ==
    /\ pc[g] = "r.load"
    /\ \/ /\ ThisMachine(json)
          /\ prev' = [prev EXCEPT ![g] = json]
          /\ Goto(g, "r.reg")
       \/ /\ ~ThisMachine(json) \/ Fails("load")
          /\ prev' = [prev EXCEPT ![g] = NoFile]
          /\ Goto(g, "r.capture")
    /\ UNCHANGED <<world, disk, runner, process, job, bk, opt>>

Capture(g) ==
    /\ pc[g] = "r.capture"
    /\ \/ Fails("capture") /\ Goto(g, "idle") /\ UNCHANGED prev
       \/ /\ prev' = [prev EXCEPT ![g] = [machine |-> machine, inet |-> inet, env |-> env]]
          /\ Goto(g, "r.save")
    /\ UNCHANGED <<world, disk, runner, process, job, bk, opt>>

Save(g) ==
    /\ pc[g] = "r.save"
    /\ \/ Fails("save") /\ Goto(g, "idle") /\ UNCHANGED json
       \/ json' = prev[g] /\ Goto(g, "r.reg")
    /\ UNCHANGED <<world, machine, nets, runner, process, locals>>

\* Mutant: a .reg that is already there is not rewritten.
WriteRegOnce(g) ==
    /\ pc[g] = "r.reg"
    /\ regFile' = IF regFile = NoFile THEN [inet |-> inet, env |-> prev[g].env] ELSE regFile
    /\ Goto(g, "r.cmd")
    /\ UNCHANGED <<world, machine, json, cmdFile, runOnce, runner, process, locals>>

\* writeCrashRestoreFiles: the .reg carries the connection blob as it is
\* now and the environment as it was saved.  A failure is only logged.
WriteReg(g) ==
    /\ pc[g] = "r.reg"
    /\ \/ Fails("files") /\ Goto(g, "r.runOnce") /\ UNCHANGED regFile
       \/ /\ regFile' = [inet |-> inet, env |-> prev[g].env]
          /\ Goto(g, "r.cmd")
    /\ UNCHANGED <<world, machine, json, cmdFile, runOnce, runner, process, locals>>

WriteCmd(g) ==
    /\ pc[g] = "r.cmd"
    /\ Goto(g, "r.runOnce")
    /\ \/ Fails("files") /\ UNCHANGED cmdFile
       \/ cmdFile' = TRUE
    /\ UNCHANGED <<world, machine, json, regFile, runOnce, runner, process, locals>>

\* Mutant: the entry follows the watchdog option.
SetRunOnceAsWatchdog(g) ==
    /\ pc[g] = "r.runOnce"
    /\ Goto(g, "r.watchdog")
    /\ runOnce' = opt[g].watchdog
    /\ UNCHANGED <<world, machine, json, regFile, cmdFile, runner, process, locals>>

\* installRunOnce or removeRunOnce, as the options say.
SetRunOnce(g) ==
    /\ pc[g] = "r.runOnce"
    /\ Goto(g, "r.watchdog")
    /\ \/ Fails("runOnce") /\ UNCHANGED runOnce
       \/ runOnce' = opt[g].runOnce
    /\ UNCHANGED <<world, machine, json, regFile, cmdFile, runner, process, locals>>

\* startWatchdog finds a running one and returns, or starts one;
\* stopWatchdog kills it.
SetWatchdog(g) ==
    /\ pc[g] = "r.watchdog"
    /\ Goto(g, "r.inet")
    /\ \/ opt[g].watchdog /\ (runner[epoch] # "none" \/ Fails("watchdog")) /\ UNCHANGED runner
       \/ /\ opt[g].watchdog /\ runner[epoch] = "none"
          /\ runner' = [runner EXCEPT ![epoch] = "starting"]
       \/ ~opt[g].watchdog /\ runner' = [runner EXCEPT ![epoch] = "none"]
    /\ UNCHANGED <<world, disk, process, locals>>

TakeInet(g) ==
    /\ pc[g] = "r.inet"
    /\ \/ Fails("setInet") /\ Goto(g, "idle") /\ UNCHANGED <<inet, asked>>
       \/ /\ inet' = opt[g].mode
          /\ asked' = opt[g]
          /\ Goto(g, "r.env")
    /\ UNCHANGED <<env, user, disk, runner, proc, epoch, backend, cfg, listens, locals>>

\* Without EnvVars the saved variables are put back.
TakeEnv(g) ==
    /\ pc[g] = "r.env"
    /\ Goto(g, "idle")
    /\ \/ Fails("setEnv") /\ UNCHANGED env
       \/ env' = IF opt[g].envVars THEN OurEnv ELSE prev[g].env
    /\ UNCHANGED <<inet, user, disk, runner, process, locals>>

Register(g) ==
    \/ RegLoad(g) \/ Capture(g) \/ Save(g) \/ WriteReg(g) \/ WriteCmd(g)
    \/ SetRunOnce(g) \/ SetWatchdog(g) \/ TakeInet(g) \/ TakeEnv(g)
-----------------------------------------------------------------------------
(***************************************************************************)
(* Backend.Start, ApplyOutbound and Close, and who calls them.             *)
(***************************************************************************)
Spawn(g, what, label, b) ==
    /\ Idle(g)
    /\ Goto(g, label)
    /\ job' = [job EXCEPT ![g] = what]
    /\ bk' = [bk EXCEPT ![g] = b]
    /\ prev' = [prev EXCEPT ![g] = NoFile]
    /\ opt' = [opt EXCEPT ![g] = NoOptions]

\* The event loop runs once main's own startBackend has returned, and until
\* main leaves it.
Leaving == \E g \in Goroutines : job[g] = "main"
EventLoop == Up /\ ~Leaving /\ \A g \in Goroutines : job[g] = "launch" => Idle(g)

\* main: restore what an earlier run left, then start the active profile.
Launch(g) ==
    /\ ~Up
    /\ epoch < MaxEpochs
    /\ RestoresSettle => \A r \in Runners : runner[r] = "none"
    /\ proc' = "running"
    /\ epoch' = epoch + 1
    /\ asked' = NoOptions
    /\ Spawn(g, "launch", "u.load", NoBackend)
    /\ UNCHANGED <<world, disk, runner, backend, cfg, listens>>

\* applyOutbound: the UI thread edits the live config and saves it, and a
\* goroutine does the rest unless the save failed.
Apply(g) ==
    /\ "apply" \in Ops /\ EventLoop
    /\ backend # NoBackend
    /\ \E c \in Configs : c # cfg[backend] /\ cfg' = [cfg EXCEPT ![backend] = c]
    /\ \/ Fails("config") /\ UNCHANGED <<pc, locals>>
       \/ Spawn(g, "apply", "apply", backend)
    /\ UNCHANGED <<world, disk, runner, proc, epoch, asked, backend, listens>>

\* switchProfile, and applyOutbound with a changed address.
Switch(g) ==
    /\ "switch" \in Ops /\ EventLoop
    /\ Spawn(g, "switch", "stop", NoBackend)
    /\ UNCHANGED <<world, disk, runner, process>>

\* quit from the window, the menu or the tray.
Quit(g) ==
    /\ "quit" \in Ops /\ EventLoop
    /\ Spawn(g, "quit", "stop", NoBackend)
    /\ UNCHANGED <<world, disk, runner, process>>

\* ApplyOutbound does nothing without a listener.
ApplyBegin(g) ==
    /\ pc[g] = "apply"
    /\ Goto(g, IF listens[bk[g]] THEN "u.load" ELSE "idle")
    /\ UNCHANGED <<world, disk, runner, process, locals>>

\* Mutant: the backend is dropped without Close.
StopBackendDrops(g) ==
    /\ pc[g] = "stop"
    /\ backend' = NoBackend
    /\ bk' = [bk EXCEPT ![g] = backend]
    /\ Goto(g, "done")
    /\ UNCHANGED <<world, disk, runner, proc, epoch, asked, cfg, listens, job, prev, opt>>

\* stopBackend takes App.backend; Close unregisters if there is a listener.
StopBackend(g) ==
    /\ pc[g] = "stop"
    /\ backend' = NoBackend
    /\ bk' = [bk EXCEPT ![g] = backend]
    /\ Goto(g, IF backend # NoBackend /\ listens[backend] THEN "u.load" ELSE "done")
    /\ UNCHANGED <<world, disk, runner, proc, epoch, asked, cfg, listens, job, prev, opt>>

\* ApplyOutbound after unregisterSystemProxy: an error or registration
\* switched off ends it, otherwise it registers with the config of now.
ApplyRest(g) ==
    /\ job[g] = "apply" /\ pc[g] \in {"done", "failed"}
    /\ \/ /\ pc[g] = "done" /\ cfg[bk[g]].register
          /\ opt' = [opt EXCEPT ![g] = cfg[bk[g]]]
          /\ Goto(g, "r.load")
       \/ /\ pc[g] = "failed" \/ ~cfg[bk[g]].register
          /\ Goto(g, "idle") /\ UNCHANGED opt
    /\ UNCHANGED <<world, disk, runner, process, job, bk, prev>>

\* main and switchProfile go on to startBackend whatever the outcome.
StartNext(g) ==
    /\ job[g] \in {"launch", "switch"} /\ pc[g] \in {"done", "failed"}
    /\ Goto(g, "publish")
    /\ UNCHANGED <<world, disk, runner, process, locals>>

\* startBackend loads a profile's config, or returns without it, and publishes
\* the new backend.
Publish(g) ==
    /\ pc[g] = "publish"
    /\ \/ /\ Fails("config")
          /\ Goto(g, "idle") /\ UNCHANGED <<backend, bk, cfg, listens>>
       \/ /\ \E b \in Backends, c \in Configs :
                /\ b # backend /\ \A h \in Goroutines : Idle(h) \/ bk[h] # b
                /\ backend' = b
                /\ bk' = [bk EXCEPT ![g] = b]
                /\ cfg' = [cfg EXCEPT ![b] = c]
                /\ listens' = [listens EXCEPT ![b] = FALSE]
          /\ Goto(g, "listen")
    /\ UNCHANGED <<world, disk, runner, proc, epoch, asked, job, prev, opt>>

\* Backend.Start: tsnet may fail (startBackend then drops the backend), the
\* listener may fail (no registration), or registration follows if configured.
StartBackend(g) ==
    /\ pc[g] = "listen"
    /\ \/ /\ Fails("start")
          /\ backend' = NoBackend
          /\ Goto(g, "idle") /\ UNCHANGED <<listens, opt>>
       \/ /\ Fails("listen")
          /\ Goto(g, "idle") /\ UNCHANGED <<backend, listens, opt>>
       \/ /\ listens' = [listens EXCEPT ![bk[g]] = TRUE]
          /\ opt' = [opt EXCEPT ![g] = cfg[bk[g]]]
          /\ Goto(g, IF cfg[bk[g]].register THEN "r.load" ELSE "idle")
          /\ UNCHANGED backend
    /\ UNCHANGED <<world, disk, runner, proc, epoch, asked, cfg, job, bk, prev>>

\* The process is gone, with its goroutines; its watchdog is not.
Die(how) ==
    /\ proc' = how
    /\ backend' = NoBackend
    /\ cfg' = [b \in Backends |-> NoOptions]
    /\ listens' = [b \in Backends |-> FALSE]
    /\ pc' = [g \in Goroutines |-> "idle"]
    /\ job' = [g \in Goroutines |-> "none"]
    /\ bk' = [g \in Goroutines |-> NoBackend]
    /\ prev' = [g \in Goroutines |-> NoFile]
    /\ opt' = [g \in Goroutines |-> NoOptions]
    /\ UNCHANGED <<epoch, asked>>

\* quit's goroutine ends the event loop; main then runs stopBackend itself,
\* which finds a backend only if another goroutine published one meanwhile.
LeaveLoop(g) ==
    /\ job[g] = "quit" /\ pc[g] \in {"done", "failed"} /\ ~Leaving
    /\ Goto(g, "stop")
    /\ job' = [job EXCEPT ![g] = "main"]
    /\ UNCHANGED <<world, disk, runner, process, bk, prev, opt>>

Exit(g) ==
    /\ job[g] = "main" /\ pc[g] \in {"done", "failed"}
    /\ Die("exited")
    /\ UNCHANGED <<world, disk, runner>>

Lifecycle(g) ==
    \/ ApplyBegin(g) \/ StopBackend(g) \/ ApplyRest(g) \/ StartNext(g)
    \/ Publish(g) \/ StartBackend(g) \/ LeaveLoop(g) \/ Exit(g)
-----------------------------------------------------------------------------
(***************************************************************************)
(* The watchdog process and the restore script.                            *)
(***************************************************************************)
ParentAlive(r) == Up /\ epoch = r

\* Get-Process -Id: a parent that is already gone ends the watchdog.
FindParent(r) ==
    /\ r # Logon /\ runner[r] = "starting"
    /\ runner' = [runner EXCEPT ![r] = IF ParentAlive(r) THEN "waiting" ELSE "none"]
    /\ UNCHANGED <<world, disk, process, pc, locals>>

\* Mutant: the script's presence is tested the wrong way round.
ParentExitedInverted(r) ==
    /\ r # Logon /\ runner[r] = "waiting" /\ ~ParentAlive(r)
    /\ runner' = [runner EXCEPT ![r] = IF cmdFile THEN "none" ELSE "import"]
    /\ UNCHANGED <<world, disk, process, pc, locals>>

\* WaitForExit returned; the script is run if it is there.
ParentExited(r) ==
    /\ r # Logon /\ runner[r] = "waiting" /\ ~ParentAlive(r)
    /\ runner' = [runner EXCEPT ![r] = IF cmdFile THEN "import" ELSE "none"]
    /\ UNCHANGED <<world, disk, process, pc, locals>>

\* cmd.exe reads the batch file again before every line.
Line(r, label, next) ==
    /\ runner[r] = label
    /\ cmdFile
    /\ runner' = [runner EXCEPT ![r] = next]

ScriptGone(r) ==
    /\ runner[r] \in InScript /\ ~cmdFile
    /\ runner' = [runner EXCEPT ![r] = "none"]
    /\ UNCHANGED <<world, disk, process, pc, locals>>

\* Mutant: the import names a file that is not there.
ImportNothing(r) ==
    /\ Line(r, "import", "delRunOnce")
    /\ UNCHANGED <<world, disk, process, pc, locals>>

\* An import without its file fails silently and the script goes on.
Import(r) ==
    /\ Line(r, "import", "delRunOnce")
    /\ IF regFile = NoFile THEN UNCHANGED <<inet, env>>
       ELSE inet' = regFile.inet /\ env' = regFile.env
    /\ UNCHANGED <<user, disk, process, pc, locals>>

DelRunOnce(r) ==
    /\ Line(r, "delRunOnce", "delJson")
    /\ runOnce' = FALSE
    /\ UNCHANGED <<world, machine, json, regFile, cmdFile, process, pc, locals>>

DelJson(r) ==
    /\ Line(r, "delJson", "delReg")
    /\ json' = NoFile
    /\ UNCHANGED <<world, machine, nets, process, pc, locals>>

DelReg(r) ==
    /\ Line(r, "delReg", "delCmd")
    /\ regFile' = NoFile
    /\ UNCHANGED <<world, machine, json, cmdFile, runOnce, process, pc, locals>>

DelCmd(r) ==
    /\ Line(r, "delCmd", "none")
    /\ cmdFile' = FALSE
    /\ UNCHANGED <<world, machine, json, regFile, runOnce, process, pc, locals>>

Restorer(r) ==
    \/ FindParent(r) \/ ParentExited(r) \/ ScriptGone(r) \/ Import(r)
    \/ DelRunOnce(r) \/ DelJson(r) \/ DelReg(r) \/ DelCmd(r)
-----------------------------------------------------------------------------
(***************************************************************************)
(* The environment.                                                        *)
(***************************************************************************)
\* A panic, a kill, or the stick pulled from under the executable.
Crash ==
    /\ Up
    /\ Die("crashed")
    /\ UNCHANGED <<world, disk, runner>>

\* A power cut or a reboot, and the next logon, which removes the RunOnce
\* entry and runs it.  The computer may come back under another name.
Reboot ==
    /\ "powercut" \in Ops \/ \A r \in Runners : runner[r] \notin InScript
    /\ Die(IF Up THEN "crashed" ELSE proc)
    /\ machine' \in Machines
    /\ runOnce' = FALSE
    /\ runner' = [r \in Runners |->
                     IF r = Logon /\ runOnce /\ cmdFile THEN "import" ELSE "none"]
    /\ UNCHANGED <<world, json, regFile, cmdFile>>

NothingPending ==
    /\ json = NoFile /\ ~runOnce
    /\ \A r \in Runners : runner[r] = "none"

Quiet == NothingPending /\ \A g \in Goroutines : Idle(g)

\* The user chooses other settings. A restore that is due when they do will
\* still bring an older choice back.
Edit ==
    /\ "edit" \in Ops
    /\ EditsSettled => Quiet
    /\ \E i, e \in UserValues :
          inet' = i /\ env' = e /\ want' = [inet |-> i, env |-> e]
    /\ choices' = {want'} \cup IF Quiet THEN {} ELSE choices
    /\ UNCHANGED <<disk, runner, process, pc, locals>>

GoStep(g) == Unregister(g) \/ Register(g) \/ Lifecycle(g)
UiStep(g) == Launch(g) \/ Apply(g) \/ Switch(g) \/ Quit(g)

Next ==
    \/ \E g \in Goroutines : GoStep(g) \/ UiStep(g)
    \/ \E r \in Runners : Restorer(r)
    \/ Crash \/ Reboot \/ Edit

Spec == Init /\ [][Next]_vars

\* Goroutines and processes the scheduler does not starve; nothing obliges
\* the user to act or the machine to reboot.
Fairness ==
    /\ \A g \in Goroutines : WF_vars(GoStep(g))
    /\ \A r \in Runners : WF_vars(Restorer(r))

FairSpec == Spec /\ Fairness
-----------------------------------------------------------------------------
(***************************************************************************)
(* Properties                                                              *)
(***************************************************************************)
\* Every variable keeps its type: settings, files, processes and goroutines.
TypeOK ==
    /\ inet \in InetValues /\ env \in EnvValues
    /\ want \in Chosen /\ choices \in SUBSET Chosen
    /\ machine \in Machines
    /\ json \in Snapshots \cup {NoFile}
    /\ regFile \in Settings \cup {NoFile}
    /\ cmdFile \in BOOLEAN /\ runOnce \in BOOLEAN
    /\ runner \in [Runners -> RunnerStates]
    /\ proc \in {"running", "exited", "crashed"}
    /\ epoch \in 0 .. MaxEpochs
    /\ asked \in Options
    /\ backend \in Backends \cup {NoBackend}
    /\ cfg \in [Backends -> Options]
    /\ listens \in [Backends -> BOOLEAN]
    /\ pc \in [Goroutines -> Labels] /\ job \in [Goroutines -> Jobs]
    /\ bk \in [Goroutines -> Backends \cup {NoBackend}]
    /\ prev \in [Goroutines -> Snapshots \cup {NoFile}]
    /\ opt \in [Goroutines -> Options]

\* Whenever the user's settings are not in force, the snapshot that undoes it
\* is on disk, is this machine's and holds what the user chose, so the next
\* start can put it back (main, winproxy_windows.go:105).
UndoKept == Taken => ThisMachine(json) /\ Restored(json)

\* "Calling it while already registered is fine: the original saved values are
\* kept" (winproxy_windows.go:81): a snapshot is never replaced by another.
SavedOnce == [][json # NoFile /\ json' # NoFile => json' = json]_vars

\* "Leave the file alone so that machine can restore them if this stick returns
\* to it" (winproxy_windows.go:89): a running program never changes or removes
\* another machine's snapshot.
ForeignKept ==
    [][Up /\ json # NoFile /\ ~ThisMachine(json) => json' = json]_vars

\* The settings in force are ours or what the user chose: no restore, by the
\* program or by a left-over script (winproxy_windows.go:267), brings older ones
\* back. A choice made while a restore is due, with the settings taken or a
\* script or watchdog left, is overwritten by it; what comes back then is one
\* of the choices made since the last that found nothing due, never an older.
NeverStale ==
    /\ inet \in Modes \cup {c.inet : c \in choices}
    /\ env \in {OurEnv} \cup {c.env : c \in choices}

\* While the running program has taken the settings, every net its options
\* ask for is in place (winproxy_windows.go:105), but for the watchdog that
\* unregisterSystemProxy kills just before it restores.
NetsInPlace ==
    Up /\ inet \in Modes /\ asked # NoOptions =>
        /\ asked.runOnce => /\ runOnce /\ cmdFile
                            /\ regFile # NoFile /\ Restored(regFile)
        /\ asked.watchdog => \/ runner[epoch] # "none"
                             \/ \E g \in Goroutines : pc[g] = "u.inet"

\* "Quit (window or tray) stops everything and restores the proxy settings"
\* (DESIGN.md:265).
CleanExitRestores == proc = "exited" => ~Taken

\* A launch that registered and quits leaves no snapshot, script, entry or
\* watchdog behind (winproxy_restore.go:17).
CleanExitLeavesNothing == proc = "exited" /\ asked # NoOptions =>
    NothingPending /\ ~cmdFile /\ regFile = NoFile

\* A process that dies with the settings taken and its script on disk does not
\* leave them so: its watchdog, once it has found its parent, or the script that
\* a logon has started, restores them, unless the program is started again,
\* which does. While it is a watchdog, the entry is set too, so that a reboot
\* hands its work to the logon.
Healing ==
    /\ ~Up /\ cmdFile /\ regFile # NoFile
    /\ \/ runOnce /\ \E r \in Runners : runner[r] \in {"waiting", "import"}
       \/ runner[Logon] = "import"
DeadProxyHealed == (Taken /\ Healing) ~> ~Taken
-----------------------------------------------------------------------------
\* The registration code implements the abstract promise.
Guard == INSTANCE ProxyGuard WITH
    OurInets <- Modes, OurEnvs <- {OurEnv}, NotSaved <- NoFile,
    saved <- IF json = NoFile THEN NoFile ELSE [inet |-> json.inet, env |-> json.env]

\* The user's settings are saved before any is taken, saved once, put back
\* before the save is dropped, by whichever of the program's four ways.
ImplementsGuard == Guard!Spec
-----------------------------------------------------------------------------
(***************************************************************************)
(* The inductive invariant behind UndoKept and CleanExitRestores, under    *)
(* SafeUse: one registration call at a time, on one machine, without       *)
(* failures of the calls whose failure the code cannot undo, restore       *)
(* scripts left to finish, and a user who edits the settings only when     *)
(* none is to be restored: what they edit before that, the restore takes   *)
(* away.  A script that cannot be rewritten is harmless while the user's   *)
(* choice stays and no power cut halves a restore.                         *)
(***************************************************************************)
SafeUse ==
    /\ \A g, h \in Goroutines : g = h
    /\ \A m, n \in Machines : m = n
    /\ Faults \cap {"load", "setInet"} = {}
    /\ "files" \in Faults => Ops \cap {"edit", "powercut"} = {}
    /\ RestoresSettle /\ EditsSettled

\* What a goroutine's label says of its own variables, in any use.
HoldsPrev == {"u.inet", "u.env", "r.save", "r.reg", "r.cmd", "r.runOnce",
              "r.watchdog", "r.inet", "r.env"}
LocalsKnown ==
    \A g \in Goroutines :
        /\ pc[g] \in HoldsPrev => prev[g] # NoFile
        /\ job[g] = "apply" \/ pc[g] = "listen" => bk[g] # NoBackend
        /\ pc[g] = "stop" => job[g] \in {"switch", "quit", "main"}
        /\ pc[g] = "publish" => job[g] \in {"launch", "switch"}

SnapshotIsUsers == json # NoFile => ThisMachine(json) /\ Restored(json)

TakenIsSaved == Taken => json # NoFile

\* The settings are back, but for variables whose restoring may fail.
Back == inet = want.inet /\ ("setEnv" \in Faults \/ env = want.env)

ExitedBack == proc = "exited" => Back

\* What a script would import is what the user chose.
RegIsUsers == regFile # NoFile /\ Restored(regFile)
Armed == runOnce \/ \E r \in Runners : runner[r] \in {"starting", "waiting", "import"}
ScriptIsUsers ==
    /\ Armed /\ cmdFile => RegIsUsers
    /\ "files" \in Faults =>
          /\ regFile # NoFile => RegIsUsers
          /\ cmdFile => RegIsUsers \/ \E r \in Runners : runner[r] = "delCmd"

RunnersApart ==
    /\ \A r, s \in Runners : runner[r] # "none" /\ runner[s] # "none" => r = s
    /\ Up => /\ epoch # 0
             /\ runner[epoch] \in {"none", "starting", "waiting"}
             /\ \A r \in Runners \ {epoch} : runner[r] = "none"
    /\ \A r \in Runners :
          /\ runner[r] \in {"delRunOnce", "delJson", "delReg", "delCmd"} => ~Taken
          /\ runner[r] \in {"delJson", "delReg", "delCmd"} => ~runOnce

UsesSnapshot ==
    \A g \in Goroutines :
        /\ pc[g] = "u.watchdog" => prev[g] = json
        /\ pc[g] \in {"u.inet", "u.env", "r.reg", "r.cmd", "r.runOnce",
                      "r.watchdog", "r.inet", "r.env"} => json # NoFile /\ prev[g] = json
        /\ pc[g] = "r.capture" => json = NoFile
        /\ pc[g] = "r.save" => json = NoFile /\ ThisMachine(prev[g]) /\ Restored(prev[g])
        /\ pc[g] = "r.cmd" => RegIsUsers
        /\ pc[g] \in {"r.runOnce", "r.watchdog", "r.inet", "r.env"}
              => RegIsUsers \/ ("files" \in Faults /\ ~cmdFile)
        /\ pc[g] = "u.reg" => ~cmdFile

Untaken ==
    \A g \in Goroutines :
        /\ pc[g] = "u.env" => inet = want.inet
        /\ pc[g] = "u.json" => ~Taken
        /\ pc[g] = "failed" => "setEnv" \in Faults
        /\ pc[g] \in {"u.json", "u.runOnce", "u.cmd", "u.reg", "done", "failed",
                      "publish", "listen", "r.load", "r.capture", "r.save", "r.reg",
                      "r.cmd", "r.runOnce", "r.watchdog", "r.inet"} => Back

\* Settings that are taken while no unregister is under way belong to the
\* published backend, which has a listener, so its Close will unregister.
Owned ==
    \A g \in Goroutines :
        /\ Up /\ ~Back /\ pc[g] \notin {"u.load", "u.watchdog", "u.inet", "u.env"}
              => backend # NoBackend /\ listens[backend]
        /\ pc[g] \in Registering \/ pc[g] \in {"apply", "listen"}
              => bk[g] = backend /\ backend # NoBackend
        /\ pc[g] \in Registering => listens[backend]
        /\ job[g] = "apply" /\ ~Idle(g) => bk[g] = backend /\ backend # NoBackend
        /\ job[g] = "apply" /\ ~Idle(g) /\ pc[g] # "apply" => listens[backend]
        /\ ~Up => Idle(g)

\* The snapshot, the script, the processes and the goroutines agree on what
\* the user chose, step by step.
IInv ==
    /\ TypeOK /\ LocalsKnown
    /\ SnapshotIsUsers /\ TakenIsSaved
    /\ ScriptIsUsers /\ RunnersApart /\ UsesSnapshot /\ Untaken /\ Owned
    /\ ExitedBack
=============================================================================
