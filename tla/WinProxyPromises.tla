-------------------------- MODULE WinProxyPromises --------------------------
(***************************************************************************)
(* What the registration promises beyond the safety of the user's          *)
(* settings, each part under no more than it needs: a snapshot is written  *)
(* once, old settings never come back, the nets are there while settings   *)
(* are taken, a clean exit leaves nothing, and the whole implements        *)
(* ProxyGuard.                                                             *)
(***************************************************************************)
EXTENDS WinProxySafety

USE DEF Fails, Goto, Idle, user, world, disk, nets, process, locals,
        Taken, Restored, InForce, ThisMachine, Up, Registering, Back, RegIsUsers

-----------------------------------------------------------------------------
(* Saved once.                                                             *)

\* One registration call at a time, one machine, a readable snapshot; every
\* other call may fail.
OneCall ==
    /\ \A g, h \in Goroutines : g = h
    /\ \A m, n \in Machines : m = n
    /\ "load" \notin Faults

\* A registration that is about to save found nothing saved.
SavesNew == \A g \in Goroutines : pc[g] \in {"r.capture", "r.save"} => json = NoFile

OnceInv == TypeOK /\ LocalsKnown /\ SavesNew

LEMMA OnceStep ==
  ASSUME OneCall, OnceInv, [Next]_vars
  PROVE  OnceInv' /\ (json # NoFile /\ json' # NoFile => json' = json)
<1> USE DEF OnceInv, OneCall
<1>1. TypeOK' /\ LocalsKnown'
  BY TypeStep
<1>2. machine' = machine /\ (json # NoFile => json.machine = machine)
  <2>1. machine \in Machines /\ machine' \in Machines
    BY <1>1 DEF TypeOK
  <2>2. json # NoFile => json.machine \in Machines
    BY DEF TypeOK, Snapshots
  <2> QED BY <2>1, <2>2
<1> DEFINE Kept == json # NoFile /\ json' # NoFile => json' = json
<1>3. ASSUME NEW g \in Goroutines, Unregister(g) PROVE SavesNew' /\ Kept
  BY <1>3, SMT DEF Unregister, UnLoad, UnWatchdog, RestoreInet, RestoreEnv, RemoveSaved,
     RemoveRunOnce, RemoveCmd, RemoveReg, SavesNew, TypeOK
<1>4. ASSUME NEW g \in Goroutines, Register(g) PROVE SavesNew' /\ Kept
  BY <1>2, <1>4, SMT DEF Register, RegLoad, Capture, Save, WriteReg, WriteCmd, SetRunOnce,
     SetWatchdog, TakeInet, TakeEnv, SavesNew, TypeOK
<1>5. ASSUME NEW g \in Goroutines, Lifecycle(g) PROVE SavesNew' /\ Kept
  BY <1>5, SMT DEF Lifecycle, ApplyBegin, StopBackend, ApplyRest, StartNext, Publish,
     StartBackend, LeaveLoop, Exit, Die, SavesNew, TypeOK
<1>6. ASSUME NEW g \in Goroutines, UiStep(g) PROVE SavesNew' /\ Kept
  BY <1>6, SMT DEF UiStep, Launch, Apply, Switch, Quit, Spawn, SavesNew, TypeOK
<1>7. ASSUME NEW r \in Runners, Restorer(r) PROVE SavesNew' /\ Kept
  BY <1>7, SMT DEF Restorer, FindParent, ParentExited, ScriptGone, Import, DelRunOnce, DelJson,
     DelReg, DelCmd, Line, SavesNew, TypeOK
<1>8. CASE Crash \/ Reboot \/ Edit
  BY <1>1, <1>8, SMT DEF Crash, Reboot, Edit, Die, SavesNew, TypeOK
<1>9. CASE UNCHANGED vars
  BY <1>1, <1>9 DEF vars, SavesNew
<1> QED BY <1>1, <1>3, <1>4, <1>5, <1>6, <1>7, <1>8, <1>9 DEF Next, GoStep

\* A snapshot is never replaced by another, whichever call fails and however
\* the process ends (winproxy_windows.go:81).
THEOREM SavedOnceAlways == OneCall => (Spec => SavedOnce)
<1> SUFFICES ASSUME OneCall PROVE Spec => SavedOnce
  OBVIOUS
<1>1. Init => OnceInv
  <2>1. Init => SavesNew
    BY DEF Init, SavesNew
  <2> QED BY <2>1, TypeInit DEF OnceInv
<1>2. OnceInv /\ [Next]_vars => OnceInv' /\ (json # NoFile /\ json' # NoFile => json' = json)
  BY OnceStep
<1>3. OnceInv /\ [Next]_vars => [json # NoFile /\ json' # NoFile => json' = json]_vars
  BY <1>2
<1> QED BY <1>1, <1>2, <1>3, PTL DEF Spec, SavedOnce

-----------------------------------------------------------------------------
(* Never stale.                                                            *)

\* Any number of goroutines, machines and failures but one, the .reg that could
\* not be rewritten, and a user who edits the settings at any time.
FreshUse == "files" \notin Faults

\* Settings that may come back: ours, or a choice that nothing made obsolete.
Fresh(s, valid) ==
    /\ s.inet \in Modes \cup {c.inet : c \in valid}
    /\ s.env \in {OurEnv} \cup {c.env : c \in valid}

\* Every copy of the settings that a restore may use.
CopiesFresh ==
    /\ json # NoFile => Fresh(json, choices)
    /\ \A g \in Goroutines : pc[g] \in HoldsPrev \cup {"u.watchdog"} /\ prev[g] # NoFile => Fresh(prev[g], choices)
    /\ \/ Armed \/ \E g \in Goroutines : pc[g] \in {"r.cmd", "r.runOnce", "r.watchdog"}
       => (regFile # NoFile => Fresh(regFile, choices))
    /\ ~Up => \A g \in Goroutines : Idle(g)

FreshInv == TypeOK /\ LocalsKnown /\ NeverStale /\ CopiesFresh

LEMMA FreshUnregister ==
  ASSUME FreshUse, FreshInv, NEW g \in Goroutines, Unregister(g)
  PROVE  NeverStale' /\ CopiesFresh'
<1> USE DEF FreshUse, FreshInv, NeverStale, CopiesFresh, Fresh, HoldsPrev, LocalsKnown, TypeOK
<1>1. CASE UnLoad(g)
  BY <1>1, SMT DEF UnLoad, Armed
<1>2. CASE UnWatchdog(g)
  BY <1>2, SMT DEF UnWatchdog, Armed
<1>3. CASE RestoreInet(g)
  BY <1>3, SMT DEF RestoreInet, Armed
<1>4. CASE RestoreEnv(g)
  BY <1>4, SMT DEF RestoreEnv, Armed
<1>5. CASE RemoveSaved(g)
  BY <1>5, SMT DEF RemoveSaved, Armed
<1>6. CASE RemoveRunOnce(g)
  BY <1>6, SMT DEF RemoveRunOnce, Armed
<1>7. CASE RemoveCmd(g)
  BY <1>7, SMT DEF RemoveCmd, Armed
<1>8. CASE RemoveReg(g)
  BY <1>8, SMT DEF RemoveReg, Armed
<1> QED BY <1>1, <1>2, <1>3, <1>4, <1>5, <1>6, <1>7, <1>8 DEF Unregister

LEMMA FreshRegister ==
  ASSUME FreshUse, FreshInv, NEW g \in Goroutines, Register(g)
  PROVE  NeverStale' /\ CopiesFresh'
<1> USE DEF FreshUse, FreshInv, NeverStale, CopiesFresh, Fresh, HoldsPrev, LocalsKnown, TypeOK
<1>1. CASE RegLoad(g)
  BY <1>1, SMT DEF RegLoad, Armed
<1>2. CASE Capture(g)
  BY <1>2, SMT DEF Capture, Armed
<1>3. CASE Save(g)
  BY <1>3, SMT DEF Save, Armed
<1>4. CASE WriteReg(g)
  BY <1>4, SMT DEF WriteReg, Armed
<1>5. CASE WriteCmd(g)
  BY <1>5, SMT DEF WriteCmd, Armed
<1>6. CASE SetRunOnce(g)
  BY <1>6, SMT DEF SetRunOnce, Armed
<1>7. CASE SetWatchdog(g)
  BY <1>7, SMT DEF SetWatchdog, Armed
<1>8. CASE TakeInet(g)
  BY <1>8, SMT DEF TakeInet, Armed, Options
<1>9. CASE TakeEnv(g)
  BY <1>9, SMT DEF TakeEnv, Armed
<1> QED BY <1>1, <1>2, <1>3, <1>4, <1>5, <1>6, <1>7, <1>8, <1>9 DEF Register

LEMMA FreshStep ==
  ASSUME FreshUse, FreshInv, [Next]_vars
  PROVE  FreshInv'
<1> USE DEF FreshUse, FreshInv, NeverStale, CopiesFresh, Fresh, HoldsPrev
<1>1. TypeOK' /\ LocalsKnown'
  BY TypeStep
<1>2. ASSUME NEW g \in Goroutines, Lifecycle(g) PROVE NeverStale' /\ CopiesFresh'
  BY <1>2, SMT DEF Lifecycle, ApplyBegin, StopBackend, ApplyRest, StartNext, Publish,
     StartBackend, LeaveLoop, Exit, Die, Armed, TypeOK
<1>3. ASSUME NEW g \in Goroutines, UiStep(g) PROVE NeverStale' /\ CopiesFresh'
  BY <1>3, SMT DEF UiStep, Launch, Apply, Switch, Quit, Spawn, EventLoop, Armed, TypeOK
<1>4. ASSUME NEW r \in Runners, Restorer(r) PROVE NeverStale' /\ CopiesFresh'
  BY <1>4, SMT DEF Restorer, FindParent, ParentExited, ScriptGone, Import, DelRunOnce, DelJson,
     DelReg, DelCmd, Line, Armed, TypeOK
<1>5. CASE Crash
  BY <1>1, <1>5, SMT DEF Crash, Die, Armed, TypeOK
<1>6. CASE Reboot
  BY <1>1, <1>6, SMT DEF Reboot, Die, Armed, TypeOK
<1>7. CASE Edit
  <2>1. /\ want' \in choices' /\ inet' = want'.inet /\ env' = want'.env
        /\ UNCHANGED <<disk, runner, process, pc, locals>>
    BY <1>7 DEF Edit
  <2>2. NeverStale'
    BY <2>1
  <2>3. CASE Quiet
    <3>1. json = NoFile /\ ~Armed /\ \A g \in Goroutines : pc[g] = "idle"
      BY <2>3 DEF Quiet, NothingPending, Armed
    <3>2. json' = NoFile /\ ~Armed' /\ pc' = pc
      BY <2>1, <3>1 DEF Armed
    <3>3. CopiesFresh'
      <4> HIDE DEF Fresh
      <4> QED BY <2>1, <3>1, <3>2, SMT
    <3> QED BY <1>1, <2>2, <3>3
  <2>4. CASE ~Quiet
    <3>1. choices \subseteq choices'
      BY <1>7, <2>4 DEF Edit
    <3>2. \A s : Fresh(s, choices) => Fresh(s, choices')
      BY <3>1
    <3>3. CopiesFresh'
      <4> HIDE DEF Fresh
      <4> QED BY <2>1, <3>2, SMT DEF Armed
    <3> QED BY <1>1, <2>2, <3>3
  <2> QED BY <2>3, <2>4
<1>8. CASE UNCHANGED vars
  BY <1>1, <1>8 DEF vars, Armed
<1> QED
  BY <1>1, <1>2, <1>3, <1>4, <1>5, <1>6, <1>7, <1>8, FreshUnregister, FreshRegister
  DEF Next, GoStep

\* Unless the writing of files fails, no restore, by the program, a script
\* or a watchdog, by this launch or an earlier one, brings back settings older
\* than the last choice the user made with nothing due to be restored, whenever
\* and however often they make others.
THEOREM NeverStaleAlways == "files" \notin Faults => (Spec => []NeverStale)
<1> SUFFICES ASSUME FreshUse PROVE Spec => []NeverStale
  BY DEF FreshUse
<1>1. Init => FreshInv
  <2> SUFFICES ASSUME Init PROVE FreshInv
    OBVIOUS
  <2>1. \E i, e \in UserValues : inet = i /\ env = e /\ want = [inet |-> i, env |-> e]
    BY DEF Init
  <2>2. choices = {want}
    BY DEF Init
  <2>3. NeverStale
    BY <2>1, <2>2 DEF NeverStale
  <2>4. CopiesFresh
    BY SMT DEF Init, CopiesFresh, Armed, HoldsPrev
  <2> QED BY <2>3, <2>4, TypeInit DEF FreshInv
<1>2. FreshInv /\ [Next]_vars => FreshInv'
  BY FreshStep
<1>3. FreshInv => NeverStale
  BY DEF FreshInv
<1> QED BY <1>1, <1>2, <1>3, PTL DEF Spec

-----------------------------------------------------------------------------
(* The nets.                                                               *)

NetsUse == SafeUse /\ Faults \cap {"files", "runOnce", "watchdog"} = {}

\* The nets are put up one after the other, before the settings are taken.
NetsStaged ==
    \A g \in Goroutines :
        /\ pc[g] \in {"r.runOnce", "r.watchdog", "r.inet"} => cmdFile
        /\ pc[g] \in {"r.watchdog", "r.inet"} => (opt[g].runOnce => runOnce)
        /\ pc[g] = "r.inet" => (opt[g].watchdog => runner[epoch] # "none")

NetsInv == IInv /\ NetsStaged /\ NetsInPlace

\* Where nothing is taken there is nothing to guard.
LEMMA UntakenInet == TypeOK /\ Back => inet \notin Modes
BY ValuesAssumption DEF TypeOK, Chosen

LEMMA NetsStep ==
  ASSUME NetsUse, NetsInv, [Next]_vars
  PROVE  NetsInv'
<1> USE DEF NetsInv
<1>1. IInv'
  BY SafeStep DEF NetsUse
<1>2. TypeOK /\ TypeOK' /\ Untaken /\ UsesSnapshot /\ RunnersApart /\ Owned /\ TakenIsSaved /\ SnapshotIsUsers
  BY <1>1 DEF IInv
<1>3. inet \in Modes => ~Back
  BY <1>2, UntakenInet
<1>4. /\ \A g, h \in Goroutines : g = h
      /\ "runOnce" \notin Faults /\ "watchdog" \notin Faults
      /\ "files" \notin Faults /\ "setInet" \notin Faults
  BY DEF NetsUse, SafeUse
<1> HIDE DEF NetsInv
<1>5. ASSUME NEW g \in Goroutines, Unregister(g) PROVE NetsStaged' /\ NetsInPlace'
  <2> USE <1>2, <1>3, <1>4 DEF NetsInv, NetsStaged, NetsInPlace, TypeOK
  <2>1. CASE UnLoad(g)
    BY <2>1, SMT DEF UnLoad
  <2>2. CASE UnWatchdog(g)
    BY <2>2, SMT DEF UnWatchdog, UsesSnapshot, TakenIsSaved, SnapshotIsUsers
  <2>3. CASE RestoreInet(g)
    BY <2>3, ValuesAssumption, SMT DEF Chosen, RestoreInet, UsesSnapshot, SnapshotIsUsers
  <2>4. CASE RestoreEnv(g) \/ RemoveSaved(g) \/ RemoveRunOnce(g) \/ RemoveCmd(g) \/ RemoveReg(g)
    BY <2>4, SMT DEF RestoreEnv, RemoveSaved, RemoveRunOnce, RemoveCmd, RemoveReg, Untaken
  <2> QED BY <1>5, <2>1, <2>2, <2>3, <2>4 DEF Unregister
<1>6. ASSUME NEW g \in Goroutines, Register(g) PROVE NetsStaged' /\ NetsInPlace'
  <2> USE <1>2, <1>3, <1>4 DEF NetsInv, NetsStaged, NetsInPlace, TypeOK
  <2>1. CASE RegLoad(g) \/ Capture(g) \/ Save(g)
    BY <2>1, SMT DEF RegLoad, Capture, Save
  <2>2. CASE WriteReg(g) \/ WriteCmd(g)
    BY <2>2, SMT DEF WriteReg, WriteCmd, Untaken
  <2>3. CASE SetRunOnce(g)
    BY <2>3, SMT DEF SetRunOnce, Untaken
  <2>4. CASE SetWatchdog(g)
    BY <2>4, SMT DEF SetWatchdog, Untaken, Runners
  <2>5. CASE TakeInet(g)
    BY <2>5, SMT DEF TakeInet, UsesSnapshot
  <2>6. CASE TakeEnv(g)
    BY <2>6, SMT DEF TakeEnv
  <2> QED BY <1>6, <2>1, <2>2, <2>3, <2>4, <2>5, <2>6 DEF Register
<1>7. ASSUME NEW g \in Goroutines, Lifecycle(g) PROVE NetsStaged' /\ NetsInPlace'
  BY <1>2, <1>3, <1>4, <1>7, SMT DEF Lifecycle, ApplyBegin, StopBackend, ApplyRest, StartNext,
     Publish, StartBackend, LeaveLoop, Exit, Die, NetsInv, NetsStaged, NetsInPlace, TypeOK
<1>8. ASSUME NEW g \in Goroutines, UiStep(g) PROVE NetsStaged' /\ NetsInPlace'
  BY <1>2, <1>3, <1>4, <1>8, SMT DEF UiStep, Launch, Apply, Switch, Quit, Spawn, EventLoop,
     NetsInv, NetsStaged, NetsInPlace, TypeOK
<1>9. ASSUME NEW r \in Runners, Restorer(r) PROVE NetsStaged' /\ NetsInPlace'
  BY <1>2, <1>3, <1>4, <1>9, SMT DEF Restorer, FindParent, ParentExited, ScriptGone, Import,
     DelRunOnce, DelJson, DelReg, DelCmd, Line, ParentAlive, InScript, RunnersApart, Owned,
     Runners, NetsInv, NetsStaged, NetsInPlace, TypeOK
<1>10. CASE Crash \/ Reboot
  BY <1>1, <1>2, <1>3, <1>10, SMT DEF Crash, Reboot, Die, NetsInv, NetsStaged,
     NetsInPlace, TypeOK, Owned
<1>11. CASE Edit
  <2>1. \A g \in Goroutines : pc[g] = "idle"
    BY <1>11 DEF Edit, Quiet, NetsUse, SafeUse
  <2>2. inet' \in UserValues /\ pc' = pc
    BY <1>11 DEF Edit
  <2>3. inet' \notin Modes
    BY <2>2, ValuesAssumption
  <2>4. NetsStaged'
    BY <2>1, <2>2, SMT DEF NetsStaged
  <2>5. NetsInPlace'
    BY <2>3, Zenon DEF NetsInPlace
  <2> QED BY <1>1, <2>4, <2>5 DEF NetsInv
<1>12. CASE UNCHANGED vars
  BY <1>1, <1>12 DEF vars, NetsInv, NetsStaged, NetsInPlace
<1> QED
  BY <1>1, <1>5, <1>6, <1>7, <1>8, <1>9, <1>10, <1>11, <1>12 DEF Next, GoStep, NetsInv

\* While the settings are taken, every net the options ask for is in place,
\* whichever profile, order and launch took them, if the user edits them only
\* when none is to be restored (SafeUse).
THEOREM NetsAlways == NetsUse => (Spec => []NetsInPlace)
<1> SUFFICES ASSUME NetsUse PROVE Spec => []NetsInPlace
  OBVIOUS
<1>1. Init => NetsInv
  <2>1. Init => NetsStaged /\ NetsInPlace
    BY DEF Init, NetsStaged, NetsInPlace
  <2> QED BY <2>1, SafeInit DEF NetsInv
<1>2. NetsInv /\ [Next]_vars => NetsInv'
  BY NetsStep
<1>3. NetsInv => NetsInPlace
  BY DEF NetsInv
<1> QED BY <1>1, <1>2, <1>3, PTL DEF Spec

-----------------------------------------------------------------------------
(* A clean exit.                                                           *)

ExitUse == SafeUse /\ Faults \cap {"setEnv", "removeJson", "removeNets"} = {}

NoNets == /\ ~runOnce /\ ~cmdFile /\ regFile = NoFile
          /\ \A r \in Runners : runner[r] = "none"

\* A saved snapshot has an owner that will remove it; once it is removed, the
\* nets go in the order in which they could do harm.
Cleaned ==
    /\ Up /\ json # NoFile =>
         \/ \E g \in Goroutines : pc[g] \in Unregistering
         \/ backend # NoBackend /\ listens[backend]
    /\ proc = "exited" /\ asked # NoOptions => json = NoFile
    /\ proc # "crashed" /\ asked # NoOptions /\ json = NoFile
          /\ (\A g \in Goroutines : pc[g] \notin {"u.runOnce", "u.cmd", "u.reg"})
       => NoNets
    /\ \A g \in Goroutines :
         /\ pc[g] \in {"u.runOnce", "u.cmd", "u.reg", "done", "publish", "listen",
                       "r.load", "r.capture", "r.save"} => json = NoFile
         /\ pc[g] \in {"u.inet", "u.env", "u.json", "u.runOnce", "u.cmd", "u.reg"}
               => runner[epoch] = "none"
         /\ pc[g] \in {"u.cmd", "u.reg"} => ~runOnce

CleanInv == IInv /\ Cleaned

LEMMA CleanedExit == CleanInv => CleanExitLeavesNothing
<1> SUFFICES ASSUME CleanInv, proc = "exited", asked # NoOptions
             PROVE  NothingPending /\ ~cmdFile /\ regFile = NoFile
  BY DEF CleanExitLeavesNothing
<1>1. \A g \in Goroutines : pc[g] = "idle"
  BY DEF CleanInv, IInv, Owned
<1> QED BY <1>1 DEF CleanInv, Cleaned, NoNets, NothingPending

LEMMA CleanStep ==
  ASSUME ExitUse, CleanInv, [Next]_vars
  PROVE  CleanInv'
<1>1. IInv'
  BY SafeStep DEF ExitUse, CleanInv
<1>2. TypeOK /\ TypeOK' /\ Untaken /\ UsesSnapshot /\ RunnersApart /\ Owned /\ TakenIsSaved /\ SnapshotIsUsers
  BY <1>1 DEF CleanInv, IInv
<1>3. /\ \A g, h \in Goroutines : g = h
      /\ "removeJson" \notin Faults /\ "removeNets" \notin Faults /\ RestoresSettle
      /\ Faults \cap {"load", "setInet", "setEnv"} = {}
  BY DEF ExitUse, SafeUse
<1>4. CleanExitLeavesNothing
  BY CleanedExit
<1>5. ASSUME NEW g \in Goroutines, Unregister(g) PROVE Cleaned'
  <2> USE <1>2, <1>3 DEF CleanInv, Cleaned, NoNets, TypeOK, Unregistering
  <2>1. CASE UnLoad(g)
    BY <2>1, SMT DEF UnLoad, Untaken
  <2>2. CASE UnWatchdog(g)
    BY <2>2, SMT DEF UnWatchdog, UsesSnapshot, RunnersApart, Owned, SnapshotIsUsers
  <2>3. CASE RestoreInet(g)
    BY <2>3, SMT DEF RestoreInet, UsesSnapshot, Owned, Untaken
  <2>4. CASE RestoreEnv(g)
    BY <2>4, SMT DEF RestoreEnv, UsesSnapshot, Owned, Untaken
  <2>5. CASE RemoveSaved(g)
    BY <2>5, SMT DEF RemoveSaved, Owned, Untaken
  <2>6. CASE RemoveRunOnce(g)
    BY <2>6, SMT DEF RemoveRunOnce, Owned, Untaken
  <2>7. CASE RemoveCmd(g)
    BY <2>7, SMT DEF RemoveCmd, Owned, Untaken
  <2>8. CASE RemoveReg(g)
    BY <2>8, SMT DEF RemoveReg, Owned, UsesSnapshot, RunnersApart
  <2> QED BY <1>5, <2>1, <2>2, <2>3, <2>4, <2>5, <2>6, <2>7, <2>8 DEF Unregister
<1>6. ASSUME NEW g \in Goroutines, Register(g) PROVE Cleaned'
  <2> USE <1>2, <1>3 DEF CleanInv, Cleaned, NoNets, TypeOK, Unregistering
  <2>1. CASE RegLoad(g) \/ Capture(g) \/ Save(g)
    BY <2>1, SMT DEF RegLoad, Capture, Save, Owned, SnapshotIsUsers
  <2>2. CASE WriteReg(g) \/ WriteCmd(g)
    BY <2>2, SMT DEF WriteReg, WriteCmd, Owned, UsesSnapshot
  <2>3. CASE SetRunOnce(g) \/ SetWatchdog(g)
    BY <2>3, SMT DEF SetRunOnce, SetWatchdog, Owned, UsesSnapshot
  <2>4. CASE TakeInet(g) \/ TakeEnv(g)
    BY <2>4, SMT DEF TakeInet, TakeEnv, Owned, UsesSnapshot
  <2> QED BY <1>6, <2>1, <2>2, <2>3, <2>4 DEF Register
<1>7. ASSUME NEW g \in Goroutines, Lifecycle(g) PROVE Cleaned'
  <2> USE <1>2, <1>3 DEF CleanInv, Cleaned, NoNets, TypeOK, Unregistering
  <2>1. CASE ApplyBegin(g) \/ StopBackend(g)
    BY <2>1, SMT DEF ApplyBegin, StopBackend, Owned, LocalsKnown
  <2>2. CASE ApplyRest(g) \/ StartNext(g)
    BY <2>2, SMT DEF ApplyRest, StartNext, Untaken
  <2>3. CASE Publish(g) \/ StartBackend(g)
    BY <2>3, SMT DEF Publish, StartBackend
  <2>4. CASE LeaveLoop(g)
    BY <2>4, SMT DEF LeaveLoop, Untaken
  <2>5. CASE Exit(g)
    BY <2>5, SMT DEF Exit, Die, Untaken, Owned
  <2> QED BY <1>7, <2>1, <2>2, <2>3, <2>4, <2>5 DEF Lifecycle
<1>8. ASSUME NEW g \in Goroutines, UiStep(g) PROVE Cleaned'
  BY <1>2, <1>3, <1>8, SMT DEF UiStep, Launch, Apply, Switch, Quit, Spawn, EventLoop,
     CleanInv, Cleaned, NoNets, TypeOK, Unregistering
<1>9. ASSUME NEW r \in Runners, Restorer(r) PROVE Cleaned'
  BY <1>2, <1>3, <1>9, SMT DEF Restorer, FindParent, ParentExited, ScriptGone, Import,
     DelRunOnce, DelJson, DelReg, DelCmd, Line, ParentAlive, InScript, RunnersApart, Owned,
     Runners, CleanInv, Cleaned, CleanExitLeavesNothing, NothingPending, NoNets, TypeOK
<1>10. ASSUME Crash \/ Reboot \/ Edit PROVE Cleaned'
  BY <1>2, <1>10, SMT DEF Crash, Reboot, Edit, Die, CleanInv, Cleaned, NoNets, TypeOK, Owned
<1>11. ASSUME UNCHANGED vars PROVE Cleaned'
  BY <1>11 DEF vars, CleanInv, Cleaned, NoNets
<1> QED
  BY <1>1, <1>5, <1>6, <1>7, <1>8, <1>9, <1>10, <1>11 DEF Next, GoStep, CleanInv

\* A launch that registered and exits leaves no snapshot, script, entry or
\* watchdog, whatever it did in between (winproxy_restore.go:17), if the user
\* edits settings only when none is to be restored (SafeUse).
THEOREM ExitLeavesNothing == ExitUse => (Spec => []CleanExitLeavesNothing)
<1> SUFFICES ASSUME ExitUse PROVE Spec => []CleanExitLeavesNothing
  OBVIOUS
<1>1. Init => CleanInv
  <2>1. Init => Cleaned
    BY DEF Init, Cleaned
  <2> QED BY <2>1, SafeInit DEF CleanInv
<1>2. CleanInv /\ [Next]_vars => CleanInv'
  BY CleanStep
<1>3. CleanInv => CleanExitLeavesNothing
  BY CleanedExit
<1> QED BY <1>1, <1>2, <1>3, PTL DEF Spec

-----------------------------------------------------------------------------
(* The abstract promise.                                                   *)

\* What a step does to the settings and the snapshot, in ProxyGuard's terms.
Stutters == UNCHANGED <<inet, env, want, json>>
Arms ==
    /\ json = NoFile /\ json' # NoFile /\ json'.inet = inet /\ json'.env = env
    /\ UNCHANGED <<inet, env, want>>
Takes ==
    /\ json # NoFile /\ UNCHANGED <<want, json>>
    /\ \/ inet' \in Modes /\ env' = env
       \/ inet' = inet /\ env' = OurEnv
GivesBack ==
    /\ json # NoFile /\ UNCHANGED <<want, json>>
    /\ inet' \in {inet, json.inet} /\ env' \in {env, json.env}
Disarms ==
    /\ json # NoFile /\ json' = NoFile /\ json.inet = inet /\ json.env = env
    /\ UNCHANGED <<inet, env, want>>
Chooses ==
    /\ json = NoFile /\ json' = NoFile
    /\ \E i, e \in UserValues : inet' = i /\ env' = e /\ want' = [inet |-> i, env |-> e]

Guarded == Stutters \/ Arms \/ Takes \/ GivesBack \/ Disarms \/ Chooses

\* Each kind of step is one of the abstract machine's, or a stutter of it.
LEMMA GuardedIsGuard ==
  ASSUME TypeOK, TypeOK', Guarded
  PROVE  [Guard!Next]_(Guard!guardVars)
<1> DEFINE saved == IF json = NoFile THEN NoFile ELSE [inet |-> json.inet, env |-> json.env]
<1>1. json # NoFile => saved # NoFile
  BY ValuesAssumption DEF TypeOK, Snapshots, Settings
<1>2. CASE Stutters
  BY <1>2 DEF Stutters, Guard!guardVars
<1>3. CASE Arms
  BY <1>3 DEF Arms, Guard!Next, Guard!Arm, Guard!InForce
<1>4. CASE Takes
  BY <1>1, <1>4 DEF Takes, Guard!Next, Guard!TakeInet, Guard!TakeEnv
<1>5. CASE GivesBack
  BY <1>1, <1>5 DEF GivesBack, Guard!Next, Guard!GiveBack
<1>6. CASE Disarms
  BY <1>1, <1>6 DEF Disarms, Guard!Next, Guard!Disarm, Guard!InForce
<1>7. CASE Chooses
  BY <1>7 DEF Chooses, Guard!Next, Guard!Choose, Guard!Chosen
<1> QED BY <1>2, <1>3, <1>4, <1>5, <1>6, <1>7 DEF Guarded

\* Every step of the code is of one of these kinds.
LEMMA StepIsGuarded ==
  ASSUME SafeUse, IInv, [Next]_vars
  PROVE  Guarded
<1>1. TypeOK /\ Untaken /\ UsesSnapshot /\ RunnersApart /\ ScriptIsUsers /\ TakenIsSaved /\ SnapshotIsUsers
  BY DEF IInv
<1>2. ASSUME NEW g \in Goroutines, Unregister(g) PROVE Guarded
  <2> USE <1>1 DEF TypeOK
  <2>1. CASE UnLoad(g) \/ UnWatchdog(g) \/ RemoveRunOnce(g) \/ RemoveCmd(g) \/ RemoveReg(g)
    BY <2>1, SMT DEF UnLoad, UnWatchdog, RemoveRunOnce, RemoveCmd, RemoveReg, Guarded, Stutters
  <2>2. CASE RestoreInet(g) \/ RestoreEnv(g)
    BY <2>2, SMT DEF RestoreInet, RestoreEnv, UsesSnapshot, Guarded, GivesBack
  <2>3. CASE RemoveSaved(g)
    BY <2>3, SMT DEF RemoveSaved, Untaken, SnapshotIsUsers, Guarded, Disarms, Stutters
  <2> QED BY <1>2, <2>1, <2>2, <2>3 DEF Unregister
<1>3. ASSUME NEW g \in Goroutines, Register(g) PROVE Guarded
  <2> USE <1>1 DEF TypeOK
  <2>1. CASE RegLoad(g) \/ Capture(g) \/ WriteReg(g) \/ WriteCmd(g) \/ SetRunOnce(g) \/ SetWatchdog(g)
    BY <2>1, SMT DEF RegLoad, Capture, WriteReg, WriteCmd, SetRunOnce, SetWatchdog, Guarded, Stutters
  <2>2. CASE Save(g)
    BY <2>2, SMT DEF Save, UsesSnapshot, TakenIsSaved, LocalsKnown, HoldsPrev, IInv, Guarded, Arms, Stutters
  <2>3. CASE TakeInet(g)
    BY <2>3, SMT DEF TakeInet, UsesSnapshot, Options, Guarded, Takes, Stutters
  <2>4. CASE TakeEnv(g)
    BY <2>4, SMT DEF TakeEnv, UsesSnapshot, Guarded, Takes, GivesBack, Stutters
  <2> QED BY <1>3, <2>1, <2>2, <2>3, <2>4 DEF Register
<1>4. ASSUME NEW g \in Goroutines, Lifecycle(g) \/ UiStep(g) PROVE Guarded
  BY <1>4, SMT DEF Lifecycle, ApplyBegin, StopBackend, ApplyRest, StartNext, Publish, StartBackend,
     LeaveLoop, Exit, UiStep, Launch, Apply, Switch, Quit, Guarded, Stutters
<1>5. ASSUME NEW r \in Runners, Restorer(r) PROVE Guarded
  <2> USE <1>1 DEF TypeOK
  <2>1. CASE Import(r)
    BY <2>1, SMT DEF Import, Line, ScriptIsUsers, Armed, TakenIsSaved, SnapshotIsUsers, Guarded,
       GivesBack, Stutters
  <2>2. CASE DelJson(r)
    BY <2>2, SMT DEF DelJson, Line, RunnersApart, SnapshotIsUsers, Guarded, Disarms, Stutters
  <2>3. CASE FindParent(r) \/ ParentExited(r) \/ ScriptGone(r) \/ DelRunOnce(r) \/ DelReg(r) \/ DelCmd(r)
    BY <2>3, SMT DEF FindParent, ParentExited, ScriptGone, DelRunOnce, DelReg, DelCmd, Guarded, Stutters
  <2> QED BY <1>5, <2>1, <2>2, <2>3 DEF Restorer
<1>6. CASE Crash \/ Reboot
  BY <1>6, SMT DEF Crash, Reboot, Guarded, Stutters
<1>7. CASE Edit
  BY <1>7, SMT DEF Edit, SafeUse, Quiet, NothingPending, Guarded, Chooses
<1>8. CASE UNCHANGED vars
  BY <1>8 DEF vars, Guarded, Stutters
<1> QED BY <1>2, <1>3, <1>4, <1>5, <1>6, <1>7, <1>8 DEF Next, GoStep

\* The registration code implements ProxyGuard: each step of it maps to a
\* step of the abstract promise or to none, under SafeUse, where the user
\* edits settings only when none is to be restored.
THEOREM ProxyGuarded == SafeUse => (Spec => ImplementsGuard)
<1> SUFFICES ASSUME SafeUse PROVE Spec => ImplementsGuard
  OBVIOUS
<1>1. Init => Guard!Init
  <2> SUFFICES ASSUME Init PROVE Guard!Init
    OBVIOUS
  <2>1. \E i, e \in UserValues : inet = i /\ env = e /\ want = [inet |-> i, env |-> e]
    BY DEF Init
  <2> QED BY <2>1 DEF Init, Guard!Init, Guard!Chosen
<1>2. Init => IInv
  BY SafeInit
<1>3. IInv /\ [Next]_vars => IInv'
  BY SafeStep
<1>4. IInv /\ [Next]_vars => [Guard!Next]_(Guard!guardVars)
  <2> SUFFICES ASSUME IInv, [Next]_vars PROVE [Guard!Next]_(Guard!guardVars)
    OBVIOUS
  <2>1. TypeOK /\ TypeOK'
    BY SafeStep DEF IInv
  <2> QED BY <2>1, StepIsGuarded, GuardedIsGuard
<1> QED BY <1>1, <1>2, <1>3, <1>4, PTL DEF Spec, ImplementsGuard, Guard!Spec
=============================================================================
