--------------------------- MODULE WinProxyProofs ---------------------------
(***************************************************************************)
(* Theorems about WinProxy, for every number of goroutines, profiles and   *)
(* launches.                                                               *)
(***************************************************************************)
EXTENDS WinProxy, TLAPS

USE DEF Fails, Goto, Idle, user, world, disk, nets, process, locals
-----------------------------------------------------------------------------
(***************************************************************************)
(* Type correctness, together with what a label says of a goroutine's own  *)
(* variables.  It needs no assumption on how the program is used.          *)
(***************************************************************************)
LEMMA NoOptionsType == NoOptions \in Options
BY DEF NoOptions, Options, Modes

LEMMA TypeInit == Init => TypeOK /\ LocalsKnown
<1> SUFFICES ASSUME Init PROVE TypeOK /\ LocalsKnown
  OBVIOUS
<1>1. inet \in InetValues /\ env \in EnvValues /\ want \in Chosen /\ choices \in SUBSET Chosen
  <2>1. \E i, e \in UserValues : inet = i /\ env = e /\ want = [inet |-> i, env |-> e]
    BY DEF Init
  <2>2. inet \in InetValues /\ env \in EnvValues /\ want \in Chosen
    BY <2>1 DEF InetValues, EnvValues, Chosen
  <2>3. choices = {want}
    BY DEF Init
  <2> QED BY <2>2, <2>3
<1>2. runner \in [Runners -> RunnerStates] /\ epoch \in 0 .. MaxEpochs
  BY ParametersAssumption, SMT DEF Init, RunnerStates
<1>3. pc \in [Goroutines -> Labels] /\ job \in [Goroutines -> Jobs]
  BY DEF Init, Labels, Jobs
<1>4. \A g \in Goroutines : pc[g] = "idle" /\ job[g] = "none"
  BY DEF Init
<1>5. LocalsKnown
  BY <1>4, Zenon DEF LocalsKnown, HoldsPrev
<1> QED BY <1>1, <1>2, <1>3, <1>5, NoOptionsType DEF Init, TypeOK

LEMMA TypeUnregister ==
  ASSUME TypeOK, LocalsKnown, NEW g \in Goroutines, Unregister(g)
  PROVE  TypeOK' /\ LocalsKnown'
<1>1. CASE UnLoad(g)
  <2>1. pc' \in [Goroutines -> Labels]
    BY <1>1, SMT DEF UnLoad, TypeOK, Labels, Unregistering, Registering
  <2>2. prev' \in [Goroutines -> Snapshots \cup {NoFile}]
    BY <1>1, SMT DEF UnLoad, TypeOK, Snapshots
  <2>3. TypeOK'
    BY <1>1, <2>1, <2>2, NoOptionsType DEF UnLoad, TypeOK
  <2>4. LocalsKnown'
    BY <1>1, SMT DEF UnLoad, TypeOK, LocalsKnown, HoldsPrev
  <2> QED BY <2>3, <2>4
<1>2. CASE UnWatchdog(g)
  <2>1. pc' \in [Goroutines -> Labels]
    BY <1>2, SMT DEF UnWatchdog, TypeOK, Labels, Unregistering, Registering
  <2>2. runner' = [runner EXCEPT ![epoch] = "none"]
    BY <1>2 DEF UnWatchdog
  <2>3. runner' \in [Runners -> RunnerStates]
    <3>1. runner \in [Runners -> RunnerStates] /\ "none" \in RunnerStates
      BY DEF TypeOK, RunnerStates
    <3> QED BY <2>2, <3>1
  <2>4. TypeOK'
    BY <1>2, <2>1, <2>2, <2>3, NoOptionsType DEF UnWatchdog, TypeOK
  <2>5. LocalsKnown'
    BY <1>2, SMT DEF UnWatchdog, TypeOK, LocalsKnown, HoldsPrev, ThisMachine
  <2> QED BY <2>4, <2>5
<1>3. CASE RestoreInet(g)
  <2>1. pc' \in [Goroutines -> Labels]
    BY <1>3, SMT DEF RestoreInet, TypeOK, Labels, Unregistering, Registering
  <2>2. inet' \in InetValues
    BY <1>3, SMT DEF RestoreInet, TypeOK, LocalsKnown, HoldsPrev, Snapshots
  <2>3. TypeOK'
    BY <1>3, <2>1, <2>2, NoOptionsType DEF RestoreInet, TypeOK
  <2>4. LocalsKnown'
    BY <1>3, SMT DEF RestoreInet, TypeOK, LocalsKnown, HoldsPrev
  <2> QED BY <2>3, <2>4
<1>4. CASE RestoreEnv(g)
  <2>1. pc' \in [Goroutines -> Labels]
    BY <1>4, SMT DEF RestoreEnv, TypeOK, Labels, Unregistering, Registering
  <2>2. env' \in EnvValues
    BY <1>4, SMT DEF RestoreEnv, TypeOK, LocalsKnown, HoldsPrev, Snapshots
  <2>3. TypeOK'
    BY <1>4, <2>1, <2>2, NoOptionsType DEF RestoreEnv, TypeOK
  <2>4. LocalsKnown'
    BY <1>4, SMT DEF RestoreEnv, TypeOK, LocalsKnown, HoldsPrev
  <2> QED BY <2>3, <2>4
<1>5. CASE RemoveSaved(g)
  <2>1. pc' \in [Goroutines -> Labels]
    BY <1>5, SMT DEF RemoveSaved, TypeOK, Labels, Unregistering, Registering
  <2>2. TypeOK'
    BY <1>5, <2>1, NoOptionsType DEF RemoveSaved, TypeOK
  <2>3. LocalsKnown'
    BY <1>5, SMT DEF RemoveSaved, TypeOK, LocalsKnown, HoldsPrev
  <2> QED BY <2>2, <2>3
<1>6. CASE RemoveRunOnce(g)
  <2>1. pc' \in [Goroutines -> Labels]
    BY <1>6, SMT DEF RemoveRunOnce, TypeOK, Labels, Unregistering, Registering
  <2>2. runOnce' \in BOOLEAN
    BY <1>6, Zenon DEF RemoveRunOnce, TypeOK
  <2>3. TypeOK'
    BY <1>6, <2>1, <2>2, NoOptionsType DEF RemoveRunOnce, TypeOK
  <2>4. LocalsKnown'
    BY <1>6, SMT DEF RemoveRunOnce, TypeOK, LocalsKnown, HoldsPrev
  <2> QED BY <2>3, <2>4
<1>7. CASE RemoveCmd(g)
  <2>1. pc' \in [Goroutines -> Labels]
    BY <1>7, SMT DEF RemoveCmd, TypeOK, Labels, Unregistering, Registering
  <2>2. cmdFile' \in BOOLEAN
    BY <1>7, Zenon DEF RemoveCmd, TypeOK
  <2>3. TypeOK'
    BY <1>7, <2>1, <2>2, NoOptionsType DEF RemoveCmd, TypeOK
  <2>4. LocalsKnown'
    BY <1>7, SMT DEF RemoveCmd, TypeOK, LocalsKnown, HoldsPrev
  <2> QED BY <2>3, <2>4
<1>8. CASE RemoveReg(g)
  <2>1. pc' \in [Goroutines -> Labels]
    BY <1>8, SMT DEF RemoveReg, TypeOK, Labels, Unregistering, Registering
  <2>2. TypeOK'
    BY <1>8, <2>1, NoOptionsType DEF RemoveReg, TypeOK
  <2>3. LocalsKnown'
    BY <1>8, SMT DEF RemoveReg, TypeOK, LocalsKnown, HoldsPrev
  <2> QED BY <2>2, <2>3
<1> QED
  BY <1>1, <1>2, <1>3, <1>4, <1>5, <1>6, <1>7, <1>8 DEF Unregister

LEMMA TypeRegister ==
  ASSUME TypeOK, LocalsKnown, NEW g \in Goroutines, Register(g)
  PROVE  TypeOK' /\ LocalsKnown'
<1>1. CASE RegLoad(g)
  <2>1. pc' \in [Goroutines -> Labels]
    BY <1>1, SMT DEF RegLoad, TypeOK, Labels, Unregistering, Registering
  <2>2. prev' \in [Goroutines -> Snapshots \cup {NoFile}]
    BY <1>1, SMT DEF RegLoad, TypeOK, Snapshots
  <2>3. TypeOK'
    BY <1>1, <2>1, <2>2, NoOptionsType DEF RegLoad, TypeOK
  <2>4. LocalsKnown'
    BY <1>1, SMT DEF RegLoad, TypeOK, LocalsKnown, HoldsPrev, ThisMachine
  <2> QED BY <2>3, <2>4
<1>2. CASE Capture(g)
  <2>1. pc' \in [Goroutines -> Labels]
    BY <1>2, SMT DEF Capture, TypeOK, Labels, Unregistering, Registering
  <2>2. [machine |-> machine, inet |-> inet, env |-> env] \in Snapshots
    BY <1>2 DEF TypeOK, Snapshots
  <2>3. prev' \in [Goroutines -> Snapshots \cup {NoFile}]
    BY <1>2, <2>2, SMT DEF Capture, TypeOK
  <2>4. TypeOK'
    BY <1>2, <2>1, <2>2, <2>3, NoOptionsType DEF Capture, TypeOK
  <2>5. LocalsKnown'
    BY <1>2, <2>2, ValuesAssumption, SMT DEF Capture, TypeOK, LocalsKnown, HoldsPrev
  <2> QED BY <2>4, <2>5
<1>3. CASE Save(g)
  <2>1. pc' \in [Goroutines -> Labels]
    BY <1>3, SMT DEF Save, TypeOK, Labels, Unregistering, Registering
  <2>2. json' \in Snapshots \cup {NoFile}
    BY <1>3, SMT DEF Save, TypeOK
  <2>3. TypeOK'
    BY <1>3, <2>1, <2>2, NoOptionsType DEF Save, TypeOK
  <2>4. LocalsKnown'
    BY <1>3, SMT DEF Save, TypeOK, LocalsKnown, HoldsPrev
  <2> QED BY <2>3, <2>4
<1>4. CASE WriteReg(g)
  <2>1. pc' \in [Goroutines -> Labels]
    BY <1>4, SMT DEF WriteReg, TypeOK, Labels, Unregistering, Registering
  <2>2. regFile' \in Settings \cup {NoFile}
    BY <1>4, SMT DEF WriteReg, TypeOK, LocalsKnown, HoldsPrev, Snapshots, Settings
  <2>3. TypeOK'
    BY <1>4, <2>1, <2>2, NoOptionsType DEF WriteReg, TypeOK
  <2>4. LocalsKnown'
    BY <1>4, SMT DEF WriteReg, TypeOK, LocalsKnown, HoldsPrev
  <2> QED BY <2>3, <2>4
<1>5. CASE WriteCmd(g)
  <2>1. pc' \in [Goroutines -> Labels]
    BY <1>5, SMT DEF WriteCmd, TypeOK, Labels, Unregistering, Registering
  <2>2. cmdFile' \in BOOLEAN
    BY <1>5, Zenon DEF WriteCmd, TypeOK
  <2>3. TypeOK'
    BY <1>5, <2>1, <2>2, NoOptionsType DEF WriteCmd, TypeOK
  <2>4. LocalsKnown'
    BY <1>5, SMT DEF WriteCmd, TypeOK, LocalsKnown, HoldsPrev
  <2> QED BY <2>3, <2>4
<1>6. CASE SetRunOnce(g)
  <2>1. pc' \in [Goroutines -> Labels]
    BY <1>6, SMT DEF SetRunOnce, TypeOK, Labels, Unregistering, Registering
  <2>2. runOnce' \in BOOLEAN
    BY <1>6, SMT DEF SetRunOnce, TypeOK, Options
  <2>3. TypeOK'
    BY <1>6, <2>1, <2>2, NoOptionsType DEF SetRunOnce, TypeOK
  <2>4. LocalsKnown'
    BY <1>6, SMT DEF SetRunOnce, TypeOK, LocalsKnown, HoldsPrev
  <2> QED BY <2>3, <2>4
<1>7. CASE SetWatchdog(g)
  <2>1. pc' \in [Goroutines -> Labels]
    BY <1>7, SMT DEF SetWatchdog, TypeOK, Labels, Unregistering, Registering
  <2>2. runner' \in [Runners -> RunnerStates]
    BY <1>7, SMT DEF SetWatchdog, TypeOK, RunnerStates
  <2>3. TypeOK'
    BY <1>7, <2>1, <2>2, NoOptionsType DEF SetWatchdog, TypeOK
  <2>4. LocalsKnown'
    BY <1>7, SMT DEF SetWatchdog, TypeOK, LocalsKnown, HoldsPrev
  <2> QED BY <2>3, <2>4
<1>8. CASE TakeInet(g)
  <2>1. pc' \in [Goroutines -> Labels]
    BY <1>8, SMT DEF TakeInet, TypeOK, Labels, Unregistering, Registering
  <2>2. inet' \in InetValues /\ asked' \in Options
    BY <1>8, SMT DEF TakeInet, TypeOK, Options, InetValues
  <2>3. TypeOK'
    BY <1>8, <2>1, <2>2, NoOptionsType DEF TakeInet, TypeOK
  <2>4. LocalsKnown'
    BY <1>8, SMT DEF TakeInet, TypeOK, LocalsKnown, HoldsPrev
  <2> QED BY <2>3, <2>4
<1>9. CASE TakeEnv(g)
  <2>1. pc' \in [Goroutines -> Labels]
    BY <1>9, SMT DEF TakeEnv, TypeOK, Labels, Unregistering, Registering
  <2>2. env' \in EnvValues
    BY <1>9, SMT DEF TakeEnv, TypeOK, LocalsKnown, HoldsPrev, Snapshots, EnvValues
  <2>3. TypeOK'
    BY <1>9, <2>1, <2>2, NoOptionsType DEF TakeEnv, TypeOK
  <2>4. LocalsKnown'
    BY <1>9, SMT DEF TakeEnv, TypeOK, LocalsKnown, HoldsPrev
  <2> QED BY <2>3, <2>4
<1> QED
  BY <1>1, <1>2, <1>3, <1>4, <1>5, <1>6, <1>7, <1>8, <1>9 DEF Register

LEMMA TypeUiStep ==
  ASSUME TypeOK, LocalsKnown, NEW g \in Goroutines, UiStep(g)
  PROVE  TypeOK' /\ LocalsKnown'
<1>1. CASE Launch(g)
  <2>1. pc' \in [Goroutines -> Labels]
    BY <1>1, SMT DEF Launch, TypeOK, Labels, Unregistering, Registering, Spawn
  <2>2. job' \in [Goroutines -> Jobs] /\ bk' \in [Goroutines -> Backends \cup {NoBackend}] /\ prev' \in [Goroutines -> Snapshots \cup {NoFile}] /\ opt' \in [Goroutines -> Options]
    BY <1>1, NoOptionsType, SMT DEF Launch, Spawn, TypeOK, Jobs
  <2>3. epoch' \in 0 .. MaxEpochs
    BY <1>1, ParametersAssumption, SMT DEF Launch, TypeOK
  <2>4. TypeOK'
    BY <1>1, <2>1, <2>2, <2>3, NoOptionsType DEF Launch, TypeOK, Spawn
  <2>5. LocalsKnown'
    BY <1>1, SMT DEF Launch, TypeOK, LocalsKnown, HoldsPrev, Spawn
  <2> QED BY <2>4, <2>5
<1>2. CASE Apply(g)
  <2>1. pc' \in [Goroutines -> Labels]
    BY <1>2, SMT DEF Apply, TypeOK, Labels, Unregistering, Registering, Spawn
  <2>2. job' \in [Goroutines -> Jobs] /\ bk' \in [Goroutines -> Backends \cup {NoBackend}] /\ prev' \in [Goroutines -> Snapshots \cup {NoFile}] /\ opt' \in [Goroutines -> Options]
    BY <1>2, NoOptionsType, SMT DEF Apply, Spawn, TypeOK, Jobs
  <2>3. cfg' \in [Backends -> Options]
    BY <1>2, ParametersAssumption, SMT DEF Apply, TypeOK
  <2>4. TypeOK'
    BY <1>2, <2>1, <2>2, <2>3, NoOptionsType DEF Apply, TypeOK, Spawn
  <2>5. LocalsKnown'
    BY <1>2, SMT DEF Apply, TypeOK, LocalsKnown, HoldsPrev, Spawn
  <2> QED BY <2>4, <2>5
<1>3. CASE Switch(g)
  <2>1. pc' \in [Goroutines -> Labels]
    BY <1>3, SMT DEF Switch, TypeOK, Labels, Unregistering, Registering, Spawn
  <2>2. job' \in [Goroutines -> Jobs] /\ bk' \in [Goroutines -> Backends \cup {NoBackend}] /\ prev' \in [Goroutines -> Snapshots \cup {NoFile}] /\ opt' \in [Goroutines -> Options]
    BY <1>3, NoOptionsType, SMT DEF Switch, Spawn, TypeOK, Jobs
  <2>3. TypeOK'
    BY <1>3, <2>1, <2>2, NoOptionsType DEF Switch, TypeOK, Spawn
  <2>4. LocalsKnown'
    BY <1>3, SMT DEF Switch, TypeOK, LocalsKnown, HoldsPrev, Spawn
  <2> QED BY <2>3, <2>4
<1>4. CASE Quit(g)
  <2>1. pc' \in [Goroutines -> Labels]
    BY <1>4, SMT DEF Quit, TypeOK, Labels, Unregistering, Registering, Spawn
  <2>2. job' \in [Goroutines -> Jobs] /\ bk' \in [Goroutines -> Backends \cup {NoBackend}] /\ prev' \in [Goroutines -> Snapshots \cup {NoFile}] /\ opt' \in [Goroutines -> Options]
    BY <1>4, NoOptionsType, SMT DEF Quit, Spawn, TypeOK, Jobs
  <2>3. TypeOK'
    BY <1>4, <2>1, <2>2, NoOptionsType DEF Quit, TypeOK, Spawn
  <2>4. LocalsKnown'
    BY <1>4, SMT DEF Quit, TypeOK, LocalsKnown, HoldsPrev, Spawn
  <2> QED BY <2>3, <2>4
<1> QED
  BY <1>1, <1>2, <1>3, <1>4 DEF UiStep

LEMMA TypeLifecycle ==
  ASSUME TypeOK, LocalsKnown, NEW g \in Goroutines, Lifecycle(g)
  PROVE  TypeOK' /\ LocalsKnown'
<1>1. CASE ApplyBegin(g)
  <2>1. pc' \in [Goroutines -> Labels]
    BY <1>1, SMT DEF ApplyBegin, TypeOK, Labels, Unregistering, Registering
  <2>2. TypeOK'
    BY <1>1, <2>1, NoOptionsType DEF ApplyBegin, TypeOK
  <2>3. LocalsKnown'
    BY <1>1, SMT DEF ApplyBegin, TypeOK, LocalsKnown, HoldsPrev
  <2> QED BY <2>2, <2>3
<1>2. CASE StopBackend(g)
  <2>1. pc' \in [Goroutines -> Labels]
    BY <1>2, SMT DEF StopBackend, TypeOK, Labels, Unregistering, Registering
  <2>2. bk' \in [Goroutines -> Backends \cup {NoBackend}]
    BY <1>2, SMT DEF StopBackend, TypeOK
  <2>3. TypeOK'
    BY <1>2, <2>1, <2>2, NoOptionsType DEF StopBackend, TypeOK
  <2>4. LocalsKnown'
    BY <1>2, SMT DEF StopBackend, TypeOK, LocalsKnown, HoldsPrev
  <2> QED BY <2>3, <2>4
<1>3. CASE ApplyRest(g)
  <2>1. pc' \in [Goroutines -> Labels]
    BY <1>3, SMT DEF ApplyRest, TypeOK, Labels, Unregistering, Registering
  <2>2. opt' \in [Goroutines -> Options]
    BY <1>3, SMT DEF ApplyRest, TypeOK, LocalsKnown
  <2>3. TypeOK'
    BY <1>3, <2>1, <2>2, NoOptionsType DEF ApplyRest, TypeOK
  <2>4. LocalsKnown'
    BY <1>3, SMT DEF ApplyRest, TypeOK, LocalsKnown, HoldsPrev
  <2> QED BY <2>3, <2>4
<1>4. CASE StartNext(g)
  <2>1. pc' \in [Goroutines -> Labels]
    BY <1>4, SMT DEF StartNext, TypeOK, Labels, Unregistering, Registering
  <2>2. TypeOK'
    BY <1>4, <2>1, NoOptionsType DEF StartNext, TypeOK
  <2>3. LocalsKnown'
    BY <1>4, SMT DEF StartNext, TypeOK, LocalsKnown, HoldsPrev
  <2> QED BY <2>2, <2>3
<1>5. CASE Publish(g)
  <2>1. pc' \in [Goroutines -> Labels]
    BY <1>5, SMT DEF Publish, TypeOK, Labels, Unregistering, Registering
  <2>2. /\ backend' \in Backends \cup {NoBackend}
        /\ bk' \in [Goroutines -> Backends \cup {NoBackend}]
        /\ cfg' \in [Backends -> Options] /\ listens' \in [Backends -> BOOLEAN]
    <3>1. CASE UNCHANGED <<backend, bk, cfg, listens>>
      BY <3>1 DEF TypeOK
    <3>2. CASE \E b \in Backends, c \in Configs :
                  /\ backend' = b /\ bk' = [bk EXCEPT ![g] = b]
                  /\ cfg' = [cfg EXCEPT ![b] = c]
                  /\ listens' = [listens EXCEPT ![b] = FALSE]
      BY <3>2, ParametersAssumption, SMT DEF TypeOK
    <3> QED BY <1>5, <3>1, <3>2, Zenon DEF Publish
  <2>3. TypeOK'
    BY <1>5, <2>1, <2>2, NoOptionsType DEF Publish, TypeOK
  <2>4. LocalsKnown'
    BY <1>5, ValuesAssumption, SMT DEF Publish, TypeOK, LocalsKnown, HoldsPrev
  <2> QED BY <2>3, <2>4
<1>6. CASE StartBackend(g)
  <2>1. pc' \in [Goroutines -> Labels]
    BY <1>6, SMT DEF StartBackend, TypeOK, Labels, Unregistering, Registering
  <2>2. bk[g] \in Backends
    BY <1>6, SMT DEF StartBackend, TypeOK, LocalsKnown
  <2>3. opt' \in [Goroutines -> Options]
    BY <1>6, <2>2, SMT DEF StartBackend, TypeOK
  <2>4. listens' = listens \/ listens' = [listens EXCEPT ![bk[g]] = TRUE]
    BY <1>6 DEF StartBackend
  <2>5. listens' \in [Backends -> BOOLEAN]
    <3>1. listens \in [Backends -> BOOLEAN]
      BY DEF TypeOK
    <3> QED BY <2>4, <3>1
  <2>6. backend' \in Backends \cup {NoBackend}
    BY <1>6, SMT DEF StartBackend, TypeOK
  <2>7. TypeOK'
    BY <1>6, <2>1, <2>2, <2>3, <2>4, <2>5, <2>6, NoOptionsType DEF StartBackend, TypeOK
  <2>8. LocalsKnown'
    BY <1>6, SMT DEF StartBackend, TypeOK, LocalsKnown, HoldsPrev
  <2> QED BY <2>7, <2>8
<1>7. CASE LeaveLoop(g)
  <2>1. pc' \in [Goroutines -> Labels]
    BY <1>7, SMT DEF LeaveLoop, TypeOK, Labels, Unregistering, Registering
  <2>2. job' \in [Goroutines -> Jobs]
    BY <1>7, SMT DEF LeaveLoop, TypeOK, Jobs
  <2>3. TypeOK'
    BY <1>7, <2>1, <2>2, NoOptionsType DEF LeaveLoop, TypeOK
  <2>4. LocalsKnown'
    BY <1>7, SMT DEF LeaveLoop, TypeOK, LocalsKnown, HoldsPrev
  <2> QED BY <2>3, <2>4
<1>8. CASE Exit(g)
  <2>1. /\ pc' \in [Goroutines -> Labels] /\ job' \in [Goroutines -> Jobs]
         /\ \A h \in Goroutines : pc'[h] = "idle" /\ job'[h] = "none"
    BY <1>8 DEF Exit, Die, Labels, Jobs
  <2>2. TypeOK'
    BY <1>8, <2>1, NoOptionsType DEF Exit, TypeOK, Die
  <2>3. LocalsKnown'
    BY <1>8, <2>1, Zenon DEF LocalsKnown, HoldsPrev
  <2> QED BY <2>2, <2>3
<1> QED
  BY <1>1, <1>2, <1>3, <1>4, <1>5, <1>6, <1>7, <1>8 DEF Lifecycle

LEMMA TypeRestorer ==
  ASSUME TypeOK, LocalsKnown, NEW r \in Runners, Restorer(r)
  PROVE  TypeOK' /\ LocalsKnown'
<1>1. CASE FindParent(r)
  <2>1. runner' \in [Runners -> RunnerStates]
    BY <1>1, SMT DEF FindParent, TypeOK, RunnerStates
  <2>2. TypeOK'
    BY <1>1, <2>1, NoOptionsType DEF FindParent, TypeOK
  <2>3. LocalsKnown'
    BY <1>1, SMT DEF FindParent, TypeOK, LocalsKnown, HoldsPrev
  <2> QED BY <2>2, <2>3
<1>2. CASE ParentExited(r)
  <2>1. runner' \in [Runners -> RunnerStates]
    BY <1>2, SMT DEF ParentExited, TypeOK, RunnerStates
  <2>2. TypeOK'
    BY <1>2, <2>1, NoOptionsType DEF ParentExited, TypeOK
  <2>3. LocalsKnown'
    BY <1>2, SMT DEF ParentExited, TypeOK, LocalsKnown, HoldsPrev
  <2> QED BY <2>2, <2>3
<1>3. CASE ScriptGone(r)
  <2>1. runner' \in [Runners -> RunnerStates]
    BY <1>3, SMT DEF ScriptGone, TypeOK, RunnerStates
  <2>2. TypeOK'
    BY <1>3, <2>1, NoOptionsType DEF ScriptGone, TypeOK
  <2>3. LocalsKnown'
    BY <1>3, SMT DEF ScriptGone, TypeOK, LocalsKnown, HoldsPrev
  <2> QED BY <2>2, <2>3
<1>4. CASE Import(r)
  <2>1. runner' \in [Runners -> RunnerStates]
    BY <1>4, SMT DEF Import, TypeOK, RunnerStates, Line
  <2>2. inet' \in InetValues /\ env' \in EnvValues
    BY <1>4, SMT DEF Import, Line, TypeOK, Settings
  <2>3. TypeOK'
    BY <1>4, <2>1, <2>2, NoOptionsType DEF Import, TypeOK, Line
  <2>4. LocalsKnown'
    BY <1>4, SMT DEF Import, TypeOK, LocalsKnown, HoldsPrev, Line
  <2> QED BY <2>3, <2>4
<1>5. CASE DelRunOnce(r)
  <2>1. runner' \in [Runners -> RunnerStates]
    BY <1>5, SMT DEF DelRunOnce, TypeOK, RunnerStates, Line
  <2>2. TypeOK'
    BY <1>5, <2>1, NoOptionsType DEF DelRunOnce, TypeOK, Line
  <2>3. LocalsKnown'
    BY <1>5, SMT DEF DelRunOnce, TypeOK, LocalsKnown, HoldsPrev, Line
  <2> QED BY <2>2, <2>3
<1>6. CASE DelJson(r)
  <2>1. runner' \in [Runners -> RunnerStates]
    BY <1>6, SMT DEF DelJson, TypeOK, RunnerStates, Line
  <2>2. TypeOK'
    BY <1>6, <2>1, NoOptionsType DEF DelJson, TypeOK, Line
  <2>3. LocalsKnown'
    BY <1>6, SMT DEF DelJson, TypeOK, LocalsKnown, HoldsPrev, Line
  <2> QED BY <2>2, <2>3
<1>7. CASE DelReg(r)
  <2>1. runner' \in [Runners -> RunnerStates]
    BY <1>7, SMT DEF DelReg, TypeOK, RunnerStates, Line
  <2>2. TypeOK'
    BY <1>7, <2>1, NoOptionsType DEF DelReg, TypeOK, Line
  <2>3. LocalsKnown'
    BY <1>7, SMT DEF DelReg, TypeOK, LocalsKnown, HoldsPrev, Line
  <2> QED BY <2>2, <2>3
<1>8. CASE DelCmd(r)
  <2>1. runner' \in [Runners -> RunnerStates]
    BY <1>8, SMT DEF DelCmd, TypeOK, RunnerStates, Line
  <2>2. TypeOK'
    BY <1>8, <2>1, NoOptionsType DEF DelCmd, TypeOK, Line
  <2>3. LocalsKnown'
    BY <1>8, SMT DEF DelCmd, TypeOK, LocalsKnown, HoldsPrev, Line
  <2> QED BY <2>2, <2>3
<1> QED
  BY <1>1, <1>2, <1>3, <1>4, <1>5, <1>6, <1>7, <1>8 DEF Restorer

LEMMA TypeEnvironment ==
  ASSUME TypeOK, LocalsKnown, Crash \/ Reboot \/ Edit
  PROVE  TypeOK' /\ LocalsKnown'
<1>1. CASE Crash
  <2>1. /\ pc' \in [Goroutines -> Labels] /\ job' \in [Goroutines -> Jobs]
         /\ \A h \in Goroutines : pc'[h] = "idle" /\ job'[h] = "none"
    BY <1>1 DEF Crash, Die, Labels, Jobs
  <2>2. TypeOK'
    BY <1>1, <2>1, NoOptionsType DEF Crash, TypeOK, Die
  <2>3. LocalsKnown'
    BY <1>1, <2>1, Zenon DEF LocalsKnown, HoldsPrev
  <2> QED BY <2>2, <2>3
<1>2. CASE Reboot
  <2>1. /\ pc' \in [Goroutines -> Labels] /\ job' \in [Goroutines -> Jobs]
         /\ \A h \in Goroutines : pc'[h] = "idle" /\ job'[h] = "none"
    BY <1>2 DEF Reboot, Die, Labels, Jobs
  <2>2. runner' \in [Runners -> RunnerStates]
    BY <1>2, SMT DEF Reboot, TypeOK, RunnerStates
  <2>3. proc' \in {"running", "exited", "crashed"}
    BY <1>2, SMT DEF Reboot, Die, TypeOK
  <2>4. TypeOK'
    BY <1>2, <2>1, <2>2, <2>3, NoOptionsType DEF Reboot, TypeOK, Die
  <2>5. LocalsKnown'
    BY <1>2, <2>1, Zenon DEF LocalsKnown, HoldsPrev
  <2> QED BY <2>4, <2>5
<1>3. CASE Edit
  <2>1. /\ inet' \in InetValues /\ env' \in EnvValues
         /\ want' \in Chosen
    BY <1>3, SMT DEF Edit, InetValues, EnvValues, Chosen
  <2>2. choices' = {want'} \/ choices' = {want'} \cup choices
    BY <1>3 DEF Edit
  <2>3. choices' \in SUBSET Chosen
    BY <2>1, <2>2 DEF TypeOK
  <2>4. TypeOK'
    BY <1>3, <2>1, <2>3, NoOptionsType DEF Edit, TypeOK
  <2>5. LocalsKnown'
    BY <1>3, SMT DEF Edit, TypeOK, LocalsKnown, HoldsPrev
  <2> QED BY <2>4, <2>5
<1> QED BY <1>1, <1>2, <1>3

LEMMA TypeStep == TypeOK /\ LocalsKnown /\ [Next]_vars => TypeOK' /\ LocalsKnown'
<1> SUFFICES ASSUME TypeOK, LocalsKnown, [Next]_vars PROVE TypeOK' /\ LocalsKnown'
  OBVIOUS
<1>1. ASSUME NEW g \in Goroutines, GoStep(g) \/ UiStep(g) PROVE TypeOK' /\ LocalsKnown'
  BY <1>1, TypeUnregister, TypeRegister, TypeLifecycle, TypeUiStep DEF GoStep
<1>2. ASSUME NEW r \in Runners, Restorer(r) PROVE TypeOK' /\ LocalsKnown'
  BY <1>2, TypeRestorer
<1>3. CASE Crash \/ Reboot \/ Edit
  BY <1>3, TypeEnvironment
<1>4. CASE UNCHANGED vars
  BY <1>4 DEF vars, TypeOK, LocalsKnown
<1> QED BY <1>1, <1>2, <1>3, <1>4 DEF Next

\* Every variable keeps its type, and a goroutine never uses saved settings
\* or a backend it does not have, however calls, crashes and faults fall.
THEOREM TypeCorrect == Spec => [](TypeOK /\ LocalsKnown)
BY TypeInit, TypeStep, PTL DEF Spec

=============================================================================
