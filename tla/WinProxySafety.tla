--------------------------- MODULE WinProxySafety ---------------------------
(***************************************************************************)
(* The safety of the registration, for every set of profiles and settings  *)
(* and every number of launches: under SafeUse, IInv is an invariant, so   *)
(* what was taken from the user can always be given back.                  *)
(***************************************************************************)
EXTENDS WinProxyProofs

USE DEF Fails, Goto, Idle, user, world, disk, nets, process, locals,
        Taken, Restored, InForce, ThisMachine, Up, Registering, Back, RegIsUsers

\* The three parts of the invariant that the steps below establish: what is
\* saved, what the restorers would do, and where the calls are.
SavedIsUsers == SnapshotIsUsers /\ TakenIsSaved /\ ExitedBack
ScriptsReady == ScriptIsUsers /\ RunnersApart
CallsInOrder == UsesSnapshot /\ Untaken /\ Owned

LEMMA IInvParts ==
  IInv <=> TypeOK /\ LocalsKnown /\ SavedIsUsers /\ ScriptsReady /\ CallsInOrder
BY Zenon DEF IInv, SavedIsUsers, ScriptsReady, CallsInOrder

LEMMA SafeInit == Init => IInv
<1> SUFFICES ASSUME Init PROVE IInv
  OBVIOUS
<1>1. TypeOK /\ LocalsKnown
  BY TypeInit
<1>2. json = NoFile /\ regFile = NoFile /\ ~Taken /\ proc = "exited" /\ ~runOnce /\ ~cmdFile
  <2>1. \E i, e \in UserValues : inet = i /\ env = e /\ want = [inet |-> i, env |-> e]
    BY DEF Init
  <2> QED BY <2>1 DEF Init
<1>3. /\ \A r \in Runners : runner[r] = "none"
      /\ \A g \in Goroutines : pc[g] = "idle" /\ job[g] = "none"
  BY DEF Init
<1>4. SavedIsUsers
  BY <1>2 DEF SavedIsUsers, SnapshotIsUsers, TakenIsSaved, ExitedBack
<1>5. ScriptsReady
  BY <1>2, <1>3, Zenon DEF ScriptsReady, ScriptIsUsers, RunnersApart
<1>6. CallsInOrder
  BY <1>2, <1>3, Zenon DEF CallsInOrder, UsesSnapshot, Untaken, Owned
<1> QED BY <1>1, <1>4, <1>5, <1>6, IInvParts

\* The user's own settings come back before the snapshot, the entry and the script
\* are dropped, in that order.
LEMMA SafeUnregister ==
  ASSUME SafeUse, IInv, NEW g \in Goroutines, Unregister(g)
  PROVE  IInv'
<1>0. TypeOK' /\ LocalsKnown'
  BY TypeUnregister DEF IInv
<1>1. CASE UnLoad(g)
  <2>1. SavedIsUsers'
    BY <1>1, SMT DEF UnLoad, IInv, SavedIsUsers, SnapshotIsUsers, TakenIsSaved,
       ExitedBack
  <2>2. ScriptsReady'
    BY <1>1, SMT DEF UnLoad, IInv, ScriptsReady, ScriptIsUsers, RunnersApart, Armed
  <2>3. CallsInOrder'
    BY <1>1, SMT DEF UnLoad, IInv, CallsInOrder, UsesSnapshot, Untaken, Owned, SafeUse, TypeOK
  <2> QED BY <1>0, <2>1, <2>2, <2>3 DEF IInv, SavedIsUsers, ScriptsReady, CallsInOrder
<1>2. CASE UnWatchdog(g)
  <2>1. SavedIsUsers'
    BY <1>2, SMT DEF UnWatchdog, IInv, SavedIsUsers, SnapshotIsUsers, TakenIsSaved,
       ExitedBack
  <2>2. ScriptsReady'
    BY <1>2, SMT DEF UnWatchdog, IInv, ScriptsReady, CallsInOrder, ScriptIsUsers, RunnersApart,
       Armed, Owned, TypeOK
  <2>3. CallsInOrder'
    BY <1>2, SMTT(10) DEF UnWatchdog, IInv, SavedIsUsers, CallsInOrder, UsesSnapshot, Untaken,
       Owned, SafeUse, TypeOK, SnapshotIsUsers, TakenIsSaved, LocalsKnown, ExitedBack
  <2> QED BY <1>0, <2>1, <2>2, <2>3 DEF IInv, SavedIsUsers, ScriptsReady, CallsInOrder
<1>3. CASE RestoreInet(g)
  <2>1. SavedIsUsers'
    BY <1>3, SMT DEF RestoreInet, IInv, SavedIsUsers, CallsInOrder, SnapshotIsUsers,
       TakenIsSaved, ExitedBack, UsesSnapshot, TypeOK
  <2>2. ScriptsReady'
    BY <1>3, SMT DEF RestoreInet, IInv, ScriptsReady, CallsInOrder, ScriptIsUsers, RunnersApart,
       Armed, Untaken, UsesSnapshot, Owned, SafeUse, TypeOK
  <2>3. CallsInOrder'
    BY <1>3, SMT DEF RestoreInet, IInv, SavedIsUsers, CallsInOrder, UsesSnapshot, Untaken,
       Owned, SafeUse, TypeOK, SnapshotIsUsers, LocalsKnown
  <2> QED BY <1>0, <2>1, <2>2, <2>3 DEF IInv, SavedIsUsers, ScriptsReady, CallsInOrder
<1>4. CASE RestoreEnv(g)
  <2>1. SavedIsUsers'
    BY <1>4, SMT DEF RestoreEnv, IInv, SavedIsUsers, CallsInOrder, SnapshotIsUsers,
       TakenIsSaved, ExitedBack, UsesSnapshot, TypeOK
  <2>2. ScriptsReady'
    BY <1>4, SMT DEF RestoreEnv, IInv, ScriptsReady, CallsInOrder, ScriptIsUsers, RunnersApart,
       Armed, Untaken, UsesSnapshot, Owned, SafeUse, TypeOK
  <2>3. CallsInOrder'
    BY <1>4, SMT DEF RestoreEnv, IInv, SavedIsUsers, CallsInOrder, UsesSnapshot, Untaken, Owned,
       SafeUse, TypeOK, SnapshotIsUsers, LocalsKnown
  <2> QED BY <1>0, <2>1, <2>2, <2>3 DEF IInv, SavedIsUsers, ScriptsReady, CallsInOrder
<1>5. CASE RemoveSaved(g)
  <2>1. SavedIsUsers'
    BY <1>5, SMT DEF RemoveSaved, IInv, SavedIsUsers, CallsInOrder, SnapshotIsUsers,
       TakenIsSaved, ExitedBack, Untaken
  <2>2. ScriptsReady'
    BY <1>5, SMT DEF RemoveSaved, IInv, ScriptsReady, ScriptIsUsers, RunnersApart, Armed
  <2>3. CallsInOrder'
    BY <1>5, SMT DEF RemoveSaved, IInv, CallsInOrder, UsesSnapshot, Untaken, Owned, SafeUse,
       TypeOK
  <2> QED BY <1>0, <2>1, <2>2, <2>3 DEF IInv, SavedIsUsers, ScriptsReady, CallsInOrder
<1>6. CASE RemoveRunOnce(g)
  <2>1. SavedIsUsers'
    BY <1>6, SMT DEF RemoveRunOnce, IInv, SavedIsUsers, SnapshotIsUsers, TakenIsSaved,
       ExitedBack
  <2>2. ScriptsReady'
    BY <1>6, SMT DEF RemoveRunOnce, IInv, ScriptsReady, ScriptIsUsers, RunnersApart, Armed
  <2>3. CallsInOrder'
    BY <1>6, SMT DEF RemoveRunOnce, IInv, CallsInOrder, UsesSnapshot, Untaken, Owned, SafeUse,
       TypeOK
  <2> QED BY <1>0, <2>1, <2>2, <2>3 DEF IInv, SavedIsUsers, ScriptsReady, CallsInOrder
<1>7. CASE RemoveCmd(g)
  <2>1. SavedIsUsers'
    BY <1>7, SMT DEF RemoveCmd, IInv, SavedIsUsers, SnapshotIsUsers, TakenIsSaved,
       ExitedBack
  <2>2. ScriptsReady'
    BY <1>7, SMT DEF RemoveCmd, IInv, ScriptsReady, ScriptIsUsers, RunnersApart, Armed
  <2>3. CallsInOrder'
    BY <1>7, SMT DEF RemoveCmd, IInv, CallsInOrder, UsesSnapshot, Untaken, Owned, SafeUse,
       TypeOK
  <2> QED BY <1>0, <2>1, <2>2, <2>3 DEF IInv, SavedIsUsers, ScriptsReady, CallsInOrder
<1>8. CASE RemoveReg(g)
  <2>1. SavedIsUsers'
    BY <1>8, SMT DEF RemoveReg, IInv, SavedIsUsers, SnapshotIsUsers, TakenIsSaved,
       ExitedBack
  <2>2. ScriptsReady'
    BY <1>8, SMT DEF RemoveReg, IInv, ScriptsReady, CallsInOrder, ScriptIsUsers, RunnersApart,
       Armed, UsesSnapshot, TypeOK
  <2>3. CallsInOrder'
    BY <1>8, SMT DEF RemoveReg, IInv, CallsInOrder, UsesSnapshot, Untaken, Owned, SafeUse,
       TypeOK
  <2> QED BY <1>0, <2>1, <2>2, <2>3 DEF IInv, SavedIsUsers, ScriptsReady, CallsInOrder
<1> QED
  BY <1>1, <1>2, <1>3, <1>4, <1>5, <1>6, <1>7, <1>8 DEF Unregister

\* Nothing is taken before the snapshot and the script hold the user's settings.
LEMMA SafeRegister ==
  ASSUME SafeUse, IInv, NEW g \in Goroutines, Register(g)
  PROVE  IInv'
<1>0. TypeOK' /\ LocalsKnown'
  BY TypeRegister DEF IInv
<1>1. CASE RegLoad(g)
  <2>1. SavedIsUsers'
    BY <1>1, SMT DEF RegLoad, IInv, SavedIsUsers, SnapshotIsUsers, TakenIsSaved,
       ExitedBack
  <2>2. ScriptsReady'
    BY <1>1, SMT DEF RegLoad, IInv, ScriptsReady, ScriptIsUsers, RunnersApart, Armed
  <2>3. CallsInOrder'
    BY <1>1, SMT DEF RegLoad, IInv, SavedIsUsers, CallsInOrder, UsesSnapshot, Untaken, Owned,
       SafeUse, TypeOK, SnapshotIsUsers, LocalsKnown
  <2> QED BY <1>0, <2>1, <2>2, <2>3 DEF IInv, SavedIsUsers, ScriptsReady, CallsInOrder
<1>2. CASE Capture(g)
  <2>1. SavedIsUsers'
    BY <1>2, SMT DEF Capture, IInv, SavedIsUsers, SnapshotIsUsers, TakenIsSaved,
       ExitedBack
  <2>2. ScriptsReady'
    BY <1>2, SMT DEF Capture, IInv, ScriptsReady, ScriptIsUsers, RunnersApart, Armed
  <2>3. CallsInOrder'
    <3>1. json = NoFile /\ inet = want.inet /\ env = want.env
      BY <1>2, SMT DEF Capture, IInv, SavedIsUsers, CallsInOrder, TakenIsSaved, UsesSnapshot
    <3>2. CASE pc' = [pc EXCEPT ![g] = "idle"] /\ UNCHANGED prev
      BY <1>2, <3>2, SMT DEF Capture, IInv, CallsInOrder, UsesSnapshot, Untaken, Owned, SafeUse, TypeOK
    <3>3. CASE /\ pc' = [pc EXCEPT ![g] = "r.save"]
               /\ prev' = [prev EXCEPT ![g] = [machine |-> machine, inet |-> inet, env |-> env]]
      <4>1. [machine |-> machine, inet |-> inet, env |-> env] # NoFile
        BY ValuesAssumption DEF IInv, TypeOK, Snapshots
      <4>2. \A h \in Goroutines : /\ h = g /\ pc'[h] = "r.save"
                                  /\ prev'[h] = [machine |-> machine, inet |-> inet, env |-> env]
        BY <3>3 DEF SafeUse, IInv, TypeOK
      <4>3. UsesSnapshot'
        BY <1>2, <3>1, <4>1, <4>2, SMT DEF Capture, UsesSnapshot
      <4>4. (Untaken /\ Owned)'
        BY <1>2, <3>3, SMT DEF Capture, IInv, CallsInOrder, Untaken, Owned, SafeUse, TypeOK
      <4> QED BY <4>3, <4>4 DEF CallsInOrder
    <3> QED BY <1>2, <3>2, <3>3 DEF Capture
  <2> QED BY <1>0, <2>1, <2>2, <2>3 DEF IInv, SavedIsUsers, ScriptsReady, CallsInOrder
<1>3. CASE Save(g)
  <2>1. SavedIsUsers'
    BY <1>3, SMT DEF Save, IInv, SavedIsUsers, CallsInOrder, SnapshotIsUsers, TakenIsSaved,
       ExitedBack, UsesSnapshot, TypeOK
  <2>2. ScriptsReady'
    BY <1>3, SMT DEF Save, IInv, ScriptsReady, ScriptIsUsers, RunnersApart, Armed
  <2>3. CallsInOrder'
    BY <1>3, SMT DEF Save, IInv, CallsInOrder, UsesSnapshot, Untaken, Owned, SafeUse, TypeOK
  <2> QED BY <1>0, <2>1, <2>2, <2>3 DEF IInv, SavedIsUsers, ScriptsReady, CallsInOrder
<1>4. CASE WriteReg(g)
  <2>0. \/ regFile' = regFile /\ pc' = [pc EXCEPT ![g] = "r.runOnce"] /\ "files" \in Faults
        \/ RegIsUsers' /\ pc' = [pc EXCEPT ![g] = "r.cmd"]
    <3>1. inet = want.inet /\ prev[g].env = want.env /\ prev[g] # NoFile
      BY <1>4, SMT DEF WriteReg, IInv, CallsInOrder, SavedIsUsers, UsesSnapshot, Untaken, SnapshotIsUsers
    <3>2. [inet |-> inet, env |-> prev[g].env] \in Settings
      BY <3>1, SMT DEF IInv, TypeOK, Snapshots, Settings
    <3> QED BY <1>4, <3>1, <3>2, ValuesAssumption DEF WriteReg
  <2>1. SavedIsUsers'
    BY <1>4, SMT DEF WriteReg, IInv, SavedIsUsers, SnapshotIsUsers, TakenIsSaved,
       ExitedBack
  <2>2. ScriptsReady'
    <3>1. ScriptIsUsers'
      BY <1>4, <2>0, SMT DEF WriteReg, IInv, ScriptsReady, ScriptIsUsers, Armed
    <3>2. RunnersApart'
      BY <1>4, SMT DEF WriteReg, IInv, ScriptsReady, RunnersApart
    <3> QED BY <3>1, <3>2 DEF ScriptsReady
  <2>3. CallsInOrder'
    <3>1. UsesSnapshot'
      BY <1>4, <2>0, SMT DEF WriteReg, IInv, ScriptsReady, CallsInOrder, ScriptIsUsers, RunnersApart,
         UsesSnapshot, Owned, SafeUse, TypeOK, Runners
    <3>2. (Untaken /\ Owned)'
      BY <1>4, SMT DEF WriteReg, IInv, CallsInOrder, Untaken, Owned, SafeUse, TypeOK
    <3> QED BY <3>1, <3>2 DEF CallsInOrder
  <2> QED BY <1>0, <2>1, <2>2, <2>3 DEF IInv, SavedIsUsers, ScriptsReady, CallsInOrder
<1>5. CASE WriteCmd(g)
  <2>1. SavedIsUsers'
    BY <1>5, SMT DEF WriteCmd, IInv, SavedIsUsers, SnapshotIsUsers, TakenIsSaved,
       ExitedBack
  <2>2. ScriptsReady'
    BY <1>5, SMT DEF WriteCmd, IInv, ScriptsReady, CallsInOrder, ScriptIsUsers, RunnersApart,
       Armed, UsesSnapshot, TypeOK
  <2>3. CallsInOrder'
    BY <1>5, SMT DEF WriteCmd, IInv, CallsInOrder, UsesSnapshot, Untaken, Owned, SafeUse, TypeOK
  <2> QED BY <1>0, <2>1, <2>2, <2>3 DEF IInv, SavedIsUsers, ScriptsReady, CallsInOrder
<1>6. CASE SetRunOnce(g)
  <2>1. SavedIsUsers'
    BY <1>6, SMT DEF SetRunOnce, IInv, SavedIsUsers, SnapshotIsUsers, TakenIsSaved,
       ExitedBack
  <2>2. ScriptsReady'
    BY <1>6, SMT DEF SetRunOnce, IInv, ScriptsReady, CallsInOrder, ScriptIsUsers, RunnersApart,
       Armed, Untaken, UsesSnapshot, Owned, SafeUse, TypeOK
  <2>3. CallsInOrder'
    BY <1>6, SMT DEF SetRunOnce, IInv, CallsInOrder, UsesSnapshot, Untaken, Owned, SafeUse,
       TypeOK
  <2> QED BY <1>0, <2>1, <2>2, <2>3 DEF IInv, SavedIsUsers, ScriptsReady, CallsInOrder
<1>7. CASE SetWatchdog(g)
  <2>1. SavedIsUsers'
    BY <1>7, SMT DEF SetWatchdog, IInv, SavedIsUsers, SnapshotIsUsers, TakenIsSaved,
       ExitedBack
  <2>2. ScriptsReady'
    BY <1>7, SMT DEF SetWatchdog, IInv, ScriptsReady, CallsInOrder, ScriptIsUsers, RunnersApart,
       Armed, Untaken, UsesSnapshot, Owned, SafeUse, TypeOK
  <2>3. CallsInOrder'
    BY <1>7, SMT DEF SetWatchdog, IInv, CallsInOrder, UsesSnapshot, Untaken, Owned, SafeUse,
       TypeOK
  <2> QED BY <1>0, <2>1, <2>2, <2>3 DEF IInv, SavedIsUsers, ScriptsReady, CallsInOrder
<1>8. CASE TakeInet(g)
  <2>1. SavedIsUsers'
    BY <1>8, SMT DEF TakeInet, IInv, SavedIsUsers, CallsInOrder, SnapshotIsUsers, TakenIsSaved,
       ExitedBack, Untaken, UsesSnapshot, TypeOK, Owned, SafeUse
  <2>2. ScriptsReady'
    BY <1>8, SMT DEF TakeInet, IInv, ScriptsReady, CallsInOrder, ScriptIsUsers, RunnersApart,
       Armed, Untaken, UsesSnapshot, Owned, SafeUse, TypeOK
  <2>3. CallsInOrder'
    BY <1>8, SMT DEF TakeInet, IInv, CallsInOrder, UsesSnapshot, Untaken, Owned, SafeUse, TypeOK
  <2> QED BY <1>0, <2>1, <2>2, <2>3 DEF IInv, SavedIsUsers, ScriptsReady, CallsInOrder
<1>9. CASE TakeEnv(g)
  <2>1. SavedIsUsers'
    BY <1>9, SMT DEF TakeEnv, IInv, SavedIsUsers, CallsInOrder, SnapshotIsUsers, TakenIsSaved,
       ExitedBack, Untaken, UsesSnapshot, TypeOK, Owned, SafeUse
  <2>2. ScriptsReady'
    BY <1>9, SMT DEF TakeEnv, IInv, ScriptsReady, CallsInOrder, ScriptIsUsers, RunnersApart,
       Armed, Untaken, UsesSnapshot, Owned, SafeUse, TypeOK
  <2>3. CallsInOrder'
    BY <1>9, SMT DEF TakeEnv, IInv, CallsInOrder, UsesSnapshot, Untaken, Owned, SafeUse, TypeOK
  <2> QED BY <1>0, <2>1, <2>2, <2>3 DEF IInv, SavedIsUsers, ScriptsReady, CallsInOrder
<1> QED
  BY <1>1, <1>2, <1>3, <1>4, <1>5, <1>6, <1>7, <1>8, <1>9 DEF Register

\* A launch finds no script at work, and the event loop starts calls one at a time.
LEMMA SafeUiStep ==
  ASSUME SafeUse, IInv, NEW g \in Goroutines, UiStep(g)
  PROVE  IInv'
<1>0. TypeOK' /\ LocalsKnown'
  BY TypeUiStep DEF IInv
<1>1. CASE Launch(g)
  <2>1. SavedIsUsers'
    BY <1>1, SMT DEF Launch, IInv, SavedIsUsers, SnapshotIsUsers, TakenIsSaved,
       ExitedBack, Spawn, EventLoop, Leaving
  <2>2. ScriptsReady'
    BY <1>1, ParametersAssumption, SMTT(10) DEF Launch, IInv, ScriptsReady, CallsInOrder,
       ScriptIsUsers, RunnersApart, Armed, Untaken, UsesSnapshot, Owned, SafeUse, TypeOK, Spawn,
       EventLoop, Leaving, Runners
  <2>3. CallsInOrder'
    BY <1>1, SMT DEF Launch, IInv, CallsInOrder, UsesSnapshot, Untaken, Owned, SafeUse, TypeOK,
       Spawn, EventLoop, Leaving
  <2> QED BY <1>0, <2>1, <2>2, <2>3 DEF IInv, SavedIsUsers, ScriptsReady, CallsInOrder
<1>2. CASE Apply(g)
  <2>1. SavedIsUsers'
    BY <1>2, SMT DEF Apply, IInv, SavedIsUsers, SnapshotIsUsers, TakenIsSaved,
       ExitedBack, Spawn, EventLoop, Leaving
  <2>2. ScriptsReady'
    BY <1>2, SMT DEF Apply, IInv, ScriptsReady, ScriptIsUsers, RunnersApart, Armed, Spawn,
       EventLoop, Leaving
  <2>3. CallsInOrder'
    BY <1>2, SMT DEF Apply, IInv, CallsInOrder, UsesSnapshot, Untaken, Owned, SafeUse, TypeOK,
       Spawn, EventLoop, Leaving
  <2> QED BY <1>0, <2>1, <2>2, <2>3 DEF IInv, SavedIsUsers, ScriptsReady, CallsInOrder
<1>3. CASE Switch(g)
  <2>1. SavedIsUsers'
    BY <1>3, SMT DEF Switch, IInv, SavedIsUsers, SnapshotIsUsers, TakenIsSaved,
       ExitedBack, Spawn, EventLoop, Leaving
  <2>2. ScriptsReady'
    BY <1>3, SMT DEF Switch, IInv, ScriptsReady, ScriptIsUsers, RunnersApart, Armed, Spawn,
       EventLoop, Leaving
  <2>3. CallsInOrder'
    BY <1>3, SMT DEF Switch, IInv, CallsInOrder, UsesSnapshot, Untaken, Owned, SafeUse, TypeOK,
       Spawn, EventLoop, Leaving
  <2> QED BY <1>0, <2>1, <2>2, <2>3 DEF IInv, SavedIsUsers, ScriptsReady, CallsInOrder
<1>4. CASE Quit(g)
  <2>1. SavedIsUsers'
    BY <1>4, SMT DEF Quit, IInv, SavedIsUsers, SnapshotIsUsers, TakenIsSaved, ExitedBack,
       Spawn, EventLoop, Leaving
  <2>2. ScriptsReady'
    BY <1>4, SMT DEF Quit, IInv, ScriptsReady, ScriptIsUsers, RunnersApart, Armed, Spawn,
       EventLoop, Leaving
  <2>3. CallsInOrder'
    BY <1>4, SMT DEF Quit, IInv, CallsInOrder, UsesSnapshot, Untaken, Owned, SafeUse, TypeOK,
       Spawn, EventLoop, Leaving
  <2> QED BY <1>0, <2>1, <2>2, <2>3 DEF IInv, SavedIsUsers, ScriptsReady, CallsInOrder
<1> QED
  BY <1>1, <1>2, <1>3, <1>4 DEF UiStep

\* A backend that has taken the settings is only dropped by a Close that restores.
LEMMA SafeLifecycle ==
  ASSUME SafeUse, IInv, NEW g \in Goroutines, Lifecycle(g)
  PROVE  IInv'
<1>0. TypeOK' /\ LocalsKnown'
  BY TypeLifecycle DEF IInv
<1>1. CASE ApplyBegin(g)
  <2>1. SavedIsUsers'
    BY <1>1, SMT DEF ApplyBegin, IInv, SavedIsUsers, SnapshotIsUsers, TakenIsSaved,
       ExitedBack
  <2>2. ScriptsReady'
    BY <1>1, SMT DEF ApplyBegin, IInv, ScriptsReady, ScriptIsUsers, RunnersApart, Armed
  <2>3. CallsInOrder'
    BY <1>1, SMT DEF ApplyBegin, IInv, CallsInOrder, UsesSnapshot, Untaken, Owned, SafeUse,
       TypeOK
  <2> QED BY <1>0, <2>1, <2>2, <2>3 DEF IInv, SavedIsUsers, ScriptsReady, CallsInOrder
<1>2. CASE StopBackend(g)
  <2>1. SavedIsUsers'
    BY <1>2, SMT DEF StopBackend, IInv, SavedIsUsers, SnapshotIsUsers, TakenIsSaved,
       ExitedBack
  <2>2. ScriptsReady'
    BY <1>2, SMT DEF StopBackend, IInv, ScriptsReady, ScriptIsUsers, RunnersApart, Armed
  <2>3. CallsInOrder'
    BY <1>2, SMT DEF StopBackend, IInv, SavedIsUsers, CallsInOrder, UsesSnapshot, Untaken,
       Owned, SafeUse, TypeOK, SnapshotIsUsers, LocalsKnown
  <2> QED BY <1>0, <2>1, <2>2, <2>3 DEF IInv, SavedIsUsers, ScriptsReady, CallsInOrder
<1>3. CASE ApplyRest(g)
  <2>1. SavedIsUsers'
    BY <1>3, SMT DEF ApplyRest, IInv, SavedIsUsers, SnapshotIsUsers, TakenIsSaved,
       ExitedBack
  <2>2. ScriptsReady'
    BY <1>3, SMT DEF ApplyRest, IInv, ScriptsReady, ScriptIsUsers, RunnersApart, Armed
  <2>3. CallsInOrder'
    BY <1>3, SMT DEF ApplyRest, IInv, CallsInOrder, UsesSnapshot, Untaken, Owned, SafeUse,
       TypeOK
  <2> QED BY <1>0, <2>1, <2>2, <2>3 DEF IInv, SavedIsUsers, ScriptsReady, CallsInOrder
<1>4. CASE StartNext(g)
  <2>1. SavedIsUsers'
    BY <1>4, SMT DEF StartNext, IInv, SavedIsUsers, SnapshotIsUsers, TakenIsSaved,
       ExitedBack
  <2>2. ScriptsReady'
    BY <1>4, SMT DEF StartNext, IInv, ScriptsReady, ScriptIsUsers, RunnersApart, Armed
  <2>3. CallsInOrder'
    BY <1>4, SMT DEF StartNext, IInv, CallsInOrder, UsesSnapshot, Untaken, Owned, SafeUse,
       TypeOK
  <2> QED BY <1>0, <2>1, <2>2, <2>3 DEF IInv, SavedIsUsers, ScriptsReady, CallsInOrder
<1>5. CASE Publish(g)
  <2>1. SavedIsUsers'
    BY <1>5, SMT DEF Publish, IInv, SavedIsUsers, SnapshotIsUsers, TakenIsSaved,
       ExitedBack
  <2>2. ScriptsReady'
    BY <1>5, SMT DEF Publish, IInv, ScriptsReady, ScriptIsUsers, RunnersApart, Armed
  <2>3. CallsInOrder'
    <3>1. CASE pc' = [pc EXCEPT ![g] = "idle"] /\ UNCHANGED <<backend, bk, cfg, listens>>
      BY <1>5, <3>1, SMT DEF Publish, IInv, CallsInOrder, UsesSnapshot, Untaken, Owned, SafeUse, TypeOK
    <3>2. CASE /\ pc' = [pc EXCEPT ![g] = "listen"]
               /\ \E b \in Backends, c \in Configs :
                     backend' = b /\ bk' = [bk EXCEPT ![g] = b]
      <4>1. PICK b \in Backends : backend' = b /\ bk' = [bk EXCEPT ![g] = b]
        BY <3>2
      <4>2. /\ \A h \in Goroutines : h = g /\ pc'[h] = "listen" /\ bk'[h] = b
            /\ job' = job /\ pc[g] = "publish"
        BY <1>5, <3>2, <4>1 DEF Publish, SafeUse, IInv, TypeOK
      <4>3. b # NoBackend
        BY ValuesAssumption
      <4>4. Back' /\ Up' /\ job[g] # "apply"
        BY <1>5, <4>2, SMT DEF Publish, IInv, LocalsKnown, CallsInOrder, Untaken, Owned
      <4>5. (UsesSnapshot /\ Untaken)'
        BY <4>2, <4>4, SMT DEF UsesSnapshot, Untaken
      <4>6. Owned'
        BY <4>1, <4>2, <4>3, <4>4, SMT DEF Owned
      <4> QED BY <4>5, <4>6 DEF CallsInOrder
    <3> QED BY <1>5, <3>1, <3>2 DEF Publish
  <2> QED BY <1>0, <2>1, <2>2, <2>3 DEF IInv, SavedIsUsers, ScriptsReady, CallsInOrder
<1>6. CASE StartBackend(g)
  <2>1. SavedIsUsers'
    BY <1>6, SMT DEF StartBackend, IInv, SavedIsUsers, SnapshotIsUsers, TakenIsSaved,
       ExitedBack
  <2>2. ScriptsReady'
    BY <1>6, SMT DEF StartBackend, IInv, ScriptsReady, ScriptIsUsers, RunnersApart, Armed
  <2>3. CallsInOrder'
    BY <1>6, SMT DEF StartBackend, IInv, CallsInOrder, UsesSnapshot, Untaken, Owned, SafeUse,
       TypeOK
  <2> QED BY <1>0, <2>1, <2>2, <2>3 DEF IInv, SavedIsUsers, ScriptsReady, CallsInOrder
<1>7. CASE LeaveLoop(g)
  <2>1. SavedIsUsers'
    BY <1>7, SMT DEF LeaveLoop, IInv, SavedIsUsers, SnapshotIsUsers, TakenIsSaved,
       ExitedBack, Leaving
  <2>2. ScriptsReady'
    BY <1>7, SMT DEF LeaveLoop, IInv, ScriptsReady, ScriptIsUsers, RunnersApart, Armed, Leaving
  <2>3. CallsInOrder'
    BY <1>7, SMT DEF LeaveLoop, IInv, CallsInOrder, UsesSnapshot, Untaken, Owned, SafeUse,
       TypeOK, Leaving
  <2> QED BY <1>0, <2>1, <2>2, <2>3 DEF IInv, SavedIsUsers, ScriptsReady, CallsInOrder
<1>8. CASE Exit(g)
  <2>1. SavedIsUsers'
    BY <1>8, SMT DEF Exit, IInv, SavedIsUsers, CallsInOrder, SnapshotIsUsers, TakenIsSaved,
       ExitedBack, Untaken, Die
  <2>2. ScriptsReady'
    BY <1>8, SMT DEF Exit, IInv, ScriptsReady, ScriptIsUsers, RunnersApart, Armed, Die
  <2>3. CallsInOrder'
    BY <1>8, SMT DEF Exit, IInv, CallsInOrder, UsesSnapshot, Untaken, Owned, SafeUse, TypeOK,
       Die
  <2> QED BY <1>0, <2>1, <2>2, <2>3 DEF IInv, SavedIsUsers, ScriptsReady, CallsInOrder
<1> QED
  BY <1>1, <1>2, <1>3, <1>4, <1>5, <1>6, <1>7, <1>8 DEF Lifecycle

\* A script imports what the user chose, and drops the snapshot only afterwards.
LEMMA SafeRestorer ==
  ASSUME SafeUse, IInv, NEW r \in Runners, Restorer(r)
  PROVE  IInv'
<1>0. TypeOK' /\ LocalsKnown'
  BY TypeRestorer DEF IInv
<1>1. CASE FindParent(r)
  <2>1. SavedIsUsers'
    BY <1>1, SMT DEF FindParent, IInv, SavedIsUsers, SnapshotIsUsers, TakenIsSaved,
       ExitedBack, ParentAlive
  <2>2. ScriptsReady'
    BY <1>1, SMT DEF FindParent, IInv, ScriptsReady, ScriptIsUsers, RunnersApart, Armed,
       ParentAlive
  <2>3. CallsInOrder'
    BY <1>1, SMT DEF FindParent, IInv, CallsInOrder, UsesSnapshot, Untaken, Owned, SafeUse,
       TypeOK, ParentAlive
  <2> QED BY <1>0, <2>1, <2>2, <2>3 DEF IInv, SavedIsUsers, ScriptsReady, CallsInOrder
<1>2. CASE ParentExited(r)
  <2>1. SavedIsUsers'
    BY <1>2, SMT DEF ParentExited, IInv, SavedIsUsers, SnapshotIsUsers, TakenIsSaved,
       ExitedBack, ParentAlive
  <2>2. ScriptsReady'
    BY <1>2, SMT DEF ParentExited, IInv, ScriptsReady, ScriptIsUsers, RunnersApart, Armed,
       ParentAlive
  <2>3. CallsInOrder'
    BY <1>2, SMT DEF ParentExited, IInv, CallsInOrder, UsesSnapshot, Untaken, Owned, SafeUse,
       TypeOK, ParentAlive
  <2> QED BY <1>0, <2>1, <2>2, <2>3 DEF IInv, SavedIsUsers, ScriptsReady, CallsInOrder
<1>3. CASE ScriptGone(r)
  <2>1. SavedIsUsers'
    BY <1>3, SMT DEF ScriptGone, IInv, SavedIsUsers, SnapshotIsUsers, TakenIsSaved,
       ExitedBack
  <2>2. ScriptsReady'
    BY <1>3, SMT DEF ScriptGone, IInv, ScriptsReady, ScriptIsUsers, RunnersApart, Armed
  <2>3. CallsInOrder'
    BY <1>3, SMT DEF ScriptGone, IInv, CallsInOrder, UsesSnapshot, Untaken, Owned, SafeUse,
       TypeOK
  <2> QED BY <1>0, <2>1, <2>2, <2>3 DEF IInv, SavedIsUsers, ScriptsReady, CallsInOrder
<1>4. CASE Import(r)
  <2>1. SavedIsUsers'
    BY <1>4, ParametersAssumption, ValuesAssumption, SMTT(10) DEF Import, IInv, SavedIsUsers,
       ScriptsReady, CallsInOrder, SnapshotIsUsers, TakenIsSaved, ExitedBack, Untaken,
       TypeOK, LocalsKnown, Owned, SafeUse, Line, ScriptIsUsers, Armed, RunnersApart, Runners,
       UsesSnapshot
  <2>2. ScriptsReady'
    BY <1>4, SMT DEF Import, IInv, ScriptsReady, ScriptIsUsers, RunnersApart, Armed, Line
  <2>3. CallsInOrder'
    BY <1>4, SMTT(10) DEF Import, IInv, SavedIsUsers, ScriptsReady, CallsInOrder, UsesSnapshot,
       Untaken, Owned, SafeUse, TypeOK, RunnersApart, ScriptIsUsers, SnapshotIsUsers,
       TakenIsSaved, LocalsKnown, Line
  <2> QED BY <1>0, <2>1, <2>2, <2>3 DEF IInv, SavedIsUsers, ScriptsReady, CallsInOrder
<1>5. CASE DelRunOnce(r)
  <2>1. SavedIsUsers'
    BY <1>5, SMT DEF DelRunOnce, IInv, SavedIsUsers, SnapshotIsUsers, TakenIsSaved,
       ExitedBack, Line
  <2>2. ScriptsReady'
    BY <1>5, SMT DEF DelRunOnce, IInv, ScriptsReady, ScriptIsUsers, RunnersApart, Armed, Line
  <2>3. CallsInOrder'
    BY <1>5, SMT DEF DelRunOnce, IInv, CallsInOrder, UsesSnapshot, Untaken, Owned, SafeUse,
       TypeOK, Line
  <2> QED BY <1>0, <2>1, <2>2, <2>3 DEF IInv, SavedIsUsers, ScriptsReady, CallsInOrder
<1>6. CASE DelJson(r)
  <2>1. SavedIsUsers'
    BY <1>6, ParametersAssumption, SMTT(10) DEF DelJson, IInv, SavedIsUsers, ScriptsReady,
       CallsInOrder, SnapshotIsUsers, TakenIsSaved, ExitedBack, Untaken, TypeOK,
       LocalsKnown, Owned, SafeUse, Line, RunnersApart, Runners
  <2>2. ScriptsReady'
    BY <1>6, SMT DEF DelJson, IInv, ScriptsReady, ScriptIsUsers, RunnersApart, Armed, Line
  <2>3. CallsInOrder'
    BY <1>6, SMTT(10) DEF DelJson, IInv, SavedIsUsers, ScriptsReady, CallsInOrder, UsesSnapshot,
       Untaken, Owned, SafeUse, TypeOK, RunnersApart, ScriptIsUsers, SnapshotIsUsers,
       TakenIsSaved, LocalsKnown, Line
  <2> QED BY <1>0, <2>1, <2>2, <2>3 DEF IInv, SavedIsUsers, ScriptsReady, CallsInOrder
<1>7. CASE DelReg(r)
  <2>1. SavedIsUsers'
    BY <1>7, SMT DEF DelReg, IInv, SavedIsUsers, SnapshotIsUsers, TakenIsSaved,
       ExitedBack, Line
  <2>2. ScriptsReady'
    BY <1>7, SMT DEF DelReg, IInv, ScriptsReady, ScriptIsUsers, RunnersApart, Armed, Line, TypeOK
  <2>3. CallsInOrder'
    BY <1>7, SMTT(10) DEF DelReg, IInv, SavedIsUsers, ScriptsReady, CallsInOrder, UsesSnapshot,
       Untaken, Owned, SafeUse, TypeOK, RunnersApart, ScriptIsUsers, SnapshotIsUsers,
       TakenIsSaved, LocalsKnown, Line
  <2> QED BY <1>0, <2>1, <2>2, <2>3 DEF IInv, SavedIsUsers, ScriptsReady, CallsInOrder
<1>8. CASE DelCmd(r)
  <2>1. SavedIsUsers'
    BY <1>8, SMT DEF DelCmd, IInv, SavedIsUsers, SnapshotIsUsers, TakenIsSaved,
       ExitedBack, Line
  <2>2. ScriptsReady'
    BY <1>8, SMT DEF DelCmd, IInv, ScriptsReady, ScriptIsUsers, RunnersApart, Armed, Line
  <2>3. CallsInOrder'
    BY <1>8, SMT DEF DelCmd, IInv, CallsInOrder, UsesSnapshot, Untaken, Owned, SafeUse, TypeOK,
       Line
  <2> QED BY <1>0, <2>1, <2>2, <2>3 DEF IInv, SavedIsUsers, ScriptsReady, CallsInOrder
<1> QED
  BY <1>1, <1>2, <1>3, <1>4, <1>5, <1>6, <1>7, <1>8 DEF Restorer

\* A crash or a reboot leaves the files as they are, and the user waits for both.
LEMMA SafeEnvironment ==
  ASSUME SafeUse, IInv, Crash \/ Reboot \/ Edit
  PROVE  IInv'
<1>0. TypeOK' /\ LocalsKnown'
  BY TypeEnvironment DEF IInv
<1>1. CASE Crash
  <2>1. SavedIsUsers'
    BY <1>1, SMT DEF Crash, IInv, SavedIsUsers, SnapshotIsUsers, TakenIsSaved,
       ExitedBack, Die
  <2>2. ScriptsReady'
    BY <1>1, SMT DEF Crash, IInv, ScriptsReady, ScriptIsUsers, RunnersApart, Armed, Die
  <2>3. CallsInOrder'
    BY <1>1, SMT DEF Crash, IInv, CallsInOrder, UsesSnapshot, Untaken, Owned, SafeUse, TypeOK,
       Die
  <2> QED BY <1>0, <2>1, <2>2, <2>3 DEF IInv, SavedIsUsers, ScriptsReady, CallsInOrder
<1>2. CASE Reboot
  <2>1. SavedIsUsers'
    BY <1>2, SMTT(10) DEF Reboot, IInv, SavedIsUsers, CallsInOrder, SnapshotIsUsers,
       TakenIsSaved, ExitedBack, Untaken, TypeOK, LocalsKnown, Owned, SafeUse, Die
  <2>2. ScriptsReady'
    BY <1>2, SMT DEF Reboot, IInv, ScriptsReady, ScriptIsUsers, RunnersApart, Armed, Die, SafeUse,
       InScript
  <2>3. CallsInOrder'
    BY <1>2, SMT DEF Reboot, IInv, CallsInOrder, UsesSnapshot, Untaken, Owned, SafeUse, TypeOK,
       Die
  <2> QED BY <1>0, <2>1, <2>2, <2>3 DEF IInv, SavedIsUsers, ScriptsReady, CallsInOrder
<1>3. CASE Edit
  <2>1. inet' = want'.inet /\ env' = want'.env
    BY <1>3 DEF Edit
  <2>2. /\ json = NoFile /\ ~runOnce /\ \A r \in Runners : runner[r] = "none"
        /\ \A g \in Goroutines : pc[g] = "idle"
    BY <1>3 DEF Edit, Quiet, NothingPending, SafeUse
  <2>3. "files" \notin Faults
    BY <1>3 DEF Edit, SafeUse
  <2>4. UNCHANGED <<disk, runner, process, pc, locals>>
    BY <1>3 DEF Edit
  <2>5. SavedIsUsers'
    BY <2>1, <2>2, <2>4, SMT DEF SavedIsUsers, SnapshotIsUsers, TakenIsSaved, ExitedBack
  <2>6. ScriptsReady'
    BY <2>1, <2>2, <2>3, <2>4, SMT DEF IInv, ScriptsReady, ScriptIsUsers, RunnersApart, Armed
  <2>7. CallsInOrder'
    BY <2>1, <2>2, <2>4, SMT DEF IInv, CallsInOrder, UsesSnapshot, Untaken, Owned
  <2> QED BY <1>0, <2>5, <2>6, <2>7 DEF IInv, SavedIsUsers, ScriptsReady, CallsInOrder
<1> QED BY <1>1, <1>2, <1>3

LEMMA SafeStep ==
  ASSUME SafeUse, IInv, [Next]_vars
  PROVE  IInv'
<1>1. ASSUME NEW g \in Goroutines, GoStep(g) \/ UiStep(g) PROVE IInv'
  BY <1>1, SafeUnregister, SafeRegister, SafeLifecycle, SafeUiStep DEF GoStep
<1>2. ASSUME NEW r \in Runners, Restorer(r) PROVE IInv'
  BY <1>2, SafeRestorer
<1>3. CASE Crash \/ Reboot \/ Edit
  BY <1>3, SafeEnvironment
<1>4. CASE UNCHANGED vars
  BY <1>4 DEF vars, IInv, TypeOK, LocalsKnown, SnapshotIsUsers, TakenIsSaved, ExitedBack,
     ScriptIsUsers, Armed, RunnersApart, UsesSnapshot, Untaken, Owned
<1> QED BY <1>1, <1>2, <1>3, <1>4 DEF Next

\* The snapshot, the script, the processes and the goroutines always agree on
\* what the user chose, when the registration is used as SafeUse says, which
\* leaves out edits of settings that are still to be restored.
THEOREM Safe == SafeUse => (Spec => []IInv)
<1> SUFFICES ASSUME SafeUse PROVE Spec => []IInv
  OBVIOUS
<1>1. Init => IInv
  BY SafeInit
<1>2. IInv /\ [Next]_vars => IInv'
  BY SafeStep
<1> QED BY <1>1, <1>2, PTL DEF Spec

\* Whenever the user's settings are not in force, the snapshot that undoes it
\* is on disk, is this machine's and holds what the user chose, last with
\* nothing to be restored (SafeUse).
THEOREM UndoAlways == SafeUse => (Spec => []UndoKept)
<1> SUFFICES ASSUME SafeUse PROVE Spec => []UndoKept
  OBVIOUS
<1>1. IInv => UndoKept
  BY DEF IInv, TakenIsSaved, SnapshotIsUsers, UndoKept
<1> QED BY <1>1, Safe, PTL

\* A process that has exited, rather than crashed, has given the settings
\* back, to a user who edits them only when none is to be restored (SafeUse).
THEOREM ExitRestores == SafeUse /\ "setEnv" \notin Faults => (Spec => []CleanExitRestores)
<1> SUFFICES ASSUME SafeUse, "setEnv" \notin Faults PROVE Spec => []CleanExitRestores
  OBVIOUS
<1>1. IInv => CleanExitRestores
  BY DEF IInv, ExitedBack, CleanExitRestores
<1> QED BY <1>1, Safe, PTL
=============================================================================
