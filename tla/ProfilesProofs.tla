--------------------------- MODULE ProfilesProofs ---------------------------
(***************************************************************************)
(* For any profiles, keys, Backends and goroutines: types, and that no     *)
(* node key is lost, however orders, failures and crashes fall together.   *)
(***************************************************************************)
EXTENDS Profiles, WellFoundedInduction, TLAPS

\* What a goroutine will do once the backend it took is closed, it can.
JobReady(t) ==
    /\ job[t].kind = "restart" => job[t].from \in Names /\ job[t].name \in Names
    /\ job[t].kind \notin {"restart", "quit", "exit"} => job[t].name \in Names

\* Only its goroutine starts a Backend, and one that is taken is not current.
Held ==
    /\ backend # None => owner[backend] \in Names
    /\ \A t \in Threads :
         /\ pc[t] \in {"stop", "detach", "close"} => JobReady(t)
         /\ pc[t] \in {"detach", "close"} => mine[t] \in Backends /\ mine[t] # backend
         /\ pc[t] = "start" => node[mine[t]] \in {"made", "shut"}
         /\ pc[t] = "start" => \A u \in Threads : pc[u] = "start" /\ mine[u] = mine[t] => u = t

TypeInv == TypeOK /\ Held

\* Active always names a profile: List has made one.
LEMMA ActiveExists == DiskTypeOK => Active \in Existing(List)
<1> SUFFICES ASSUME DiskTypeOK PROVE Active \in Existing(List)
    OBVIOUS
<1> DEFINE S == Existing(List)
<1>1. S \subseteq Names /\ S # {}
    BY NamesAssumption, DistinctAssumption DEF DiskTypeOK, Existing, List
<1>2. \E n \in S : \A m \in S : n <= m
    <2>1. S \subseteq Nat
        BY <1>1, NamesAssumption
    <2>2. \E n \in S : \A m \in S : ~ (<<m, n>> \in OpToRel(<, Nat))
        BY <1>1, <2>1, NatLessThanWellFounded, WFMin, Zenon
    <2>3. PICK n \in S : \A m \in S : ~ (<<m, n>> \in OpToRel(<, Nat))
        BY <2>2
    <2>4. \A m \in S : ~ (m < n)
        BY <2>1, <2>3 DEF OpToRel
    <2> QED BY <2>1, <2>4
<1>3. First(S) \in S
    BY <1>2 DEF First
<1> QED BY <1>1, <1>3 DEF Active

LEMMA ActiveIsProfile == DiskTypeOK => Active \in Names
BY ActiveExists DEF Existing

-----------------------------------------------------------------------------
(* Types.                                                                  *)

LEMMA InitTypes == Init => TypeInv
<1> SUFFICES ASSUME Init PROVE TypeInv
    OBVIOUS
<1> USE NamesAssumption, DistinctAssumption, BoundsAssumption DEF Init
<1>1. DiskTypeOK
    BY DEF DiskTypeOK, Existing
<1>2. ThreadsTypeOK
    BY SMT DEF ThreadsTypeOK, Labels, Jobs, NoJob, Job
<1>3. AppTypeOK
    BY SMT DEF AppTypeOK
<1>4. ScreenTypeOK
    <2>1. ui \in [name : Names \cup {None}, step : {"loop", "select", "remove"}] /\ ui.step # "remove"
        BY SMT DEF Idle
    <2>2. orders \in 0 .. MaxOrders
        BY SMT
    <2> QED BY <2>1, <2>2 DEF ScreenTypeOK
<1>5. JobsKnown /\ Held
    BY SMT DEF JobsKnown, Held, JobReady
<1> QED BY <1>1, <1>2, <1>3, <1>4, <1>5 DEF TypeInv, TypeOK

\* A goroutine goes through stopBackend.
LEMMA StopTypes ==
    ASSUME TypeInv, NEW t \in Threads, TakeBackend(t) \/ Detach(t) \/ CloseBackend(t)
    PROVE  TypeInv'
<1> USE DistinctAssumption DEF TypeInv, TypeOK
<1>1. DiskTypeOK' /\ ScreenTypeOK'
    BY DEF TakeBackend, Detach, CloseBackend, DiskTypeOK, ScreenTypeOK, disk, screen
<1>2. AppTypeOK'
    BY SMT DEF TakeBackend, Detach, CloseBackend, Close, AppTypeOK, app
<1>3. ThreadsTypeOK'
    BY SMT DEF TakeBackend, Detach, CloseBackend, ThreadsTypeOK, AppTypeOK, Labels, AfterStop, Goto
<1>4. JobsKnown'
    BY SMT DEF TakeBackend, Detach, CloseBackend, Close, ThreadsTypeOK, AppTypeOK, JobsKnown, Held, JobReady,
               Labels, Jobs, AfterStop, Goto
<1>5. Held'
    BY SMT DEF TakeBackend, Detach, CloseBackend, Close, ThreadsTypeOK, AppTypeOK, JobsKnown, Held, JobReady,
               Labels, Jobs, AfterStop, Goto
<1> QED BY <1>1, <1>2, <1>3, <1>4, <1>5

\* A goroutine goes through renameProfile.
LEMMA RenameTypes ==
    ASSUME TypeInv, NEW t \in Threads, CheckRunning(t) \/ RenameDir(t) \/ RecordRename(t)
    PROVE  TypeInv'
<1> USE DistinctAssumption, NamesAssumption DEF TypeInv, TypeOK
<1>1. DiskTypeOK'
    BY SMT DEF CheckRunning, RenameDir, RecordRename, DiskTypeOK, JobsKnown, List, disk
<1>2. AppTypeOK' /\ ScreenTypeOK'
    BY SMT DEF CheckRunning, RenameDir, RecordRename, AppTypeOK, ScreenTypeOK, JobsKnown, app, screen
<1>3. ThreadsTypeOK'
    BY SMT DEF CheckRunning, RenameDir, RecordRename, ThreadsTypeOK, JobsKnown, Labels, Jobs, AfterRename, Goto
<1>4. JobsKnown' /\ Held'
    <2> USE DEF ThreadsTypeOK, JobsKnown, Held, JobReady, Labels, Jobs, AfterRename, Goto, app
    <2>1. CASE CheckRunning(t)
        BY <2>1, SMT DEF CheckRunning
    <2>2. CASE RenameDir(t)
        BY <2>2, SMT DEF RenameDir
    <2>3. CASE RecordRename(t)
        BY <2>3, SMT DEF RecordRename
    <2> QED BY <2>1, <2>2, <2>3
<1> QED BY <1>1, <1>2, <1>3, <1>4

\* A goroutine goes through startBackend.
LEMMA StartTypes ==
    ASSUME TypeInv, NEW t \in Threads,
           LoadConfig(t) \/ SetActive(t) \/ Publish(t) \/ StartNode(t) \/ SetTarget(t)
    PROVE  TypeInv'
<1> USE DistinctAssumption DEF TypeInv, TypeOK
<1>1. DiskTypeOK'
    BY SMT DEF LoadConfig, SetActive, Publish, StartNode, SetTarget, DiskTypeOK, JobsKnown, MkdirAll, disk
<1>2. AppTypeOK'
    BY SMT DEF LoadConfig, SetActive, Publish, StartNode, SetTarget, AppTypeOK, JobsKnown, Unused, app
<1>3. ScreenTypeOK'
    <2>1. dirty' \in BOOLEAN
        BY Zenon DEF LoadConfig, SetActive, Publish, StartNode, SetTarget, ScreenTypeOK, screen
    <2>2. UNCHANGED <<sel, opts, dialog, ui, orders, overlapped>>
        BY Zenon DEF LoadConfig, SetActive, Publish, StartNode, SetTarget, screen
    <2> QED BY <2>1, <2>2 DEF ScreenTypeOK
<1>4. ThreadsTypeOK'
    BY SMT DEF LoadConfig, SetActive, Publish, StartNode, SetTarget, ThreadsTypeOK, Unused, Labels, Goto
<1>5. JobsKnown'
    BY SMT DEF LoadConfig, SetActive, Publish, StartNode, SetTarget, ThreadsTypeOK, AppTypeOK, JobsKnown,
               Held, Unused, Labels, Jobs, Goto, app
<1>6. Held'
    BY SMT DEF LoadConfig, SetActive, Publish, StartNode, SetTarget, ThreadsTypeOK, AppTypeOK, JobsKnown,
               Held, JobReady, Unused, Labels, Jobs, Goto, app
<1> QED BY <1>1, <1>2, <1>3, <1>4, <1>5, <1>6

LEMMA EndTypes ==
    ASSUME TypeInv, NEW t \in Threads, Done(t) \/ Leave(t) \/ End
    PROVE  TypeInv'
<1> USE DistinctAssumption, BoundsAssumption DEF TypeInv, TypeOK, Threads
<1>1. DiskTypeOK'
    <2>1. up' \in BOOLEAN
        BY Zenon DEF Done, Leave, End, DiskTypeOK
    <2>2. UNCHANGED disk
        BY Zenon DEF Done, Leave, End
    <2> QED BY <2>1, <2>2 DEF DiskTypeOK, disk
<1>2. AppTypeOK' /\ ScreenTypeOK'
    <2>1. CASE Done(t)
        <3>1. dirty' \in BOOLEAN
            BY <2>1, Zenon DEF Done
        <3> QED BY <2>1, <3>1 DEF Done, AppTypeOK, ScreenTypeOK, app
    <2>2. CASE Leave(t)
        BY <2>2 DEF Leave, AppTypeOK, ScreenTypeOK, app, screen
    <2>3. CASE End
        <3>1. dialog' \in BOOLEAN /\ dirty' \in BOOLEAN /\ overlapped' \in BOOLEAN
            BY <2>3, Zenon DEF End
        <3>2. ui' \in [name : Names \cup {None}, step : {"loop", "select", "remove"}] /\ ui'.step # "remove"
            BY <2>3, SMT DEF End, Idle
        <3>3. orders' \in 0 .. MaxOrders /\ sel' \in Names \cup {None, NewItem} /\ opts' \subseteq Names
            BY <2>3, SMT DEF End
        <3>4. AppTypeOK'
            BY <2>3, SMT DEF End, AppTypeOK
        <3> QED BY <3>1, <3>2, <3>3, <3>4 DEF ScreenTypeOK
    <2> QED BY <2>1, <2>2, <2>3
<1>3. ThreadsTypeOK'
    BY SMT DEF Done, Leave, End, ThreadsTypeOK, Labels, Jobs, NoJob, Job, Goto
<1>4. JobsKnown'
    BY SMT DEF Done, Leave, End, ThreadsTypeOK, JobsKnown, Labels, Jobs, NoJob, Job, Goto, app
<1>5. Held'
    BY SMT DEF Done, Leave, End, ThreadsTypeOK, JobsKnown, Held, JobReady, Labels, Jobs, NoJob, Job, Goto, app
<1> QED BY <1>1, <1>2, <1>3, <1>4, <1>5

\* The UI goroutine starts a goroutine with a job it can do.
LEMMA SpawnTypes ==
    ASSUME ThreadsTypeOK, JobsKnown, Held, NEW l, NEW j \in Jobs, Spawn(l, j), UNCHANGED <<backend, owner, node>>,
           \/ l = "stop" /\ (j.kind = "quit" \/ (j.kind = "switch" /\ j.name \in Names))
           \/ l = "check" /\ j.from \in Names /\ j.name \in Names
    PROVE  ThreadsTypeOK' /\ JobsKnown' /\ Held'
BY SMT DEF Spawn, Goto, ThreadsTypeOK, JobsKnown, Held, JobReady, Labels, Threads

LEMMA SwitchTypes ==
    ASSUME ThreadsTypeOK, JobsKnown, Held, NEW n \in Names, Switch(n), UNCHANGED <<backend, owner, node>>
    PROVE  ThreadsTypeOK' /\ JobsKnown' /\ Held'
<1>1. Job("switch", None, n) \in Jobs /\ Job("switch", None, n).kind = "switch" /\ Job("switch", None, n).name = n
    BY SMT DEF Job, Jobs
<1> QED BY <1>1, SpawnTypes DEF Switch

LEMMA SameThreads ==
    ASSUME ThreadsTypeOK, JobsKnown, Held, UNCHANGED <<threads, backend, owner, node>>
    PROVE  ThreadsTypeOK' /\ JobsKnown' /\ Held'
BY DEF threads, ThreadsTypeOK, JobsKnown, Held, JobReady

\* A handler of the UI goroutine.
LEMMA OrderTypes ==
    ASSUME TypeInv, Order
    PROVE  TypeInv'
<1> USE DistinctAssumption, BoundsAssumption DEF TypeInv, TypeOK
<1> SUFFICES UNCHANGED app /\ DiskTypeOK' /\ ScreenTypeOK' /\ ThreadsTypeOK' /\ JobsKnown' /\ Held'
    BY DEF AppTypeOK, app
<1>1. UNCHANGED app
    BY Zenon DEF Order, Pick, Create, Delete, Rename, PickNew, CancelNew, ChangeAddr, Quit
<1>u. UNCHANGED <<backend, owner, node>>
    BY <1>1 DEF app
<1>o. Ordered => orders' \in 0 .. MaxOrders /\ overlapped' \in BOOLEAN
    <2>1. Ordered => orders' \in 0 .. MaxOrders
        BY SMT DEF Ordered, ScreenTypeOK
    <2>2. Ordered => overlapped' \in BOOLEAN
        BY Zenon DEF Ordered
    <2> QED BY <2>1, <2>2
<1>2. ASSUME NEW n \in Names, Pick(n) PROVE DiskTypeOK' /\ ScreenTypeOK' /\ ThreadsTypeOK' /\ JobsKnown' /\ Held'
    <2>1. DiskTypeOK' /\ ScreenTypeOK'
        BY <1>2, <1>o DEF Pick, DiskTypeOK, ScreenTypeOK, disk
    <2>2. Switch(n) \/ UNCHANGED threads
        BY <1>2 DEF Pick, threads
    <2> QED BY <2>1, <2>2, <1>u, SwitchTypes, SameThreads
<1>3. ASSUME NEW n \in Names, Create(n) PROVE DiskTypeOK' /\ ScreenTypeOK' /\ ThreadsTypeOK' /\ JobsKnown' /\ Held'
    <2>1. DiskTypeOK'
        BY <1>3 DEF Create, MakeProfile, MkdirAll, DiskTypeOK
    <2>2. dialog' \in BOOLEAN /\ overlapped' \in BOOLEAN
        BY <1>3, Zenon DEF Create
    <2>3. ScreenTypeOK'
        BY <1>3, <2>2 DEF Create, ScreenTypeOK
    <2>4. Switch(n)
        BY <1>3 DEF Create
    <2> QED BY <2>1, <2>3, <2>4, <1>u, SwitchTypes
<1>4. ASSUME NEW n \in Names, Delete(n) PROVE DiskTypeOK' /\ ScreenTypeOK' /\ ThreadsTypeOK' /\ JobsKnown' /\ Held'
    <2>1. DiskTypeOK' /\ ScreenTypeOK'
        BY <1>4, <1>o DEF Delete, DiskTypeOK, ScreenTypeOK, disk
    <2> QED BY <1>4, <2>1, <1>u, SameThreads DEF Delete, threads
<1>5. ASSUME NEW from \in Names, NEW to \in Names, Rename(from, to)
      PROVE  DiskTypeOK' /\ ScreenTypeOK' /\ ThreadsTypeOK' /\ JobsKnown' /\ Held'
    <2>1. DiskTypeOK' /\ ScreenTypeOK'
        BY <1>5, <1>o DEF Rename, DiskTypeOK, ScreenTypeOK, disk
    <2>2. Job("rename", from, to) \in Jobs /\ Job("rename", from, to).from \in Names /\ Job("rename", from, to).name \in Names
        BY SMT DEF Job, Jobs
    <2> QED BY <1>5, <2>1, <2>2, <1>u, SpawnTypes DEF Rename
<1>6. CASE PickNew \/ CancelNew
    <2>1. dialog' \in BOOLEAN
        BY <1>6, Zenon DEF PickNew, CancelNew
    <2>2. UNCHANGED <<disk, threads, up>>
        BY <1>6, Zenon DEF PickNew, CancelNew
    <2>3. ui' \in [name : Names \cup {None}, step : {"loop", "select", "remove"}] /\ (ui'.step = "remove" => ui'.name \in Names)
        BY <1>6, SMT DEF PickNew, CancelNew, ScreenTypeOK, AppTypeOK
    <2>4. ScreenTypeOK'
        <3>1. orders' \in 0 .. MaxOrders
            BY <1>6, SMT DEF PickNew, CancelNew, ScreenTypeOK
        <3>2. UNCHANGED <<opts, dirty, overlapped>> /\ sel' \in {sel, NewItem}
            BY <1>6, Zenon DEF PickNew, CancelNew
        <3> QED BY <3>1, <3>2, <2>1, <2>3 DEF ScreenTypeOK
    <2> QED BY <2>2, <2>4, <1>1, <1>u, SameThreads DEF DiskTypeOK, disk
<1>7. CASE ChangeAddr
    <2>1. DiskTypeOK' /\ ScreenTypeOK'
        BY <1>7, <1>o DEF ChangeAddr, DiskTypeOK, ScreenTypeOK, disk
    <2>2. owner[backend] \in Names
        BY <1>7 DEF ChangeAddr, Held
    <2>3. Switch(owner[backend])
        BY <1>7 DEF ChangeAddr
    <2> QED BY <2>1, <2>2, <2>3, <1>1, <1>u, SwitchTypes
<1>8. CASE Quit
    <2>1. DiskTypeOK' /\ ScreenTypeOK'
        BY <1>8, <1>o DEF Quit, DiskTypeOK, ScreenTypeOK, disk
    <2>2. Job("quit", None, None) \in Jobs /\ Job("quit", None, None).kind = "quit"
        BY SMT DEF Job, Jobs
    <2> QED BY <1>8, <2>1, <2>2, <1>u, SpawnTypes DEF Quit
<1> QED BY <1>1, <1>2, <1>3, <1>4, <1>5, <1>6, <1>7, <1>8 DEF Order

LEMMA WindowTypes ==
    ASSUME TypeInv, Refresh \/ SetSelected \/ Remove
    PROVE  TypeInv'
<1> USE DistinctAssumption DEF TypeInv, TypeOK
<1> SUFFICES UNCHANGED app /\ DiskTypeOK' /\ ScreenTypeOK' /\ ThreadsTypeOK' /\ JobsKnown' /\ Held'
    BY DEF AppTypeOK, app
<1>1. UNCHANGED app
    BY Zenon DEF Refresh, SetSelected, Remove
<1>u. UNCHANGED <<backend, owner, node>>
    BY <1>1 DEF app
<1>2. CASE Refresh
    <2>1. DiskTypeOK'
        BY <1>2, NamesAssumption DEF Refresh, List, DiskTypeOK
    <2>2. dirty' \in BOOLEAN /\ opts' \subseteq Names
        BY <1>2, Zenon DEF Refresh, Existing
    <2>3. ui' \in [name : Names \cup {None}, step : {"loop", "select", "remove"}] /\ ui'.step # "remove"
        BY <1>2, SMT DEF Refresh, Idle, AppTypeOK
    <2>4. ScreenTypeOK'
        BY <1>2, <2>2, <2>3 DEF Refresh, ScreenTypeOK
    <2> QED BY <1>2, <2>1, <2>4, <1>1, <1>u, SameThreads DEF Refresh
<1>3. CASE SetSelected
    <2>1. DiskTypeOK'
        BY <1>3 DEF SetSelected, DiskTypeOK, disk
    <2>2. ui' \in [name : Names \cup {None}, step : {"loop", "select", "remove"}] /\ ui'.step # "remove"
        BY <1>3, SMT DEF SetSelected, Idle
    <2>3. ScreenTypeOK'
        BY <1>3, <2>2 DEF SetSelected, ScreenTypeOK
    <2>4. (ui.name \in Names /\ Switch(ui.name)) \/ UNCHANGED threads
        BY <1>3 DEF SetSelected, ScreenTypeOK, threads
    <2> QED BY <2>1, <2>3, <2>4, <1>1, <1>u, SwitchTypes, SameThreads
<1>4. CASE Remove
    <2>1. DiskTypeOK'
        <3>1. keys' \subseteq Keys
            BY <1>4, Zenon DEF Remove, DiskTypeOK
        <3>2. dir' \in [Names -> Keys \cup {NoDir, NoKey}]
            <4>1. PICK left \in {NoDir} \cup (IF logDir = ui.name THEN {NoKey} ELSE {}) : dir' = [dir EXCEPT ![ui.name] = left]
                BY <1>4, Zenon DEF Remove
            <4>2. left \in {NoDir, NoKey}
                BY <4>1
            <4> QED BY <4>1, <4>2 DEF DiskTypeOK
        <3> QED BY <1>4, <3>1, <3>2 DEF Remove, DiskTypeOK
    <2>2. dirty' \in BOOLEAN
        BY <1>4, Zenon DEF Remove
    <2>3. ui' \in [name : Names \cup {None}, step : {"loop", "select", "remove"}] /\ ui'.step # "remove"
        BY <1>4, SMT DEF Remove, Idle
    <2>4. ScreenTypeOK'
        BY <1>4, <2>2, <2>3 DEF Remove, ScreenTypeOK
    <2> QED BY <1>4, <2>1, <2>4, <1>1, <1>u, SameThreads DEF Remove
<1> QED BY <1>2, <1>3, <1>4, <1>1

LEMMA LaunchTypes ==
    ASSUME TypeInv, Launch
    PROVE  TypeInv'
<1> USE DistinctAssumption, NamesAssumption DEF TypeInv, TypeOK, Launch
<1>1. DiskTypeOK'
    <2>1. up' \in BOOLEAN
        BY Zenon
    <2> QED BY <2>1 DEF DiskTypeOK, List
<1>2. AppTypeOK' /\ ScreenTypeOK'
    BY DEF AppTypeOK, ScreenTypeOK, app, screen
<1>3. Job("launch", None, Active) \in Jobs /\ Job("launch", None, Active).name \in Names
    BY ActiveIsProfile, SMT DEF Job, Jobs
<1>4. ThreadsTypeOK' /\ JobsKnown' /\ Held'
    BY <1>3, SMT DEF ThreadsTypeOK, JobsKnown, Held, JobReady, Goto, Labels, Threads, app
<1> QED BY <1>1, <1>2, <1>4

LEMMA NextTypes == TypeInv /\ [Next]_vars => TypeInv'
<1> SUFFICES ASSUME TypeInv, [Next]_vars PROVE TypeInv'
    OBVIOUS
<1>1. CASE UNCHANGED vars
    BY <1>1 DEF TypeInv, TypeOK, vars, disk, threads, app, screen, DiskTypeOK, ThreadsTypeOK, AppTypeOK,
                ScreenTypeOK, JobsKnown, Held, JobReady
<1>2. ASSUME NEW t \in Threads, Step(t) PROVE TypeInv'
    BY <1>2, StopTypes, RenameTypes, StartTypes, EndTypes DEF Step
<1>3. CASE Exit \/ Crash
    BY <1>3, EndTypes DEF Exit, Crash, Threads
<1> QED BY <1>1, <1>2, <1>3, LaunchTypes, OrderTypes, WindowTypes DEF Next

\* Every variable keeps its type, and a goroutine that starts a profile or
\* points at a Backend has one: for any goroutines, profiles and faults.
THEOREM TypesAlways == Spec => []TypeOK
<1>1. TypeInv => TypeOK
    BY DEF TypeInv
<1> QED BY <1>1, InitTypes, NextTypes, PTL DEF Spec

-----------------------------------------------------------------------------
(* Node keys.                                                              *)

\* KeysKept of directories d and keys K.
Kept(d, K) ==
    /\ \A k \in Keys : k \in K <=> \E n \in Names : d[n] = k
    /\ \A m, n \in Names : d[m] \in Keys /\ d[m] = d[n] => m = n

LEMMA KeptIsKeysKept == DiskTypeOK => (KeysKept <=> Kept(dir, keys))
BY DEF DiskTypeOK, KeysKept, Kept

\* The four ways a directory changes: it is made without a key,
LEMMA MadeKept ==
    ASSUME NEW d, NEW K, Kept(d, K), NEW n, NEW S, d \in [Names -> S], d[n] \notin Keys, NEW e, e \notin Keys
    PROVE  Kept([d EXCEPT ![n] = e], K)
BY SMT DEF Kept

\* moved to a name that is free,
LEMMA MovedKept ==
    ASSUME NEW d, NEW K, Kept(d, K), NEW from \in Names, NEW to \in Names, NEW S, d \in [Names -> S],
           d[from] # NoDir, d[to] = NoDir
    PROVE  Kept([d EXCEPT ![to] = d[from], ![from] = NoDir], K)
BY DistinctAssumption, SMT DEF Kept

\* given the key its node has, or a new one,
LEMMA StartedKept ==
    ASSUME NEW d, NEW K, Kept(d, K), NEW n \in Names, NEW S, d \in [Names -> S], NEW k \in Keys,
           IF d[n] \in Keys THEN k = d[n] ELSE k \notin K
    PROVE  Kept([d EXCEPT ![n] = k], K \cup {k})
BY SMT DEF Kept

\* or removed, with its key.
LEMMA RemovedKept ==
    ASSUME NEW d, NEW K, Kept(d, K), NEW n \in Names, NEW S, d \in [Names -> S], NEW left, left \notin Keys
    PROVE  Kept([d EXCEPT ![n] = left], K \ {d[n]})
BY SMT DEF Kept

LEMMA ListKept ==
    ASSUME DiskTypeOK, Kept(dir, keys)
    PROVE  Kept(List, keys)
<1>1. CASE Existing(dir) = {}
    <2>1. dir[DefaultName] \notin Keys
        BY <1>1, NamesAssumption, DistinctAssumption DEF Existing
    <2> QED BY <1>1, <2>1, MadeKept, DistinctAssumption DEF List, DiskTypeOK
<1> QED BY <1>1 DEF List

LEMMA MkdirKept ==
    ASSUME DiskTypeOK, Kept(dir, keys), NEW n
    PROVE  Kept(MkdirAll(n), keys)
BY MadeKept, DistinctAssumption DEF MkdirAll, DiskTypeOK

\* Only these steps touch the directories or the keys.
LEMMA StepKept ==
    ASSUME TypeInv, Kept(dir, keys), NEW t \in Threads, Step(t)
    PROVE  Kept(dir', keys')
<1> USE DEF TypeInv, TypeOK
<1>1. CASE RenameDir(t)
    <2>1. job[t].from \in Names /\ job[t].name \in Names /\ keys' = keys
        BY <1>1 DEF RenameDir, JobsKnown
    <2>2. CASE dir' = dir
        BY <2>1, <2>2
    <2>3. CASE /\ dir[job[t].from] # NoDir /\ dir[job[t].name] = NoDir
               /\ dir' = [dir EXCEPT ![job[t].name] = dir[job[t].from], ![job[t].from] = NoDir]
        BY <2>1, <2>3, MovedKept DEF DiskTypeOK
    <2> QED BY <1>1, <2>2, <2>3 DEF RenameDir
<1>2. CASE StartNode(t)
    <2> DEFINE n == owner[mine[t]]
    <2>1. n \in Names
        BY <1>2 DEF StartNode, JobsKnown
    <2>2. CASE dir' = dir /\ keys' = keys
        BY <2>2
    <2>3. ASSUME NEW k \in Keys, IF dir[n] \in Keys THEN k = dir[n] ELSE k \notin keys,
                 dir' = [dir EXCEPT ![n] = k], keys' = keys \cup {k}
          PROVE  Kept(dir', keys')
        BY <2>1, <2>3, StartedKept DEF DiskTypeOK
    <2> QED BY <1>2, <2>2, <2>3 DEF StartNode
<1>3. CASE LoadConfig(t)
    BY <1>3, MkdirKept DEF LoadConfig
<1>4. CASE RecordRename(t)
    BY <1>4, ListKept DEF RecordRename
<1>5. CASE TakeBackend(t) \/ Detach(t) \/ CloseBackend(t) \/ CheckRunning(t) \/ SetActive(t) \/ Publish(t)
           \/ SetTarget(t) \/ Done(t) \/ Leave(t)
    <2>1. dir' = dir /\ keys' = keys
        BY <1>5, Zenon DEF TakeBackend, Detach, CloseBackend, CheckRunning, SetActive, Publish, SetTarget, Done, Leave, disk
    <2> QED BY <2>1
<1> QED BY <1>1, <1>2, <1>3, <1>4, <1>5 DEF Step

LEMMA NextKept == TypeInv /\ Kept(dir, keys) /\ [Next]_vars => Kept(dir', keys')
<1> SUFFICES ASSUME TypeInv, Kept(dir, keys), [Next]_vars PROVE Kept(dir', keys')
    OBVIOUS
<1> USE DEF TypeInv, TypeOK
<1>1. CASE UNCHANGED disk
    BY <1>1 DEF disk
<1>2. CASE Remove
    <2>1. PICK left \in {NoDir} \cup (IF logDir = ui.name THEN {NoKey} ELSE {}) : dir' = [dir EXCEPT ![ui.name] = left]
        BY <1>2, Zenon DEF Remove
    <2>2. left \notin Keys
        BY <2>1, DistinctAssumption
    <2>3. ui.name \in Names /\ keys' = keys \ {dir[ui.name]}
        BY <1>2, Zenon DEF Remove, ScreenTypeOK
    <2> QED BY <2>1, <2>2, <2>3, RemovedKept DEF DiskTypeOK
<1>3. CASE Refresh \/ Launch
    BY <1>3, ListKept DEF Refresh, Launch
<1>4. ASSUME NEW n \in Names, Create(n) PROVE Kept(dir', keys')
    BY <1>4, MkdirKept DEF Create, MakeProfile
<1>5. CASE Exit \/ Crash \/ SetSelected
    <2>1. UNCHANGED disk
        BY <1>5, Zenon DEF Exit, Crash, End, SetSelected
    <2> QED BY <2>1, <1>1
<1>6. CASE Order
    <2>1. UNCHANGED disk \/ \E n \in Names : Create(n)
        BY <1>6, Zenon DEF Order, Pick, Delete, Rename, PickNew, CancelNew, ChangeAddr, Quit
    <2> QED BY <2>1, <1>1, <1>4
<1>7. CASE UNCHANGED vars
    BY <1>7, <1>1 DEF vars
<1> QED BY <1>1, <1>2, <1>3, <1>5, <1>6, <1>7, StepKept DEF Next

\* A node key that was made and not deleted by the user is always in exactly
\* one directory, for any number of goroutines, orders, failures and crashes.
THEOREM KeysAlways == Spec => []KeysKept
<1> DEFINE KeyInv == TypeInv /\ Kept(dir, keys)
<1>1. Init => KeyInv
    <2> SUFFICES ASSUME Init PROVE KeyInv
        OBVIOUS
    <2>1. TypeInv
        BY InitTypes
    <2>2. KeysKept
        BY DEF Init, KeysKept
    <2> QED BY <2>1, <2>2, KeptIsKeysKept DEF TypeInv, TypeOK
<1>2. KeyInv /\ [Next]_vars => KeyInv'
    BY NextTypes, NextKept DEF Kept
<1>3. KeyInv => KeysKept
    BY KeptIsKeysKept DEF TypeInv, TypeOK
<1> QED BY <1>1, <1>2, <1>3, PTL DEF Spec

-----------------------------------------------------------------------------
(* One node, in the directory of the current profile.                      *)

\* The nodes, but for b, are closed; b is in state s.
Only(b, s) == \A c \in Backends : node[c] = IF c = b THEN s ELSE "closed"

Down == backend = None /\ target = None /\ Only(None, "closed")
Serving == backend # None /\ target = backend /\ Only(backend, "open")

\* Where each step of a chain finds the App, its nodes and the bridge.
Stage(t) ==
    /\ pc[t] \in {"stop", "check", "done"} => Down \/ Serving
    /\ pc[t] \in {"rename", "record"} /\ job[t].kind = "rename" => Down \/ Serving
    /\ pc[t] \in {"rename", "record"} /\ job[t].kind # "rename" => Down
    /\ pc[t] \in {"load", "active", "publish", "leave", "exit"} => Down
    /\ pc[t] = "detach" => backend = None /\ target = mine[t] /\ Only(mine[t], "open")
    /\ pc[t] = "close" => backend = None /\ target = None /\ Only(mine[t], "open")
    /\ pc[t] = "start" => backend = mine[t] /\ target = None /\ Only(mine[t], "made")
    /\ pc[t] = "target" => backend = mine[t] /\ target = None /\ Only(mine[t], "open")

\* One chain at a time, each step where the last one left off.
OneChain ==
    /\ \A s, t \in Threads : pc[s] # "idle" /\ pc[t] # "idle" => s = t
    /\ (\A t \in Threads : pc[t] = "idle") => Down \/ Serving
    /\ \A t \in Threads : Stage(t)

\* A node runs in the directory of the current profile, which no rename
\* and no deletion under way is about.
OwnDir ==
    /\ \A b \in Backends :
         /\ node[b] \in {"made", "open"} => owner[b] = profName /\ profName \in Names
         /\ node[b] = "open" => dir[profName] = usedKey[b] /\ usedKey[b] \in Keys
    /\ \A t \in Threads :
         /\ pc[t] = "check" => job[t].kind = "rename"
         /\ pc[t] \in {"rename", "record"} /\ job[t].kind = "rename" => job[t].from # profName
    /\ ui.step = "remove" => ui.name # profName /\ \A t \in Threads : pc[t] = "idle"

\* active-profile.txt names the current profile, or the one about to be.
ActiveKnown ==
    /\ profName # None =>
         active = profName \/ \E t \in Threads : pc[t] = "publish" /\ active = job[t].name
    /\ \A t \in Threads :
         /\ pc[t] \in {"active", "publish"} => dir[job[t].name] # NoDir
         /\ pc[t] = "publish" => active = job[t].name
         /\ pc[t] = "record" => dir[job[t].from] = NoDir /\ dir[job[t].name] # NoDir

\* When the process does not run, nothing is left of it.
DownClean ==
    /\ ~up => /\ \A t \in Threads : pc[t] = "idle"
              /\ Down /\ profName = None /\ ui.step = "loop" /\ ~overlapped
    /\ ui.step = "select" => ui.name = profName

OneInv == TypeInv /\ DownClean /\ (~overlapped => OneChain /\ OwnDir /\ ActiveKnown)

LEMMA SameOne ==
    ASSUME OneInv, UNCHANGED <<dir, active, up, threads, app, ui, overlapped>>
    PROVE  DownClean' /\ (~overlapped' => OneChain' /\ OwnDir' /\ ActiveKnown')
BY DEF OneInv, DownClean, OneChain, OwnDir, ActiveKnown, Stage, Down, Serving, Only, threads, app

\* Only one goroutine is under way, and the process runs.
LEMMA OthersIdle ==
    ASSUME OneInv, ~overlapped, NEW t \in Threads, pc[t] # "idle"
    PROVE  up /\ \A u \in Threads : u # t => pc[u] = "idle"
BY DEF OneInv, OneChain, DownClean, Threads, TypeInv, TypeOK, DiskTypeOK

\* stopBackend closes the node before the next one is started.
LEMMA StopOne ==
    ASSUME OneInv, ~overlapped, NEW t \in Threads, TakeBackend(t) \/ Detach(t) \/ CloseBackend(t)
    PROVE  DownClean' /\ OneChain' /\ OwnDir' /\ ActiveKnown'
<1>1. pc[t] # "idle"
    BY DEF TakeBackend, Detach, CloseBackend
<1>2. up /\ \A u \in Threads : u # t => pc[u] = "idle"
    BY <1>1, OthersIdle
<1>3. TypeInv /\ OneChain /\ OwnDir /\ ActiveKnown /\ DownClean /\ Stage(t)
    BY DEF OneInv, OneChain
<1> USE <1>1, <1>2, <1>3, DistinctAssumption DEF TypeInv, TypeOK
<1>4. CASE TakeBackend(t)
    <2>1. DownClean'
        BY <1>4, SMT DEF TakeBackend, DownClean, ThreadsTypeOK, Goto, disk, screen
    <2>2. OneChain'
        BY <1>4, SMT DEF TakeBackend, OneChain, Stage, Down, Serving, Only, ThreadsTypeOK, AppTypeOK, AfterStop, Goto
    <2>3. OwnDir' /\ ActiveKnown'
        BY <1>4, SMT DEF TakeBackend, OwnDir, ActiveKnown, ThreadsTypeOK, AfterStop, Goto, Held, JobReady, disk, screen
    <2> QED BY <2>1, <2>2, <2>3
<1>5. CASE Detach(t)
    <2>1. DownClean'
        BY <1>5, SMT DEF Detach, DownClean, ThreadsTypeOK, Goto, disk, screen
    <2>2. OneChain'
        BY <1>5, SMT DEF Detach, OneChain, Stage, Down, Serving, Only, ThreadsTypeOK, AppTypeOK, AfterStop, Goto
    <2>3. OwnDir' /\ ActiveKnown'
        BY <1>5, SMT DEF Detach, OwnDir, ActiveKnown, ThreadsTypeOK, AfterStop, Goto, Held, JobReady, disk, screen
    <2> QED BY <2>1, <2>2, <2>3
<1>6. CASE CloseBackend(t)
    <2>1. DownClean'
        BY <1>6, SMT DEF CloseBackend, DownClean, ThreadsTypeOK, Goto, disk, screen
    <2>2. OneChain'
        BY <1>6, SMT DEF CloseBackend, Close, OneChain, Stage, Down, Serving, Only, ThreadsTypeOK, AppTypeOK, JobsKnown, AfterStop, Goto
    <2>3. OwnDir' /\ ActiveKnown'
        BY <1>6, SMT DEF CloseBackend, Close, OwnDir, ActiveKnown, Only, Stage, ThreadsTypeOK, AppTypeOK, JobsKnown, AfterStop, Goto, Held, JobReady, disk, screen
    <2> QED BY <2>1, <2>2, <2>3
<1> QED BY <1>4, <1>5, <1>6

\* A directory is moved while no node runs in it, and to a free name.
LEMMA RenameOne ==
    ASSUME OneInv, ~overlapped, NEW t \in Threads, CheckRunning(t) \/ RenameDir(t) \/ RecordRename(t)
    PROVE  DownClean' /\ OneChain' /\ OwnDir' /\ ActiveKnown'
<1>1. pc[t] # "idle"
    BY DEF CheckRunning, RenameDir, RecordRename
<1>2. up /\ \A u \in Threads : u # t => pc[u] = "idle"
    BY <1>1, OthersIdle
<1>3. TypeInv /\ OneChain /\ OwnDir /\ ActiveKnown /\ DownClean /\ Stage(t)
    BY DEF OneInv, OneChain
<1> USE <1>1, <1>2, <1>3, DistinctAssumption DEF TypeInv, TypeOK
<1>4. CASE CheckRunning(t)
    <2>1. DownClean'
        BY <1>4, SMT DEF CheckRunning, DownClean, ThreadsTypeOK, Goto, app, screen, Down, Only
    <2>2. OneChain'
        BY <1>4, SMT DEF CheckRunning, OneChain, OwnDir, Stage, Down, Serving, Only, ThreadsTypeOK, AppTypeOK, Jobs, Goto, app
    <2>3. OwnDir' /\ ActiveKnown'
        BY <1>4, SMT DEF CheckRunning, OwnDir, ActiveKnown, ThreadsTypeOK, Jobs, Goto, app, disk, screen
    <2> QED BY <2>1, <2>2, <2>3
<1>5. CASE RenameDir(t)
    <2>1. DownClean'
        BY <1>5, SMT DEF RenameDir, DownClean, ThreadsTypeOK, Goto, screen, Down, Only
    <2>2. OneChain'
        BY <1>5, SMT DEF RenameDir, OneChain, Stage, Down, Serving, Only, ThreadsTypeOK, AppTypeOK, Jobs, AfterRename, Goto
    <2>3. OwnDir'
        BY <1>5, SMT DEF RenameDir, OwnDir, Stage, Down, Only, ThreadsTypeOK, AppTypeOK, DiskTypeOK, JobsKnown, Jobs, AfterRename, Goto, screen
    <2>4. ActiveKnown'
        BY <1>5, SMT DEF RenameDir, ActiveKnown, ThreadsTypeOK, DiskTypeOK, JobsKnown, Jobs, AfterRename, Goto
    <2> QED BY <2>1, <2>2, <2>3, <2>4
<1>6. CASE RecordRename(t)
    <2>1. dir' = dir /\ active' = active
        <3>1. dir[job[t].from] = NoDir /\ dir[job[t].name] # NoDir /\ job[t].name \in Names
            BY <1>6 DEF RecordRename, ActiveKnown, JobsKnown
        <3>2. List = dir
            BY <3>1, Zenon DEF List, Existing
        <3>3. Active # job[t].from
            BY <3>1, <3>2, ActiveExists DEF Existing
        <3> QED BY <1>6, <3>2, <3>3 DEF RecordRename
    <2>2. DownClean'
        BY <1>6, SMT DEF RecordRename, DownClean, ThreadsTypeOK, Goto, app, screen, Down, Only
    <2>3. OneChain'
        BY <1>6, SMT DEF RecordRename, OneChain, Stage, Down, Serving, Only, ThreadsTypeOK, AppTypeOK, AfterRename, Goto, app
    <2>4. OwnDir' /\ ActiveKnown'
        BY <1>6, <2>1, SMT DEF RecordRename, OwnDir, ActiveKnown, ThreadsTypeOK, AfterRename, Goto, app, screen
    <2> QED BY <2>2, <2>3, <2>4
<1> QED BY <1>4, <1>5, <1>6

\* A node is started when the others are closed, and the bridge follows it.
LEMMA StartOne ==
    ASSUME OneInv, ~overlapped, ~RefreshRaces, NEW t \in Threads,
           LoadConfig(t) \/ SetActive(t) \/ Publish(t) \/ StartNode(t) \/ SetTarget(t)
    PROVE  DownClean' /\ OneChain' /\ OwnDir' /\ ActiveKnown'
<1>1. pc[t] # "idle"
    BY DEF LoadConfig, SetActive, Publish, StartNode, SetTarget
<1>2. up /\ \A u \in Threads : u # t => pc[u] = "idle"
    BY <1>1, OthersIdle
<1>3. TypeInv /\ OneChain /\ OwnDir /\ ActiveKnown /\ DownClean /\ Stage(t)
    BY DEF OneInv, OneChain
<1> USE <1>1, <1>2, <1>3, DistinctAssumption DEF TypeInv, TypeOK
<1>4. CASE LoadConfig(t)
    <2>1. DownClean'
        BY <1>4, SMT DEF LoadConfig, DownClean, ThreadsTypeOK, Goto, screen, Down, Only
    <2>2. OneChain'
        BY <1>4, SMT DEF LoadConfig, OneChain, Stage, Down, Serving, Only, ThreadsTypeOK, AppTypeOK, Goto
    <2>3. OwnDir' /\ ActiveKnown'
        BY <1>4, SMT DEF LoadConfig, MkdirAll, OwnDir, ActiveKnown, ThreadsTypeOK, DiskTypeOK, JobsKnown, Goto, screen
    <2> QED BY <2>1, <2>2, <2>3
<1>5. CASE SetActive(t)
    <2>1. DownClean'
        BY <1>5, SMT DEF SetActive, DownClean, ThreadsTypeOK, Goto, app, screen, Down, Only
    <2>2. OneChain'
        BY <1>5, SMT DEF SetActive, OneChain, Stage, Down, Serving, Only, ThreadsTypeOK, AppTypeOK, Goto, app
    <2>3. OwnDir' /\ ActiveKnown'
        BY <1>5, SMT DEF SetActive, OwnDir, ActiveKnown, ThreadsTypeOK, Goto, app, screen
    <2> QED BY <2>1, <2>2, <2>3
<1>6. CASE Publish(t)
    <2>1. PICK b \in Unused : /\ node' = [node EXCEPT ![b] = "made"]
                              /\ owner' = [owner EXCEPT ![b] = job[t].name]
                              /\ mine' = [mine EXCEPT ![t] = b]
                              /\ backend' = b
        BY <1>6, Zenon DEF Publish
    <2>2. b \in Backends
        BY <2>1, Zenon DEF Unused
    <2>3. DownClean'
        BY <1>6, SMT DEF Publish, DownClean, ThreadsTypeOK, Goto, screen
    <2>4. OneChain'
        BY <1>6, <2>1, <2>2, SMT DEF Publish, OneChain, Stage, Down, Serving, Only, ThreadsTypeOK, AppTypeOK, Goto
    <2>5. OwnDir'
        BY <1>6, <2>1, <2>2, SMT DEF Publish, OwnDir, Stage, Down, Only, ThreadsTypeOK, AppTypeOK, JobsKnown, Goto, disk, screen
    <2>6. ActiveKnown'
        BY <1>6, SMT DEF Publish, ActiveKnown, ThreadsTypeOK, Goto, disk
    <2> QED BY <2>3, <2>4, <2>5, <2>6
<1>7. CASE StartNode(t)
    <2>1. DownClean'
        BY <1>7, SMT DEF StartNode, DownClean, ThreadsTypeOK, Goto, screen
    <2>2. OneChain'
        BY <1>7, SMT DEF StartNode, OneChain, Stage, Down, Serving, Only, ThreadsTypeOK, AppTypeOK, JobsKnown, Goto
    <2>3. OwnDir'
        BY <1>7, SMT DEF StartNode, OwnDir, Stage, Only, ThreadsTypeOK, AppTypeOK, DiskTypeOK, JobsKnown, Goto, screen
    <2>4. ActiveKnown'
        BY <1>7, SMT DEF StartNode, ActiveKnown, ThreadsTypeOK, DiskTypeOK, AppTypeOK, JobsKnown, Goto
    <2> QED BY <2>1, <2>2, <2>3, <2>4
<1>8. CASE SetTarget(t)
    <2>1. DownClean'
        BY <1>8, SMT DEF SetTarget, DownClean, ThreadsTypeOK, Goto
    <2>2. OneChain'
        BY <1>8, SMT DEF SetTarget, OneChain, Stage, Down, Serving, Only, ThreadsTypeOK, AppTypeOK, JobsKnown, Goto
    <2>3. OwnDir' /\ ActiveKnown'
        BY <1>8, SMT DEF SetTarget, OwnDir, ActiveKnown, ThreadsTypeOK, Goto, disk
    <2> QED BY <2>1, <2>2, <2>3
<1> QED BY <1>4, <1>5, <1>6, <1>7, <1>8

\* A chain ends, or hands over to main's goroutine; the process ends.
LEMMA EndOne ==
    ASSUME OneInv, NEW t \in Threads, Done(t) \/ Leave(t) \/ End
    PROVE  DownClean' /\ (~overlapped' => OneChain' /\ OwnDir' /\ ActiveKnown')
<1>1. CASE End
    BY <1>1, DistinctAssumption, SMT DEF End, DownClean, OneChain, Stage, OwnDir, ActiveKnown, Down, Serving, Only, Idle
<1>2. CASE overlapped /\ (Done(t) \/ Leave(t))
    <2>1. up /\ up' = up /\ overlapped' = overlapped /\ ui' = ui /\ profName' = profName
        <3>1. up
            BY <1>2 DEF Done, Leave, OneInv, DownClean, TypeInv, TypeOK, DiskTypeOK
        <3> QED BY <1>2, <3>1, Zenon DEF Done, Leave, app, screen
    <2> QED BY <1>2, <2>1 DEF OneInv, DownClean
<1>3. CASE ~overlapped /\ (Done(t) \/ Leave(t))
    <2>1. pc[t] # "idle"
        BY <1>3 DEF Done, Leave
    <2>2. up /\ \A u \in Threads : u # t => pc[u] = "idle"
        BY <2>1, <1>3, OthersIdle
    <2>3. TypeInv /\ OneChain /\ OwnDir /\ ActiveKnown /\ DownClean /\ Stage(t)
        BY <1>3 DEF OneInv, OneChain
    <2> USE <2>1, <2>2, <2>3, DistinctAssumption DEF TypeInv, TypeOK
    <2>4. CASE Done(t)
        <3>1. DownClean'
            BY <2>4, SMT DEF Done, DownClean, ThreadsTypeOK, Goto, app
        <3>2. OneChain'
            BY <2>4, SMT DEF Done, OneChain, Stage, Down, Serving, Only, ThreadsTypeOK, AppTypeOK, Goto, app
        <3>3. OwnDir' /\ ActiveKnown'
            BY <2>4, SMT DEF Done, OwnDir, ActiveKnown, ThreadsTypeOK, Goto, app, disk
        <3> QED BY <3>1, <3>2, <3>3
    <2>5. CASE Leave(t)
        <3>1. DownClean'
            BY <2>5, SMT DEF Leave, DownClean, ThreadsTypeOK, app, screen
        <3>2. OneChain'
            BY <2>5, SMT DEF Leave, OneChain, Stage, Down, Serving, Only, ThreadsTypeOK, AppTypeOK, app, Threads
        <3>3. OwnDir' /\ ActiveKnown'
            BY <2>5, SMT DEF Leave, OwnDir, ActiveKnown, ThreadsTypeOK, app, disk, screen, Threads
        <3> QED BY <3>1, <3>2, <3>3
    <2> QED BY <1>3, <2>4, <2>5
<1> QED BY <1>1, <1>2, <1>3

\* An order begins a chain, when none is under way; a new profile's
\* directory was free.
LEMMA SpawnOne ==
    ASSUME OneInv, ~overlapped, UiFree, ~Busy, NEW l \in {"stop", "check"}, NEW j \in Jobs, Spawn(l, j),
           l = "check" => j.kind = "rename",
           UNCHANGED <<app, active, ui>>, dir' = dir \/ \E n \in Names : MakeProfile(n)
    PROVE  OneChain' /\ OwnDir' /\ ActiveKnown'
<1>1. \A t \in Threads : pc[t] = "idle"
    BY DEF UiFree, Busy, Threads
<1>2. TypeInv /\ OneChain /\ OwnDir /\ ActiveKnown
    BY DEF OneInv
<1>3. PICK w \in Workers : pc' = [pc EXCEPT ![w] = l] /\ job' = [job EXCEPT ![w] = j] /\ mine' = mine
    BY Zenon DEF Spawn, Goto
<1>4. \A n \in Names : dir[n] \in Keys => dir'[n] = dir[n]
    BY <1>2, DistinctAssumption, SMT DEF MakeProfile, MkdirAll, TypeInv, TypeOK, DiskTypeOK
<1> USE <1>1, <1>2, <1>3 DEF TypeInv, TypeOK, ThreadsTypeOK, app
<1>5. OneChain'
    BY SMT DEF OneChain, Stage, Down, Serving, Only, Threads
<1>6. OwnDir'
    BY <1>4, SMT DEF OwnDir, UiFree, Idle, Threads
<1>7. ActiveKnown'
    BY SMT DEF ActiveKnown, Threads
<1> QED BY <1>5, <1>6, <1>7

LEMMA SwitchOne ==
    ASSUME OneInv, ~overlapped, UiFree, ~Busy, NEW n \in Names, Switch(n),
           UNCHANGED <<app, active, ui>>, dir' = dir \/ \E m \in Names : MakeProfile(m)
    PROVE  OneChain' /\ OwnDir' /\ ActiveKnown'
<1>1. Job("switch", None, n) \in Jobs
    BY SMT DEF Job, Jobs
<1> QED BY <1>1, SpawnOne DEF Switch

\* A handler of the UI goroutine.
LEMMA OrderOne ==
    ASSUME OneInv, Order
    PROVE  DownClean' /\ (~overlapped' => OneChain' /\ OwnDir' /\ ActiveKnown')
<1> DEFINE Good == DownClean' /\ (~overlapped' => OneChain' /\ OwnDir' /\ ActiveKnown')
<1>1. UNCHANGED <<app, active, up>> /\ UiFree
    BY Zenon DEF Order, Pick, Create, Delete, Rename, PickNew, CancelNew, ChangeAddr, Quit, disk
<1>2. up /\ up' /\ profName' = profName
    BY <1>1 DEF UiFree, app
<1>3. ui' = ui => DownClean'
    BY <1>1, <1>2 DEF DownClean, UiFree, Idle
<1>4. Ordered /\ ~overlapped' => ~overlapped /\ ~Busy
    BY Zenon DEF Ordered
<1>5. ASSUME NEW n \in Names, Pick(n) PROVE Good
    <2>1. CASE UNCHANGED <<threads, orders, overlapped>>
        BY <1>1, <1>5, <2>1, SameOne DEF Pick, disk
    <2>2. CASE Switch(n) /\ Ordered
        BY <1>1, <1>3, <1>4, <1>5, <2>2, SwitchOne DEF Pick, disk
    <2> QED BY <1>5, <2>1, <2>2 DEF Pick
<1>6. ASSUME NEW n \in Names, Create(n) PROVE Good
    <2>1. ~overlapped' => ~overlapped /\ ~Busy
        BY <1>6, Zenon DEF Create
    <2>2. Switch(n) /\ MakeProfile(n) /\ ui' = ui
        BY <1>6 DEF Create
    <2> QED BY <1>1, <1>3, <2>1, <2>2, SwitchOne
<1>7. ASSUME NEW n \in Names, Delete(n) PROVE Good
    <2>1. UNCHANGED <<disk, threads, app>> /\ Ordered /\ n # profName /\ ui' = [name |-> n, step |-> "remove"]
        BY <1>7 DEF Delete
    <2>2. DownClean'
        BY <1>2, <2>1 DEF DownClean
    <2>3. ASSUME ~overlapped' PROVE OneChain' /\ OwnDir' /\ ActiveKnown'
        <3>1. \A t \in Threads : pc[t] = "idle"
            BY <1>1, <1>4, <2>1, <2>3 DEF UiFree, Busy, Threads
        <3>2. OneChain /\ OwnDir /\ ActiveKnown
            BY <1>4, <2>1, <2>3 DEF OneInv
        <3> QED BY <2>1, <3>1, <3>2 DEF OneChain, OwnDir, ActiveKnown, Stage, Down, Serving, Only, disk, threads, app
    <2> QED BY <2>2, <2>3
<1>8. ASSUME NEW from \in Names, NEW to \in Names, Rename(from, to) PROVE Good
    <2>1. Job("rename", from, to) \in Jobs /\ Job("rename", from, to).kind = "rename"
        BY SMT DEF Job, Jobs
    <2>2. Spawn("check", Job("rename", from, to)) /\ Ordered /\ UNCHANGED <<dir, ui>>
        BY <1>8 DEF Rename, disk
    <2> QED BY <1>1, <1>3, <1>4, <2>1, <2>2, SpawnOne
<1>9. CASE PickNew
    BY <1>1, <1>9, SameOne DEF PickNew, disk
<1>10. CASE CancelNew
    <2>1. UNCHANGED <<disk, threads, app, overlapped>> /\ ui' = [name |-> profName, step |-> "select"]
        BY <1>10 DEF CancelNew
    <2>2. DownClean'
        BY <1>2, <2>1 DEF DownClean
    <2>3. ASSUME ~overlapped' PROVE OneChain' /\ OwnDir' /\ ActiveKnown'
        BY <2>1, <2>3 DEF OneInv, OneChain, OwnDir, ActiveKnown, Stage, Down, Serving, Only, disk, threads, app
    <2> QED BY <2>2, <2>3
<1>11. CASE ChangeAddr
    <2>1. owner[backend] \in Names
        BY <1>11 DEF ChangeAddr, OneInv, TypeInv, Held
    <2>2. Switch(owner[backend]) /\ Ordered /\ UNCHANGED <<dir, ui>>
        BY <1>11 DEF ChangeAddr, disk
    <2> QED BY <1>1, <1>3, <1>4, <2>1, <2>2, SwitchOne
<1>12. CASE Quit
    <2>1. Job("quit", None, None) \in Jobs
        BY SMT DEF Job, Jobs
    <2>2. Spawn("stop", Job("quit", None, None)) /\ Ordered /\ UNCHANGED <<dir, ui>>
        BY <1>12 DEF Quit, disk
    <2> QED BY <1>1, <1>3, <1>4, <2>1, <2>2, SpawnOne
<1> QED BY <1>5, <1>6, <1>7, <1>8, <1>9, <1>10, <1>11, <1>12 DEF Order

\* The window: what is deleted is not the current profile, and a selection
\* that nothing overtook starts nothing.
LEMMA WindowOne ==
    ASSUME OneInv, Refresh \/ SetSelected \/ Remove
    PROVE  DownClean' /\ (~overlapped' => OneChain' /\ OwnDir' /\ ActiveKnown')
<1>1. CASE Refresh
    <2>1. up /\ up' = up /\ UNCHANGED <<app, threads, active, overlapped>> /\ dir' = List
          /\ (ui' = ui \/ ui' = [name |-> profName, step |-> "select"]) /\ ui.step = "loop"
        BY <1>1 DEF Refresh, UiFree, Idle
    <2>2. \A n \in Names : dir[n] # NoDir => dir' = dir
        BY <2>1, Zenon DEF List, Existing
    <2>3. DownClean'
        BY <2>1 DEF DownClean, app
    <2>4. ASSUME ~overlapped' PROVE OneChain' /\ OwnDir' /\ ActiveKnown'
        <3>1. TypeInv /\ OneChain /\ OwnDir /\ ActiveKnown
            BY <2>1, <2>4 DEF OneInv
        <3>2. OneChain'
            BY <2>1, <3>1 DEF OneChain, Stage, Down, Serving, Only, app, threads
        <3>3. OwnDir'
            BY <2>1, <2>2, <3>1, DistinctAssumption DEF OwnDir, app, threads
        <3>4. ActiveKnown'
            <4>1. \A t \in Threads : pc[t] \in {"active", "publish", "record"} => dir' = dir
                BY <2>2, <3>1 DEF ActiveKnown, TypeInv, TypeOK, JobsKnown
            <4> QED BY <2>1, <3>1, <4>1 DEF ActiveKnown, app, threads
        <3> QED BY <3>2, <3>3, <3>4
    <2> QED BY <2>3, <2>4
<1>2. CASE SetSelected
    <2>1. up /\ ui.step = "select" /\ ui' = Idle /\ UNCHANGED <<disk, up, app, overlapped>>
        BY <1>2 DEF SetSelected
    <2>2. UNCHANGED threads
        BY <1>2, <2>1, Zenon DEF SetSelected, OneInv, DownClean
    <2>3. DownClean'
        BY <2>1 DEF DownClean, Idle
    <2>4. ASSUME ~overlapped' PROVE OneChain' /\ OwnDir' /\ ActiveKnown'
        BY <2>1, <2>2, <2>4 DEF OneInv, OneChain, OwnDir, ActiveKnown, Stage, Down, Serving, Only, Idle, disk, threads, app
    <2> QED BY <2>3, <2>4
<1>3. CASE Remove
    <2>1. up /\ ui.step = "remove" /\ ui' = Idle /\ UNCHANGED <<active, up, threads, app, overlapped>>
        BY <1>3 DEF Remove
    <2>2. PICK left \in {NoDir} \cup (IF logDir = ui.name THEN {NoKey} ELSE {}) : dir' = [dir EXCEPT ![ui.name] = left]
        BY <1>3, Zenon DEF Remove
    <2>3. DownClean'
        BY <2>1 DEF DownClean, Idle
    <2>4. ASSUME ~overlapped' PROVE OneChain' /\ OwnDir' /\ ActiveKnown'
        <3>1. TypeInv /\ OneChain /\ OwnDir /\ ActiveKnown
            BY <2>1, <2>4 DEF OneInv
        <3>2. ui.name # profName /\ \A t \in Threads : pc[t] = "idle"
            BY <2>1, <3>1 DEF OwnDir
        <3>3. profName \in Names => dir'[profName] = dir[profName]
            BY <2>2, <3>1, <3>2 DEF TypeInv, TypeOK, DiskTypeOK
        <3>4. OneChain'
            BY <2>1, <3>1 DEF OneChain, Stage, Down, Serving, Only, app, threads
        <3>5. OwnDir'
            BY <2>1, <3>1, <3>3 DEF OwnDir, Idle, app, threads
        <3>6. ActiveKnown'
            BY <2>1, <3>1, <3>2 DEF ActiveKnown, app, threads
        <3> QED BY <3>4, <3>5, <3>6
    <2> QED BY <2>3, <2>4
<1> QED BY <1>1, <1>2, <1>3

LEMMA LaunchOne ==
    ASSUME OneInv, Launch
    PROVE  DownClean' /\ (~overlapped' => OneChain' /\ OwnDir' /\ ActiveKnown')
<1>1. TypeInv /\ DownClean /\ ~up /\ ~overlapped /\ OneChain /\ OwnDir /\ ActiveKnown
    BY DEF Launch, OneInv, DownClean
<1>2. up' /\ UNCHANGED <<active, app, screen>> /\ pc' = [pc EXCEPT ![Main] = "load"]
    BY DEF Launch, Goto
<1> USE <1>1, <1>2 DEF TypeInv, TypeOK, ThreadsTypeOK, Threads
<1>3. DownClean'
    BY SMT DEF DownClean, screen, app
<1>4. OneChain'
    BY SMT DEF DownClean, OneChain, Stage, Down, Serving, Only, app
<1>5. OwnDir'
    BY SMT DEF DownClean, OwnDir, Down, Only, app, screen
<1>6. ActiveKnown'
    BY SMT DEF DownClean, ActiveKnown, app
<1> QED BY <1>3, <1>4, <1>5, <1>6

LEMMA NextOne == ~RefreshRaces /\ OneInv /\ [Next]_vars => OneInv'
<1> SUFFICES ASSUME ~RefreshRaces, OneInv, [Next]_vars
             PROVE  DownClean' /\ (~overlapped' => OneChain' /\ OwnDir' /\ ActiveKnown')
    BY NextTypes DEF OneInv
<1> DEFINE Good == DownClean' /\ (~overlapped' => OneChain' /\ OwnDir' /\ ActiveKnown')
<1>1. ASSUME NEW t \in Threads, Step(t) PROVE Good
    <2>1. CASE Done(t) \/ Leave(t)
        BY <2>1, EndOne
    <2>2. CASE ~overlapped /\ ~(Done(t) \/ Leave(t))
        BY <1>1, <2>2, StopOne, RenameOne, StartOne DEF Step
    <2>3. CASE overlapped /\ ~(Done(t) \/ Leave(t))
        <3>1. UNCHANGED <<overlapped, up, ui>> /\ pc[t] # "idle"
            BY <1>1, <2>3, Zenon DEF Step, TakeBackend, Detach, CloseBackend, CheckRunning, RenameDir, RecordRename,
               LoadConfig, SetActive, Publish, StartNode, SetTarget, screen
        <3>2. up
            BY <3>1 DEF OneInv, DownClean, TypeInv, TypeOK, DiskTypeOK
        <3>3. ui.step = "select" => profName' = profName
            BY <1>1, <2>3, Zenon DEF Step, TakeBackend, Detach, CloseBackend, CheckRunning, RenameDir, RecordRename,
               LoadConfig, SetActive, Publish, StartNode, SetTarget, app
        <3> QED BY <2>3, <3>1, <3>2, <3>3 DEF OneInv, DownClean
    <2> QED BY <2>1, <2>2, <2>3
<1>2. CASE Exit \/ Crash
    BY <1>2, EndOne DEF Exit, Crash, Threads
<1>3. CASE UNCHANGED vars
    BY <1>3, SameOne DEF vars, disk, screen
<1> QED BY <1>1, <1>2, <1>3, LaunchOne, OrderOne, WindowOne DEF Next

LEMMA InitOne == Init => OneInv
<1> SUFFICES ASSUME Init PROVE OneInv
    OBVIOUS
<1>1. TypeInv
    BY InitTypes
<1>2. DownClean /\ OneChain /\ OwnDir /\ ActiveKnown
    BY SMT DEF Init, DownClean, OneChain, Stage, OwnDir, ActiveKnown, Down, Serving, Only, Idle
<1> QED BY <1>1, <1>2 DEF OneInv

\* While each order ends before the next begins, the goroutines, the Backends,
\* the bridge, the directories and active-profile.txt keep in step.
THEOREM OneAlways == ~RefreshRaces => (Spec => []OneInv)
<1> SUFFICES ASSUME ~RefreshRaces PROVE Spec => []OneInv
    OBVIOUS
<1>1. OneInv /\ [Next]_vars => OneInv'
    BY NextOne
<1> QED BY <1>1, InitOne, PTL DEF Spec

\* While the user waits for one order before the next, no two nodes run.
THEOREM OneNodeAlways == ~RefreshRaces => (Spec => []OneNode)
<1>1. OneInv => OneNode
    <2> SUFFICES ASSUME OneInv, ~overlapped, NEW b \in Backends, NEW c \in Backends, Running(b), Running(c)
                 PROVE  b = c
        BY DEF OneNode
    <2>1. \E x, s : Only(x, s)
        BY DEF OneInv, OneChain, Stage, Down, Serving, ThreadsTypeOK, Labels, TypeInv, TypeOK
    <2> QED BY <2>1, SMT DEF Only, Running
<1> QED BY <1>1, OneAlways, PTL

\* The directory and the key of the node that runs stay where they are.
THEOREM RunningDirAlways == ~RefreshRaces => (Spec => []RunningDirKept)
<1>1. OneInv => RunningDirKept
    <2> SUFFICES ASSUME OneInv, ~overlapped, NEW b \in Backends, Running(b)
                 PROVE  dir[owner[b]] = usedKey[b]
        BY DEF RunningDirKept
    <2>1. node[b] # "stray"
        <3>1. \E x, s : Only(x, s) /\ s \in {"made", "open", "closed"}
            BY DEF OneInv, OneChain, Stage, Down, Serving, ThreadsTypeOK, Labels, TypeInv, TypeOK
        <3> QED BY <3>1, SMT DEF Only
    <2> QED BY <2>1 DEF OneInv, OwnDir, Running
<1> QED BY <1>1, OneAlways, PTL

\* Wherever the process dies, the next launch starts the profile that was
\* current, or the one it was about to become.
THEOREM ActiveAlways == ~RefreshRaces => (Spec => []ActiveRight)
<1>1. OneInv => ActiveRight
    <2> SUFFICES ASSUME OneInv, up, ~overlapped, profName \in Existing(dir)
                 PROVE  Active \in {profName} \cup {job[t].name : t \in {x \in Threads : pc[x] = "publish"}}
        BY DEF ActiveRight
    <2>1. TypeInv /\ ActiveKnown
        BY DEF OneInv
    <2>2. List = dir /\ profName \in Names /\ profName # None
        BY DistinctAssumption DEF List, Existing
    <2>3. CASE active = profName
        BY <2>2, <2>3 DEF Active
    <2>4. CASE \E t \in Threads : pc[t] = "publish" /\ active = job[t].name
        <3>1. PICK t \in Threads : pc[t] = "publish" /\ active = job[t].name
            BY <2>4
        <3>2. active \in Existing(List)
            BY <2>1, <2>2, <3>1 DEF ActiveKnown, Existing, TypeInv, TypeOK, JobsKnown
        <3> QED BY <3>1, <3>2 DEF Active
    <2> QED BY <2>1, <2>2, <2>3, <2>4 DEF ActiveKnown
<1> QED BY <1>1, OneAlways, PTL

\* The bridge points at the node that runs, or at none.
THEOREM BridgeAlways == ~RefreshRaces => (Spec => []BridgeRight)
<1>1. OneInv => BridgeRight
    <2> SUFFICES ASSUME OneInv, up, ~overlapped
                 PROVE  /\ target # None => node[target] = "open"
                        /\ (\A t \in Threads : pc[t] = "idle") => target = backend
        BY DEF BridgeRight
    <2> USE DEF OneInv, OneChain, TypeInv, TypeOK
    <2>1. target # None => node[target] = "open"
        BY SMT DEF Stage, Down, Serving, Only, ThreadsTypeOK, AppTypeOK, Labels
    <2>2. (\A t \in Threads : pc[t] = "idle") => target = backend
        BY DEF Down, Serving
    <2> QED BY <2>1, <2>2
<1> QED BY <1>1, OneAlways, PTL

-----------------------------------------------------------------------------
(* The dropdown.                                                           *)

\* When nothing is under way and no refresh is due, the dropdown shows the
\* current profile, or is about to.
SelKnown ==
    /\ ~up => profName = None /\ sel = None /\ opts = {} /\ \A t \in Threads : pc[t] = "idle"
    /\ pc[Main] = "idle" /\ ~Busy /\ ~dirty /\ ~dialog =>
         sel = profName \/ profName \notin opts \/ (ui.step = "select" /\ ui.name = profName)

LEMMA SwitchBusy == ASSUME ThreadsTypeOK, NEW l, NEW j, Spawn(l, j), l # "idle" PROVE Busy'
BY SMT DEF Spawn, Goto, ThreadsTypeOK, Busy, Threads

LEMMA NextSel == TypeInv /\ SelKnown /\ [Next]_vars => SelKnown'
<1> SUFFICES ASSUME TypeInv, SelKnown, [Next]_vars PROVE SelKnown'
    OBVIOUS
<1> USE DEF TypeInv, TypeOK
<1>1. ASSUME NEW t \in Threads, Step(t) PROVE SelKnown'
    <2>1. CASE Done(t)
        BY <2>1, Zenon DEF Done, SelKnown, app
    <2>2. CASE Leave(t)
        <3>1. pc'[Main] # "idle"
            BY <2>2, SMT DEF Leave, ThreadsTypeOK, Threads
        <3> QED BY <2>2, <3>1, Zenon DEF Leave, SelKnown, app, screen
    <2>3. CASE ~(Done(t) \/ Leave(t))
        <3>1. up' = up /\ pc[t] # "idle"
            BY <1>1, <2>3, Zenon DEF Step, TakeBackend, Detach, CloseBackend, CheckRunning, RenameDir, RecordRename,
               LoadConfig, SetActive, Publish, StartNode, SetTarget
        <3>2. pc'[t] # "idle"
            BY <1>1, <2>3, SMT DEF Step, TakeBackend, Detach, CloseBackend, CheckRunning, RenameDir, RecordRename,
               LoadConfig, SetActive, Publish, StartNode, SetTarget, AfterStop, AfterRename, Goto, ThreadsTypeOK
        <3>3. pc'[Main] # "idle" \/ Busy'
            BY <3>2 DEF Busy, Threads
        <3> QED BY <3>1, <3>3 DEF SelKnown
    <2> QED BY <2>1, <2>2, <2>3
<1>2. CASE Exit \/ Crash
    <2>1. End
        BY <1>2 DEF Exit, Crash
    <2> QED BY <2>1 DEF End, SelKnown
<1>3. CASE Launch
    <2>1. pc'[Main] # "idle" /\ up'
        BY <1>3, SMT DEF Launch, Goto, ThreadsTypeOK, Threads
    <2> QED BY <2>1 DEF SelKnown
<1>4. CASE Order
    <2>1. up /\ up' = up /\ ui = Idle /\ UNCHANGED app /\ pc[Main] = "idle"
        BY <1>4, Zenon DEF Order, Pick, Create, Delete, Rename, PickNew, CancelNew, ChangeAddr, Quit, UiFree
    <2>2. CASE \E n \in Names : Create(n) \/ (Pick(n) /\ n # profName)
        BY <2>1, <2>2, SwitchBusy, Zenon DEF Create, Pick, Switch, SelKnown
    <2>3. CASE (\E from, to \in Names : Rename(from, to)) \/ ChangeAddr \/ Quit
        BY <2>1, <2>3, SwitchBusy, Zenon DEF Rename, ChangeAddr, Quit, Switch, SelKnown
    <2>4. CASE PickNew
        <3>1. dialog'
            BY <2>4, Zenon DEF PickNew
        <3> QED BY <2>1, <3>1, Zenon DEF SelKnown
    <2>5. CASE CancelNew
        BY <2>1, <2>5 DEF CancelNew, SelKnown, app
    <2>6. ASSUME NEW n \in Names, Pick(n), n = profName PROVE SelKnown'
        BY <2>1, <2>6 DEF Pick, SelKnown, app
    <2>7. ASSUME NEW n \in Names, Delete(n) PROVE SelKnown'
        <3>1. UNCHANGED <<threads, app, sel, opts, dialog, dirty, up>>
            BY <2>7 DEF Delete
        <3> QED BY <2>1, <3>1 DEF SelKnown, Busy, Idle, threads, app
    <2> QED BY <1>4, <2>2, <2>3, <2>4, <2>5, <2>6, <2>7 DEF Order
<1>5. CASE Refresh
    <2>1. up /\ up' = up /\ UNCHANGED <<app, sel>>
          /\ ui' = IF sel # profName THEN [name |-> profName, step |-> "select"] ELSE Idle
        BY <1>5 DEF Refresh, UiFree
    <2> QED BY <2>1 DEF SelKnown, app
<1>6. CASE SetSelected
    <2>1. up /\ up' = up /\ UNCHANGED <<app, opts, dialog, dirty>> /\ ui.step = "select"
          /\ sel' = IF ui.name \in opts THEN ui.name ELSE sel
        BY <1>6 DEF SetSelected
    <2>2. CASE ui.name \in opts /\ profName # ui.name
        <3>1. Switch(ui.name)
            BY <1>6, <2>2 DEF SetSelected
        <3> QED BY <2>1, <3>1, SwitchBusy, Zenon DEF Switch, SelKnown
    <2>3. CASE ~(ui.name \in opts /\ profName # ui.name)
        <3>1. UNCHANGED threads
            BY <1>6, <2>3 DEF SetSelected
        <3> QED BY <2>1, <2>3, <3>1 DEF SelKnown, Busy, threads, app
    <2> QED BY <2>2, <2>3
<1>7. CASE Remove
    BY <1>7, Zenon DEF Remove, SelKnown
<1>8. CASE UNCHANGED vars
    BY <1>8 DEF vars, SelKnown, Busy, disk, threads, app, screen
<1> QED BY <1>1, <1>2, <1>3, <1>4, <1>5, <1>6, <1>7, <1>8 DEF Next

\* Once nothing is under way and the last refresh has run, the dropdown shows
\* the current profile, whatever was chosen, cancelled or overtaken.
THEOREM SelectorAlways == Spec => []SelectorRight
<1> DEFINE Inv == TypeInv /\ SelKnown
<1>1. Init => Inv
    <2>1. Init => SelKnown
        BY DEF Init, SelKnown
    <2> QED BY <2>1, InitTypes
<1>2. Inv /\ [Next]_vars => Inv'
    BY NextTypes, NextSel
<1>3. Inv => SelectorRight
    BY DEF SelKnown, SelectorRight, UiFree, Idle
<1> QED BY <1>1, <1>2, <1>3, PTL DEF Spec
=============================================================================
