----------------------------- MODULE SshProofs -----------------------------
(***************************************************************************)
(* The SSH server and a terminal session, for any servers, connections,    *)
(* logins, keys and bounds.  First the server: what it does to its host    *)
(* key file is writeFileAtomic; who is admitted; what Off closes; and the  *)
(* one key that peers see.  Then the session: its mutex, its handles and   *)
(* its output.                                                             *)
(***************************************************************************)
EXTENDS Ssh, AtomicFileProofs


ServerNext == Manage \/ (\E c \in Conns : Connection(c) \/ Hangup(c)) \/ RestartServer

-----------------------------------------------------------------------------
(* The invariant.                                                          *)

\* While the node is open one thread at most has a server, about to be
\* published or closed, and then that server listens; else the published one
\* does.
ListenInv ==
    /\ pc["close"] # "done" =>
         /\ \A t, u \in Threads : mine[t] # None /\ mine[u] # None => t = u
         /\ \A t \in Threads : mine[t] # None => listener = mine[t] /\ sshSrv = None
         /\ (\A t \in Threads : mine[t] = None) => listener = sshSrv
    /\ pc["close"] = "done" => listener = None
    /\ pc["close"] \in {"up", "stop", "stopped", "node", "done"}
    /\ \A t \in Threads : t # "close" => pc[t] \notin {"up", "node"}

\* What a connection has been asked at its stage.
AdmitInv ==
    \A c \in Conns :
      /\ Open(c) => mode \in seen[c].modes /\ self \in seen[c].selves
      /\ conn[c].at = "self" => "same-user" \in seen[c].modes
      /\ conn[c].at \in {"key", "serve"} =>
           \/ "all-users" \in seen[c].modes
           \/ /\ "same-user" \in seen[c].modes
              /\ conn[c].peer # NoLogin /\ conn[c].peer \in seen[c].selves

\* The key of a server that is ready is the one in the file, and a key is
\* made only while there is none.
KeyInv ==
    (~clash /\ ~undone) =>
      /\ \A s \in Servers : once[s] = "running" =>
           /\ text["path"] = NoFile
           /\ at[s] \in {"sync", "rename"} => text["tmp"] = hostKey[s]
      /\ \A s \in Servers : once[s] = "ok" => hostKey[s] = text["path"]
      /\ \A k \in served : text["path"] = k

\* The parts of ServerTypeOK by the group of variables that they are about.
PolicyType ==
    /\ mode \in Modes /\ self \in Logins \cup {NoLogin} /\ events \in 0 .. MaxEvents
    /\ seen \in [Conns -> [modes : SUBSET Modes, selves : SUBSET (Logins \cup {NoLogin})]]
ListenType ==
    /\ sshSrv \in Servers \cup {None} /\ listener \in Servers \cup {None}
    /\ pc \in [Threads -> {"check", "stop", "stopped", "running", "listen", "publish", "up", "node", "done"}]
    /\ mine \in [Threads -> Servers \cup {None}]
    /\ \A t \in Threads : /\ pc[t] = "publish" => mine[t] # None
                          /\ mine[t] # None => pc[t] \in {"publish", "stopped"}
ConnType ==
    /\ conn \in [Conns -> [at : {"none", "whois", "mode", "self", "key", "serve"},
                           srv : Servers \cup {None}, peer : Logins \cup {NoLogin}]]
    /\ \A c \in Conns : Open(c) => conn[c].srv # None
KeyType ==
    /\ once \in [Servers -> {"new", "running", "ok", "failed"}]
    /\ hostKey \in [Servers -> Values \cup {None}]
    /\ \A s \in Servers : /\ once[s] = "running" <=> Writing(s)
                          /\ once[s] \in {"running", "ok"} => hostKey[s] # None
    /\ made \subseteq Values /\ served \subseteq Values /\ undone \in BOOLEAN

ServerInv == FileInv /\ PolicyType /\ ListenType /\ ConnType /\ KeyType /\ ListenInv /\ AdmitInv /\ KeyInv

LEMMA ServerTypes == ServerInv => ServerTypeOK
BY DEF ServerInv, FileInv, PolicyType, ListenType, ConnType, KeyType, ServerTypeOK

-----------------------------------------------------------------------------
(* The host key file.                                                      *)

LEMMA FileSteps == ServerInv /\ ServerNext => [FileNext]_fileVars
<1> SUFFICES ASSUME ServerInv, ServerNext PROVE [FileNext]_fileVars
    OBVIOUS
<1> USE ServerAssumption
<1>1. ASSUME NEW c \in Conns, ReadKey(c) PROVE [FileNext]_fileVars
    <2>1. conn[c].srv \in Writers
        BY <1>1, SMT DEF ReadKey, ServerInv, ConnType, Open
    <2> QED BY <1>1, <2>1, Zenon DEF ReadKey, FileNext
<1>2. ASSUME NEW s \in Servers, WriteKey(s) \/ KeySaved(s) \/ KeyUnsaved(s) PROVE [FileNext]_fileVars
    <2>1. once[s] = "running" => hostKey[s] \in Values
        BY SMT DEF ServerInv, KeyType
    <2>2. Save(s)
        BY <1>2, <2>1, Zenon DEF WriteKey, KeySaved, KeyUnsaved, Save
    <2> QED BY <2>2, Zenon DEF FileNext
<1>3. CASE Flush \/ RestartServer
    BY <1>3, Zenon DEF Flush, RestartServer, FileNext
<1>4. CASE UNCHANGED fileVars
    BY <1>4
<1>5. ASSUME NEW c \in Conns, Accept(c) \/ WhoIs(c) \/ ReadMode(c) \/ ReadSelf(c) \/ UseKey(c) \/ Hangup(c)
      PROVE  UNCHANGED fileVars
    BY <1>5, Zenon DEF Accept, WhoIs, ReadMode, ReadSelf, UseKey, Hangup, Handle
<1>6. ASSUME CheckMode \/ (\E m \in Modes : SetSSHMode(m)) \/ Close \/ CloseNode \/ CheckRunning
             \/ (\E t \in Threads : Listen(t) \/ Publish(t) \/ StopSSH(t) \/ CloseListener(t)) \/ ChangeSelf
      PROVE  UNCHANGED fileVars
    BY <1>6, Zenon
    DEF CheckMode, SetSSHMode, Close, CloseNode, StopSSH, CloseListener, CheckRunning, Listen, Publish, ChangeSelf
<1> QED BY <1>1, <1>2, <1>3, <1>4, <1>5, <1>6, Zenon DEF ServerNext, Manage, Connection

-----------------------------------------------------------------------------
(* Starting and stopping.                                                  *)

LEMMA ListenStep == ServerInv /\ ServerNext => ListenType' /\ ListenInv'
<1> SUFFICES ASSUME ListenType, ListenInv, ServerNext PROVE ListenType' /\ ListenInv'
    BY DEF ServerInv
<1> USE ServerAssumption DEF ListenType, ListenInv, Threads, Goto
<1>1. CASE CheckMode
    BY <1>1, SMT DEF CheckMode
<1>2. ASSUME NEW m \in Modes, SetSSHMode(m) PROVE ListenType' /\ ListenInv'
    BY <1>2, SMT DEF SetSSHMode
<1>3. ASSUME NEW t \in Threads, StopSSH(t) PROVE ListenType' /\ ListenInv'
    BY <1>3, SMT DEF StopSSH
<1>4. ASSUME NEW t \in Threads, CloseListener(t) PROVE ListenType' /\ ListenInv'
    BY <1>4, SMT DEF CloseListener
<1>5. CASE Close \/ CloseNode
    BY <1>5, SMT DEF Close, CloseNode
<1>6. CASE CheckRunning
    BY <1>6, SMT DEF CheckRunning
<1>7. ASSUME NEW t \in Threads, Listen(t) PROVE ListenType' /\ ListenInv'
    <2>1. CASE listener = None /\ pc["close"] # "done"
        <3>1. PICK s \in Servers : /\ listener' = s /\ mine' = [mine EXCEPT ![t] = s]
                                   /\ pc' = [pc EXCEPT ![t] = "publish"] /\ sshSrv' = sshSrv
            BY <1>7, <2>1, Zenon DEF Listen
        <3>2. pc[t] = "listen"
            BY <1>7, Zenon DEF Listen
        <3> QED BY <2>1, <3>1, <3>2, SMT
    <2>2. CASE ~(listener = None /\ pc["close"] # "done")
        <3>1. pc[t] = "listen" /\ pc' = [pc EXCEPT ![t] = "done"] /\ UNCHANGED <<sshSrv, listener, mine>>
            BY <1>7, <2>2, Zenon DEF Listen
        <3> QED BY <3>1, SMT
    <2> QED BY <2>1, <2>2
<1>8. ASSUME NEW t \in Threads, Publish(t) PROVE ListenType' /\ ListenInv'
    BY <1>8, SMT DEF Publish
<1>9. CASE RestartServer
    <2>1. /\ sshSrv' = None /\ listener' = None
          /\ pc' = AtStart /\ mine' = [t \in Threads |-> None]
        BY <1>9, Zenon DEF RestartServer
    <2> QED BY <2>1, SMT DEF AtStart
<1>10. CASE UNCHANGED listening
    BY <1>10, SMT DEF listening
<1>11. ASSUME NEW c \in Conns, Connection(c) \/ Hangup(c) PROVE UNCHANGED listening
    BY <1>11, Zenon DEF Connection, Accept, WhoIs, ReadMode, ReadSelf, ReadKey, UseKey, Hangup, Handle
<1>12. ASSUME ChangeSelf \/ Flush \/ \E s \in Servers : WriteKey(s) \/ KeySaved(s) \/ KeyUnsaved(s)
       PROVE  UNCHANGED listening
    BY <1>12, Zenon DEF ChangeSelf, Flush, WriteKey, KeySaved, KeyUnsaved
<1> QED
    BY <1>1, <1>2, <1>3, <1>4, <1>5, <1>6, <1>7, <1>8, <1>9, <1>10, <1>11, <1>12, Zenon
    DEF ServerNext, Manage

-----------------------------------------------------------------------------
(* Whom the server admits.                                                 *)

LEMMA PolicyStep == ServerInv /\ ServerNext => PolicyType' /\ ConnType' /\ AdmitInv'
<1> SUFFICES ASSUME PolicyType, ConnType, ListenType, AdmitInv, ServerNext
             PROVE  PolicyType' /\ ConnType' /\ AdmitInv'
    BY DEF ServerInv
<1> USE ServerAssumption DEF PolicyType, ConnType, AdmitInv, Modes, Open, Event
<1>1. ASSUME NEW m \in Modes, SetSSHMode(m) PROVE PolicyType' /\ ConnType' /\ AdmitInv'
    BY <1>1, SMT DEF SetSSHMode
<1>2. CASE ChangeSelf
    BY <1>2, SMT DEF ChangeSelf
<1> USE DEF NoConn, NotSeen
<1>3. ASSUME NEW c \in Conns, Accept(c) PROVE PolicyType' /\ ConnType' /\ AdmitInv'
    BY <1>3, SMT DEF Accept, ListenType, policy
<1>4. ASSUME NEW c \in Conns, NEW l \in {"none", "mode", "self", "key", "serve"},
             /\ Move(c, l) /\ UNCHANGED policy
             /\ seen' = [seen EXCEPT ![c] = IF l = "none" THEN NotSeen ELSE @],
             Open(c),
             l = "self" => mode = "same-user",
             l \in {"key", "serve"} =>
               \/ conn[c].at = "key" \/ mode = "all-users"
               \/ conn[c].at = "self" /\ SelfMatches(c)
      PROVE  PolicyType' /\ ConnType' /\ AdmitInv'
    BY <1>4, SMT DEF Move, SelfMatches, policy
<1>5. ASSUME NEW c \in Conns, WhoIs(c) \/ Hangup(c) \/ ReadMode(c) \/ ReadSelf(c)
      PROVE  PolicyType' /\ ConnType' /\ AdmitInv'
    BY <1>4, <1>5, SMT DEF WhoIs, Hangup, ReadMode, ReadSelf, Handle
<1>6. ASSUME NEW c \in Conns, UseKey(c) PROVE PolicyType' /\ ConnType' /\ AdmitInv'
    <2>1. conn[c].at = "key" /\ UNCHANGED policy /\ Open(c)
        BY <1>6, SMT DEF UseKey, policy
    <2>2. CASE once[conn[c].srv] = "ok"
        <3>1. Move(c, "serve") /\ seen' = [seen EXCEPT ![c] = IF "serve" = "none" THEN NotSeen ELSE @]
            BY <1>6, <2>2, SMT DEF UseKey
        <3> QED BY <1>4, <2>1, <3>1, Zenon
    <2>3. CASE once[conn[c].srv] # "ok"
        <3>1. Move(c, "none") /\ seen' = [seen EXCEPT ![c] = IF "none" = "none" THEN NotSeen ELSE @]
            BY <1>6, <2>3, SMT DEF UseKey
        <3> QED BY <1>4, <2>1, <3>1, Zenon
    <2> QED BY <2>2, <2>3
<1>7. CASE RestartServer
    BY <1>7, SMT DEF RestartServer
<1>8. CASE UNCHANGED <<policy, conn, seen>>
    BY <1>8, SMT DEF policy
<1>9. ASSUME NEW c \in Conns, ReadKey(c) PROVE UNCHANGED <<policy, conn, seen>>
    BY <1>9, Zenon DEF ReadKey
<1>10. CASE Close
    BY <1>10, SMT DEF Close
<1>11. ASSUME \/ CheckMode \/ CloseNode \/ CheckRunning
              \/ \E t \in Threads : Listen(t) \/ Publish(t) \/ StopSSH(t) \/ CloseListener(t)
              \/ Flush \/ \E s \in Servers : WriteKey(s) \/ KeySaved(s) \/ KeyUnsaved(s)
       PROVE  UNCHANGED <<policy, conn, seen>>
    BY <1>11, Zenon
    DEF CheckMode, CloseNode, StopSSH, CloseListener, CheckRunning, Listen, Publish, Flush, WriteKey, KeySaved, KeyUnsaved
<1> QED
    BY <1>1, <1>2, <1>3, <1>5, <1>6, <1>7, <1>8, <1>9, <1>10, <1>11, Zenon DEF ServerNext, Manage, Connection

-----------------------------------------------------------------------------
(* The host key.                                                           *)

LEMMA KeyStep == ServerInv /\ ServerNext => KeyType' /\ KeyInv'
<1> SUFFICES ASSUME FileInv, ConnType, KeyType, KeyInv, ServerNext PROVE KeyType' /\ KeyInv'
    BY DEF ServerInv
<1> USE ServerAssumption, FileAssumption DEF FileInv, FileTypeOK, KeyType, KeyInv, Writing, At
<1>1. ASSUME NEW t \in Threads, Listen(t) PROVE KeyType' /\ KeyInv'
    <2>1. CASE listener = None /\ pc["close"] # "done"
        <3>1. PICK s \in Servers : /\ ~Writing(s)
                                   /\ once' = [once EXCEPT ![s] = "new"] /\ hostKey' = [hostKey EXCEPT ![s] = None]
            BY <1>1, <2>1, Zenon DEF Listen, Forgotten
        <3>2. UNCHANGED <<made, served, undone, fileVars>>
            BY <1>1, Zenon DEF Listen
        <3> QED BY <3>1, <3>2, SMT DEF fileVars
    <2>2. CASE ~(listener = None /\ pc["close"] # "done")
        <3>1. UNCHANGED <<once, hostKey, made, served, undone, fileVars>>
            BY <1>1, <2>2, Zenon DEF Listen
        <3> QED BY <3>1, SMT DEF fileVars
    <2> QED BY <2>1, <2>2
<1>2. ASSUME NEW c \in Conns, ReadKey(c) PROVE KeyType' /\ KeyInv'
    <2> DEFINE s == conn[c].srv
    <2>1. s \in Servers /\ once[s] = "new" /\ UNCHANGED <<served, undone>>
        BY <1>2, SMT DEF ReadKey, ConnType, Open
    <2> DEFINE k == CHOOSE k \in Values \ made : TRUE
    <2>2. CASE /\ text["path"] = NoFile /\ Values \ made # {} /\ made' = made \cup {k} /\ Begin(s)
               /\ hostKey' = [hostKey EXCEPT ![s] = k] /\ once' = [once EXCEPT ![s] = "running"]
        <3>1. k \in Values
            BY <2>2, Zenon
        <3> HIDE DEF k
        <3> QED BY <2>1, <2>2, <3>1, SMT DEF Begin
    <2>3. CASE text["path"] \in Values /\ hostKey' = [hostKey EXCEPT ![s] = text["path"]]
               /\ once' = [once EXCEPT ![s] = "ok"] /\ UNCHANGED <<made, fileVars>>
        BY <2>1, <2>3, SMT DEF fileVars
    <2>4. CASE once' = [once EXCEPT ![s] = "failed"] /\ UNCHANGED <<made, hostKey, fileVars>>
        BY <2>1, <2>4, SMT DEF fileVars
    <2> QED BY <1>2, <2>2, <2>3, <2>4, Zenon DEF ReadKey
<1>3. ASSUME NEW s \in Servers, WriteKey(s) PROVE KeyType' /\ KeyInv'
    <2>1. once[s] = "running" /\ UNCHANGED <<once, hostKey, made, served, undone>>
        BY <1>3, Zenon DEF WriteKey, hostKeys
    <2>2. CASE OpenTmp(s)
        BY <2>1, <2>2, SMT DEF OpenTmp, FileNames, Alone
    <2>3. CASE WriteTmp(s, hostKey[s])
        BY <2>1, <2>3, SMT DEF WriteTmp, FileNames, Alone
    <2>4. CASE SyncTmp(s)
        BY <2>1, <2>4, SMT DEF SyncTmp, FileNames
    <2> QED BY <1>3, <2>2, <2>3, <2>4, Zenon DEF WriteKey
<1>4. ASSUME NEW s \in Servers, KeySaved(s) PROVE KeyType' /\ KeyInv'
    BY <1>4, SMT DEF KeySaved, RenameTmp, FileNames, Alone
<1>5. ASSUME NEW s \in Servers, KeyUnsaved(s) PROVE KeyType' /\ KeyInv'
    BY <1>5, SMT DEF KeyUnsaved, GiveUp, FileNames, Alone
<1>6. CASE Flush
    BY <1>6, SMT DEF Flush, Settle, hostKeys
<1>7. ASSUME NEW c \in Conns, UseKey(c) PROVE KeyType' /\ KeyInv'
    <2>1. conn[c].srv \in Servers /\ UNCHANGED <<once, hostKey, made, undone, fileVars>>
        BY <1>7, SMT DEF UseKey, ConnType, Open
    <2>2. served' = served \/ (once[conn[c].srv] = "ok" /\ served' = served \cup {hostKey[conn[c].srv]})
        BY <1>7, SMT DEF UseKey
    <2> QED BY <2>1, <2>2, SMT DEF fileVars
<1>8. CASE RestartServer
    <2>1. /\ once' = [s \in Servers |-> "new"] /\ hostKey' = [s \in Servers |-> None]
          /\ UNCHANGED <<made, served, clash>> /\ at' = [w \in Writers |-> "idle"]
        BY <1>8, Zenon DEF RestartServer, PowerCut
    <2>2. undone' \in BOOLEAN /\ (~undone' => ~undone /\ text'["path"] = text["path"])
        BY <1>8, Zenon DEF RestartServer
    <2> QED BY <2>1, <2>2, SMT
<1>9. CASE UNCHANGED <<hostKeys, fileVars>>
    BY <1>9, SMT DEF hostKeys, fileVars
<1>10. ASSUME NEW c \in Conns, Accept(c) \/ WhoIs(c) \/ ReadMode(c) \/ ReadSelf(c) \/ Hangup(c)
       PROVE  UNCHANGED <<hostKeys, fileVars>>
    BY <1>10, Zenon DEF Accept, WhoIs, ReadMode, ReadSelf, Hangup, Handle
<1>11. ASSUME CheckMode \/ (\E m \in Modes : SetSSHMode(m)) \/ Close \/ CloseNode \/ CheckRunning
              \/ (\E t \in Threads : Publish(t) \/ StopSSH(t) \/ CloseListener(t)) \/ ChangeSelf
       PROVE  UNCHANGED <<hostKeys, fileVars>>
    BY <1>11, Zenon DEF CheckMode, SetSSHMode, Close, CloseNode, StopSSH, CloseListener, CheckRunning, Publish, ChangeSelf
<1> QED
    BY <1>1, <1>2, <1>3, <1>4, <1>5, <1>6, <1>7, <1>8, <1>9, <1>10, <1>11, Zenon
    DEF ServerNext, Manage, Connection

-----------------------------------------------------------------------------
(* The whole.                                                              *)

LEMMA ServerInitInv == ServerInit => ServerInv
<1> SUFFICES ASSUME ServerInit PROVE ServerInv
    OBVIOUS
<1> USE ServerAssumption DEF ServerInit, Threads, Modes, NoConn, NotSeen, Open
<1>1. FileInv
    BY FileInitInv, Zenon
<1>2. PolicyType
    BY SMT DEF PolicyType
<1>3. ListenType /\ ListenInv
    BY SMT DEF ListenType, ListenInv, AtStart
<1>4. ConnType /\ AdmitInv
    BY SMT DEF ConnType, AdmitInv
<1>5. KeyType /\ KeyInv
    <2>1. once = [s \in Servers |-> "new"] /\ hostKey = [s \in Servers |-> None] /\ made = {} /\ served = {}
          /\ at = [w \in Writers |-> "idle"] /\ undone \in BOOLEAN
        BY Zenon DEF FileInit
    <2> QED BY <2>1, SMT DEF KeyType, KeyInv, Writing
<1> QED BY <1>1, <1>2, <1>3, <1>4, <1>5 DEF ServerInv

LEMMA ServerStep == ServerInv /\ (ServerNext \/ UNCHANGED serverVars) => ServerInv'
<1>1. ServerInv /\ ServerNext => ServerInv'
    BY FileSteps, FileStep, ListenStep, PolicyStep, KeyStep DEF ServerInv
<1>2. ServerInv /\ UNCHANGED serverVars => ServerInv'
    <2> SUFFICES ASSUME ServerInv, UNCHANGED serverVars PROVE ServerInv'
        OBVIOUS
    <2>1. UNCHANGED fileVars /\ UNCHANGED policy /\ UNCHANGED listening /\ UNCHANGED hostKeys /\ UNCHANGED <<conn, seen>>
        BY Zenon DEF serverVars
    <2>2. FileInv'
        BY <2>1, FileStep DEF ServerInv
    <2>3. PolicyType' /\ ConnType' /\ AdmitInv'
        BY <2>1, SMT DEF ServerInv, policy, PolicyType, ConnType, AdmitInv, Open
    <2>4. ListenType' /\ ListenInv'
        BY <2>1, SMT DEF ServerInv, listening, ListenType, ListenInv, Threads
    <2>5. KeyType' /\ KeyInv'
        BY <2>1, SMT DEF ServerInv, hostKeys, fileVars, KeyType, KeyInv, Writing
    <2> QED BY <2>2, <2>3, <2>4, <2>5 DEF ServerInv
<1> QED BY <1>1, <1>2

LEMMA ServerSafe == ServerInv => ServerTypeOK /\ FileWhole /\ Admitted /\ Stoppable /\ KeyStable
<1> SUFFICES ASSUME ServerInv PROVE ServerTypeOK /\ FileWhole /\ Admitted /\ Stoppable /\ KeyStable
    OBVIOUS
<1>1. ServerTypeOK /\ FileWhole
    BY ServerTypes DEF ServerInv, FileInv
<1>2. Admitted
    BY SMT DEF ServerInv, AdmitInv, Admitted
<1>3. Stoppable
    BY SMT DEF ServerInv, ListenInv, ListenType, Stoppable, Settled, Threads
<1>4. KeyStable
    BY SMT DEF ServerInv, KeyInv, KeyStable
<1> QED BY <1>1, <1>2, <1>3, <1>4


-----------------------------------------------------------------------------
(* The session.                                                            *)

Started == {"wait", "closing", "drain", "exit", "unwind", "close", "release"}
Drained == {"exit", "unwind", "close", "release", "done"}

\* The console by the stage of the handler.
ConsoleStage ==
    /\ main \in {"idle", "outPipe", "console"} => hpc = "none"
    /\ main \in Started \cup {"process", "cleanup", "failed"} => hpc # "none"
    /\ main = "process" => hpc = "open"
    /\ main \in {"release", "failed"} => hpc = "closed"
    /\ main = "done" => hpc = "closed" \/ (hpc = "none" /\ proc = "none")
    /\ closer = "done" => hpc = "closed"
    /\ main \in Started => proc # "none"
    /\ main \in Started \cup {"process"} => "outRead" \in handles
    /\ main \in {"idle", "outPipe", "console", "process", "cleanup", "failed"} => proc = "none"
    /\ main \in {"idle", "done"} => handles = {}
    /\ closer # "off" <=> main \in Started \ {"wait"} \/ (main = "done" /\ proc # "none")

\* What has become of the output when no timer ran out.
OutputStage ==
    /\ client = "closed" => Exited
    /\ lost => client = "left" \/ cutoff
    /\ (reader = "done" /\ client # "left" /\ ~cutoff) => ~out /\ hpc = "closed"
    /\ (main \in {"drain"} \cup Drained /\ proc # "none" /\ ~cutoff) => closer = "done"
    /\ (main \in Drained /\ proc # "none" /\ ~cutoff) => reader = "done"

PtyInv == PtyTypeOK /\ ConsoleApart /\ ConsoleStage /\ OutputStage

\* Each step of a session keeps it.
LEMMA SessionStep ==
    ASSUME PtyInv, InPipe \/ PtyStep \/ (Leave /\ main # "idle")
    PROVE  PtyInv'
<1> USE PtyAssumption DEF PtyInv, PtyTypeOK, ConsoleApart, ConsoleStage, OutputStage, Started, Drained, Exited, Locked, Fail
<1>1. CASE InPipe
    BY <1>1, SMT DEF InPipe, Start, Inner
<1>2. CASE OutPipe
    <2>1. handles' \subseteq {"inRead", "inWrite", "outRead", "outWrite", "proc"}
        BY <1>2, Zenon DEF OutPipe, Start
    <2>2. CASE main' = "console"
        BY <1>2, <2>1, <2>2, SMT DEF OutPipe, Start
    <2>3. CASE main' = "done" /\ handles' = {}
        BY <1>2, <2>1, <2>3, SMT DEF OutPipe, Start
    <2> QED BY <1>2, <2>2, <2>3, Zenon DEF OutPipe, Start
<1>3. CASE CreateConsole
    BY <1>3, SMT DEF CreateConsole, Start, Inner
<1>4. CASE CreateProcess
    <2>1. CASE main' = "wait" /\ handles' = handles \cup {"proc"}
        <3>1. handles' \subseteq {"inRead", "inWrite", "outRead", "outWrite", "proc"}
            BY <2>1, Zenon
        <3> QED BY <1>4, <2>1, <3>1, SMT DEF CreateProcess
    <2>2. CASE main' = "cleanup" /\ hpc' = "closing" /\ UNCHANGED <<handles, proc, stdin, reader, resizer>>
        <3>1. main = "process" /\ UNCHANGED <<out, lost, closer, wins, client, cutoff>>
            BY <1>4, Zenon DEF CreateProcess
        <3> QED BY <2>2, <3>1, SMT
    <2> QED BY <1>4, <2>1, <2>2, Zenon DEF CreateProcess
<1>5. CASE CleanedUp
    BY <1>5, SMT DEF CleanedUp
<1>6. CASE Output
    BY <1>6, SMT DEF Output
<1>7. CASE ProcessEnds
    BY <1>7, SMT DEF ProcessEnds
<1>8. CASE WindowChange
    BY <1>8, SMT DEF WindowChange
<1>9. CASE Leave /\ main # "idle"
    BY <1>9, SMT DEF Leave
<1>10. CASE Copy
    <2>1. UNCHANGED <<main, handles, hpc, proc, stdin, resizer, closer, wins, client, cutoff>>
          /\ reader = "copy"
        BY <1>10, Zenon DEF Copy
    <2>2. CASE out /\ out' = FALSE /\ reader' = (IF client = "here" THEN "copy" ELSE "done")
               /\ lost' = (lost \/ client # "here")
        <3>1. lost' \in BOOLEAN
            BY <2>2, Zenon
        <3>2. lost' => lost \/ client # "here"
            BY <2>2, Zenon
        <3>3. out' = FALSE /\ (client = "here" => reader' = "copy") /\ (client # "here" => reader' = "done")
            BY <2>2, Zenon
        <3>4. ConsoleApart' /\ ConsoleStage'
            BY <2>1, SMT
        <3>6. reader' \in {"copy", "done"} /\ out' \in BOOLEAN
            BY <3>3, Zenon
        <3>7. PtyTypeOK'
            BY <2>1, <3>1, <3>6, SMT
        <3>5. OutputStage'
            <4>1. (client' = "closed" => Exited') /\ (lost' => client' = "left" \/ cutoff')
                BY <2>1, <3>2, SMT
            <4>2. (reader' = "done" /\ client' # "left" /\ ~cutoff') => ~out' /\ hpc' = "closed"
                BY <2>1, <3>3, SMT
            <4> QED BY <2>1, <3>3, <4>1, <4>2, SMT
        <3> QED BY <3>4, <3>5, <3>7
    <2>3. CASE ((~out /\ hpc = "closed") \/ "outRead" \notin handles) /\ reader' = "done" /\ UNCHANGED <<out, lost>>
        BY <2>1, <2>3, SMT
    <2> QED BY <1>10, <2>2, <2>3, Zenon DEF Copy
<1>11. CASE Resize
    BY <1>11, SMT DEF Resize
<1>12. CASE Resized
    BY <1>12, SMT DEF Resized
<1>13. CASE CloserLocks
    BY <1>13, SMT DEF CloserLocks
<1>14. CASE ConsoleClosed
    BY <1>14, SMT DEF ConsoleClosed
<1>15. CASE EndWait
    BY <1>15, SMT DEF EndWait
<1>16. CASE CopyInput
    BY <1>16, SMT DEF CopyInput
<1>17. CASE AwaitClosed
    <2>1. cutoff' \in BOOLEAN /\ (~cutoff' => ~cutoff /\ closer = "done") /\ (cutoff => cutoff')
        BY <1>17, Zenon DEF AwaitClosed, Await
    <2>2. main = "closing" /\ main' = "drain"
          /\ UNCHANGED <<handles, hpc, proc, out, lost, stdin, reader, resizer, closer, wins, client>>
        BY <1>17, Zenon DEF AwaitClosed, Await
    <2> QED BY <2>1, <2>2, SMT
<1>18. CASE AwaitOutput
    <2>1. cutoff' \in BOOLEAN /\ (~cutoff' => ~cutoff /\ reader = "done") /\ (cutoff => cutoff')
        BY <1>18, Zenon DEF AwaitOutput, Await
    <2>2. main = "drain" /\ main' = "exit"
          /\ UNCHANGED <<handles, hpc, proc, out, lost, stdin, reader, resizer, closer, wins, client>>
        BY <1>18, Zenon DEF AwaitOutput, Await
    <2> QED BY <2>1, <2>2, SMT
<1>19. CASE Exit
    BY <1>19, SMT DEF Exit
<1>20. CASE Unwind
    BY <1>20, SMT DEF Unwind
<1>21. CASE Release
    BY <1>21, SMT DEF Release
<1> QED
    BY <1>1, <1>2, <1>3, <1>4, <1>5, <1>6, <1>7, <1>8, <1>9, <1>10, <1>11, <1>12, <1>13, <1>14, <1>15, <1>16, <1>17, <1>18, <1>19, <1>20, <1>21
    DEF PtyStep, Handler, WaitExitCode, WaitFails

LEMMA SessionInv == Spec => []PtyInv
<1>1. Init => PtyInv
    <2> SUFFICES ASSUME Init PROVE PtyInv
        OBVIOUS
    <2>1. out \in BOOLEAN /\ lost \in BOOLEAN /\ cutoff \in BOOLEAN /\ ~out /\ ~lost /\ ~cutoff
        BY Zenon DEF Init, PtyInit
    <2>2. /\ main = "idle" /\ handles = {} /\ hpc = "none" /\ proc = "none"
          /\ stdin = "off" /\ reader = "off" /\ resizer = "off" /\ closer = "off" /\ wins = 0 /\ client = "here"
        BY Zenon DEF Init, PtyInit
    <2> QED
        BY <2>1, <2>2, PtyAssumption, SMT
        DEF PtyInv, PtyTypeOK, ConsoleApart, ConsoleStage, OutputStage, Started, Drained, Exited
<1>2. PtyInv /\ [Next]_vars => PtyInv'
    <2> SUFFICES ASSUME PtyInv, [Next]_vars PROVE PtyInv'
        OBVIOUS
    <2>1. CASE UNCHANGED ptyVars
        BY <2>1, SMT DEF ptyVars, PtyInv, PtyTypeOK, ConsoleApart, ConsoleStage, OutputStage, Started, Drained, Exited
    <2>2. CASE Restart
        <3>1. out' \in BOOLEAN /\ lost' \in BOOLEAN /\ cutoff' \in BOOLEAN /\ ~out' /\ ~lost' /\ ~cutoff'
            BY <2>2, Zenon DEF Restart
        <3>2. /\ main' = "idle" /\ handles' = {} /\ hpc' = "none" /\ proc' = "none"
              /\ stdin' = "off" /\ reader' = "off" /\ resizer' = "off" /\ closer' = "off" /\ wins' = 0 /\ client' = "here"
            BY <2>2, Zenon DEF Restart
        <3> QED
            BY <3>1, <3>2, PtyAssumption, SMT
            DEF PtyInv, PtyTypeOK, ConsoleApart, ConsoleStage, OutputStage, Started, Drained, Exited
    <2>3. CASE OpenSession
        BY <2>3, SessionStep DEF OpenSession
    <2>4. CASE PtyStep
        BY <2>4, SessionStep
    <2>5. ASSUME NEW c \in Conns, HangupPeer(c) PROVE PtyInv'
        BY <2>1, <2>5, SessionStep DEF HangupPeer
    <2> QED BY <2>1, <2>2, <2>3, <2>4, <2>5 DEF Next, vars
<1> QED BY <1>1, <1>2, PTL DEF Spec

\* Resizing and closing never meet, though three goroutines use the console,
\* both waits may time out and the wait for the process may fail.
THEOREM ConsoleStaysApart == Spec => []ConsoleApart
<1>1. PtyInv => ConsoleApart
    BY DEF PtyInv
<1> QED BY SessionInv, <1>1, PTL

\* The exit follows all the output, unless a timer fired or the client left.
THEOREM OutputPrecedesExit == Spec => []OutputBeforeExit
<1>1. PtyInv => OutputBeforeExit
    BY SMT DEF PtyInv, PtyTypeOK, ConsoleStage, OutputStage, OutputBeforeExit, Exited, Started, Drained
<1> QED BY SessionInv, <1>1, PTL

\* The handler returns with every handle and the console closed, whichever
\* step of the start has failed.
THEOREM AllReleased == Spec => []Released
<1>1. PtyInv => Released
    BY SMT DEF PtyInv, ConsoleStage, Released
<1> QED BY SessionInv, <1>1, PTL

-----------------------------------------------------------------------------
(* The server.                                                             *)

LEMMA ServerSteps == [Next]_vars => ServerNext \/ UNCHANGED serverVars
BY Zenon DEF Next, OpenSession, HangupPeer, Restart, ServerNext, vars

LEMMA ServerInvariant == Spec => []ServerInv
<1>1. Init => ServerInv
    BY ServerInitInv DEF Init
<1>2. ServerInv /\ [Next]_vars => ServerInv'
    BY ServerSteps, ServerStep
<1> QED BY <1>1, <1>2, PTL DEF Spec

\* Types: a thread that is about to publish a server has one, a connection
\* has its server, a server that is ready its key, and the goroutines of a
\* session run only beside a process.
THEOREM TypeCorrect == Spec => []TypeOK
<1>1. ServerInv /\ PtyInv => TypeOK
    BY ServerTypes DEF PtyInv, TypeOK
<1> QED BY ServerInvariant, SessionInv, <1>1, PTL

\* Nobody is admitted whom the policy has not allowed since the connection
\* was accepted, however the choices and logins change meanwhile.
THEOREM OnlyTheAdmitted == Spec => []Admitted
BY ServerInvariant, ServerSafe, PTL

\* Whatever starts and choices race with each other and with Close, the
\* listener left open is the one that Off will close, and Close leaves none.
THEOREM AlwaysStoppable == Spec => []Stoppable
BY ServerInvariant, ServerSafe, PTL

\* Peers see one host key, which is the one in the file, across servers,
\* restarts, failed writes and power cuts.
THEOREM OneHostKey == Spec => []KeyStable
BY ServerInvariant, ServerSafe, PTL

\* What the server does to its host key file is writeFileAtomic, so that
\* what holds of every AtomicFile holds of it.
THEOREM KeyFileIsAtomic == Spec => FileSpec
<1>1. Init => FileInit
    BY DEF Init, ServerInit
<1>2. ServerInv /\ [Next]_vars => [FileNext]_fileVars
    <2>1. UNCHANGED serverVars => UNCHANGED fileVars
        BY Zenon DEF serverVars
    <2> QED BY ServerSteps, FileSteps, <2>1
<1> QED BY ServerInvariant, <1>1, <1>2, PTL DEF Spec, FileSpec

\* The host key file is whole while no two servers write it at once.
THEOREM KeyFileWhole == Spec => []FileWhole
BY KeyFileIsAtomic, FileStaysWhole, PTL
=============================================================================
