----------------------------- MODULE SshServer -----------------------------
(***************************************************************************)
(* The SSH server of a Backend: who starts and stops it, whom it admits    *)
(* and under which host key.  Start and Close run in goroutines of their   *)
(* own, SetSSHMode on the UI goroutine; each connection has a goroutine,   *)
(* which reads the mode and the node's login as they are then.  The host   *)
(* key is written by AtomicFile, at most once for each server object.      *)
(***************************************************************************)
EXTENDS AtomicFile

CONSTANTS
    Servers,        \* sshServer objects, reused once forgotten
    Conns, Logins,
    None,           \* nil, no server, no key
    NoLogin,        \* not logged in, no status yet, a tagged peer
    MaxEvents       \* bound: choices of a mode, changes of login, Close and crashes

ASSUME ServerAssumption ==
    /\ Writers = Servers
    /\ None \notin Servers /\ None \notin Values /\ NoLogin \notin Logins
    /\ MaxEvents \in Nat

VARIABLES
    mode,       \* Config.SSHMode
    sshSrv,     \* Backend.sshSrv
    listener,   \* the server whose listener is open; tsnet allows one
    pc, mine,   \* startSSH and stopSSH of the goroutines, and their s
    once,       \* hostKeyOnce of each server: new, running, ok or failed
    hostKey,
    self,       \* the node's login in the status
    conn,       \* each connection
    seen,       \* ghost: the modes and logins there were since it was accepted
    made,       \* ghost: the keys that were generated
    served,     \* ghost: the keys that peers were shown
    undone,     \* ghost: a crash has undone a rename
    events

policy == <<mode, self, events>>
listening == <<sshSrv, listener, pc, mine>>
hostKeys == <<once, hostKey, made, served, undone>>
serverVars == <<policy, listening, hostKeys, conn, seen, fileVars>>

Modes == {"off", "same-user", "all-users"}
Threads == {"start", "ui", "close"}
AtStart == [start |-> "check", ui |-> "done", close |-> "up"]
Settled == \A t \in Threads : pc[t] \in {"done", "up"}
NoConn == [at |-> "none", srv |-> None, peer |-> NoLogin]
NotSeen == [modes |-> {}, selves |-> {}]
Goto(t, l) == pc' = [pc EXCEPT ![t] = l]
Move(c, l) == conn' = [conn EXCEPT ![c] = IF l = "none" THEN NoConn ELSE [@ EXCEPT !.at = l]]
Open(c) == conn[c].at # "none"
Event == events < MaxEvents /\ events' = events + 1

-----------------------------------------------------------------------------
(* Starting and stopping.                                                  *)

\* Start of the Backend: the mode is off, or the server is started.
CheckMode ==
    /\ pc["start"] = "check"
    /\ Goto("start", IF mode = "off" THEN "done" ELSE "listen")
    /\ UNCHANGED <<policy, sshSrv, listener, mine, hostKeys, conn, seen, fileVars>>

\* SetSSHMode of the Backend in use, as far as the configuration.
SetSSHMode(m) ==
    /\ pc["ui"] = "done" /\ pc["close"] = "up" /\ m # mode /\ Event
    /\ mode' = m
    /\ seen' = [c \in Conns |-> IF Open(c) THEN [seen[c] EXCEPT !.modes = @ \cup {m}] ELSE seen[c]]
    /\ Goto("ui", IF m = "off" THEN "stop" ELSE "running")
    /\ UNCHANGED <<self, sshSrv, listener, mine, hostKeys, conn, fileVars>>

\* Close begins: the App has let go of the Backend.
Close ==
    /\ pc["close"] = "up" /\ Event
    /\ Goto("close", "stop")
    /\ UNCHANGED <<mode, self, sshSrv, listener, mine, hostKeys, conn, seen, fileVars>>

\* Mutant: sshSrv is kept.
StopSSHKeeps(t) ==
    /\ pc[t] = "stop"
    /\ mine' = [mine EXCEPT ![t] = sshSrv]
    /\ Goto(t, "stopped")
    /\ UNCHANGED <<policy, sshSrv, listener, hostKeys, conn, seen, fileVars>>

\* stopSSH takes the server under the lock,
StopSSH(t) ==
    /\ pc[t] = "stop"
    /\ mine' = [mine EXCEPT ![t] = sshSrv] /\ sshSrv' = None
    /\ Goto(t, "stopped")
    /\ UNCHANGED <<policy, listener, hostKeys, conn, seen, fileVars>>

\* and then closes its listener.  Connections that were accepted go on.
CloseListener(t) ==
    /\ pc[t] = "stopped"
    /\ listener' = IF listener = mine[t] THEN None ELSE listener
    /\ mine' = [mine EXCEPT ![t] = None]
    /\ Goto(t, IF t = "close" THEN "node" ELSE "done")
    /\ UNCHANGED <<policy, sshSrv, hostKeys, conn, seen, fileVars>>

\* The node goes, with any listener that it has.
CloseNode ==
    /\ pc["close"] = "node"
    /\ listener' = None
    /\ Goto("close", "done")
    /\ UNCHANGED <<policy, sshSrv, mine, hostKeys, conn, seen, fileVars>>

CheckRunning ==
    /\ pc["ui"] = "running"
    /\ Goto("ui", IF sshSrv = None THEN "listen" ELSE "done")
    /\ UNCHANGED <<policy, sshSrv, listener, mine, hostKeys, conn, seen, fileVars>>

Forgotten(s) ==
    /\ s \notin {sshSrv, listener} /\ ~Writing(s)
    /\ \A t \in Threads : mine[t] # s
    /\ \A c \in Conns : conn[c].srv # s

\* startSSH: tsnet refuses a second listener; one on a node that is closed
\* counts as refused, since nobody reaches it.
Listen(t) ==
    /\ pc[t] = "listen"
    /\ IF listener = None /\ pc["close"] # "done"
       THEN LET s == CHOOSE s \in Servers : Forgotten(s) IN
            /\ \E free \in Servers : Forgotten(free)
            /\ listener' = s
            /\ mine' = [mine EXCEPT ![t] = s]
            /\ once' = [once EXCEPT ![s] = "new"] /\ hostKey' = [hostKey EXCEPT ![s] = None]
            /\ Goto(t, "publish")
       ELSE Goto(t, "done") /\ UNCHANGED <<listener, mine, once, hostKey>>
    /\ UNCHANGED <<policy, sshSrv, made, served, undone, conn, seen, fileVars>>

Publish(t) ==
    /\ pc[t] = "publish"
    /\ sshSrv' = mine[t]
    /\ mine' = [mine EXCEPT ![t] = None]
    /\ Goto(t, "done")
    /\ UNCHANGED <<policy, listener, hostKeys, conn, seen, fileVars>>

\* The node logs in, out, or in as another user.
ChangeSelf ==
    /\ Event
    /\ self' \in (Logins \cup {NoLogin}) \ {self}
    /\ seen' = [c \in Conns |-> IF Open(c) THEN [seen[c] EXCEPT !.selves = @ \cup {self'}] ELSE seen[c]]
    /\ UNCHANGED <<mode, listening, hostKeys, conn, fileVars>>

-----------------------------------------------------------------------------
(* handleConn.                                                             *)

Accept(c) ==
    /\ ~Open(c) /\ listener # None
    /\ \A t \in Threads : pc[t] = "publish" => mine[t] # listener
    /\ \E peer \in Logins \cup {NoLogin} :
         conn' = [conn EXCEPT ![c] = [at |-> "whois", srv |-> listener, peer |-> peer]]
    /\ seen' = [seen EXCEPT ![c] = [modes |-> {mode}, selves |-> {self}]]
    /\ UNCHANGED <<policy, listening, hostKeys, fileVars>>

\* A step of c's goroutine to one of the places in next; "none" closes c.
Handle(c, from, next) ==
    /\ conn[c].at = from
    /\ \E l \in next : /\ Move(c, l)
                       /\ seen' = [seen EXCEPT ![c] = IF l = "none" THEN NotSeen ELSE @]
    /\ UNCHANGED <<policy, listening, hostKeys, fileVars>>

\* The answer may take too long.
WhoIs(c) == Handle(c, "whois", {"mode", "none"})

ReadMode(c) ==
    Handle(c, "mode", CASE mode = "all-users" -> {"key"}
                        [] mode = "same-user" -> {"self"}
                        [] OTHER -> {"none"})

\* Mutant: two unknown logins are the same.
SelfMatchesAny(c) == conn[c].peer = self
SelfMatches(c) == self # NoLogin /\ conn[c].peer # NoLogin /\ conn[c].peer = self

ReadSelf(c) == Handle(c, "self", IF SelfMatches(c) THEN {"key"} ELSE {"none"})

\* getHostKey, under hostKeyOnce: the file is read; if there is none a key
\* is made and saved.
ReadKey(c) ==
    LET s == conn[c].srv IN
    /\ conn[c].at = "key" /\ once[s] = "new"
    /\ \/ /\ text["path"] = NoFile /\ Values \ made # {}
          /\ LET k == CHOOSE k \in Values \ made : TRUE IN
             made' = made \cup {k} /\ hostKey' = [hostKey EXCEPT ![s] = k]
          /\ Begin(s)
          /\ once' = [once EXCEPT ![s] = "running"]
       \/ /\ text["path"] \in Values
          /\ hostKey' = [hostKey EXCEPT ![s] = text["path"]]
          /\ once' = [once EXCEPT ![s] = "ok"]
          /\ UNCHANGED <<made, fileVars>>
       \/ /\ text["path"] \in {Empty, Torn} \/ WriteFaults
          /\ once' = [once EXCEPT ![s] = "failed"]
          /\ UNCHANGED <<made, hostKey, fileVars>>
    /\ UNCHANGED <<policy, listening, served, undone, conn, seen>>

WriteKey(s) ==
    /\ once[s] = "running"
    /\ OpenTmp(s) \/ WriteTmp(s, hostKey[s]) \/ SyncTmp(s)
    /\ UNCHANGED <<policy, listening, hostKeys, conn, seen>>

KeySaved(s) ==
    /\ once[s] = "running" /\ RenameTmp(s)
    /\ once' = [once EXCEPT ![s] = "ok"]
    /\ UNCHANGED <<policy, listening, hostKey, made, served, undone, conn, seen>>

\* Mutant: a key that could not be saved is used.
KeyUnsavedUsed(s) ==
    /\ once[s] = "running" /\ GiveUp(s)
    /\ once' = [once EXCEPT ![s] = "ok"]
    /\ UNCHANGED <<policy, listening, hostKey, made, served, undone, conn, seen>>

KeyUnsaved(s) ==
    /\ once[s] = "running" /\ GiveUp(s)
    /\ once' = [once EXCEPT ![s] = "failed"]
    /\ UNCHANGED <<policy, listening, hostKey, made, served, undone, conn, seen>>

Flush == Settle /\ UNCHANGED <<policy, listening, hostKeys, conn, seen>>

\* The error of a failed attempt stays for as long as the server.
UseKey(c) ==
    LET s == conn[c].srv IN
    /\ conn[c].at = "key" /\ once[s] \in {"ok", "failed"}
    /\ Move(c, IF once[s] = "ok" THEN "serve" ELSE "none")
    /\ seen' = [seen EXCEPT ![c] = IF once[s] = "ok" THEN @ ELSE NotSeen]
    /\ served' = served \cup (IF once[s] = "ok" THEN {hostKey[s]} ELSE {})
    /\ UNCHANGED <<policy, listening, once, hostKey, made, undone, fileVars>>

Hangup(c) == Handle(c, "serve", {"none"})

\* The process or the machine stops, and the profile is started again.
RestartServer ==
    /\ Event /\ PowerCut
    /\ undone' = (undone \/ text'["path"] # text["path"])
    /\ self' = NoLogin /\ sshSrv' = None /\ listener' = None
    /\ pc' = AtStart /\ mine' = [t \in Threads |-> None]
    /\ once' = [s \in Servers |-> "new"] /\ hostKey' = [s \in Servers |-> None]
    /\ conn' = [c \in Conns |-> NoConn] /\ seen' = [c \in Conns |-> NotSeen]
    /\ UNCHANGED <<mode, made, served>>

ServerInit ==
    /\ FileInit /\ text["path"] = NoFile
    /\ mode \in Modes /\ self = NoLogin /\ events = 0
    /\ sshSrv = None /\ listener = None
    /\ pc = AtStart /\ mine = [t \in Threads |-> None]
    /\ once = [s \in Servers |-> "new"] /\ hostKey = [s \in Servers |-> None]
    /\ conn = [c \in Conns |-> NoConn] /\ seen = [c \in Conns |-> NotSeen]
    /\ made = {} /\ served = {} /\ undone = FALSE

\* What goes on beside the connections.
Manage ==
    \/ CheckMode \/ \E m \in Modes : SetSSHMode(m)
    \/ Close \/ CloseNode \/ CheckRunning
    \/ \E t \in Threads : Listen(t) \/ Publish(t) \/ StopSSH(t) \/ CloseListener(t)
    \/ ChangeSelf \/ Flush \/ \E s \in Servers : WriteKey(s) \/ KeySaved(s) \/ KeyUnsaved(s)

Connection(c) == Accept(c) \/ WhoIs(c) \/ ReadMode(c) \/ ReadSelf(c) \/ ReadKey(c) \/ UseKey(c)

-----------------------------------------------------------------------------
(* Properties.                                                             *)

\* Types; a goroutine that is about to publish a server has it, only one
\* that publishes or closes has any, and a connection has its server.
ServerTypeOK ==
    /\ FileTypeOK
    /\ mode \in Modes /\ self \in Logins \cup {NoLogin} /\ events \in 0 .. MaxEvents
    /\ sshSrv \in Servers \cup {None} /\ listener \in Servers \cup {None}
    /\ pc \in [Threads -> {"check", "stop", "stopped", "running", "listen", "publish", "up", "node", "done"}]
    /\ mine \in [Threads -> Servers \cup {None}]
    /\ \A t \in Threads : /\ pc[t] = "publish" => mine[t] # None
                          /\ mine[t] # None => pc[t] \in {"publish", "stopped"}
    /\ once \in [Servers -> {"new", "running", "ok", "failed"}]
    /\ hostKey \in [Servers -> Values \cup {None}]
    /\ \A s \in Servers : /\ once[s] = "running" <=> Writing(s)
                          /\ once[s] \in {"running", "ok"} => hostKey[s] # None
    /\ conn \in [Conns -> [at : {"none", "whois", "mode", "self", "key", "serve"},
                           srv : Servers \cup {None}, peer : Logins \cup {NoLogin}]]
    /\ \A c \in Conns : Open(c) => conn[c].srv # None
    /\ seen \in [Conns -> [modes : SUBSET Modes, selves : SUBSET (Logins \cup {NoLogin})]]
    /\ made \subseteq Values /\ served \subseteq Values /\ undone \in BOOLEAN

\* Nobody gets in whom the policy has not allowed since the connection was
\* accepted: all users, or a peer with a login that was then the node's.
Admitted ==
    \A c \in Conns : conn[c].at = "serve" =>
        \/ "all-users" \in seen[c].modes
        \/ /\ "same-user" \in seen[c].modes
           /\ conn[c].peer # NoLogin /\ conn[c].peer \in seen[c].selves

\* However the start, the choices of a mode and Close race, a listener that
\* is open when they are over is the one that choosing Off will close, and
\* after Close there is none.
Stoppable ==
    Settled => listener = IF pc["close"] = "up" THEN sshSrv ELSE None

\* The host key is stable: across servers, restarts, failed calls and power
\* cuts peers see one key, unless two servers made one at the same time or
\* a crash took back the file.
KeyStable ==
    (~clash /\ ~undone) =>
        /\ \A k, l \in served : k = l
        /\ \A k \in served : text["path"] = k
=============================================================================
