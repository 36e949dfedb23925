-------------------------------- MODULE Ssh --------------------------------
(***************************************************************************)
(* The SSH server with one session watched from its process to its end: a  *)
(* session of the connection Watched.                                      *)
(***************************************************************************)
EXTENDS SshServer, PtySession

CONSTANT Watched
ASSUME WatchedAssumption == Watched \in Conns

vars == <<serverVars, ptyVars>>

Init == ServerInit /\ PtyInit

\* Bound: a session shares nothing with the server but its connection, so
\* it is watched beside a server at rest, which has been switched off.
AtRest ==
    /\ events = MaxEvents /\ listener = None /\ Settled /\ pc["close"] = "up"
    /\ \A c \in Conns \ {Watched} : ~Open(c)
    /\ old = {} /\ \A s \in Servers : ~Writing(s)

\* sessionHandler of a client that asks for a terminal.
OpenSession == conn[Watched].at = "serve" /\ AtRest /\ InPipe /\ UNCHANGED serverVars

\* The peer goes, or closes the connection; a running session goes on.
HangupPeer(c) ==
    /\ Hangup(c)
    /\ IF c = Watched /\ client = "here" /\ main # "idle" THEN Leave ELSE UNCHANGED ptyVars

Restart ==
    /\ RestartServer
    /\ main' = "idle" /\ handles' = {} /\ hpc' = "none" /\ proc' = "none"
    /\ out' = FALSE /\ lost' = FALSE
    /\ stdin' = "off" /\ reader' = "off" /\ resizer' = "off" /\ closer' = "off"
    /\ wins' = 0 /\ client' = "here" /\ cutoff' = FALSE

Next ==
    \/ (Manage \/ \E c \in Conns : Connection(c)) /\ UNCHANGED ptyVars
    \/ OpenSession
    \/ PtyStep /\ UNCHANGED serverVars
    \/ \E c \in Conns : HangupPeer(c)
    \/ Restart

Spec == Init /\ [][Next]_vars

\* The handler goes on, its timers fire, a resize returns, and so do the
\* goroutines once both the channel and the console are closed.  The process,
\* the client, the copy of the output and ClosePseudoConsole may take for ever.
Fairness ==
    /\ WF_vars(Handler /\ UNCHANGED serverVars)
    /\ WF_vars((Resize \/ Resized) /\ UNCHANGED serverVars)
    /\ WF_vars(Leftover /\ UNCHANGED serverVars)

FairSpec == Spec /\ Fairness

\* Types: a thread that is about to publish a server has it, a connection
\* has its server, and the goroutines of a session run only beside a process.
TypeOK == ServerTypeOK /\ PtyTypeOK
=============================================================================
