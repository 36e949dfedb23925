----------------------------- MODULE PtySession -----------------------------
(***************************************************************************)
(* runWithPTY: one process on a Windows pseudoconsole.  The handler waits  *)
(* for the process, lets a goroutine close the console, waits for the end  *)
(* of the output, and exits; timers bound both waits.  Resizing, closing   *)
(* and the handler's deferred Close share the mutex of the conPTY.  The    *)
(* exit code is left out, and so is what tells an error of the wait from   *)
(* the end of the process: the handler goes the same way after both.       *)
(***************************************************************************)
EXTENDS Naturals

CONSTANT MaxWins        \* bound: window changes not yet applied
ASSUME PtyAssumption == MaxWins \in Nat

VARIABLES
    main,       \* runWithPTY
    handles,    \* pipe ends and process handle that are open
    hpc,        \* the pseudoconsole
    proc,       \* the process
    out,        \* output waits in the pipe
    lost,       \* ghost: output was read and could not be delivered
    stdin, reader, resizer, closer,     \* goroutines
    wins,       \* window changes in winCh
    client,     \* here, left, or closed by Exit
    cutoff      \* ghost: a timer has fired

ptyVars == <<main, handles, hpc, proc, out, lost, stdin, reader, resizer, closer, wins, client, cutoff>>

PtyInit ==
    /\ main = "idle" /\ handles = {} /\ hpc = "none" /\ proc = "none"
    /\ out = FALSE /\ lost = FALSE
    /\ stdin = "off" /\ reader = "off" /\ resizer = "off" /\ closer = "off"
    /\ wins = 0 /\ client = "here" /\ cutoff = FALSE

\* c.mu is held.
Locked == resizer = "resize" \/ closer = "close" \/ main = "close"
Exited == main \in {"unwind", "close", "release", "done"}
Inner == {"inWrite", "outRead"}

-----------------------------------------------------------------------------
(* startConPTY.                                                            *)

\* The error of a failed start, with which the session exits; the handles
\* in left are still open.
Fail(left) ==
    /\ main' = "done" /\ handles' = left
    /\ client' = IF client = "here" THEN "closed" ELSE client

\* A step of the start: on to next with the handles in open, or an error.
Start(at, next, open, left) ==
    /\ main = at
    /\ \/ main' = next /\ handles' = open /\ UNCHANGED client
       \/ Fail(left)

InPipe ==
    /\ Start("idle", "outPipe", {"inRead", "inWrite"}, {})
    /\ UNCHANGED <<hpc, proc, out, lost, stdin, reader, resizer, closer, wins, cutoff>>

OutPipe ==
    /\ Start("outPipe", "console", handles \cup {"outRead", "outWrite"}, {})
    /\ UNCHANGED <<hpc, proc, out, lost, stdin, reader, resizer, closer, wins, cutoff>>

\* Mutant: a failure leaves our ends open.
CreateConsoleLeaks ==
    /\ Start("console", "process", Inner, Inner)
    /\ hpc' = IF main' = "process" THEN "open" ELSE hpc
    /\ UNCHANGED <<proc, out, lost, stdin, reader, resizer, closer, wins, cutoff>>

\* The console has handles of its own; two are closed either way.
CreateConsole ==
    /\ Start("console", "process", Inner, {})
    /\ hpc' = IF main' = "process" THEN "open" ELSE hpc
    /\ UNCHANGED <<proc, out, lost, stdin, reader, resizer, closer, wins, cutoff>>

\* The attributes, the command line, the environment and CreateProcess; an
\* error of any of them runs cleanup, which closes the console with no timer.
\* Then runWithPTY starts its goroutines.
CreateProcess ==
    /\ main = "process"
    /\ \/ /\ main' = "wait" /\ handles' = handles \cup {"proc"} /\ proc' = "runs"
          /\ stdin' = "copy" /\ reader' = "copy" /\ resizer' = "ready"
          /\ UNCHANGED hpc
       \/ /\ main' = "cleanup" /\ hpc' = "closing"
          /\ UNCHANGED <<handles, proc, stdin, reader, resizer>>
    /\ UNCHANGED <<out, lost, closer, wins, client, cutoff>>

CleanedUp ==
    /\ main = "failed" /\ Fail({})
    /\ UNCHANGED <<hpc, proc, out, lost, stdin, reader, resizer, closer, wins, cutoff>>

-----------------------------------------------------------------------------
(* The world.                                                              *)

\* The process, or the console by itself until it is closed, fills the pipe.
Output ==
    /\ hpc \in {"open", "closing"} /\ ~out
    /\ out' = TRUE
    /\ UNCHANGED <<main, handles, hpc, proc, lost, stdin, reader, resizer, closer, wins, client, cutoff>>

ProcessEnds ==
    /\ proc = "runs" /\ proc' = "ended"
    /\ UNCHANGED <<main, handles, hpc, out, lost, stdin, reader, resizer, closer, wins, client, cutoff>>

WindowChange ==
    /\ client = "here" /\ resizer \in {"ready", "resize"} /\ wins < MaxWins
    /\ wins' = wins + 1
    /\ UNCHANGED <<main, handles, hpc, proc, out, lost, stdin, reader, resizer, closer, client, cutoff>>

Leave ==
    /\ client = "here" /\ client' = "left"
    /\ UNCHANGED <<main, handles, hpc, proc, out, lost, stdin, reader, resizer, closer, wins, cutoff>>

-----------------------------------------------------------------------------
(* The goroutines beside the handler.                                      *)

\* The input ends: with the session, when the client ends it, or because
\* nobody reads the pipe any more.
CopyInput ==
    /\ stdin = "copy" /\ stdin' = "done"
    /\ UNCHANGED <<main, handles, hpc, proc, out, lost, reader, resizer, closer, wins, client, cutoff>>

\* io.Copy ends when the channel takes no more, at the end of the output,
\* which is when the console is closed, or when the pipe is closed.
Copy ==
    /\ reader = "copy"
    /\ \/ /\ out /\ "outRead" \in handles
          /\ out' = FALSE
          /\ reader' = IF client = "here" THEN "copy" ELSE "done"
          /\ lost' = (lost \/ client # "here")
       \/ /\ (~out /\ hpc = "closed") \/ "outRead" \notin handles
          /\ reader' = "done"
          /\ UNCHANGED <<out, lost>>
    /\ UNCHANGED <<main, handles, hpc, proc, stdin, resizer, closer, wins, client, cutoff>>

\* Mutant: the mutex is not taken.
ResizeUnlocked ==
    /\ resizer = "ready" /\ wins > 0
    /\ wins' = wins - 1
    /\ resizer' = IF hpc = "closed" THEN "ready" ELSE "resize"
    /\ UNCHANGED <<main, handles, hpc, proc, out, lost, stdin, reader, closer, client, cutoff>>

Resize ==
    /\ resizer = "ready" /\ wins > 0 /\ ~Locked
    /\ wins' = wins - 1
    /\ resizer' = IF hpc = "closed" THEN "ready" ELSE "resize"
    /\ UNCHANGED <<main, handles, hpc, proc, out, lost, stdin, reader, closer, client, cutoff>>

\* ResizePseudoConsole returns; or winCh is closed and empty.
Resized ==
    /\ \/ resizer = "resize" /\ resizer' = "ready"
       \/ resizer = "ready" /\ wins = 0 /\ client # "here" /\ resizer' = "done"
    /\ UNCHANGED <<main, handles, hpc, proc, out, lost, stdin, reader, closer, wins, client, cutoff>>

CloserLocks ==
    /\ closer = "lock" /\ ~Locked
    /\ IF hpc = "open" THEN closer' = "close" /\ hpc' = "closing"
       ELSE closer' = "done" /\ UNCHANGED hpc
    /\ UNCHANGED <<main, handles, proc, out, lost, stdin, reader, resizer, wins, client, cutoff>>

\* ClosePseudoConsole returns, to the goroutine, to the handler or to the
\* start that has failed.
ConsoleClosed ==
    /\ hpc = "closing" /\ hpc' = "closed"
    /\ closer' = IF closer = "close" THEN "done" ELSE closer
    /\ main' = CASE main = "close" -> "release" [] main = "cleanup" -> "failed" [] OTHER -> main
    /\ UNCHANGED <<handles, proc, out, lost, stdin, reader, resizer, wins, client, cutoff>>

-----------------------------------------------------------------------------
(* The handler.                                                            *)

\* Closing the console begins.
EndWait ==
    /\ main = "wait"
    /\ main' = "closing" /\ closer' = "lock"
    /\ UNCHANGED <<handles, hpc, proc, out, lost, stdin, reader, resizer, wins, client, cutoff>>

WaitExitCode == proc = "ended" /\ EndWait

\* Waiting, or asking for the exit code, fails: the process may still run.
WaitFails == EndWait

\* Mutant: no timer.
AwaitForever(at, done, next) ==
    /\ main = at /\ main' = next
    /\ done /\ UNCHANGED cutoff

\* A wait that its timer may end.
Await(at, done, next) ==
    /\ main = at /\ main' = next
    /\ cutoff' = (cutoff \/ ~done)

AwaitClosed ==
    /\ Await("closing", closer = "done", "drain")
    /\ UNCHANGED <<handles, hpc, proc, out, lost, stdin, reader, resizer, closer, wins, client>>

\* Mutant: the end of the output is not awaited.
AwaitNoOutput ==
    /\ main = "drain" /\ main' = "exit"
    /\ UNCHANGED <<handles, hpc, proc, out, lost, stdin, reader, resizer, closer, wins, client, cutoff>>

AwaitOutput ==
    /\ Await("drain", reader = "done", "exit")
    /\ UNCHANGED <<handles, hpc, proc, out, lost, stdin, reader, resizer, closer, wins, client>>

Exit ==
    /\ main = "exit" /\ main' = "unwind"
    /\ client' = IF client = "here" THEN "closed" ELSE client
    /\ UNCHANGED <<handles, hpc, proc, out, lost, stdin, reader, resizer, closer, wins, cutoff>>

\* The deferred Close takes the mutex too.
Unwind ==
    /\ main = "unwind" /\ ~Locked
    /\ IF hpc = "open" THEN main' = "close" /\ hpc' = "closing"
       ELSE main' = "release" /\ UNCHANGED hpc
    /\ UNCHANGED <<handles, proc, out, lost, stdin, reader, resizer, closer, wins, client, cutoff>>

Release ==
    /\ main = "release" /\ main' = "done"
    /\ handles' = {}
    /\ UNCHANGED <<hpc, proc, out, lost, stdin, reader, resizer, closer, wins, client, cutoff>>

Handler == CleanedUp \/ WaitExitCode \/ AwaitClosed \/ AwaitOutput \/ Exit \/ Unwind \/ Release

\* The goroutines that a handler leaves behind.
Leftover == main = "done" /\ (CopyInput \/ Copy \/ CloserLocks)

PtyStep ==
    \/ OutPipe \/ CreateConsole \/ CreateProcess
    \/ Output \/ ProcessEnds \/ WindowChange
    \/ CopyInput \/ Copy \/ Resize \/ Resized \/ CloserLocks \/ ConsoleClosed
    \/ WaitFails \/ Handler

-----------------------------------------------------------------------------
(* Properties.                                                             *)

\* Types; the goroutines run only beside a process.
PtyTypeOK ==
    /\ main \in {"idle", "outPipe", "console", "process", "cleanup", "failed", "wait", "closing",
                 "drain", "exit", "unwind", "close", "release", "done"}
    /\ handles \subseteq {"inRead", "inWrite", "outRead", "outWrite", "proc"}
    /\ hpc \in {"none", "open", "closing", "closed"} /\ proc \in {"none", "runs", "ended"}
    /\ out \in BOOLEAN /\ lost \in BOOLEAN /\ cutoff \in BOOLEAN
    /\ stdin \in {"off", "copy", "done"}
    /\ reader \in {"off", "copy", "done"} /\ resizer \in {"off", "ready", "resize", "done"}
    /\ closer \in {"off", "lock", "close", "done"}
    /\ wins \in 0 .. MaxWins /\ client \in {"here", "left", "closed"}
    /\ proc = "none" <=> stdin = "off" /\ reader = "off" /\ resizer = "off"
    /\ closer # "off" => proc # "none"

\* The pseudoconsole is resized only while it is open, and closed by one of
\* the goroutine, the deferred Close and the start that failed, though a
\* window change may come at any time and both waits may time out.
ConsoleApart ==
    /\ resizer = "resize" => hpc = "open"
    /\ hpc = "closing" <=> (closer = "close" \/ main \in {"close", "cleanup"})
    /\ ~(closer = "close" /\ main \in {"close", "cleanup"})

\* All the output of a process that was started has reached the client when
\* the session exits, even after a wait that failed, unless a timer ran out
\* or the client left first.
OutputBeforeExit ==
    (Exited /\ proc # "none" /\ ~cutoff /\ client = "closed") => ~out /\ ~lost

\* The handler returns, after a session or after any failure to start one,
\* with every handle closed and the console with them.
Released == main = "done" => handles = {} /\ hpc \in {"none", "closed"}

\* Once the wait for its process is over the session exits, even if closing
\* the console never returns; if it does, the handler returns too, and none
\* of the goroutines of the session outlives it for ever.
SessionEnds ==
    /\ main = "closing" ~> (Exited \/ main = "idle")
    /\ (Exited /\ hpc = "closed") ~> main \in {"done", "idle"}
    /\ main = "done" ~> {stdin, reader, resizer, closer} \subseteq {"off", "done"}
=============================================================================
