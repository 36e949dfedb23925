----------------------------- MODULE AtomicFile -----------------------------
(***************************************************************************)
(* writeFileAtomic on one path: open path.tmp and truncate it, write, sync *)
(* and close, rename over path.  Several writers share the .tmp name and   *)
(* may hold the same file.  A power cut loses text that was not synced and *)
(* may undo the last rename, as nothing syncs the directory.               *)
(***************************************************************************)
EXTENDS Integers

CONSTANTS
    Writers,
    Values,         \* what may be written
    NoFile,         \* no file of that name
    Empty, Torn,    \* texts that are no Value
    WriteFaults     \* may calls fail by themselves?

ASSUME FileAssumption ==
    /\ {NoFile, Empty, Torn} \cap Values = {} /\ NoFile # Empty /\ NoFile # Torn
    /\ WriteFaults \in BOOLEAN

VARIABLES
    text,   \* of the file under each name
    safe,   \* the names whose text has reached the disk
    old,    \* what the path may still hold on the disk, where the last renames
            \* are not yet
    fd,     \* each writer's open handle: a name, "none", or "lost" for a
            \* file that has no name any more
    at,     \* each writer's next step
    clash   \* ghost: two writers were at work at once

fileVars == <<text, safe, old, fd, at, clash>>
FileNames == {"tmp", "path"}
Handles == FileNames \cup {"none", "lost"}
Steps == {"idle", "open", "write", "sync", "rename"}
Writing(w) == at[w] # "idle"
At(w, s) == at' = [at EXCEPT ![w] = s]

FileInit ==
    /\ text \in [FileNames -> Values \cup {NoFile}] /\ text["tmp"] = NoFile
    /\ safe = {"path"} /\ old = {}
    /\ fd = [w \in Writers |-> "none"] /\ at = [w \in Writers |-> "idle"]
    /\ clash = FALSE

\* A save begins.
Begin(w) ==
    /\ ~Writing(w)
    /\ At(w, "open")
    /\ clash' = (clash \/ \E v \in Writers \ {w} : Writing(v))
    /\ UNCHANGED <<text, safe, old, fd>>

OpenTmp(w) ==
    /\ at[w] = "open"
    /\ text' = [text EXCEPT !["tmp"] = Empty]
    /\ safe' = safe \ {"tmp"}
    /\ fd' = [fd EXCEPT ![w] = "tmp"]
    /\ At(w, "write")
    /\ UNCHANGED <<old, clash>>

\* From the start of the file: over a longer text of another writer the
\* rest of that text stays.
WriteTmp(w, v) ==
    LET f == fd[w] IN
    /\ at[w] = "write"
    /\ IF f = "lost" THEN UNCHANGED text
       ELSE \E new \in {v} \cup (IF text[f] \in {Empty, v} THEN {} ELSE {Torn}) :
              text' = [text EXCEPT ![f] = new]
    /\ safe' = safe \ {f}
    /\ At(w, "sync")
    /\ UNCHANGED <<old, fd, clash>>

\* Mutant: the data is left to the operating system.
CloseUnsynced(w) ==
    /\ at[w] = "sync"
    /\ fd' = [fd EXCEPT ![w] = "none"]
    /\ At(w, "rename")
    /\ UNCHANGED <<text, safe, old, clash>>

SyncTmp(w) ==
    /\ at[w] = "sync"
    /\ safe' = safe \cup ({fd[w]} \cap FileNames)
    /\ fd' = [fd EXCEPT ![w] = "none"]
    /\ At(w, "rename")
    /\ UNCHANGED <<text, old, clash>>

RenameTmp(w) ==
    /\ at[w] = "rename" /\ text["tmp"] # NoFile
    /\ text' = [text EXCEPT !["path"] = text["tmp"], !["tmp"] = NoFile]
    /\ safe' = IF "tmp" \in safe THEN {"path"} ELSE {}
    /\ old' = old \cup {text["path"]}
    /\ fd' = [v \in Writers |-> CASE fd[v] = "tmp" -> "path" [] fd[v] = "path" -> "lost"
                                  [] OTHER -> fd[v]]
    /\ At(w, "idle")
    /\ UNCHANGED clash

\* Mutant: an error leaves the file open.
GiveUpOpen(w) ==
    /\ WriteFaults /\ Writing(w)
    /\ At(w, "idle")
    /\ UNCHANGED <<text, safe, old, fd, clash>>

\* A failing call: Windows refuses to rename a file that another writer
\* holds, another's rename may have taken the file away, and any call may
\* fail by itself.  From the write on the .tmp file is then removed, which
\* may fail in its turn.
GiveUp(w) ==
    /\ \/ /\ at[w] = "rename"
          /\ text["tmp"] = NoFile \/ \E v \in Writers \ {w} : fd[v] = "tmp"
       \/ WriteFaults /\ Writing(w)
    /\ \/ /\ text' = text /\ safe' = safe
          /\ fd' = [fd EXCEPT ![w] = "none"]
       \/ /\ at[w] # "open"
          /\ text' = [text EXCEPT !["tmp"] = NoFile] /\ safe' = safe \ {"tmp"}
          /\ fd' = [v \in Writers |-> IF v = w THEN "none"
                                      ELSE IF fd[v] = "tmp" THEN "lost" ELSE fd[v]]
    /\ At(w, "idle")
    /\ UNCHANGED <<old, clash>>

\* The renames reach the disk.
Settle ==
    /\ old # {} /\ old' = {}
    /\ UNCHANGED <<text, safe, fd, at, clash>>

\* The process or the machine stops: what was not synced is kept, lost or
\* half written, and a rename that is not on the disk may be undone.
PowerCut ==
    /\ \E tmp \in {text["tmp"], NoFile} \cup (IF "tmp" \in safe THEN {} ELSE {Empty, Torn}),
          path \in {text["path"]} \cup old \cup (IF "path" \in safe THEN {} ELSE {Empty, Torn}) :
         text' = [n \in FileNames |-> IF n = "tmp" THEN tmp ELSE path]
    /\ safe' = FileNames /\ old' = {}
    /\ fd' = [w \in Writers |-> "none"] /\ at' = [w \in Writers |-> "idle"]
    /\ UNCHANGED clash

Save(w) ==
    \/ OpenTmp(w) \/ SyncTmp(w) \/ RenameTmp(w) \/ GiveUp(w)
    \/ \E v \in Values : WriteTmp(w, v)

FileNext == PowerCut \/ Settle \/ \E w \in Writers : Begin(w) \/ Save(w)

FileSpec == FileInit /\ [][FileNext]_fileVars

-----------------------------------------------------------------------------
(* Properties.                                                             *)

FileTypeOK ==
    /\ text \in [FileNames -> Values \cup {NoFile, Empty, Torn}] /\ safe \subseteq FileNames
    /\ old \subseteq Values \cup {NoFile, Empty, Torn}
    /\ fd \in [Writers -> Handles] /\ at \in [Writers -> Steps] /\ clash \in BOOLEAN
    /\ \A w \in Writers : fd[w] # "none" <=> at[w] \in {"write", "sync"}

\* What writeFileAtomic promises, for saves that do not overlap: whatever
\* call fails and wherever the power is cut, the file, if there is one,
\* holds a complete text that is safely on the disk, and so do those that
\* may come back.
Whole(t) == t = NoFile \/ t \in Values
FileWhole ==
    ~clash => /\ Whole(text["path"]) /\ "path" \in safe
              /\ \A t \in old : Whole(t)
=============================================================================
