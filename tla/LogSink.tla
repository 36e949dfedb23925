------------------------------- MODULE LogSink -------------------------------
(***************************************************************************)
(* logSink: lines go to the current profile's log file and to a bounded    *)
(* in-memory buffer whose lines are numbered, so that a viewer fetches     *)
(* only what is new.  Write takes the file under the lock, writes it with  *)
(* the lock released, and takes the lock again to append.                  *)
(***************************************************************************)
EXTENDS Naturals, Sequences, SequencesExt

CONSTANTS
    Writers,    \* goroutines that log
    Sizes,      \* lengths a line may have
    Dirs,       \* profile directories
    NoFile,     \* no log file is set
    BufferMax,  \* logBufferMax
    MaxLines,   \* bound: lines written
    MaxClears,  \* bound: Clear calls
    MaxOpens    \* bound: SetFile calls

ASSUME LogSinkAssumption ==
    /\ BufferMax \in Nat /\ MaxLines \in Nat /\ MaxClears \in Nat /\ MaxOpens \in Nat
    /\ Sizes \subseteq Nat

Handles == [id: 1 .. MaxOpens, dir: Dirs]
Lines == [seq: Nat, by: Writers, size: Sizes]

VARIABLES
    lines,      \* the buffered lines, oldest first
    bytes,      \* their total length, as the sink keeps it
    first,      \* sequence number of lines[1]
    next,       \* sequence number the next line will get
    gen,        \* bumped by Clear
    file,       \* the open log file
    opens,      \* SetFile calls so far; a handle is closed unless it is the last
    disk,       \* per directory, the directories whose file was current when the
                \* write of a line in its log began
    pc,         \* each writer: "idle", "io" or "append"
    holds,      \* the handle each writer took
    size        \* the length of the line each writer writes

buffer == <<lines, bytes, first, next, gen>>
writing == <<pc, holds, size>>
sinkVars == <<buffer, file, opens, disk, writing>>

SinkInit ==
    /\ lines = <<>> /\ bytes = 0 /\ first = 0 /\ next = 0 /\ gen = 0
    /\ file = NoFile /\ opens = 0
    /\ disk = [d \in Dirs |-> {}]
    /\ pc = [w \in Writers |-> "idle"]
    /\ holds = [w \in Writers |-> NoFile]
    /\ size = [w \in Writers |-> 0]

\* SetFile: the new file takes the place of the previous one, which is closed.
SetFile(d) ==
    /\ opens < MaxOpens
    /\ opens' = opens + 1
    /\ file' = [id |-> opens + 1, dir |-> d]
    /\ UNCHANGED <<buffer, disk, writing>>

\* Write, first critical section.
WriteBegin(w) ==
    /\ pc[w] = "idle"
    /\ next < MaxLines
    /\ \E z \in Sizes : size' = [size EXCEPT ![w] = z]
    /\ holds' = [holds EXCEPT ![w] = file]
    /\ pc' = [pc EXCEPT ![w] = "io"]
    /\ UNCHANGED <<buffer, file, opens, disk>>

\* Mutant: the file is looked up again after the lock was released.
WriteFileOfNow(w) ==
    /\ pc[w] = "io"
    /\ disk' = IF holds[w] = NoFile THEN disk
               ELSE [disk EXCEPT ![file.dir] = @ \cup {holds[w].dir}]
    /\ pc' = [pc EXCEPT ![w] = "append"]
    /\ UNCHANGED <<buffer, file, opens, holds, size>>

\* Outside the lock.  Writing to a handle that SetFile has closed fails, and
\* Write ignores the error.
WriteFile(w) ==
    /\ pc[w] = "io"
    /\ disk' = IF holds[w] # NoFile /\ holds[w] = file
               THEN [disk EXCEPT ![file.dir] = @ \cup {holds[w].dir}] ELSE disk
    /\ pc' = [pc EXCEPT ![w] = "append"]
    /\ UNCHANGED <<buffer, file, opens, holds, size>>

Total(s) ==
    LET sum[k \in 0 .. Len(s)] == IF k = 0 THEN 0 ELSE sum[k - 1] + s[k].size
    IN sum[Len(s)]

\* Mutant: the loop looks at the old total and stops a line too early.
StopsAtOldTotal(s, b) ==
    {k \in 0 .. Len(s) - 1 :
        k = Len(s) - 1 \/ b - Last(s).size - Total(SubSeq(s, 1, k)) <= BufferMax}

\* The loop that drops the oldest lines while there are too many bytes, but
\* never the line just added: the counts at which it may stop.
StopsAt(s, b) ==
    {k \in 0 .. Len(s) - 1 :
        k = Len(s) - 1 \/ b - Total(SubSeq(s, 1, k)) <= BufferMax}

\* Write, second critical section.
WriteAppend(w) ==
    /\ pc[w] = "append"
    /\ LET s == Append(lines, [seq |-> next, by |-> w, size |-> size[w]])
           b == bytes + size[w]
       IN \E k \in StopsAt(s, b) :
             /\ \A j \in StopsAt(s, b) : k <= j
             /\ lines' = SubSeq(s, k + 1, Len(s))
             /\ bytes' = b - Total(SubSeq(s, 1, k))
             /\ first' = first + k
    /\ next' = next + 1
    /\ pc' = [pc EXCEPT ![w] = "idle"]
    /\ UNCHANGED <<gen, file, opens, disk, holds, size>>

\* Mutant: Clear starts numbering again.
ClearRenumbers ==
    /\ gen < MaxClears
    /\ lines' = <<>> /\ bytes' = 0
    /\ first' = 0
    /\ gen' = gen + 1
    /\ UNCHANGED <<next, file, opens, disk, writing>>

Clear ==
    /\ gen < MaxClears
    /\ lines' = <<>> /\ bytes' = 0
    /\ first' = next
    /\ gen' = gen + 1
    /\ UNCHANGED <<next, file, opens, disk, writing>>

\* Mutant: Since does not skip what the caller has.
SinceFirst(seq) == IF seq >= next THEN <<>> ELSE lines

\* What Since(seq) returns: the lines from seq on, or all that are retained.
Since(seq) ==
    LET from == IF seq < first THEN first ELSE IF seq > next THEN next ELSE seq
    IN SubSeq(lines, from - first + 1, Len(lines))

WriterStep(w) == WriteFile(w) \/ WriteAppend(w)
SinkNext ==
    \/ \E w \in Writers : WriteBegin(w) \/ WriterStep(w)
    \/ \E d \in Dirs : SetFile(d)
    \/ Clear

SinkSpec == SinkInit /\ [][SinkNext]_sinkVars
-----------------------------------------------------------------------------
SinkTypeOK ==
    /\ lines \in Seq(Lines) /\ bytes \in Nat
    /\ first \in Nat /\ next \in Nat /\ gen \in Nat
    /\ file \in Handles \cup {NoFile} /\ opens \in Nat
    /\ disk \in [Dirs -> SUBSET Dirs]
    /\ pc \in [Writers -> {"idle", "io", "append"}]
    /\ holds \in [Writers -> Handles \cup {NoFile}]
    /\ size \in [Writers -> Sizes \cup {0}]

\* first and next bound the buffer exactly and every buffered line has the
\* number it was given, whatever was dropped or cleared (logsink.go:14): this
\* is what lets Since index the buffer with seq - first.
Numbered ==
    /\ next = first + Len(lines)
    /\ \A i \in 1 .. Len(lines) : lines[i].seq = first + i - 1

\* The byte count is that of the lines, and within logBufferMax unless one
\* line alone exceeds it (logsink.go:27).
Bounded ==
    /\ bytes = Total(lines)
    /\ bytes <= BufferMax \/ Len(lines) = 1

\* A line whose Write began under one profile never lands in another
\* profile's log file, though the profile may change meanwhile (logsink.go:66).
LogsApart == \A d \in Dirs : disk[d] \subseteq {d}
=============================================================================
