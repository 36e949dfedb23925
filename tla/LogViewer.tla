------------------------------ MODULE LogViewer ------------------------------
(***************************************************************************)
(* logViewer: the log window's copy of the logSink buffer.  Everything it  *)
(* does runs on the UI goroutine, but a pull takes the sink's lock twice,  *)
(* in Since and in Stats, and writers may run between the two.             *)
(***************************************************************************)
EXTENDS LogSink

VARIABLES
    shown,      \* v.lines
    vnext,      \* v.next
    vgen,       \* v.gen
    selected,   \* selected rows
    anchor,     \* v.anchor; 0 for none
    follow,     \* the Follow box
    pulling     \* a pull is between Since and Stats

viewVars == <<shown, vnext, vgen, selected, anchor, follow, pulling>>
allVars == <<sinkVars, viewVars>>
Rows == 1 .. Len(shown)

ViewInit ==
    /\ SinkInit
    /\ shown = <<>> /\ vnext = 0 /\ vgen = 0
    /\ selected = {} /\ anchor = 0 /\ follow = TRUE /\ pulling = FALSE

Deselect == selected' = {} /\ anchor' = 0

\* Mutant: lines are only fetched while following.
PullSinceFollowing ==
    LET new == Since(vnext) IN
    /\ ~pulling /\ follow
    /\ vgen' = gen /\ vnext' = next
    /\ shown' = (IF gen # vgen THEN <<>> ELSE shown) \o new
    /\ pulling' = (gen # vgen \/ new # <<>>)
    /\ IF gen # vgen THEN Deselect ELSE UNCHANGED <<selected, anchor>>
    /\ follow' \in {follow, FALSE}
    /\ UNCHANGED sinkVars

\* pull, up to and including what Since returned.  tick turns Follow off
\* first if the user has scrolled up.
PullSince ==
    LET new == Since(vnext) IN
    /\ ~pulling
    /\ vgen' = gen /\ vnext' = next
    /\ shown' = (IF gen # vgen THEN <<>> ELSE shown) \o new
    /\ pulling' = (gen # vgen \/ new # <<>>)
    /\ IF gen # vgen THEN Deselect ELSE UNCHANGED <<selected, anchor>>
    /\ follow' \in {follow, FALSE}
    /\ UNCHANGED sinkVars

\* Mutant: the selection survives a trim.
PullStatsKeepsRows ==
    /\ pulling
    /\ pulling' = FALSE
    /\ shown' = IF Len(shown) > Len(lines)
                THEN SubSeq(shown, Len(shown) - Len(lines) + 1, Len(shown)) ELSE shown
    /\ selected' = selected \cap 1 .. Len(lines)
    /\ UNCHANGED <<sinkVars, vnext, vgen, anchor, follow>>

\* Mutant: one line more than Stats counts is kept.
PullStatsKeepsOne ==
    /\ pulling
    /\ pulling' = FALSE
    /\ IF Len(shown) > Len(lines) + 1
       THEN /\ shown' = SubSeq(shown, Len(shown) - Len(lines), Len(shown))
            /\ Deselect
       ELSE UNCHANGED <<shown, selected, anchor>>
    /\ UNCHANGED <<sinkVars, vnext, vgen, follow>>

\* The rest of pull: no more lines than Stats counts are kept.
PullStats ==
    /\ pulling
    /\ pulling' = FALSE
    /\ IF Len(shown) > Len(lines)
       THEN /\ shown' = SubSeq(shown, Len(shown) - Len(lines) + 1, Len(shown))
            /\ Deselect
       ELSE UNCHANGED <<shown, selected, anchor>>
    /\ UNCHANGED <<sinkVars, vnext, vgen, follow>>

\* Mutant: Clear leaves the selection.
ClearPressedKeepsRows ==
    /\ ~pulling
    /\ Clear
    /\ shown' = <<>>
    /\ UNCHANGED <<vnext, vgen, selected, anchor, follow, pulling>>

\* The Clear button; the viewer learns of the new generation at its next pull.
ClearPressed ==
    /\ ~pulling
    /\ Clear
    /\ shown' = <<>> /\ Deselect
    /\ UNCHANGED <<vnext, vgen, follow, pulling>>

\* A click, a Ctrl-click and a Shift-click on a row turn Follow off.
SelectOne(i) ==
    /\ ~pulling
    /\ selected' = {i} /\ anchor' = i /\ follow' = FALSE
    /\ UNCHANGED <<sinkVars, shown, vnext, vgen, pulling>>

ToggleSelect(i) ==
    /\ ~pulling
    /\ IF i \in selected THEN selected' = selected \ {i} /\ UNCHANGED anchor
       ELSE selected' = selected \cup {i} /\ anchor' = i
    /\ follow' = FALSE
    /\ UNCHANGED <<sinkVars, shown, vnext, vgen, pulling>>

SelectRange(i) ==
    /\ ~pulling /\ anchor # 0
    /\ selected' = {k \in Rows : (anchor <= k /\ k <= i) \/ (i <= k /\ k <= anchor)}
    /\ follow' = FALSE
    /\ UNCHANGED <<sinkVars, shown, vnext, vgen, anchor, pulling>>

FollowPressed ==
    /\ ~pulling
    /\ follow' = ~follow
    /\ IF follow' THEN Deselect ELSE UNCHANGED <<selected, anchor>>
    /\ UNCHANGED <<sinkVars, shown, vnext, vgen, pulling>>

\* The window is closed and opened again: a new viewer, whose first pull
\* starts at sequence number 0 and generation 0.
Reopen ==
    /\ ~pulling
    /\ shown' = <<>> /\ vnext' = 0 /\ vgen' = 0
    /\ Deselect /\ follow' = TRUE
    /\ UNCHANGED <<sinkVars, pulling>>

WritersAndFiles ==
    /\ \/ \E w \in Writers : WriteBegin(w) \/ WriterStep(w)
       \/ \E d \in Dirs : SetFile(d)
    /\ UNCHANGED viewVars

Pull == PullSince \/ PullStats
ViewerNext ==
    \/ WritersAndFiles
    \/ Pull \/ ClearPressed \/ FollowPressed \/ Reopen
    \/ \E i \in Rows : SelectOne(i) \/ ToggleSelect(i) \/ SelectRange(i)

ViewerSpec == ViewInit /\ [][ViewerNext]_allVars

\* The ticker fires and the writers are scheduled for ever.
ViewerFairSpec ==
    ViewerSpec /\ WF_allVars(Pull)
               /\ \A w \in Writers : WF_allVars(WriterStep(w) /\ UNCHANGED viewVars)
-----------------------------------------------------------------------------
\* Types of the sink and the viewer; Follow and a selection never go together
\* (ui_logs.go:59, ui_logs.go:168).
ViewTypeOK ==
    /\ SinkTypeOK
    /\ shown \in Seq(Lines) /\ vnext \in Nat /\ vgen \in Nat
    /\ selected \subseteq Rows /\ anchor \in Nat
    /\ follow \in BOOLEAN /\ pulling \in BOOLEAN
    /\ follow => selected = {}

\* What is in view is in the order written, with no line twice, and ends with
\* the last line fetched, across evictions, clears and reopenings.
InOrder ==
    /\ \A i, j \in Rows : i < j => shown[i].seq < shown[j].seq
    /\ shown # <<>> => Last(shown).seq = vnext - 1

\* A viewer that has fetched the last line shows exactly what the sink keeps:
\* no line is missing, none is left of what was evicted or cleared, whatever
\* was written between the two halves of a pull.
CaughtUp == ~pulling /\ vgen = gen /\ vnext = next => shown = lines

\* "Indexes refer to v.lines and are dropped whenever the lines shift"
\* (ui_logs.go:27): a row that stays selected is the same line.
SelectionStable ==
    [][\A i \in selected \cap selected' : shown'[i] = shown[i]]_allVars

\* Every line is fetched by an open viewer, or dropped before it could be.
EventuallyFetched == \A n \in 0 .. MaxLines - 1 : next > n ~> vnext > n
=============================================================================
