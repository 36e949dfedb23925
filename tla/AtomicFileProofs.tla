-------------------------- MODULE AtomicFileProofs --------------------------
(***************************************************************************)
(* What writeFileAtomic promises, for any writers and any texts: while no  *)
(* two saves overlap the file is whole, whatever fails and wherever the    *)
(* power is cut.                                                           *)
(***************************************************************************)
EXTENDS AtomicFile, TLAPS

\* A single writer, and how far its text has come in the .tmp file.
Alone ==
    /\ \A v, w \in Writers : Writing(v) /\ Writing(w) => v = w
    /\ \A w \in Writers :
         /\ fd[w] \in {"none", "tmp"}
         /\ at[w] = "write" => text["tmp"] = Empty
         /\ at[w] = "sync" => text["tmp"] \in Values
         /\ at[w] = "rename" => text["tmp"] \in Values /\ "tmp" \in safe

FileInv == FileTypeOK /\ FileWhole /\ (~clash => Alone)

LEMMA FileInitInv == FileInit => FileInv
<1> SUFFICES ASSUME FileInit PROVE FileInv
    OBVIOUS
<1> USE DEF FileInit, FileNames
<1>1. text["path"] \in Values \cup {NoFile}
    OBVIOUS
<1>2. FileTypeOK
    <2>1. text \in [FileNames -> Values \cup {NoFile, Empty, Torn}]
        BY SMT
    <2>2. fd \in [Writers -> Handles] /\ at \in [Writers -> Steps]
        BY SMT DEF Handles, Steps
    <2>3. safe \subseteq FileNames /\ old \subseteq Values \cup {NoFile, Empty, Torn} /\ clash \in BOOLEAN
        OBVIOUS
    <2>4. \A w \in Writers : fd[w] = "none" /\ at[w] = "idle"
        OBVIOUS
    <2> QED BY <2>1, <2>2, <2>3, <2>4 DEF FileTypeOK
<1>3. Alone
    BY SMT DEF Alone, Writing
<1>4. FileWhole
    BY <1>1, SMT DEF FileWhole, Whole
<1> QED BY <1>2, <1>3, <1>4 DEF FileInv

\* A step of one writer keeps the types.
LEMMA SaveType ==
    ASSUME FileTypeOK, NEW w \in Writers, Begin(w) \/ Save(w)
    PROVE  FileTypeOK'
<1> USE FileAssumption DEF FileTypeOK, FileNames, Handles, Steps, Writing, At
<1>1. CASE Begin(w)
    BY <1>1, SMT DEF Begin
<1>2. CASE OpenTmp(w)
    BY <1>2, SMT DEF OpenTmp
<1>3. ASSUME NEW v \in Values, WriteTmp(w, v) PROVE FileTypeOK'
    <2>1. text' \in [FileNames -> Values \cup {NoFile, Empty, Torn}]
        BY <1>3, SMT DEF WriteTmp
    <2>2. safe' \subseteq FileNames
        BY <1>3, Zenon DEF WriteTmp
    <2> QED BY <1>3, <2>1, <2>2, SMT DEF WriteTmp
<1>4. CASE SyncTmp(w)
    BY <1>4, SMT DEF SyncTmp
<1>5. CASE RenameTmp(w)
    BY <1>5, SMT DEF RenameTmp
<1>6. CASE GiveUp(w)
    <2>0. safe' \subseteq FileNames
        BY <1>6, Zenon DEF GiveUp
    <2>1. text' \in [FileNames -> Values \cup {NoFile, Empty, Torn}]
        BY <1>6, SMT DEF GiveUp
    <2>2. fd' \in [Writers -> Handles] /\ at' \in [Writers -> Steps]
        BY <1>6, SMT DEF GiveUp
    <2>3. \A v \in Writers : fd'[v] # "none" <=> at'[v] \in {"write", "sync"}
        BY <1>6, SMT DEF GiveUp
    <2> QED BY <1>6, <2>0, <2>1, <2>2, <2>3, SMT DEF GiveUp
<1> QED BY <1>1, <1>2, <1>3, <1>4, <1>5, <1>6 DEF Save

LEMMA PowerCutType == FileTypeOK /\ PowerCut => FileTypeOK'
BY FileAssumption, SMT DEF FileTypeOK, FileNames, Handles, Steps, PowerCut

\* A step of one writer keeps the file whole.
LEMMA SaveWhole ==
    ASSUME FileInv, NEW w \in Writers, Begin(w) \/ Save(w), ~clash'
    PROVE  FileWhole' /\ Alone'
<1> USE FileAssumption DEF FileInv, FileTypeOK, FileWhole, Whole, Alone, FileNames, Handles, Steps, Writing, At
<1>1. CASE Begin(w)
    <2>1. ~clash /\ \A v \in Writers \ {w} : ~Writing(v)
        BY <1>1, Zenon DEF Begin
    <2> QED BY <1>1, <2>1, SMT DEF Begin
<1>2. CASE OpenTmp(w)
    BY <1>2, SMT DEF OpenTmp
<1>3. ASSUME NEW v \in Values, WriteTmp(w, v) PROVE FileWhole' /\ Alone'
    BY <1>3, SMT DEF WriteTmp
<1>4. CASE SyncTmp(w)
    <2>1. fd[w] = "tmp" /\ text["tmp"] \in Values
        BY <1>4, SMT DEF SyncTmp
    <2>2. safe' = safe \cup {"tmp"}
        BY <1>4, <2>1, SMT DEF SyncTmp
    <2> QED BY <1>4, <2>1, <2>2, SMT DEF SyncTmp
<1>5. CASE RenameTmp(w)
    BY <1>5, SMT DEF RenameTmp
<1>6. CASE GiveUp(w)
    BY <1>6, SMT DEF GiveUp
<1> QED BY <1>1, <1>2, <1>3, <1>4, <1>5, <1>6 DEF Save

\* So does a power cut, which ends every save.
LEMMA PowerCutWhole == FileInv /\ PowerCut /\ ~clash' => FileWhole' /\ Alone'
BY FileAssumption, SMT
   DEF FileInv, FileTypeOK, FileWhole, Whole, Alone, FileNames, Handles, Steps, Writing, PowerCut

\* The invariant is inductive: by writer, by power cut, and by a rename that
\* reaches the disk.
LEMMA FileStep == FileInv /\ [FileNext]_fileVars => FileInv'
<1> SUFFICES ASSUME FileInv, [FileNext]_fileVars PROVE FileInv'
    OBVIOUS
<1>1. CASE PowerCut
    BY <1>1, PowerCutType, PowerCutWhole DEF FileInv, FileWhole
<1>2. CASE Settle
    BY <1>2, SMT DEF FileInv, FileTypeOK, FileWhole, Alone, Writing, Settle
<1>3. ASSUME NEW w \in Writers, Begin(w) \/ Save(w) PROVE FileInv'
    BY <1>3, SaveType, SaveWhole DEF FileInv, FileWhole
<1>4. CASE UNCHANGED fileVars
    BY <1>4, SMT DEF fileVars, FileInv, FileTypeOK, FileWhole, Whole, Alone, Writing
<1> QED BY <1>1, <1>2, <1>3, <1>4 DEF FileNext

\* The files, the handles and the writers keep their types: an open handle
\* is one of a writer between its open and its close.
THEOREM FileTypeCorrect == FileSpec => []FileTypeOK
<1>1. FileInv => FileTypeOK
    BY DEF FileInv
<1> QED BY FileInitInv, FileStep, <1>1, PTL DEF FileSpec

\* Saves that do not overlap leave the old text or the new one, complete and
\* on the disk, whatever call fails and wherever the power is cut.
THEOREM FileStaysWhole == FileSpec => []FileWhole
<1>1. FileInv => FileWhole
    BY DEF FileInv
<1> QED BY FileInitInv, FileStep, <1>1, PTL DEF FileSpec
=============================================================================
