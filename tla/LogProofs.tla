----------------------------- MODULE LogProofs -----------------------------
(***************************************************************************)
(* Theorems about LogSink and LogViewer, for any number of writers, any    *)
(* line lengths and any buffer size.                                       *)
(***************************************************************************)
EXTENDS LogViewer, WellFoundedInduction, TLAPS

USE LogSinkAssumption

\* The part of the type invariant the numbering rests on.
AnyLine == [seq: Nat, by: Writers, size: Nat]
SeqTyped ==
    /\ lines \in Seq(AnyLine)
    /\ first \in Nat /\ next \in Nat
    /\ size \in [Writers -> Nat]

SinkInv == SeqTyped /\ Numbered

\* Dropping the k oldest of s, whose lines are numbered from m, leaves lines
\* numbered from m + k.
LEMMA DropOldest ==
  ASSUME NEW s \in Seq(AnyLine), NEW m \in Nat, NEW k \in 0 .. Len(s) - 1,
         \A i \in 1 .. Len(s) : s[i].seq = m + i - 1
  PROVE  /\ SubSeq(s, k + 1, Len(s)) \in Seq(AnyLine)
         /\ Len(SubSeq(s, k + 1, Len(s))) = Len(s) - k
         /\ \A i \in 1 .. Len(s) - k : SubSeq(s, k + 1, Len(s))[i].seq = m + k + i - 1
OBVIOUS

LEMMA NumberedAppend ==
  ASSUME SinkInv, NEW w \in Writers, WriteAppend(w)
  PROVE  Numbered' /\ lines' \in Seq(AnyLine) /\ first' \in Nat /\ next' \in Nat
<1> DEFINE s == Append(lines, [seq |-> next, by |-> w, size |-> size[w]])
<1>1. PICK k \in 0 .. Len(s) - 1 : lines' = SubSeq(s, k + 1, Len(s)) /\ first' = first + k
  BY DEF WriteAppend, StopsAt
<1>2. next' = next + 1
  BY DEF WriteAppend
<1>3. s \in Seq(AnyLine) /\ Len(s) = Len(lines) + 1
  <2>1. [seq |-> next, by |-> w, size |-> size[w]] \in AnyLine
    BY DEF SinkInv, SeqTyped, AnyLine
  <2> QED BY <2>1 DEF SinkInv, SeqTyped
<1>4. \A i \in 1 .. Len(s) : s[i].seq = first + i - 1
  <2> SUFFICES ASSUME NEW i \in 1 .. Len(s) PROVE s[i].seq = first + i - 1
    OBVIOUS
  <2>1. CASE i \in 1 .. Len(lines)
    <3>1. s[i] = lines[i]
      BY <2>1 DEF SinkInv, SeqTyped
    <3> QED BY <2>1, <3>1 DEF SinkInv, Numbered
  <2>2. CASE i = Len(lines) + 1
    <3>1. s[i].seq = next
      BY <2>2 DEF SinkInv, SeqTyped
    <3> QED BY <2>2, <3>1 DEF SinkInv, SeqTyped, Numbered
  <2> QED BY <1>3, <2>1, <2>2 DEF SinkInv, SeqTyped
<1> HIDE DEF s
<1>5. first \in Nat /\ next \in Nat /\ next = first + Len(lines) /\ Len(lines) \in Nat
  BY DEF SinkInv, SeqTyped, Numbered
<1>6. /\ lines' \in Seq(AnyLine) /\ Len(lines') = Len(s) - k
      /\ \A i \in 1 .. Len(s) - k : lines'[i].seq = first + k + i - 1
  BY <1>1, <1>3, <1>4, <1>5, DropOldest
<1>7. Len(s) - k = Len(lines') /\ next + 1 = first + k + (Len(s) - k)
  BY <1>3, <1>5, <1>6
<1>8. next' = first' + Len(lines')
  BY <1>1, <1>2, <1>5, <1>6, <1>7
<1>9. \A i \in 1 .. Len(lines') : lines'[i].seq = first' + i - 1
  BY <1>1, <1>6, <1>7
<1>10. first' \in Nat /\ next' \in Nat
  BY <1>1, <1>2, <1>5
<1>11. Numbered'
  BY <1>8, <1>9 DEF Numbered
<1> QED BY <1>6, <1>10, <1>11

LEMMA SinkStep == SinkInv /\ [SinkNext]_sinkVars => SinkInv'
<1> SUFFICES ASSUME SinkInv, [SinkNext]_sinkVars PROVE SinkInv'
  OBVIOUS
<1>1. ASSUME NEW w \in Writers, WriteBegin(w) PROVE SinkInv'
  BY <1>1 DEF WriteBegin, buffer, SinkInv, SeqTyped, Numbered
<1>2. ASSUME NEW w \in Writers, WriteFile(w) PROVE SinkInv'
  BY <1>2 DEF WriteFile, buffer, SinkInv, SeqTyped, Numbered
<1>3. ASSUME NEW w \in Writers, WriteAppend(w) PROVE SinkInv'
  <2>1. size' = size
    BY <1>3 DEF WriteAppend
  <2> QED BY <1>3, <2>1, NumberedAppend DEF SinkInv, SeqTyped
<1>4. ASSUME NEW d \in Dirs, SetFile(d) PROVE SinkInv'
  BY <1>4 DEF SetFile, buffer, writing, SinkInv, SeqTyped, Numbered
<1>5. CASE Clear
  BY <1>5 DEF Clear, writing, SinkInv, SeqTyped, Numbered
<1>6. CASE UNCHANGED sinkVars
  BY <1>6 DEF sinkVars, buffer, writing, SinkInv, SeqTyped, Numbered
<1> QED BY <1>1, <1>2, <1>3, <1>4, <1>5, <1>6 DEF SinkNext, WriterStep

LEMMA SinkAtFirst == SinkInit => SinkInv
<1>1. SinkInit => 0 \in Nat /\ lines \in Seq(AnyLine) /\ Len(lines) = 0
  BY DEF SinkInit
<1> QED BY <1>1 DEF SinkInit, SinkInv, SeqTyped, Numbered

\* However writers, clears and new files fall, the numbers first and next
\* keep describe the buffer exactly.
THEOREM NumberedAlways == SinkSpec => []Numbered
<1>1. SinkInit => SinkInv
  BY SinkAtFirst
<1>2. SinkInv => Numbered
  BY DEF SinkInv
<1> QED BY <1>1, <1>2, SinkStep, PTL DEF SinkSpec

\* Since(seq) never fails, and returns the retained lines numbered from seq
\* on, each once and in order: none is skipped and none repeated.
THEOREM SinceExact ==
  ASSUME SinkInv, NEW seq \in Nat
  PROVE  LET start == IF seq < first THEN first ELSE IF seq > next THEN next ELSE seq
         IN /\ Len(Since(seq)) = next - start
            /\ \A i \in 1 .. next - start : Since(seq)[i].seq = start + i - 1
<1> DEFINE start == IF seq < first THEN first ELSE IF seq > next THEN next ELSE seq
           k == start - first
<1>1. /\ lines \in Seq(AnyLine) /\ Len(lines) \in Nat /\ first \in Nat /\ next \in Nat
      /\ next = first + Len(lines)
      /\ \A i \in 1 .. Len(lines) : lines[i].seq = first + i - 1
  BY DEF SinkInv, SeqTyped, Numbered
<1>2. start \in Nat /\ k \in 0 .. Len(lines)
  BY <1>1
<1>3. Since(seq) = SubSeq(lines, k + 1, Len(lines))
  BY DEF Since
<1> HIDE DEF start, k
<1>4. ASSUME k = Len(lines)
      PROVE  next - start = 0 /\ Len(Since(seq)) = 0
  <2>1. Since(seq) = <<>>
    BY <1>1, <1>3, <1>4
  <2>2. next - start = 0
    BY <1>1, <1>2, <1>4 DEF k
  <2> QED BY <2>1, <2>2
<1>5. ASSUME k \in 0 .. Len(lines) - 1
      PROVE  /\ Len(Since(seq)) = next - start
             /\ \A i \in 1 .. next - start : Since(seq)[i].seq = start + i - 1
  <2>1. /\ Len(Since(seq)) = Len(lines) - k
        /\ \A i \in 1 .. Len(lines) - k : Since(seq)[i].seq = first + k + i - 1
    BY <1>1, <1>3, <1>5, DropOldest
  <2>2. first + k = start /\ Len(lines) - k = next - start
    BY <1>1, <1>2 DEF k
  <2> QED BY <2>1, <2>2
<1>6. /\ Len(Since(seq)) = next - start
      /\ \A i \in 1 .. next - start : Since(seq)[i].seq = start + i - 1
  BY <1>1, <1>2, <1>4, <1>5
<1> QED BY <1>6 DEF start
-----------------------------------------------------------------------------
DiskTyped == disk \in [Dirs -> SUBSET Dirs]

LEMMA ApartStep == DiskTyped /\ LogsApart /\ [SinkNext]_sinkVars => DiskTyped' /\ LogsApart'
<1> SUFFICES ASSUME DiskTyped, LogsApart, [SinkNext]_sinkVars PROVE DiskTyped' /\ LogsApart'
  OBVIOUS
<1>1. ASSUME NEW w \in Writers, WriteFile(w) PROVE DiskTyped' /\ LogsApart'
  <2>1. CASE holds[w] # NoFile /\ holds[w] = file
    <3>1. disk' = [disk EXCEPT ![file.dir] = @ \cup {file.dir}]
      BY <1>1, <2>1 DEF WriteFile
    <3> QED BY <3>1 DEF DiskTyped, LogsApart
  <2>2. CASE ~(holds[w] # NoFile /\ holds[w] = file)
    <3>1. disk' = disk
      BY <1>1, <2>2 DEF WriteFile
    <3> QED BY <3>1 DEF DiskTyped, LogsApart
  <2> QED BY <2>1, <2>2
<1>2. CASE \/ \E w \in Writers : WriteBegin(w) \/ WriteAppend(w)
           \/ \E d \in Dirs : SetFile(d)
           \/ Clear
           \/ UNCHANGED sinkVars
  <2>1. disk' = disk
    BY <1>2 DEF WriteBegin, WriteAppend, SetFile, Clear, sinkVars
  <2> QED BY <2>1 DEF DiskTyped, LogsApart
<1> QED BY <1>1, <1>2 DEF SinkNext, WriterStep

\* A line never lands in the log of a profile other than the one whose file
\* was open when its Write began, however often the profile changes meanwhile.
THEOREM LogsStayApart == SinkSpec => []LogsApart
<1>1. SinkInit => DiskTyped /\ LogsApart
  BY DEF SinkInit, DiskTyped, LogsApart
<1> QED BY <1>1, ApartStep, PTL DEF SinkSpec
-----------------------------------------------------------------------------
(* Sums of line lengths.                                                   *)

Sums(s) == CHOOSE f : f = [k \in 0 .. Len(s) |-> IF k = 0 THEN 0 ELSE f[k - 1] + s[k].size]

LEMMA TotalIsSum == ASSUME NEW s PROVE Total(s) = Sums(s)[Len(s)]
BY DEF Total, Sums

\* A set of numbers that is not empty has a least member.
LEMMA LeastOf ==
  ASSUME NEW S \in SUBSET Nat, S # {}
  PROVE  \E n \in S : \A m \in S : n <= m
<1>1. PICK n \in S : \A m \in S : ~ (<<m, n>> \in OpToRel(<, Nat))
  BY NatLessThanWellFounded, WFMin, Zenon
<1>2. \A m \in S : ~ (m < n)
  BY <1>1 DEF OpToRel
<1> QED BY <1>2

\* The sums exist: with the sums of n lines there are those of one more.
LEMMA SumsExist ==
  ASSUME NEW s \in Seq(AnyLine)
  PROVE  /\ Sums(s) \in [0 .. Len(s) -> Nat]
         /\ Sums(s)[0] = 0
         /\ \A k \in 1 .. Len(s) : Sums(s)[k] = Sums(s)[k - 1] + s[k].size
<1> DEFINE Adds(f, n) == f[0] = 0 /\ \A k \in 1 .. n : f[k] = f[k - 1] + s[k].size
           Bad == {n \in 0 .. Len(s) : ~ \E f \in [0 .. n -> Nat] : Adds(f, n)}
<1>0. Len(s) \in Nat /\ \A k \in 1 .. Len(s) : s[k].size \in Nat
  <2>1. \A k \in 1 .. Len(s) : s[k] \in AnyLine
    OBVIOUS
  <2> QED BY <2>1 DEF AnyLine
<1>1. Bad = {}
  <2> SUFFICES ASSUME Bad # {} PROVE FALSE
    OBVIOUS
  <2>0. Bad \in SUBSET Nat
    BY <1>0
  <2>1. PICK n \in Bad : \A m \in Bad : n <= m
    <3> HIDE DEF Bad
    <3> QED BY <2>0, LeastOf
  <2>2. CASE n = 0
    <3>1. [k \in 0 .. 0 |-> 0] \in [0 .. 0 -> Nat] /\ Adds([k \in 0 .. 0 |-> 0], 0)
      OBVIOUS
    <3> QED BY <2>1, <2>2, <3>1
  <2>3. CASE n # 0
    <3>0. n \in 0 .. Len(s)
      BY <2>1
    <3>1. n \in 1 .. Len(s) /\ n - 1 \in 0 .. Len(s) /\ n - 1 \notin Bad
      <4>1. n \in 1 .. Len(s) /\ n - 1 \in 0 .. Len(s) /\ ~ (n <= n - 1)
        BY <1>0, <2>3, <3>0
      <4> HIDE DEF Bad
      <4> QED BY <2>1, <4>1
    <3>2. PICK f \in [0 .. n - 1 -> Nat] : Adds(f, n - 1)
      BY <3>1
    <3> DEFINE g == [k \in 0 .. n |-> IF k = n THEN f[n - 1] + s[n].size ELSE f[k]]
    <3>3. g \in [0 .. n -> Nat]
      BY <1>0, <3>1, <3>2
    <3>4. Adds(g, n)
      BY <1>0, <3>1, <3>2
    <3> QED BY <2>1, <3>3, <3>4
  <2> QED BY <2>2, <2>3
<1>2. PICK f \in [0 .. Len(s) -> Nat] : Adds(f, Len(s))
  BY <1>0, <1>1
<1>3. f = [k \in 0 .. Len(s) |-> IF k = 0 THEN 0 ELSE f[k - 1] + s[k].size]
  BY <1>0, <1>2
<1>4. Sums(s) = [k \in 0 .. Len(s) |-> IF k = 0 THEN 0 ELSE Sums(s)[k - 1] + s[k].size]
  BY <1>3 DEF Sums
<1>5. Adds(Sums(s), Len(s))
  BY <1>0, <1>4
<1> DEFINE Off == {k \in 0 .. Len(s) : Sums(s)[k] \notin Nat}
<1>6. Off = {}
  <2> SUFFICES ASSUME Off # {} PROVE FALSE
    OBVIOUS
  <2>0. Off \in SUBSET Nat
    BY <1>0
  <2>1. PICK n \in Off : \A m \in Off : n <= m
    <3> HIDE DEF Off
    <3> QED BY <2>0, LeastOf
  <2>2. n # 0 /\ n \in 0 .. Len(s)
    BY <1>5, <2>1
  <2>3. n \in 1 .. Len(s) /\ n - 1 \in 0 .. Len(s) /\ ~ (n <= n - 1)
    BY <1>0, <2>2
  <2>4. n - 1 \notin Off
    <3> HIDE DEF Off
    <3> QED BY <2>1, <2>3
  <2>5. Sums(s)[n - 1] \in Nat /\ Sums(s)[n] = Sums(s)[n - 1] + s[n].size /\ s[n].size \in Nat
    BY <1>0, <1>5, <2>3, <2>4
  <2> QED BY <2>1, <2>5
<1> QED BY <1>4, <1>5, <1>6

\* The sums of a part of s, from the line after d on, are those of s less
\* what comes before.
LEMMA SumsOfPart ==
  ASSUME NEW s \in Seq(AnyLine), NEW t \in Seq(AnyLine), NEW d \in Nat,
         d + Len(t) <= Len(s), \A j \in 1 .. Len(t) : t[j] = s[d + j]
  PROVE  Total(t) = Sums(s)[d + Len(t)] - Sums(s)[d]
<1> DEFINE Off == {j \in 0 .. Len(t) : Sums(t)[j] # Sums(s)[d + j] - Sums(s)[d]}
<1>0. Len(s) \in Nat /\ Len(t) \in Nat
  OBVIOUS
<1>1. Off = {}
  <2> SUFFICES ASSUME Off # {} PROVE FALSE
    OBVIOUS
  <2>0. Off \in SUBSET Nat
    BY <1>0
  <2>1. PICK n \in Off : \A m \in Off : n <= m
    <3> HIDE DEF Off
    <3> QED BY <2>0, LeastOf
  <2>2. n # 0
    <3>1. Sums(t)[0] = 0 /\ Sums(s) \in [0 .. Len(s) -> Nat]
      BY SumsExist
    <3>2. d + 0 = d /\ d \in 0 .. Len(s)
      BY <1>0
    <3>0. Sums(s)[d] \in Nat
      BY <3>1, <3>2
    <3>3. Sums(s)[d] - Sums(s)[d] = 0
      BY <3>0
    <3> QED BY <2>1, <3>1, <3>2, <3>3
  <2>3. n \in 1 .. Len(t) /\ n - 1 \in 0 .. Len(t) /\ n - 1 \notin Off
    <3>1. n \in 0 .. Len(t)
      BY <2>1
    <3>2. n \in 1 .. Len(t) /\ n - 1 \in 0 .. Len(t) /\ ~ (n <= n - 1)
      BY <1>0, <2>2, <3>1
    <3> HIDE DEF Off
    <3> QED BY <2>1, <3>2
  <2>4. Sums(t)[n - 1] = Sums(s)[d + (n - 1)] - Sums(s)[d]
    BY <2>3
  <2>5. Sums(t)[n] = Sums(t)[n - 1] + t[n].size
    BY <2>3, SumsExist
  <2>6. d + n \in 1 .. Len(s) /\ d + n - 1 = d + (n - 1)
    BY <1>0, <2>3
  <2>7. Sums(s)[d + n] = Sums(s)[d + (n - 1)] + s[d + n].size
    BY <2>6, SumsExist
  <2>8. /\ Sums(s)[d + (n - 1)] \in Nat /\ Sums(s)[d] \in Nat
        /\ s[d + n].size \in Nat /\ t[n] = s[d + n]
    <3>1. Sums(s) \in [0 .. Len(s) -> Nat]
      BY SumsExist
    <3>2. d + (n - 1) \in 0 .. Len(s) /\ d \in 0 .. Len(s)
      BY <1>0, <2>3
    <3>3. s[d + n] \in AnyLine
      BY <2>6
    <3> QED BY <2>3, <3>1, <3>2, <3>3 DEF AnyLine
  <2>9. Sums(t)[n] = Sums(s)[d + n] - Sums(s)[d]
    BY <2>4, <2>5, <2>7, <2>8
  <2> QED BY <2>1, <2>9
<1> QED BY <1>0, <1>1, TotalIsSum

LEMMA TotalPrefix ==
  ASSUME NEW s \in Seq(AnyLine), NEW k \in 0 .. Len(s)
  PROVE  /\ Total(SubSeq(s, 1, k)) = Sums(s)[k]
         /\ Total(SubSeq(s, k + 1, Len(s))) = Total(s) - Total(SubSeq(s, 1, k))
         /\ Total(s) \in Nat /\ Total(SubSeq(s, k + 1, Len(s))) \in Nat
<1> DEFINE p == SubSeq(s, 1, k)
           r == SubSeq(s, k + 1, Len(s))
<1>0. Len(s) \in Nat /\ k \in Nat
  OBVIOUS
<1>1. p \in Seq(AnyLine) /\ Len(p) = k /\ \A j \in 1 .. Len(p) : p[j] = s[0 + j]
  BY <1>0
<1>2. r \in Seq(AnyLine) /\ Len(r) = Len(s) - k /\ \A j \in 1 .. Len(r) : r[j] = s[k + j]
  BY <1>0
<1>3. Sums(s) \in [0 .. Len(s) -> Nat] /\ Sums(s)[0] = 0
  BY SumsExist
<1>4. Total(p) = Sums(s)[0 + Len(p)] - Sums(s)[0]
  <2>1. 0 \in Nat /\ 0 + Len(p) <= Len(s)
    BY <1>0, <1>1
  <2> HIDE DEF p
  <2> QED BY <1>1, <2>1, SumsOfPart
<1>5. Total(r) = Sums(s)[k + Len(r)] - Sums(s)[k]
  <2>1. k + Len(r) <= Len(s)
    BY <1>0, <1>2
  <2> HIDE DEF r
  <2> QED BY <1>0, <1>2, <2>1, SumsOfPart
<1>6. Total(s) = Sums(s)[Len(s)]
  BY TotalIsSum
<1>7. 0 + Len(p) = k /\ k + Len(r) = Len(s)
  BY <1>0, <1>1, <1>2
<1>8. Sums(s)[k] \in Nat /\ Sums(s)[Len(s)] \in Nat
  BY <1>0, <1>3
<1>9. Total(r) \in Nat
  <2>1. r \in Seq(AnyLine) /\ Total(r) = Sums(r)[Len(r)]
    BY <1>2, TotalIsSum
  <2>2. Sums(r) \in [0 .. Len(r) -> Nat] /\ Len(r) \in 0 .. Len(r)
    BY <1>0, <1>2, SumsExist
  <2> QED BY <2>1, <2>2
<1> QED BY <1>3, <1>4, <1>5, <1>6, <1>7, <1>8, <1>9

LEMMA TotalAppend ==
  ASSUME NEW s \in Seq(AnyLine), NEW x \in AnyLine
  PROVE  Total(Append(s, x)) = Total(s) + x.size
<1> DEFINE t == Append(s, x)
<1>1. t \in Seq(AnyLine) /\ Len(s) \in Nat /\ Len(t) = Len(s) + 1 /\ t[Len(t)] = x
  OBVIOUS
<1>2. 0 \in Nat /\ 0 + Len(s) = Len(s) /\ Len(s) <= Len(t) /\ \A j \in 1 .. Len(s) : s[j] = t[0 + j]
  OBVIOUS
<1> HIDE DEF t
<1>3. Total(s) = Sums(t)[Len(s)] - Sums(t)[0]
  BY <1>1, <1>2, SumsOfPart
<1>4. /\ Sums(t) \in [0 .. Len(t) -> Nat] /\ Sums(t)[0] = 0
      /\ \A k \in 1 .. Len(t) : Sums(t)[k] = Sums(t)[k - 1] + t[k].size
  BY <1>1, SumsExist
<1>5. Sums(t)[Len(t)] = Sums(t)[Len(s)] + x.size
  <2>1. Len(t) \in 1 .. Len(t) /\ Len(t) - 1 = Len(s)
    BY <1>1
  <2> QED BY <1>1, <1>4, <2>1
<1>6. Sums(t)[Len(s)] \in Nat
  BY <1>1, <1>4
<1>7. Total(t) = Sums(t)[Len(t)]
  BY TotalIsSum
<1> QED BY <1>3, <1>4, <1>5, <1>6, <1>7 DEF t

LEMMA BoundedAppend ==
  ASSUME SinkInv, Bounded, NEW w \in Writers, WriteAppend(w)
  PROVE  Bounded'
<1> DEFINE x == [seq |-> next, by |-> w, size |-> size[w]]
           s == Append(lines, x)
           b == bytes + size[w]
<1>1. PICK k \in StopsAt(s, b) :
        lines' = SubSeq(s, k + 1, Len(s)) /\ bytes' = b - Total(SubSeq(s, 1, k))
  BY DEF WriteAppend
<1>2. x \in AnyLine /\ x.size = size[w] /\ lines \in Seq(AnyLine)
  BY DEF SinkInv, SeqTyped, AnyLine
<1>3. s \in Seq(AnyLine) /\ Len(s) \in Nat
  BY <1>2
<1>4. b = Total(s)
  BY <1>2, TotalAppend DEF Bounded
<1> HIDE DEF x, s, b
<1>5. /\ k \in 0 .. Len(s)
      /\ k = Len(s) - 1 \/ b - Total(SubSeq(s, 1, k)) <= BufferMax
  BY <1>1, <1>3 DEF StopsAt
<1>6. bytes' = Total(lines')
  BY <1>1, <1>3, <1>4, <1>5, TotalPrefix
<1>7. CASE k = Len(s) - 1
  <2>1. Len(lines') = 1
    BY <1>1, <1>3, <1>7, <1>5
  <2> QED BY <1>6, <2>1 DEF Bounded
<1>8. CASE b - Total(SubSeq(s, 1, k)) <= BufferMax
  BY <1>1, <1>6, <1>8 DEF Bounded
<1> QED BY <1>5, <1>7, <1>8

LEMMA BoundedStep == SinkInv /\ Bounded /\ [SinkNext]_sinkVars => Bounded'
<1> SUFFICES ASSUME SinkInv, Bounded, [SinkNext]_sinkVars PROVE Bounded'
  OBVIOUS
<1>1. ASSUME NEW w \in Writers, WriteAppend(w) PROVE Bounded'
  BY <1>1, BoundedAppend
<1>2. CASE Clear
  <2>1. lines' = <<>> /\ bytes' = 0
    BY <1>2 DEF Clear
  <2>2. Total(<<>>) = 0
    <3>1. <<>> \in Seq(AnyLine) /\ Len(<<>>) = 0
      OBVIOUS
    <3> QED BY <3>1, TotalIsSum, SumsExist
  <2> QED BY <2>1, <2>2 DEF Bounded
<1>3. CASE \/ \E w \in Writers : WriteBegin(w) \/ WriteFile(w)
           \/ \E d \in Dirs : SetFile(d)
           \/ UNCHANGED sinkVars
  <2>1. lines' = lines /\ bytes' = bytes
    BY <1>3 DEF WriteBegin, WriteFile, SetFile, buffer, sinkVars
  <2> QED BY <2>1 DEF Bounded
<1> QED BY <1>1, <1>2, <1>3 DEF SinkNext, WriterStep

LEMMA BoundedAtFirst == SinkInit => Bounded
<1>1. <<>> \in Seq(AnyLine) /\ Len(<<>>) = 0
  OBVIOUS
<1>2. Total(<<>>) = 0
  BY <1>1, TotalIsSum, SumsExist
<1> QED BY <1>2 DEF SinkInit, Bounded

\* The byte count the sink keeps is always that of the buffered lines, and
\* the buffer never holds more than logBufferMax bytes unless one line alone
\* is longer.
THEOREM BoundedAlways == SinkSpec => []Bounded
<1>1. SinkInit => SinkInv /\ Bounded
  BY SinkAtFirst, BoundedAtFirst
<1>2. SinkInv /\ Bounded /\ [SinkNext]_sinkVars => SinkInv' /\ Bounded'
  BY SinkStep, BoundedStep
<1> QED BY <1>1, <1>2, PTL DEF SinkSpec
-----------------------------------------------------------------------------
(* The viewer.                                                             *)

ViewTyped ==
    /\ shown \in Seq(AnyLine) /\ vnext \in Nat
    /\ selected \subseteq Rows

Ordered ==
    /\ \A i, j \in Rows : i < j => shown[i].seq < shown[j].seq
    /\ \A i \in Rows : shown[i].seq < vnext
    /\ shown # <<>> => shown[Len(shown)].seq = vnext - 1

\* The viewer is never ahead of the sink.  One that does not know of a Clear
\* has fetched nothing numbered after it.
Trails ==
    /\ vnext <= next
    /\ vgen # gen => vnext <= first
    /\ lines = <<>> => shown = <<>>

\* The lines the viewer has fetched and the sink still keeps are the last
\* lines shown.
Kept ==
    vgen = gen /\ vnext > first =>
        /\ Len(shown) >= vnext - first
        /\ \A j \in 1 .. vnext - first : shown[Len(shown) - (vnext - first) + j] = lines[j]

\* After a pull no line is shown that was dropped, until more are written.
Settled == ~pulling /\ vgen = gen /\ vnext = next => Len(shown) = Len(lines)

ViewInv == SinkInv /\ ViewTyped /\ Ordered /\ Trails /\ Kept /\ Settled

LEMMA ViewerIsSink == ViewerNext => [SinkNext]_sinkVars
<1> SUFFICES ASSUME ViewerNext PROVE [SinkNext]_sinkVars
  OBVIOUS
<1>1. CASE WritersAndFiles
  BY <1>1 DEF WritersAndFiles, SinkNext
<1>2. CASE ClearPressed
  BY <1>2 DEF ClearPressed, SinkNext
<1>3. CASE \/ Pull \/ FollowPressed \/ Reopen
           \/ \E i \in Rows : SelectOne(i) \/ ToggleSelect(i) \/ SelectRange(i)
  BY <1>3 DEF Pull, PullSince, PullStats, FollowPressed, Reopen, SelectOne, ToggleSelect, SelectRange
<1> QED BY <1>1, <1>2, <1>3 DEF ViewerNext

LEMMA TailOf ==
  ASSUME NEW s \in Seq(AnyLine), NEW d \in 0 .. Len(s)
  PROVE  /\ SubSeq(s, d + 1, Len(s)) \in Seq(AnyLine)
         /\ Len(SubSeq(s, d + 1, Len(s))) = Len(s) - d
         /\ \A i \in 1 .. Len(s) - d : SubSeq(s, d + 1, Len(s))[i] = s[d + i]
<1>1. Len(s) \in Nat /\ d \in Nat
  OBVIOUS
<1> QED BY <1>1

LEMMA Joined ==
  ASSUME NEW s \in Seq(AnyLine), NEW t \in Seq(AnyLine)
  PROVE  /\ s \o t \in Seq(AnyLine) /\ Len(s \o t) = Len(s) + Len(t)
         /\ \A i \in 1 .. Len(s) : (s \o t)[i] = s[i]
         /\ \A i \in 1 .. Len(t) : (s \o t)[Len(s) + i] = t[i]
         /\ s = <<>> => s \o t = t
<1>1. Len(s) \in Nat /\ Len(t) \in Nat
  OBVIOUS
<1>2. \A i \in 1 .. Len(t) : (s \o t)[Len(s) + i] = t[i]
  BY <1>1
<1>3. \A i \in 1 .. Len(s) : (s \o t)[i] = s[i]
  BY <1>1
<1>4. s = <<>> => s \o t = t
  OBVIOUS
<1> QED BY <1>1, <1>2, <1>3, <1>4

\* What a pull fetches: the last lines of the buffer.
LEMMA SinceIsTail ==
  ASSUME SinkInv, NEW seq \in Nat, seq <= next, NEW d \in Nat,
         d = IF seq < first THEN 0 ELSE seq - first
  PROVE  /\ d <= Len(lines) /\ first + d <= next
         /\ Since(seq) \in Seq(AnyLine) /\ Len(Since(seq)) = Len(lines) - d
         /\ \A i \in 1 .. Len(lines) - d :
               Since(seq)[i] = lines[d + i] /\ Since(seq)[i].seq = first + d + i - 1
<1>1. /\ lines \in Seq(AnyLine) /\ Len(lines) \in Nat /\ first \in Nat /\ next \in Nat
      /\ next = first + Len(lines)
      /\ \A i \in 1 .. Len(lines) : lines[i].seq = first + i - 1
  BY DEF SinkInv, SeqTyped, Numbered
<1>2. Since(seq) = SubSeq(lines, d + 1, Len(lines))
  <2>1. CASE seq < first
    BY <1>1, <2>1 DEF Since
  <2>2. CASE ~ (seq < first)
    <3>1. d = seq - first /\ ~ (seq > next)
      BY <1>1, <2>2
    <3> QED BY <2>2, <3>1 DEF Since
  <2> QED BY <2>1, <2>2
<1>3. d <= Len(lines) /\ first + d <= next
  BY <1>1
<1>4. /\ Since(seq) \in Seq(AnyLine) /\ Len(Since(seq)) = Len(lines) - d
      /\ \A i \in 1 .. Len(lines) - d : Since(seq)[i] = lines[d + i]
  <2>1. d \in 0 .. Len(lines)
    BY <1>1, <1>3
  <2>2. /\ SubSeq(lines, d + 1, Len(lines)) \in Seq(AnyLine)
        /\ Len(SubSeq(lines, d + 1, Len(lines))) = Len(lines) - d
        /\ \A i \in 1 .. Len(lines) - d : SubSeq(lines, d + 1, Len(lines))[i] = lines[d + i]
    BY <1>1, <2>1, TailOf
  <2> QED BY <1>2, <2>2
<1>5. \A i \in 1 .. Len(lines) - d : lines[d + i].seq = first + d + i - 1
  <2> SUFFICES ASSUME NEW i \in 1 .. Len(lines) - d PROVE lines[d + i].seq = first + d + i - 1
    OBVIOUS
  <2>1. d + i \in 1 .. Len(lines) /\ first + (d + i) - 1 = first + d + i - 1
    BY <1>1, <1>3
  <2> QED BY <1>1, <2>1
<1> QED BY <1>3, <1>4, <1>5

\* What one more line does to the buffer.
LEMMA AppendShape ==
  ASSUME SinkInv, NEW w \in Writers, WriteAppend(w)
  PROVE  \E k \in 0 .. Len(lines) :
            /\ first' = first + k /\ next' = next + 1 /\ gen' = gen
            /\ Len(lines') = Len(lines) + 1 - k
            /\ \A j \in 1 .. Len(lines) - k : lines'[j] = lines[k + j]
<1> DEFINE s == Append(lines, [seq |-> next, by |-> w, size |-> size[w]])
<1>0. lines \in Seq(AnyLine) /\ Len(lines) \in Nat
  BY DEF SinkInv, SeqTyped
<1>1. PICK k \in 0 .. Len(s) - 1 : lines' = SubSeq(s, k + 1, Len(s)) /\ first' = first + k
  BY DEF WriteAppend, StopsAt
<1>2. s \in Seq(AnyLine) /\ Len(s) = Len(lines) + 1 /\ \A j \in 1 .. Len(lines) : s[j] = lines[j]
  <2>1. [seq |-> next, by |-> w, size |-> size[w]] \in AnyLine
    BY DEF SinkInv, SeqTyped, AnyLine
  <2> QED BY <1>0, <2>1
<1> HIDE DEF s
<1>3. k \in 0 .. Len(lines)
  BY <1>0, <1>1, <1>2
<1>4. Len(lines') = Len(lines) + 1 - k /\ \A j \in 1 .. Len(lines) - k : lines'[j] = lines[k + j]
  <2>1. /\ lines' \in Seq(AnyLine) /\ Len(lines') = Len(s) - k
        /\ \A j \in 1 .. Len(s) - k : lines'[j] = s[k + j]
    <3>1. k \in 0 .. Len(s)
      BY <1>0, <1>2, <1>3
    <3> QED BY <1>1, <1>2, <3>1, TailOf
  <2>2. ASSUME NEW j \in 1 .. Len(lines) - k PROVE lines'[j] = lines[k + j]
    <3>1. j \in 1 .. Len(s) - k /\ k + j \in 1 .. Len(lines)
      BY <1>0, <1>2, <1>3
    <3> QED BY <1>2, <2>1, <3>1
  <2> QED BY <1>2, <2>1, <2>2
<1> QED BY <1>1, <1>3, <1>4 DEF WriteAppend

\* Writing moves the sink under the viewer, which keeps what it shows.
LEMMA ViewInvAppend ==
  ASSUME ViewInv, NEW w \in Writers, WriteAppend(w), UNCHANGED viewVars
  PROVE  ViewInv'
<1>1. SinkInv'
  BY SinkStep DEF ViewInv, SinkNext, WriterStep
<1>2. PICK k \in 0 .. Len(lines) :
        /\ first' = first + k /\ next' = next + 1 /\ gen' = gen
        /\ Len(lines') = Len(lines) + 1 - k
        /\ \A j \in 1 .. Len(lines) - k : lines'[j] = lines[k + j]
  BY AppendShape DEF ViewInv
<1>3. /\ Len(lines) \in Nat /\ first \in Nat /\ next \in Nat /\ next = first + Len(lines)
      /\ vnext \in Nat /\ vnext <= next /\ Len(shown) \in Nat
  BY DEF ViewInv, SinkInv, SeqTyped, Numbered, ViewTyped, Trails
<1>4. shown' = shown /\ vnext' = vnext /\ vgen' = vgen /\ selected' = selected /\ pulling' = pulling
  BY DEF viewVars
<1>5. ViewTyped' /\ Ordered'
  BY <1>4 DEF ViewInv, ViewTyped, Ordered, Rows
<1>6. Trails'
  <2>1. vnext <= next' /\ (vgen # gen => vnext <= first')
    BY <1>2, <1>3 DEF ViewInv, Trails
  <2>2. lines' # <<>>
    <3>1. Len(lines') # 0
      BY <1>2, <1>3
    <3> QED BY <3>1
  <2> QED BY <1>2, <1>4, <2>1, <2>2 DEF Trails
<1>7. Kept'
  <2> SUFFICES ASSUME vgen = gen, vnext > first + k
               PROVE  /\ Len(shown) >= vnext - (first + k)
                      /\ \A j \in 1 .. vnext - (first + k) :
                            shown[Len(shown) - (vnext - (first + k)) + j] = lines'[j]
    BY <1>2, <1>4 DEF Kept
  <2>1. vnext > first
    BY <1>2, <1>3
  <2>2. /\ Len(shown) >= vnext - first
        /\ \A j \in 1 .. vnext - first : shown[Len(shown) - (vnext - first) + j] = lines[j]
    BY <2>1 DEF ViewInv, Kept
  <2>3. ASSUME NEW j \in 1 .. vnext - (first + k)
        PROVE  shown[Len(shown) - (vnext - (first + k)) + j] = lines'[j]
    <3>1. /\ k + j \in 1 .. vnext - first /\ j \in 1 .. Len(lines) - k
          /\ Len(shown) - (vnext - (first + k)) + j = Len(shown) - (vnext - first) + (k + j)
      BY <1>2, <1>3
    <3> QED BY <1>2, <2>2, <3>1
  <2>4. Len(shown) >= vnext - (first + k)
    BY <1>3, <2>2
  <2> QED BY <2>3, <2>4
<1>8. Settled'
  BY <1>2, <1>3, <1>4 DEF Settled
<1> QED BY <1>1, <1>5, <1>6, <1>7, <1>8 DEF ViewInv

\* The first half of a pull.
LEMMA ViewInvPull ==
  ASSUME ViewInv, PullSince
  PROVE  ViewInv'
<1> DEFINE new == Since(vnext)
           d == IF vnext < first THEN 0 ELSE vnext - first
<1>1. /\ lines \in Seq(AnyLine) /\ Len(lines) \in Nat /\ first \in Nat /\ next \in Nat
      /\ next = first + Len(lines) /\ vnext \in Nat /\ vnext <= next
      /\ shown \in Seq(AnyLine) /\ Len(shown) \in Nat
      /\ \A i \in 1 .. Len(lines) : lines[i].seq = first + i - 1
  BY DEF ViewInv, SinkInv, SeqTyped, Numbered, ViewTyped, Trails
<1>2. d \in Nat
  BY <1>1
<1>3. /\ d <= Len(lines) /\ new \in Seq(AnyLine) /\ Len(new) = Len(lines) - d
      /\ \A i \in 1 .. Len(lines) - d : new[i] = lines[d + i] /\ new[i].seq = first + d + i - 1
  BY <1>1, <1>2, SinceIsTail DEF ViewInv
<1>4. /\ ~pulling /\ vgen' = gen /\ vnext' = next
      /\ shown' = (IF gen # vgen THEN <<>> ELSE shown) \o new
      /\ pulling' = (gen # vgen \/ new # <<>>)
      /\ IF gen # vgen THEN selected' = {} ELSE selected' = selected
  BY DEF PullSince, Deselect
<1>5. /\ lines' = lines /\ first' = first /\ next' = next /\ gen' = gen /\ size' = size
  BY DEF PullSince, sinkVars, buffer, writing
<1>6. SinkInv'
  BY <1>5 DEF ViewInv, SinkInv, SeqTyped, Numbered
<1>7. CASE gen # vgen
  <2>1. vnext <= first /\ d = 0
    BY <1>1, <1>7 DEF ViewInv, Trails
  <2> HIDE DEF new, d
  <2>2. shown' = new /\ selected' = {} /\ pulling'
    <3>1. <<>> \in Seq(AnyLine) /\ <<>> \o new = new
      <4>1. <<>> \in Seq(AnyLine)
        OBVIOUS
      <4> QED BY <1>3, <4>1, Joined
    <3>2. shown' = <<>> \o new
      BY <1>4, <1>7
    <3>3. pulling'
      BY <1>4, <1>7, Zenon
    <3> QED BY <1>4, <1>7, <3>1, <3>2, <3>3
  <2>3. /\ Len(new) = Len(lines)
        /\ \A i \in 1 .. Len(new) : new[i] = lines[i] /\ new[i].seq = first + i - 1
    BY <1>1, <1>3, <2>1
  <2>4. ViewTyped'
    BY <1>1, <1>3, <1>4, <2>2 DEF ViewTyped
  <2>5. Ordered'
    <3>1. \A i, j \in 1 .. Len(new) : i < j => new[i].seq < new[j].seq
      BY <1>1, <2>3
    <3>2. \A i \in 1 .. Len(new) : new[i].seq < next
      BY <1>1, <2>3
    <3>3. new # <<>> => new[Len(new)].seq = next - 1
      <4> SUFFICES ASSUME new # <<>> PROVE new[Len(new)].seq = next - 1
        OBVIOUS
      <4>1. Len(new) \in 1 .. Len(new)
        BY <1>3
      <4> QED BY <1>1, <2>3, <4>1
    <3> QED BY <1>4, <2>2, <3>1, <3>2, <3>3 DEF Ordered, Rows
  <2>6. Trails'
    <3>1. lines = <<>> => new = <<>>
      BY <1>3, <2>3
    <3> QED BY <1>1, <1>4, <1>5, <2>2, <3>1 DEF Trails
  <2>7. Kept'
    <3>1. next - first = Len(lines) /\ Len(new) - Len(lines) = 0 /\ Len(new) >= Len(lines)
      BY <1>1, <2>3
    <3>2. \A j \in 1 .. Len(lines) : new[0 + j] = lines[j]
      BY <1>1, <2>3
    <3>3. /\ Len(shown') - (vnext' - first') = 0 /\ vnext' - first' = Len(lines')
          /\ Len(shown') >= vnext' - first'
          /\ \A j \in 1 .. Len(lines') : shown'[0 + j] = lines'[j]
      BY <1>4, <1>5, <2>2, <3>1, <3>2
    <3> QED BY <3>3 DEF Kept
  <2>8. Settled'
    BY <2>2 DEF Settled
  <2> QED BY <1>6, <2>4, <2>5, <2>6, <2>7, <2>8 DEF ViewInv
<1>8. CASE gen = vgen
  <2>0. /\ vnext > first => vnext - first = d /\ first + d = vnext
        /\ ~ (vnext > first) => d = 0 /\ first + d >= vnext
    BY <1>1
  <2> HIDE DEF new, d
  <2>1. shown' = shown \o new /\ selected' = selected
    BY <1>4, <1>8
  <2>2. /\ shown' \in Seq(AnyLine) /\ Len(shown') = Len(shown) + Len(new)
        /\ \A i \in 1 .. Len(shown) : shown'[i] = shown[i]
        /\ \A i \in 1 .. Len(new) : shown'[Len(shown) + i] = new[i]
    BY <1>1, <1>3, <2>1, Joined
  <2>3. ViewTyped'
    <3>1. selected \subseteq 1 .. Len(shown) /\ 1 .. Len(shown) \subseteq 1 .. Len(shown')
      BY <1>1, <1>2, <1>3, <2>2 DEF ViewInv, ViewTyped, Rows
    <3> QED BY <1>1, <1>4, <2>1, <2>2, <3>1 DEF ViewTyped, Rows
  <2>4. new = <<>> => shown = <<>> \/ vnext = next
    <3> SUFFICES ASSUME new = <<>>, lines # <<>> PROVE vnext = next
      BY DEF ViewInv, Trails
    <3>1. Len(lines) - d = 0 /\ Len(lines) # 0
      BY <1>1, <1>3
    <3> QED BY <1>1, <1>2, <1>3, <2>0, <3>1
  <2>5. Ordered'
    <3>1. /\ \A i, j \in 1 .. Len(shown) : i < j => shown[i].seq < shown[j].seq
          /\ \A i \in 1 .. Len(shown) : shown[i].seq < vnext
          /\ shown # <<>> => shown[Len(shown)].seq = vnext - 1
      BY DEF ViewInv, Ordered, Rows
    <3>2. \A i \in 1 .. Len(shown) : shown[i].seq \in Nat
      <4>1. \A i \in 1 .. Len(shown) : shown[i] \in AnyLine
        BY <1>1
      <4> QED BY <4>1 DEF AnyLine
    <3>3. \A i \in 1 .. Len(new) :
             /\ shown'[Len(shown) + i].seq = first + d + i - 1
             /\ vnext <= first + d + i - 1 /\ first + d + i - 1 < next
      <4> SUFFICES ASSUME NEW i \in 1 .. Len(new)
                   PROVE  /\ shown'[Len(shown) + i].seq = first + d + i - 1
                          /\ vnext <= first + d + i - 1 /\ first + d + i - 1 < next
        OBVIOUS
      <4>1. shown'[Len(shown) + i] = new[i] /\ new[i].seq = first + d + i - 1
        BY <1>3, <2>2
      <4>2. vnext <= first + d + i - 1 /\ first + d + i - 1 < next
        BY <1>1, <1>2, <1>3, <2>0
      <4> QED BY <4>1, <4>2
    <3>4. \A i \in 1 .. Len(shown') : i \notin 1 .. Len(shown) =>
             i - Len(shown) \in 1 .. Len(new) /\ Len(shown) + (i - Len(shown)) = i
      BY <1>1, <1>2, <1>3, <2>2
    <3>5. \A i \in 1 .. Len(shown') : shown'[i].seq < next
      <4> SUFFICES ASSUME NEW i \in 1 .. Len(shown') PROVE shown'[i].seq < next
        OBVIOUS
      <4>1. CASE i \in 1 .. Len(shown)
        BY <1>1, <2>2, <3>1, <3>2, <4>1
      <4>2. CASE i \notin 1 .. Len(shown)
        BY <3>3, <3>4, <4>2
      <4> QED BY <4>1, <4>2
    <3>6. ASSUME NEW i \in 1 .. Len(shown'), NEW j \in 1 .. Len(shown'), i < j
          PROVE  shown'[i].seq < shown'[j].seq
      <4>1. CASE j \in 1 .. Len(shown)
        <5>1. i \in 1 .. Len(shown)
          BY <1>1, <3>6, <4>1
        <5> QED BY <2>2, <3>1, <3>6, <4>1, <5>1
      <4>2. CASE i \in 1 .. Len(shown) /\ j \notin 1 .. Len(shown)
        <5>1. shown'[i].seq \in Nat /\ shown'[i].seq < vnext
          BY <2>2, <3>1, <3>2, <4>2
        <5> DEFINE y == j - Len(shown)
        <5>2. y \in 1 .. Len(new) /\ Len(shown) + y = j
          BY <3>4, <4>2
        <5> HIDE DEF y
        <5>3. shown'[j].seq = first + d + y - 1 /\ vnext <= first + d + y - 1
          BY <3>3, <5>2
        <5> QED BY <1>1, <1>2, <1>3, <5>1, <5>2, <5>3
      <4>3. CASE i \notin 1 .. Len(shown) /\ j \notin 1 .. Len(shown)
        <5>1. shown'[i].seq = first + d + (i - Len(shown)) - 1
          BY <3>3, <3>4, <4>3
        <5>2. shown'[j].seq = first + d + (j - Len(shown)) - 1
          BY <3>3, <3>4, <4>3
        <5> QED BY <1>1, <1>2, <3>6, <5>1, <5>2
      <4> QED BY <4>1, <4>2, <4>3
    <3>7. shown' # <<>> => shown'[Len(shown')].seq = next - 1
      <4>1. CASE new = <<>>
        <5>1. shown' = shown
          BY <1>1, <2>1, <4>1
        <5> QED BY <2>4, <3>1, <4>1, <5>1
      <4>2. CASE new # <<>>
        <5>1. Len(new) \in 1 .. Len(new)
          BY <1>3, <4>2
        <5>2. shown'[Len(shown')].seq = first + d + Len(new) - 1
          BY <2>2, <3>3, <5>1
        <5> QED BY <1>1, <1>2, <1>3, <5>2
      <4> QED BY <4>1, <4>2
    <3> QED BY <1>4, <3>5, <3>6, <3>7 DEF Ordered, Rows
  <2>6. Trails'
    <3>1. lines = <<>> => shown' = <<>>
      <4> SUFFICES ASSUME lines = <<>> PROVE shown' = <<>>
        OBVIOUS
      <4>1. shown = <<>> /\ Len(new) = 0
        BY <1>2, <1>3 DEF ViewInv, Trails
      <4> QED BY <1>3, <2>2, <4>1
    <3> QED BY <1>1, <1>4, <1>5, <3>1 DEF Trails
  <2>7. Kept'
    <3> SUFFICES /\ Len(shown') >= Len(lines)
                 /\ \A j \in 1 .. Len(lines) : shown'[Len(shown') - Len(lines) + j] = lines[j]
      <4>1. next - first = Len(lines)
        BY <1>1
      <4> QED BY <1>4, <1>5, <4>1 DEF Kept
    <3>1. CASE ~ (vnext > first)
      <4>1. Len(new) = Len(lines) /\ \A i \in 1 .. Len(lines) : new[i] = lines[i]
        BY <1>1, <1>3, <2>0, <3>1
      <4>2. Len(shown') - Len(lines) = Len(shown) /\ Len(shown') >= Len(lines)
        BY <1>1, <2>2, <4>1
      <4> QED BY <2>2, <4>1, <4>2
    <3>2. CASE vnext > first
      <4>1. Len(shown) >= d /\ \A j \in 1 .. d : shown[Len(shown) - d + j] = lines[j]
        BY <1>8, <2>0, <3>2 DEF ViewInv, Kept
      <4>2. Len(shown') - Len(lines) = Len(shown) - d
        BY <1>1, <1>2, <1>3, <2>2
      <4>3. ASSUME NEW j \in 1 .. Len(lines) PROVE shown'[Len(shown) - d + j] = lines[j]
        <5>1. CASE j <= d
          <6>1. j \in 1 .. d /\ Len(shown) - d + j \in 1 .. Len(shown)
            BY <1>1, <1>2, <4>1, <5>1
          <6> QED BY <2>2, <4>1, <6>1
        <5>2. CASE ~ (j <= d)
          <6>1. j - d \in 1 .. Len(new) /\ Len(shown) - d + j = Len(shown) + (j - d) /\ d + (j - d) = j
            BY <1>1, <1>2, <1>3, <5>2
          <6> QED BY <1>3, <2>2, <6>1
        <5> QED BY <5>1, <5>2
      <4> QED BY <1>1, <1>2, <1>3, <2>2, <4>1, <4>2, <4>3
    <3> QED BY <3>1, <3>2
  <2>8. Settled'
    <3> SUFFICES ASSUME ~pulling' PROVE Len(shown') = Len(lines)
      BY <1>5 DEF Settled
    <3>1. new = <<>>
      BY <1>4
    <3>2. shown' = shown
      BY <1>1, <2>1, <3>1
    <3>3. CASE vnext = next
      BY <1>4, <1>8, <3>2, <3>3 DEF ViewInv, Settled
    <3>4. CASE shown = <<>> /\ vnext # next
      <4>1. lines = <<>>
        <5>1. Len(lines) - d = 0
          BY <1>3, <3>1
        <5>2. Len(lines) = 0
          BY <1>1, <1>2, <2>0, <3>4, <5>1
        <5> QED BY <1>1, <5>2
      <4> QED BY <3>2, <3>4, <4>1
    <3> QED BY <2>4, <3>1, <3>3, <3>4
  <2> QED BY <1>6, <2>3, <2>5, <2>6, <2>7, <2>8 DEF ViewInv
<1> QED BY <1>7, <1>8

\* The second half: lines the sink has dropped meanwhile leave the top.
LEMMA ViewInvTrim ==
  ASSUME ViewInv, PullStats
  PROVE  ViewInv'
<1>1. /\ lines \in Seq(AnyLine) /\ Len(lines) \in Nat /\ first \in Nat /\ next \in Nat
      /\ next = first + Len(lines) /\ vnext \in Nat /\ vnext <= next
      /\ shown \in Seq(AnyLine) /\ Len(shown) \in Nat
  BY DEF ViewInv, SinkInv, SeqTyped, Numbered, ViewTyped, Trails
<1>2. /\ lines' = lines /\ first' = first /\ next' = next /\ gen' = gen /\ size' = size
      /\ vnext' = vnext /\ vgen' = vgen /\ pulling' = FALSE
  BY DEF PullStats, sinkVars, buffer, writing
<1>3. SinkInv'
  BY <1>2 DEF ViewInv, SinkInv, SeqTyped, Numbered
<1>4. vgen = gen /\ vnext = next => Len(shown) >= Len(lines)
  <2>1. CASE vnext > first
    BY <1>1, <2>1 DEF ViewInv, Kept
  <2>2. CASE ~ (vnext > first)
    BY <1>1, <2>2
  <2> QED BY <2>1, <2>2
<1>5. CASE Len(shown) > Len(lines)
  <2> DEFINE d == Len(shown) - Len(lines)
  <2>1. d \in 1 .. Len(shown) /\ d \in Nat
    BY <1>1, <1>5
  <2>2. shown' = SubSeq(shown, d + 1, Len(shown)) /\ selected' = {}
    BY <1>5 DEF PullStats, Deselect
  <2>3. Len(lines) # 0
    <3> SUFFICES ASSUME Len(lines) = 0 PROVE FALSE
      OBVIOUS
    <3>1. lines = <<>>
      BY <1>1
    <3>2. shown = <<>>
      BY <3>1 DEF ViewInv, Trails
    <3> QED BY <1>5, <3>1, <3>2
  <2>4. Len(shown) - d = Len(lines)
    BY <1>1
  <2> HIDE DEF d
  <2>5. /\ shown' \in Seq(AnyLine) /\ Len(shown') = Len(lines)
        /\ \A i \in 1 .. Len(lines) : shown'[i] = shown[d + i]
    <3>1. d \in 0 .. Len(shown)
      BY <1>1, <2>1
    <3>2. /\ SubSeq(shown, d + 1, Len(shown)) \in Seq(AnyLine)
          /\ Len(SubSeq(shown, d + 1, Len(shown))) = Len(shown) - d
          /\ \A i \in 1 .. Len(shown) - d : SubSeq(shown, d + 1, Len(shown))[i] = shown[d + i]
      BY <1>1, <3>1, TailOf
    <3> QED BY <2>2, <2>4, <3>2
  <2>6. ViewTyped'
    BY <1>1, <1>2, <2>2, <2>5 DEF ViewTyped
  <2>7. Ordered'
    <3>1. /\ \A i, j \in 1 .. Len(shown) : i < j => shown[i].seq < shown[j].seq
          /\ \A i \in 1 .. Len(shown) : shown[i].seq < vnext
          /\ shown # <<>> => shown[Len(shown)].seq = vnext - 1
      BY DEF ViewInv, Ordered, Rows
    <3>2. \A i \in 1 .. Len(lines) : d + i \in 1 .. Len(shown)
      BY <1>1, <2>1, <2>4
    <3>3. \A i, j \in 1 .. Len(lines) : i < j => d + i < d + j
      BY <1>1, <2>1
    <3>4. \A i, j \in 1 .. Len(lines) : i < j => shown'[i].seq < shown'[j].seq
      BY <2>5, <3>1, <3>2, <3>3
    <3>5. \A i \in 1 .. Len(lines) : shown'[i].seq < vnext
      BY <2>5, <3>1, <3>2
    <3>6. shown'[Len(lines)].seq = vnext - 1
      <4>1. Len(lines) \in 1 .. Len(lines) /\ d + Len(lines) = Len(shown) /\ shown # <<>>
        BY <1>1, <1>5, <2>1, <2>3, <2>4
      <4> QED BY <2>5, <3>1, <4>1
    <3> QED BY <1>2, <2>5, <3>4, <3>5, <3>6 DEF Ordered, Rows
  <2>8. Trails'
    <3>1. lines # <<>>
      BY <2>3
    <3> QED BY <1>2, <3>1 DEF ViewInv, Trails
  <2>9. Kept'
    <3> SUFFICES ASSUME vgen = gen, vnext > first
                 PROVE  /\ Len(shown') >= vnext - first
                        /\ \A j \in 1 .. vnext - first :
                              shown'[Len(shown') - (vnext - first) + j] = lines[j]
      BY <1>2 DEF Kept
    <3>1. \A j \in 1 .. vnext - first : shown[Len(shown) - (vnext - first) + j] = lines[j]
      BY DEF ViewInv, Kept
    <3>2. Len(shown') >= vnext - first
      BY <1>1, <2>5
    <3>3. ASSUME NEW j \in 1 .. vnext - first
          PROVE  shown'[Len(shown') - (vnext - first) + j] = lines[j]
      <4>1. /\ Len(lines) - (vnext - first) + j \in 1 .. Len(lines)
            /\ d + (Len(lines) - (vnext - first) + j) = Len(shown) - (vnext - first) + j
        BY <1>1, <2>1, <2>4
      <4> QED BY <2>5, <3>1, <4>1
    <3> QED BY <3>2, <3>3
  <2>10. Settled'
    BY <1>2, <2>5 DEF Settled
  <2> QED BY <1>3, <2>6, <2>7, <2>8, <2>9, <2>10 DEF ViewInv
<1>6. CASE ~ (Len(shown) > Len(lines))
  <2>1. shown' = shown /\ selected' = selected
    BY <1>6 DEF PullStats
  <2>2. ViewTyped' /\ Ordered' /\ Trails' /\ Kept'
    BY <1>2, <2>1 DEF ViewInv, ViewTyped, Ordered, Trails, Kept, Rows
  <2>3. Settled'
    BY <1>1, <1>2, <1>4, <1>6, <2>1 DEF Settled
  <2> QED BY <1>3, <2>2, <2>3 DEF ViewInv
<1> QED BY <1>5, <1>6

\* Clear, whether the viewer knows of it or not, and a new viewer.
LEMMA ViewInvEmpty ==
  ASSUME ViewInv, ClearPressed \/ Reopen
  PROVE  ViewInv'
<1>1. SinkInv'
  BY SinkStep DEF ViewInv, SinkNext, ClearPressed, Reopen
<1>2. /\ lines \in Seq(AnyLine) /\ Len(lines) \in Nat /\ first \in Nat /\ next \in Nat
      /\ next = first + Len(lines) /\ vnext \in Nat /\ vnext <= next
  BY DEF ViewInv, SinkInv, SeqTyped, Numbered, ViewTyped, Trails
<1>3. shown' = <<>> /\ selected' = {} /\ vnext' \in Nat /\ vnext' <= next' /\ next' = next
  BY <1>2 DEF ClearPressed, Clear, Reopen, Deselect, sinkVars, buffer
<1>4. shown' \in Seq(AnyLine) /\ Len(shown') = 0
  BY <1>3
<1>5. ViewTyped' /\ Ordered'
  BY <1>3, <1>4 DEF ViewTyped, Ordered, Rows
<1>6. vnext' <= first'
  BY <1>2 DEF ClearPressed, Clear, Reopen, sinkVars, buffer
<1>7. Trails' /\ Kept'
  <2>1. first' \in Nat /\ ~ (vnext' > first')
    BY <1>1, <1>3, <1>6 DEF SinkInv, SeqTyped
  <2> QED BY <1>3, <1>6, <2>1 DEF Trails, Kept
<1>8. Settled'
  <2> SUFFICES ASSUME vnext' = next' PROVE Len(shown') = Len(lines')
    BY DEF Settled
  <2>1. next' = first' + Len(lines') /\ Len(lines') \in Nat /\ first' \in Nat
    BY <1>1 DEF SinkInv, SeqTyped, Numbered
  <2> QED BY <1>4, <1>6, <2>1
<1> QED BY <1>1, <1>5, <1>7, <1>8 DEF ViewInv

LEMMA ViewInvStep == ViewInv /\ [ViewerNext]_allVars => ViewInv'
<1> SUFFICES ASSUME ViewInv, [ViewerNext]_allVars PROVE ViewInv'
  OBVIOUS
<1>1. ASSUME NEW w \in Writers, WriteAppend(w), UNCHANGED viewVars PROVE ViewInv'
  BY <1>1, ViewInvAppend
<1>2. CASE PullSince
  BY <1>2, ViewInvPull
<1>3. CASE PullStats
  BY <1>3, ViewInvTrim
<1>4. CASE ClearPressed \/ Reopen
  BY <1>4, ViewInvEmpty
<1>5. CASE \/ \E i \in Rows : SelectOne(i) \/ ToggleSelect(i) \/ SelectRange(i)
           \/ FollowPressed
           \/ \E w \in Writers : (WriteBegin(w) \/ WriteFile(w)) /\ UNCHANGED viewVars
           \/ \E d \in Dirs : SetFile(d) /\ UNCHANGED viewVars
           \/ UNCHANGED allVars
  <2>1. SinkInv'
    <3>1. [SinkNext]_sinkVars
      BY <1>5 DEF SelectOne, ToggleSelect, SelectRange, FollowPressed, SinkNext, WriterStep, allVars
    <3> QED BY <3>1, SinkStep DEF ViewInv
  <2>2. /\ lines' = lines /\ first' = first /\ next' = next /\ gen' = gen
        /\ shown' = shown /\ vnext' = vnext /\ vgen' = vgen /\ pulling' = pulling
    BY <1>5 DEF SelectOne, ToggleSelect, SelectRange, FollowPressed, WriteBegin, WriteFile, SetFile,
                buffer, sinkVars, viewVars, allVars
  <2>3. selected' \subseteq Rows
    <3>1. selected \subseteq Rows
      BY DEF ViewInv, ViewTyped
    <3>2. CASE \E i \in Rows : SelectOne(i) \/ ToggleSelect(i) \/ SelectRange(i)
      BY <3>1, <3>2 DEF SelectOne, ToggleSelect, SelectRange
    <3>3. CASE ~ \E i \in Rows : SelectOne(i) \/ ToggleSelect(i) \/ SelectRange(i)
      <4>1. selected' = selected \/ selected' = {}
        BY <1>5, <3>3 DEF FollowPressed, Deselect, viewVars, allVars
      <4> QED BY <3>1, <4>1
    <3> QED BY <3>2, <3>3
  <2>4. ViewTyped' /\ Ordered' /\ Trails' /\ Kept' /\ Settled'
    BY <2>2, <2>3 DEF ViewInv, ViewTyped, Ordered, Trails, Kept, Settled, Rows
  <2> QED BY <2>1, <2>4 DEF ViewInv
<1> QED BY <1>1, <1>2, <1>3, <1>4, <1>5 DEF ViewerNext, WritersAndFiles, WriterStep, Pull

LEMMA ViewInvAtFirst == ViewInit => ViewInv
<1> SUFFICES ASSUME ViewInit PROVE ViewInv
  OBVIOUS
<1>1. SinkInv
  BY SinkAtFirst DEF ViewInit
<1>2. /\ shown = <<>> /\ vnext = 0 /\ vgen = 0 /\ selected = {} /\ lines = <<>>
      /\ first = 0 /\ next = 0 /\ gen = 0
  BY DEF ViewInit, SinkInit
<1>3. shown \in Seq(AnyLine) /\ Len(shown) = 0 /\ 0 \in Nat /\ 0 <= 0 /\ ~ (0 > 0)
  BY <1>2
<1> QED BY <1>1, <1>2, <1>3 DEF ViewInv, ViewTyped, Ordered, Trails, Kept, Settled, Rows

\* Whatever is written, dropped or cleared between the two halves of a pull,
\* and however often the window is opened again, the view is in the order
\* written, without a line twice, and ends with the last line fetched.
THEOREM InOrderAlways == ViewerSpec => []InOrder
<1>1. ViewInv => InOrder
  BY DEF ViewInv, Ordered, InOrder, Last
<1> QED BY <1>1, ViewInvAtFirst, ViewInvStep, PTL DEF ViewerSpec

\* A viewer that has fetched the last line shows exactly what the sink keeps.
THEOREM CaughtUpAlways == ViewerSpec => []CaughtUp
<1>1. ViewInv => CaughtUp
  <2> SUFFICES ASSUME ViewInv, ~pulling, vgen = gen, vnext = next PROVE shown = lines
    BY DEF CaughtUp
  <2>1. /\ lines \in Seq(AnyLine) /\ shown \in Seq(AnyLine) /\ Len(lines) \in Nat
        /\ first \in Nat /\ next = first + Len(lines)
        /\ Len(shown) = Len(lines)
    BY DEF ViewInv, SinkInv, SeqTyped, Numbered, ViewTyped, Settled
  <2>2. \A j \in 1 .. Len(lines) : shown[j] = lines[j]
    <3> SUFFICES ASSUME NEW j \in 1 .. Len(lines) PROVE shown[j] = lines[j]
      OBVIOUS
    <3>1. vnext > first /\ vnext - first = Len(lines) /\ Len(shown) - Len(lines) + j = j
      BY <2>1
    <3> QED BY <2>1, <3>1 DEF ViewInv, Kept
  <2> QED BY <2>1, <2>2
<1> QED BY <1>1, ViewInvAtFirst, ViewInvStep, PTL DEF ViewerSpec

\* A row that stays selected never becomes another line.
THEOREM SelectionNeverShifts == ViewerSpec => SelectionStable
<1> DEFINE Stays == \A i \in selected \cap selected' : shown'[i] = shown[i]
<1>1. ViewInv /\ [ViewerNext]_allVars => [Stays]_allVars
  <2> SUFFICES ASSUME ViewInv, ViewerNext PROVE Stays
    OBVIOUS
  <2>1. shown \in Seq(AnyLine) /\ selected \subseteq 1 .. Len(shown) /\ lines \in Seq(AnyLine)
    BY DEF ViewInv, ViewTyped, Rows, SinkInv, SeqTyped
  <2>2. CASE selected' = {} \/ shown' = shown
    BY <2>2
  <2>3. CASE PullSince /\ gen = vgen
    <3>1. shown' = shown \o Since(vnext)
      BY <2>3 DEF PullSince
    <3>2. Since(vnext) \in Seq(AnyLine)
      <4>1. vnext \in Nat /\ first \in Nat /\ vnext <= next
        BY DEF ViewInv, ViewTyped, Trails, SinkInv, SeqTyped
      <4>2. (IF vnext < first THEN 0 ELSE vnext - first) \in Nat
        BY <4>1
      <4> QED BY <4>1, <4>2, SinceIsTail DEF ViewInv
    <3>3. \A i \in 1 .. Len(shown) : shown'[i] = shown[i]
      BY <2>1, <3>1, <3>2, Joined
    <3> QED BY <2>1, <3>3
  <2>4. selected' = {} \/ shown' = shown \/ (PullSince /\ gen = vgen)
    BY DEF ViewerNext, WritersAndFiles, viewVars, Pull, PullSince, PullStats, ClearPressed, FollowPressed,
           Reopen, SelectOne, ToggleSelect, SelectRange, Deselect
  <2> QED BY <2>2, <2>3, <2>4
<1>2. ViewerSpec => [][Stays]_allVars
  BY <1>1, ViewInvAtFirst, ViewInvStep, PTL DEF ViewerSpec
<1> QED BY <1>2 DEF SelectionStable
-----------------------------------------------------------------------------
(* Types.                                                                  *)

\* A writer that is not idle has a line to write.
SinkTyped == SinkTypeOK /\ \A w \in Writers : pc[w] # "idle" => size[w] \in Sizes

ViewerTyped == SinkInv /\ Bounded /\ SinkTyped /\ ViewTypeOK

LEMMA TypedAppend ==
  ASSUME SinkInv, SinkTyped, NEW w \in Writers, WriteAppend(w)
  PROVE  lines' \in Seq(Lines)
<1> DEFINE x == [seq |-> next, by |-> w, size |-> size[w]]
           s == Append(lines, x)
<1>1. x \in Lines
  BY DEF WriteAppend, SinkTyped, SinkTypeOK, Lines
<1>2. s \in Seq(Lines) /\ Len(s) \in Nat
  <2> HIDE DEF x
  <2> QED BY <1>1 DEF SinkTyped, SinkTypeOK
<1>3. PICK k \in 0 .. Len(s) - 1 : lines' = SubSeq(s, k + 1, Len(s))
  BY DEF WriteAppend, StopsAt
<1> HIDE DEF s
<1> QED BY <1>2, <1>3

LEMMA SinkTypedStep ==
  ASSUME SinkInv, Bounded, SinkTyped, [SinkNext]_sinkVars
  PROVE  SinkTyped'
<1>1. bytes' \in Nat /\ first' \in Nat /\ next' \in Nat
  <2>1. SinkInv' /\ Bounded'
    BY SinkStep, BoundedStep
  <2>2. lines' \in Seq(AnyLine) /\ first' \in Nat /\ next' \in Nat /\ bytes' = Total(lines')
    BY <2>1 DEF SinkInv, SeqTyped, Bounded
  <2>3. Total(lines') \in Nat
    <3>1. 0 \in 0 .. Len(lines')
      BY <2>2
    <3> QED BY <2>2, <3>1, TotalPrefix
  <2> QED BY <2>2, <2>3
<1>2. ASSUME NEW w \in Writers, WriteBegin(w) PROVE SinkTyped'
  <2>1. PICK z \in Sizes : size' = [size EXCEPT ![w] = z]
    BY <1>2 DEF WriteBegin
  <2>2. /\ holds' = [holds EXCEPT ![w] = file] /\ pc' = [pc EXCEPT ![w] = "io"]
        /\ UNCHANGED <<lines, bytes, first, next, gen, file, opens, disk>>
    BY <1>2 DEF WriteBegin, buffer
  <2> QED BY <2>1, <2>2 DEF SinkTyped, SinkTypeOK
<1>3. ASSUME NEW w \in Writers, WriteFile(w) PROVE SinkTyped'
  <2>1. /\ pc' = [pc EXCEPT ![w] = "append"] /\ pc[w] = "io"
        /\ UNCHANGED <<lines, bytes, first, next, gen, file, opens, holds, size>>
    BY <1>3 DEF WriteFile, buffer
  <2>2. disk' \in [Dirs -> SUBSET Dirs]
    <3>1. CASE holds[w] # NoFile /\ holds[w] = file
      <4>1. file.dir \in Dirs
        BY <3>1 DEF SinkTyped, SinkTypeOK, Handles
      <4>2. disk' = [disk EXCEPT ![file.dir] = @ \cup {file.dir}]
        BY <1>3, <3>1 DEF WriteFile
      <4> QED BY <4>1, <4>2 DEF SinkTyped, SinkTypeOK
    <3>2. CASE ~(holds[w] # NoFile /\ holds[w] = file)
      BY <1>3, <3>2 DEF WriteFile, SinkTyped, SinkTypeOK
    <3> QED BY <3>1, <3>2
  <2> QED BY <2>1, <2>2 DEF SinkTyped, SinkTypeOK
<1>4. ASSUME NEW w \in Writers, WriteAppend(w) PROVE SinkTyped'
  <2>1. lines' \in Seq(Lines)
    BY <1>4, TypedAppend
  <2>2. /\ pc' = [pc EXCEPT ![w] = "idle"]
        /\ UNCHANGED <<gen, file, opens, disk, holds, size>>
    BY <1>4 DEF WriteAppend
  <2> QED BY <1>1, <2>1, <2>2 DEF SinkTyped, SinkTypeOK
<1>5. ASSUME NEW d \in Dirs, SetFile(d) PROVE SinkTyped'
  <2>1. opens \in Nat /\ opens + 1 \in 1 .. MaxOpens
    BY <1>5 DEF SetFile, SinkTyped, SinkTypeOK
  <2>2. opens' \in Nat /\ file' \in Handles
    BY <1>5, <2>1 DEF SetFile, Handles
  <2>3. UNCHANGED <<lines, bytes, first, next, gen, disk, pc, holds, size>>
    BY <1>5 DEF SetFile, buffer, writing
  <2> QED BY <2>2, <2>3 DEF SinkTyped, SinkTypeOK
<1>6. CASE Clear
  <2>1. lines' \in Seq(Lines) /\ gen' \in Nat
    BY <1>6 DEF Clear, SinkTyped, SinkTypeOK
  <2>2. UNCHANGED <<file, opens, disk, pc, holds, size>>
    BY <1>6 DEF Clear, writing
  <2> QED BY <1>1, <2>1, <2>2 DEF SinkTyped, SinkTypeOK
<1>7. CASE UNCHANGED sinkVars
  BY <1>7 DEF sinkVars, buffer, writing, SinkTyped, SinkTypeOK
<1> QED BY <1>2, <1>3, <1>4, <1>5, <1>6, <1>7 DEF SinkNext, WriterStep

LEMMA SinceTyped ==
  ASSUME SinkInv, SinkTyped, NEW seq \in Nat
  PROVE  Since(seq) \in Seq(Lines)
<1> DEFINE from == IF seq < first THEN first ELSE IF seq > next THEN next ELSE seq
<1>1. /\ lines \in Seq(Lines) /\ Len(lines) \in Nat /\ first \in Nat /\ next \in Nat
      /\ next = first + Len(lines)
  BY DEF SinkInv, SeqTyped, Numbered, SinkTyped, SinkTypeOK
<1>2. from - first \in 0 .. Len(lines)
  BY <1>1
<1>3. Since(seq) = SubSeq(lines, (from - first) + 1, Len(lines))
  BY DEF Since
<1> HIDE DEF from
<1> QED BY <1>1, <1>2, <1>3

LEMMA ViewTypedStep ==
  ASSUME ViewerTyped, [ViewerNext]_allVars
  PROVE  ViewerTyped'
<1>1. SinkInv' /\ Bounded' /\ SinkTyped'
  <2>1. [SinkNext]_sinkVars
    BY ViewerIsSink DEF allVars
  <2> QED BY <2>1, SinkStep, BoundedStep, SinkTypedStep DEF ViewerTyped
<1>2. /\ shown \in Seq(Lines) /\ Len(shown) \in Nat /\ vnext \in Nat /\ vgen \in Nat
      /\ gen \in Nat /\ next \in Nat /\ lines \in Seq(Lines) /\ Len(lines) \in Nat
      /\ selected \subseteq 1 .. Len(shown) /\ anchor \in Nat
      /\ follow \in BOOLEAN /\ pulling \in BOOLEAN /\ (follow => selected = {})
  BY DEF ViewerTyped, ViewTypeOK, SinkTypeOK, Rows
<1> DEFINE Typed == /\ shown \in Seq(Lines) /\ vnext \in Nat /\ vgen \in Nat
                    /\ selected \subseteq 1 .. Len(shown) /\ anchor \in Nat
                    /\ follow \in BOOLEAN /\ pulling \in BOOLEAN /\ (follow => selected = {})
<1>3. SUFFICES Typed'
  BY <1>1 DEF ViewerTyped, SinkTyped, ViewTypeOK, Rows
<1>4. CASE PullSince
  <2>1. Since(vnext) \in Seq(Lines)
    BY <1>2, SinceTyped DEF ViewerTyped
  <2>2. vgen' \in Nat /\ vnext' \in Nat
    BY <1>2, <1>4 DEF PullSince
  <2>3. pulling' \in BOOLEAN
    BY <1>4, Zenon DEF PullSince
  <2>4. follow' \in BOOLEAN /\ (follow' => follow)
    <3>1. follow' = follow \/ follow' = FALSE
      BY <1>4, Zenon DEF PullSince
    <3>2. CASE follow' = follow
      BY <1>2, <3>2
    <3>3. CASE follow' = FALSE
      BY <3>3, Zenon
    <3> QED BY <3>1, <3>2, <3>3, Zenon
  <2>5. CASE gen # vgen
    <3>1. shown' = <<>> \o Since(vnext) /\ selected' = {} /\ anchor' = 0
      BY <1>4, <2>5 DEF PullSince, Deselect
    <3>2. shown' \in Seq(Lines)
      BY <2>1, <3>1
    <3> QED BY <2>2, <2>3, <2>4, <3>1, <3>2
  <2>6. CASE gen = vgen
    <3>1. shown' = shown \o Since(vnext) /\ selected' = selected /\ anchor' = anchor
      BY <1>4, <2>6 DEF PullSince
    <3>2. shown' \in Seq(Lines) /\ Len(shown') >= Len(shown) /\ Len(shown') \in Nat
      BY <1>2, <2>1, <3>1
    <3>3. selected' \subseteq 1 .. Len(shown')
      BY <1>2, <3>1, <3>2
    <3>4. follow' => selected' = {}
      BY <1>2, <2>4, <3>1, Zenon
    <3> QED BY <1>2, <2>2, <2>3, <2>4, <3>1, <3>2, <3>3, <3>4
  <2> QED BY <2>5, <2>6
<1>5. CASE PullStats
  <2>1. vnext' = vnext /\ vgen' = vgen /\ follow' = follow /\ pulling' = FALSE
    BY <1>5 DEF PullStats
  <2>2. CASE Len(shown) > Len(lines)
    <3>1. shown' = SubSeq(shown, Len(shown) - Len(lines) + 1, Len(shown)) /\ selected' = {} /\ anchor' = 0
      BY <1>5, <2>2 DEF PullStats, Deselect
    <3>2. shown' \in Seq(Lines)
      BY <1>2, <2>2, <3>1
    <3> QED BY <1>2, <2>1, <3>1, <3>2
  <2>3. CASE ~ (Len(shown) > Len(lines))
    <3>1. shown' = shown /\ selected' = selected /\ anchor' = anchor
      BY <1>5, <2>3 DEF PullStats
    <3>2. pulling' \in BOOLEAN /\ follow' \in BOOLEAN /\ (follow' => selected' = {})
      BY <1>2, <2>1, <3>1, Zenon
    <3> QED BY <1>2, <2>1, <3>1, <3>2
  <2> QED BY <2>2, <2>3
<1>6. CASE ClearPressed \/ Reopen
  <2>1. shown' = <<>> /\ selected' = {} /\ anchor' = 0 /\ pulling' = pulling
    BY <1>6 DEF ClearPressed, Reopen, Deselect
  <2>2. vnext' \in Nat /\ vgen' \in Nat
    BY <1>2, <1>6 DEF ClearPressed, Reopen
  <2>3. follow' \in BOOLEAN
    BY <1>2, <1>6, Zenon DEF ClearPressed, Reopen
  <2> QED BY <1>2, <2>1, <2>2, <2>3
<1>7. ASSUME NEW i \in Rows, SelectOne(i) \/ ToggleSelect(i) \/ SelectRange(i) PROVE Typed'
  <2>1. i \in 1 .. Len(shown) /\ i \in Nat
    BY <1>2 DEF Rows
  <2>2. /\ shown' = shown /\ vnext' = vnext /\ vgen' = vgen /\ pulling' = pulling /\ follow' = FALSE
        /\ anchor' \in {anchor, i}
    BY <1>7 DEF SelectOne, ToggleSelect, SelectRange
  <2>3. selected' \subseteq 1 .. Len(shown)
    BY <1>2, <1>7, <2>1 DEF SelectOne, ToggleSelect, SelectRange, Rows
  <2> QED BY <1>2, <2>1, <2>2, <2>3
<1>8. CASE FollowPressed
  <2>1. shown' = shown /\ vnext' = vnext /\ vgen' = vgen /\ pulling' = pulling
    BY <1>8 DEF FollowPressed
  <2>2. follow' \in BOOLEAN /\ (follow' => selected' = {})
    BY <1>2, <1>8, Zenon DEF FollowPressed, Deselect
  <2>3. selected' \in {selected, {}} /\ anchor' \in {anchor, 0}
    BY <1>8 DEF FollowPressed, Deselect
  <2> QED BY <1>2, <2>1, <2>2, <2>3
<1>9. CASE WritersAndFiles \/ UNCHANGED allVars
  <2>1. UNCHANGED viewVars
    BY <1>9 DEF WritersAndFiles, allVars
  <2> QED BY <1>2, <2>1 DEF viewVars
<1> QED BY <1>4, <1>5, <1>6, <1>7, <1>8, <1>9 DEF ViewerNext, Pull

LEMMA ViewTypedAtFirst == ViewInit => ViewerTyped
<1> SUFFICES ASSUME ViewInit PROVE ViewerTyped
  OBVIOUS
<1>1. SinkInv /\ Bounded
  BY SinkAtFirst, BoundedAtFirst DEF ViewInit
<1>2. SinkTyped
  BY DEF ViewInit, SinkInit, SinkTyped, SinkTypeOK
<1>3. ViewTypeOK
  <2>1. shown = <<>> /\ vnext = 0 /\ vgen = 0 /\ selected = {} /\ anchor = 0
    BY DEF ViewInit
  <2>2. follow \in BOOLEAN /\ pulling \in BOOLEAN
    BY Zenon DEF ViewInit
  <2> QED BY <1>2, <2>1, <2>2 DEF SinkTyped, ViewTypeOK, Rows
<1> QED BY <1>1, <1>2, <1>3 DEF ViewerTyped

\* The sink and the viewer keep to their types; the byte count in particular
\* never drops below zero, and Follow is never on beside a selection.
THEOREM ViewTypeAlways == ViewerSpec => []ViewTypeOK
<1>1. ViewerTyped => ViewTypeOK
  BY DEF ViewerTyped
<1> QED BY <1>1, ViewTypedAtFirst, ViewTypedStep, PTL DEF ViewerSpec
=============================================================================
