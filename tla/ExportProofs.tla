----------------------------- MODULE ExportProofs -----------------------------
(***************************************************************************)
(* Proofs about what a task exports, for any channels, hits, scopes and    *)
(* limits.  Progress is the inductive invariant of run: what has been      *)
(* seen, laid into parts and warned of is what the channels up to the      *)
(* cursor may contribute.                                                  *)
(***************************************************************************)
EXTENDS AdmissionProofs, Recursion

USE LimitAssumption

Hits(i) == Len(hits[channels[i]])

\* The rows of the first i channels
Laid(i) == FlattenSeq([j \in 1 .. i |-> Exportable(channels[j], Share(j))])

-----------------------------------------------------------------------------
(* What the channels may contribute.                                       *)

\* The least of three numbers
LEMMA MinOfThree ==
  ASSUME NEW a \in Int, NEW b \in Int, NEW c \in Int
  PROVE  Min({a, b, c}) \in {a, b, c} /\ \A x \in {a, b, c} : Min({a, b, c}) <= x
<1>1. \E x \in {a, b, c} : \A y \in {a, b, c} : x =< y
  <2>1. CASE a <= b /\ a <= c
    BY <2>1
  <2>2. CASE b <= a /\ b <= c
    BY <2>2
  <2>3. CASE c <= a /\ c <= b
    BY <2>3
  <2> QED BY <2>1, <2>2, <2>3
<1> QED BY <1>1 DEF Min

\* Taken is well defined, and never more than MaxTaskHits.
LEMMA TakenSteps ==
  ASSUME Given, channels \in Seq(Channels)
  PROVE  /\ Taken[0] = 0
         /\ \A i \in 0 .. Len(channels) : Taken[i] \in 0 .. MaxTaskHits
         /\ \A i \in 1 .. Len(channels) :
              Taken[i] = Taken[i - 1]
                + Min({Len(hits[channels[i]]), PerChannelHardCap, MaxTaskHits - Taken[i - 1]})
<1> DEFINE n == Len(channels)
           V == 0 .. MaxTaskHits
           Least(i, v) == Min({Len(hits[channels[i]]), PerChannelHardCap, MaxTaskHits - v})
           step == [i \in 1 .. n |-> [v \in V |-> v + Least(i, v)]]
           Body(f) == [i \in 0 .. n |-> IF i = 0 THEN 0 ELSE f[i - 1] + Least(i, f[i - 1])]
           taken == CHOOSE f : f = Body(f)
<1>1. n \in Nat /\ \A i \in 1 .. n : Len(hits[channels[i]]) \in Nat
  <2>1. \A i \in 1 .. n : hits[channels[i]] \in Seq(Sizes)
    BY ElementOfSeq DEF Given
  <2> QED BY <2>1, LenProperties
<1>2. ASSUME NEW i \in 1 .. n, NEW v \in V PROVE v + Least(i, v) \in V
  <2> DEFINE a == Len(hits[channels[i]])
             b == PerChannelHardCap
             c == MaxTaskHits - v
  <2>1. Least(i, v) = Min({a, b, c})
    OBVIOUS
  <2>2. a \in Nat /\ v \in 0 .. MaxTaskHits
    BY <1>1
  <2> HIDE DEF Least, V
  <2>3. b \in Nat /\ c \in Nat
    BY <2>2
  <2> HIDE DEF a, b
  <2>4. Min({a, b, c}) \in {a, b, c} /\ Min({a, b, c}) <= c
    <3> HIDE DEF c
    <3>1. a \in Int /\ b \in Int /\ c \in Int
      BY <2>2, <2>3
    <3> QED BY <3>1, MinOfThree
  <2>5. v + Least(i, v) \in 0 .. MaxTaskHits
    BY <2>1, <2>2, <2>3, <2>4
  <2> QED BY <2>5 DEF V
<1> HIDE DEF Least
<1>3. step \in Steps(n, V) /\ 0 \in V
  <2>1. 0 \in V
    OBVIOUS
  <2> HIDE DEF V, n
  <2> QED BY <1>2, <2>1 DEF Steps
<1>4. \A i \in 1 .. n, v \in V : step[i][v] = v + Least(i, v)
  OBVIOUS
<1> HIDE DEF step, n, V
<1>5. PICK f : Leads(f, n, V, 0, step)
  BY <1>1, <1>3, RecursionExists
<1>6. f \in [0 .. n -> V] /\ f[0] = 0 /\ \A i \in 1 .. n : f[i - 1] \in V
  BY <1>1, <1>5 DEF Leads
<1>7. f = Body(f)
  BY <1>4, <1>5, <1>6 DEF Leads
<1>8. taken = Body(taken)
  BY <1>7
<1>9. Taken = taken
  BY DEF Taken, Least, n
<1> HIDE DEF taken
<1>10. taken[0] = 0 /\ \A i \in 1 .. n : taken[i] = taken[i - 1] + Least(i, taken[i - 1])
  BY <1>1, <1>8
<1> DEFINE S == {i \in 0 .. n : taken[i] \in V}
<1>11. 0 \in S
  BY <1>1, <1>3, <1>10
<1>12. ASSUME NEW i \in 0 .. n - 1, i \in S PROVE i + 1 \in S
  <2>1. PICK k \in 1 .. n : k = i + 1 /\ k - 1 = i
    BY <1>1
  <2>2. taken[k] = taken[k - 1] + Least(k, taken[k - 1]) /\ taken[k - 1] \in V
    BY <1>10, <1>12, <2>1
  <2>3. taken[k] \in V
    BY <1>2, <2>2
  <2> QED BY <1>1, <2>1, <2>3
<1> HIDE DEF S
<1>13. \A i \in 0 .. n : i \in S
  BY <1>1, <1>11, <1>12, UpTo
<1> QED BY <1>9, <1>10, <1>13 DEF S, V, n, Least

\* A channel's share: all its hits, or a limit keeps the others out.
LEMMA Shares ==
  ASSUME Given, channels \in Seq(Channels), NEW i \in 1 .. Len(channels)
  PROVE  /\ Hits(i) \in Nat /\ Share(i) \in Nat
         /\ Taken[i - 1] \in Nat /\ Taken[i] \in Nat /\ Taken[i] = Taken[i - 1] + Share(i)
         /\ Share(i) <= Hits(i) /\ Share(i) <= PerChannelHardCap /\ Taken[i] <= MaxTaskHits
         /\ \/ Share(i) = Hits(i) \/ Share(i) = PerChannelHardCap \/ Taken[i] = MaxTaskHits
         /\ Truncated(i) <=> Share(i) < Hits(i)
<1> DEFINE a == Len(hits[channels[i]])
           b == PerChannelHardCap
           c == MaxTaskHits - Taken[i - 1]
<1>1. hits[channels[i]] \in Seq(Sizes)
  BY ElementOfSeq DEF Given
<1>2. a \in Nat
  BY <1>1, LenProperties
<1>3. i - 1 \in 0 .. Len(channels) /\ i \in 0 .. Len(channels)
  OBVIOUS
<1>4. Taken[i - 1] \in 0 .. MaxTaskHits /\ Taken[i] \in 0 .. MaxTaskHits
  BY <1>3, TakenSteps
<1>5. Taken[i] = Taken[i - 1] + Min({a, b, c})
  BY TakenSteps
<1>6. a \in Nat /\ b \in Nat /\ c \in Nat
  <2>1. b \in Nat
    OBVIOUS
  <2> HIDE DEF a, b
  <2> QED BY <1>2, <1>4, <2>1
<1> HIDE DEF a, b
<1>7. Min({a, b, c}) \in {a, b, c} /\ \A x \in {a, b, c} : Min({a, b, c}) <= x
  <2> HIDE DEF c
  <2>1. a \in Int /\ b \in Int /\ c \in Int
    BY <1>6
  <2> QED BY <2>1, MinOfThree
<1>8. Share(i) = Min({a, b, c})
  <2>1. Min({a, b, c}) \in Int
    BY <1>6, <1>7
  <2> QED BY <1>4, <1>5, <2>1 DEF Share
<1>9. Hits(i) = a /\ (Truncated(i) <=> Share(i) < a)
  BY DEF a, Hits, Truncated
<1>10. /\ Share(i) \in Nat /\ Share(i) <= a /\ Share(i) <= b /\ Share(i) <= c
       /\ Share(i) = a \/ Share(i) = b \/ Share(i) = c
  BY <1>6, <1>7, <1>8
<1>11. Taken[i] = Taken[i - 1] + Share(i)
  BY <1>5, <1>8
<1> QED BY <1>4, <1>6, <1>9, <1>10, <1>11 DEF b

-----------------------------------------------------------------------------
(* What the parts hold end to end.                                         *)

\* The rows of parts are those of the parts before the last and those of the last.
LEMMA RowsOfNone == RowsOf(<<>>) = <<>>
<1> DEFINE rows == [i \in 1 .. Len(<<>>) |-> <<>>[i].rows]
<1>1. rows = <<>>
  BY EmptySeq
<1> QED BY <1>1, FlattenNone DEF RowsOf

\* One more part brings its rows behind those of the others.
LEMMA RowsOfAppend ==
  ASSUME NEW ps \in Seq(Part), NEW part \in Part
  PROVE  /\ RowsOf(ps) \in Seq(Row) /\ RowsOf(Append(ps, part)) \in Seq(Row)
         /\ RowsOf(Append(ps, part)) = RowsOf(ps) \o part.rows
<1> DEFINE n == Len(ps)
           front == [i \in 1 .. n |-> ps[i].rows]
           seqs == [i \in 1 .. n + 1 |-> Append(ps, part)[i].rows]
<1>1. n \in Nat /\ \A i \in 1 .. n : ps[i].rows \in Seq(Row)
  <2>1. n \in Nat
    BY LenProperties
  <2>2. \A i \in 1 .. n : ps[i] \in Part
    BY ElementOfSeq
  <2> QED BY <2>1, <2>2 DEF Part
<1>2. part.rows \in Seq(Row)
  BY DEF Part
<1>3. /\ Len(Append(ps, part)) = n + 1
      /\ \A i \in 1 .. n : Append(ps, part)[i] = ps[i]
      /\ Append(ps, part)[n + 1] = part
  BY AppendProperties
<1>4. RowsOf(ps) = FlattenSeq(front) /\ RowsOf(Append(ps, part)) = FlattenSeq(seqs)
  BY <1>3 DEF RowsOf
<1> HIDE DEF n
<1>5. \A i \in 1 .. n + 1 : i \in 1 .. n \/ i = n + 1
  BY <1>1
<1>6. seqs \in [1 .. n + 1 -> Seq(Row)] /\ seqs[n + 1] = part.rows
  BY <1>1, <1>2, <1>3, <1>5
<1>7. front \in [1 .. n -> Seq(Row)] /\ \A i \in 1 .. n : front[i] = seqs[i]
  BY <1>1, <1>3
<1> HIDE DEF front, seqs
<1>8. /\ FlattenSeq(front) \in Seq(Row) /\ FlattenSeq(seqs) \in Seq(Row)
      /\ FlattenSeq(seqs) = FlattenSeq(front) \o seqs[n + 1]
  BY <1>1, <1>6, <1>7, FlattenAdds
<1> QED BY <1>4, <1>6, <1>8

\* The exportable rows of one more hit: one more row, or none if the line is empty.
LEMMA ExportableSteps ==
  ASSUME NEW c \in Channels, NEW k \in Nat
  PROVE  /\ Exportable(c, 0) = <<>> /\ Exportable(c, k) \in Seq(Row)
         /\ LineOf([channel |-> c, hit |-> k + 1]) \in Nat =>
              Exportable(c, k + 1) =
                IF LineOf([channel |-> c, hit |-> k + 1]) = 0 THEN Exportable(c, k)
                ELSE Append(Exportable(c, k), [channel |-> c, hit |-> k + 1])
<1> DEFINE row(h) == [channel |-> c, hit |-> h]
           one(h) == IF LineOf(row(h)) > 0 THEN <<row(h)>> ELSE <<>>
           seqs == [h \in 1 .. k + 1 |-> one(h)]
           front == [h \in 1 .. k |-> one(h)]
<1>1. Exportable(c, 0) = <<>>
  <2>1. [h \in 1 .. 0 |-> one(h)] = <<>>
    OBVIOUS
  <2> QED BY <2>1, FlattenNone DEF Exportable
<1>2. Exportable(c, k + 1) = FlattenSeq(seqs) /\ Exportable(c, k) = FlattenSeq(front)
  BY DEF Exportable
<1>3. \A h \in Nat : row(h) \in Row
  BY DEF Row
<1>4. \A h \in Nat : <<row(h)>> \in Seq(Row) /\ <<>> \in Seq(Row)
  <2> HIDE DEF row
  <2> QED BY <1>3
<1>5. \A h \in Nat : one(h) \in Seq(Row)
  <2> HIDE DEF row
  <2> QED BY <1>4
<1> HIDE DEF row
<1>6. seqs \in [1 .. k + 1 -> Seq(Row)] /\ seqs[k + 1] = one(k + 1)
  BY <1>5
<1>7. front \in [1 .. k -> Seq(Row)] /\ \A h \in 1 .. k : front[h] = seqs[h]
  BY <1>5
<1> HIDE DEF front, seqs, one
<1>8. /\ FlattenSeq(front) \in Seq(Row)
      /\ FlattenSeq(seqs) = FlattenSeq(front) \o one(k + 1)
  BY <1>6, <1>7, FlattenAdds
<1>9. FlattenSeq(front) \o <<>> = FlattenSeq(front)
  BY <1>8, ConcatEmptySeq
<1>10. row(k + 1) \in Row
  BY <1>3
<1>11. FlattenSeq(front) \o <<row(k + 1)>> = Append(FlattenSeq(front), row(k + 1))
  BY <1>8, <1>10, AppendIsConcat
<1>12. LineOf(row(k + 1)) \in Nat =>
         FlattenSeq(seqs) = IF LineOf(row(k + 1)) = 0 THEN FlattenSeq(front)
                            ELSE Append(FlattenSeq(front), row(k + 1))
  BY <1>8, <1>9, <1>11 DEF one
<1> QED BY <1>1, <1>2, <1>8, <1>12 DEF row

\* The channels' rows, laid one behind the other
LEMMA LaidSteps ==
  ASSUME Given, channels \in Seq(Channels)
  PROVE  /\ Laid(0) = <<>> /\ Wanted = Laid(Len(channels))
         /\ \A i \in 0 .. Len(channels) : Laid(i) \in Seq(Row)
         /\ \A i \in 1 .. Len(channels) :
              Laid(i) = Laid(i - 1) \o Exportable(channels[i], Share(i))
<1> DEFINE own(j) == Exportable(channels[j], Share(j))
<1>1. Laid(0) = <<>>
  <2>1. [j \in 1 .. 0 |-> own(j)] = <<>>
    OBVIOUS
  <2> QED BY <2>1, FlattenNone DEF Laid
<1>2. \A j \in 1 .. Len(channels) : own(j) \in Seq(Row)
  <2> SUFFICES ASSUME NEW j \in 1 .. Len(channels) PROVE own(j) \in Seq(Row)
    OBVIOUS
  <2>1. channels[j] \in Channels /\ Share(j) \in Nat
    BY ElementOfSeq, Shares
  <2> QED BY <2>1, ExportableSteps
<1>3. ASSUME NEW i \in 1 .. Len(channels)
      PROVE  Laid(i - 1) \in Seq(Row) /\ Laid(i) \in Seq(Row) /\ Laid(i) = Laid(i - 1) \o own(i)
  <2> DEFINE seqs == [j \in 1 .. i |-> own(j)]
             front == [j \in 1 .. i - 1 |-> own(j)]
  <2>1. Laid(i) = FlattenSeq(seqs) /\ Laid(i - 1) = FlattenSeq(front)
    BY DEF Laid
  <2> HIDE DEF own
  <2>2. PICK m \in Nat : m = i - 1 /\ m + 1 = i
    OBVIOUS
  <2>3. \A j \in 1 .. i : j \in 1 .. Len(channels)
    BY LenProperties
  <2>4. seqs \in [1 .. i -> Seq(Row)] /\ seqs[i] = own(i)
    BY <1>2, <2>3
  <2>5. front \in [1 .. m -> Seq(Row)] /\ \A j \in 1 .. m : front[j] = seqs[j]
    BY <1>2, <2>2, <2>3
  <2> HIDE DEF seqs, front
  <2>6. seqs \in [1 .. m + 1 -> Seq(Row)] /\ seqs[m + 1] = own(i)
    BY <2>2, <2>4
  <2>7. /\ FlattenSeq(front) \in Seq(Row) /\ FlattenSeq(seqs) \in Seq(Row)
        /\ FlattenSeq(seqs) = FlattenSeq(front) \o own(i)
    <3>1. /\ FlattenSeq(front) \in Seq(Row) /\ FlattenSeq(seqs) \in Seq(Row)
          /\ FlattenSeq(seqs) = FlattenSeq(front) \o seqs[m + 1]
      BY <2>5, <2>6, FlattenAdds
    <3> QED BY <2>6, <3>1
  <2> QED BY <2>1, <2>7
<1>4. \A i \in 0 .. Len(channels) : Laid(i) \in Seq(Row)
  <2> SUFFICES ASSUME NEW i \in 0 .. Len(channels) PROVE Laid(i) \in Seq(Row)
    OBVIOUS
  <2>1. CASE i = 0
    BY <1>1, <2>1, EmptySeq
  <2>2. CASE i # 0
    BY <1>3, <2>2
  <2> QED BY <2>1, <2>2
<1>5. Wanted = Laid(Len(channels))
  BY DEF Wanted, Laid
<1> QED BY <1>1, <1>3, <1>4, <1>5

-----------------------------------------------------------------------------
(* The invariant of run.                                                   *)

Reading == pc \in {"search", "hit"}
\* No more hits will be read.
Read == pc \in {"finish", "publish"} \/ Delivered

Codes == {"total_truncated", "per_channel_truncated"}
Warning == [channel : Channels, code : Codes, seen : Nat]

\* The counters and the cursor tell how far into the channel's share run is.
Seen ==
  /\ chSeen \in Nat /\ totalSeen \in Nat
  /\ pc = "open" => totalSeen = 0
  /\ pc = "channel" => totalSeen = Taken[at - 1]
  /\ Reading => /\ chSeen <= Hits(at) /\ chSeen <= PerChannelHardCap
                /\ totalSeen <= MaxTaskHits /\ totalSeen = Taken[at - 1] + chSeen
  /\ pc = "search" => after = chSeen
  /\ pc = "hit" => /\ after + pageLen <= Hits(at) /\ chSeen + Len(page) = after + pageLen
                   /\ \A k \in 1 .. Len(page) : page[k] = chSeen + k
                   /\ pageLen < PageSize => after + pageLen = Hits(at)

\* The rows in the flushed parts and in the open one, in order
Rows == RowsOf(made) \o cur.rows

\* They are the exportable ones of the hits that have been seen.
Written ==
  /\ pc = "channel" => Rows = Laid(at - 1)
  /\ Reading => Rows = Laid(at - 1) \o Exportable(channels[at], chSeen)
  /\ Read => Rows = Wanted
  /\ pc = "publish" \/ Delivered => cur.rows = <<>>

\* A warning names a channel that lost hits, and each that did so far is named.
Named ==
  /\ warnings \in Seq(Warning)
  /\ pc = "open" => warnings = <<>>
  /\ \A w \in Range(warnings) :
       \E i \in 1 .. Len(channels) :
         /\ channels[i] = w.channel /\ Truncated(i)
         /\ w.code = "total_truncated" => Taken[i] = MaxTaskHits
  /\ pc \in {"channel", "search", "hit"} =>
       \A i \in 1 .. at - 1 : Truncated(i) => \E w \in Range(warnings) : w.channel = channels[i]
  /\ Read => \A i \in 1 .. Len(channels) : Truncated(i) =>
       \E w \in Range(warnings) : \/ w.channel = channels[i]
                                  \/ w.code = "total_truncated" /\ w.channel <= channels[i]

\* The table has the first of the parts, and a result all of them.
Told ==
  /\ pc \notin {"close", "done"} => result = "none"
  /\ pc \in {"open", "channel", "search", "hit", "finish"} => table = <<>>
  /\ pc = "publish" => /\ table \in Seq(Part) /\ Len(table) <= Len(made)
                       /\ \A k \in 1 .. Len(table) : table[k] = made[k]
  /\ Delivered => table = made /\ (result = "completed" <=> warnings = <<>>)

Progress == Seen /\ Written /\ Named /\ Told

-----------------------------------------------------------------------------
(* Lemmas about a step.                                                    *)

\* What the channels may contribute is fixed once the snapshot is taken.
LEMMA SameReading ==
  ASSUME UNCHANGED <<hits, channels>>
  PROVE  /\ Taken' = Taken /\ Wanted' = Wanted
         /\ \A i : /\ Share(i)' = Share(i) /\ Truncated(i)' = Truncated(i)
                   /\ Hits(i)' = Hits(i) /\ Laid(i)' = Laid(i)
         /\ \A c, k : Exportable(c, k)' = Exportable(c, k)
<1>1. Taken' = Taken
  BY DEF Taken
<1>2. \A i : Share(i)' = Share(i) /\ Truncated(i)' = Truncated(i) /\ Hits(i)' = Hits(i)
  BY <1>1 DEF Share, Truncated, Hits
<1>3. \A c, k : Exportable(c, k)' = Exportable(c, k)
  BY DEF Exportable, LineOf
<1>4. \A i : Laid(i)' = Laid(i)
  BY <1>2, <1>3 DEF Laid
<1>5. Wanted' = Wanted
  BY <1>2, <1>3 DEF Wanted
<1> QED BY <1>1, <1>2, <1>3, <1>4, <1>5

\* The channel of the iteration, and its share
LEMMA AtChannel ==
  ASSUME RunInv, pc \in {"channel", "search", "hit"}
  PROVE  /\ Given /\ channels \in Seq(Channels) /\ Len(channels) \in Nat
         /\ at \in 1 .. Len(channels) /\ channels[at] \in Channels
         /\ hits[channels[at]] \in Seq(Sizes)
         /\ Hits(at) \in Nat /\ Share(at) \in Nat
         /\ Taken[at - 1] \in Nat /\ Taken[at] \in Nat /\ Taken[at] = Taken[at - 1] + Share(at)
         /\ Share(at) <= Hits(at) /\ Share(at) <= PerChannelHardCap
         /\ Taken[at] <= MaxTaskHits
         /\ \/ Share(at) = Hits(at) \/ Share(at) = PerChannelHardCap
            \/ Taken[at] = MaxTaskHits
         /\ Truncated(at) <=> Share(at) < Hits(at)
<1>1. /\ Given /\ channels \in Seq(Channels) /\ Len(channels) \in Nat
      /\ at \in 1 .. Len(channels)
  BY LenProperties DEF RunInv, Loop
<1>2. channels[at] \in Channels
  BY <1>1, ElementOfSeq
<1>3. hits[channels[at]] \in Seq(Sizes)
  BY <1>1, <1>2 DEF Given
<1> QED BY <1>1, <1>2, <1>3, Shares

\* The parts and their rows are sequences.
LEMMA RowsTyped ==
  ASSUME Writer
  PROVE  /\ made \in Seq(Part) /\ cur \in Part /\ cur.rows \in Seq(Row)
         /\ RowsOf(made) \in Seq(Row) /\ Rows \in Seq(Row)
<1>1. made \in Seq(Part) /\ cur \in Part
  BY DEF Writer, Open
<1>2. cur.rows \in Seq(Row)
  BY <1>1 DEF Part
<1>3. RowsOf(made) \in Seq(Row)
  BY <1>1, RowsOfAppend
<1> QED BY <1>1, <1>2, <1>3, ConcatProperties DEF Rows

\* A flush moves the rows of a part behind those of the flushed ones.
LEMMA FlushMoves ==
  ASSUME Writer, NEW part \in Part, NEW c
  PROVE  RowsOf(Flushed(part)) \o EmptyPart(c).rows = RowsOf(made) \o part.rows
<1>1. made \in Seq(Part) /\ RowsOf(made) \in Seq(Row)
  BY RowsTyped
<1>2. EmptyPart(c).rows = <<>>
  BY DEF EmptyPart
<1>3. RowsOf(Flushed(part)) = RowsOf(made) \o part.rows
  <2>1. CASE part.rows = <<>>
    BY <1>1, <2>1, ConcatEmptySeq DEF Flushed
  <2>2. CASE part.rows # <<>>
    BY <1>1, <2>2, RowsOfAppend DEF Flushed
  <2> QED BY <2>1, <2>2
<1>4. RowsOf(Flushed(part)) \in Seq(Row)
  BY <1>1, RowsOfAppend DEF Flushed
<1> QED BY <1>2, <1>3, <1>4, ConcatEmptySeq

\* No warning
LEMMA NoWarning == <<>> \in Seq(Warning) /\ Range(<<>>) = {}
<1>1. <<>> \in Seq(Warning) /\ Len(<<>>) = 0
  BY EmptySeq
<1>2. Range(<<>>) = {<<>>[i] : i \in 1 .. Len(<<>>)}
  BY <1>1, RangeEquality
<1> QED BY <1>1, <1>2

\* One more warning
LEMMA WarningAdds ==
  ASSUME NEW S, NEW s \in Seq(S), NEW e \in S
  PROVE  Append(s, e) \in Seq(S) /\ Range(Append(s, e)) = Range(s) \union {e}
<1>1. /\ Append(s, e) \in Seq(S) /\ Len(Append(s, e)) = Len(s) + 1
      /\ \A i \in 1 .. Len(s) : Append(s, e)[i] = s[i]
      /\ Append(s, e)[Len(s) + 1] = e
  BY AppendProperties
<1>2. /\ Range(s) = {s[i] : i \in 1 .. Len(s)} /\ Len(s) \in Nat
      /\ Range(Append(s, e)) = {Append(s, e)[i] : i \in 1 .. Len(Append(s, e))}
  BY <1>1, RangeEquality, LenProperties
<1>3. \A i \in 1 .. Len(s) + 1 : i \in 1 .. Len(s) \/ i = Len(s) + 1
  BY <1>2
<1>4. \A i \in 1 .. Len(s) : i \in 1 .. Len(s) + 1
  BY <1>2
<1>5. Len(s) + 1 \in 1 .. Len(s) + 1
  BY <1>2
<1> QED BY <1>1, <1>2, <1>3, <1>4, <1>5

\* Behind a total_truncated channel nothing is wanted.
LEMMA LaidRest ==
  ASSUME Given, channels \in Seq(Channels),
         NEW i \in 0 .. Len(channels), Taken[i] = MaxTaskHits
  PROVE  Laid(i) = Wanted
<1> DEFINE n == Len(channels)
           S == {k \in 0 .. n : k >= i => Taken[k] = MaxTaskHits /\ Laid(k) = Laid(i)}
<1>1. 0 \in S /\ n \in Nat
  BY LenProperties
<1>2. ASSUME NEW k \in 0 .. n - 1, k \in S PROVE k + 1 \in S
  <2>1. PICK m \in 1 .. n : m = k + 1 /\ m - 1 = k
    BY <1>1
  <2>2. CASE k >= i
    <3>1. Taken[k] = MaxTaskHits /\ Laid(k) = Laid(i)
      BY <1>2, <2>2
    <3>2. Taken[m] = Taken[m - 1] + Share(m) /\ Share(m) \in Nat /\ Taken[m] <= MaxTaskHits
      BY Shares
    <3>3. Share(m) = 0 /\ Taken[m] = MaxTaskHits
      BY <2>1, <3>1, <3>2
    <3>4. Exportable(channels[m], Share(m)) = <<>>
      BY <3>3, ElementOfSeq, ExportableSteps
    <3>5. Laid(m) = Laid(m - 1) \o <<>> /\ Laid(m - 1) \in Seq(Row)
      <4>1. m - 1 \in 0 .. n
        BY <2>1
      <4> QED BY <3>4, <4>1, LaidSteps
    <3>6. Laid(m) = Laid(i)
      BY <2>1, <3>1, <3>5, ConcatEmptySeq
    <3> QED BY <1>1, <2>1, <3>3, <3>6
  <2>3. CASE ~(k >= i)
    <3>1. k + 1 >= i => k + 1 = i
      BY <1>1, <2>3
    <3> QED BY <1>1, <3>1
  <2> QED BY <2>2, <2>3
<1> HIDE DEF S
<1>3. \A k \in 0 .. n : k \in S
  BY <1>1, <1>2, UpTo
<1>4. Laid(n) = Laid(i)
  BY <1>1, <1>3 DEF S
<1> QED BY <1>4, LaidSteps

\* Where a channel ends: at its last hit or at a limit, its share has been seen and written.
LEMMA ChannelEnds ==
  ASSUME RunInv, Seen, Written, Reading,
         chSeen = Hits(at) \/ chSeen = PerChannelHardCap \/ totalSeen = MaxTaskHits
  PROVE  /\ chSeen = Share(at) /\ totalSeen = Taken[at] /\ Rows = Laid(at)
         /\ Truncated(at) <=> chSeen < Hits(at)
<1>1. /\ at \in 1 .. Len(channels) /\ Given /\ channels \in Seq(Channels)
      /\ Hits(at) \in Nat /\ Share(at) \in Nat
      /\ Taken[at - 1] \in Nat /\ Taken[at] \in Nat /\ Taken[at] = Taken[at - 1] + Share(at)
      /\ Share(at) <= Hits(at) /\ Share(at) <= PerChannelHardCap
      /\ Taken[at] <= MaxTaskHits
      /\ \/ Share(at) = Hits(at) \/ Share(at) = PerChannelHardCap
         \/ Taken[at] = MaxTaskHits
      /\ Truncated(at) <=> Share(at) < Hits(at)
  BY AtChannel DEF Reading
<1>2. /\ chSeen \in Nat /\ chSeen <= Hits(at) /\ chSeen <= PerChannelHardCap
      /\ totalSeen <= MaxTaskHits /\ totalSeen = Taken[at - 1] + chSeen
  BY DEF Seen
<1>3. chSeen = Share(at) /\ totalSeen = Taken[at]
  <2> DEFINE before == Taken[at - 1]
             behind == Taken[at]
             share == Share(at)
             all == Hits(at)
  <2>1. /\ before \in Nat /\ share \in Nat /\ all \in Nat /\ behind = before + share
        /\ MaxTaskHits \in Nat /\ PerChannelHardCap \in Nat
        /\ share <= all /\ share <= PerChannelHardCap /\ behind <= MaxTaskHits
        /\ share = all \/ share = PerChannelHardCap \/ behind = MaxTaskHits
    BY <1>1 DEF Given
  <2>2. /\ chSeen \in Nat /\ chSeen <= all /\ chSeen <= PerChannelHardCap
        /\ totalSeen <= MaxTaskHits /\ totalSeen = before + chSeen
        /\ chSeen = all \/ chSeen = PerChannelHardCap \/ totalSeen = MaxTaskHits
    BY <1>2
  <2> HIDE DEF before, behind, share, all
  <2>3. chSeen <= share
    BY <2>1, <2>2
  <2>4. share <= chSeen
    BY <2>1, <2>2
  <2>5. chSeen = share /\ totalSeen = behind
    BY <2>1, <2>2, <2>3, <2>4
  <2> QED BY <2>5 DEF behind, share
<1>4. Rows = Laid(at)
  BY <1>1, <1>3, LaidSteps DEF Written
<1> QED BY <1>1, <1>3, <1>4

-----------------------------------------------------------------------------
(* The steps of run keep the invariant.                                    *)

\* Before the snapshot nothing has been seen, whatever the hits are.
LEMMA ProgressStarts ==
  pc = "open" /\ totalSeen = 0 /\ chSeen \in Nat /\ warnings = <<>>
    /\ result = "none" /\ table = <<>> => Progress
<1> SUFFICES ASSUME pc = "open", totalSeen = 0, chSeen \in Nat, warnings = <<>>,
                    result = "none", table = <<>>
             PROVE  Progress
  OBVIOUS
<1>1. Range(warnings) = {} /\ warnings \in Seq(Warning)
  BY NoWarning
<1>2. Seen
  BY DEF Seen, Reading
<1>3. Written
  BY DEF Written, Reading, Read, Delivered
<1>4. Named
  BY <1>1 DEF Named, Read, Delivered
<1>5. Told
  BY DEF Told, Delivered
<1> QED BY <1>2, <1>3, <1>4, <1>5 DEF Progress

\* At the first channel nothing has been taken.
LEMMA FirstChannel ==
  Given /\ channels \in Seq(Channels) => Taken[0] = 0 /\ Laid(0) = <<>>
  BY TakenSteps, LaidSteps

\* OpenPIT: run starts at the first of the sorted channels.
LEMMA OpenProgress == RunInv /\ Progress /\ Len(scope) > 0 /\ OpenPIT => Progress'
<1> SUFFICES ASSUME RunInv, Progress, Len(scope) > 0, OpenPIT PROVE Progress'
  OBVIOUS
<1>1. /\ pc = "open" /\ pc' = "channel"
      /\ UNCHANGED <<at, totalSeen, warnings, drain, writer, table, result>>
  BY DEF OpenPIT
<1>2. /\ made = <<>> /\ cur = EmptyPart(0) /\ at = 1 /\ totalSeen = 0 /\ warnings = <<>>
      /\ result = "none" /\ table = <<>> /\ chSeen \in Nat
  BY <1>1 DEF RunInv, Loop, Progress, Seen, Named, Told
<1>3. Given' /\ channels' \in Seq(Channels)
  <2>1. RunInv'
    BY OpenKeeps
  <2> QED BY <2>1 DEF RunInv, Loop
<1>4. Taken'[0] = 0 /\ Laid(0)' = <<>>
  <2>1. (Given /\ channels \in Seq(Channels) => Taken[0] = 0 /\ Laid(0) = <<>>)'
    BY FirstChannel, PTL
  <2> QED BY <1>3, <2>1
<1>5. Seen'
  BY <1>1, <1>2, <1>4 DEF Seen, Reading, drain
<1>6. Written'
  <2>1. Rows' = <<>>
    <3>1. made' = <<>> /\ cur'.rows = <<>>
      BY <1>1, <1>2 DEF writer, EmptyPart
    <3>2. <<>> \in Seq(Row)
      BY EmptySeq
    <3> QED BY <3>1, <3>2, RowsOfNone, ConcatEmptySeq DEF Rows
  <2>2. at' - 1 = 0
    BY <1>1, <1>2
  <2>3. Laid(at - 1)' = <<>>
    BY <1>4, <2>2
  <2> QED BY <1>1, <1>2, <2>1, <2>3 DEF Written, Reading, Read, Delivered
<1>7. Named'
  <2>1. Range(warnings') = {} /\ warnings' \in Seq(Warning)
    BY <1>1, <1>2, NoWarning
  <2> QED BY <1>1, <1>2, <2>1 DEF Named, Read, Delivered
<1>8. Told'
  BY <1>1, <1>2 DEF Told, Delivered
<1> QED BY <1>5, <1>6, <1>7, <1>8 DEF Progress

\* StartChannel flushes the open part and starts over with the counter of the channel.
LEMMA StartProgress == RunInv /\ Progress /\ StartChannel => Progress'
<1> SUFFICES ASSUME RunInv, Progress, StartChannel PROVE Progress'
  OBVIOUS
<1>1. /\ pc = "channel" /\ pc' = "search"
      /\ made' = Flushed(cur) /\ cur' = EmptyPart(channels[at])
      /\ chSeen' = 0 /\ after' = 0
      /\ UNCHANGED <<hits, channels, at, totalSeen, warnings, table, result>>
  BY DEF StartChannel, Channel, inputs
<1>2. /\ at \in 1 .. Len(channels) /\ Given /\ channels \in Seq(Channels)
      /\ channels[at] \in Channels /\ Hits(at) \in Nat /\ Share(at) \in Nat
      /\ Taken[at - 1] \in Nat /\ Taken[at] = Taken[at - 1] + Share(at)
      /\ Taken[at] <= MaxTaskHits
  BY <1>1, AtChannel
<1>3. /\ Taken' = Taken /\ \A i : Hits(i)' = Hits(i)
      /\ \A i : Truncated(i)' = Truncated(i) /\ Laid(i)' = Laid(i)
      /\ \A c, k : Exportable(c, k)' = Exportable(c, k)
  BY <1>1, SameReading
<1>4. totalSeen = Taken[at - 1] /\ Rows = Laid(at - 1) /\ totalSeen \in Nat
  BY <1>1 DEF Progress, Seen, Written
<1>5. Seen'
  <2>1. 0 <= Hits(at) /\ totalSeen <= MaxTaskHits
    BY <1>2, <1>4
  <2> QED BY <1>1, <1>2, <1>3, <1>4, <2>1 DEF Seen, Reading
<1>6. Written'
  <2>1. Rows' = Laid(at - 1)
    <3>1. cur \in Part
      BY RowsTyped DEF RunInv
    <3>2. Rows' = RowsOf(made) \o cur.rows
      BY <1>1, <3>1, FlushMoves DEF RunInv, Rows
    <3> QED BY <1>4, <3>2 DEF Rows
  <2>2. Laid(at - 1) \o Exportable(channels[at], 0) = Laid(at - 1)
    <3>1. at - 1 \in 0 .. Len(channels)
      BY <1>2
    <3>2. Laid(at - 1) \in Seq(Row)
      BY <1>2, <3>1, LaidSteps
    <3> QED BY <1>2, <3>2, ExportableSteps, ConcatEmptySeq
  <2>3. Exportable(channels[at], chSeen)' = Exportable(channels[at], 0)
    BY <1>1, <1>3
  <2>4. Laid(at - 1)' = Laid(at - 1)
    BY <1>1, <1>3
  <2>5. Rows' = Laid(at - 1)' \o Exportable(channels[at], chSeen)'
    BY <2>1, <2>2, <2>3, <2>4
  <2>6. result' = "none"
    BY <1>1 DEF Progress, Told
  <2> QED BY <1>1, <2>5, <2>6 DEF Written, Reading, Read, Delivered
<1>7. Named'
  BY <1>1, <1>3 DEF Progress, Named, Told, Read, Delivered
<1>8. Told'
  BY <1>1 DEF Progress, Told, Delivered
<1> QED BY <1>5, <1>6, <1>7, <1>8 DEF Progress

\* What a channel's end adds to the warnings names the channel if it lost hits.
LEMMA NamedFurther ==
  ASSUME RunInv, Named, Reading, NEW code \in Codes, NEW seen \in Nat,
         UNCHANGED <<hits, channels>>,
         \/ ~Truncated(at) /\ warnings' = warnings
         \/ /\ Truncated(at)
            /\ code = "total_truncated" => Taken[at] = MaxTaskHits
            /\ warnings' = Append(warnings, [channel |-> channels[at], code |-> code, seen |-> seen])
  PROVE  /\ warnings' \in Seq(Warning)
         /\ \A w \in Range(warnings') :
              \E i \in 1 .. Len(channels) :
                /\ channels[i] = w.channel /\ Truncated(i)
                /\ w.code = "total_truncated" => Taken[i] = MaxTaskHits
         /\ \A i \in 1 .. at : Truncated(i) => \E w \in Range(warnings') : w.channel = channels[i]
<1> DEFINE w0 == [channel |-> channels[at], code |-> code, seen |-> seen]
<1>1. at \in 1 .. Len(channels) /\ channels[at] \in Channels /\ Len(channels) \in Nat
  BY AtChannel DEF Reading
<1>2. /\ warnings \in Seq(Warning)
      /\ \A w \in Range(warnings) :
           \E i \in 1 .. Len(channels) :
             /\ channels[i] = w.channel /\ Truncated(i)
             /\ w.code = "total_truncated" => Taken[i] = MaxTaskHits
      /\ \A i \in 1 .. at - 1 : Truncated(i) => \E w \in Range(warnings) : w.channel = channels[i]
  BY DEF Named, Reading
<1>3. \A i \in 1 .. at : i \in 1 .. at - 1 \/ i = at
  BY <1>1
<1>4. CASE ~Truncated(at) /\ warnings' = warnings
  BY <1>2, <1>3, <1>4
<1>5. CASE /\ Truncated(at)
           /\ code = "total_truncated" => Taken[at] = MaxTaskHits
           /\ warnings' = Append(warnings, w0)
  <2>1. w0 \in Warning /\ w0.channel = channels[at] /\ w0.code = code
    BY <1>1 DEF Warning
  <2> HIDE DEF w0
  <2>2. warnings' \in Seq(Warning) /\ Range(warnings') = Range(warnings) \union {w0}
    BY <1>2, <1>5, <2>1, WarningAdds
  <2>3. ASSUME NEW w \in Range(warnings')
        PROVE  \E i \in 1 .. Len(channels) :
                 /\ channels[i] = w.channel /\ Truncated(i)
                 /\ w.code = "total_truncated" => Taken[i] = MaxTaskHits
    <3>1. CASE w \in Range(warnings)
      BY <1>2, <3>1
    <3>2. CASE w = w0
      BY <1>1, <1>5, <2>1, <3>2
    <3> QED BY <2>2, <3>1, <3>2
  <2>4. ASSUME NEW i \in 1 .. at, Truncated(i)
        PROVE  \E w \in Range(warnings') : w.channel = channels[i]
    <3>1. CASE i \in 1 .. at - 1
      BY <1>2, <2>2, <2>4, <3>1
    <3>2. CASE i = at
      BY <2>1, <2>2, <3>2
    <3> QED BY <1>3, <3>1, <3>2
  <2> QED BY <2>2, <2>3, <2>4
<1> QED BY <1>4, <1>5

\* run's loop goes on behind a channel whose share has been seen and written.
LEMMA ChannelLeft ==
  ASSUME RunInv, Progress, Reading, NextChannel,
         UNCHANGED <<hits, channels, totalSeen, chSeen, made, cur, table, result>>,
         totalSeen = Taken[at], Rows = Laid(at),
         \/ ~Truncated(at) /\ warnings' = warnings
         \/ /\ Truncated(at)
            /\ warnings' = Append(warnings, [channel |-> channels[at],
                                   code |-> "per_channel_truncated", seen |-> chSeen])
  PROVE  Progress'
<1>1. /\ at \in 1 .. Len(channels) /\ Len(channels) \in Nat
      /\ Given /\ channels \in Seq(Channels)
  BY AtChannel DEF Reading
<1>2. at' = at + 1 /\ pc' = IF at < Len(channels) THEN "channel" ELSE "finish"
  BY DEF NextChannel
<1>3. /\ pc' \in {"channel", "finish"}
      /\ pc' = "finish" => at = Len(channels) /\ \A i \in 1 .. Len(channels) : i \in 1 .. at
      /\ at' - 1 = at
  BY <1>1, <1>2
<1>4. /\ Taken' = Taken /\ Wanted' = Wanted
      /\ \A i : Truncated(i)' = Truncated(i) /\ Laid(i)' = Laid(i)
  BY SameReading
<1>5. chSeen \in Nat /\ totalSeen \in Nat /\ result' = "none" /\ table' = <<>>
  BY DEF Progress, Seen, Told, Reading
<1>6. Seen'
  BY <1>3, <1>4, <1>5 DEF Seen, Reading
<1>7. Written'
  <2>1. Rows' = Rows
    BY DEF Rows
  <2>2. Laid(at - 1)' = Laid(at)
    BY <1>3, <1>4
  <2>3. pc' = "finish" => Rows' = Wanted'
    <3>1. Laid(Len(channels)) = Wanted
      BY <1>1, LaidSteps
    <3> QED BY <1>3, <1>4, <2>1, <3>1
  <2> QED BY <1>3, <1>5, <2>1, <2>2, <2>3 DEF Written, Reading, Read, Delivered
<1>8. Named'
  <2>1. /\ warnings' \in Seq(Warning)
        /\ \A w \in Range(warnings') :
             \E i \in 1 .. Len(channels) :
               /\ channels[i] = w.channel /\ Truncated(i)
               /\ w.code = "total_truncated" => Taken[i] = MaxTaskHits
        /\ \A i \in 1 .. at :
             Truncated(i) => \E w \in Range(warnings') : w.channel = channels[i]
    <3>1. "per_channel_truncated" \in Codes
      BY DEF Codes
    <3>2. \/ ~Truncated(at) /\ warnings' = warnings
          \/ /\ Truncated(at)
             /\ "per_channel_truncated" = "total_truncated" => Taken[at] = MaxTaskHits
             /\ warnings' = Append(warnings, [channel |-> channels[at],
                                    code |-> "per_channel_truncated", seen |-> chSeen])
      OBVIOUS
    <3> QED BY <1>5, <3>1, <3>2, NamedFurther DEF Progress
  <2>2. pc' = "finish" => \A i \in 1 .. Len(channels) :
           Truncated(i) => \E w \in Range(warnings') : w.channel = channels[i]
    BY <1>3, <2>1
  <2> QED BY <1>3, <1>4, <1>5, <2>1, <2>2 DEF Named, Read, Delivered
<1>9. Told'
  BY <1>3, <1>5 DEF Told, Delivered
<1> QED BY <1>6, <1>7, <1>8, <1>9 DEF Progress

\* What reading one more page or one more hit leaves alone
LEMMA ReadOn ==
  ASSUME Progress, Reading, Reading', Seen',
         UNCHANGED <<hits, channels, at, warnings, table, result>>,
         Rows' = Laid(at - 1) \o Exportable(channels[at], chSeen')
  PROVE  Progress'
<1>1. /\ \A i : Truncated(i)' = Truncated(i) /\ Laid(i)' = Laid(i)
      /\ \A c, k : Exportable(c, k)' = Exportable(c, k)
      /\ Taken' = Taken
  BY SameReading
<1>2. result' = "none" /\ table' = <<>> /\ pc' \in {"search", "hit"}
  BY DEF Progress, Told, Reading
<1>3. Exportable(channels[at], chSeen)' = Exportable(channels[at], chSeen')
  BY <1>1
<1>4. Laid(at - 1)' = Laid(at - 1)
  BY <1>1
<1>5. Written'
  BY <1>2, <1>3, <1>4 DEF Written, Reading, Read, Delivered
<1>6. Named'
  BY <1>1, <1>2 DEF Progress, Named, Reading, Read, Delivered
<1>7. Told'
  BY <1>2 DEF Told, Delivered
<1> QED BY <1>5, <1>6, <1>7 DEF Progress

\* Search: the next hits of the channel; none are left if the page is empty.
LEMMA SearchProgress == RunInv /\ Progress /\ Search => Progress'
<1> SUFFICES ASSUME RunInv, Progress, Search PROVE Progress'
  OBVIOUS
<1>1. /\ pc = "search" /\ page' = NextPage /\ pageLen' = Len(page')
      /\ IF page' = <<>> THEN NextChannel ELSE pc' = "hit" /\ at' = at
      /\ UNCHANGED <<hits, channels, totalSeen, warnings, chSeen, after, cur, made, table, result>>
  BY DEF Search, inputs, writer
<1>2. Reading /\ Hits(at) \in Nat
  BY <1>1, AtChannel DEF Reading
<1>3. /\ chSeen \in Nat /\ totalSeen \in Nat /\ after = chSeen
      /\ chSeen <= Hits(at) /\ chSeen <= PerChannelHardCap
      /\ totalSeen <= MaxTaskHits /\ totalSeen = Taken[at - 1] + chSeen
  BY <1>1, <1>2 DEF Progress, Seen
<1> DEFINE m == Min({PageSize, Hits(at) - after})
<1>4. m \in Nat /\ (m = PageSize \/ m = Hits(at) - after) /\ m <= Hits(at) - after
  <2> DEFINE b == Hits(at) - after
  <2>1. b \in Nat /\ PageSize \in Nat
    BY <1>2, <1>3
  <2>2. m = Min({PageSize, b, b})
    OBVIOUS
  <2> HIDE DEF b, m
  <2>3. Min({PageSize, b, b}) \in {PageSize, b, b} /\ Min({PageSize, b, b}) <= b
    <3>1. PageSize \in Int /\ b \in Int /\ b \in {PageSize, b, b}
      BY <2>1
    <3> QED BY <3>1, MinOfThree
  <2> QED BY <2>1, <2>2, <2>3 DEF b
<1>5. page' = [k \in 1 .. m |-> after + k]
  BY <1>1 DEF NextPage, Channel, Hits
<1> HIDE DEF m
<1>6. /\ page' \in Seq(Nat) /\ Len(page') = m /\ pageLen' = m
      /\ \A k \in 1 .. m : page'[k] = chSeen + k
  BY <1>1, <1>3, <1>4, <1>5
<1>7. CASE page' = <<>>
  <2>1. m = 0
    BY <1>6, <1>7, EmptySeq
  <2>2. chSeen = Hits(at)
    BY <1>2, <1>3, <1>4, <2>1
  <2>3. totalSeen = Taken[at] /\ Rows = Laid(at) /\ ~Truncated(at)
    BY <1>2, <2>2, ChannelEnds DEF Progress
  <2> QED BY <1>1, <1>2, <1>7, <2>3, ChannelLeft
<1>8. CASE page' # <<>>
  <2>1. pc' = "hit" /\ at' = at /\ Reading'
    BY <1>1, <1>8 DEF Reading
  <2>2. /\ Taken' = Taken /\ Hits(at)' = Hits(at)
        /\ \A i : Hits(i)' = Hits(i)
    BY <1>1, <2>1, SameReading DEF Hits
  <2>3. m < PageSize => after + m = Hits(at)
    BY <1>2, <1>3, <1>4
  <2>4. Seen'
    BY <1>1, <1>2, <1>3, <1>4, <1>6, <2>1, <2>2, <2>3 DEF Seen, Reading
  <2>5. Rows' = Laid(at - 1) \o Exportable(channels[at], chSeen')
    BY <1>1, <1>2 DEF Progress, Written, Rows
  <2> QED BY <1>1, <1>2, <2>1, <2>4, <2>5, ReadOn
<1> QED BY <1>7, <1>8

\* PageWritten: behind a full page the next one is read, behind a short one no hits are left.
LEMMA PageProgress == RunInv /\ Progress /\ PageWritten => Progress'
<1> SUFFICES ASSUME RunInv, Progress, PageWritten PROVE Progress'
  OBVIOUS
<1>1. /\ pc = "hit" /\ page = <<>> /\ after' = after + pageLen
      /\ IF pageLen < PageSize THEN NextChannel ELSE pc' = "search" /\ at' = at
      /\ UNCHANGED <<hits, channels, totalSeen, warnings, chSeen, cur, made, table, result>>
  BY DEF PageWritten, inputs, writer
<1>2. Reading /\ Hits(at) \in Nat /\ after \in Nat /\ pageLen \in Nat
  BY <1>1, AtChannel DEF Reading, RunInv, Cursor
<1>3. /\ chSeen \in Nat /\ totalSeen \in Nat /\ after + pageLen = chSeen
      /\ chSeen <= Hits(at) /\ chSeen <= PerChannelHardCap
      /\ totalSeen <= MaxTaskHits /\ totalSeen = Taken[at - 1] + chSeen
      /\ pageLen < PageSize => chSeen = Hits(at)
  <2>1. Len(page) = 0
    BY <1>1, EmptySeq
  <2> QED BY <1>1, <1>2, <2>1 DEF Progress, Seen
<1>4. CASE pageLen < PageSize
  <2>1. totalSeen = Taken[at] /\ Rows = Laid(at) /\ ~Truncated(at)
    BY <1>2, <1>3, <1>4, ChannelEnds DEF Progress
  <2> QED BY <1>1, <1>2, <1>4, <2>1, ChannelLeft
<1>5. CASE ~(pageLen < PageSize)
  <2>1. pc' = "search" /\ at' = at /\ Reading'
    BY <1>1, <1>5 DEF Reading
  <2>2. /\ Taken' = Taken /\ Hits(at)' = Hits(at)
    BY <1>1, <2>1, SameReading DEF Hits
  <2>3. Seen'
    BY <1>1, <1>3, <2>1, <2>2 DEF Seen, Reading
  <2>4. Rows' = Laid(at - 1) \o Exportable(channels[at], chSeen')
    BY <1>1, <1>2 DEF Progress, Written, Rows
  <2> QED BY <1>1, <1>2, <2>1, <2>3, <2>4, ReadOn
<1> QED BY <1>4, <1>5

\* A hit that is still to be written has not been seen.
LEMMA HitsLeft ==
  ASSUME RunInv, Progress, pc = "hit", page # <<>>
  PROVE  /\ chSeen < Hits(at) /\ chSeen \in Nat /\ Hits(at) \in Nat
         /\ page \in Seq(Nat) /\ Len(page) \in Nat \ {0} /\ page[1] = chSeen + 1
<1>1. /\ Hits(at) \in Nat /\ after \in Nat /\ pageLen \in Nat
      /\ page \in Seq(Nat) /\ Len(page) \in Nat
  BY AtChannel, LenProperties DEF RunInv, Cursor
<1>2. Len(page) # 0
  BY <1>1, EmptySeq
<1>3. /\ chSeen \in Nat /\ after + pageLen <= Hits(at) /\ chSeen + Len(page) = after + pageLen
      /\ \A k \in 1 .. Len(page) : page[k] = chSeen + k
  BY DEF Progress, Seen
<1> QED BY <1>1, <1>2, <1>3

\* ChannelTruncated: the channel has lost hits, and the warning names it.
LEMMA ChannelTruncatedProgress == RunInv /\ Progress /\ ChannelTruncated => Progress'
<1> SUFFICES ASSUME RunInv, Progress, ChannelTruncated PROVE Progress'
  OBVIOUS
<1>1. /\ pc = "hit" /\ page # <<>> /\ chSeen >= PerChannelHardCap /\ NextChannel
      /\ warnings' = Append(warnings, [channel |-> channels[at],
                                 code |-> "per_channel_truncated", seen |-> chSeen])
      /\ UNCHANGED <<hits, channels, totalSeen, chSeen, cur, made, table, result>>
  BY DEF ChannelTruncated, Channel, inputs, drain, writer
<1>2. Reading /\ chSeen < Hits(at) /\ chSeen \in Nat
  BY <1>1, HitsLeft DEF Reading
<1>3. chSeen = PerChannelHardCap
  BY <1>1, <1>2 DEF Progress, Seen
<1>4. totalSeen = Taken[at] /\ Rows = Laid(at) /\ Truncated(at)
  BY <1>2, <1>3, ChannelEnds DEF Progress
<1> QED BY <1>1, <1>2, <1>4, ChannelLeft

\* TotalTruncated: no channel behind this one may contribute, nor does the loop go there.
LEMMA TotalTruncatedProgress == RunInv /\ Progress /\ TotalTruncated => Progress'
<1> SUFFICES ASSUME RunInv, Progress, TotalTruncated PROVE Progress'
  OBVIOUS
<1> DEFINE w0 == [channel |-> channels[at], code |-> "total_truncated", seen |-> totalSeen]
<1>1. /\ pc = "hit" /\ pc' = "finish" /\ page # <<>> /\ totalSeen >= MaxTaskHits
      /\ warnings' = Append(warnings, w0)
      /\ UNCHANGED <<hits, channels, at, totalSeen, chSeen, cur, made, table, result>>
  BY DEF TotalTruncated, Channel, inputs, drain, writer
<1>2. /\ Reading /\ chSeen < Hits(at) /\ chSeen \in Nat
      /\ Given /\ channels \in Seq(Channels) /\ at \in 1 .. Len(channels)
      /\ Len(channels) \in Nat /\ channels[at] \in Channels
  BY <1>1, HitsLeft, AtChannel DEF Reading
<1>3. totalSeen = MaxTaskHits /\ totalSeen \in Nat
  BY <1>1, <1>2 DEF Progress, Seen
<1>4. totalSeen = Taken[at] /\ Rows = Laid(at) /\ Truncated(at)
  BY <1>2, <1>3, ChannelEnds DEF Progress
<1>5. /\ Taken' = Taken /\ Wanted' = Wanted /\ \A i : Truncated(i)' = Truncated(i)
  BY <1>1, SameReading
<1>6. result' = "none" /\ table' = <<>>
  BY <1>1 DEF Progress, Told
<1>7. Seen'
  BY <1>1, <1>2, <1>3 DEF Seen, Reading
<1>8. Written'
  <2>1. Laid(at) = Wanted
    BY <1>2, <1>3, <1>4, LaidRest
  <2>2. Rows' = Rows
    BY <1>1 DEF Rows
  <2> QED BY <1>1, <1>4, <1>5, <1>6, <2>1, <2>2 DEF Written, Reading, Read, Delivered
<1>9. Named'
  <2>1. /\ warnings' \in Seq(Warning)
        /\ \A w \in Range(warnings') :
             \E i \in 1 .. Len(channels) :
               /\ channels[i] = w.channel /\ Truncated(i)
               /\ w.code = "total_truncated" => Taken[i] = MaxTaskHits
        /\ \A i \in 1 .. at :
             Truncated(i) => \E w \in Range(warnings') : w.channel = channels[i]
    <3>1. "total_truncated" \in Codes
      BY DEF Codes
    <3> QED BY <1>1, <1>2, <1>3, <1>4, <3>1, NamedFurther DEF Progress
  <2>2. w0 \in Range(warnings') /\ w0.channel = channels[at] /\ w0.code = "total_truncated"
    <3>1. w0 \in Warning
      BY <1>2, <1>3 DEF Warning, Codes
    <3>2. w0.channel = channels[at] /\ w0.code = "total_truncated"
      OBVIOUS
    <3> HIDE DEF w0
    <3>3. warnings \in Seq(Warning)
      BY DEF Progress, Named
    <3> QED BY <1>1, <3>1, <3>2, <3>3, WarningAdds
  <2> HIDE DEF w0
  <2>3. ASSUME NEW i \in 1 .. Len(channels), Truncated(i)
        PROVE  \E w \in Range(warnings') : \/ w.channel = channels[i]
                                           \/ w.code = "total_truncated" /\ w.channel <= channels[i]
    <3>1. CASE i \in 1 .. at
      BY <2>1, <2>3, <3>1
    <3>2. CASE i \notin 1 .. at
      <4>1. at < i
        BY <1>2, <3>2
      <4>2. channels[at] <= channels[i]
        BY <1>2, <4>1 DEF RunInv, Loop
      <4> QED BY <2>2, <4>2
    <3> QED BY <3>1, <3>2
  <2> QED BY <1>1, <1>5, <1>6, <2>1, <2>3 DEF Named, Read, Delivered
<1>10. Told'
  BY <1>1, <1>6 DEF Told, Delivered
<1> QED BY <1>7, <1>8, <1>9, <1>10 DEF Progress

\* Write: a hit with a line adds its row behind the others, in whatever part.
LEMMA WriteProgress == RunInv /\ Progress /\ WriteHit => Progress'
<1> SUFFICES ASSUME RunInv, Progress, WriteHit PROVE Progress'
  OBVIOUS
<1> DEFINE row == [channel |-> channels[at], hit |-> Head(page)]
<1>1. /\ pc = "hit" /\ pc' = "hit" /\ page # <<>> /\ page' = Tail(page)
      /\ totalSeen < MaxTaskHits /\ chSeen < PerChannelHardCap
      /\ NextPart = Extended(cur, row)
      /\ IF Full(NextPart) THEN made' = Flushed(NextPart) /\ cur' = EmptyPart(channels[at])
                           ELSE cur' = NextPart /\ made' = made
      /\ chSeen' = chSeen + 1 /\ totalSeen' = totalSeen + 1
      /\ UNCHANGED <<hits, channels, at, warnings, after, pageLen, table, result>>
  BY DEF WriteHit, MayWrite, NextPart, Channel, inputs
<1>2. /\ Reading /\ Reading' /\ Given /\ channels \in Seq(Channels)
      /\ at \in 1 .. Len(channels) /\ channels[at] \in Channels
      /\ Hits(at) \in Nat /\ Taken[at - 1] \in Nat
  BY <1>1, AtChannel DEF Reading
<1>3. /\ chSeen < Hits(at) /\ chSeen \in Nat /\ page \in Seq(Nat) /\ Len(page) \in Nat \ {0}
      /\ page[1] = chSeen + 1
  BY <1>1, HitsLeft
<1>4. /\ Head(page) = page[1] /\ Len(Tail(page)) = Len(page) - 1
      /\ \A i \in 1 .. Len(Tail(page)) : Tail(page)[i] = page[i + 1]
  BY <1>3, EmptySeq, HeadTailProperties
<1>5. row = [channel |-> channels[at], hit |-> chSeen + 1] /\ row \in Row
  <2>1. Head(page) = chSeen + 1 /\ chSeen + 1 \in Nat
    BY <1>3, <1>4
  <2> QED BY <1>2, <2>1 DEF Row
<1>6. LineOf(row) \in Nat
  BY <1>1, <1>3, <1>4 DEF RunInv, Cursor, LineOf
<1>7. /\ cur \in Part /\ cur.rows \in Seq(Row) /\ RowsOf(made) \in Seq(Row)
      /\ cur.bytes \in Nat /\ cur.channel \in Nat
  BY RowsTyped DEF RunInv, Part
<1> HIDE DEF row
<1>8. /\ NextPart \in Part
      /\ NextPart.rows = IF LineOf(row) = 0 THEN cur.rows ELSE Append(cur.rows, row)
  <2>1. CASE LineOf(row) = 0
    BY <1>1, <1>7, <2>1 DEF Extended
  <2>2. CASE LineOf(row) # 0
    <3> DEFINE rows == Append(cur.rows, row)
               bytes == cur.bytes + LineOf(row)
    <3>1. rows \in Seq(Row) /\ bytes \in Nat
      BY <1>5, <1>6, <1>7, AppendProperties
    <3>2. NextPart = [cur EXCEPT !.rows = rows, !.bytes = bytes]
      BY <1>1, <2>2 DEF Extended
    <3> HIDE DEF rows, bytes
    <3>3. NextPart \in Part /\ NextPart.rows = rows
      BY <1>7, <3>1, <3>2 DEF Part
    <3> QED BY <2>2, <3>3 DEF rows
  <2> QED BY <2>1, <2>2
<1>9. Rows' = RowsOf(made) \o NextPart.rows
  <2>1. CASE Full(NextPart)
    BY <1>1, <1>8, <2>1, FlushMoves DEF RunInv, Rows
  <2>2. CASE ~Full(NextPart)
    <3>1. RowsOf(made)' = RowsOf(made)
      BY <1>1, <2>2
    <3> QED BY <1>1, <2>2, <3>1 DEF Rows
  <2> QED BY <2>1, <2>2
<1> DEFINE before == Laid(at - 1)
           now == Exportable(channels[at], chSeen)
<1>10. Rows = before \o now /\ before \in Seq(Row) /\ now \in Seq(Row)
  <2>1. at - 1 \in 0 .. Len(channels)
    BY <1>2
  <2> QED BY <1>2, <1>3, <2>1, LaidSteps, ExportableSteps DEF Progress, Written
<1>11. Exportable(channels[at], chSeen + 1) = IF LineOf(row) = 0 THEN now ELSE Append(now, row)
  <2>1. LineOf(row) \in Nat =>
          Exportable(channels[at], chSeen + 1)
            = IF LineOf(row) = 0 THEN now ELSE Append(now, row)
    BY <1>2, <1>3, <1>5, ExportableSteps
  <2> QED BY <1>6, <2>1
<1> HIDE DEF before, now
<1>12. Rows' = before \o Exportable(channels[at], chSeen + 1)
  <2>1. CASE LineOf(row) = 0
    BY <1>8, <1>9, <1>10, <1>11, <2>1 DEF Rows
  <2>2. CASE LineOf(row) # 0
    <3>1. Rows' = RowsOf(made) \o Append(cur.rows, row)
      BY <1>8, <1>9, <2>2
    <3>2. RowsOf(made) \o Append(cur.rows, row) = Append(Rows, row)
      <4> DEFINE flushed == RowsOf(made)
                 left == cur.rows
      <4>1. flushed \in Seq(Row) /\ left \in Seq(Row) /\ Rows = flushed \o left
        BY <1>7 DEF Rows
      <4> HIDE DEF flushed, left
      <4>2. flushed \o Append(left, row) = Append(flushed \o left, row)
        BY <1>5, <4>1, AppendBehind
      <4> QED BY <4>1, <4>2 DEF flushed, left
    <3>3. before \o Append(now, row) = Append(Rows, row)
      BY <1>5, <1>10, AppendBehind
    <3> QED BY <1>11, <2>2, <3>1, <3>2, <3>3
  <2> QED BY <2>1, <2>2
<1>13. Seen'
  <2>1. Taken' = Taken /\ Hits(at)' = Hits(at)
    BY <1>1, SameReading DEF Hits
  <2>2. /\ totalSeen \in Nat /\ totalSeen = Taken[at - 1] + chSeen
        /\ after + pageLen <= Hits(at) /\ chSeen + Len(page) = after + pageLen
        /\ \A k \in 1 .. Len(page) : page[k] = chSeen + k
        /\ pageLen < PageSize => after + pageLen = Hits(at)
    BY <1>1, <1>2 DEF Progress, Seen
  <2>3. \A k \in 1 .. Len(Tail(page)) : Tail(page)[k] = chSeen + 1 + k
    <3> SUFFICES ASSUME NEW k \in 1 .. Len(Tail(page)) PROVE Tail(page)[k] = chSeen + 1 + k
      OBVIOUS
    <3>1. k + 1 \in 1 .. Len(page) /\ Tail(page)[k] = page[k + 1]
      BY <1>3, <1>4
    <3>2. page[k + 1] = chSeen + (k + 1)
      BY <2>2, <3>1
    <3> QED BY <1>3, <3>1, <3>2
  <2>4. chSeen + 1 + Len(Tail(page)) = after + pageLen
    BY <1>3, <1>4, <2>2
  <2>5. /\ chSeen' \in Nat /\ totalSeen' \in Nat
        /\ chSeen' <= Hits(at)' /\ chSeen' <= PerChannelHardCap
        /\ totalSeen' <= MaxTaskHits /\ totalSeen' = Taken'[at' - 1] + chSeen'
    <3>1. PerChannelHardCap \in Nat /\ MaxTaskHits \in Nat
      OBVIOUS
    <3>2. /\ chSeen + 1 \in Nat /\ chSeen + 1 <= Hits(at) /\ chSeen + 1 <= PerChannelHardCap
      <4>1. /\ chSeen \in Nat /\ Hits(at) \in Nat /\ chSeen < Hits(at)
            /\ chSeen < PerChannelHardCap
        BY <1>1, <1>2, <1>3
      <4> QED BY <3>1, <4>1
    <3>3. /\ totalSeen + 1 \in Nat /\ totalSeen + 1 <= MaxTaskHits
          /\ totalSeen + 1 = Taken[at - 1] + (chSeen + 1)
      <4> DEFINE t == Taken[at - 1]
      <4>1. /\ totalSeen \in Nat /\ totalSeen < MaxTaskHits /\ MaxTaskHits \in Nat
            /\ totalSeen = t + chSeen /\ t \in Nat /\ chSeen \in Nat
        BY <1>1, <1>2, <1>3, <2>2, <3>1
      <4> HIDE DEF t
      <4>2. totalSeen + 1 = t + (chSeen + 1) /\ totalSeen + 1 <= MaxTaskHits
        BY <4>1
      <4> QED BY <4>1, <4>2 DEF t
    <3>4. Taken'[at' - 1] = Taken[at - 1]
      BY <1>1, <2>1
    <3> QED BY <1>1, <2>1, <3>2, <3>3, <3>4
  <2>6. /\ after' + pageLen' <= Hits(at)' /\ chSeen' + Len(page') = after' + pageLen'
        /\ \A k \in 1 .. Len(page') : page'[k] = chSeen' + k
        /\ pageLen' < PageSize => after' + pageLen' = Hits(at)'
    BY <1>1, <2>1, <2>2, <2>3, <2>4
  <2> QED BY <1>1, <2>5, <2>6 DEF Seen
<1> QED BY <1>1, <1>2, <1>12, <1>13, ReadOn DEF before

\* Finish: all rows are in flushed parts.
LEMMA FinishProgress == RunInv /\ Progress /\ Finish => Progress'
<1> SUFFICES ASSUME RunInv, Progress, Finish PROVE Progress'
  OBVIOUS
<1>1. /\ pc = "finish" /\ pc' = "publish"
      /\ made' = Flushed(cur) /\ cur' = EmptyPart(cur.channel)
      /\ UNCHANGED <<hits, channels, at, totalSeen, chSeen, warnings, table, result>>
  BY DEF Finish, inputs, drain
<1>2. Wanted' = Wanted /\ Taken' = Taken /\ \A i : Truncated(i)' = Truncated(i)
  BY <1>1, SameReading
<1>3. result' = "none" /\ table' = <<>> /\ made' \in Seq(Part)
  <2>1. result' = "none" /\ table' = <<>>
    BY <1>1 DEF Progress, Told
  <2>2. RunInv'
    BY <1>1, FinishKeeps
  <2> QED BY <2>1, <2>2 DEF RunInv, Writer
<1>4. Seen'
  BY <1>1 DEF Progress, Seen, Reading
<1>5. Written'
  <2>1. Rows' = Rows
    <3>1. cur \in Part
      BY RowsTyped DEF RunInv
    <3> QED BY <1>1, <3>1, FlushMoves DEF RunInv, Rows
  <2>2. Rows = Wanted
    BY <1>1 DEF Progress, Written, Read
  <2>3. cur'.rows = <<>>
    BY <1>1 DEF EmptyPart
  <2> QED BY <1>1, <1>2, <1>3, <2>1, <2>2, <2>3 DEF Written, Reading, Read, Delivered
<1>6. Named'
  BY <1>1, <1>2, <1>3 DEF Progress, Named, Read, Delivered
<1>7. Told'
  <2>1. table' \in Seq(Part) /\ Len(table') = 0 /\ Len(made') \in Nat
    BY <1>3, EmptySeq, LenProperties
  <2> QED BY <1>1, <1>3, <2>1 DEF Told, Delivered
<1> QED BY <1>4, <1>5, <1>6, <1>7 DEF Progress

\* Publish: the parts are recorded in order, and only then is there a result.
LEMMA PublishProgress == RunInv /\ Progress /\ Publish => Progress'
<1> SUFFICES ASSUME RunInv, Progress, Publish PROVE Progress'
  OBVIOUS
<1>1. /\ pc = "publish"
      /\ UNCHANGED <<hits, channels, at, totalSeen, warnings, chSeen, cur, made>>
  BY DEF Publish, inputs, drain, writer
<1>2. Wanted' = Wanted /\ Taken' = Taken /\ \A i : Truncated(i)' = Truncated(i)
  BY <1>1, SameReading
<1>3. /\ table \in Seq(Part) /\ Len(table) \in Nat /\ made \in Seq(Part) /\ Len(made) \in Nat
      /\ Len(table) <= Len(made) /\ \A k \in 1 .. Len(table) : table[k] = made[k]
      /\ result = "none"
  BY <1>1, LenProperties DEF Progress, Told, RunInv, Writer
<1>4. \/ /\ Len(table) < Len(made) /\ pc' = "publish" /\ result' = result
         /\ table' = Append(table, made[Len(table) + 1])
      \/ /\ Len(table) = Len(made) /\ pc' = "close" /\ table' = table
         /\ result' = IF warnings = <<>> THEN "completed" ELSE "partial"
  BY <1>3 DEF Publish, Return
<1>5. Seen'
  BY <1>1, <1>4 DEF Progress, Seen, Reading
<1>6. Written'
  <2>1. Rows' = Rows
    BY <1>1 DEF Rows
  <2>2. Rows = Wanted /\ cur'.rows = <<>>
    BY <1>1 DEF Progress, Written, Read
  <2> QED BY <1>2, <1>4, <2>1, <2>2 DEF Written, Reading
<1>7. Named'
  <2>1. Read
    BY <1>1 DEF Read
  <2> QED BY <1>1, <1>2, <1>4, <2>1 DEF Progress, Named
<1>8. Told'
  <2>1. CASE /\ Len(table) < Len(made) /\ pc' = "publish" /\ result' = result
             /\ table' = Append(table, made[Len(table) + 1])
    <3> DEFINE part == made[Len(table) + 1]
    <3>1. part \in Part
      BY <1>3, <2>1, ElementOfSeq
    <3> HIDE DEF part
    <3>2. /\ table' = Append(table, part)
          /\ Append(table, part) \in Seq(Part) /\ Len(Append(table, part)) = Len(table) + 1
          /\ \A k \in 1 .. Len(table) : Append(table, part)[k] = table[k]
          /\ Append(table, part)[Len(table) + 1] = part
      BY <1>3, <2>1, <3>1, AppendProperties DEF part
    <3>3. \A k \in 1 .. Len(table) + 1 : k \in 1 .. Len(table) \/ k = Len(table) + 1
      BY <1>3
    <3>4. \A k \in 1 .. Len(table') : table'[k] = made[k]
      BY <1>3, <3>2, <3>3 DEF part
    <3>5. result' = "none" /\ Len(table') <= Len(made)
      BY <1>3, <2>1, <3>2
    <3> QED BY <1>1, <2>1, <3>2, <3>4, <3>5 DEF Told, Delivered
  <2>2. CASE /\ Len(table) = Len(made) /\ pc' = "close" /\ table' = table
             /\ result' = IF warnings = <<>> THEN "completed" ELSE "partial"
    <3>1. table = made
      BY <1>3, <2>2, SeqEqual
    <3>2. result' = "completed" <=> warnings' = <<>>
      BY <1>1, <2>2
    <3> QED BY <1>1, <2>2, <3>1, <3>2 DEF Told, Delivered
  <2> QED BY <1>4, <2>1, <2>2
<1> QED BY <1>5, <1>6, <1>7, <1>8 DEF Progress

\* What leaves run's data alone and delivers nothing: a failure, or no step at all.
LEMMA LeftProgress ==
  ASSUME Progress,
         UNCHANGED <<hits, channels, at, totalSeen, warnings, drain, cur, made, table>>,
         \/ pc' = pc /\ result' = result
         \/ pc' \in {"close", "done"} /\ result' = "failed"
         \/ pc = "close" /\ pc' = "done" /\ result' = result
  PROVE  Progress'
<1>1. /\ Wanted' = Wanted /\ Taken' = Taken
      /\ \A i : Truncated(i)' = Truncated(i) /\ Laid(i)' = Laid(i) /\ Hits(i)' = Hits(i)
      /\ \A c, k : Exportable(c, k)' = Exportable(c, k)
  BY SameReading
<1>2. Rows' = Rows
  BY DEF Rows
<1>3. CASE pc' = pc /\ result' = result
  <2>1. Seen'
    BY <1>1, <1>3 DEF Progress, Seen, Reading, drain
  <2>2. Written'
    BY <1>1, <1>2, <1>3 DEF Progress, Written, Reading, Read, Delivered, drain
  <2>3. Named'
    BY <1>1, <1>3 DEF Progress, Named, Read, Delivered
  <2>4. Told'
    BY <1>3 DEF Progress, Told, Delivered
  <2> QED BY <2>1, <2>2, <2>3, <2>4 DEF Progress
<1>4. CASE pc' \in {"close", "done"} /\ result' = "failed"
  <2>1. Seen'
    BY <1>4 DEF Progress, Seen, Reading, drain
  <2>2. Written'
    BY <1>4 DEF Written, Reading, Read, Delivered
  <2>3. Named'
    BY <1>1, <1>4 DEF Progress, Named, Read, Delivered
  <2>4. Told'
    BY <1>4 DEF Told, Delivered
  <2> QED BY <2>1, <2>2, <2>3, <2>4 DEF Progress
<1>5. CASE pc = "close" /\ pc' = "done" /\ result' = result
  <2>1. Seen'
    BY <1>5 DEF Progress, Seen, Reading, drain
  <2>2. Written'
    BY <1>1, <1>2, <1>5 DEF Progress, Written, Reading, Read, Delivered
  <2>3. Named'
    BY <1>1, <1>5 DEF Progress, Named, Read, Delivered
  <2>4. Told'
    BY <1>5 DEF Progress, Told, Delivered
  <2> QED BY <2>1, <2>2, <2>3, <2>4 DEF Progress
<1> QED BY <1>3, <1>4, <1>5

\* Every step of run keeps the invariant.
LEMMA RunProgress == RunInv /\ Progress /\ Len(scope) > 0 /\ Next => Progress'
<1> SUFFICES ASSUME RunInv, Progress, Len(scope) > 0, Next PROVE Progress'
  OBVIOUS
<1>1. CASE OpenPIT \/ StartChannel \/ Search \/ PageWritten
  BY <1>1, OpenProgress, StartProgress, SearchProgress, PageProgress
<1>2. CASE TotalTruncated \/ ChannelTruncated \/ WriteHit
  BY <1>2, TotalTruncatedProgress, ChannelTruncatedProgress, WriteProgress
<1>3. CASE Finish \/ Publish
  BY <1>3, FinishProgress, PublishProgress
<1>4. CASE Fail \/ FailOpen
  BY <1>4, LeftProgress DEF Fail, FailOpen, Return, inputs, writer
<1>5. CASE ClosePIT
  BY <1>5, LeftProgress DEF ClosePIT, inputs, writer
<1> QED BY <1>1, <1>2, <1>3, <1>4, <1>5 DEF Next

-----------------------------------------------------------------------------
(* What the invariant says of a result.                                    *)

\* All rows are in the parts of the table.
LEMMA ProgressExports == RunInv /\ Progress => ExportsWanted
<1> SUFFICES ASSUME RunInv, Progress, Delivered PROVE RowsOf(table) = Wanted
  BY DEF ExportsWanted
<1>1. Rows = Wanted /\ cur.rows = <<>> /\ table = made
  BY DEF Progress, Written, Told, Read
<1>2. RowsOf(made) \in Seq(Row)
  BY RowsTyped DEF RunInv
<1>3. RowsOf(made) \o <<>> = RowsOf(made)
  BY <1>2, ConcatEmptySeq
<1> QED BY <1>1, <1>3 DEF Rows

\* Without a warning no channel has lost hits, and with one some channel has.
LEMMA ProgressWarns == RunInv /\ Progress => WarningsHonest
<1> SUFFICES ASSUME RunInv, Progress, Delivered
             PROVE  /\ result = "completed" <=> \A i \in 1 .. Len(channels) : ~Truncated(i)
                    /\ \A w \in Range(warnings) :
                         \E i \in 1 .. Len(channels) : channels[i] = w.channel /\ Truncated(i)
                    /\ \A i \in 1 .. Len(channels) : Truncated(i) =>
                         \E w \in Range(warnings) :
                           \/ w.channel = channels[i]
                           \/ w.code = "total_truncated" /\ w.channel <= channels[i]
  BY DEF WarningsHonest
<1>1. /\ warnings \in Seq(Warning)
      /\ result = "completed" <=> warnings = <<>>
      /\ \A w \in Range(warnings) :
           \E i \in 1 .. Len(channels) : channels[i] = w.channel /\ Truncated(i)
      /\ \A i \in 1 .. Len(channels) : Truncated(i) =>
           \E w \in Range(warnings) : \/ w.channel = channels[i]
                                      \/ w.code = "total_truncated" /\ w.channel <= channels[i]
  BY DEF Progress, Named, Told, Read
<1>2. CASE warnings = <<>>
  <2>1. Range(warnings) = {}
    BY <1>2, NoWarning
  <2> QED BY <1>1, <1>2, <2>1
<1>3. CASE warnings # <<>>
  <2>1. /\ Range(warnings) = {warnings[i] : i \in 1 .. Len(warnings)}
        /\ Len(warnings) \in Nat \ {0}
    BY <1>1, <1>3, EmptySeq, LenProperties, RangeEquality
  <2>2. warnings[1] \in Range(warnings)
    BY <2>1
  <2> QED BY <1>1, <1>3, <2>2
<1> QED BY <1>2, <1>3

-----------------------------------------------------------------------------
(* Runs on their own, and tasks.                                           *)

\* A step of an admitted task keeps both invariants, as an arriving message does.
LEMMA TaskProgress ==
  RunInv /\ Admitted /\ Progress /\ [AdmissionNext]_allVars => Progress'
<1> SUFFICES ASSUME RunInv, Admitted, Progress, [AdmissionNext]_allVars PROVE Progress'
  OBVIOUS
<1>1. CASE SubmitStep \/ UNCHANGED allVars
  <2>1. UNCHANGED vars
    BY <1>1 DEF SubmitStep, Validate, CountChannel, CountFails, CheckTotal, SubmitTail, allVars
  <2> QED BY <2>1, LeftProgress DEF vars, inputs, writer
<1>2. CASE Execute
  <2>1. Len(scope) > 0
    BY <1>2, SubmitAssumption, EmptySeq DEF Execute, Admitted
  <2> QED BY <1>2, <2>1, RunProgress DEF Execute
<1>3. ASSUME NEW c \in Channels, Arrive(c) PROVE Progress'
  <2>1. /\ pc = "open"
        /\ UNCHANGED <<pc, totalSeen, chSeen, warnings, result, table>>
    BY <1>3 DEF Arrive, drain
  <2>2. /\ totalSeen = 0 /\ chSeen \in Nat /\ warnings = <<>> /\ result = "none"
        /\ table = <<>>
    BY <2>1 DEF Progress, Seen, Named, Told
  <2>3. (pc = "open" /\ totalSeen = 0 /\ chSeen \in Nat /\ warnings = <<>>
           /\ result = "none" /\ table = <<>> => Progress)'
    BY ProgressStarts, PTL
  <2> QED BY <2>1, <2>2, <2>3
<1> QED BY <1>1, <1>2, <1>3 DEF AdmissionNext

\* The invariant of what a task has exported, while messages arrive before its snapshot.
THEOREM ProgressOfTasks == AdmissionSpec => [](RunInv /\ Progress)
<1>1. AdmissionInit => Progress
  BY ProgressStarts DEF AdmissionInit, RunInit
<1> QED BY <1>1, TaskInvariance, TaskProgress, PTL DEF AdmissionSpec

\* Whatever the lengths of pages, parts and channels and the limits are, a result has
\* each exportable hit once, in order, up to the limits.
THEOREM ResultsExportWanted == AdmissionSpec => []ExportsWanted
  BY ProgressOfTasks, ProgressExports, PTL

\* Whatever the limits are, a result says whether hits were left out, and the warnings
\* name the channels that lost them and no others.
THEOREM ResultsWarnHonestly == AdmissionSpec => []WarningsHonest
  BY ProgressOfTasks, ProgressWarns, PTL

-----------------------------------------------------------------------------
(* Why run ends.                                                           *)

Order == [open |-> 0, channel |-> 1, search |-> 1, hit |-> 1, finish |-> 2, publish |-> 3,
          close |-> 4, done |-> 5]

\* Where run is, the coarser before the finer
Position == << Order[pc], at, IF pc = "channel" THEN 0 ELSE 1, after,
               IF pc = "hit" THEN 1 ELSE 0, chSeen, Len(table) >>

\* q is behind p in lexicographic order.
Ahead(p, q) == \E k \in 1 .. 7 : p[k] < q[k] /\ \A j \in 1 .. k - 1 : p[j] = q[j]

\* What bounds the numbers of Position while they grow
Bounds ==
  /\ pc \in DOMAIN Order /\ at \in 1 .. Len(channels) + 1
  /\ Reading => after <= Hits(at) /\ chSeen <= Hits(at)
  /\ pc = "publish" => Len(table) <= Len(made)

\* No page is empty while it is written.
Filled == /\ pc \in DOMAIN Order /\ at \in 1 .. Len(channels) + 1
          /\ pc = "hit" => pageLen # 0

runVars == <<pc, pit, channels, at, totalSeen, warnings, drain, writer, table, result>>

\* Witnesses of the order
LEMMA AheadAt ==
  ASSUME NEW p, NEW q, NEW k \in 1 .. 7, p[k] < q[k], \A j \in 1 .. k - 1 : p[j] = q[j]
  PROVE  Ahead(p, q)
  BY DEF Ahead

\* The numbers of a position
LEMMA PositionIs ==
  /\ Position[1] = Order[pc] /\ Position[2] = at
  /\ Position[3] = IF pc = "channel" THEN 0 ELSE 1
  /\ Position[4] = after /\ Position[5] = IF pc = "hit" THEN 1 ELSE 0
  /\ Position[6] = chSeen /\ Position[7] = Len(table)
  BY DEF Position

\* A step into a later phase, or to the next channel
LEMMA AheadByPhase ==
  ASSUME \/ Order[pc] < Order[pc']
         \/ Order[pc'] = Order[pc] /\ at < at'
  PROVE  Ahead(Position, Position')
<1>1. Position'[1] = Order[pc'] /\ Position'[2] = at'
  BY DEF Position
<1>2. CASE Order[pc] < Order[pc']
  <2>1. Position[1] < Position'[1] /\ \A j \in 1 .. 1 - 1 : Position[j] = Position'[j]
    BY <1>1, <1>2, PositionIs
  <2> HIDE DEF Position
  <2>2. 1 \in 1 .. 7
    OBVIOUS
  <2> QED BY <2>1, <2>2, AheadAt
<1>3. CASE Order[pc'] = Order[pc] /\ at < at'
  <2>1. Position[2] < Position'[2] /\ \A j \in 1 .. 2 - 1 : Position[j] = Position'[j]
    BY <1>1, <1>3, PositionIs
  <2>2. 2 \in 1 .. 7
    OBVIOUS
  <2> QED BY <2>1, <2>2, AheadAt
<1> QED BY <1>2, <1>3

\* NextChannel is one or the other.
LEMMA AheadByChannel ==
  ASSUME NextChannel, pc \in {"channel", "search", "hit"}, at \in Nat
  PROVE  Ahead(Position, Position')
<1>1. pc' \in {"channel", "finish"} /\ at < at'
  BY DEF NextChannel
<1>2. \/ Order[pc] < Order[pc']
      \/ Order[pc'] = Order[pc] /\ at < at'
  BY <1>1 DEF Order
<1> QED BY <1>2, AheadByPhase

\* A step within a channel or within the loop of AppendPart
LEMMA AheadWithin ==
  ASSUME Order[pc'] = Order[pc], at' = at,
         \/ pc = "channel" /\ pc' = "search"
         \/ /\ pc \in {"search", "hit"} /\ pc' \in {"search", "hit"}
            /\ \/ after < after'
               \/ after' = after /\ pc = "search" /\ pc' = "hit"
               \/ after' = after /\ pc' = pc /\ chSeen < chSeen'
         \/ pc' = pc /\ UNCHANGED drain /\ Len(table) < Len(table')
  PROVE  Ahead(Position, Position')
<1>1. /\ Position'[1] = Order[pc'] /\ Position'[2] = at'
      /\ Position'[3] = IF pc' = "channel" THEN 0 ELSE 1
      /\ Position'[4] = after' /\ Position'[5] = IF pc' = "hit" THEN 1 ELSE 0
      /\ Position'[6] = chSeen' /\ Position'[7] = Len(table')
  BY DEF Position
<1>2. {3, 4, 5, 6, 7} \subseteq 1 .. 7
  OBVIOUS
<1> USE PositionIs, AheadAt
<1>3. CASE pc = "channel" /\ pc' = "search"
  <2>1. Position[3] < Position'[3] /\ \A j \in 1 .. 3 - 1 : Position[j] = Position'[j]
    BY <1>1, <1>3
  <2> QED BY <1>2, <2>1
<1>4. CASE pc \in {"search", "hit"} /\ pc' \in {"search", "hit"} /\ after < after'
  <2>1. Position[4] < Position'[4] /\ \A j \in 1 .. 4 - 1 : Position[j] = Position'[j]
    BY <1>1, <1>4
  <2> QED BY <1>2, <2>1
<1>5. CASE after' = after /\ pc = "search" /\ pc' = "hit"
  <2>1. Position[5] < Position'[5] /\ \A j \in 1 .. 5 - 1 : Position[j] = Position'[j]
    BY <1>1, <1>5
  <2> QED BY <1>2, <2>1
<1>6. CASE pc \in {"search", "hit"} /\ after' = after /\ pc' = pc /\ chSeen < chSeen'
  <2>1. Position[6] < Position'[6] /\ \A j \in 1 .. 6 - 1 : Position[j] = Position'[j]
    BY <1>1, <1>6
  <2> QED BY <1>2, <2>1
<1>7. CASE pc' = pc /\ UNCHANGED drain /\ Len(table) < Len(table')
  <2>1. after' = after /\ chSeen' = chSeen
    BY <1>7 DEF drain
  <2>2. Position[7] < Position'[7] /\ \A j \in 1 .. 7 - 1 : Position[j] = Position'[j]
    BY <1>1, <1>7, <2>1
  <2> QED BY <1>2, <2>2
<1> QED BY <1>3, <1>4, <1>5, <1>6, <1>7

\* Each step of run moves it on, and no page that is written is empty.
LEMMA RunMoves ==
  RunInv /\ Progress /\ Filled /\ Next => Filled' /\ Ahead(Position, Position')
<1> SUFFICES ASSUME RunInv, Progress, Filled, Next
             PROVE  Filled' /\ Ahead(Position, Position')
  OBVIOUS
<1>1. Len(channels) \in Nat /\ at \in Nat /\ at \in 1 .. Len(channels) + 1
  BY LenProperties DEF RunInv, Loop, Filled
<1>2. ASSUME NextChannel, pc \in {"channel", "search", "hit"}, UNCHANGED channels
      PROVE  Filled' /\ Ahead(Position, Position')
  <2>1. at \in 1 .. Len(channels)
    BY <1>2 DEF RunInv, Loop
  <2>2. at' = at + 1 /\ pc' \in {"channel", "finish"}
    BY <1>2 DEF NextChannel
  <2>3. Filled'
    BY <1>1, <1>2, <2>1, <2>2 DEF Filled, Order
  <2> QED BY <1>1, <1>2, <2>3, AheadByChannel
<1>3. CASE OpenPIT
  <2>1. pc = "open" /\ pc' = "channel" /\ at' = at /\ at = 1 /\ Len(channels') \in Nat
    BY <1>3, LenProperties, FunctionSeq DEF OpenPIT, RunInv, Loop, Given, Sortings
  <2>2. Order[pc] < Order[pc'] /\ Filled'
    BY <2>1 DEF Order, Filled
  <2> QED BY <2>2, AheadByPhase
<1>4. CASE FailOpen \/ Fail \/ ClosePIT
  <2>1. /\ UNCHANGED <<at, channels>> /\ pc' \in {"close", "done"}
        /\ Order[pc] < Order[pc']
    BY <1>4 DEF FailOpen, Fail, ClosePIT, Return, Calls, Order
  <2>2. Filled'
    BY <1>1, <2>1 DEF Filled, Order
  <2> QED BY <2>1, <2>2, AheadByPhase
<1>5. CASE StartChannel
  <2>1. pc = "channel" /\ pc' = "search" /\ UNCHANGED <<at, channels>>
    BY <1>5 DEF StartChannel
  <2>2. Order[pc'] = Order[pc] /\ Filled'
    BY <1>1, <2>1 DEF Order, Filled
  <2> QED BY <2>1, <2>2, AheadWithin
<1>6. CASE Search
  <2>1. /\ pc = "search" /\ pageLen' = Len(page') /\ UNCHANGED <<channels, after>>
        /\ IF page' = <<>> THEN NextChannel ELSE pc' = "hit" /\ at' = at
    BY <1>6 DEF Search
  <2>2. CASE page' = <<>>
    BY <1>2, <2>1, <2>2
  <2>3. CASE page' # <<>>
    <3>1. page' \in Seq(Nat)
      BY <1>6, SearchKeeps DEF RunInv, Cursor
    <3>2. pageLen' # 0
      BY <2>1, <2>3, <3>1, EmptySeq
    <3>3. Order[pc'] = Order[pc] /\ Filled'
      BY <1>1, <2>1, <2>3, <3>2 DEF Order, Filled
    <3> QED BY <2>1, <2>3, <3>3, AheadWithin
  <2> QED BY <2>2, <2>3
<1>7. CASE TotalTruncated
  <2>1. pc = "hit" /\ pc' = "finish" /\ UNCHANGED <<at, channels>>
    BY <1>7 DEF TotalTruncated
  <2>2. Order[pc] < Order[pc'] /\ Filled'
    BY <1>1, <2>1 DEF Order, Filled
  <2> QED BY <2>2, AheadByPhase
<1>8. CASE ChannelTruncated
  BY <1>2, <1>8 DEF ChannelTruncated
<1>9. CASE WriteHit
  <2>1. /\ pc = "hit" /\ chSeen' = chSeen + 1 /\ UNCHANGED <<pc, at, channels, after, pageLen>>
    BY <1>9 DEF WriteHit
  <2>2. chSeen < chSeen'
    BY <2>1 DEF Progress, Seen
  <2>3. Filled'
    BY <2>1 DEF Filled
  <2> QED BY <2>1, <2>2, <2>3, AheadWithin
<1>10. CASE PageWritten
  <2>1. /\ pc = "hit" /\ after' = after + pageLen /\ UNCHANGED channels
        /\ IF pageLen < PageSize THEN NextChannel ELSE pc' = "search" /\ at' = at
    BY <1>10 DEF PageWritten
  <2>2. CASE pageLen < PageSize
    BY <1>2, <2>1, <2>2
  <2>3. CASE ~(pageLen < PageSize)
    <3>1. after < after'
      BY <2>1 DEF RunInv, Cursor, Filled
    <3>2. Order[pc'] = Order[pc] /\ Filled'
      BY <1>1, <2>1, <2>3 DEF Order, Filled
    <3> QED BY <2>1, <2>3, <3>1, <3>2, AheadWithin
  <2> QED BY <2>2, <2>3
<1>11. CASE Finish
  <2>1. pc = "finish" /\ pc' = "publish" /\ UNCHANGED <<at, channels>>
    BY <1>11 DEF Finish
  <2>2. Order[pc] < Order[pc'] /\ Filled'
    BY <1>1, <2>1 DEF Order, Filled
  <2> QED BY <2>2, AheadByPhase
<1>12. CASE Publish
  <2>1. /\ pc = "publish" /\ UNCHANGED <<at, channels, drain>>
        /\ \/ pc' = pc /\ table' = Append(table, made[Len(table) + 1])
              /\ Len(table) < Len(made)
           \/ pc' = "close"
    BY <1>12 DEF Publish, Return
  <2>2. Filled'
    BY <1>1, <2>1 DEF Order, Filled
  <2>3. CASE /\ pc' = pc /\ table' = Append(table, made[Len(table) + 1])
             /\ Len(table) < Len(made)
    <3>1. /\ table \in Seq(Part) /\ Len(table) \in Nat /\ made \in Seq(Part) /\ Len(made) \in Nat
      BY <2>1, LenProperties DEF Progress, Told, RunInv, Writer
    <3>2. made[Len(table) + 1] \in Part
      BY <2>3, <3>1, ElementOfSeq
    <3>3. Len(table') = Len(table) + 1
      BY <2>3, <3>1, <3>2, AppendProperties
    <3>4. Len(table) < Len(table')
      BY <3>1, <3>3
    <3> QED BY <2>1, <2>2, <2>3, <3>4, AheadWithin
  <2>4. CASE pc' = "close"
    <3>1. Order[pc] < Order[pc']
      BY <2>1, <2>4 DEF Order
    <3> QED BY <2>2, <3>1, AheadByPhase
  <2> QED BY <2>1, <2>3, <2>4
<1> QED BY <1>3, <1>4, <1>5, <1>6, <1>7, <1>8, <1>9, <1>10, <1>11, <1>12 DEF Next

\* Whatever the others do, run only moves on.
LEMMA TaskMoves ==
  RunInv /\ Progress /\ Filled /\ [AdmissionNext]_allVars =>
    Filled' /\ [Ahead(Position, Position')]_runVars
<1> SUFFICES ASSUME RunInv, Progress, Filled, [AdmissionNext]_allVars
             PROVE  Filled' /\ [Ahead(Position, Position')]_runVars
  OBVIOUS
<1>1. CASE UNCHANGED runVars
  BY <1>1 DEF Filled, runVars, drain
<1>2. CASE Execute
  BY <1>2, RunMoves DEF Execute
<1>3. CASE SubmitStep \/ UNCHANGED allVars
  BY <1>1, <1>3 DEF SubmitStep, Validate, CountChannel, CountFails, CheckTotal, SubmitTail,
     allVars, vars, runVars
<1>4. ASSUME NEW c \in Channels, Arrive(c) PROVE UNCHANGED runVars
  BY <1>4 DEF Arrive, runVars
<1> QED BY <1>1, <1>2, <1>3, <1>4 DEF AdmissionNext

\* Why run ends, for any hits and limits: each of its steps moves it on in an order of which
\* every number is bounded, so it cannot read one page for ever.
THEOREM RunGoesOn == AdmissionSpec => []Bounds /\ [][Ahead(Position, Position')]_runVars
<1>1. AdmissionInit => Filled
  <2> SUFFICES ASSUME AdmissionInit PROVE Filled
    OBVIOUS
  <2>1. pc = "open" /\ at = 1 /\ Len(channels) = 0
    BY EmptySeq DEF AdmissionInit, RunInit
  <2> QED BY <2>1 DEF Filled, Order
<1>2. RunInv /\ Progress /\ Filled => Bounds
  <2> SUFFICES ASSUME RunInv, Progress, Filled PROVE Bounds
    OBVIOUS
  <2>1. ASSUME Reading PROVE after <= Hits(at) /\ chSeen <= Hits(at)
    <3>1. Hits(at) \in Nat /\ after \in Nat /\ pageLen \in Nat
      BY <2>1, AtChannel DEF Reading, RunInv, Cursor
    <3> QED BY <2>1, <3>1 DEF Reading, Progress, Seen
  <2> QED BY <2>1 DEF Bounds, Filled, Progress, Told
<1> QED BY <1>1, <1>2, ProgressOfTasks, TaskMoves, PTL DEF AdmissionSpec
=============================================================================
