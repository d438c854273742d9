--------------------------- MODULE AdmissionProofs -----------------------------
(***************************************************************************)
(* Proofs about ExportRun and Admission for any channels, hits, scopes and *)
(* limits: the parts that a run makes are within their limits, of one      *)
(* channel each, and in the order of the channels.  RunInv is the          *)
(* inductive invariant; the argument is the one of Write: the open part    *)
(* has not reached a threshold, so that a part which is flushed behind a   *)
(* line was below both thresholds before that line.                        *)
(*                                                                         *)
(* The data path implements RunContract, behind Admission too: the flushes *)
(* of the writer are its uploads, the loop of AppendPart its part rows.    *)
(***************************************************************************)
EXTENDS Admission, TLAPS, SequenceTheorems

USE LimitAssumption

Row == [channel : Channels, hit : Nat]
Part == [channel : Nat, rows : Seq(Row), bytes : Nat]

\* The rows of a part are hits of its channel.
OwnRows(part) ==
  \A k \in 1 .. Len(part.rows) :
    part.rows[k].channel = part.channel /\ LineOf(part.rows[k]) \in Nat

\* A part below both thresholds
Open(part) == /\ part \in Part /\ OwnRows(part)
              /\ Len(part.rows) < PartMaxRows /\ part.bytes < PartMaxBytes

\* A part that was below both thresholds up to its last line
Whole(part) == /\ part \in Part /\ OwnRows(part)
               /\ Len(part.rows) \in 1 .. PartMaxRows
               /\ part.bytes - LineOf(part.rows[Len(part.rows)]) < PartMaxBytes

\* The hits and the scope are sequences; with the limits they are all that run is given.
Given == hits \in [Channels -> Seq(Sizes)] /\ Len(scope) \in Nat

Loop ==
  /\ channels \in Seq(Channels)
  /\ \A i, j \in 1 .. Len(channels) : i < j => channels[i] <= channels[j]
  /\ pc = "open" => made = <<>> /\ cur = EmptyPart(0) /\ at = 1
  /\ pc \in {"channel", "search", "hit"} => at \in 1 .. Len(channels)
  /\ pc = "channel" => cur.channel <= channels[at]
  /\ pc \in {"search", "hit"} => cur.channel = channels[at]

Cursor ==
  /\ page \in Seq(Nat) /\ pageLen \in Nat /\ after \in Nat
  /\ pc = "hit" => \A k \in 1 .. Len(page) : hits[channels[at]][page[k]] \in Nat

Writer ==
  /\ Open(cur)
  /\ made \in Seq(Part)
  /\ \A i \in 1 .. Len(made) : Whole(made[i]) /\ made[i].channel <= cur.channel
  /\ \A i, j \in 1 .. Len(made) : i < j => made[i].channel <= made[j].channel

RunInv == Given /\ Loop /\ Cursor /\ Writer

-----------------------------------------------------------------------------
\* A part without lines is open, as newPartBuffer leaves it.
LEMMA EmptyIsOpen == ASSUME NEW c \in Nat PROVE Open(EmptyPart(c)) /\ EmptyPart(c).channel = c
<1>1. EmptyPart(c) \in Part /\ Len(EmptyPart(c).rows) = 0
  BY EmptySeq DEF EmptyPart, Part
<1> QED BY <1>1 DEF Open, OwnRows, EmptyPart

\* A function on 1 .. n is a sequence of length n.
LEMMA FunctionSeq == ASSUME NEW S, NEW n \in Nat, NEW f \in [1 .. n -> S]
                     PROVE  f \in Seq(S) /\ Len(f) = n
<1>1. f = [i \in 1 .. n |-> f[i]]
  OBVIOUS
<1> DEFINE g == [i \in 1 .. n |-> f[i]]
<1>2. g \in Seq(S) /\ Len(g) = n
  OBVIOUS
<1> HIDE DEF g
<1> QED BY <1>1, <1>2 DEF g

\* One of the first few hits behind the cursor.
LEMMA MinBelow == ASSUME NEW a \in Int, NEW b \in Int
                  PROVE  Min({a, b}) \in Int /\ Min({a, b}) <= a /\ Min({a, b}) <= b
<1>1. \E x \in {a, b} : \A y \in {a, b} : x =< y
  <2>1. CASE a <= b
    BY <2>1
  <2>2. CASE b < a
    BY <2>2
  <2> QED BY <2>1, <2>2
<1>2. Min({a, b}) \in {a, b} /\ \A y \in {a, b} : Min({a, b}) =< y
  BY <1>1 DEF Min
<1> QED BY <1>2

\* A flush of an open part adds a whole one, or none.
LEMMA FlushWhole ==
  ASSUME Writer, NEW part, Open(part) \/ Whole(part), part.channel = cur.channel
  PROVE  /\ Flushed(part) \in Seq(Part)
         /\ \A i \in 1 .. Len(Flushed(part)) :
              Whole(Flushed(part)[i]) /\ Flushed(part)[i].channel <= cur.channel
         /\ \A i, j \in 1 .. Len(Flushed(part)) :
              i < j => Flushed(part)[i].channel <= Flushed(part)[j].channel
<1>1. CASE part.rows = <<>>
  BY <1>1 DEF Flushed, Writer
<1>2. CASE part.rows # <<>>
  <2>1. part \in Part /\ part.rows \in Seq(Row) /\ part.channel \in Nat /\ part.bytes \in Nat
    BY DEF Open, Whole, Part
  <2>2. Len(part.rows) \in Nat \ {0}
    BY <1>2, <2>1, EmptySeq
  <2>3. Whole(part)
    <3>1. ASSUME Open(part) PROVE Whole(part)
      <4>1. LineOf(part.rows[Len(part.rows)]) \in Nat
        BY <2>2, <3>1 DEF Open, OwnRows
      <4>2. OwnRows(part) /\ Len(part.rows) < PartMaxRows /\ part.bytes < PartMaxBytes
        BY <3>1 DEF Open
      <4>3. part.bytes - LineOf(part.rows[Len(part.rows)]) < PartMaxBytes
        BY <2>1, <4>1, <4>2
      <4>4. Len(part.rows) \in 1 .. PartMaxRows
        BY <2>2, <4>2
      <4> QED BY <2>1, <4>2, <4>3, <4>4 DEF Whole
    <3> QED BY <3>1
  <2>4. made \in Seq(Part) /\ Flushed(part) = Append(made, part)
    BY <1>2 DEF Writer, Flushed
  <2>5. /\ Append(made, part) \in Seq(Part)
        /\ Len(Append(made, part)) = Len(made) + 1
        /\ \A i \in 1 .. Len(made) : Append(made, part)[i] = made[i]
        /\ Append(made, part)[Len(made) + 1] = part
    BY <2>1, <2>4, AppendProperties
  <2>6. Len(made) \in Nat
    BY <2>4, LenProperties
  <2>7. \A i \in 1 .. Len(made) + 1 : i \in 1 .. Len(made) \/ i = Len(made) + 1
    BY <2>6
  <2>8. \A i \in 1 .. Len(made) : made[i].channel <= part.channel /\ Whole(made[i])
    BY DEF Writer
  <2>9. \A i \in 1 .. Len(made) + 1 :
          Whole(Append(made, part)[i]) /\ Append(made, part)[i].channel <= part.channel
    BY <2>1, <2>3, <2>5, <2>7, <2>8
  <2>10. ASSUME NEW i \in 1 .. Len(made) + 1, NEW j \in 1 .. Len(made) + 1, i < j
         PROVE  Append(made, part)[i].channel <= Append(made, part)[j].channel
    <3>1. i \in 1 .. Len(made)
      BY <2>6, <2>10
    <3>2. CASE j \in 1 .. Len(made)
      BY <2>5, <2>10, <3>1, <3>2 DEF Writer
    <3>3. CASE j = Len(made) + 1
      BY <2>5, <2>8, <3>1, <3>3
    <3> QED BY <2>7, <3>2, <3>3
  <2> QED BY <2>4, <2>5, <2>9, <2>10
<1> QED BY <1>1, <1>2

\* The hits of a channel are a sequence of lines.
LEMMA HitsTyped == HitsInit => hits \in [Channels -> Seq(Sizes)]
<1> SUFFICES ASSUME HitsInit PROVE hits \in [Channels -> Seq(Sizes)]
  OBVIOUS
<1>1. hits \in [Channels -> UNION {[1 .. n -> Sizes] : n \in 0 .. MaxHits}]
  BY DEF HitsInit
<1>2. ASSUME NEW c \in Channels PROVE hits[c] \in Seq(Sizes)
  <2>1. PICK n \in 0 .. MaxHits : hits[c] \in [1 .. n -> Sizes]
    BY <1>1
  <2> QED BY <2>1, FunctionSeq
<1> QED BY <1>1, <1>2

\* Before run starts there is nothing that could be wrong.
LEMMA StartsEmpty == RunInit /\ Given => RunInv
<1> SUFFICES ASSUME RunInit, Given PROVE RunInv
  OBVIOUS
<1>1. Loop /\ Cursor
  BY EmptySeq DEF RunInit, Loop, Cursor
<1>2. Writer
  <2>1. Open(cur) /\ cur.channel = 0
    BY EmptyIsOpen DEF RunInit
  <2> QED BY <2>1, EmptySeq DEF RunInit, Writer
<1> QED BY <1>1, <1>2 DEF RunInv

\* The writer is as it was while neither its parts nor the hits change.
LEMMA WriterSame ==
  ASSUME Writer, UNCHANGED <<hits, cur, made>>
  PROVE  Writer'
<1>1. \A row : LineOf(row)' = LineOf(row)
  BY DEF LineOf
<1>2. Open(cur)'
  BY <1>1 DEF Writer, Open, OwnRows
<1>3. ASSUME NEW i \in 1 .. Len(made) PROVE Whole(made[i])'
  <2>1. Whole(made[i])
    BY DEF Writer
  <2> QED BY <1>1, <2>1 DEF Whole, OwnRows
<1> QED BY <1>2, <1>3 DEF Writer

-----------------------------------------------------------------------------
\* OpenPIT: the sorted channels are channels in order.
LEMMA OpenKeeps == RunInv /\ Len(scope) > 0 /\ OpenPIT => RunInv'
<1> SUFFICES ASSUME RunInv, Len(scope) > 0, OpenPIT PROVE RunInv'
  OBVIOUS
<1>1. /\ channels' \in [1 .. Len(scope) -> Channels] /\ Len(scope) \in Nat
      /\ \A i, j \in 1 .. Len(scope) : i < j => channels'[i] <= channels'[j]
  BY DEF OpenPIT, Sortings, RunInv, Given
<1>2. channels' \in Seq(Channels) /\ Len(channels') = Len(scope)
  BY <1>1, FunctionSeq
<1>3. /\ pc' = "channel" /\ pc = "open"
      /\ UNCHANGED <<inputs, at, drain, writer>>
  BY DEF OpenPIT
<1>4. cur = EmptyPart(0) /\ at = 1
  BY <1>3 DEF RunInv, Loop
<1>5. channels'[1] \in Nat
  <2>1. 1 \in 1 .. Len(scope)
    BY <1>1
  <2>2. channels'[1] \in Channels
    BY <1>1, <2>1
  <2> QED BY <2>2
<1>6. Loop'
  BY <1>1, <1>2, <1>3, <1>4, <1>5, EmptyIsOpen DEF Loop, writer
<1>7. Given' /\ Cursor' /\ Writer'
  <2>1. Given' /\ Cursor'
    BY <1>3 DEF RunInv, Given, Cursor, inputs, drain
  <2>2. Writer'
    BY <1>3, WriterSame DEF RunInv, inputs, writer
  <2> QED BY <2>1, <2>2
<1> QED BY <1>6, <1>7 DEF RunInv

\* StartChannel flushes what is left of the last channel.
LEMMA StartKeeps == RunInv /\ StartChannel => RunInv'
<1> SUFFICES ASSUME RunInv, StartChannel PROVE RunInv'
  OBVIOUS
<1>1. /\ pc = "channel" /\ pc' = "search"
      /\ made' = Flushed(cur) /\ cur' = EmptyPart(channels[at]) /\ after' = 0
      /\ UNCHANGED <<inputs, channels, at, page, pageLen>>
  BY DEF StartChannel, Channel
<1>2. channels \in Seq(Channels) /\ at \in 1 .. Len(channels) /\ cur.channel <= channels[at]
  BY <1>1 DEF RunInv, Loop
<1>3. channels[at] \in Channels /\ channels[at] \in Nat
  BY <1>2, ElementOfSeq
<1>4. Open(EmptyPart(channels[at])) /\ cur'.channel = channels[at] /\ cur.channel \in Nat
  BY <1>1, <1>3, EmptyIsOpen DEF RunInv, Writer, Open, Part
<1>5. /\ made' \in Seq(Part)
      /\ \A i \in 1 .. Len(made') : Whole(made'[i]) /\ made'[i].channel <= cur.channel
      /\ \A i, j \in 1 .. Len(made') : i < j => made'[i].channel <= made'[j].channel
  BY <1>1, FlushWhole DEF RunInv, Writer
<1>6. ASSUME NEW i \in 1 .. Len(made') PROVE made'[i].channel <= cur'.channel
  <2> DEFINE a == made'[i].channel
             b == cur.channel
             c == channels[at]
  <2>1. a \in Nat /\ a <= b
    BY <1>5 DEF Whole, Part
  <2>2. b \in Nat /\ c \in Nat /\ b <= c /\ cur'.channel = c
    BY <1>2, <1>3, <1>4
  <2> HIDE DEF a, b, c
  <2>3. a <= c
    BY <2>1, <2>2
  <2> QED BY <2>2, <2>3 DEF a, c
<1>7. Writer'
  <2>1. Writer' <=> /\ Open(cur')
                    /\ made' \in Seq(Part)
                    /\ \A i \in 1 .. Len(made') :
                         Whole(made'[i]) /\ made'[i].channel <= cur'.channel
                    /\ \A i, j \in 1 .. Len(made') :
                         i < j => made'[i].channel <= made'[j].channel
    BY <1>1 DEF Writer, Open, Whole, OwnRows, LineOf, inputs
  <2>2. Open(cur')
    BY <1>1, <1>4
  <2> QED BY <1>5, <1>6, <2>1, <2>2
<1>8. Loop' /\ Given' /\ Cursor'
  BY <1>1, <1>2, <1>4 DEF RunInv, Loop, Given, Cursor, inputs
<1> QED BY <1>7, <1>8 DEF RunInv

\* The steps that touch neither the writer nor the sorted channels, and that go on
\* with the same channel, the next one, or none.
LEMMA ReadKeeps ==
  ASSUME RunInv, UNCHANGED <<inputs, channels, writer>>, Cursor',
         \/ pc \in {"search", "hit"} /\ pc' \in {"search", "hit"} /\ at' = at
         \/ pc \in {"search", "hit"} /\ NextChannel
         \/ pc # "open" /\ pc' \in {"finish", "publish", "close", "done"}
  PROVE  RunInv'
<1>1. Given' /\ Writer'
  BY WriterSame DEF RunInv, Given, inputs, writer
<1>2. Loop'
  <2>1. /\ channels' = channels /\ cur' = cur
        /\ channels \in Seq(Channels) /\ Len(channels) \in Nat
        /\ \A i, j \in 1 .. Len(channels) : i < j => channels[i] <= channels[j]
    BY LenProperties DEF RunInv, Loop, writer
  <2>2. CASE pc \in {"search", "hit"} /\ pc' \in {"search", "hit"} /\ at' = at
    BY <2>1, <2>2 DEF RunInv, Loop
  <2>3. CASE pc \in {"search", "hit"} /\ NextChannel
    <3>1. at \in 1 .. Len(channels) /\ cur.channel = channels[at]
      BY <2>3 DEF RunInv, Loop
    <3>2. CASE at < Len(channels)
      BY <2>1, <2>3, <3>1, <3>2 DEF Loop, NextChannel
    <3>3. CASE ~(at < Len(channels))
      BY <2>1, <2>3, <3>3 DEF Loop, NextChannel
    <3> QED BY <3>2, <3>3
  <2>4. CASE pc # "open" /\ pc' \in {"finish", "publish", "close", "done"}
    BY <2>1, <2>4 DEF Loop
  <2> QED BY <2>2, <2>3, <2>4
<1> QED BY <1>1, <1>2 DEF RunInv

\* Search returns hits of the channel.
LEMMA SearchKeeps == RunInv /\ Search => RunInv'
<1> SUFFICES ASSUME RunInv, Search PROVE RunInv'
  OBVIOUS
<1>1. /\ pc = "search" /\ page' = NextPage /\ pageLen' = Len(page')
      /\ UNCHANGED <<inputs, channels, writer, after>>
      /\ IF page' = <<>> THEN NextChannel ELSE pc' = "hit" /\ at' = at
  BY DEF Search
<1>2. channels[at] \in Channels
  BY <1>1, ElementOfSeq DEF RunInv, Loop
<1>3. hits[channels[at]] \in Seq(Sizes) /\ after \in Nat
  BY <1>2 DEF RunInv, Given, Cursor
<1> DEFINE line == hits[channels[at]]
           m == Min({PageSize, Len(line) - after})
<1>4. Len(line) \in Nat
  BY <1>3, LenProperties
<1>5. m \in Int /\ m <= Len(line) - after
  <2>1. PageSize \in Int /\ Len(line) - after \in Int
    BY <1>3, <1>4
  <2> QED BY <2>1, MinBelow
<1> HIDE DEF m
<1>6. page' = [k \in 1 .. m |-> after + k]
  BY <1>1 DEF NextPage, Channel, m
<1>7. page' \in Seq(Nat) /\ \A k \in 1 .. Len(page') : page'[k] \in 1 .. Len(line)
  <2>1. CASE m \in Nat
    BY <1>3, <1>4, <1>5, <1>6, <2>1
  <2>2. CASE m \notin Nat
    <3>1. 1 .. m = 1 .. 0
      BY <1>5, <2>2
    <3>2. page' = [k \in 1 .. 0 |-> after + k]
      BY <1>6, <3>1
    <3>3. page' \in Seq(Nat) /\ Len(page') = 0
      BY <1>3, <3>2
    <3> QED BY <3>3
  <2> QED BY <2>1, <2>2
<1>8. \A k \in 1 .. Len(page') : line[page'[k]] \in Nat
  BY <1>3, <1>7, ElementOfSeq
<1>9. Cursor'
  <2>1. pageLen' \in Nat
    BY <1>1, <1>7, LenProperties
  <2>2. pc' = "hit" => at' = at
    BY <1>1 DEF NextChannel
  <2> QED BY <1>1, <1>3, <1>7, <1>8, <2>1, <2>2 DEF Cursor, inputs
<1> QED BY <1>1, <1>9, ReadKeeps

\* Write adds the line to the open part; a part that reaches a threshold by it is flushed.
LEMMA WriteKeeps == RunInv /\ WriteHit => RunInv'
<1> SUFFICES ASSUME RunInv, WriteHit PROVE RunInv'
  OBVIOUS
<1> DEFINE row == [channel |-> channels[at], hit |-> Head(page)]
<1>1. /\ pc = "hit" /\ page # <<>> /\ page' = Tail(page)
      /\ NextPart = Extended(cur, row)
      /\ IF Full(NextPart) THEN made' = Flushed(NextPart) /\ cur' = EmptyPart(channels[at])
                           ELSE cur' = NextPart /\ made' = made
      /\ UNCHANGED <<inputs, pc, channels, at, after, pageLen>>
  BY DEF WriteHit, MayWrite, NextPart, Channel
<1>2. /\ channels[at] \in Channels /\ channels[at] \in Nat
      /\ cur.channel = channels[at]
  BY <1>1, ElementOfSeq DEF RunInv, Loop
<1>3. /\ page \in Seq(Nat) /\ Len(page) \in Nat \ {0}
      /\ Head(page) = page[1] /\ Tail(page) \in Seq(Nat)
      /\ Len(Tail(page)) = Len(page) - 1
      /\ \A i \in 1 .. Len(Tail(page)) : Tail(page)[i] = page[i + 1]
  BY <1>1, EmptySeq, HeadTailProperties DEF RunInv, Cursor
<1>4. row \in Row /\ LineOf(row) \in Nat
  BY <1>1, <1>2, <1>3 DEF RunInv, Cursor, Row, LineOf
<1>5. Cursor'
  BY <1>1, <1>3 DEF RunInv, Cursor, inputs
<1>6. cur \in Part /\ OwnRows(cur) /\ Len(cur.rows) < PartMaxRows /\ cur.bytes < PartMaxBytes
  BY DEF RunInv, Writer, Open
<1>7. cur.rows \in Seq(Row) /\ Len(cur.rows) \in Nat /\ cur.bytes \in Nat
  BY <1>6, LenProperties DEF Part
<1>8. /\ NextPart \in Part /\ OwnRows(NextPart) /\ NextPart.channel = cur.channel
      /\ Full(NextPart) => Whole(NextPart)
      /\ ~Full(NextPart) => Open(NextPart)
  <2>1. CASE LineOf(row) = 0
    <3>1. NextPart = cur
      BY <1>1, <2>1 DEF Extended
    <3> QED BY <1>6, <1>7, <3>1 DEF Full, Open
  <2>2. CASE LineOf(row) # 0
    <3>1. NextPart = [cur EXCEPT !.rows = Append(@, row), !.bytes = @ + LineOf(row)]
      BY <1>1, <2>2 DEF Extended
    <3>2. /\ Append(cur.rows, row) \in Seq(Row)
          /\ Len(Append(cur.rows, row)) = Len(cur.rows) + 1
          /\ \A i \in 1 .. Len(cur.rows) : Append(cur.rows, row)[i] = cur.rows[i]
          /\ Append(cur.rows, row)[Len(cur.rows) + 1] = row
      BY <1>4, <1>7, AppendProperties
    <3>3. /\ NextPart.rows = Append(cur.rows, row)
          /\ NextPart.bytes = cur.bytes + LineOf(row)
          /\ NextPart.channel = cur.channel
          /\ NextPart \in Part
      <4> DEFINE rows == Append(cur.rows, row)
                 bytes == cur.bytes + LineOf(row)
      <4>1. rows \in Seq(Row) /\ bytes \in Nat
        BY <1>4, <1>7, <3>2
      <4>2. NextPart = [cur EXCEPT !.rows = rows, !.bytes = bytes]
        BY <3>1
      <4> HIDE DEF rows, bytes
      <4>3. /\ NextPart.rows = rows /\ NextPart.bytes = bytes /\ NextPart.channel = cur.channel
            /\ NextPart \in Part
        BY <1>6, <4>1, <4>2 DEF Part
      <4> QED BY <4>3 DEF rows, bytes
    <3>4. OwnRows(NextPart)
      <4>1. row.channel = cur.channel /\ LineOf(row) \in Nat
        BY <1>2, <1>4
      <4> HIDE DEF row
      <4>2. \A k \in 1 .. Len(cur.rows) + 1 : k \in 1 .. Len(cur.rows) \/ k = Len(cur.rows) + 1
        BY <1>7
      <4>3. \A k \in 1 .. Len(cur.rows) + 1 :
              LET r == Append(cur.rows, row)[k]
              IN  r.channel = cur.channel /\ LineOf(r) \in Nat
        BY <1>6, <3>2, <4>1, <4>2 DEF OwnRows
      <4> QED BY <3>2, <3>3, <4>3 DEF OwnRows
    <3>5. Full(NextPart) => Whole(NextPart)
      BY <1>4, <1>6, <1>7, <3>2, <3>3, <3>4 DEF Whole
    <3>6. ~Full(NextPart) => Open(NextPart)
      BY <1>4, <1>6, <1>7, <3>2, <3>3, <3>4 DEF Open, Full
    <3> QED BY <3>3, <3>4, <3>5, <3>6
  <2> QED BY <2>1, <2>2
<1>9. Writer' /\ cur'.channel = cur.channel
  <2>1. CASE Full(NextPart)
    <3>1. /\ made' \in Seq(Part)
          /\ \A i \in 1 .. Len(made') : Whole(made'[i]) /\ made'[i].channel <= cur.channel
          /\ \A i, j \in 1 .. Len(made') : i < j => made'[i].channel <= made'[j].channel
      BY <1>1, <1>8, <2>1, FlushWhole DEF RunInv
    <3>2. Open(cur') /\ cur'.channel = cur.channel
      BY <1>1, <1>2, <2>1, EmptyIsOpen
    <3> QED BY <1>1, <3>1, <3>2 DEF Writer, Open, Whole, OwnRows, LineOf, inputs
  <2>2. CASE ~Full(NextPart)
    BY <1>1, <1>8, <2>2 DEF RunInv, Writer, Open, Whole, OwnRows, LineOf, inputs
  <2> QED BY <2>1, <2>2
<1>10. Loop' /\ Given'
  BY <1>1, <1>2, <1>9 DEF RunInv, Loop, Given, inputs
<1> QED BY <1>5, <1>9, <1>10 DEF RunInv

\* Finish flushes the last part.
LEMMA FinishKeeps == RunInv /\ Finish => RunInv'
<1> SUFFICES ASSUME RunInv, Finish PROVE RunInv'
  OBVIOUS
<1>1. /\ pc = "finish" /\ pc' = "publish"
      /\ made' = Flushed(cur) /\ cur' = EmptyPart(cur.channel)
      /\ UNCHANGED <<inputs, channels, at, drain>>
  BY DEF Finish
<1>2. cur.channel \in Nat /\ Open(cur)
  BY DEF RunInv, Writer, Open, Part
<1>3. Open(cur') /\ cur'.channel = cur.channel
  BY <1>1, <1>2, EmptyIsOpen
<1>4. /\ made' \in Seq(Part)
      /\ \A i \in 1 .. Len(made') : Whole(made'[i]) /\ made'[i].channel <= cur.channel
      /\ \A i, j \in 1 .. Len(made') : i < j => made'[i].channel <= made'[j].channel
  BY <1>1, <1>2, FlushWhole DEF RunInv
<1>5. Writer'
  <2>1. Writer' <=> /\ Open(cur')
                    /\ made' \in Seq(Part)
                    /\ \A i \in 1 .. Len(made') :
                         Whole(made'[i]) /\ made'[i].channel <= cur'.channel
                    /\ \A i, j \in 1 .. Len(made') :
                         i < j => made'[i].channel <= made'[j].channel
    BY <1>1 DEF Writer, Open, Whole, OwnRows, LineOf, inputs
  <2> QED BY <1>3, <1>4, <2>1
<1>6. Loop' /\ Given' /\ Cursor'
  BY <1>1 DEF RunInv, Loop, Given, Cursor, inputs, drain
<1> QED BY <1>5, <1>6 DEF RunInv

\* What neither touches the hits nor run's data keeps the invariant.
LEMMA StutterKeeps ==
  ASSUME RunInv, UNCHANGED <<hits, scope, pc, channels, at, after, page, pageLen, cur, made>>
  PROVE  RunInv'
<1>1. Given' /\ Cursor'
  BY DEF RunInv, Given, Cursor
<1>2. Loop'
  BY DEF RunInv, Loop
<1>3. Writer'
  BY WriterSame DEF RunInv
<1> QED BY <1>1, <1>2, <1>3 DEF RunInv

\* Every step of run keeps the invariant.
LEMMA RunKeeps == RunInv /\ Len(scope) > 0 /\ Next => RunInv'
<1> SUFFICES ASSUME RunInv, Len(scope) > 0, Next PROVE RunInv'
  OBVIOUS
<1>1. CASE OpenPIT \/ StartChannel \/ Search \/ WriteHit \/ Finish
  BY <1>1, OpenKeeps, StartKeeps, SearchKeeps, WriteKeeps, FinishKeeps
<1>2. CASE TotalTruncated \/ ChannelTruncated
  <2>1. Cursor'
    BY <1>2 DEF TotalTruncated, ChannelTruncated, RunInv, Cursor, NextChannel, drain, inputs
  <2> QED BY <1>2, <2>1, ReadKeeps DEF TotalTruncated, ChannelTruncated
<1>3. CASE PageWritten
  <2>1. Cursor'
    BY <1>3 DEF PageWritten, RunInv, Cursor, NextChannel, inputs
  <2> QED BY <1>3, <2>1, ReadKeeps DEF PageWritten
<1>4. CASE Publish
  <2>1. Cursor'
    BY <1>4 DEF Publish, Return, RunInv, Cursor, drain, inputs
  <2> QED BY <1>4, <2>1, ReadKeeps DEF Publish, Return
<1>5. CASE Fail \/ ClosePIT
  <2>1. Cursor'
    BY <1>5 DEF Fail, ClosePIT, Return, RunInv, Cursor, drain, inputs
  <2> QED BY <1>5, <2>1, ReadKeeps DEF Fail, ClosePIT, Return, Calls
<1>6. CASE FailOpen
  <2>1. /\ pc = "open" /\ pc' = "done"
        /\ UNCHANGED <<inputs, channels, at, drain, writer>>
    BY <1>6 DEF FailOpen
  <2>2. Loop'
    BY <2>1 DEF RunInv, Loop, writer
  <2>3. Given' /\ Cursor'
    BY <2>1 DEF RunInv, Given, Cursor, inputs, drain
  <2>4. Writer'
    BY <2>1, WriterSame DEF RunInv, inputs, writer
  <2> QED BY <2>2, <2>3, <2>4 DEF RunInv
<1> QED BY <1>1, <1>2, <1>3, <1>4, <1>5, <1>6 DEF Next

-----------------------------------------------------------------------------
\* The invariant says that the parts are well formed.
LEMMA WholePartsWellFormed == RunInv => PartsWellFormed
<1> SUFFICES ASSUME RunInv PROVE PartsWellFormed
  OBVIOUS
<1>1. ASSUME NEW i \in 1 .. Len(made)
      PROVE  /\ Len(made[i].rows) \in 1 .. PartMaxRows
             /\ \A k \in 1 .. Len(made[i].rows) : made[i].rows[k].channel = made[i].channel
             /\ made[i].bytes - LineOf(Last(made[i].rows)) < PartMaxBytes
  BY <1>1 DEF RunInv, Writer, Whole, OwnRows, Last
<1> QED BY <1>1 DEF RunInv, Writer, PartsWellFormed

\* The parts of a run on its own, from fixed hits.
THEOREM PartsOfRuns == Spec => []PartsWellFormed
<1>1. Init => RunInv /\ (Len(scope) > 0)
  <2> SUFFICES ASSUME Init PROVE RunInv /\ Len(scope) > 0
    OBVIOUS
  <2>1. PICK n \in 1 .. MaxScope : scope \in [1 .. n -> Channels]
    BY DEF Init
  <2>2. Len(scope) = n /\ n \in Nat \ {0}
    BY <2>1, FunctionSeq
  <2> QED BY <2>2, HitsTyped, StartsEmpty DEF Init, Given
<1>2. RunInv /\ (Len(scope) > 0) /\ [Next]_vars => RunInv' /\ (Len(scope) > 0)'
  <2> SUFFICES ASSUME RunInv, Len(scope) > 0, [Next]_vars PROVE RunInv' /\ (Len(scope) > 0)'
    OBVIOUS
  <2>1. CASE Next
    <3>1. scope' = scope
      BY <2>1 DEF Next, OpenPIT, FailOpen, StartChannel, Search, TotalTruncated,
         ChannelTruncated, WriteHit, PageWritten, Finish, Publish, Fail, ClosePIT, inputs
    <3> QED BY <2>1, <3>1, RunKeeps
  <2>2. CASE UNCHANGED vars
    <3>1. scope' = scope
      BY <2>2 DEF vars, inputs
    <3>2. RunInv'
      BY <2>2, StutterKeeps DEF vars, inputs, drain, writer
    <3> QED BY <3>1, <3>2
  <2> QED BY <2>1, <2>2
<1> QED BY <1>1, <1>2, WholePartsWellFormed, PTL DEF Spec

\* What an admitted request gives to run.
Admitted == /\ scope = request.scope /\ request \in Requests
            /\ entry \in {"count", "tail", "admitted"} => request.scope # <<>>
            /\ pc # "open" => entry = "admitted"

\* The invariant of a run holds behind a submission too, and while messages arrive.
THEOREM TaskInvariance == AdmissionSpec => [](RunInv /\ Admitted)
<1>1. AdmissionInit => RunInv /\ Admitted
  <2> SUFFICES ASSUME AdmissionInit PROVE RunInv /\ Admitted
    OBVIOUS
  <2>1. hits \in [Channels -> Seq(Sizes)]
    BY HitsTyped DEF AdmissionInit
  <2>2. Len(scope) \in Nat
    BY LenProperties, SubmitAssumption DEF AdmissionInit
  <2> QED BY <2>1, <2>2, StartsEmpty DEF AdmissionInit, Admitted, RunInit, Given
<1>2. RunInv /\ Admitted /\ [AdmissionNext]_allVars => RunInv' /\ Admitted'
  <2> SUFFICES ASSUME RunInv, Admitted, [AdmissionNext]_allVars PROVE RunInv' /\ Admitted'
    OBVIOUS
  <2>1. CASE SubmitStep \/ UNCHANGED allVars
    <3>1. UNCHANGED vars
      BY <2>1 DEF SubmitStep, Validate, CountChannel, CountFails, CheckTotal, SubmitTail, allVars
    <3>2. RunInv'
      BY <3>1, StutterKeeps DEF vars, inputs, drain, writer
    <3>3. Admitted'
      BY <2>1, <3>1 DEF Admitted, SubmitStep, Validate, CountChannel, CountFails, CheckTotal,
         SubmitTail, Answer, Violation, allVars, submitVars, vars, inputs
    <3> QED BY <3>2, <3>3
  <2>2. CASE Execute
    <3>1. Len(scope) > 0
      BY <2>2, SubmitAssumption, EmptySeq DEF Execute, Admitted
    <3>2. scope' = scope
      BY <2>2 DEF Execute, Next, OpenPIT, FailOpen, StartChannel, Search, TotalTruncated,
         ChannelTruncated, WriteHit, PageWritten, Finish, Publish, Fail, ClosePIT, inputs
    <3> QED BY <2>2, <3>1, <3>2, RunKeeps DEF Execute, Admitted, submitVars
  <2>3. ASSUME NEW c \in Channels, Arrive(c)
        PROVE  RunInv' /\ Admitted'
    <3>1. /\ pc = "open" /\ UNCHANGED <<scope, pc, channels, at, drain, writer, request, entry>>
          /\ \E size \in Sizes : hits' = [hits EXCEPT ![c] = <<size>> \o @]
      BY <2>3 DEF Arrive
    <3>2. Given'
      <4>1. PICK size \in Sizes : hits' = [hits EXCEPT ![c] = <<size>> \o @]
        BY <3>1
      <4>2. hits[c] \in Seq(Sizes) /\ <<size>> \in Seq(Sizes)
        BY DEF RunInv, Given
      <4>3. <<size>> \o hits[c] \in Seq(Sizes)
        BY <4>2, ConcatProperties
      <4> QED BY <3>1, <4>1, <4>3 DEF RunInv, Given
    <3>3. Loop' /\ Cursor'
      BY <3>1 DEF RunInv, Loop, Cursor, drain, writer
    <3>4. Writer'
      <4>1. cur = EmptyPart(0) /\ made = <<>> /\ cur' = cur /\ made' = made
        BY <3>1 DEF RunInv, Loop, writer
      <4>2. Len(cur.rows) = 0 /\ Len(made) = 0
        BY <4>1, EmptySeq DEF EmptyPart
      <4> QED BY <4>1, <4>2 DEF RunInv, Writer, Open, OwnRows
    <3> QED BY <3>1, <3>2, <3>3, <3>4 DEF RunInv, Admitted
  <2> QED BY <2>1, <2>2, <2>3 DEF AdmissionNext
<1> QED BY <1>1, <1>2, PTL DEF AdmissionSpec

\* The parts of any task, however many messages arrive before its snapshot, are within
\* the limits, of one channel each, and in the order of the channels.
THEOREM PartsOfTasks == AdmissionSpec => []PartsWellFormed
  BY TaskInvariance, WholePartsWellFormed, PTL

-----------------------------------------------------------------------------
(* The contract of run.                                                    *)

Up == Counted(Len(made))
Rec == Counted(Len(table))

stage == [t \in {1} |-> Stage]
uploads == [t \in {1} |-> Up]
records == [t \in {1} |-> Rec]

\* Part rows are written behind the last flush, and no more than there are parts.
Recorded ==
  /\ table \in Seq(Part) /\ Len(table) <= Len(made)
  /\ pc \in {"open", "channel", "search", "hit", "finish"} => table = <<>>

\* What a step of run may do to the task
StageStep ==
  \/ Stage' = Stage /\ Up' = Up /\ Rec' = Rec
  \/ Stage = "before" /\ Stage' = "running" /\ Up' = Up /\ Rec' = Rec
  \/ Stage = "running" /\ Stage' = "running" /\ Rec = 0 /\ Rec' = 0 /\ Up' = Up + 1
  \/ Stage = "running" /\ Stage' = "running" /\ Rec < Up /\ Rec' = Rec + 1 /\ Up' = Up
  \/ Stage = "running" /\ Stage' = "succeeded" /\ Up <= Rec + 1 /\ Rec' = Up /\ Up' = Up
  \/ Stage = "running" /\ Stage' = "failed" /\ Up' = 0 /\ Rec' = 0
  \/ Stage \in {"before", "succeeded", "failed"} /\ Stage' = "over" /\ Up' = 0 /\ Rec' = 0

\* Each of these is a step of the contract.
LEMMA StageSteps == StageStep => [Run!Next]_Run!vars
<1> SUFFICES ASSUME StageStep PROVE [Run!Next]_Run!vars
  OBVIOUS
<1>1. /\ stage' = [stage EXCEPT ![1] = Stage'] /\ stage[1] = Stage
      /\ uploads' = [uploads EXCEPT ![1] = Up'] /\ uploads[1] = Up
      /\ records' = [records EXCEPT ![1] = Rec'] /\ records[1] = Rec
  BY DEF stage, uploads, records
<1>2. /\ stage = [stage EXCEPT ![1] = Stage]
      /\ uploads = [uploads EXCEPT ![1] = Up]
      /\ records = [records EXCEPT ![1] = Rec]
  BY DEF stage, uploads, records
<1> USE <1>1, <1>2 DEF Run!Next, Run!vars, Up, Rec
<1>3. CASE Stage' = Stage /\ Up' = Up /\ Rec' = Rec
  BY <1>3 DEF stage, uploads, records
<1>4. CASE Stage = "before" /\ Stage' = "running" /\ Up' = Up /\ Rec' = Rec
  BY <1>4 DEF Run!Enter, stage, uploads, records
<1>5. CASE Stage = "running" /\ Stage' = "running" /\ Rec = 0 /\ Rec' = 0 /\ Up' = Up + 1
  <2>1. stage' = stage /\ records' = records /\ uploads' = [uploads EXCEPT ![1] = uploads[1] + 1]
    BY <1>5
  <2>2. stage[1] = "running" /\ records[1] = 0
    BY <1>5
  <2> QED BY <2>1, <2>2 DEF Run!Upload, stage, uploads, records
<1>6. CASE Stage = "running" /\ Stage' = "running" /\ Rec < Up /\ Rec' = Rec + 1 /\ Up' = Up
  BY <1>6 DEF Run!Record, stage, uploads, records
<1>7. CASE /\ Stage = "running" /\ Stage' = "succeeded"
           /\ Up <= Rec + 1 /\ Rec' = Up /\ Up' = Up
  BY <1>7 DEF Run!Succeed, stage, uploads, records
<1>8. CASE Stage = "running" /\ Stage' = "failed" /\ Up' = 0 /\ Rec' = 0
  BY <1>8 DEF Run!Fail, Run!Forgotten, stage, uploads, records
<1>9. CASE Stage \in {"before", "succeeded", "failed"} /\ Stage' = "over" /\ Up' = 0 /\ Rec' = 0
  BY <1>9 DEF Run!End, Run!Forgotten, stage, uploads, records
<1> QED BY <1>3, <1>4, <1>5, <1>6, <1>7, <1>8, <1>9 DEF StageStep

-----------------------------------------------------------------------------
\* A flush leaves one part more, or none.
LEMMA FlushCounts ==
  ASSUME Writer, NEW part, Open(part) \/ Whole(part)
  PROVE  /\ Len(made) \in Nat
         /\ Flushed(part) = made \/ Len(Flushed(part)) = Len(made) + 1
<1>1. part \in Part /\ made \in Seq(Part)
  BY DEF Writer, Open, Whole
<1> QED BY <1>1, AppendProperties, LenProperties DEF Flushed

\* The stage that run is in while it reads
LEMMA WhileReading ==
  ASSUME RunInv, Recorded, pc \in {"channel", "search", "hit", "finish"}
  PROVE  /\ Stage = "running" /\ Up = Len(made) /\ Rec = 0 /\ Len(made) \in Nat
         /\ table = <<>>
  BY EmptySeq, LenProperties DEF RunInv, Writer, Recorded, Stage, Up, Rec, Counted

\* A step that flushes, while run reads.
LEMMA FlushIsUpload ==
  ASSUME RunInv, Recorded, pc \in {"channel", "search", "hit", "finish"},
         pc' \in {"channel", "search", "hit", "finish", "publish"}, table' = table,
         made' = made \/ Len(made') = Len(made) + 1
  PROVE  StageStep /\ Recorded'
<1>1. /\ Stage = "running" /\ Up = Len(made) /\ Rec = 0 /\ Len(made) \in Nat
      /\ table = <<>>
  BY WhileReading
<1>2. Stage' = "running" /\ Up' = Len(made') /\ Rec' = 0
  BY <1>1, EmptySeq DEF Stage, Up, Rec, Counted
<1>3. Recorded'
  BY <1>1, EmptySeq DEF Recorded
<1> QED BY <1>1, <1>2, <1>3 DEF StageStep

\* Every step of run is one of the contract.
LEMMA RunSteps ==
  ASSUME RunInv, Recorded, Next
  PROVE  StageStep /\ Recorded'
<1>1. /\ made \in Seq(Part) /\ Len(made) \in Nat
      /\ table \in Seq(Part) /\ Len(table) \in Nat /\ Len(table) <= Len(made)
  BY LenProperties DEF RunInv, Writer, Recorded
<1>2. CASE OpenPIT
  <2>1. pc = "open" /\ pc' = "channel" /\ made' = made /\ table' = table
    BY <1>2 DEF OpenPIT, writer
  <2>2. table = <<>> /\ made = <<>>
    BY <2>1 DEF Recorded, RunInv, Loop
  <2> QED BY <1>1, <2>1, <2>2, EmptySeq DEF StageStep, Stage, Up, Rec, Counted, Recorded
<1>3. CASE StartChannel
  <2>1. /\ pc = "channel" /\ pc' = "search" /\ table' = table /\ made' = Flushed(cur)
    BY <1>3 DEF StartChannel
  <2>2. made' = made \/ Len(made') = Len(made) + 1
    BY <2>1, FlushCounts DEF RunInv, Writer
  <2> QED BY <2>1, <2>2, FlushIsUpload
<1>4. CASE Search \/ TotalTruncated \/ ChannelTruncated \/ PageWritten
  <2>1. /\ pc \in {"search", "hit"} /\ table' = table /\ made' = made
        /\ pc' \in {"channel", "search", "hit", "finish"}
    BY <1>4 DEF Search, TotalTruncated, ChannelTruncated, PageWritten, NextChannel, writer
  <2> QED BY <2>1, FlushIsUpload
<1>5. CASE WriteHit
  <2>1. /\ pc = "hit" /\ pc' = "hit" /\ table' = table
        /\ made' \in {made, Flushed(NextPart)}
    BY <1>5 DEF WriteHit
  <2>2. made' = made \/ Len(made') = Len(made) + 1
    <3>1. Flushed(NextPart) = made \/ Flushed(NextPart) = Append(made, NextPart)
      BY DEF Flushed
    <3>2. Len(Append(made, NextPart)) = Len(made) + 1
      BY <1>1
    <3> QED BY <2>1, <3>1, <3>2
  <2> QED BY <2>1, <2>2, FlushIsUpload
<1>6. CASE Finish
  <2>1. pc = "finish" /\ pc' = "publish" /\ table' = table /\ made' = Flushed(cur)
    BY <1>6 DEF Finish
  <2>2. made' = made \/ Len(made') = Len(made) + 1
    BY <2>1, FlushCounts DEF RunInv, Writer
  <2> QED BY <2>1, <2>2, FlushIsUpload
<1>7. CASE Publish
  <2>1. /\ pc = "publish" /\ made' = made
        /\ \/ /\ Len(table) < Len(made) /\ table' = Append(table, made[Len(table) + 1])
              /\ pc' = "publish"
           \/ /\ ~(Len(table) < Len(made)) /\ table' = table
              /\ pc' = "close" /\ result' \in {"completed", "partial"}
    BY <1>7 DEF Publish, Return, writer
  <2>2. Stage = "running" /\ Up = Len(made) /\ Rec = Len(table)
    BY <2>1 DEF Stage, Up, Rec, Counted
  <2>3. CASE /\ Len(table) < Len(made) /\ table' = Append(table, made[Len(table) + 1])
             /\ pc' = "publish"
    <3>1. made[Len(table) + 1] \in Part
      BY <1>1, <2>3, ElementOfSeq
    <3>2. table' \in Seq(Part) /\ Len(table') = Len(table) + 1
      BY <1>1, <2>3, <3>1, AppendProperties
    <3>3. Stage' = "running" /\ Up' = Len(made) /\ Rec' = Len(table) + 1
      BY <2>1, <2>3, <3>2 DEF Stage, Up, Rec, Counted
    <3> QED BY <1>1, <2>1, <2>2, <2>3, <3>2, <3>3 DEF StageStep, Recorded
  <2>4. CASE /\ ~(Len(table) < Len(made)) /\ table' = table
             /\ pc' = "close" /\ result' \in {"completed", "partial"}
    <3>1. Stage' = "succeeded" /\ Up' = Len(made) /\ Rec' = Len(table)
      BY <2>1, <2>4 DEF Stage, Up, Rec, Counted, Delivered
    <3> QED BY <1>1, <2>1, <2>2, <2>4, <3>1 DEF StageStep, Recorded
  <2> QED BY <2>1, <2>3, <2>4
<1>8. CASE Fail
  <2>1. /\ pc \in {"channel", "search", "hit", "finish", "publish"}
        /\ pc' = "close" /\ result' = "failed" /\ UNCHANGED <<made, table>>
    BY <1>8 DEF Fail, Calls, Return, writer
  <2> QED BY <1>1, <2>1 DEF StageStep, Stage, Up, Rec, Counted, Delivered, Recorded
<1>9. CASE FailOpen
  BY <1>1, <1>9 DEF FailOpen, writer, StageStep, Stage, Up, Rec, Counted, Recorded
<1>10. CASE ClosePIT
  <2>1. pc = "close" /\ pc' = "done" /\ UNCHANGED <<made, table>>
    BY <1>10 DEF ClosePIT, writer
  <2> QED BY <1>1, <2>1 DEF StageStep, Stage, Up, Rec, Counted, Recorded
<1> QED BY <1>2, <1>3, <1>4, <1>5, <1>6, <1>7, <1>8, <1>9, <1>10 DEF Next

\* A step that leaves run alone is none of the contract.
LEMMA RunIdles ==
  ASSUME Recorded, UNCHANGED <<pc, made, table, result>>
  PROVE  StageStep /\ Recorded'
  BY DEF StageStep, Stage, Up, Rec, Counted, Delivered, Recorded

\* The contract starts where run does: nothing uploaded, nothing recorded.
LEMMA RunStarts == RunInit => Recorded /\ Run!Init
<1> SUFFICES ASSUME RunInit PROVE Recorded /\ Run!Init
  OBVIOUS
<1>1. pc = "open" /\ table = <<>> /\ made = <<>>
  BY DEF RunInit
<1> QED BY <1>1, EmptySeq DEF Recorded, Run!Init, Stage, Counted

-----------------------------------------------------------------------------
\* For any hits, scope and limits, whatever calls fail: a task that is admitted uploads all
\* its parts before it records one, and records all before it succeeds.
THEOREM TasksKeepContract == AdmissionSpec => ImplementsRun
<1>1. AdmissionInit => Recorded /\ Run!Init
  BY RunStarts DEF AdmissionInit
<1>2. RunInv /\ Recorded /\ [AdmissionNext]_allVars => [Run!Next]_Run!vars /\ Recorded'
  <2> SUFFICES ASSUME RunInv, Recorded, [AdmissionNext]_allVars
               PROVE  StageStep /\ Recorded'
    BY StageSteps
  <2>1. CASE SubmitStep \/ UNCHANGED allVars
    <3>1. UNCHANGED <<pc, made, table, result>>
      BY <2>1 DEF SubmitStep, Validate, CountChannel, CountFails, CheckTotal, SubmitTail,
         allVars, vars, writer
    <3> QED BY <3>1, RunIdles
  <2>2. CASE Execute
    BY <2>2, RunSteps DEF Execute
  <2>3. CASE \E c \in Channels : Arrive(c)
    <3>1. UNCHANGED <<pc, made, table, result>>
      BY <2>3 DEF Arrive, writer
    <3> QED BY <3>1, RunIdles
  <2> QED BY <2>1, <2>2, <2>3 DEF AdmissionNext
<1> QED BY <1>1, <1>2, TaskInvariance, PTL DEF AdmissionSpec, Run!Spec, ImplementsRun

=============================================================================
