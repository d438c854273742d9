------------------------------- MODULE ExportRun -------------------------------
(***************************************************************************)
(* What one task exports: Executor.run and drainChannel                    *)
(* (internal/executor/executor.go) read the hits of the task's channels    *)
(* page by page through a point in time, and result.Writer                 *)
(* (internal/result/writer.go) cuts them into parts.                       *)
(*                                                                         *)
(* A channel id is a number, ordered as its string is.  The hits of a      *)
(* channel are numbered in the order of Search, newest first; what matters *)
(* of a hit is the length of its NDJSON line, 0 when extractPayload makes  *)
(* Write skip it.  ExportService has the interleavings of this run with    *)
(* everything else; here any call may fail, as it does under a done ctx.   *)
(***************************************************************************)
EXTENDS Integers, Sequences, FiniteSets, SequencesExt

CONSTANTS
  Channels,           \* channel ids
  Sizes,              \* lengths of lines
  MaxHits,            \* bound on the hits of all channels
  MaxScope,           \* bound on the length of scope.channels
  PageSize,           \* Config.PageSize
  PartMaxRows,        \* Config.PartMaxRows
  PartMaxBytes,       \* Config.PartMaxBytes
  MaxTaskHits,        \* Config.MaxTaskHits
  PerChannelHardCap   \* Config.PerChannelHardCap

ASSUME LimitAssumption ==
  /\ Channels \subseteq Nat /\ Sizes \subseteq Nat
  /\ {MaxHits, MaxScope} \subseteq Nat
  /\ {PageSize, PartMaxRows, PartMaxBytes, MaxTaskHits, PerChannelHardCap} \subseteq Nat \ {0}

VARIABLES
  hits,       \* channel -> the lines' lengths, as the PIT shows them
  scope,      \* Task.Scope.Channels
  pc,         \* where run is
  pit,        \* "none", "open", "closed", or "leaked": one that nobody will close
  \* run
  channels,   \* the sorted copy of the scope
  at,         \* the index of run's loop over it
  totalSeen,
  warnings,   \* sequence of [channel, code, seen]
  \* drainChannel
  chSeen,
  after,      \* the last hit of the page, the cursor of the next one
  page,       \* the hits of the page still to be written
  pageLen,    \* len(page)
  \* Writer
  cur,        \* the open part [channel, rows, bytes]; no rows: nil
  made,       \* Writer.parts, a sequence of them
  \* what is left behind
  table,      \* the parts in batch_task_part
  result      \* the status run returned, "none" before

inputs == <<hits, scope>>
drain ==  <<chSeen, after, page, pageLen>>
writer == <<cur, made>>
vars == <<inputs, pc, pit, channels, at, totalSeen, warnings, drain, writer, table, result>>

-----------------------------------------------------------------------------
(* The writer.                                                             *)

\* What sort.Strings may make of the channels: in order, a repeated one repeated
Sortings(s) ==
  {o \in [1 .. Len(s) -> Channels] :
     /\ \A i, j \in 1 .. Len(s) : i < j => o[i] <= o[j]
     /\ \A c \in Channels : Cardinality({i \in 1 .. Len(s) : o[i] = c})
                            = Cardinality({i \in 1 .. Len(s) : s[i] = c})}

\* the length of the line of a row [channel, hit]
LineOf(row) == hits[row.channel][row.hit]

EmptyPart(ch) == [channel |-> ch, rows |-> <<>>, bytes |-> 0]

\* the part with one more line, as Write makes it; a skipped hit adds none
Extended(part, row) ==
  IF LineOf(row) = 0 THEN part
  ELSE [part EXCEPT !.rows = Append(@, row), !.bytes = @ + LineOf(row)]

BugRollsLate(part) == Len(part.rows) > PartMaxRows \/ part.bytes >= PartMaxBytes
\* Write's threshold, looked at behind the line
Full(part) == Len(part.rows) >= PartMaxRows \/ part.bytes >= PartMaxBytes

\* Writer.parts after a flush of a part; an empty one leaves none
Flushed(part) == IF part.rows = <<>> THEN made ELSE Append(made, part)

-----------------------------------------------------------------------------
RunInit ==
  /\ pc = "open" /\ pit = "none"
  /\ channels = <<>> /\ at = 1 /\ totalSeen = 0 /\ warnings = <<>>
  /\ chSeen = 0 /\ after = 0 /\ page = <<>> /\ pageLen = 0
  /\ cur = EmptyPart(0) /\ made = <<>>
  /\ table = <<>> /\ result = "none"

HitsInit ==
  /\ hits \in [Channels -> UNION {[1 .. n -> Sizes] : n \in 0 .. MaxHits}]
  /\ SumFunction([c \in Channels |-> Len(hits[c])]) <= MaxHits

Init ==
  /\ HitsInit /\ RunInit
  /\ scope \in UNION {[1 .. n -> Channels] : n \in 1 .. MaxScope}

\* The PIT is opened and NewWriter made, the channels are sorted.
OpenPIT ==
  /\ pc = "open"
  /\ pit' = "open" /\ pc' = "channel"
  /\ channels' \in Sortings(scope)
  /\ UNCHANGED <<inputs, at, totalSeen, warnings, drain, writer, table, result>>

\* The channel of the iteration
Channel == channels[at]

BugOpenPartDropped ==
  /\ pc = "channel"
  /\ UNCHANGED made
  /\ cur' = EmptyPart(Channel)
  /\ chSeen' = 0 /\ after' = 0
  /\ pc' = "search"
  /\ UNCHANGED <<inputs, pit, channels, at, totalSeen, warnings, page, pageLen, table, result>>

\* Writer.StartChannel and the entry of drainChannel.
StartChannel ==
  /\ pc = "channel"
  /\ made' = Flushed(cur)
  /\ cur' = EmptyPart(Channel)
  /\ chSeen' = 0 /\ after' = 0
  /\ pc' = "search"
  /\ UNCHANGED <<inputs, pit, channels, at, totalSeen, warnings, page, pageLen, table, result>>

\* The page behind the cursor
NextPage == [k \in 1 .. Min({PageSize, Len(hits[Channel]) - after}) |-> after + k]

\* run's loop goes on behind drainChannel.
NextChannel ==
  /\ at' = at + 1
  /\ pc' = IF at < Len(channels) THEN "channel" ELSE "finish"

\* The next page; an empty one ends the channel.
Search ==
  /\ pc = "search"
  /\ page' = NextPage
  /\ pageLen' = Len(page')
  /\ IF page' = <<>> THEN NextChannel ELSE pc' = "hit" /\ UNCHANGED at
  /\ UNCHANGED <<inputs, pit, channels, totalSeen, warnings, chSeen, after, writer, table, result>>

\* MaxTaskHits is looked at first, and ends run's loop too.
TotalTruncated ==
  /\ pc = "hit" /\ page # <<>> /\ totalSeen >= MaxTaskHits
  /\ warnings' = Append(warnings,
       [channel |-> Channel, code |-> "total_truncated", seen |-> totalSeen])
  /\ pc' = "finish"
  /\ UNCHANGED <<inputs, pit, channels, at, totalSeen, drain, writer, table, result>>

BugTruncatedAtCap ==
  /\ pc = "hit" /\ totalSeen < MaxTaskHits /\ chSeen >= PerChannelHardCap
  /\ warnings' = Append(warnings,
       [channel |-> Channel, code |-> "per_channel_truncated", seen |-> chSeen])
  /\ NextChannel
  /\ UNCHANGED <<inputs, pit, channels, totalSeen, drain, writer, table, result>>

\* There is one more hit, but the channel has had its share.
ChannelTruncated ==
  /\ pc = "hit" /\ page # <<>> /\ totalSeen < MaxTaskHits /\ chSeen >= PerChannelHardCap
  /\ warnings' = Append(warnings,
       [channel |-> Channel, code |-> "per_channel_truncated", seen |-> chSeen])
  /\ NextChannel
  /\ UNCHANGED <<inputs, pit, channels, totalSeen, drain, writer, table, result>>

\* Neither limit keeps the next hit out.
MayWrite == page # <<>> /\ totalSeen < MaxTaskHits /\ chSeen < PerChannelHardCap
\* The part that Write makes of it
NextPart == Extended(cur, [channel |-> Channel, hit |-> Head(page)])

\* Writer.Write; a skipped hit counts as seen.
WriteHit ==
  /\ pc = "hit" /\ MayWrite
  /\ IF Full(NextPart) THEN made' = Flushed(NextPart) /\ cur' = EmptyPart(Channel)
                       ELSE cur' = NextPart /\ UNCHANGED made
  /\ chSeen' = chSeen + 1 /\ totalSeen' = totalSeen + 1
  /\ page' = Tail(page)
  /\ UNCHANGED <<inputs, pc, pit, channels, at, warnings, after, pageLen, table, result>>

\* The cursor moves to the last hit of the page; a short page is the last one.
PageWritten ==
  /\ pc = "hit" /\ page = <<>>
  /\ after' = after + pageLen
  /\ IF pageLen < PageSize THEN NextChannel ELSE pc' = "search" /\ UNCHANGED at
  /\ UNCHANGED <<inputs, pit, channels, totalSeen, warnings, chSeen, page, pageLen, writer, table,
                 result>>

\* Writer.Finish.
Finish ==
  /\ pc = "finish"
  /\ made' = Flushed(cur) /\ cur' = EmptyPart(cur.channel)
  /\ pc' = "publish"
  /\ UNCHANGED <<inputs, pit, channels, at, totalSeen, warnings, drain, table, result>>

Return(r) == result' = r /\ pc' = "close"

BugPublishStopsEarly ==
  /\ pc = "publish"
  /\ IF Len(table) + 1 < Len(made)
     THEN table' = Append(table, made[Len(table) + 1]) /\ UNCHANGED <<pc, result>>
     ELSE Return(IF warnings = <<>> THEN "completed" ELSE "partial") /\ UNCHANGED table
  /\ UNCHANGED <<inputs, pit, channels, at, totalSeen, warnings, drain, writer>>

\* Store.AppendPart of the next part, or the end of that loop.
Publish ==
  /\ pc = "publish"
  /\ IF Len(table) < Len(made)
     THEN table' = Append(table, made[Len(table) + 1]) /\ UNCHANGED <<pc, result>>
     ELSE Return(IF warnings = <<>> THEN "completed" ELSE "partial") /\ UNCHANGED table
  /\ UNCHANGED <<inputs, pit, channels, at, totalSeen, warnings, drain, writer>>

\* The steps that call OpenSearch, S3 or MySQL, or look at the context
Calls == \/ pc \in {"channel", "search"}
         \/ pc = "hit" /\ MayWrite /\ Full(NextPart)
         \/ pc = "finish" /\ cur.rows # <<>>
         \/ pc = "publish" /\ Len(table) < Len(made)

BugFailureKeepsPIT ==
  /\ Calls
  /\ result' = "failed" /\ pc' = "done"
  /\ UNCHANGED <<inputs, pit, channels, at, totalSeen, warnings, drain, writer, table>>

\* A call fails, or the context is done.
Fail ==
  /\ Calls /\ Return("failed")
  /\ UNCHANGED <<inputs, pit, channels, at, totalSeen, warnings, drain, writer, table>>

\* run has no pit_id and closes nothing; if OpenSearch made a PIT although the call
\* ended in an error, it is left to its keep-alive.
FailOpen ==
  /\ pc = "open"
  /\ result' = "failed" /\ pc' = "done"
  /\ pit' \in {"none", "leaked"}
  /\ UNCHANGED <<inputs, channels, at, totalSeen, warnings, drain, writer, table>>

\* The deferred ClosePIT, under a context of its own; its error is ignored.
ClosePIT ==
  /\ pc = "close"
  /\ pit' \in {"closed", "leaked"}
  /\ pc' = "done"
  /\ UNCHANGED <<inputs, channels, at, totalSeen, warnings, drain, writer, table, result>>

Next == \/ OpenPIT \/ FailOpen \/ StartChannel \/ Search \/ TotalTruncated
        \/ ChannelTruncated \/ WriteHit \/ PageWritten \/ Finish \/ Publish
        \/ Fail \/ ClosePIT

\* Every call returns.
Spec == Init /\ [][Next]_vars /\ WF_vars(Next)

-----------------------------------------------------------------------------
(* What the run should have done, said without pages and parts.            *)

\* Taken[i]: how many hits the first i channels may contribute
Taken == LET taken[i \in 0 .. Len(channels)] ==
               IF i = 0 THEN 0
               ELSE taken[i - 1] + Min({Len(hits[channels[i]]), PerChannelHardCap,
                                        MaxTaskHits - taken[i - 1]})
         IN  taken
Share(i) == Taken[i] - Taken[i - 1]
Truncated(i) == Share(i) < Len(hits[channels[i]])

\* The newest n hits of channel c, without those that Write skips
Exportable(c, n) ==
  FlattenSeq([k \in 1 .. n |-> LET row == [channel |-> c, hit |-> k]
                               IN  IF LineOf(row) > 0 THEN <<row>> ELSE <<>>])

\* What each channel may contribute, the channels in order
Wanted == FlattenSeq([i \in 1 .. Len(channels) |-> Exportable(channels[i], Share(i))])

Delivered == result \in {"completed", "partial"}
RowsOf(ps) == FlattenSeq([i \in 1 .. Len(ps) |-> ps[i].rows])

\* A result holds each exportable hit once, in order, up to the two limits: nothing is
\* lost or repeated where a page, a part or a channel ends, whatever order the
\* limits are reached in.
ExportsWanted == Delivered => RowsOf(table) = Wanted

\* A result is completed if and only if no hit was left out, and otherwise the
\* warnings name the channels that lost hits and no others; those behind a
\* total_truncated channel go unnamed.
WarningsHonest ==
  Delivered =>
    /\ result = "completed" <=> \A i \in 1 .. Len(channels) : ~Truncated(i)
    /\ \A w \in Range(warnings) :
         \E i \in 1 .. Len(channels) : channels[i] = w.channel /\ Truncated(i)
    /\ \A i \in 1 .. Len(channels) : Truncated(i) =>
         \E w \in Range(warnings) : \/ w.channel = channels[i]
                                    \/ w.code = "total_truncated" /\ w.channel <= channels[i]

\* The parts: each is of one channel, the channels in order; none is empty or has
\* more than PartMaxRows rows, and PartMaxBytes is passed by its last line at most.
PartsWellFormed ==
  /\ \A i \in 1 .. Len(made) :
       /\ Len(made[i].rows) \in 1 .. PartMaxRows
       /\ \A k \in 1 .. Len(made[i].rows) : made[i].rows[k].channel = made[i].channel
       /\ made[i].bytes - LineOf(Last(made[i].rows)) < PartMaxBytes
  /\ \A i, j \in 1 .. Len(made) : i < j => made[i].channel <= made[j].channel

\* A PIT that run knows of does not stay open: run ends, for want of hits or at a limit,
\* and by whichever return it does, it has tried to close the PIT.
RunEnds == pit = "open" ~> pc = "done" /\ pit # "open"

\* What run is doing, seen from RunContract.
Stage == IF pc = "open" THEN "before"
         ELSE IF pc = "done" THEN "over"
         ELSE IF pc # "close" THEN "running"
         ELSE IF Delivered THEN "succeeded" ELSE "failed"
Counted(n) == IF Stage \in {"running", "succeeded"} THEN n ELSE 0

Run == INSTANCE RunContract WITH
         Tasks <- {1},
         phase <- [t \in {1} |-> Stage],
         uploaded <- [t \in {1} |-> Counted(Len(made))],
         recorded <- [t \in {1} |-> Counted(Len(table))]

\* The data path behaves as ExportService takes run to behave: whatever limits are
\* reached and calls fail, all parts are uploaded before one is recorded, and all
\* are recorded before run succeeds.
ImplementsRun == Run!Spec

-----------------------------------------------------------------------------
(* Statements of docs/api-spec.md that the code does not keep.             *)

\* 5.2: the messages of a channel do not spread over parts.
ChannelInOnePart ==
  Delivered /\ IsInjective(scope) =>
    \A i, j \in 1 .. Len(table) : table[i].channel = table[j].channel => i = j

=============================================================================
