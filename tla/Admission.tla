------------------------------- MODULE Admission -------------------------------
(***************************************************************************)
(* The way of one POST from Submitter.Submit (internal/submit/submit.go)   *)
(* to the parts of its task: validate, the _count of each channel and the  *)
(* limit on their sum, and, once the task is admitted, ExportRun.          *)
(*                                                                         *)
(* The limit is on an estimate.  Each channel is counted by a request of   *)
(* its own, and the task is executed some time later, on a snapshot of its *)
(* own: until OpenPIT messages go on arriving in the index, with           *)
(* timestamps in the range of the task, which may end in the future.       *)
(***************************************************************************)
EXTENDS ExportRun

CONSTANTS
  Requests,       \* the bodies that clients send: [scope, start, end], with the hits of
                  \* scope those in the time range
  NoChannel,      \* the empty channel_id
  MaxChannels,    \* maxChannels
  MsThreshold,    \* msThreshold
  MaxRange        \* maxRangeDays in seconds

ASSUME SubmitAssumption ==
  /\ {MaxChannels, MsThreshold, MaxRange} \subseteq Nat
  /\ NoChannel \notin Channels
  /\ \A r \in Requests :
       /\ r.scope \in Seq(Channels \union {NoChannel})
       /\ r.start \in Int /\ r.end \in Int

VARIABLES
  request,   \* the body; its channels are the scope
  entry,     \* where Submit is: "validate", "count", "tail", "admitted", "refused"
  counted,   \* the index of the loop over the channels
  total,     \* the sum of the counts
  answer,    \* the HTTP status, 0 before
  late       \* the channels that have had a message since they were counted

submitVars == <<request, entry, counted, total, answer, late>>
allVars == <<vars, submitVars>>

-----------------------------------------------------------------------------
\* validate: the code of the first check that fails, 0 if none does.
Violation(r) ==
  IF r.scope = <<>> THEN 400
  ELSE IF Len(r.scope) > MaxChannels THEN 413
  ELSE IF NoChannel \in Range(r.scope) THEN 400
  ELSE IF r.start <= 0 \/ r.end <= 0 THEN 400
  ELSE IF r.start >= MsThreshold \/ r.end >= MsThreshold THEN 400
  ELSE IF r.end < r.start THEN 400
  ELSE IF r.end - r.start > MaxRange THEN 422
  ELSE 0

AdmissionInit ==
  /\ HitsInit /\ RunInit
  /\ request \in Requests /\ scope = request.scope
  /\ entry = "validate" /\ counted = 0 /\ total = 0 /\ answer = 0 /\ late = {}

Answer(code) == answer' = code /\ entry' = IF code = 202 THEN "admitted" ELSE "refused"

Validate ==
  /\ entry = "validate"
  /\ IF Violation(request) = 0 THEN entry' = "count" /\ UNCHANGED answer
     ELSE Answer(Violation(request))
  /\ UNCHANGED <<vars, request, counted, total, late>>

BugCountsOnce ==
  /\ entry = "count" /\ counted < Len(scope)
  /\ counted' = counted + 1
  /\ total' = IF \E i \in 1 .. counted : scope[i] = scope[counted'] THEN total
              ELSE total + Len(hits[scope[counted']])
  /\ UNCHANGED <<vars, request, entry, answer, late>>

\* OSClient.Count of the next channel; one that is named twice is counted twice.
CountChannel ==
  /\ entry = "count" /\ counted < Len(scope)
  /\ counted' = counted + 1
  /\ total' = total + Len(hits[scope[counted']])
  /\ UNCHANGED <<vars, request, entry, answer, late>>

CountFails ==
  /\ entry = "count" /\ counted < Len(scope)
  /\ Answer(503)
  /\ UNCHANGED <<vars, request, counted, total, late>>

BugRefusesAtLimit ==
  /\ entry = "count" /\ counted = Len(scope)
  /\ IF total >= MaxTaskHits THEN Answer(413) ELSE entry' = "tail" /\ UNCHANGED answer
  /\ UNCHANGED <<vars, request, counted, total, late>>

\* The limit on the sum.
CheckTotal ==
  /\ entry = "count" /\ counted = Len(scope)
  /\ IF total > MaxTaskHits THEN Answer(413) ELSE entry' = "tail" /\ UNCHANGED answer
  /\ UNCHANGED <<vars, request, counted, total, late>>

\* The rest of Submit, from the gate to the queue, which is ExportService's.
SubmitTail ==
  /\ entry = "tail"
  /\ \E code \in {202, 500, 503} : Answer(code)
  /\ UNCHANGED <<vars, request, counted, total, late>>

\* A message arrives in the index, the newest of its channel.
Arrive(c) ==
  /\ entry # "validate" /\ pc = "open"
  /\ SumFunction([d \in Channels |-> Len(hits[d])]) < MaxHits
  /\ \E size \in Sizes : hits' = [hits EXCEPT ![c] = <<size>> \o @]
  /\ late' = IF \E i \in 1 .. counted : scope[i] = c THEN late \union {c} ELSE late
  /\ UNCHANGED <<scope, pc, pit, channels, at, totalSeen, warnings, drain, writer, table, result,
                 request, entry, counted, total, answer>>

Execute == entry = "admitted" /\ Next /\ UNCHANGED submitVars

SubmitStep == Validate \/ CountChannel \/ CountFails \/ CheckTotal \/ SubmitTail

AdmissionNext == SubmitStep \/ Execute \/ \E c \in Channels : Arrive(c)

\* Every call returns; messages arrive or not.
AdmissionSpec == /\ AdmissionInit /\ [][AdmissionNext]_allVars
                 /\ WF_allVars(SubmitStep) /\ WF_allVars(Execute)

-----------------------------------------------------------------------------
(* Properties.                                                             *)

\* What the requested channels hold now, one that is named twice counted twice
Matching == LET sum[i \in 0 .. Len(scope)] ==
                  IF i = 0 THEN 0 ELSE sum[i - 1] + Len(hits[scope[i]])
            IN  sum[Len(scope)]

\* The estimate is a bound: unless a requested channel has had a message between its
\* count and the snapshot, no result is total_truncated, and none has more messages
\* than the limit was checked against, although the channels are counted one by one,
\* and read in another order, page by page.
EstimateHolds ==
  Delivered /\ late = {} =>
    /\ \A w \in Range(warnings) : w.code # "total_truncated"
    /\ Len(RowsOf(table)) <= total

\* A task is not refused for its size in vain: if 413 is not for the number of its
\* channels, these hold more than MaxTaskHits messages, whatever has arrived
\* between the counts.
RefusedForCause ==
  answer = 413 /\ Len(scope) <= MaxChannels => Matching > MaxTaskHits

=============================================================================
