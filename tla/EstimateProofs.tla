---------------------------- MODULE EstimateProofs ----------------------------
(***************************************************************************)
(* Proofs about the estimate that Submit admits or refuses a task by, for  *)
(* any scopes, hits, limits and arrivals.  Counts is the inductive         *)
(* invariant: the sum so far is at most what the counted channels hold,    *)
(* and just that unless one of them has had a message since.               *)
(***************************************************************************)
EXTENDS ExportProofs

USE LimitAssumption

-----------------------------------------------------------------------------
(* The counts.                                                             *)

\* What the channels of the scope hold
Held == [i \in 1 .. Len(scope) |-> Len(hits[scope[i]])]

\* The channels that have been counted held at least the sum, and just the sum if none of
\* them has had a message since.
Estimate ==
  \A f : SumsOf(f, Held, Len(scope)) =>
    /\ total <= f[counted]
    /\ late = {} => total = f[counted]

Counts ==
  /\ counted \in 0 .. Len(scope) /\ total \in Nat
  /\ entry = "validate" => counted = 0 /\ total = 0 /\ answer = 0 /\ late = {}
  /\ entry \in {"count", "tail"} => answer = 0
  /\ entry \in {"count", "tail", "admitted"} => scope \in Seq(Channels)
  /\ scope \in Seq(Channels) => Estimate
  /\ entry \in {"tail", "admitted"} => counted = Len(scope) /\ total <= MaxTaskHits
  /\ answer = 413 /\ Len(scope) <= MaxChannels =>
       scope \in Seq(Channels) /\ counted = Len(scope) /\ total > MaxTaskHits

\* What the channels hold is a number each.
LEMMA HeldTyped ==
  ASSUME Given, scope \in Seq(Channels)
  PROVE  \A i \in 1 .. Len(scope) : Held[i] = Len(hits[scope[i]]) /\ Held[i] \in Nat
<1> SUFFICES ASSUME NEW i \in 1 .. Len(scope)
             PROVE  Held[i] = Len(hits[scope[i]]) /\ Held[i] \in Nat
  OBVIOUS
<1>1. hits[scope[i]] \in Seq(Sizes)
  BY ElementOfSeq DEF Given
<1> QED BY <1>1, LenProperties DEF Held

\* Matching is the sum of what they hold.
LEMMA MatchingIs ==
  ASSUME Given, scope \in Seq(Channels)
  PROVE  \E f : SumsOf(f, Held, Len(scope)) /\ Matching = f[Len(scope)]
<1> DEFINE n == Len(scope)
           Body(f) == [i \in 0 .. n |-> IF i = 0 THEN 0 ELSE f[i - 1] + Len(hits[scope[i]])]
           sum == CHOOSE f : f = Body(f)
<1>1. n \in Nat /\ \A i \in 1 .. n : Held[i] = Len(hits[scope[i]]) /\ Held[i] \in Int
  BY HeldTyped, LenProperties
<1>2. Matching = sum[n]
  BY DEF Matching
<1> HIDE DEF n
<1>3. PICK f \in [0 .. n -> Int] : SumsOf(f, Held, n)
  BY <1>1, SumsExist
<1>4. f = Body(f)
  BY <1>1, <1>3 DEF SumsOf
<1>5. sum = Body(sum)
  BY <1>4
<1> HIDE DEF sum
<1>6. sum[0] = 0 /\ \A i \in 1 .. n : sum[i] = sum[i - 1] + Held[i]
  <2>1. \A i \in 0 .. n : sum[i] = IF i = 0 THEN 0 ELSE sum[i - 1] + Len(hits[scope[i]])
    BY <1>5
  <2>2. 0 \in 0 .. n /\ \A i \in 1 .. n : i \in 0 .. n /\ i # 0
    BY <1>1
  <2> QED BY <1>1, <2>1, <2>2
<1> DEFINE S == {i \in 0 .. n : sum[i] \in Int}
<1>7. 0 \in S
  BY <1>1, <1>6
<1>8. ASSUME NEW i \in 0 .. n - 1, i \in S PROVE i + 1 \in S
  <2>1. PICK k \in 1 .. n : k = i + 1 /\ k - 1 = i
    BY <1>1
  <2>2. sum[k] = sum[k - 1] + Held[k] /\ sum[k - 1] \in Int /\ Held[k] \in Int
    BY <1>1, <1>6, <1>8, <2>1
  <2> DEFINE before == sum[k - 1]
             held == Held[k]
  <2>3. before + held \in Int
    <3>1. before \in Int /\ held \in Int
      BY <2>2
    <3> HIDE DEF before, held
    <3> QED BY <3>1
  <2>4. k \in 0 .. n
    BY <1>1
  <2> QED BY <2>1, <2>2, <2>3, <2>4
<1> HIDE DEF S
<1>9. \A i \in 0 .. n : i \in S
  BY <1>1, <1>7, <1>8, UpTo
<1>10. SumsOf(sum, Held, n)
  BY <1>6, <1>9 DEF SumsOf, S
<1> QED BY <1>2, <1>10 DEF n

\* validate lets no empty channel_id pass, and answers 413 for the number of channels only.
LEMMA ValidScope ==
  ASSUME Admitted
  PROVE  /\ Violation(request) = 0 => scope \in Seq(Channels)
         /\ Violation(request) = 413 => ~(Len(scope) <= MaxChannels)
         /\ Violation(request) # 202
<1>1. /\ scope = request.scope /\ scope \in Seq(Channels \union {NoChannel})
      /\ Len(scope) \in Nat /\ MaxChannels \in Nat
  BY SubmitAssumption, LenProperties DEF Admitted
<1>2. ASSUME NoChannel \notin Range(scope) PROVE scope \in Seq(Channels)
  <2>1. /\ Range(scope) = {scope[i] : i \in 1 .. Len(scope)}
        /\ \A i \in 1 .. Len(scope) : scope[i] \in Channels \union {NoChannel}
    BY <1>1, RangeEquality, ElementOfSeq
  <2>2. \A i \in 1 .. Len(scope) : scope[i] \in Channels
    BY <1>2, <2>1
  <2>3. scope \in [1 .. Len(scope) -> Channels]
    BY <1>1, <2>2, LenProperties
  <2> QED BY <1>1, <2>3, FunctionSeq
<1>3. Violation(request) = 0 => NoChannel \notin Range(scope)
  BY <1>1 DEF Violation
<1>4. /\ Violation(request) = 413 => ~(Len(scope) <= MaxChannels)
      /\ Violation(request) # 202
  BY <1>1 DEF Violation
<1> QED BY <1>2, <1>3, <1>4

\* The next channel is counted.
LEMMA CountKeeps == RunInv /\ Counts /\ CountChannel => Counts'
<1> SUFFICES ASSUME RunInv, Counts, CountChannel PROVE Counts'
  OBVIOUS
<1>1. /\ entry = "count" /\ counted < Len(scope) /\ counted' = counted + 1
      /\ total' = total + Len(hits[scope[counted + 1]])
      /\ UNCHANGED <<hits, scope, entry, answer, late>>
  BY DEF CountChannel, vars, inputs
<1>2. /\ Given /\ scope \in Seq(Channels) /\ Len(scope) \in Nat
      /\ counted \in 0 .. Len(scope) /\ total \in Nat /\ answer = 0
      /\ Estimate
  BY <1>1, LenProperties DEF Counts, RunInv
<1>3. PICK k \in 1 .. Len(scope) : k = counted + 1 /\ k - 1 = counted
  BY <1>1, <1>2
<1>4. Held[k] \in Nat /\ total' = total + Held[k] /\ Held' = Held
  BY <1>1, <1>2, <1>3, HeldTyped DEF Held
<1>5. Estimate'
  <2> SUFFICES ASSUME NEW f, SumsOf(f, Held, Len(scope))
               PROVE  total' <= f[k] /\ (late = {} => total' = f[k])
    BY <1>1, <1>3, <1>4 DEF Estimate
  <2>1. f[k] = f[k - 1] + Held[k] /\ f[k - 1] \in Int
    BY <1>2, <1>3 DEF SumsOf
  <2>2. total <= f[counted] /\ (late = {} => total = f[counted])
    BY <1>2 DEF Estimate
  <2> DEFINE before == f[k - 1]
             more == Held[k]
  <2>3. /\ total \in Nat /\ more \in Nat /\ before \in Int /\ total' = total + more
        /\ f[k] = before + more /\ total <= before /\ (late = {} => total = before)
    BY <1>2, <1>3, <1>4, <2>1, <2>2
  <2> HIDE DEF before, more
  <2> QED BY <2>3
<1> QED BY <1>1, <1>2, <1>3, <1>4, <1>5 DEF Counts

\* A message that arrives makes one channel hold more; it is late if that was counted.
LEMMA ArriveKeeps == \A c \in Channels : RunInv /\ Counts /\ Arrive(c) => Counts'
<1> SUFFICES ASSUME NEW c \in Channels, RunInv, Counts, Arrive(c) PROVE Counts'
  OBVIOUS
<1>1. /\ entry # "validate" /\ UNCHANGED <<scope, entry, counted, total, answer>>
      /\ late' = IF \E i \in 1 .. counted : scope[i] = c THEN late \union {c} ELSE late
  BY DEF Arrive
<1>2. PICK size \in Sizes : hits' = [hits EXCEPT ![c] = <<size>> \o @]
  BY DEF Arrive
<1>3. Given /\ counted \in 0 .. Len(scope) /\ Len(scope) \in Nat /\ total \in Nat
  BY DEF RunInv, Given, Counts
<1>4. \A d \in Channels : /\ Len(hits[d]) \in Nat
                          /\ Len(hits'[d]) = IF d = c THEN Len(hits[d]) + 1 ELSE Len(hits[d])
  <2> SUFFICES ASSUME NEW d \in Channels
               PROVE  /\ Len(hits[d]) \in Nat
                      /\ Len(hits'[d]) = IF d = c THEN Len(hits[d]) + 1 ELSE Len(hits[d])
    OBVIOUS
  <2>1. hits \in [Channels -> Seq(Sizes)] /\ hits[d] \in Seq(Sizes) /\ <<size>> \in Seq(Sizes)
    BY <1>3 DEF Given
  <2>2. Len(hits[d]) \in Nat /\ Len(<<size>>) = 1
    BY <2>1, LenProperties
  <2>3. Len(<<size>> \o hits[d]) = 1 + Len(hits[d])
    BY <2>1, <2>2, ConcatProperties
  <2>4. hits'[d] = IF d = c THEN <<size>> \o hits[d] ELSE hits[d]
    BY <1>2, <2>1
  <2> QED BY <2>2, <2>3, <2>4
<1>5. ASSUME scope \in Seq(Channels) PROVE Estimate'
  <2> DEFINE n == Len(scope)
             new == [i \in 1 .. n |-> Len(hits'[scope[i]])]
  <2>1. Held' = new
    BY <1>1 DEF Held
  <2>2. \A i \in 1 .. n : scope[i] \in Channels
    BY <1>5, ElementOfSeq
  <2>3. \A i \in 1 .. n : /\ Held[i] \in Int /\ new[i] \in Int /\ Held[i] <= new[i]
                          /\ scope[i] # c => new[i] = Held[i]
    <3> SUFFICES ASSUME NEW i \in 1 .. n
                 PROVE  /\ Held[i] \in Int /\ new[i] \in Int /\ Held[i] <= new[i]
                        /\ scope[i] # c => new[i] = Held[i]
      OBVIOUS
    <3>1. Held[i] = Len(hits[scope[i]]) /\ new[i] = Len(hits'[scope[i]]) /\ scope[i] \in Channels
      BY <2>2 DEF Held
    <3>2. /\ Len(hits[scope[i]]) \in Nat
          /\ Len(hits'[scope[i]]) = IF scope[i] = c THEN Len(hits[scope[i]]) + 1
                                    ELSE Len(hits[scope[i]])
      BY <1>4, <3>1
    <3> HIDE DEF new, n
    <3> QED BY <3>1, <3>2
  <2> HIDE DEF new, n
  <2>4. Estimate /\ n \in Nat /\ counted \in 0 .. n
    BY <1>3, <1>5 DEF Counts, n
  <2> SUFFICES ASSUME NEW h, SumsOf(h, new, n)
               PROVE  total <= h[counted] /\ (late' = {} => total = h[counted])
    BY <1>1, <2>1 DEF Estimate, n
  <2>5. PICK f : SumsOf(f, Held, n)
    BY <2>3, <2>4, SumsExist
  <2>6. /\ total <= f[counted] /\ (late = {} => total = f[counted])
        /\ f[counted] \in Int /\ h[counted] \in Int
    BY <2>4, <2>5 DEF Estimate, n, SumsOf
  <2>7. f[counted] <= h[counted]
    BY <2>3, <2>4, <2>5, SumsMonotone
  <2>8. ASSUME late' = {} PROVE late = {} /\ h[counted] = f[counted]
    <3>1. late = {} /\ \A i \in 1 .. counted : scope[i] # c
      BY <1>1, <2>8
    <3>2. \A i \in 1 .. counted : Held[i] \in Int /\ new[i] = Held[i]
      BY <2>3, <2>4, <3>1
    <3>3. SumsOf(f, Held, counted) /\ SumsOf(h, new, counted)
      BY <2>4, <2>5 DEF SumsOf
    <3> QED BY <2>4, <3>1, <3>2, <3>3, SumsSame
  <2> DEFINE was == f[counted]
             is == h[counted]
  <2>9. /\ total \in Int /\ was \in Int /\ is \in Int /\ total <= was /\ was <= is
        /\ late = {} => total = was
        /\ late' = {} => late = {} /\ is = was
    BY <1>3, <2>6, <2>7, <2>8 DEF Counts
  <2> HIDE DEF was, is
  <2>10. total <= is /\ (late' = {} => total = is)
    BY <2>9
  <2> QED BY <2>10 DEF is
<1>6. scope' \in Seq(Channels) => Estimate'
  BY <1>1, <1>5
<1> QED BY <1>1, <1>6 DEF Counts

\* What touches neither the counts nor what the channels hold keeps the estimate.
LEMMA EstimateStays ==
  ASSUME Counts, UNCHANGED <<hits, scope, counted, total, late>>
  PROVE  /\ counted' \in 0 .. Len(scope') /\ total' \in Nat
         /\ scope' \in Seq(Channels) => Estimate'
<1>1. Held' = Held
  BY DEF Held
<1>2. Estimate' <=> Estimate
  BY <1>1 DEF Estimate
<1> QED BY <1>2 DEF Counts

\* Every step of a submission, of run and of those who write messages
LEMMA TaskCounts == RunInv /\ Admitted /\ Counts /\ [AdmissionNext]_allVars => Counts'
<1> SUFFICES ASSUME RunInv, Admitted, Counts, [AdmissionNext]_allVars PROVE Counts'
  OBVIOUS
<1>1. CASE Validate
  <2>1. /\ entry = "validate" /\ UNCHANGED <<hits, scope, counted, total, late>>
        /\ IF Violation(request) = 0 THEN entry' = "count" /\ UNCHANGED answer
           ELSE answer' = Violation(request)
                /\ entry' = IF Violation(request) = 202 THEN "admitted" ELSE "refused"
    BY <1>1 DEF Validate, Answer, vars, inputs
  <2>2. /\ counted' \in 0 .. Len(scope') /\ total' \in Nat
        /\ scope' \in Seq(Channels) => Estimate'
    BY <2>1, EstimateStays
  <2>3. answer = 0
    BY <2>1 DEF Counts
  <2>4. CASE Violation(request) = 0
    <3>1. entry' = "count" /\ answer' = 0 /\ scope' \in Seq(Channels)
      BY <2>1, <2>3, <2>4, ValidScope
    <3> QED BY <2>2, <3>1 DEF Counts
  <2>5. CASE Violation(request) # 0
    <3>1. entry' = "refused" /\ (answer' = 413 => ~(Len(scope') <= MaxChannels))
      BY <2>1, <2>5, ValidScope
    <3> QED BY <2>2, <3>1 DEF Counts
  <2> QED BY <2>4, <2>5
<1>2. CASE CountChannel
  BY <1>2, CountKeeps
<1>3. CASE CountFails \/ SubmitTail
  <2>1. /\ entry \in {"count", "tail"} /\ UNCHANGED <<hits, scope, counted, total, late>>
        /\ answer' # 413 /\ entry' \in {"admitted", "refused"}
        /\ entry' = "admitted" => entry = "tail"
    BY <1>3 DEF CountFails, SubmitTail, Answer, vars, inputs
  <2>2. /\ counted' \in 0 .. Len(scope') /\ total' \in Nat
        /\ scope' \in Seq(Channels) => Estimate'
    BY <2>1, EstimateStays
  <2> QED BY <2>1, <2>2 DEF Counts
<1>4. CASE CheckTotal
  <2>1. /\ entry = "count" /\ counted = Len(scope)
        /\ UNCHANGED <<hits, scope, counted, total, late>>
        /\ IF total > MaxTaskHits THEN answer' = 413 /\ entry' = "refused"
           ELSE entry' = "tail" /\ answer' = answer
    BY <1>4 DEF CheckTotal, Answer, vars, inputs
  <2>2. /\ counted' \in 0 .. Len(scope') /\ total' \in Nat
        /\ scope' \in Seq(Channels) => Estimate'
    BY <2>1, EstimateStays
  <2>3. answer = 0 /\ scope \in Seq(Channels) /\ total \in Nat
    BY <2>1 DEF Counts
  <2>4. CASE total > MaxTaskHits
    <3>1. answer' = 413 /\ entry' = "refused"
      BY <2>1, <2>4
    <3> QED BY <2>1, <2>2, <2>3, <2>4, <3>1 DEF Counts
  <2>5. CASE ~(total > MaxTaskHits)
    <3>1. answer' = 0 /\ entry' = "tail" /\ total <= MaxTaskHits
      BY <2>1, <2>3, <2>5
    <3> QED BY <2>1, <2>2, <2>3, <3>1 DEF Counts
  <2> QED BY <2>4, <2>5
<1>5. CASE Execute \/ UNCHANGED allVars
  <2>1. UNCHANGED <<hits, scope, entry, counted, total, answer, late>>
    BY <1>5 DEF Execute, Next, OpenPIT, FailOpen, StartChannel, Search, TotalTruncated,
       ChannelTruncated, WriteHit, PageWritten, Finish, Publish, Fail, ClosePIT, inputs,
       submitVars, allVars, vars
  <2> QED BY <2>1, EstimateStays DEF Counts
<1>6. ASSUME NEW c \in Channels, Arrive(c) PROVE Counts'
  BY <1>6, ArriveKeeps
<1> QED BY <1>1, <1>2, <1>3, <1>4, <1>5, <1>6 DEF AdmissionNext, SubmitStep

\* A 413 for the estimate is for what the channels do hold.
LEMMA CountsRefuse == RunInv /\ Counts => RefusedForCause
<1> SUFFICES ASSUME RunInv, Counts, answer = 413, Len(scope) <= MaxChannels
             PROVE  Matching > MaxTaskHits
  BY DEF RefusedForCause
<1>1. /\ Given /\ scope \in Seq(Channels) /\ counted = Len(scope) /\ total > MaxTaskHits
      /\ Estimate /\ total \in Nat /\ Len(scope) \in Nat
  BY DEF RunInv, Counts, Given
<1>2. PICK f : SumsOf(f, Held, Len(scope)) /\ Matching = f[Len(scope)]
  BY <1>1, MatchingIs
<1>3. total <= f[Len(scope)] /\ f[Len(scope)] \in Int
  <2>1. total <= f[counted]
    BY <1>1, <1>2 DEF Estimate
  <2>2. Len(scope) \in 0 .. Len(scope)
    BY <1>1
  <2>3. f[Len(scope)] \in Int
    BY <1>2, <2>2 DEF SumsOf
  <2> QED BY <1>1, <2>1, <2>3
<1> QED BY <1>1, <1>2, <1>3

\* The invariant of the counts, whatever arrives between them.
THEOREM CountsOfTasks == AdmissionSpec => []Counts
<1>1. AdmissionInit => Counts
  <2> SUFFICES ASSUME AdmissionInit PROVE Counts
    OBVIOUS
  <2>1. /\ entry = "validate" /\ counted = 0 /\ total = 0 /\ answer = 0 /\ late = {}
        /\ Len(scope) \in Nat
    BY SubmitAssumption, LenProperties DEF AdmissionInit
  <2>2. Estimate
    BY <2>1 DEF Estimate, SumsOf
  <2> QED BY <2>1, <2>2 DEF Counts
<1> QED BY <1>1, TaskInvariance, TaskCounts, PTL DEF AdmissionSpec

\* No task is refused for its size in vain, for any number of channels and any arrivals.
THEOREM RefusalsHaveCause == AdmissionSpec => []RefusedForCause
  BY TaskInvariance, CountsOfTasks, CountsRefuse, PTL

-----------------------------------------------------------------------------
(* The estimate as a bound on what is exported.                            *)

\* What run reads is the scope in order, from the snapshot to the result.
Sorted == pc \in {"channel", "search", "hit", "finish", "publish"} \/ Delivered =>
            channels \in Sortings(scope)

\* OpenPIT sorts the scope; nothing changes either of them afterwards.
LEMMA SortedKeeps == RunInv /\ Progress /\ Sorted /\ [AdmissionNext]_allVars => Sorted'
<1> SUFFICES ASSUME RunInv, Progress, Sorted, [AdmissionNext]_allVars PROVE Sorted'
  OBVIOUS
<1>1. CASE UNCHANGED <<scope, pc, channels, result>>
  BY <1>1 DEF Sorted, Delivered
<1>2. CASE OpenPIT
  BY <1>2 DEF Sorted, OpenPIT, inputs
<1>3. CASE StartChannel \/ Search \/ TotalTruncated \/ ChannelTruncated \/ WriteHit
             \/ PageWritten \/ Finish \/ Publish
  <2>1. /\ pc \in {"channel", "search", "hit", "finish", "publish"}
        /\ UNCHANGED <<scope, channels>>
    BY <1>3 DEF StartChannel, Search, TotalTruncated, ChannelTruncated, WriteHit, PageWritten,
       Finish, Publish, inputs
  <2> QED BY <2>1 DEF Sorted, Sortings
<1>4. CASE Fail \/ FailOpen
  <2>1. pc' \in {"close", "done"} /\ result' = "failed"
    BY <1>4 DEF Fail, FailOpen, Return
  <2> QED BY <2>1 DEF Sorted, Delivered
<1>5. CASE ClosePIT
  <2>1. pc' = "done" /\ UNCHANGED <<scope, channels, result>>
    BY <1>5 DEF ClosePIT, inputs
  <2> QED BY <2>1 DEF Sorted, Delivered, Sortings
<1>6. CASE SubmitStep \/ UNCHANGED allVars
  BY <1>1, <1>6 DEF SubmitStep, Validate, CountChannel, CountFails, CheckTotal, SubmitTail,
     allVars, vars, inputs
<1>7. ASSUME NEW c \in Channels, Arrive(c) PROVE Sorted'
  BY <1>1, <1>7 DEF Arrive
<1> QED BY <1>2, <1>3, <1>4, <1>5, <1>6, <1>7 DEF AdmissionNext, Execute, Next

\* What the sorted channels hold
SortedHeld == [i \in 1 .. Len(channels) |-> Hits(i)]

\* They hold together what the channels of the scope do.
LEMMA SortedSum ==
  ASSUME Given, scope \in Seq(Channels), channels \in Seq(Channels),
         channels \in Sortings(scope), NEW f, SumsOf(f, Held, Len(scope)),
         NEW h, SumsOf(h, SortedHeld, Len(channels))
  PROVE  Len(channels) = Len(scope) /\ h[Len(channels)] = f[Len(scope)]
<1> DEFINE n == Len(scope)
<1>1. /\ n \in Nat /\ channels \in [1 .. n -> Channels]
      /\ SameOften(channels, scope, n, Channels)
  BY LenProperties DEF Sortings, SameOften
<1>2. Len(channels) = n
  BY <1>1, FunctionSeq
<1>3. \A i \in 1 .. n : Held[i] = Len(hits[scope[i]]) /\ Held[i] \in Int
  BY HeldTyped
<1>4. \A i \in 1 .. n : SortedHeld[i] = Len(hits[channels[i]])
  BY <1>2 DEF SortedHeld, Hits
<1> HIDE DEF n
<1>5. PICK p : IsPermutation(p, n) /\ \A i \in 1 .. n : channels[i] = scope[p[i]]
  BY <1>1, SameFibres
<1>6. \A i \in 1 .. n : Held[i] \in Int /\ SortedHeld[i] = Held[p[i]]
  <2> SUFFICES ASSUME NEW i \in 1 .. n
               PROVE  Held[i] \in Int /\ SortedHeld[i] = Held[p[i]]
    OBVIOUS
  <2>1. p[i] \in 1 .. n /\ channels[i] = scope[p[i]]
    BY <1>5 DEF IsPermutation
  <2> QED BY <1>3, <1>4, <2>1
<1>7. SumsOf(f, Held, n) /\ SumsOf(h, SortedHeld, n)
  BY <1>2 DEF n
<1>8. h[n] = f[n]
  <2>1. \A pp, ff, gg, hh, ee :
          IsPermutation(pp, n) /\ (\A i \in 1 .. n : gg[i] \in Int /\ ee[i] = gg[pp[i]])
            /\ SumsOf(ff, gg, n) /\ SumsOf(hh, ee, n) => hh[n] = ff[n]
    BY <1>1, SumsPermuted
  <2> QED BY <1>5, <1>6, <1>7, <2>1
<1> QED BY <1>2, <1>8 DEF n

\* What the first channels may contribute is no more than what they hold, and less
\* behind a channel that has lost hits.
LEMMA TakenBelow ==
  ASSUME Given, channels \in Seq(Channels), NEW h, SumsOf(h, SortedHeld, Len(channels))
  PROVE  /\ \A i \in 0 .. Len(channels) : Taken[i] \in Nat /\ Taken[i] <= h[i] /\ h[i] \in Nat
                                          /\ h[i] <= h[Len(channels)]
         /\ \A i \in 1 .. Len(channels) : Truncated(i) => Taken[i] < h[i]
<1> DEFINE n == Len(channels)
           S == {i \in 0 .. n : Taken[i] <= h[i]}
<1>1. n \in Nat
  BY LenProperties
<1>2. \A i \in 1 .. n : SortedHeld[i] = Hits(i) /\ Hits(i) \in Nat
  BY Shares DEF SortedHeld
<1>3. \A i \in 0 .. n : h[i] \in Nat /\ h[i] <= h[n]
  <2>1. \A i \in 1 .. n : SortedHeld[i] \in Nat
    BY <1>2
  <2> HIDE DEF n
  <2> QED BY <1>1, <2>1, SumsGrow DEF n
<1>4. \A i \in 0 .. n : Taken[i] \in Nat
  BY TakenSteps
<1>5. ASSUME NEW i \in 1 .. n, Taken[i - 1] <= h[i - 1]
      PROVE  Taken[i] <= h[i] /\ (Truncated(i) => Taken[i] < h[i])
  <2>1. /\ Taken[i] = Taken[i - 1] + Share(i) /\ Share(i) \in Nat /\ Share(i) <= Hits(i)
        /\ Hits(i) \in Nat /\ Taken[i - 1] \in Nat
        /\ Truncated(i) <=> Share(i) < Hits(i)
    BY Shares
  <2>2. h[i] = h[i - 1] + Hits(i) /\ h[i - 1] \in Int
    <3>1. i - 1 \in 0 .. n
      BY <1>1
    <3>2. h[i] = h[i - 1] + SortedHeld[i]
      BY DEF SumsOf
    <3> QED BY <1>2, <1>3, <3>1, <3>2
  <2> DEFINE taken == Taken[i - 1]
             sum == h[i - 1]
             share == Share(i)
             all == Hits(i)
  <2>3. /\ taken \in Nat /\ sum \in Int /\ taken <= sum
        /\ share \in Nat /\ all \in Nat /\ share <= all
        /\ Taken[i] = taken + share /\ h[i] = sum + all
        /\ Truncated(i) <=> share < all
    BY <1>5, <2>1, <2>2
  <2> HIDE DEF taken, sum, share, all
  <2>4. taken + share <= sum + all /\ (share < all => taken + share < sum + all)
    BY <2>3
  <2> QED BY <2>3, <2>4
<1>6. 0 \in S
  BY <1>1, TakenSteps DEF SumsOf
<1>7. ASSUME NEW i \in 0 .. n - 1, i \in S PROVE i + 1 \in S
  <2>1. PICK k \in 1 .. n : k = i + 1 /\ k - 1 = i
    BY <1>1
  <2>2. Taken[k] <= h[k]
    BY <1>5, <1>7, <2>1
  <2> QED BY <1>1, <2>1, <2>2
<1> HIDE DEF S
<1>8. \A i \in 0 .. n : i \in S
  BY <1>1, <1>6, <1>7, UpTo
<1>9. \A i \in 1 .. n : Truncated(i) => Taken[i] < h[i]
  <2> SUFFICES ASSUME NEW i \in 1 .. n, Truncated(i) PROVE Taken[i] < h[i]
    OBVIOUS
  <2>1. i - 1 \in 0 .. n
    BY <1>1
  <2>2. Taken[i - 1] <= h[i - 1]
    BY <1>8, <2>1 DEF S
  <2> QED BY <1>5, <2>2
<1> QED BY <1>3, <1>4, <1>8, <1>9 DEF S

\* No channel contributes more rows than hits.
LEMMA ExportableShort ==
  ASSUME Given, NEW c \in Channels, NEW k \in 0 .. Len(hits[c])
  PROVE  Exportable(c, k) \in Seq(Row) /\ Len(Exportable(c, k)) <= k
<1> DEFINE n == Len(hits[c])
           S == {i \in 0 .. n : Len(Exportable(c, i)) <= i}
<1>1. hits[c] \in Seq(Sizes) /\ n \in Nat
  BY LenProperties DEF Given
<1>2. 0 \in S
  <2>1. Exportable(c, 0) = <<>> /\ Len(<<>>) = 0
    BY ExportableSteps, EmptySeq
  <2> QED BY <1>1, <2>1
<1>3. ASSUME NEW i \in 0 .. n - 1, i \in S PROVE i + 1 \in S
  <2> DEFINE row == [channel |-> c, hit |-> i + 1]
  <2>1. i \in Nat /\ i + 1 \in 1 .. n
    BY <1>1
  <2>2. LineOf(row) \in Nat
    <3>1. hits[c][i + 1] \in Sizes
      BY <1>1, <2>1, ElementOfSeq
    <3> QED BY <3>1 DEF LineOf
  <2>3. /\ Exportable(c, i) \in Seq(Row)
        /\ Exportable(c, i + 1) = IF LineOf(row) = 0 THEN Exportable(c, i)
                                  ELSE Append(Exportable(c, i), row)
    BY <2>1, <2>2, ExportableSteps
  <2>4. row \in Row
    BY <2>1 DEF Row
  <2> HIDE DEF row
  <2>5. /\ Len(Exportable(c, i)) \in Nat
        /\ Len(Append(Exportable(c, i), row)) = Len(Exportable(c, i)) + 1
    BY <2>3, <2>4, LenProperties, AppendProperties
  <2>6. Len(Exportable(c, i)) <= i
    BY <1>3
  <2>7. Len(Exportable(c, i + 1)) <= i + 1
    <3>1. CASE LineOf(row) = 0
      BY <2>1, <2>3, <2>5, <2>6, <3>1
    <3>2. CASE LineOf(row) # 0
      <4>1. Len(Exportable(c, i + 1)) = Len(Exportable(c, i)) + 1
        BY <2>3, <2>5, <3>2
      <4> QED BY <2>1, <2>5, <2>6, <4>1
    <3> QED BY <3>1, <3>2
  <2> QED BY <1>1, <2>1, <2>7
<1> HIDE DEF S
<1>4. \A i \in 0 .. n : i \in S
  BY <1>1, <1>2, <1>3, UpTo
<1>5. k \in S /\ k \in Nat
  BY <1>1, <1>4
<1> QED BY <1>5, ExportableSteps DEF S

\* The wanted rows are no more than what may be taken.
LEMMA LaidShort ==
  ASSUME Given, channels \in Seq(Channels)
  PROVE  Len(Wanted) <= Taken[Len(channels)]
<1> DEFINE n == Len(channels)
           S == {i \in 0 .. n : Len(Laid(i)) <= Taken[i]}
<1>1. n \in Nat
  BY LenProperties
<1>2. 0 \in S
  BY <1>1, LaidSteps, TakenSteps, EmptySeq
<1>3. ASSUME NEW i \in 0 .. n - 1, i \in S PROVE i + 1 \in S
  <2>1. PICK k \in 1 .. n : k = i + 1 /\ k - 1 = i
    BY <1>1
  <2>2. /\ Taken[k] = Taken[k - 1] + Share(k) /\ Share(k) \in Nat /\ Share(k) <= Hits(k)
        /\ Taken[k - 1] \in Nat /\ Hits(k) \in Nat
    BY Shares
  <2> DEFINE own == Exportable(channels[k], Share(k))
             before == Laid(k - 1)
  <2>3. own \in Seq(Row) /\ Len(own) <= Share(k)
    <3>1. channels[k] \in Channels /\ Share(k) \in 0 .. Len(hits[channels[k]])
      BY <2>2, ElementOfSeq DEF Hits
    <3> QED BY <3>1, ExportableShort
  <2>4. before \in Seq(Row) /\ Laid(k) = before \o own
    <3>1. k - 1 \in 0 .. n
      BY <2>1
    <3> QED BY <3>1, LaidSteps
  <2>5. Len(before) <= Taken[k - 1]
    BY <1>3, <2>1
  <2> HIDE DEF own, before
  <2>6. Len(before \o own) = Len(before) + Len(own) /\ Len(before) \in Nat /\ Len(own) \in Nat
    BY <2>3, <2>4, ConcatProperties, LenProperties
  <2>7. Len(Laid(k)) <= Taken[k]
    <3> DEFINE taken == Taken[k - 1]
    <3>1. Taken[k] = taken + Share(k) /\ taken \in Nat /\ Share(k) \in Nat
      BY <2>2
    <3>2. Len(Laid(k)) = Len(before) + Len(own) /\ Len(before) <= taken
      BY <2>4, <2>5, <2>6
    <3> HIDE DEF taken
    <3> QED BY <2>3, <2>6, <3>1, <3>2
  <2> QED BY <1>1, <2>1, <2>7
<1> HIDE DEF S
<1>4. \A i \in 0 .. n : i \in S
  BY <1>1, <1>2, <1>3, UpTo
<1>5. Len(Laid(n)) <= Taken[n]
  BY <1>1, <1>4 DEF S
<1> QED BY <1>5, LaidSteps

\* Unless a message was late, the estimate is what the channels hold, however they are
\* sorted: run meets neither the total limit nor more rows.
LEMMA CountsBound == RunInv /\ Admitted /\ Progress /\ Counts /\ Sorted => EstimateHolds
<1> SUFFICES ASSUME RunInv, Admitted, Progress, Counts, Sorted, Delivered, late = {}
             PROVE  /\ \A w \in Range(warnings) : w.code # "total_truncated"
                    /\ Len(RowsOf(table)) <= total
  BY DEF EstimateHolds
<1>1. entry = "admitted"
  <2>1. pc # "open"
    BY DEF Progress, Told, Delivered
  <2> QED BY <2>1 DEF Admitted
<1>2. /\ Given /\ scope \in Seq(Channels) /\ channels \in Seq(Channels)
      /\ channels \in Sortings(scope) /\ counted = Len(scope)
      /\ Estimate /\ total \in Nat /\ total <= MaxTaskHits
      /\ Len(scope) \in Nat /\ Len(channels) \in Nat
  BY <1>1, LenProperties DEF RunInv, Loop, Counts, Sorted
<1>3. PICK f : SumsOf(f, Held, Len(scope))
  BY <1>2, MatchingIs
<1>4. PICK h : SumsOf(h, SortedHeld, Len(channels))
  <2>1. \A i \in 1 .. Len(channels) : SortedHeld[i] \in Int
    BY <1>2, Shares DEF SortedHeld
  <2> QED BY <1>2, <2>1, SumsExist
<1>5. h[Len(channels)] = total
  <2>1. total = f[Len(scope)]
    BY <1>2, <1>3 DEF Estimate
  <2> QED BY <1>2, <1>3, <1>4, <2>1, SortedSum
<1>6. /\ \A i \in 0 .. Len(channels) : Taken[i] \in Nat /\ Taken[i] <= h[i] /\ h[i] \in Nat
                                       /\ h[i] <= h[Len(channels)]
      /\ \A i \in 1 .. Len(channels) : Truncated(i) => Taken[i] < h[i]
  BY <1>2, <1>4, TakenBelow
<1>7. ASSUME NEW w \in Range(warnings), w.code = "total_truncated" PROVE FALSE
  <2>1. PICK i \in 1 .. Len(channels) : Truncated(i) /\ Taken[i] = MaxTaskHits
    BY <1>7 DEF Progress, Named
  <2>2. i \in 0 .. Len(channels)
    OBVIOUS
  <2> QED BY <1>2, <1>5, <1>6, <2>1, <2>2
<1>8. Len(RowsOf(table)) <= total
  <2>1. RowsOf(table) = Wanted
    BY ProgressExports DEF ExportsWanted
  <2>2. Wanted \in Seq(Row)
    BY <1>2, LaidSteps
  <2>3. Len(Wanted) \in Nat /\ Len(Wanted) <= Taken[Len(channels)]
    BY <1>2, <2>2, LaidShort, LenProperties
  <2>4. Len(channels) \in 0 .. Len(channels)
    BY <1>2
  <2> QED BY <1>2, <1>5, <1>6, <2>1, <2>3, <2>4
<1> QED BY <1>7, <1>8

\* The estimate of Submit bounds what is exported, for any scope, in any order, with
\* channels that are named twice, as long as no message is late.
THEOREM EstimatesHold == AdmissionSpec => []EstimateHolds
<1>1. AdmissionInit => Sorted
  BY DEF AdmissionInit, RunInit, Sorted, Delivered
<1>2. AdmissionSpec => []Sorted
  BY <1>1, ProgressOfTasks, SortedKeeps, PTL DEF AdmissionSpec
<1> QED BY <1>2, TaskInvariance, ProgressOfTasks, CountsOfTasks, CountsBound, PTL
=============================================================================
