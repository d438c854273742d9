----------------------------- MODULE PollingProofs -----------------------------
(***************************************************************************)
(* Proofs about Polling for any number of clients, tasks and DELETEs.      *)
(* PollInv says that nothing a client was told about a result, and nothing *)
(* handleGet holds of one between its two reads, ever becomes stale.  That *)
(* rests on the inductive invariant of the service, and on its lemma that  *)
(* completed, partial and failed rows do not change.                       *)
(***************************************************************************)
EXTENDS Polling, ExportServiceProofs

\* The 200 response that the task's rows amount to
Shown(t) == IF status[t] \in Deliverable
            THEN [status |-> status[t], count |-> count[t], parts |-> parts[t]]
            ELSE Bare(status[t])

PollTypes ==
  /\ about \in [Pollers -> Tasks]
  /\ poll \in [Pollers -> {"idle", "parts"}]
  /\ DOMAIN row = Pollers /\ DOMAIN seen = Pollers

\* In GetParts, the row that handleGet has read is still the row.
RowCurrent == \A p \in Pollers : poll[p] = "parts" =>
  /\ status[about[p]] \in Deliverable
  /\ row[p] = [status |-> status[about[p]], count |-> count[about[p]]]

\* A result that a client has been shown is what the rows still amount to.
SeenCurrent == \A p \in Pollers : seen[p].status \in Results => seen[p] = Shown(about[p])

\* So is one that a late DELETE was answered.
AnswerCurrent == \A d \in Deletes : answer[d] \in Results => status[target[d]] = answer[d]

PollInv == IInv /\ PollTypes /\ RowCurrent /\ SeenCurrent /\ AnswerCurrent

-----------------------------------------------------------------------------
\* Before the first request nothing has been read.
LEMMA PollInvInit == PollInit => PollInv
<1> SUFFICES ASSUME PollInit PROVE PollInv
  OBVIOUS
<1>1. IInv
  BY IInvInit DEF PollInit
<1>2. PollTypes /\ RowCurrent
  BY DEF PollInit, PollTypes, RowCurrent
<1>3. SeenCurrent
  BY DEF PollInit, SeenCurrent, Bare, Results
<1>4. AnswerCurrent
  BY DEF PollInit, Init, AnswerCurrent, Results
<1> QED BY <1>1, <1>2, <1>3, <1>4 DEF PollInv

\* The rows of a result amount to the same after any step of the service.
LEMMA ShownStays ==
  ASSUME IInv, NEW t \in Tasks, status[t] \in Results, [Next]_vars
  PROVE  status'[t] = status[t] /\ count'[t] = count[t] /\ Shown(t)' = Shown(t)
<1>1. UNCHANGED <<status[t], count[t], parts[t]>>
  BY FinalRow DEF Results
<1> QED BY <1>1 DEF Shown, Bare

\* A DELETE is answered a result only from a row that holds it.
LEMMA AnswerNext == IInv /\ AnswerCurrent /\ [Next]_vars => AnswerCurrent'
<1> SUFFICES ASSUME IInv, AnswerCurrent, [Next]_vars,
                    NEW d \in Deletes, answer'[d] \in Results
             PROVE  status'[target'[d]] = answer'[d]
  BY DEF AnswerCurrent
<1>1. TypeOK
  BY DEF IInv
<1>2. CASE UNCHANGED answer /\ UNCHANGED target
  <2>1. status[target[d]] = answer[d] /\ target[d] \in Tasks
    BY <1>1, <1>2 DEF AnswerCurrent, TypeOK
  <2> QED BY <1>2, <2>1, ShownStays
<1>3. ASSUME NEW e \in Deletes, DeleteGet(e) \/ DeleteStep(e), answer' # answer
      PROVE  status'[target'[d]] = answer'[d]
  <2>1. target' = target
    BY <1>1, <1>3, DeleteFrame
  <2>2. PICK a : /\ answer' = [answer EXCEPT ![e] = a]
                 /\ a \in {"absent", "cancelled"} \/ a = status[target[e]]
    BY <1>3 DEF DeleteGet, DeleteStep, DeleteCAS, DeleteReread, DeleteSignal, DeleteList,
       DeletePurge, Answer
  <2>3. CASE d = e
    <3>1. answer'[d] = status[target[d]] /\ target[d] \in Tasks
      BY <1>1, <2>2, <2>3 DEF TypeOK, Results
    <3> QED BY <2>1, <3>1, ShownStays
  <2>4. CASE d # e
    <3>1. answer'[d] = answer[d] /\ target[d] \in Tasks
      BY <1>1, <2>2, <2>4 DEF TypeOK
    <3> QED BY <2>1, <3>1, ShownStays DEF AnswerCurrent
  <2> QED BY <2>3, <2>4
<1>4. ASSUME NEW t \in Tasks, Arrive(t) \/ SubmitStep(t)
      PROVE  UNCHANGED answer /\ UNCHANGED target
  BY <1>4 DEF Arrive, SubmitStep, Acquire, Reject, Create, Enqueue, FailQueueFull, Respond,
     deleteVars
<1>5. ASSUME NEW t \in Tasks, WorkStep(t)
      PROVE  UNCHANGED answer /\ UNCHANGED target
  BY <1>5 DEF WorkStep, Register, Get, MarkRunning, MarkFailed, Read, Upload, AppendPart, Settle,
     Finalize, Leave, deleteVars
<1>6. CASE Dequeue \/ Stop \/ Restart \/ UNCHANGED vars
  BY <1>2, <1>6 DEF Dequeue, Stop, Restart, vars, deleteVars
<1>7. ASSUME NEW e \in Deletes, DeleteGet(e) \/ DeleteStep(e)
      PROVE  UNCHANGED target
  BY <1>1, <1>7, DeleteFrame
<1> QED BY <1>2, <1>3, <1>4, <1>5, <1>6, <1>7 DEF Next

\* The steps of the service take nothing back.
LEMMA ServiceKeeps == PollInv /\ (Service \/ UNCHANGED allVars) => PollInv'
<1> SUFFICES ASSUME PollInv, Service \/ UNCHANGED allVars PROVE PollInv'
  OBVIOUS
<1>1. /\ [Next]_vars
      /\ UNCHANGED <<about, row, seen>>
      /\ poll' = poll \/ poll' = [p \in Pollers |-> "idle"]
  BY DEF Service, allVars, pollVars
<1>2. IInv' /\ AnswerCurrent'
  BY <1>1, IInvNext, AnswerNext DEF PollInv
<1>3. PollTypes'
  BY <1>1 DEF PollInv, PollTypes
<1>4. RowCurrent'
  <2> SUFFICES ASSUME NEW p \in Pollers, poll'[p] = "parts"
               PROVE  /\ status'[about[p]] \in Deliverable
                      /\ row[p] = [status |-> status'[about[p]], count |-> count'[about[p]]]
    BY <1>1 DEF RowCurrent
  <2>1. poll[p] = "parts" /\ about[p] \in Tasks
    BY <1>1 DEF PollInv, PollTypes
  <2>2. /\ status[about[p]] \in Deliverable
        /\ row[p] = [status |-> status[about[p]], count |-> count[about[p]]]
    BY <2>1 DEF PollInv, RowCurrent
  <2> QED BY <1>1, <2>1, <2>2, ShownStays DEF PollInv, Results, Deliverable
<1>5. SeenCurrent'
  <2> SUFFICES ASSUME NEW p \in Pollers, seen[p].status \in Results
               PROVE  seen[p] = Shown(about[p])'
    BY <1>1 DEF SeenCurrent
  <2>1. about[p] \in Tasks /\ seen[p] = Shown(about[p])
    BY DEF PollInv, PollTypes, SeenCurrent
  <2>2. status[about[p]] = seen[p].status
    BY <2>1 DEF Shown, Bare
  <2>3. Shown(about[p])' = Shown(about[p])
    BY <1>1, <2>1, <2>2, ShownStays DEF PollInv, Shown
  <2> QED BY <2>1, <2>3
<1> QED BY <1>2, <1>3, <1>4, <1>5 DEF PollInv

\* A read of a client tells it what the rows amount to.
LEMMA PollKeeps ==
  ASSUME PollInv, NEW p \in Pollers, ReadRow(p) \/ ReadParts(p) \/ FailParts(p)
  PROVE  PollInv'
<1>1. /\ UNCHANGED vars /\ about' = about
      /\ about[p] \in Tasks
  BY DEF ReadRow, ReadParts, FailParts, PollInv, PollTypes
<1>2. IInv' /\ AnswerCurrent'
  BY <1>1, IInvNext, AnswerNext DEF PollInv
<1>3. UNCHANGED <<status, count, parts>> /\ \A t : Shown(t)' = Shown(t)
  BY <1>1 DEF vars, storeVars, Shown, Bare
<1>4. CASE ReadRow(p) /\ status[about[p]] \in Deliverable
  <2>1. /\ row' = [row EXCEPT ![p] = [status |-> status[about[p]], count |-> count[about[p]]]]
        /\ poll' = [poll EXCEPT ![p] = "parts"]
        /\ seen' = seen
    BY <1>4 DEF ReadRow
  <2>2. PollTypes' /\ SeenCurrent'
    BY <1>1, <1>3, <2>1 DEF PollInv, PollTypes, SeenCurrent
  <2>3. RowCurrent'
    BY <1>1, <1>3, <1>4, <2>1 DEF PollInv, PollTypes, RowCurrent
  <2> QED BY <1>2, <2>2, <2>3 DEF PollInv
<1>5. CASE ReadRow(p) /\ status[about[p]] \notin Deliverable
  <2>1. /\ seen' = [seen EXCEPT ![p] = Bare(status[about[p]])]
        /\ row' = row /\ poll' = poll
    BY <1>5 DEF ReadRow
  <2>2. PollTypes' /\ RowCurrent'
    BY <1>1, <1>3, <2>1 DEF PollInv, PollTypes, RowCurrent
  <2>3. Bare(status[about[p]]) = Shown(about[p])
    BY <1>5 DEF Shown
  <2>4. SeenCurrent'
    BY <1>1, <1>3, <2>1, <2>3 DEF PollInv, PollTypes, SeenCurrent
  <2> QED BY <1>2, <2>2, <2>4 DEF PollInv
<1>6. CASE ReadParts(p)
  <2>1. /\ seen' = [seen EXCEPT ![p] = [status |-> row[p].status, count |-> row[p].count,
                                        parts |-> parts[about[p]]]]
        /\ poll' = [poll EXCEPT ![p] = "idle"] /\ row' = row
        /\ poll[p] = "parts"
    BY <1>6 DEF ReadParts
  <2>2. PollTypes' /\ RowCurrent'
    BY <1>1, <1>3, <2>1 DEF PollInv, PollTypes, RowCurrent
  <2>3. seen'[p] = Shown(about[p])
    <3>1. /\ status[about[p]] \in Deliverable
          /\ row[p] = [status |-> status[about[p]], count |-> count[about[p]]]
      BY <2>1 DEF PollInv, RowCurrent
    <3>2. row[p].status = status[about[p]] /\ row[p].count = count[about[p]]
      BY <3>1
    <3> QED BY <2>1, <3>1, <3>2 DEF PollInv, PollTypes, Shown
  <2>4. SeenCurrent'
    BY <1>1, <1>3, <2>1, <2>3 DEF PollInv, PollTypes, SeenCurrent
  <2> QED BY <1>2, <2>2, <2>4 DEF PollInv
<1>7. CASE FailParts(p)
  <2>1. poll' = [poll EXCEPT ![p] = "idle"] /\ row' = row /\ seen' = seen
    BY <1>7 DEF FailParts
  <2>2. PollTypes' /\ RowCurrent' /\ SeenCurrent'
    BY <1>1, <1>3, <2>1 DEF PollInv, PollTypes, RowCurrent, SeenCurrent
  <2> QED BY <1>2, <2>2 DEF PollInv
<1> QED BY <1>4, <1>5, <1>6, <1>7

\* Every step keeps it.
LEMMA PollInvNext == PollInv /\ [PollNext]_allVars => PollInv'
  BY ServiceKeeps, PollKeeps DEF PollNext

\* Nothing that a client was told about a result, or is about to be told, is stale.
THEOREM NeverStale == PollSpec => []PollInv
  BY PollInvInit, PollInvNext, PTL DEF PollSpec

-----------------------------------------------------------------------------
\* A response with parts has all the parts that its actual_count sums up.
THEOREM ResponsesComplete == PollSpec => []ResponseComplete
<1>1. PollInv => ResponseComplete
  <2> SUFFICES ASSUME PollInv, NEW p \in Pollers, seen[p].status \in Deliverable
               PROVE  seen[p].parts = 0 .. seen[p].count - 1
    BY DEF ResponseComplete
  <2>1. about[p] \in Tasks /\ seen[p] = Shown(about[p])
    BY DEF PollInv, PollTypes, SeenCurrent, Results, Deliverable
  <2>2. CASE status[about[p]] \in Deliverable
    <3>1. seen[p].parts = parts[about[p]] /\ seen[p].count = count[about[p]]
      BY <2>1, <2>2 DEF Shown
    <3>2. parts[about[p]] = 0 .. count[about[p]] - 1
      BY <2>1, <2>2 DEF PollInv, IInv, DeliverableComplete
    <3> QED BY <3>1, <3>2
  <2>3. CASE status[about[p]] \notin Deliverable
    BY <2>1, <2>3 DEF Shown, Bare
  <2> QED BY <2>2, <2>3
<1> QED BY <1>1, NeverStale, PTL

\* Two clients are told the same result, and so is one whose DELETE came too late.
THEOREM ResultsAgreed == PollSpec => []ResultsAgree
<1>1. PollInv => ResultsAgree
  <2> SUFFICES ASSUME PollInv, NEW p \in Pollers, seen[p].status \in Results
               PROVE  /\ \A q \in Pollers : about[q] = about[p] /\ seen[q].status \in Results
                           => seen[q] = seen[p]
                      /\ \A d \in Deletes : target[d] = about[p] /\ answer[d] \in Results
                           => answer[d] = seen[p].status
    BY DEF ResultsAgree
  <2>1. seen[p] = Shown(about[p])
    BY DEF PollInv, SeenCurrent
  <2>2. seen[p].status = status[about[p]]
    BY <2>1 DEF Shown, Bare
  <2> QED BY <2>1, <2>2 DEF PollInv, SeenCurrent, AnswerCurrent
<1> QED BY <1>1, NeverStale, PTL

\* Whoever has seen a result sees it each time.
THEOREM ResultsStay == PollSpec => ResultStays
<1>1. PollInv /\ [PollNext]_allVars =>
        [\A p \in Pollers : seen[p].status \in Results => seen'[p] = seen[p]]_allVars
  <2> SUFFICES ASSUME PollInv, PollNext, NEW p \in Pollers, seen[p].status \in Results
               PROVE  seen'[p] = seen[p]
    OBVIOUS
  <2>1. PollInv'
    BY PollInvNext
  <2>2. about[p] \in Tasks /\ seen[p] = Shown(about[p]) /\ about' = about
    BY DEF PollInv, PollTypes, SeenCurrent, PollNext, Service, ReadRow, ReadParts, FailParts
  <2>3. status[about[p]] = seen[p].status
    BY <2>2 DEF Shown, Bare
  <2>4. CASE seen' = seen
    BY <2>4
  <2>5. ASSUME NEW q \in Pollers, ReadRow(q) \/ ReadParts(q) \/ FailParts(q), seen' # seen
        PROVE  seen'[p] = seen[p]
    <3>1. UNCHANGED <<status, count, parts>> /\ Shown(about[p])' = Shown(about[p])
      BY <2>2, <2>5 DEF ReadRow, ReadParts, FailParts, vars, storeVars, Shown, Bare
    <3>2. CASE q = p
      <4>1. seen'[p].status = status[about[p]]
        <5>1. CASE ReadRow(p)
          BY <2>5, <3>2, <5>1 DEF ReadRow, Bare, PollInv, PollTypes
        <5>2. CASE ReadParts(p)
          BY <2>5, <3>2, <5>2 DEF ReadParts, PollInv, PollTypes, RowCurrent
        <5> QED BY <2>5, <3>2, <5>1, <5>2 DEF FailParts
      <4>2. seen'[p] = Shown(about[p])'
        BY <2>1, <2>2, <2>3, <4>1 DEF PollInv, SeenCurrent
      <4> QED BY <2>2, <3>1, <4>2
    <3>3. CASE q # p
      BY <2>5, <3>3 DEF ReadRow, ReadParts, FailParts, PollInv, PollTypes
    <3> QED BY <3>2, <3>3
  <2> QED BY <2>4, <2>5 DEF PollNext, Service
<1> QED BY <1>1, NeverStale, PTL DEF PollSpec, ResultStays

=============================================================================
