------------------------ MODULE ExportServiceProofs --------------------------
(***************************************************************************)
(* Proofs about ExportService for any number of tasks, DELETEs, workers,   *)
(* slots, parts and restarts.  IInv is inductive; each of its parts has a  *)
(* lemma per group of actions (POST, worker, DELETE, process), and the     *)
(* properties follow from it.  Assumptions: the ASSUMEs of ExportService.  *)
(***************************************************************************)
EXTENDS ExportServiceInv, TLAPS, FiniteSetTheorems, FunctionTheorems, SequenceTheorems

USE DEF Terminal, Deliverable

-----------------------------------------------------------------------------
\* Type correctness holds when the process starts for the first time.
LEMMA TypeInit == Init => TypeOK
<1> SUFFICES ASSUME Init PROVE TypeOK
  OBVIOUS
<1> USE CapacityAssumption, BoundAssumption DEF Init
<1>1. /\ status \in [Tasks -> Status]
      /\ count \in [Tasks -> 0..MaxParts]
      /\ parts \in [Tasks -> SUBSET Nat]
      /\ objects \in [Tasks -> SUBSET Nat]
  BY DEF Status
<1>2. /\ inflight \in 0..InflightMax
      /\ cancels \subseteq Tasks
      /\ signalled \subseteq Tasks
      /\ restarts \in 0..MaxRestarts
  OBVIOUS
<1>3. /\ sub \in [Tasks -> SubmitPC]
      /\ wk \in [Tasks -> WorkPC]
      /\ outcome \in [Tasks -> Outcomes]
      /\ flushed \in [Tasks -> 0..MaxParts]
      /\ appended \in [Tasks -> 0..MaxParts]
  BY DEF SubmitPC, WorkPC, Outcomes
<1>4. queue \in Seq(Tasks) /\ stopping \in BOOLEAN
  BY EmptySeq
<1>5. /\ del \in [Deletes -> DeletePC]
      /\ target \in [Deletes -> Tasks]
      /\ listed \in [Deletes -> SUBSET Nat]
      /\ answer \in [Deletes -> Status]
  BY DEF DeletePC, Status
<1> QED BY <1>1, <1>2, <1>3, <1>4, <1>5 DEF TypeOK

\* The steps of Submit keep the types; Acquire is the one that raises inflight.
LEMMA TypeSubmit ==
  ASSUME TypeOK, NEW t \in Tasks, Arrive(t) \/ SubmitStep(t)
  PROVE  TypeOK'
<1> USE CapacityAssumption, BoundAssumption DEF TypeOK, SubmitPC, storeVars, memVars, workVars, deleteVars
<1>1. CASE Arrive(t)
  BY <1>1 DEF Arrive
<1>2. CASE Acquire(t)
  BY <1>2 DEF Acquire, SlotFree
<1>3. CASE Reject(t)
  BY <1>3 DEF Reject
<1>4. CASE Create(t)
  BY <1>4 DEF Create, Released, SetStatus, Status
<1>5. CASE Enqueue(t)
  <2>1. queue' \in Seq(Tasks)
    <3>1. queue' = Append(queue, t) \/ queue' = queue
      BY <1>5 DEF Enqueue
    <3>2. queue \in Seq(Tasks)
      OBVIOUS
    <3> HIDE DEF TypeOK
    <3>3. Append(queue, t) \in Seq(Tasks)
      BY <3>2, AppendProperties
    <3> QED BY <3>1, <3>2, <3>3
  <2>4. inflight' \in 0..InflightMax
    BY <1>5 DEF Enqueue, Released
  <2>2. sub' \in [Tasks -> SubmitPC] /\ wk' \in [Tasks -> WorkPC]
    <3>1. /\ \/ wk' = [wk EXCEPT ![t] = "queued"]
             \/ wk' = wk
          /\ \/ sub' = [sub EXCEPT ![t] = "enqueued"]
             \/ sub' = [sub EXCEPT ![t] = "queuefull"]
      BY <1>5 DEF Enqueue
    <3>2. wk' \in [Tasks -> WorkPC]
      BY <3>1 DEF WorkPC
    <3>3. sub' \in [Tasks -> SubmitPC]
      BY <3>1 DEF SubmitPC
    <3> QED BY <3>2, <3>3
  <2>3. UNCHANGED <<storeVars, cancels, signalled, stopping, restarts, outcome,
                    flushed, appended, deleteVars>>
    BY <1>5 DEF Enqueue
  <2> QED BY <2>1, <2>2, <2>3, <2>4
<1>6. CASE FailQueueFull(t)
  <2>1. /\ status' \in [Tasks -> Status]
        /\ count' \in [Tasks -> 0..MaxParts]
    BY <1>6 DEF FailQueueFull, SetFinal, SetStatus, Status
  <2>2. sub' \in [Tasks -> SubmitPC]
    BY <1>6 DEF FailQueueFull
  <2>3. UNCHANGED <<parts, objects, memVars, workVars, deleteVars>>
    BY <1>6 DEF FailQueueFull
  <2> QED BY <2>1, <2>2, <2>3
<1>7. CASE Respond(t)
  BY <1>7 DEF Respond
<1> QED BY <1>1, <1>2, <1>3, <1>4, <1>5, <1>6, <1>7 DEF SubmitStep

\* run's next program point and result are well typed.
LEMMA RunTypes ==
  ASSUME TypeOK, NEW t \in Tasks, NEW pc \in WorkPC,
         RunContinues(t, pc) \/ \E o \in Terminal : RunReturns(t, o)
  PROVE  wk' \in [Tasks -> WorkPC] /\ outcome' \in [Tasks -> Outcomes]
<1>1. ASSUME NEW o \in Terminal, RunReturns(t, o)
      PROVE  wk' \in [Tasks -> WorkPC] /\ outcome' \in [Tasks -> Outcomes]
  BY <1>1 DEF TypeOK, RunReturns, GoTo, WorkPC, Outcomes
<1>2. CASE RunContinues(t, pc) /\ ~CtxDone(t)
  BY <1>2 DEF TypeOK, RunContinues, GoTo
<1>3. CASE RunContinues(t, pc) /\ CtxDone(t)
  BY <1>1, <1>3 DEF RunContinues
<1> QED BY <1>1, <1>2, <1>3

\* The steps of process and run keep the types.
LEMMA TypeWork ==
  ASSUME TypeOK, NEW t \in Tasks, WorkerData(t), WorkStep(t)
  PROVE  TypeOK'
<1> USE CapacityAssumption, BoundAssumption DEF TypeOK, WorkPC, storeVars, memVars, deleteVars, GoTo
<1>1. CASE Register(t)
  BY <1>1 DEF Register
<1>2. CASE Get(t)
  BY <1>2 DEF Get
<1>3. CASE MarkRunning(t)
  BY <1>3 DEF MarkRunning, SetStatus, RunContinues, RunReturns, Status, Outcomes
<1>4. CASE MarkFailed(t)
  BY <1>4 DEF MarkFailed, SetFinal, SetStatus, Status
<1>5. CASE Read(t)
  <2>1. {"upload", "append"} \subseteq WorkPC /\ {"failed"} \union Deliverable \subseteq Terminal
    OBVIOUS
  <2>2. wk' \in [Tasks -> WorkPC] /\ outcome' \in [Tasks -> Outcomes]
    <3> HIDE DEF TypeOK, WorkPC, GoTo, Terminal, Deliverable
    <3> QED BY <1>5, <2>1, RunTypes DEF Read
  <2>3. UNCHANGED <<storeVars, memVars, sub, flushed, appended, deleteVars>>
    BY <1>5 DEF Read
  <2> QED BY <2>2, <2>3
<1>6. CASE Upload(t)
  <2>1. "read" \in WorkPC /\ "failed" \in Terminal
    OBVIOUS
  <2>2. wk' \in [Tasks -> WorkPC] /\ outcome' \in [Tasks -> Outcomes]
    <3> HIDE DEF TypeOK, WorkPC, GoTo, Terminal, Deliverable
    <3> QED BY <1>6, <2>1, RunTypes DEF Upload
  <2>3. flushed' \in [Tasks -> 0..MaxParts] /\ objects' \in [Tasks -> SUBSET Nat]
    <3>1. flushed[t] \in Nat /\ flushed[t] + 1 \in 0..MaxParts
      BY <1>6 DEF Upload, WorkerData
    <3>2. flushed' \in [Tasks -> 0..MaxParts]
      BY <1>6, <3>1 DEF Upload
    <3>3. objects' \in [Tasks -> SUBSET Nat]
      BY <1>6, <3>1 DEF Upload
    <3> QED BY <3>2, <3>3
  <2>4. UNCHANGED <<status, count, parts, memVars, sub, appended, deleteVars>>
    BY <1>6 DEF Upload
  <2> QED BY <2>2, <2>3, <2>4
<1>7. CASE AppendPart(t)
  <2>1. "append" \in WorkPC /\ {"failed"} \union Deliverable \subseteq Terminal
    OBVIOUS
  <2>2. wk' \in [Tasks -> WorkPC] /\ outcome' \in [Tasks -> Outcomes]
    <3> HIDE DEF TypeOK, WorkPC, GoTo, Terminal, Deliverable
    <3> QED BY <1>7, <2>1, RunTypes DEF AppendPart
  <2>3. appended' \in [Tasks -> 0..MaxParts] /\ parts' \in [Tasks -> SUBSET Nat]
    <3>1. appended[t] \in Nat /\ appended[t] + 1 \in 0..MaxParts
      BY <1>7 DEF AppendPart, WorkerData
    <3>2. appended' \in [Tasks -> 0..MaxParts]
      BY <1>7, <3>1 DEF AppendPart
    <3>3. parts' \in [Tasks -> SUBSET Nat]
      BY <1>7, <3>1 DEF AppendPart
    <3> QED BY <3>2, <3>3
  <2>4. UNCHANGED <<status, count, objects, memVars, sub, flushed, deleteVars>>
    BY <1>7 DEF AppendPart
  <2> QED BY <2>2, <2>3, <2>4
<1>8. CASE Settle(t)
  BY <1>8 DEF Settle, Outcomes
<1>9. CASE Finalize(t)
  <2>1. PICK r : SetFinal(r, t, outcome[t], IF outcome[t] \in Deliverable THEN flushed[t] ELSE 0)
    BY <1>9 DEF Finalize
  <2>2. outcome[t] \in Terminal
    BY <1>9 DEF Finalize, WorkerData, AfterRun
  <2>3. status' \in [Tasks -> Status] /\ count' \in [Tasks -> 0..MaxParts]
    BY <2>1, <2>2 DEF SetFinal, SetStatus, Status
  <2>4. wk' \in [Tasks -> WorkPC]
    BY <1>9 DEF Finalize
  <2>5. UNCHANGED <<parts, objects, memVars, sub, outcome, flushed, appended, deleteVars>>
    BY <1>9 DEF Finalize
  <2> QED BY <2>3, <2>4, <2>5
<1>10. CASE Leave(t)
  BY <1>10 DEF Leave, Released, Outcomes
<1> QED BY <1>1, <1>2, <1>3, <1>4, <1>5, <1>6, <1>7, <1>8, <1>9, <1>10 DEF WorkStep

\* The steps of Cancel keep the types.
LEMMA TypeDelete ==
  ASSUME TypeOK, NEW d \in Deletes, DeleteGet(d) \/ DeleteStep(d)
  PROVE  TypeOK'
<1> USE DEF TypeOK, DeletePC, Status, Answer, storeVars, memVars, workVars
<1>1. CASE DeleteGet(d)
  <2>3. status[target[d]] \in Status /\ "absent" \in Status
    OBVIOUS
  <2>1. del' \in [Deletes -> DeletePC] /\ answer' \in [Deletes -> Status]
    <3> HIDE DEF Status, Terminal
    <3> QED BY <1>1, <2>3 DEF DeleteGet
  <2>2. UNCHANGED <<storeVars, memVars, sub, workVars, target, listed>>
    BY <1>1 DEF DeleteGet
  <2> QED BY <2>1, <2>2
<1>2. CASE DeleteCAS(d)
  <2>1. status' \in [Tasks -> Status] /\ del' \in [Deletes -> DeletePC]
    BY <1>2 DEF DeleteCAS
  <2>2. UNCHANGED <<count, parts, objects, memVars, sub, workVars, target, listed, answer>>
    BY <1>2 DEF DeleteCAS
  <2> QED BY <2>1, <2>2
<1>3. CASE DeleteReread(d)
  <2>1. status[target[d]] \in Status /\ "absent" \in Status
    OBVIOUS
  <2>2. del' \in [Deletes -> DeletePC] /\ answer' \in [Deletes -> Status]
    <3> HIDE DEF Status, Terminal
    <3> QED BY <1>3, <2>1 DEF DeleteReread
  <2>3. UNCHANGED <<storeVars, memVars, sub, workVars, target, listed>>
    BY <1>3 DEF DeleteReread
  <2> QED BY <2>2, <2>3
<1>4. CASE DeleteSignal(d)
  BY <1>4 DEF DeleteSignal
<1>5. CASE DeleteList(d)
  BY <1>5 DEF DeleteList
<1>6. CASE DeletePurge(d)
  <2>1. objects' \in [Tasks -> SUBSET Nat] /\ listed' \in [Deletes -> SUBSET Nat]
    <3> HIDE DEF Status, DeletePC, Answer
    <3>1. CASE UNCHANGED <<objects, listed>>
      BY <3>1
    <3>2. CASE \E o \in listed[d], r \in CallResults(BackendFaults \/ RequestFaults) :
                 /\ objects' = IF Applied(r)
                      THEN [objects EXCEPT ![target[d]] = @ \ {o}] ELSE objects
                 /\ listed' = [listed EXCEPT ![d] = IF r = "ok" THEN @ \ {o} ELSE {}]
      BY <3>2
    <3> QED BY <1>6, <3>1, <3>2 DEF DeletePurge
  <2>2. del' \in [Deletes -> DeletePC] /\ answer' \in [Deletes -> Status]
    BY <1>6 DEF DeletePurge
  <2>3. UNCHANGED <<status, count, parts, memVars, sub, workVars, target>>
    BY <1>6 DEF DeletePurge
  <2> QED BY <2>1, <2>2, <2>3
<1> QED BY <1>1, <1>2, <1>3, <1>4, <1>5, <1>6 DEF DeleteStep

\* So do taking from the queue, SIGTERM and the death of the process.
LEMMA TypeProcess ==
  ASSUME TypeOK, Dequeue \/ Stop \/ Restart \/ UNCHANGED vars
  PROVE  TypeOK'
<1> USE CapacityAssumption, BoundAssumption DEF TypeOK, WorkPC, SubmitPC, DeletePC, storeVars, memVars, workVars, deleteVars
<1>1. CASE Dequeue
  BY <1>1 DEF Dequeue, GoTo
<1>2. CASE Stop
  BY <1>2 DEF Stop
<1>3. CASE Restart
  <2>1. /\ inflight' \in 0..InflightMax
        /\ cancels' \subseteq Tasks /\ signalled' \subseteq Tasks
        /\ restarts' \in 0..MaxRestarts
    BY <1>3 DEF Restart
  <2>6. queue' \in Seq(Tasks) /\ stopping' \in BOOLEAN
    BY <1>3, EmptySeq DEF Restart
  <2>2. sub' \in [Tasks -> SubmitPC] /\ wk' \in [Tasks -> WorkPC]
    BY <1>3 DEF Restart
  <2>3. /\ outcome' \in [Tasks -> Outcomes]
        /\ flushed' \in [Tasks -> 0..MaxParts] /\ appended' \in [Tasks -> 0..MaxParts]
    BY <1>3 DEF Restart, Outcomes
  <2>4. del' \in [Deletes -> DeletePC] /\ listed' \in [Deletes -> SUBSET Nat]
    BY <1>3 DEF Restart
  <2>5. UNCHANGED <<storeVars, target, answer>>
    BY <1>3 DEF Restart
  <2> QED BY <2>1, <2>2, <2>3, <2>4, <2>5, <2>6
<1>4. CASE UNCHANGED vars
  BY <1>4 DEF vars
<1> QED BY <1>1, <1>2, <1>3, <1>4


-----------------------------------------------------------------------------
(* What one task's row, part rows and worker say about each other.         *)

\* What is said about task u, except for the objects, stays as it is.
SameTask(u) ==
  /\ status'[u] = status[u] /\ count'[u] = count[u] /\ parts'[u] = parts[u]
  /\ sub'[u] = sub[u] /\ wk'[u] = wk[u] /\ outcome'[u] = outcome[u]
  /\ flushed'[u] = flushed[u] /\ appended'[u] = appended[u]

TaskInv(t) ==
  /\ WorkerData(t)
  /\ RowOwnership(t)
  /\ status[t] \in Deliverable => parts[t] = 0 .. count[t] - 1

\* A step taken for one task leaves the others alone.
LEMMA OthersSame ==
  ASSUME TypeOK, NEW t \in Tasks, NEW u \in Tasks, u # t,
         Arrive(t) \/ SubmitStep(t) \/ WorkStep(t)
  PROVE  SameTask(u)
<1> USE DEF TypeOK, SameTask, storeVars, memVars, workVars, deleteVars, GoTo, SetStatus, SetFinal
<1>1. CASE Arrive(t) \/ SubmitStep(t)
  BY <1>1 DEF Arrive, SubmitStep, Acquire, Reject, Create, Enqueue, FailQueueFull, Respond
<1>2. CASE Register(t) \/ Get(t) \/ MarkFailed(t) \/ Settle(t) \/ Finalize(t) \/ Leave(t)
  BY <1>2 DEF Register, Get, MarkFailed, Settle, Finalize, Leave
<1>3. CASE MarkRunning(t)
  BY <1>3 DEF MarkRunning, RunContinues, RunReturns
<1>4. CASE Read(t)
  BY <1>4 DEF Read, RunContinues, RunReturns
<1>5. CASE Upload(t)
  BY <1>5 DEF Upload, RunContinues, RunReturns
<1>6. CASE AppendPart(t)
  BY <1>6 DEF AppendPart, RunContinues, RunReturns
<1> QED BY <1>1, <1>2, <1>3, <1>4, <1>5, <1>6 DEF WorkStep

\* What is said about one task holds on if nothing of the task changes.
LEMMA TaskSame ==
  ASSUME NEW u, SameTask(u), TaskInv(u)
  PROVE  TaskInv(u)'
  BY DEF SameTask, TaskInv, WorkerData, RowOwnership

\* The steps of Submit keep the worker's data and the ownership of the row.
LEMMA TaskSubmit ==
  ASSUME TypeOK, NEW t \in Tasks, TaskInv(t), Arrive(t) \/ SubmitStep(t)
  PROVE  TaskInv(t)'
<1> USE DEF TypeOK, TaskInv, WorkerData, RowOwnership, BeforeRun, AfterRun,
            storeVars, memVars, workVars, deleteVars
<1>1. CASE Arrive(t) \/ Acquire(t) \/ Reject(t) \/ Respond(t)
  BY <1>1 DEF Arrive, Acquire, Reject, Respond
<1>2. CASE Create(t)
  BY <1>2 DEF Create, SetStatus, CallResults, Applied
<1>3. CASE Enqueue(t)
  BY <1>3 DEF Enqueue
<1>4. CASE FailQueueFull(t)
  BY <1>4 DEF FailQueueFull, SetFinal, SetStatus
<1> QED BY <1>1, <1>2, <1>3, <1>4 DEF SubmitStep

\* The steps of process keep them: AppendPart comes after the uploads, Finalize
\* after the last AppendPart.
LEMMA TaskWork ==
  ASSUME TypeOK, NEW t \in Tasks, TaskInv(t), WorkStep(t)
  PROVE  TaskInv(t)'
<1> USE BoundAssumption DEF TypeOK, TaskInv, WorkerData, RowOwnership, BeforeRun, AfterRun,
            storeVars, memVars, deleteVars, GoTo
<1>1. CASE Register(t)
  BY <1>1 DEF Register
<1>2. CASE Get(t)
  BY <1>2 DEF Get
<1>3. CASE MarkRunning(t)
  BY <1>3 DEF MarkRunning, SetStatus, RunContinues, RunReturns
<1>4. CASE MarkFailed(t)
  BY <1>4 DEF MarkFailed, SetFinal, SetStatus
<1>5. CASE Read(t)
  <2>1. CASE flushed[t] < MaxParts /\ RunContinues(t, "upload")
    BY <1>5, <2>1 DEF Read, RunContinues, RunReturns
  <2>2. CASE flushed[t] > 0 /\ RunContinues(t, "append")
    BY <1>5, <2>2 DEF Read, RunContinues, RunReturns
  <2>3. CASE flushed[t] = 0 /\ \E o \in Deliverable : RunReturns(t, o)
    BY <1>5, <2>3 DEF Read, RunReturns
  <2>4. CASE RunReturns(t, "failed")
    BY <1>5, <2>4 DEF Read, RunReturns
  <2> QED BY <1>5, <2>1, <2>2, <2>3, <2>4 DEF Read
<1>6. CASE Upload(t)
  BY <1>6 DEF Upload, RunContinues, RunReturns
<1>7. CASE AppendPart(t)
  <2> DEFINE i == appended[t]
  <2>1. i \in Nat /\ i < flushed[t] /\ flushed[t] \in Nat /\ parts[t] = 0 .. i - 1
    BY <1>7 DEF AppendPart
  <2>2. CASE RunReturns(t, "failed") /\ wk[t] = "append"
    BY <1>7, <2>2 DEF AppendPart, RunReturns
  <2>3. CASE /\ parts' = [parts EXCEPT ![t] = @ \union {i}]
             /\ appended' = [appended EXCEPT ![t] = @ + 1]
    <3>1. parts'[t] = 0 .. i /\ appended'[t] = i + 1
      BY <2>1, <2>3
    <3>2. CASE i + 1 = flushed[t] /\ \E o \in Deliverable : RunReturns(t, o)
      <4>1. PICK o \in Deliverable : RunReturns(t, o)
        BY <3>2
      <4>2. wk'[t] = "settle" /\ outcome'[t] = o /\ wk[t] = "append"
        BY <1>7, <4>1 DEF AppendPart, RunReturns
      <4>3. status' = status /\ count' = count /\ flushed' = flushed /\ sub' = sub
        BY <1>7 DEF AppendPart
      <4>4. WorkerData(t)'
        BY <2>1, <3>1, <3>2, <4>2, <4>3
      <4>5. RowOwnership(t)'
        BY <1>7, <4>2, <4>3 DEF AppendPart
      <4> QED BY <1>7, <4>2, <4>3, <4>4, <4>5
    <3>3. CASE i + 1 # flushed[t] /\ RunContinues(t, "append")
      <4>1. \/ wk'[t] = "settle" /\ outcome'[t] = "failed"
            \/ wk'[t] = "append" /\ outcome' = outcome
        BY <3>3 DEF RunContinues, RunReturns
      <4>2. /\ status' = status /\ count' = count /\ flushed' = flushed /\ sub' = sub
            /\ wk[t] = "append"
        BY <1>7 DEF AppendPart
      <4>3. i + 1 < flushed[t] /\ parts'[t] = 0 .. appended'[t] - 1
        BY <2>1, <3>1, <3>3
      <4>5. WorkerData(t)'
        BY <3>1, <4>1, <4>2, <4>3
      <4>4. RowOwnership(t)'
        BY <4>1, <4>2
      <4> QED BY <4>1, <4>2, <4>4, <4>5
    <3> QED BY <1>7, <2>2, <2>3, <3>2, <3>3 DEF AppendPart, LastAppend
  <2> QED BY <1>7, <2>2, <2>3 DEF AppendPart, LastAppend, Applied
<1>8. CASE Settle(t)
  BY <1>8 DEF Settle
<1>9. CASE Finalize(t)
  BY <1>9 DEF Finalize, SetFinal, SetStatus
<1>10. CASE Leave(t)
  BY <1>10 DEF Leave
<1> QED BY <1>1, <1>2, <1>3, <1>4, <1>5, <1>6, <1>7, <1>8, <1>9, <1>10 DEF WorkStep


\* A DELETE changes nothing but the status of its target, and that only by the
\* compare-and-swap of CancelCAS.
LEMMA DeleteFrame ==
  ASSUME TypeOK, NEW d \in Deletes, DeleteGet(d) \/ DeleteStep(d)
  PROVE  /\ UNCHANGED <<count, parts, inflight, queue, cancels, stopping, sub, wk,
                        outcome, flushed, appended, target>>
         /\ \/ UNCHANGED status
            \/ /\ status[target[d]] \in {"queued", "running"}
               /\ status' = [status EXCEPT ![target[d]] = "cancelled"]
               /\ del[d] = "cas"
  BY DEF TypeOK, DeleteStep, DeleteGet, DeleteCAS, DeleteReread, DeleteSignal, DeleteList,
         DeletePurge, Cancellable, Answer, storeVars, memVars, workVars

\* A DELETE keeps them: its compare-and-swap leaves finished rows alone.
LEMMA TaskDelete ==
  ASSUME TypeOK, DeletesAccepted, NEW d \in Deletes, DeleteGet(d) \/ DeleteStep(d),
         NEW t \in Tasks, TaskInv(t)
  PROVE  TaskInv(t)'
<1>1. CASE UNCHANGED status
  BY <1>1, DeleteFrame, TaskSame DEF SameTask
<1>2. CASE /\ status' = [status EXCEPT ![target[d]] = "cancelled"]
           /\ del[d] = "cas"
  <2>1. sub[target[d]] = "accepted"
    BY <1>2 DEF DeletesAccepted
  <2>2. CASE t # target[d]
    BY <1>2, <2>2, DeleteFrame, TaskSame DEF SameTask, TypeOK
  <2>3. CASE t = target[d]
    <3>1. status'[t] = "cancelled"
      BY <1>2, <2>3 DEF TypeOK
    <3>2. UNCHANGED <<count, parts, sub, wk, outcome, flushed, appended>>
      BY DeleteFrame
    <3> QED BY <2>1, <2>3, <3>1, <3>2 DEF TaskInv, WorkerData, RowOwnership, BeforeRun, AfterRun
  <2> QED BY <2>2, <2>3
<1> QED BY <1>1, <1>2, DeleteFrame

\* The head of the queue is a waiting task.
LEMMA HeadWaits ==
  ASSUME TypeOK, QueueExact, queue # <<>>
  PROVE  Head(queue) \in Tasks /\ wk[Head(queue)] = "queued"
<1>1. queue \in Seq(Tasks)
  BY DEF TypeOK
<1>2. Len(queue) \in Nat \ {0} /\ Head(queue) = queue[1] /\ queue[1] \in Tasks
  BY <1>1, HeadTailProperties, EmptySeq, ElementOfSeq
<1> QED BY <1>2 DEF QueueExact

\* Taking a task from the queue keeps them.
LEMMA TaskDequeue ==
  ASSUME TypeOK, QueueExact, Dequeue, NEW t \in Tasks, TaskInv(t)
  PROVE  TaskInv(t)'
<1>1. /\ Head(queue) \in Tasks /\ wk[Head(queue)] = "queued"
      /\ wk' = [wk EXCEPT ![Head(queue)] = "register"]
      /\ UNCHANGED <<status, count, parts, sub, outcome, flushed, appended>>
  BY HeadWaits DEF Dequeue, GoTo, storeVars
<1> HIDE DEF Terminal
<1>2. CASE t # Head(queue)
  BY <1>1, <1>2, TaskSame DEF SameTask, TypeOK
<1>3. CASE t = Head(queue)
  <2>1. wk'[t] = "register" /\ wk[t] = "queued"
    BY <1>1, <1>3 DEF TypeOK
  <2> QED BY <1>1, <2>1 DEF TaskInv, WorkerData, RowOwnership, BeforeRun, AfterRun
<1> QED BY <1>2, <1>3

\* So do SIGTERM and the death of the process.
LEMMA TaskProcess ==
  ASSUME TypeOK, Stop \/ Restart \/ UNCHANGED vars, NEW t \in Tasks, TaskInv(t)
  PROVE  TaskInv(t)'
<1>1. CASE Stop \/ UNCHANGED vars
  BY <1>1, TaskSame DEF Stop, vars, storeVars, workVars, SameTask
<1>2. CASE Restart
  <2>1. /\ wk'[t] = IF wk[t] \in {"none", "done"} THEN wk[t] ELSE "lost"
        /\ sub'[t] = IF sub[t] \in SubmitEnded THEN sub[t] ELSE "lost"
        /\ UNCHANGED <<status, count, parts>>
        /\ appended'[t] = 0 /\ flushed'[t] = 0
    BY <1>2 DEF Restart, storeVars, TypeOK
  <2> QED BY <2>1 DEF TaskInv, WorkerData, RowOwnership, BeforeRun, AfterRun, SubmitEnded
<1> QED BY <1>1, <1>2

-----------------------------------------------------------------------------
(* The gate, the queue and the registry.                                   *)

\* The tasks a CancelTask can reach
Registered == Processing \ {"register"}

\* The steps of process between its first and its last leave the shared memory alone.
LEMMA WorkMoves ==
  ASSUME TypeOK, NEW t \in Tasks, WorkStep(t)
  PROVE  /\ UNCHANGED <<queue, stopping, sub, del, target>>
         /\ \/ Register(t)
            \/ Leave(t)
            \/ /\ wk[t] \in Registered /\ wk'[t] \in Registered
               /\ UNCHANGED <<cancels, signalled, inflight>>
<1> USE DEF TypeOK, Registered, Processing, storeVars, memVars, deleteVars, GoTo
<1>1. CASE Register(t) \/ Leave(t)
  BY <1>1 DEF Register, Leave
<1>2. CASE Get(t) \/ MarkFailed(t) \/ Settle(t) \/ Finalize(t)
  BY <1>2 DEF Get, MarkFailed, Settle, Finalize
<1>3. CASE MarkRunning(t)
  BY <1>3 DEF MarkRunning, RunContinues, RunReturns
<1>4. CASE Read(t)
  BY <1>4 DEF Read, RunContinues, RunReturns
<1>5. CASE Upload(t)
  BY <1>5 DEF Upload, RunContinues, RunReturns
<1>6. CASE AppendPart(t)
  BY <1>6 DEF AppendPart, RunContinues, RunReturns
<1> QED BY <1>1, <1>2, <1>3, <1>4, <1>5, <1>6 DEF WorkStep

\* Holders can be counted.
LEMMA HoldersFinite == IsFiniteSet(Holders) /\ Cardinality(Holders) \in Nat
<1>1. Holders \in SUBSET Tasks
  BY DEF Holders
<1> QED BY <1>1, RequestsAssumption, FS_Subset, FS_CardinalityType

\* GateAccounting survives a step that leaves the holders and the tokens alone.
LEMMA GateSame ==
  ASSUME GateAccounting, Holders' = Holders, inflight' = inflight
  PROVE  GateAccounting'
  BY DEF GateAccounting

\* It survives a Release for a task that stops being a holder.
LEMMA GateReleased ==
  ASSUME GateAccounting, NEW t \in Holders, Holders' = Holders \ {t}, inflight' = Released
  PROVE  GateAccounting'
<1>1. Cardinality(Holders \ {t}) = Cardinality(Holders) - 1
  BY HoldersFinite, FS_RemoveElement
<1>2. Cardinality(Holders) # 0
  BY HoldersFinite, FS_EmptySet
<1> QED BY <1>1, <1>2, HoldersFinite DEF GateAccounting, Released

\* Submit takes a slot with the task and gives it back on its error paths.
LEMMA GateSubmit ==
  ASSUME TypeOK, GateAccounting, NEW t \in Tasks, RowOwnership(t), Arrive(t) \/ SubmitStep(t)
  PROVE  GateAccounting'
<1> USE DEF TypeOK, Submitting, Processing, storeVars, memVars, workVars, deleteVars
<1>1. CASE Arrive(t) \/ Reject(t) \/ FailQueueFull(t) \/ Respond(t)
  <2>1. Holders' = Holders /\ inflight' = inflight
    BY <1>1 DEF Holders, Arrive, Reject, FailQueueFull, Respond
  <2> QED BY <2>1, GateSame
<1>2. CASE Acquire(t)
  <2>1. t \notin Holders /\ Holders' = Holders \union {t}
    BY <1>2 DEF Holders, Acquire, RowOwnership
  <2>2. inflight' = inflight + 1
    BY <1>2 DEF Acquire
  <2> QED BY <2>1, <2>2, HoldersFinite, FS_AddElement DEF GateAccounting
<1>3. CASE Create(t)
  <2>1. t \in Holders
    BY <1>3 DEF Holders, Create
  <2>2. CASE sub' = [sub EXCEPT ![t] = "enqueue"] /\ inflight' = inflight
    <3>1. Holders' = Holders
      BY <1>3, <2>2 DEF Holders, Create
    <3> QED BY <2>2, <3>1, GateSame
  <2>3. CASE sub' = [sub EXCEPT ![t] = "rejected"] /\ inflight' = Released
    <3>1. Holders' = Holders \ {t}
      BY <1>3, <2>3 DEF Holders, Create, RowOwnership
    <3> QED BY <2>1, <2>3, <3>1, GateReleased
  <2> QED BY <1>3, <2>2, <2>3 DEF Create
<1>4. CASE Enqueue(t)
  <2>1. CASE wk' = [wk EXCEPT ![t] = "queued"] /\ inflight' = inflight
    <3>1. Holders' = Holders
      BY <1>4, <2>1 DEF Holders, Enqueue
    <3> QED BY <2>1, <3>1, GateSame
  <2>2. CASE wk' = wk /\ sub' = [sub EXCEPT ![t] = "queuefull"] /\ inflight' = Released
    <3>1. t \in Holders /\ Holders' = Holders \ {t}
      BY <1>4, <2>2 DEF Holders, Enqueue, RowOwnership
    <3> QED BY <2>2, <3>1, GateReleased
  <2> QED BY <1>4, <2>1, <2>2 DEF Enqueue
<1> QED BY <1>1, <1>2, <1>3, <1>4 DEF SubmitStep

\* process keeps the slot until its deferred Release.
LEMMA GateWork ==
  ASSUME TypeOK, GateAccounting, NEW t \in Tasks, RowOwnership(t), WorkStep(t)
  PROVE  GateAccounting'
<1>1. \A u \in Tasks : u # t => wk'[u] = wk[u] /\ sub'[u] = sub[u]
  BY OthersSame DEF SameTask
<1>2. sub' = sub
  BY WorkMoves
<1>3. CASE Leave(t)
  <2>1. wk[t] = "leave" /\ wk'[t] = "done" /\ inflight' = Released
    BY <1>3 DEF Leave, GoTo, TypeOK
  <2>2. sub[t] \notin Submitting
    BY <2>1 DEF RowOwnership, Submitting
  <2>3. t \in Holders /\ Holders' = Holders \ {t}
    BY <1>1, <1>2, <2>1, <2>2 DEF Holders, Processing
  <2> QED BY <2>1, <2>3, GateReleased
<1>4. CASE ~Leave(t)
  <2>1. inflight' = inflight /\ wk[t] \in Processing /\ wk'[t] \in Processing
    BY <1>4, WorkMoves DEF Register, Registered, Processing, GoTo, TypeOK
  <2>2. Holders' = Holders
    BY <1>1, <1>2, <2>1 DEF Holders
  <2> QED BY <2>1, <2>2, GateSame
<1> QED BY <1>3, <1>4

\* No slot changes hands in the queue; a new process has none to give.
LEMMA GateProcess ==
  ASSUME TypeOK, QueueExact, GateAccounting,
         Dequeue \/ Stop \/ Restart \/ UNCHANGED vars
         \/ \E d \in Deletes : DeleteGet(d) \/ DeleteStep(d)
  PROVE  GateAccounting'
<1>1. CASE Dequeue
  <2>1. /\ Head(queue) \in Tasks /\ wk[Head(queue)] = "queued" /\ UNCHANGED <<sub, inflight>>
        /\ wk' = [wk EXCEPT ![Head(queue)] = "register"]
    BY <1>1, HeadWaits DEF Dequeue, GoTo
  <2>2. Holders' = Holders
    BY <2>1 DEF Holders, Processing, TypeOK
  <2> QED BY <2>1, <2>2, GateSame
<1>2. CASE Stop \/ UNCHANGED vars
  BY <1>2, GateSame DEF Stop, vars, memVars, workVars, Holders
<1>3. CASE Restart
  <2>1. Holders' = {} /\ inflight' = 0
    BY <1>3 DEF Restart, Holders, Submitting, Processing, SubmitEnded, TypeOK
  <2> QED BY <2>1, FS_EmptySet DEF GateAccounting
<1>4. CASE \E d \in Deletes : DeleteGet(d) \/ DeleteStep(d)
  BY <1>4, DeleteFrame, GateSame DEF Holders
<1> QED BY <1>1, <1>2, <1>3, <1>4

\* QueueExact is about queue and wk only.
LEMMA QueueSame ==
  ASSUME QueueExact, queue' = queue,
         \A t \in Tasks : wk'[t] = "queued" <=> wk[t] = "queued"
  PROVE  QueueExact'
  BY DEF QueueExact

\* Enqueue and Dequeue keep each waiting task in the queue once.
LEMMA QueueNext ==
  ASSUME TypeOK, QueueExact, \A t \in Tasks : RowOwnership(t), [Next]_vars
  PROVE  QueueExact'
<1>0. queue \in Seq(Tasks) /\ Len(queue) \in Nat
  BY LenProperties DEF TypeOK
<1>1. ASSUME NEW t \in Tasks, Enqueue(t)
      PROVE  QueueExact'
  <2>1. wk[t] = "none"
    BY <1>1 DEF Enqueue, RowOwnership
  <2>2. CASE UNCHANGED <<queue, wk>>
    BY <2>2, QueueSame
  <2>3. CASE queue' = Append(queue, t) /\ wk' = [wk EXCEPT ![t] = "queued"]
    <3>1. /\ Len(queue') = Len(queue) + 1 /\ queue'[Len(queue) + 1] = t
          /\ \A i \in 1 .. Len(queue) : queue'[i] = queue[i]
      BY <1>0, <2>3, AppendProperties
    <3>2. \A u \in Tasks : wk'[u] = IF u = t THEN "queued" ELSE wk[u]
      BY <2>3 DEF TypeOK
    <3>3. \A i \in 1 .. Len(queue) : queue[i] # t /\ queue[i] \in Tasks
      BY <1>0, <2>1, ElementOfSeq DEF QueueExact
    <3> HIDE <2>3
    <3>4. \A u \in Tasks : wk'[u] = "queued" <=> \E i \in 1 .. Len(queue') : queue'[i] = u
      BY <1>0, <3>1, <3>2, <3>3 DEF QueueExact
    <3>5. \A i, j \in 1 .. Len(queue') : queue'[i] = queue'[j] => i = j
      BY <1>0, <3>1, <3>3 DEF QueueExact
    <3> QED BY <3>4, <3>5 DEF QueueExact
  <2> QED BY <1>1, <2>2, <2>3 DEF Enqueue
<1>2. CASE Dequeue
  <2> DEFINE h == Head(queue)
  <2>1. h \in Tasks /\ wk[h] = "queued" /\ h = queue[1] /\ Len(queue) > 0
    BY <1>0, <1>2, HeadWaits, EmptySeq DEF Dequeue
  <2>2. /\ queue' = Tail(queue) /\ Len(queue') = Len(queue) - 1
        /\ \A i \in 1 .. Len(queue') : queue'[i] = queue[i + 1]
    BY <1>0, <1>2, HeadTailProperties DEF Dequeue
  <2>3. \A u \in Tasks : wk'[u] = IF u = h THEN "register" ELSE wk[u]
    BY <1>2, <2>1 DEF Dequeue, GoTo, TypeOK
  <2> HIDE DEF h
  <2>4. \A u \in Tasks : wk'[u] = "queued" <=> \E i \in 1 .. Len(queue') : queue'[i] = u
    <3>1. ASSUME NEW u \in Tasks, wk'[u] = "queued"
          PROVE  \E i \in 1 .. Len(queue') : queue'[i] = u
      <4>1. PICK i \in 1 .. Len(queue) : queue[i] = u
        BY <2>3, <3>1 DEF QueueExact
      <4>2. i # 1
        BY <2>1, <2>3, <3>1, <4>1
      <4> QED BY <1>0, <2>2, <4>1, <4>2
    <3>2. ASSUME NEW u \in Tasks, NEW i \in 1 .. Len(queue'), queue'[i] = u
          PROVE  wk'[u] = "queued"
      <4>1. i + 1 \in 1 .. Len(queue) /\ queue[i + 1] = u /\ 1 \in 1 .. Len(queue) /\ i + 1 # 1
        BY <1>0, <2>1, <2>2, <3>2
      <4>2. u # h /\ wk[u] = "queued"
        BY <2>1, <4>1 DEF QueueExact
      <4> QED BY <2>3, <4>2
    <3> QED BY <3>1, <3>2
  <2>5. \A i, j \in 1 .. Len(queue') : queue'[i] = queue'[j] => i = j
    BY <1>0, <2>2 DEF QueueExact
  <2> QED BY <2>4, <2>5 DEF QueueExact
<1>3. CASE Restart
  <2>1. queue' = <<>> /\ Len(queue') = 0
    BY <1>3, EmptySeq DEF Restart
  <2>2. \A u \in Tasks : wk'[u] # "queued"
    BY <1>3 DEF Restart, TypeOK
  <2> QED BY <2>1, <2>2 DEF QueueExact
<1>4. ASSUME NEW t \in Tasks, WorkStep(t)
      PROVE  QueueExact'
  <2>1. wk[t] # "queued" /\ wk'[t] # "queued" /\ queue' = queue
    BY <1>4, WorkMoves DEF Registered, Processing, Register, Leave, GoTo, TypeOK
  <2>2. \A u \in Tasks : u # t => wk'[u] = wk[u]
    BY <1>4, OthersSame DEF SameTask
  <2> QED BY <2>1, <2>2, QueueSame
<1>5. ASSUME NEW t \in Tasks,
             Arrive(t) \/ Acquire(t) \/ Reject(t) \/ Create(t) \/ FailQueueFull(t) \/ Respond(t)
      PROVE  QueueExact'
  BY <1>5, QueueSame DEF Arrive, Acquire, Reject, Create, FailQueueFull, Respond, memVars, workVars
<1>6. ASSUME NEW d \in Deletes, DeleteGet(d) \/ DeleteStep(d)
      PROVE  QueueExact'
  BY <1>6, DeleteFrame, QueueSame
<1>7. CASE Stop \/ UNCHANGED vars
  BY <1>7, QueueSame DEF Stop, vars, memVars, workVars
<1> QED BY <1>1, <1>2, <1>3, <1>4, <1>5, <1>6, <1>7 DEF Next, SubmitStep

-----------------------------------------------------------------------------
(* The registry, and what DELETE and worker know of each other.            *)

\* register and unregister keep Executor.cancels exact, and a signal ends with it.
LEMMA RegistryNext ==
  ASSUME TypeOK, RegistryExact, QueueExact, \A t \in Tasks : RowOwnership(t), [Next]_vars
  PROVE  RegistryExact'
<1> USE DEF RegistryExact, Registered
<1>1. ASSUME NEW t \in Tasks, WorkStep(t)
      PROVE  RegistryExact'
  <2>1. \A u \in Tasks : u # t => wk'[u] = wk[u]
    BY <1>1, OthersSame DEF SameTask
  <2>2. CASE Register(t)
    <3>1. /\ cancels' = cancels \union {t} /\ signalled' = signalled
          /\ wk'[t] \in Processing \ {"register"}
      BY <2>2 DEF Register, GoTo, TypeOK, Processing
    <3> QED BY <2>1, <3>1
  <2>3. CASE Leave(t)
    <3>1. /\ cancels' = cancels \ {t} /\ signalled' = signalled \ {t}
          /\ wk'[t] \notin Processing
      BY <2>3 DEF Leave, GoTo, TypeOK, Processing
    <3> QED BY <2>1, <3>1
  <2>4. CASE /\ wk[t] \in Registered /\ wk'[t] \in Registered
             /\ UNCHANGED <<cancels, signalled, inflight>>
    BY <2>1, <2>4
  <2> QED BY <1>1, <2>2, <2>3, <2>4, WorkMoves
<1>2. ASSUME NEW t \in Tasks, Arrive(t) \/ SubmitStep(t)
      PROVE  RegistryExact'
  <2>1. /\ \A u \in Tasks : u # t => wk'[u] = wk[u]
        /\ UNCHANGED <<cancels, signalled>>
    BY <1>2, OthersSame DEF SameTask, Arrive, SubmitStep, Acquire, Reject, Create, Enqueue,
       FailQueueFull, Respond, memVars
  <2>2. wk'[t] = wk[t] \/ (wk[t] = "none" /\ wk'[t] = "queued")
    BY <1>2 DEF Arrive, SubmitStep, Acquire, Reject, Create, Enqueue, FailQueueFull, Respond,
       workVars, RowOwnership, TypeOK
  <2> QED BY <2>1, <2>2 DEF Processing
<1>3. CASE Dequeue
  <2>1. /\ Head(queue) \in Tasks /\ wk[Head(queue)] = "queued"
        /\ wk' = [wk EXCEPT ![Head(queue)] = "register"] /\ UNCHANGED <<cancels, signalled>>
    BY <1>3, HeadWaits DEF Dequeue, GoTo
  <2> QED BY <2>1 DEF Processing, TypeOK
<1>4. ASSUME NEW d \in Deletes, DeleteGet(d) \/ DeleteStep(d)
      PROVE  RegistryExact'
  <2>1. UNCHANGED <<cancels, wk>>
    BY <1>4, DeleteFrame
  <2>2. signalled' = signalled \/ signalled' = signalled \union ({target[d]} \intersect cancels)
    BY <1>4 DEF DeleteGet, DeleteStep, DeleteCAS, DeleteReread, DeleteSignal, DeleteList,
       DeletePurge, memVars
  <2> QED BY <2>1, <2>2
<1>5. CASE Stop \/ UNCHANGED vars
  BY <1>5 DEF Stop, vars, memVars, workVars
<1>6. CASE Restart
  BY <1>6 DEF Restart, TypeOK, Processing
<1> QED BY <1>1, <1>2, <1>3, <1>4, <1>5, <1>6 DEF Next

\* A DELETE names an accepted task, and an accepted task stays so.
LEMMA AcceptedNext ==
  ASSUME TypeOK, DeletesAccepted, [Next]_vars
  PROVE  DeletesAccepted'
<1>1. \A t \in Tasks : sub[t] = "accepted" => sub'[t] = "accepted"
  <2>1. ASSUME NEW t \in Tasks, Arrive(t) \/ SubmitStep(t)
        PROVE  \A u \in Tasks : sub[u] = "accepted" => sub'[u] = "accepted"
    BY <2>1 DEF TypeOK, Arrive, SubmitStep, Acquire, Reject, Create, Enqueue, FailQueueFull, Respond
  <2>2. ASSUME NEW t \in Tasks, WorkStep(t)
        PROVE  sub' = sub
    BY <2>2, WorkMoves
  <2>3. ASSUME NEW d \in Deletes, DeleteGet(d) \/ DeleteStep(d)
        PROVE  sub' = sub
    BY <2>3, DeleteFrame
  <2>4. CASE Dequeue \/ Stop \/ UNCHANGED vars
    BY <2>4 DEF Dequeue, Stop, vars
  <2>5. CASE Restart
    BY <2>5 DEF Restart, TypeOK, SubmitEnded
  <2> QED BY <2>1, <2>2, <2>3, <2>4, <2>5 DEF Next
<1> DEFINE Begun(d) == del'[d] # "idle" => del[d] # "idle" \/ sub[target[d]] = "accepted"
<1>2. target' = target /\ \A d \in Deletes : Begun(d)
  <2>1. ASSUME NEW t \in Tasks, Arrive(t) \/ SubmitStep(t) \/ WorkStep(t)
        PROVE  UNCHANGED <<del, target>>
    BY <2>1, WorkMoves DEF Arrive, SubmitStep, Acquire, Reject, Create, Enqueue, FailQueueFull,
       Respond, deleteVars
  <2>2. ASSUME NEW d \in Deletes, DeleteGet(d)
        PROVE  \A e \in Deletes : Begun(e)
    <3>1. sub[target[d]] = "accepted" /\ del \in [Deletes -> DeletePC]
      BY <2>2 DEF DeleteGet, TypeOK
    <3>2. \E pc \in DeletePC : del' = [del EXCEPT ![d] = pc]
      BY <2>2 DEF DeleteGet, Answer, DeletePC
    <3> HIDE DEF TypeOK
    <3> QED BY <3>1, <3>2
  <2>3. ASSUME NEW d \in Deletes, DeleteStep(d)
        PROVE  \A e \in Deletes : del'[e] # "idle" => del[e] # "idle"
    BY <2>3 DEF DeleteStep, DeleteCAS, DeleteReread, DeleteSignal, DeleteList, DeletePurge,
       Answer, TypeOK
  <2>4. CASE Dequeue \/ Stop \/ UNCHANGED vars
    BY <2>4 DEF Dequeue, Stop, vars, deleteVars
  <2>5. CASE Restart
    BY <2>5 DEF Restart, TypeOK, DeleteEnded
  <2> QED BY <2>1, <2>2, <2>3, <2>4, <2>5, DeleteFrame DEF Next
<1> QED BY <1>1, <1>2 DEF DeletesAccepted, TypeOK


\* Until the worker has read the row of a switched task, the row stays cancelled.
LEMMA SwitchedNext ==
  ASSUME TypeOK, SwitchedSeen, RegistryExact, DeletesAccepted, QueueExact,
         \A t \in Tasks : RowOwnership(t), [Next]_vars
  PROVE  SwitchedSeen'
<1> DEFINE Unread == {"queued", "register", "get"}
<1> DEFINE Goal ==
        /\ \A d \in Deletes : Switched(d)' /\ wk'[target[d]] \in Unread
                                => status'[target[d]] = "cancelled"
        /\ \A t \in signalled' : wk'[t] = "get" => status'[t] = "cancelled"
        /\ target' = target
<1>1. SUFFICES Goal
  BY DEF SwitchedSeen
<1> USE DEF Switched
<1>2. ASSUME NEW t \in Tasks, Arrive(t) \/ SubmitStep(t)
      PROVE  Goal
  <2>1. /\ \A u \in Tasks : u # t => SameTask(u)
        /\ UNCHANGED <<del, target, signalled, cancels>>
    BY <1>2, OthersSame DEF Arrive, SubmitStep, Acquire, Reject, Create, Enqueue, FailQueueFull,
       Respond, deleteVars, memVars
  <2>2. \A d \in Deletes : Switched(d) /\ target[d] = t => status'[t] = status[t] /\ wk'[t] = wk[t]
    <3>1. ASSUME NEW d \in Deletes, Switched(d), target[d] = t PROVE sub[t] = "accepted"
      BY <3>1 DEF DeletesAccepted
    <3> QED BY <1>2, <3>1 DEF Arrive, SubmitStep, Acquire, Reject, Create, Enqueue,
            FailQueueFull, Respond
  <2>3. t \notin signalled \/ wk[t] # "get" \/ status'[t] = status[t]
    BY <1>2 DEF Arrive, SubmitStep, Acquire, Reject, Create, Enqueue, FailQueueFull, Respond,
       RowOwnership, storeVars
  <2>4. wk'[t] = "get" => wk[t] = "get"
    BY <1>2 DEF Arrive, SubmitStep, Acquire, Reject, Create, Enqueue, FailQueueFull, Respond,
       TypeOK, workVars
  <2>5. \A d \in Deletes : Switched(d)' = Switched(d) /\ target'[d] = target[d] /\ target[d] \in Tasks
    BY <2>1 DEF TypeOK
  <2>6. ASSUME NEW d \in Deletes, Switched(d), wk'[target[d]] \in Unread
        PROVE  status'[target[d]] = "cancelled"
    BY <2>1, <2>2, <2>5, <2>6 DEF SwitchedSeen, SameTask
  <2>7. ASSUME NEW u \in signalled, wk'[u] = "get"
        PROVE  status'[u] = "cancelled"
    BY <2>1, <2>3, <2>4, <2>7 DEF SwitchedSeen, SameTask, TypeOK
  <2> QED BY <2>1, <2>5, <2>6, <2>7
<1>3. ASSUME NEW t \in Tasks, WorkStep(t)
      PROVE  Goal
  <2>1. /\ \A u \in Tasks : u # t => SameTask(u)
        /\ UNCHANGED <<del, target>> /\ signalled' \subseteq signalled
    BY <1>3, OthersSame, WorkMoves DEF Register, Leave
  <2>2. CASE Register(t)
    <3>1. wk[t] = "register" /\ UNCHANGED <<status, signalled>> /\ t \notin signalled
      BY <2>2 DEF Register, storeVars, RegistryExact
    <3> QED BY <2>1, <3>1 DEF SwitchedSeen, SameTask, TypeOK
  <2>3. CASE ~Register(t)
    <3>1. wk'[t] \notin Unread
      BY <1>3, <2>3 DEF WorkStep, Get, MarkRunning, MarkFailed, Read, Upload, AppendPart, Settle,
         Finalize, Leave, GoTo, RunContinues, RunReturns, TypeOK
    <3> QED BY <2>1, <3>1 DEF SwitchedSeen, SameTask, TypeOK
  <2> QED BY <2>2, <2>3
<1>4. CASE Dequeue
  <2>1. /\ Head(queue) \in Tasks /\ wk[Head(queue)] = "queued"
        /\ wk' = [wk EXCEPT ![Head(queue)] = "register"]
        /\ UNCHANGED <<status, signalled, del, target>>
    BY <1>4, HeadWaits DEF Dequeue, GoTo, storeVars, deleteVars
  <2> QED BY <2>1 DEF SwitchedSeen, TypeOK
<1>5. ASSUME NEW d \in Deletes, DeleteGet(d) \/ DeleteStep(d)
      PROVE  Goal
  <2>1. UNCHANGED <<wk, target, cancels>>
    BY <1>5, DeleteFrame
  <2>2. \A t \in Tasks : status[t] = "cancelled" => status'[t] = "cancelled"
    BY <1>5, DeleteFrame DEF TypeOK
  <2>3. \A e \in Deletes : Switched(e)' => Switched(e) \/ status'[target[e]] = "cancelled"
    <3>1. CASE DeleteCAS(d)
      BY <3>1 DEF DeleteCAS, Applied, Cancellable, TypeOK
    <3>2. CASE ~DeleteCAS(d)
      BY <1>5, <3>2 DEF DeleteStep, DeleteGet, DeleteReread, DeleteSignal, DeleteList,
         DeletePurge, Answer, TypeOK
    <3> QED BY <3>1, <3>2
  <2>4. \A t \in signalled' : t \in signalled \/ (del[d] = "signal" /\ t = target[d])
    BY <1>5 DEF DeleteGet, DeleteStep, DeleteCAS, DeleteReread, DeleteSignal, DeleteList,
       DeletePurge, memVars
  <2> QED BY <2>1, <2>2, <2>3, <2>4 DEF SwitchedSeen, TypeOK, RegistryExact
<1>6. CASE Stop \/ UNCHANGED vars
  BY <1>6 DEF Stop, vars, storeVars, memVars, workVars, deleteVars, SwitchedSeen
<1>7. CASE Restart
  BY <1>7 DEF Restart, TypeOK
<1> QED BY <1>2, <1>3, <1>4, <1>5, <1>6, <1>7 DEF Next

\* A worker that has read the row of a signalled task can feel the signal.
LEMMA NotLostNext ==
  ASSUME TypeOK, CancelNotLost, SwitchedSeen, RegistryExact, DeletesAccepted, QueueExact,
         \A t \in Tasks : RowOwnership(t), [Next]_vars
  PROVE  CancelNotLost'
<1> DEFINE Goal ==
        /\ \A d \in Deletes : Signalled(d)' /\ wk'[target[d]] \in Executing
                                => target[d] \in signalled'
        /\ target' = target
<1>1. SUFFICES Goal
  BY DEF CancelNotLost
<1> USE DEF Signalled, Switched, Executing, Processing
<1>2. ASSUME NEW t \in Tasks, Arrive(t) \/ SubmitStep(t)
      PROVE  Goal
  <2>1. UNCHANGED <<del, target, signalled>>
    BY <1>2 DEF Arrive, SubmitStep, Acquire, Reject, Create, Enqueue, FailQueueFull, Respond,
       deleteVars, memVars
  <2>2. \A u \in Tasks : wk'[u] \in Executing => wk[u] \in Executing
    BY <1>2 DEF Arrive, SubmitStep, Acquire, Reject, Create, Enqueue, FailQueueFull, Respond,
       workVars, TypeOK
  <2> QED BY <2>1, <2>2 DEF CancelNotLost, TypeOK
<1>3. ASSUME NEW t \in Tasks, WorkStep(t)
      PROVE  Goal
  <2>1. UNCHANGED <<del, target>> /\ \A u \in Tasks : u # t => wk'[u] = wk[u]
    BY <1>3, OthersSame, WorkMoves DEF SameTask
  <2>2. CASE Leave(t)
    <3>1. wk'[t] = "done" /\ signalled' = signalled \ {t}
      BY <2>2 DEF Leave, GoTo, TypeOK
    <3> QED BY <2>1, <3>1 DEF CancelNotLost, TypeOK
  <2>3. CASE ~Leave(t)
    <3>1. signalled' = signalled
      BY <1>3, <2>3, WorkMoves DEF Register
    <3>2. CASE wk[t] \in Executing
      BY <2>1, <3>1, <3>2 DEF CancelNotLost, TypeOK
    <3>3. CASE Get(t)
      <4>1. wk[t] = "get" /\ (wk'[t] \in Executing => status[t] # "cancelled")
        BY <3>3 DEF Get, GoTo, TypeOK
      <4>2. ASSUME NEW d \in Deletes, Signalled(d), target[d] = t
            PROVE  wk'[t] \notin Executing
        BY <4>1, <4>2 DEF SwitchedSeen
      <4>3. ASSUME NEW d \in Deletes, Signalled(d), target[d] # t, wk'[target[d]] \in Executing
            PROVE  target[d] \in signalled'
        BY <2>1, <3>1, <4>3 DEF CancelNotLost, TypeOK
      <4>4. \A d \in Deletes : Signalled(d)' => Signalled(d)
        BY <2>1
      <4> HIDE DEF Signalled, Executing
      <4> QED BY <2>1, <4>2, <4>3, <4>4
    <3>4. CASE Register(t)
      <4>1. wk'[t] \notin Executing
        BY <3>4 DEF Register, GoTo, TypeOK
      <4> QED BY <2>1, <3>1, <4>1 DEF CancelNotLost, TypeOK
    <3> QED BY <1>3, <2>3, <3>2, <3>3, <3>4 DEF WorkStep, MarkRunning, MarkFailed, Read, Upload,
            AppendPart, Settle, Finalize
  <2> QED BY <2>2, <2>3
<1>4. CASE Dequeue
  <2>1. /\ Head(queue) \in Tasks /\ wk' = [wk EXCEPT ![Head(queue)] = "register"]
        /\ UNCHANGED <<signalled, del, target>>
    BY <1>4, HeadWaits DEF Dequeue, GoTo, deleteVars
  <2> QED BY <2>1 DEF CancelNotLost, TypeOK
<1>5. ASSUME NEW d \in Deletes, DeleteGet(d) \/ DeleteStep(d)
      PROVE  Goal
  <2>1. UNCHANGED <<wk, target, cancels>>
    BY <1>5, DeleteFrame
  <2>2. signalled \subseteq signalled'
    BY <1>5 DEF DeleteGet, DeleteStep, DeleteCAS, DeleteReread, DeleteSignal, DeleteList,
       DeletePurge, memVars
  <2>3. \A e \in Deletes : Signalled(e)' => Signalled(e) \/ (e = d /\ DeleteSignal(d))
    <3>1. CASE DeleteSignal(d)
      BY <3>1 DEF DeleteSignal, TypeOK
    <3>2. CASE ~DeleteSignal(d)
      BY <1>5, <3>2 DEF DeleteStep, DeleteGet, DeleteCAS, DeleteReread, DeleteList, DeletePurge,
         Answer, TypeOK
    <3> QED BY <3>1, <3>2
  <2>4. DeleteSignal(d) /\ wk[target[d]] \in Executing => target[d] \in signalled'
    BY DEF DeleteSignal, RegistryExact, TypeOK
  <2> QED BY <2>1, <2>2, <2>3, <2>4 DEF CancelNotLost
<1>6. CASE Stop \/ UNCHANGED vars
  BY <1>6 DEF Stop, vars, memVars, workVars, deleteVars, CancelNotLost
<1>7. CASE Restart
  BY <1>7 DEF Restart, TypeOK
<1> QED BY <1>2, <1>3, <1>4, <1>5, <1>6, <1>7 DEF Next

\* A task stays unpurged only if it was.
LEMMA UnpurgedBefore ==
  ASSUME TypeOK, [Next]_vars, NEW t \in Tasks, Unpurged(t)'
  PROVE  Unpurged(t)
<1> DEFINE Purging == {"list", "purge", "switched", "lost"}
<1>1. target' = target /\ \A d \in Deletes : del[d] \in Purging => del'[d] \in Purging
  <2>1. ASSUME NEW u \in Tasks, Arrive(u) \/ SubmitStep(u) \/ WorkStep(u)
        PROVE  UNCHANGED <<del, target>>
    BY <2>1, WorkMoves DEF Arrive, SubmitStep, Acquire, Reject, Create, Enqueue, FailQueueFull,
       Respond, deleteVars
  <2>2. ASSUME NEW d \in Deletes, DeleteGet(d) \/ DeleteStep(d)
        PROVE  \A e \in Deletes : del[e] \in Purging => del'[e] \in Purging
    BY <2>2 DEF DeleteGet, DeleteStep, DeleteCAS, DeleteReread, DeleteSignal, DeleteList,
       DeletePurge, Answer, TypeOK
  <2>3. CASE Dequeue \/ Stop \/ UNCHANGED vars
    BY <2>3 DEF Dequeue, Stop, vars, deleteVars
  <2>4. CASE Restart
    BY <2>4 DEF Restart, TypeOK, DeleteEnded
  <2> QED BY <2>1, <2>2, <2>3, <2>4, DeleteFrame DEF Next
<1> QED BY <1>1 DEF Unpurged

\* An object named by an uploaded or recorded part stays until a DELETE lists it.
LEMMA UploadedNext ==
  ASSUME TypeOK, UploadedKept, \A t \in Tasks : WorkerData(t), [Next]_vars
  PROVE  UploadedKept'
<1> DEFINE Kept(u) == parts[u] \subseteq objects[u] /\ 0 .. flushed[u] - 1 \subseteq objects[u]
<1>0. SUFFICES ASSUME NEW u \in Tasks, Unpurged(u)', Kept(u) PROVE Kept(u)'
  BY UnpurgedBefore DEF UploadedKept
<1>1. ASSUME NEW t \in Tasks, Arrive(t) \/ SubmitStep(t)
      PROVE  Kept(u)'
  BY <1>0, <1>1 DEF Arrive, SubmitStep, Acquire, Reject, Create, Enqueue, FailQueueFull, Respond,
     storeVars, workVars
<1>2. ASSUME NEW t \in Tasks, WorkStep(t)
      PROVE  Kept(u)'
  <2>1. CASE Upload(t)
    <3>1. \/ UNCHANGED <<parts, objects, flushed>>
          \/ UNCHANGED <<parts, flushed>> /\ objects' = [objects EXCEPT ![t] = @ \union {flushed[t]}]
          \/ /\ UNCHANGED parts
             /\ objects' = [objects EXCEPT ![t] = @ \union {flushed[t]}]
             /\ flushed' = [flushed EXCEPT ![t] = @ + 1]
      BY <2>1 DEF Upload, Applied
    <3>2. flushed[u] \in Nat /\ flushed[t] \in Nat
      BY DEF TypeOK
    <3>3. parts'[u] = parts[u] /\ objects[u] \subseteq objects'[u]
      <4>1. parts' = parts
        BY <3>1
      <4>2. CASE UNCHANGED objects
        BY <4>1, <4>2
      <4>3. CASE objects' = [objects EXCEPT ![t] = @ \union {flushed[t]}]
        BY <4>1, <4>3 DEF TypeOK
      <4> QED BY <3>1, <4>2, <4>3
    <3>4. \/ flushed'[u] = flushed[u]
          \/ u = t /\ flushed'[u] = flushed[u] + 1 /\ flushed[u] \in objects'[u]
      <4>1. CASE UNCHANGED flushed
        BY <4>1
      <4>2. CASE /\ objects' = [objects EXCEPT ![t] = @ \union {flushed[t]}]
                 /\ flushed' = [flushed EXCEPT ![t] = @ + 1]
        BY <4>2 DEF TypeOK
      <4> QED BY <3>1, <4>1, <4>2
    <3>5. flushed'[u] = flushed[u] + 1 => 0 .. flushed'[u] - 1 = (0 .. flushed[u] - 1) \union {flushed[u]}
      BY <3>2
    <3> QED BY <1>0, <3>3, <3>4, <3>5
  <2>2. CASE AppendPart(t)
    <3>1. appended[t] \in 0 .. flushed[t] - 1
      BY <2>2 DEF AppendPart, WorkerData, TypeOK
    <3>2. /\ UNCHANGED <<objects, flushed>>
          /\ parts' = parts \/ parts' = [parts EXCEPT ![t] = @ \union {appended[t]}]
      BY <2>2 DEF AppendPart
    <3>3. parts'[u] = parts[u] \/ (u = t /\ parts'[u] = parts[u] \union {appended[u]})
      BY <3>2 DEF TypeOK
    <3> QED BY <1>0, <3>1, <3>2, <3>3
  <2>3. CASE Leave(t)
    BY <1>0, <2>3 DEF Leave, storeVars, TypeOK
  <2>4. CASE ~Upload(t) /\ ~AppendPart(t) /\ ~Leave(t)
    BY <1>0, <1>2, <2>4 DEF WorkStep, Register, Get, MarkRunning, MarkFailed, Read, Settle,
       Finalize, storeVars
  <2> QED BY <2>1, <2>2, <2>3, <2>4
<1>3. ASSUME NEW d \in Deletes, DeleteGet(d) \/ DeleteStep(d)
      PROVE  Kept(u)'
  <2>1. UNCHANGED <<parts, flushed, target>>
    BY <1>3, DeleteFrame
  <2>2. objects'[u] = objects[u]
    <3>1. CASE DeletePurge(d)
      <4>1. target[d] # u
        BY <1>0, <2>1, <3>1 DEF DeletePurge, Answer, Unpurged, TypeOK
      <4> QED BY <3>1, <4>1 DEF DeletePurge, TypeOK
    <3>2. CASE ~DeletePurge(d)
      BY <1>3, <3>2 DEF DeleteStep, DeleteGet, DeleteCAS, DeleteReread, DeleteSignal, DeleteList,
         storeVars
    <3> QED BY <3>1, <3>2
  <2> QED BY <1>0, <2>1, <2>2
<1>4. CASE Dequeue \/ Stop \/ UNCHANGED vars
  BY <1>0, <1>4 DEF Dequeue, Stop, vars, storeVars, workVars
<1>5. CASE Restart
  BY <1>0, <1>5 DEF Restart, storeVars, TypeOK
<1> QED BY <1>1, <1>2, <1>3, <1>4, <1>5 DEF Next

-----------------------------------------------------------------------------
(* The invariant.                                                          *)

\* Every step keeps the types.
LEMMA TypeNext ==
  ASSUME TypeOK, \A t \in Tasks : WorkerData(t), [Next]_vars
  PROVE  TypeOK'
  BY TypeSubmit, TypeWork, TypeDelete, TypeProcess DEF Next

\* Every step keeps what is said about each task.
LEMMA TaskNext ==
  ASSUME TypeOK, DeletesAccepted, QueueExact, \A u \in Tasks : TaskInv(u), [Next]_vars,
         NEW t \in Tasks
  PROVE  TaskInv(t)'
<1>1. ASSUME NEW u \in Tasks, Arrive(u) \/ SubmitStep(u)
      PROVE  TaskInv(t)'
  BY <1>1, TaskSubmit, OthersSame, TaskSame
<1>2. ASSUME NEW u \in Tasks, WorkStep(u)
      PROVE  TaskInv(t)'
  BY <1>2, TaskWork, OthersSame, TaskSame
<1> QED BY <1>1, <1>2, TaskDelete, TaskDequeue, TaskProcess DEF Next

\* Every step keeps the gate exact.
LEMMA GateNext ==
  ASSUME TypeOK, QueueExact, GateAccounting, \A t \in Tasks : RowOwnership(t), [Next]_vars
  PROVE  GateAccounting'
  BY GateSubmit, GateWork, GateProcess DEF Next

\* The parts of the invariant, with what is said per task in one place.
LEMMA IInvParts ==
  IInv <=> /\ TypeOK /\ \A t \in Tasks : TaskInv(t)
           /\ DeletesAccepted /\ RegistryExact /\ QueueExact /\ GateAccounting
           /\ SwitchedSeen /\ CancelNotLost /\ UploadedKept
  BY DEF IInv, TaskInv, DeliverableComplete

\* The inductive invariant holds when the process starts for the first time.
LEMMA IInvInit == Init => IInv
<1> SUFFICES ASSUME Init PROVE IInv
  OBVIOUS
<1>1. TypeOK
  BY TypeInit
<1>2. \A t \in Tasks : TaskInv(t)
  BY DEF Init, TaskInv, WorkerData, RowOwnership, BeforeRun, AfterRun
<1>3. DeletesAccepted /\ RegistryExact /\ SwitchedSeen /\ CancelNotLost
  BY DEF Init, DeletesAccepted, RegistryExact, SwitchedSeen, Switched, CancelNotLost, Signalled,
     Processing
<1>4. QueueExact
  BY EmptySeq DEF Init, QueueExact
<1>5. GateAccounting
  <2>1. Holders = {}
    BY DEF Init, Holders, Submitting, Processing
  <2> QED BY <2>1, FS_EmptySet DEF Init, GateAccounting
<1>6. UploadedKept
  BY DEF Init, UploadedKept
<1> QED BY <1>1, <1>2, <1>3, <1>4, <1>5, <1>6, IInvParts

\* Every step keeps the inductive invariant.
LEMMA IInvNext == IInv /\ [Next]_vars => IInv'
<1> SUFFICES ASSUME IInv, [Next]_vars PROVE IInv'
  OBVIOUS
<1>1. /\ TypeOK /\ \A t \in Tasks : TaskInv(t)
      /\ DeletesAccepted /\ RegistryExact /\ QueueExact /\ GateAccounting
      /\ SwitchedSeen /\ CancelNotLost /\ UploadedKept
  BY IInvParts
<1>2. \A t \in Tasks : WorkerData(t) /\ RowOwnership(t)
  BY <1>1 DEF TaskInv
<1>3. TypeOK' /\ DeletesAccepted' /\ RegistryExact' /\ QueueExact' /\ GateAccounting'
  BY <1>1, <1>2, TypeNext, AcceptedNext, RegistryNext, QueueNext, GateNext
<1>4. \A t \in Tasks : TaskInv(t)'
  BY <1>1, TaskNext
<1>5. SwitchedSeen' /\ CancelNotLost' /\ UploadedKept'
  BY <1>1, <1>2, SwitchedNext, NotLostNext, UploadedNext
<1> QED BY <1>3, <1>4, <1>5 DEF IInv, TaskInv, DeliverableComplete

\* Every reachable state satisfies the inductive invariant.
THEOREM Invariance == Spec => []IInv
<1> QED BY IInvInit, IInvNext, PTL DEF Spec

\* Every variable has its type; the gate never holds more than InflightMax tokens.
THEOREM TypeCorrect == Spec => []TypeOK
  BY Invariance, PTL DEF IInv

\* The gate counts exactly the tasks in the system: no path through Submit, process or
\* a restart loses a slot or gives one back twice.
THEOREM GateExact == Spec => []GateAccounting
  BY Invariance, PTL DEF IInv

\* A row that GET shows as completed or partial has all its part rows.
THEOREM DeliverableIsComplete == Spec => []DeliverableComplete
  BY Invariance, PTL DEF IInv

\* Once CancelTask has returned, the worker of a switched task has a cancelled context.
THEOREM NoCancelLost == Spec => []CancelNotLost
  BY Invariance, PTL DEF IInv

\* Part rows name uploaded objects, until a DELETE that switched the row lists them.
THEOREM ObjectsKept == Spec => []PartsKeptUnlessSwitched
<1>1. IInv => PartsKeptUnlessSwitched
  BY DEF IInv, UploadedKept, Unpurged, PartsKeptUnlessSwitched
<1> QED BY <1>1, Invariance, PTL

-----------------------------------------------------------------------------
(* The queue is never full.                                                *)

\* Distinct waiting tasks leave a holder that does not wait outside of the queue.
LEMMA QueueRoom ==
  ASSUME IInv, NEW t \in Tasks, sub[t] = "enqueue"
  PROVE  Len(queue) < inflight
<1>1. queue \in Seq(Tasks) /\ Len(queue) \in Nat
  BY LenProperties DEF IInv, TypeOK
<1> DEFINE Others == Holders \ {t}
           f == [i \in 1 .. Len(queue) |-> queue[i]]
<1>2. t \in Holders /\ wk[t] = "none"
  BY DEF IInv, RowOwnership, Holders, Submitting
<1>3. IsFiniteSet(Others) /\ Cardinality(Others) = Cardinality(Holders) - 1
  BY <1>2, HoldersFinite, FS_RemoveElement
<1>4. \A i \in 1 .. Len(queue) : queue[i] \in Others
  <2>1. \A i \in 1 .. Len(queue) : queue[i] \in Tasks /\ wk[queue[i]] = "queued"
    BY <1>1, ElementOfSeq DEF IInv, QueueExact
  <2> QED BY <1>2, <2>1 DEF Holders
<1>5. f \in Injection(1 .. Len(queue), Others)
  <2>1. f \in [1 .. Len(queue) -> Others]
    BY <1>4
  <2>2. \A i, j \in 1 .. Len(queue) : f[i] = f[j] => i = j
    BY DEF IInv, QueueExact
  <2> QED BY <2>1, <2>2, Fun_IsInj
<1>6. Cardinality(1 .. Len(queue)) <= Cardinality(Others)
  BY <1>3, <1>5, FS_Injection
<1>7. Cardinality(1 .. Len(queue)) = Len(queue)
  <2>1. Cardinality(1 .. Len(queue)) = IF 1 > Len(queue) THEN 0 ELSE Len(queue) - 1 + 1
    BY <1>1, FS_Interval
  <2> QED BY <1>1, <2>1
<1> QED BY <1>1, <1>3, <1>6, <1>7, HoldersFinite DEF IInv, GateAccounting

\* A buffer as large as the gate makes the "queue full" path unreachable.
THEOREM QueueSuffices == Spec => []QueueNeverFull
<1>1. Init => QueueNeverFull
  BY DEF Init, QueueNeverFull
<1>2. IInv /\ QueueNeverFull /\ [Next]_vars => QueueNeverFull'
  <2> SUFFICES ASSUME IInv, QueueNeverFull, [Next]_vars, InflightMax <= QueueBuffer,
                      NEW t \in Tasks
               PROVE  sub'[t] # "queuefull"
    BY DEF QueueNeverFull
  <2>1. TypeOK /\ sub[t] # "queuefull"
    BY DEF IInv, QueueNeverFull
  <2>2. ASSUME NEW u \in Tasks, Arrive(u) \/ SubmitStep(u)
        PROVE  sub'[t] # "queuefull"
    <3>1. CASE Enqueue(u)
      <4>1. Len(queue) < inflight
        BY <3>1, QueueRoom DEF Enqueue
      <4>3. inflight \in 0 .. InflightMax /\ Len(queue) \in Nat
        BY <2>1, LenProperties DEF TypeOK
      <4>2. Len(queue) # QueueBuffer
        BY <4>1, <4>3, CapacityAssumption
      <4> QED BY <2>1, <3>1, <4>2 DEF Enqueue, TypeOK
    <3>2. CASE ~Enqueue(u)
      BY <2>1, <2>2, <3>2 DEF Arrive, SubmitStep, Acquire, Reject, Create, FailQueueFull, Respond,
         TypeOK
    <3> QED BY <3>1, <3>2
  <2>3. ASSUME NEW u \in Tasks, WorkStep(u)
        PROVE  sub'[t] # "queuefull"
    BY <2>1, <2>3, WorkMoves
  <2>4. ASSUME NEW d \in Deletes, DeleteGet(d) \/ DeleteStep(d)
        PROVE  sub'[t] # "queuefull"
    BY <2>1, <2>4, DeleteFrame
  <2>5. CASE Dequeue \/ Stop \/ Restart \/ UNCHANGED vars
    BY <2>1, <2>5 DEF Dequeue, Stop, Restart, vars, SubmitEnded
  <2> QED BY <2>2, <2>3, <2>4, <2>5 DEF Next
<1> QED BY <1>1, <1>2, Invariance, PTL DEF Spec

-----------------------------------------------------------------------------
(* Finality.                                                               *)

\* A worker that may still write the row of t finds it neither deliverable nor failed.
LEMMA FinalRow ==
  ASSUME IInv, NEW t \in Tasks, status[t] \in {"completed", "partial", "failed"}, [Next]_vars
  PROVE  UNCHANGED <<status[t], count[t], parts[t]>>
<1>1. /\ TypeOK
      /\ wk[t] \in {"none", "leave", "done", "lost"}
      /\ sub[t] \notin {"idle", "acquire", "create", "enqueue", "queuefull"}
  BY DEF IInv, RowOwnership
<1>2. ASSUME NEW u \in Tasks, Arrive(u) \/ SubmitStep(u) \/ WorkStep(u), u # t
      PROVE  UNCHANGED <<status[t], count[t], parts[t]>>
  BY <1>1, <1>2, OthersSame DEF SameTask
<1>3. CASE Arrive(t) \/ SubmitStep(t)
  BY <1>1, <1>3 DEF Arrive, SubmitStep, Acquire, Reject, Create, Enqueue, FailQueueFull, Respond,
     storeVars
<1>4. CASE WorkStep(t)
  BY <1>1, <1>4 DEF WorkStep, Register, Get, MarkRunning, MarkFailed, Read, Upload, AppendPart,
     Settle, Finalize, Leave, storeVars
<1>5. ASSUME NEW d \in Deletes, DeleteGet(d) \/ DeleteStep(d)
      PROVE  UNCHANGED <<status[t], count[t], parts[t]>>
  BY <1>1, <1>5, DeleteFrame DEF TypeOK
<1>6. CASE Dequeue \/ Stop \/ Restart \/ UNCHANGED vars
  BY <1>6 DEF Dequeue, Stop, Restart, vars, storeVars
<1> QED BY <1>2, <1>3, <1>4, <1>5, <1>6 DEF Next

\* Results and failures are final.
THEOREM ResultsAreFinal == Spec => ResultIsFinal
<1>1. IInv /\ [Next]_vars =>
        [\A t \in Tasks : status[t] \in {"completed", "partial", "failed"}
            => UNCHANGED <<status[t], count[t], parts[t]>>]_vars
  BY FinalRow
<1> QED BY <1>1, Invariance, PTL DEF Spec, ResultIsFinal

\* A step keeps a task skipped that was cancelled before its execution.
LEMMA SkippedStep ==
  ASSUME IInv, NEW t \in Tasks, CancelledUnexecuted(t), [Next]_vars
  PROVE  CancelledUnexecuted(t)'
<1> USE DEF CancelledUnexecuted, Executing, Processing
<1>1. /\ TypeOK /\ RowOwnership(t)
      /\ status[t] = "cancelled" /\ wk[t] \notin Executing
      /\ sub[t] \notin {"idle", "acquire", "create", "enqueue", "queuefull"}
  BY DEF IInv, RowOwnership
<1>2. ASSUME NEW u \in Tasks, Arrive(u) \/ SubmitStep(u) \/ WorkStep(u), u # t
      PROVE  CancelledUnexecuted(t)'
  BY <1>1, <1>2, OthersSame DEF SameTask
<1>3. CASE Arrive(t) \/ SubmitStep(t)
  BY <1>1, <1>3 DEF Arrive, SubmitStep, Acquire, Reject, Create, Enqueue, FailQueueFull, Respond,
     storeVars, workVars
<1>4. CASE WorkStep(t)
  <2>1. CASE Register(t) \/ Leave(t)
    BY <1>1, <2>1 DEF Register, Leave, GoTo, storeVars, TypeOK
  <2>2. CASE Get(t)
    BY <1>1, <2>2 DEF Get, GoTo, storeVars, TypeOK
  <2> QED BY <1>1, <1>4, <2>1, <2>2 DEF WorkStep, MarkRunning, MarkFailed, Read, Upload,
          AppendPart, Settle, Finalize
<1>5. ASSUME NEW d \in Deletes, DeleteGet(d) \/ DeleteStep(d)
      PROVE  CancelledUnexecuted(t)'
  BY <1>1, <1>5, DeleteFrame DEF TypeOK
<1>6. CASE Dequeue
  <2>1. Head(queue) \in Tasks /\ wk' = [wk EXCEPT ![Head(queue)] = "register"] /\ status' = status
    BY <1>6, HeadWaits DEF Dequeue, GoTo, storeVars, IInv
  <2> QED BY <1>1, <2>1 DEF TypeOK
<1>7. CASE Stop \/ UNCHANGED vars
  BY <1>1, <1>7 DEF Stop, vars, storeVars, workVars
<1>8. CASE Restart
  BY <1>1, <1>8 DEF Restart, storeVars, TypeOK
<1> QED BY <1>2, <1>3, <1>4, <1>5, <1>6, <1>7, <1>8 DEF Next

\* A task cancelled while no worker executes it is never executed.
THEOREM CancelledTasksSkipped == Spec => CancelledIsSkipped
<1>1. IInv /\ [Next]_vars =>
        [\A t \in Tasks : CancelledUnexecuted(t) => CancelledUnexecuted(t)']_vars
  BY SkippedStep
<1> QED BY <1>1, Invariance, PTL DEF Spec, CancelledIsSkipped

-----------------------------------------------------------------------------
(* No accepted task is abandoned.                                          *)

\* Every step keeps LeavesTerminal: each way out of process behind a Get that
\* succeeded has written a terminal status or has read one.
LEMMA LeavesTerminalNext ==
  ASSUME IInv, LeavesTerminal, [Next]_vars
  PROVE  LeavesTerminal'
<1> SUFFICES ASSUME ~StoreFaults, ~MayStop
             PROVE  /\ ~stopping'
                    /\ \A t \in Tasks : wk'[t] \in {"leave", "done"} => status'[t] \in Terminal
  BY DEF LeavesTerminal
<1> DEFINE Settled(t) == wk[t] \in {"leave", "done"} => status[t] \in Terminal
<1>1. TypeOK /\ ~stopping /\ \A t \in Tasks : Settled(t) /\ TaskInv(t)
  BY IInvParts DEF LeavesTerminal
<1>2. ASSUME NEW u \in Tasks, Arrive(u) \/ SubmitStep(u) \/ WorkStep(u)
      PROVE  ~stopping' /\ \A t \in Tasks : t # u => Settled(t)'
  BY <1>1, <1>2, OthersSame, WorkMoves DEF SameTask, Arrive, SubmitStep, Acquire, Reject, Create,
     Enqueue, FailQueueFull, Respond, memVars
<1>3. ASSUME NEW u \in Tasks, Arrive(u) \/ SubmitStep(u)
      PROVE  Settled(u)'
  <2>1. wk[u] = "none" \/ UNCHANGED <<status, wk>>
    BY <1>1, <1>3 DEF Arrive, SubmitStep, Acquire, Reject, Create, Enqueue, FailQueueFull,
       Respond, TaskInv, RowOwnership, storeVars, workVars
  <2>2. wk'[u] = wk[u] \/ wk'[u] = "queued"
    BY <1>1, <1>3 DEF Arrive, SubmitStep, Acquire, Reject, Create, Enqueue, FailQueueFull,
       Respond, workVars, TypeOK
  <2> QED BY <1>1, <2>1, <2>2
<1>4. ASSUME NEW u \in Tasks, WorkStep(u)
      PROVE  Settled(u)'
  <2> USE DEF GoTo
  <2>1. CASE Register(u)
    <3>1. u \notin signalled
      BY <2>1 DEF Register, IInv, RegistryExact
    <3> QED BY <1>1, <2>1, <3>1 DEF Register, CtxDone, TypeOK
  <2>2. CASE Get(u)
    <3>1. wk'[u] = "leave" => status[u] \in Terminal
      <4>1. CASE u \in signalled
        BY <2>2, <4>1 DEF Get, IInv, SwitchedSeen
      <4>2. CASE u \notin signalled
        BY <1>1, <2>2, <4>2 DEF Get, CtxDone, CallResults, TypeOK
      <4> QED BY <4>1, <4>2
    <3> QED BY <1>1, <2>2, <3>1 DEF Get, storeVars, TypeOK
  <2>3. CASE MarkRunning(u)
    BY <1>1, <2>3 DEF MarkRunning, RunContinues, RunReturns, TypeOK
  <2>4. CASE MarkFailed(u)
    BY <1>1, <2>4 DEF MarkFailed, CallResults, Applied, SetFinal, SetStatus, TypeOK
  <2>5. CASE Finalize(u)
    BY <1>1, <2>5 DEF Finalize, CallResults, Applied, SetFinal, SetStatus, TaskInv, WorkerData,
       AfterRun, TypeOK
  <2>6. CASE Leave(u)
    BY <1>1, <2>6 DEF Leave, storeVars, TypeOK
  <2>7. CASE Read(u) \/ Upload(u) \/ AppendPart(u) \/ Settle(u)
    BY <1>1, <2>7 DEF Read, Upload, AppendPart, Settle, RunContinues, RunReturns, TypeOK
  <2> QED BY <1>4, <2>1, <2>2, <2>3, <2>4, <2>5, <2>6, <2>7 DEF WorkStep
<1>5. ASSUME NEW d \in Deletes, DeleteGet(d) \/ DeleteStep(d)
      PROVE  ~stopping' /\ \A t \in Tasks : Settled(t)'
  <2>0. TypeOK
    BY <1>1
  <2>1. wk' = wk /\ stopping' = stopping
    BY <1>5, <2>0, DeleteFrame
  <2>2. \A t \in Tasks : status[t] \in Terminal => status'[t] \in Terminal
    BY <1>5, <2>0, DeleteFrame DEF TypeOK
  <2> QED BY <1>1, <2>1, <2>2
<1>6. CASE Dequeue
  <2>1. /\ Head(queue) \in Tasks /\ wk' = [wk EXCEPT ![Head(queue)] = "register"]
        /\ UNCHANGED <<status, stopping>>
    BY <1>6, HeadWaits DEF Dequeue, GoTo, storeVars, IInv
  <2> QED BY <1>1, <2>1 DEF TypeOK
<1>7. CASE Stop \/ UNCHANGED vars
  BY <1>1, <1>7 DEF Stop, vars, storeVars, memVars, workVars
<1>8. CASE Restart
  BY <1>1, <1>8 DEF Restart, storeVars, TypeOK
<1> QED BY <1>2, <1>3, <1>4, <1>5, <1>6, <1>7, <1>8 DEF Next

\* With store calls that work and no SIGTERM, every worker leaves a terminal row,
\* whatever OpenSearch, S3, the clients and the DELETEs do.
THEOREM NoneAbandoned == Spec => [](~StoreFaults /\ ~MayStop => NotAbandoned)
<1>1. Init => LeavesTerminal
  BY DEF Init, LeavesTerminal
<1>2. IInv /\ LeavesTerminal /\ [Next]_vars => LeavesTerminal'
  BY LeavesTerminalNext
<1>3. LeavesTerminal => (~StoreFaults /\ ~MayStop => NotAbandoned)
  BY DEF LeavesTerminal, NotAbandoned
<1> QED BY <1>1, <1>2, <1>3, Invariance, PTL DEF Spec

=============================================================================
