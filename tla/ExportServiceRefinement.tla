----------------------- MODULE ExportServiceRefinement ------------------------
(***************************************************************************)
(* ExportService implements TaskContract: each of its steps is a step of   *)
(* the contract on the status column and the hands, or leaves both alone.  *)
(* It implements RunContract too: what a worker does for a task inside run *)
(* is uploads, then part rows, then success, or a failure.                 *)
(***************************************************************************)
EXTENDS ExportServiceProofs

-----------------------------------------------------------------------------
(* The contract of rows and hands.                                         *)

hands == [t \in Tasks |-> Hand(t)]

\* A step that leaves statuses and hands alone
LEMMA Stutter ==
  ASSUME status' = status, hands' = hands
  PROVE  UNCHANGED Contract!vars
  BY DEF Contract!vars, hands

\* Hands are told from the program counters of the workers.
LEMMA HandsSame ==
  ASSUME wk' = wk
  PROVE  hands' = hands
  BY DEF hands, Hand

\* A step that moves one task from hand to hand
LEMMA HandMoves ==
  ASSUME NEW t \in Tasks, \A u \in Tasks : u # t => wk'[u] = wk[u]
  PROVE  hands' = [hands EXCEPT ![t] = Hand(t)']
<1>1. \A u \in Tasks : u # t => Hand(u)' = Hand(u)
  BY DEF Hand
<1> QED BY <1>1 DEF hands

\* The service starts where the contract does.
LEMMA RefineInit == Init => Contract!Init
  BY DEF Init, Contract!Init, Hand

\* Submit creates, refuses and admits.
LEMMA RefineSubmit ==
  ASSUME IInv, NEW t \in Tasks, Arrive(t) \/ SubmitStep(t)
  PROVE  [Contract!Next]_Contract!vars
<1> USE DEF Contract!Next, Contract!vars
<1>1. TypeOK /\ RowOwnership(t)
  BY DEF IInv
<1>2. CASE Arrive(t) \/ Acquire(t) \/ Reject(t) \/ Respond(t)
  <2>1. status' = status /\ wk' = wk
    BY <1>2 DEF Arrive, Acquire, Reject, Respond, storeVars, workVars
  <2> QED BY <2>1, HandsSame, Stutter
<1>3. CASE Create(t)
  <2>1. wk' = wk /\ hands' = hands /\ hands[t] = "none" /\ status[t] = "absent"
    BY <1>1, <1>3, HandsSame DEF Create, workVars, RowOwnership, hands, Hand
  <2>2. CASE status' = status
    BY <2>1, <2>2, Stutter
  <2>3. CASE status' = [status EXCEPT ![t] = "queued"]
    BY <2>1, <2>3 DEF Contract!Submit, hands
  <2> QED BY <1>3, <2>2, <2>3 DEF Create, SetStatus
<1>4. CASE Enqueue(t)
  <2>1. status' = status /\ status[t] = "queued" /\ wk[t] = "none"
    BY <1>1, <1>4 DEF Enqueue, storeVars, RowOwnership
  <2>2. CASE wk' = wk
    BY <2>1, <2>2, HandsSame, Stutter
  <2>3. CASE wk' = [wk EXCEPT ![t] = "queued"]
    <3>1. hands[t] = "none" /\ Hand(t)' = "waiting"
      BY <1>1, <2>1, <2>3 DEF hands, Hand, TypeOK
    <3>2. hands' = [hands EXCEPT ![t] = "waiting"]
      BY <1>1, <2>3, <3>1, HandMoves DEF TypeOK
    <3> QED BY <2>1, <3>1, <3>2 DEF Contract!Admit, hands
  <2> QED BY <1>4, <2>2, <2>3 DEF Enqueue
<1>5. CASE FailQueueFull(t)
  <2>1. wk' = wk /\ hands' = hands /\ hands[t] = "none" /\ status[t] = "queued"
    BY <1>1, <1>5, HandsSame DEF FailQueueFull, workVars, RowOwnership, hands, Hand
  <2>2. CASE status' = status
    BY <2>1, <2>2, Stutter
  <2>3. CASE status' = [status EXCEPT ![t] = "failed"]
    BY <2>1, <2>3 DEF Contract!Refuse, hands
  <2> QED BY <1>5, <2>2, <2>3 DEF FailQueueFull, SetFinal, SetStatus
<1> QED BY <1>2, <1>3, <1>4, <1>5 DEF SubmitStep

\* What a worker that executes t finds in its row
LEMMA WorkingRow ==
  ASSUME IInv, NEW t \in Tasks, wk[t] \in Executing
  PROVE  status[t] \in {"queued", "running", "cancelled"} /\ hands[t] = "working"
<1>1. status[t] \in Status /\ RowOwnership(t)
  BY DEF IInv, TypeOK
<1>2. wk[t] \notin {"none", "queued", "register", "get", "leave", "done", "lost"}
  BY DEF Executing, Processing
<1>3. hands[t] = "working"
  BY <1>2 DEF hands, Hand
<1> QED BY <1>1, <1>2, <1>3 DEF RowOwnership, Status, Terminal, Deliverable

\* process starts, skips, begins and concludes.
LEMMA RefineWork ==
  ASSUME IInv, NEW t \in Tasks, WorkStep(t)
  PROVE  [Contract!Next]_Contract!vars
<1> USE DEF Contract!Next, Contract!vars
<1>1. TypeOK /\ RowOwnership(t)
  BY DEF IInv
<1>2. hands' = [hands EXCEPT ![t] = Hand(t)']
  BY <1>1, OthersSame, HandMoves DEF SameTask
<1>3. hands[t] = Hand(t) /\ hands = [hands EXCEPT ![t] = Hand(t)]
  BY DEF hands
<1>4. CASE status' = status /\ Hand(t)' = Hand(t)
  BY <1>2, <1>3, <1>4, Stutter
<1>5. CASE status' = status /\ hands[t] = "waiting" /\ Hand(t)' = "over"
  BY <1>2, <1>5 DEF Contract!Skip, hands
<1>6. CASE status' = status /\ hands[t] = "waiting" /\ status[t] = "queued" /\ Hand(t)' = "working"
  BY <1>2, <1>6 DEF Contract!Start, hands
<1>7. CASE wk[t] \in Executing /\ status' = [status EXCEPT ![t] = "running"] /\ Hand(t)' = "working"
  <2>1. hands' = hands
    BY <1>2, <1>3, <1>7, WorkingRow
  <2> QED BY <1>7, <2>1, WorkingRow DEF Contract!Begin, hands
<1>8. CASE /\ wk[t] \in Executing /\ Hand(t)' = "over"
           /\ \E s \in {status[t], "running"} \union Terminal : status' = [status EXCEPT ![t] = s]
  <2>1. PICK s \in {status[t], "running"} \union Contract!Final : status' = [status EXCEPT ![t] = s]
    BY <1>8 DEF Contract!Final, Terminal
  <2>2. hands' = [hands EXCEPT ![t] = "over"]
    BY <1>2, <1>8
  <2>3. Contract!Conclude(t)
    BY <2>1, <2>2, WorkingRow, <1>8 DEF Contract!Conclude, hands
  <2> QED BY <2>3
<1> DEFINE SomeCase == \/ status' = status /\ Hand(t)' = Hand(t)
                       \/ status' = status /\ hands[t] = "waiting" /\ Hand(t)' = "over"
                       \/ /\ status' = status /\ hands[t] = "waiting"
                          /\ status[t] = "queued" /\ Hand(t)' = "working"
                       \/ /\ wk[t] \in Executing /\ Hand(t)' = "working"
                          /\ status' = [status EXCEPT ![t] = "running"]
                       \/ /\ wk[t] \in Executing /\ Hand(t)' = "over"
                          /\ \E s \in {status[t], "running"} \union Terminal :
                               status' = [status EXCEPT ![t] = s]
<1>9. SomeCase
  <2> USE DEF Hand, Executing, Processing, GoTo, TypeOK, storeVars
  <2>0. status = [status EXCEPT ![t] = status[t]]
    BY <1>1
  <2>1. CASE Register(t)
    BY <1>1, <1>3, <2>1 DEF Register
  <2>2. CASE Get(t)
    <3>1. wk[t] = "get" /\ status' = status /\ hands[t] = "waiting"
      BY <1>3, <2>2 DEF Get
    <3>2. CASE wk'[t] = "leave"
      BY <3>1, <3>2
    <3>3. CASE wk'[t] \in {"mark", "markfail"} /\ status[t] \notin Terminal
      BY <1>1, <3>1, <3>3 DEF RowOwnership, Status
    <3> QED BY <1>1, <2>2, <3>2, <3>3 DEF Get
  <2>3. CASE MarkRunning(t)
    <3>1. wk[t] = "mark" /\ (status' = status \/ status' = [status EXCEPT ![t] = "running"])
      BY <2>3 DEF MarkRunning, SetStatus
    <3>2. wk'[t] \in {"read", "settle", "leave", "markfail"}
      BY <1>1, <2>3 DEF MarkRunning, RunContinues, RunReturns
    <3> QED BY <2>0, <3>1, <3>2
  <2>4. CASE MarkFailed(t)
    <3>1. wk[t] = "markfail" /\ wk'[t] = "leave"
      BY <1>1, <2>4 DEF MarkFailed
    <3>2. status' = status \/ status' = [status EXCEPT ![t] = "failed"]
      BY <2>4 DEF MarkFailed, SetFinal, SetStatus
    <3> QED BY <2>0, <3>1, <3>2 DEF Terminal
  <2>5. CASE Read(t) \/ Upload(t) \/ AppendPart(t) \/ Settle(t)
    <3>1. status' = status /\ wk[t] \in {"read", "upload", "append", "settle"}
      BY <2>5 DEF Read, Upload, AppendPart, Settle
    <3>2. wk'[t] \in {"read", "upload", "append", "settle", "finalize", "finalizeBg"}
      BY <1>1, <2>5 DEF Read, Upload, AppendPart, Settle, RunContinues, RunReturns
    <3> QED BY <3>1, <3>2
  <2>6. CASE Finalize(t)
    <3>1. outcome[t] \in Terminal
      BY <2>6 DEF Finalize, IInv, WorkerData, AfterRun
    <3>2. wk[t] \in {"finalize", "finalizeBg"} /\ wk'[t] = "leave"
      BY <1>1, <2>6 DEF Finalize
    <3>3. status' = status \/ status' = [status EXCEPT ![t] = outcome[t]]
      BY <2>6 DEF Finalize, SetFinal, SetStatus
    <3> QED BY <2>0, <3>1, <3>2, <3>3
  <2>7. CASE Leave(t)
    BY <1>1, <2>7 DEF Leave
  <2> QED BY <2>1, <2>2, <2>3, <2>4, <2>5, <2>6, <2>7 DEF WorkStep
<1> QED BY <1>4, <1>5, <1>6, <1>7, <1>8, <1>9

\* Cancel cancels rows that are queued or running.
LEMMA RefineDelete ==
  ASSUME IInv, NEW d \in Deletes, DeleteGet(d) \/ DeleteStep(d)
  PROVE  [Contract!Next]_Contract!vars
<1>1. TypeOK
  BY DEF IInv
<1>2. wk' = wk /\ hands' = hands
  BY <1>1, DeleteFrame, HandsSame
<1>3. CASE status' = status
  BY <1>2, <1>3, Stutter
<1>4. CASE /\ status[target[d]] \in {"queued", "running"} /\ del[d] = "cas"
           /\ status' = [status EXCEPT ![target[d]] = "cancelled"]
  <2>1. target[d] \in Tasks /\ hands[target[d]] # "none"
    BY <1>1, <1>4 DEF IInv, DeletesAccepted, RowOwnership, hands, Hand, TypeOK
  <2> QED BY <1>2, <1>4, <2>1 DEF Contract!Next, Contract!vars, Contract!Cancel, hands
<1> QED BY <1>1, <1>3, <1>4, DeleteFrame

\* Taking from the queue is nothing to the contract; a death is a Crash.
LEMMA RefineProcess ==
  ASSUME IInv, Dequeue \/ Stop \/ Restart \/ UNCHANGED vars
  PROVE  [Contract!Next]_Contract!vars
<1>1. TypeOK
  BY DEF IInv
<1>2. CASE Dequeue
  <2>1. /\ Head(queue) \in Tasks /\ wk[Head(queue)] = "queued" /\ status' = status
        /\ wk' = [wk EXCEPT ![Head(queue)] = "register"]
    BY <1>1, <1>2, HeadWaits DEF Dequeue, GoTo, storeVars, IInv
  <2>2. hands' = hands
    BY <1>1, <2>1 DEF hands, Hand, TypeOK
  <2> QED BY <2>1, <2>2, Stutter
<1>3. CASE Stop \/ UNCHANGED vars
  BY <1>3, HandsSame, Stutter DEF Stop, vars, storeVars, workVars
<1>4. CASE Restart
  <2>1. status' = status /\ \A t \in Tasks : Hand(t)' = IF Hand(t) = "none" THEN "none" ELSE "over"
    BY <1>1, <1>4 DEF Restart, storeVars, Hand, Executing, Processing, TypeOK
  <2> QED BY <2>1 DEF Contract!Next, Contract!vars, Contract!Crash, hands
<1> QED BY <1>2, <1>3, <1>4

\* The service keeps the contract, for any number of tasks, requests, workers and slots.
THEOREM ContractKept == Spec => ImplementsContract
<1>1. IInv /\ [Next]_vars => [Contract!Next]_Contract!vars
  BY RefineSubmit, RefineWork, RefineDelete, RefineProcess DEF Next
<1> QED BY <1>1, RefineInit, Invariance, PTL DEF Spec, Contract!Spec, ImplementsContract

-----------------------------------------------------------------------------
(* The contract of run.                                                    *)

Up(t) == Counted(t, flushed[t])
Rec(t) == Counted(t, appended[t])

stages == [t \in Tasks |-> Stage(t)]
uploads == [t \in Tasks |-> Up(t)]
records == [t \in Tasks |-> Rec(t)]

\* A task of which neither the worker's program counter nor its data change
SameRun(u) == /\ wk'[u] = wk[u] /\ outcome'[u] = outcome[u]
              /\ flushed'[u] = flushed[u] /\ appended'[u] = appended[u]

\* Where the four are left alone, so is the stage of the task.
LEMMA SameRunStays == ASSUME NEW u, SameRun(u)
                      PROVE  Stage(u)' = Stage(u) /\ Up(u)' = Up(u) /\ Rec(u)' = Rec(u)
  BY DEF SameRun, Stage, Up, Rec, Counted

\* A step that leaves all of them alone
LEMMA RunStutter ==
  ASSUME \A u \in Tasks : SameRun(u)
  PROVE  UNCHANGED Runs!vars
<1>1. \A u \in Tasks : Stage(u)' = Stage(u) /\ Up(u)' = Up(u) /\ Rec(u)' = Rec(u)
  BY SameRunStays
<1>2. stages' = stages /\ uploads' = uploads /\ records' = records
  BY <1>1 DEF stages, uploads, records
<1> QED BY <1>2 DEF Runs!vars, stages, uploads, records, Up, Rec

\* What a step for one task may do to it
StageStep(t) ==
  \/ Stage(t)' = Stage(t) /\ Up(t)' = Up(t) /\ Rec(t)' = Rec(t)
  \/ Stage(t) = "before" /\ Stage(t)' = "running" /\ Up(t)' = Up(t) /\ Rec(t)' = Rec(t)
  \/ /\ Stage(t) = "running" /\ Stage(t)' = "running"
     /\ Rec(t) = 0 /\ Rec(t)' = 0 /\ Up(t)' = Up(t) + 1
  \/ /\ Stage(t) = "running" /\ Stage(t)' = "running"
     /\ Rec(t) < Up(t) /\ Rec(t)' = Rec(t) + 1 /\ Up(t)' = Up(t)
  \/ /\ Stage(t) = "running" /\ Stage(t)' = "succeeded"
     /\ Up(t) <= Rec(t) + 1 /\ Rec(t)' = Up(t) /\ Up(t)' = Up(t)
  \/ Stage(t) \in {"before", "running"} /\ Stage(t)' = "failed" /\ Up(t)' = 0 /\ Rec(t)' = 0
  \/ /\ Stage(t) \in {"before", "succeeded", "failed"} /\ Stage(t)' = "over"
     /\ Up(t)' = 0 /\ Rec(t)' = 0

\* Each of these is a step of the contract.
LEMMA StageSteps ==
  ASSUME NEW t \in Tasks, \A u \in Tasks : u # t => SameRun(u), StageStep(t)
  PROVE  [Runs!Next]_Runs!vars
<1>1. \A u \in Tasks : u # t => Stage(u)' = Stage(u) /\ Up(u)' = Up(u) /\ Rec(u)' = Rec(u)
  BY SameRunStays
<1>2. /\ stages' = [stages EXCEPT ![t] = Stage(t)']
      /\ uploads' = [uploads EXCEPT ![t] = Up(t)']
      /\ records' = [records EXCEPT ![t] = Rec(t)']
  BY <1>1 DEF stages, uploads, records
<1>3. stages[t] = Stage(t) /\ uploads[t] = Up(t) /\ records[t] = Rec(t)
  BY DEF stages, uploads, records
<1>4. /\ stages = [stages EXCEPT ![t] = Stage(t)]
      /\ uploads = [uploads EXCEPT ![t] = Up(t)]
      /\ records = [records EXCEPT ![t] = Rec(t)]
  BY DEF stages, uploads, records
<1> USE <1>2, <1>3, <1>4 DEF Runs!Next, Runs!vars, Up, Rec
<1>5. CASE Stage(t)' = Stage(t) /\ Up(t)' = Up(t) /\ Rec(t)' = Rec(t)
  BY <1>5 DEF stages, uploads, records
<1>6. CASE Stage(t) = "before" /\ Stage(t)' = "running" /\ Up(t)' = Up(t) /\ Rec(t)' = Rec(t)
  BY <1>6 DEF Runs!Enter, stages, uploads, records
<1>7. CASE /\ Stage(t) = "running" /\ Stage(t)' = "running"
           /\ Rec(t) = 0 /\ Rec(t)' = 0 /\ Up(t)' = Up(t) + 1
  <2>1. stages' = stages /\ records' = records /\ uploads' = [uploads EXCEPT ![t] = uploads[t] + 1]
    BY <1>7
  <2>2. stages[t] = "running" /\ records[t] = 0
    BY <1>7
  <2> QED BY <2>1, <2>2 DEF Runs!Upload, stages, uploads, records
<1>8. CASE /\ Stage(t) = "running" /\ Stage(t)' = "running"
           /\ Rec(t) < Up(t) /\ Rec(t)' = Rec(t) + 1 /\ Up(t)' = Up(t)
  <2>1. stages' = stages /\ uploads' = uploads /\ records' = [records EXCEPT ![t] = records[t] + 1]
    BY <1>8
  <2>2. stages[t] = "running" /\ records[t] < uploads[t]
    BY <1>8
  <2> QED BY <2>1, <2>2 DEF Runs!Record, stages, uploads, records
<1>9. CASE /\ Stage(t) = "running" /\ Stage(t)' = "succeeded"
           /\ Up(t) <= Rec(t) + 1 /\ Rec(t)' = Up(t) /\ Up(t)' = Up(t)
  BY <1>9 DEF Runs!Succeed, stages, uploads, records
<1>10. CASE /\ Stage(t) \in {"before", "running"} /\ Stage(t)' = "failed"
            /\ Up(t)' = 0 /\ Rec(t)' = 0
  BY <1>10 DEF Runs!Fail, Runs!Forgotten, stages, uploads, records
<1>11. CASE /\ Stage(t) \in {"before", "succeeded", "failed"} /\ Stage(t)' = "over"
            /\ Up(t)' = 0 /\ Rec(t)' = 0
  BY <1>11 DEF Runs!End, Runs!Forgotten, stages, uploads, records
<1> QED BY <1>5, <1>6, <1>7, <1>8, <1>9, <1>10, <1>11 DEF StageStep

-----------------------------------------------------------------------------
\* Nobody has called run when the service starts.
LEMMA RunStarts == Init => Runs!Init
  BY DEF Init, Runs!Init, Stage, Counted

\* The data that the stages are told from
LEMMA RunData ==
  ASSUME IInv, NEW t \in Tasks
  PROVE  /\ TypeOK
         /\ flushed[t] \in Nat /\ appended[t] \in Nat /\ outcome[t] \in Outcomes
         /\ wk[t] \in {"mark", "markfail", "register", "get"} => flushed[t] = 0 /\ appended[t] = 0
         /\ wk[t] \in {"read", "upload"} => appended[t] = 0
         /\ wk[t] = "append" => appended[t] < flushed[t]
  BY BoundAssumption DEF IInv, TypeOK, WorkerData, BeforeRun

\* Each step of a worker.
LEMMA WorkerStages ==
  ASSUME IInv, NEW t \in Tasks, WorkStep(t)
  PROVE  StageStep(t)
<1> USE RunData DEF TypeOK, Stage, Up, Rec, Counted, Running, AfterRun, Deliverable, GoTo
<1>1. CASE Register(t)
  BY <1>1 DEF Register, StageStep
<1>2. CASE Get(t)
  BY <1>2 DEF Get, StageStep
<1>3. CASE MarkRunning(t)
  <2>1. wk[t] = "mark" /\ UNCHANGED <<flushed, appended>>
    BY <1>3 DEF MarkRunning
  <2>2. \/ wk'[t] \in {"read", "leave", "markfail"}
        \/ wk'[t] = "settle" /\ outcome'[t] = "failed"
    BY <1>3 DEF MarkRunning, RunContinues, RunReturns
  <2> QED BY <2>1, <2>2 DEF StageStep
<1>4. CASE MarkFailed(t)
  BY <1>4 DEF MarkFailed, StageStep
<1>5. CASE Read(t)
  <2>1. wk[t] = "read" /\ UNCHANGED <<flushed, appended>>
    BY <1>5 DEF Read
  <2>2. \/ wk'[t] \in {"upload", "append"}
        \/ wk'[t] = "settle" /\ outcome'[t] = "failed"
        \/ wk'[t] = "settle" /\ outcome'[t] \in Deliverable /\ flushed[t] = 0
    BY <1>5 DEF Read, RunContinues, RunReturns
  <2> QED BY <2>1, <2>2 DEF StageStep
<1>6. CASE Upload(t)
  <2>1. wk[t] = "upload" /\ UNCHANGED appended
    BY <1>6 DEF Upload
  <2>2. \/ wk'[t] = "read" /\ flushed'[t] = flushed[t] + 1
        \/ wk'[t] = "settle" /\ outcome'[t] = "failed"
    BY <1>6 DEF Upload, RunContinues, RunReturns
  <2> QED BY <2>1, <2>2 DEF StageStep
<1>7. CASE AppendPart(t)
  <2>1. wk[t] = "append" /\ UNCHANGED flushed
    BY <1>7 DEF AppendPart
  <2>2. \/ wk'[t] = "settle" /\ outcome'[t] = "failed"
        \/ wk'[t] = "append" /\ appended'[t] = appended[t] + 1
        \/ /\ wk'[t] = "settle" /\ outcome'[t] \in Deliverable
           /\ appended'[t] = appended[t] + 1 /\ appended[t] + 1 = flushed[t]
    BY <1>7 DEF AppendPart, LastAppend, RunContinues, RunReturns
  <2> QED BY <2>1, <2>2 DEF StageStep
<1>8. CASE Settle(t)
  BY <1>8 DEF Settle, StageStep
<1>9. CASE Finalize(t)
  BY <1>9 DEF Finalize, StageStep
<1>10. CASE Leave(t)
  BY <1>10 DEF Leave, StageStep
<1> QED BY <1>1, <1>2, <1>3, <1>4, <1>5, <1>6, <1>7, <1>8, <1>9, <1>10 DEF WorkStep

\* Everybody else leaves the stages alone, but for a death.
LEMMA OtherStages ==
  ASSUME IInv, NEW t \in Tasks, Arrive(t) \/ SubmitStep(t)
  PROVE  [Runs!Next]_Runs!vars
<1>1. TypeOK
  BY DEF IInv
<1>2. \A u \in Tasks : u # t => SameRun(u)
  BY <1>1, OthersSame DEF SameTask, SameRun
<1>3. StageStep(t)
  <2> USE DEF StageStep, Stage, Up, Rec, Counted, workVars
  <2>1. CASE Arrive(t) \/ Acquire(t) \/ Reject(t) \/ Create(t) \/ FailQueueFull(t) \/ Respond(t)
    BY <2>1 DEF Arrive, Acquire, Reject, Create, FailQueueFull, Respond
  <2>2. CASE Enqueue(t)
    <3>1. wk[t] = "none" /\ UNCHANGED <<outcome, flushed, appended>>
      BY <2>2 DEF Enqueue, IInv, RowOwnership
    <3>2. wk'[t] \in {"none", "queued"}
      BY <1>1, <2>2, <3>1 DEF Enqueue, TypeOK
    <3> QED BY <3>1, <3>2
  <2> QED BY <2>1, <2>2 DEF SubmitStep
<1> QED BY <1>2, <1>3, StageSteps

\* A task that is dequeued is before its run still, a restart ends the runs, SIGTERM does not.
LEMMA ProcessStages ==
  ASSUME IInv, Dequeue \/ Stop \/ Restart \/ UNCHANGED vars
  PROVE  [Runs!Next]_Runs!vars
<1>1. TypeOK
  BY DEF IInv
<1>2. CASE Dequeue
  <2>1. /\ Head(queue) \in Tasks /\ wk[Head(queue)] = "queued"
        /\ wk' = [wk EXCEPT ![Head(queue)] = "register"]
        /\ UNCHANGED <<outcome, flushed, appended>>
    BY <1>1, <1>2, HeadWaits DEF Dequeue, GoTo, IInv
  <2>2. ASSUME NEW t \in Tasks, t = Head(queue) PROVE StageStep(t)
    <3>1. wk[t] = "queued" /\ wk'[t] = "register"
      BY <1>1, <2>1, <2>2 DEF TypeOK
    <3>2. Stage(t) = "before" /\ Stage(t)' = "before"
      BY <3>1 DEF Stage
    <3>3. Up(t)' = Up(t) /\ Rec(t)' = Rec(t)
      BY <3>2 DEF Up, Rec, Counted
    <3> QED BY <3>2, <3>3 DEF StageStep
  <2>3. \A u \in Tasks : u # Head(queue) => SameRun(u)
    BY <1>1, <2>1 DEF SameRun, TypeOK
  <2> QED BY <2>1, <2>2, <2>3, StageSteps
<1>3. CASE Stop \/ UNCHANGED vars
  <2>1. \A u \in Tasks : SameRun(u)
    BY <1>3 DEF Stop, vars, workVars, SameRun
  <2> QED BY <2>1, RunStutter
<1>4. CASE Restart
  <2>1. ASSUME NEW t \in Tasks
        PROVE  /\ Stage(t)' \in {"before", "over"}
               /\ Stage(t)' = "before" => Stage(t) = "before"
               /\ Up(t)' = 0 /\ Rec(t)' = 0
    BY <1>1, <1>4 DEF Restart, Stage, Up, Rec, Counted, Running, AfterRun, TypeOK
  <2> QED BY <2>1 DEF Runs!Next, Runs!Crash, Up, Rec
<1> QED BY <1>2, <1>3, <1>4

\* A DELETE does nothing that run does.
LEMMA DeleteStages ==
  ASSUME IInv, NEW d \in Deletes, DeleteGet(d) \/ DeleteStep(d)
  PROVE  UNCHANGED Runs!vars
<1>1. UNCHANGED <<wk, outcome, flushed, appended>>
  BY DeleteFrame DEF IInv
<1> QED BY <1>1, RunStutter DEF SameRun

\* For any number of tasks, workers and DELETEs: run is to each of its tasks what RunContract
\* says, so no result is announced whose parts are not all uploaded and recorded.
THEOREM RunsKept == Spec => ImplementsRun
<1>1. ASSUME IInv, NEW t \in Tasks, WorkStep(t) PROVE [Runs!Next]_Runs!vars
  <2>1. \A u \in Tasks : u # t => SameRun(u)
    BY <1>1, OthersSame DEF SameTask, SameRun, IInv
  <2> QED BY <1>1, <2>1, WorkerStages, StageSteps
<1>2. IInv /\ [Next]_vars => [Runs!Next]_Runs!vars
  BY <1>1, OtherStages, ProcessStages, DeleteStages DEF Next
<1> QED BY <1>2, RunStarts, Invariance, PTL DEF Spec, Runs!Spec, ImplementsRun

=============================================================================
