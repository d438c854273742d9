---------------------------- MODULE ExportService ----------------------------
(***************************************************************************)
(* The life of export tasks in octo-message-export-api: the submission     *)
(* tail (internal/submit), the inflight gate and the worker pool           *)
(* (internal/executor), cancellation (internal/cancel), and the two stores *)
(* they share: the MySQL rows (internal/store) and the S3 objects          *)
(* (internal/result).  Shutdown and restart of the process are those of    *)
(* cmd/octo-message-export-api/main.go.                                    *)
(*                                                                         *)
(* A task is one POST that passed validation and the count check; it is    *)
(* named by the id NewTaskID would mint for it.  A program counter names   *)
(* the call a goroutine is inside of.  Everything a goroutine does locally *)
(* between two calls belongs to the step that returns from the first.      *)
(***************************************************************************)
EXTENDS Integers, Sequences, FiniteSets

CONSTANTS
  Tasks,          \* submissions
  Deletes,        \* DELETE requests
  InflightMax,    \* PROTECT_GLOBAL_INFLIGHT_MAX, capacity of Gate.sem
  QueueBuffer,    \* EXECUTOR_QUEUE_BUFFER, capacity of Executor.queue
  Workers,        \* EXECUTOR_WORKERS
  MaxParts,       \* bound on the parts one task produces
  MaxRestarts,    \* bound on the times the process dies and is started again
  MayStop,        \* may the process receive SIGTERM?
  RequestFaults,  \* may calls under a request's context fail?
  StoreFaults,    \* may a worker's MySQL calls fail on their own?
  BackendFaults   \* may OpenSearch and S3 calls fail?

ASSUME CapacityAssumption ==   \* NewGate, executor.New and Run clamp to 1
  /\ InflightMax \in Nat \ {0}
  /\ QueueBuffer \in Nat \ {0}
  /\ Workers \in Nat \ {0}

ASSUME BoundAssumption == MaxParts \in Nat /\ MaxRestarts \in Nat

ASSUME FaultAssumption ==
  /\ MayStop \in BOOLEAN
  /\ RequestFaults \in BOOLEAN
  /\ StoreFaults \in BOOLEAN
  /\ BackendFaults \in BOOLEAN

ASSUME RequestsAssumption == IsFiniteSet(Tasks) /\ IsFiniteSet(Deletes)

VARIABLES
  \* MySQL and S3
  status,      \* batch_task.status, "absent" while there is no row
  count,       \* batch_task.actual_count, in parts' worth of messages
  parts,       \* the part_seq values in batch_task_part
  objects,     \* the part objects in the bucket
  \* memory the goroutines share
  inflight,    \* tokens in Gate.sem
  queue,       \* Executor.queue
  cancels,     \* keys of Executor.cancels
  signalled,   \* tasks whose taskCtx a DELETE has cancelled
  stopping,    \* execCtx is cancelled
  restarts,
  \* submissions
  sub,         \* where Submit is
  \* the worker that processes a task
  wk,          \* where process is
  outcome,     \* the status run returned
  flushed,     \* Writer.partSeq: the parts uploaded
  appended,    \* the index of run's AppendPart loop
  \* DELETE requests
  del,         \* where Cancel is
  target,      \* the task it names
  listed,      \* objects listed and not yet deleted by DeletePrefix
  answer       \* the status in its 200 response

storeVars  == <<status, count, parts, objects>>
memVars    == <<inflight, queue, cancels, signalled, stopping, restarts>>
workVars   == <<wk, outcome, flushed, appended>>
deleteVars == <<del, target, listed, answer>>
vars == <<storeVars, memVars, sub, workVars, deleteVars>>

-----------------------------------------------------------------------------
(* The values of the state.                                                *)

\* Status.IsTerminal
Terminal == {"completed", "partial", "failed", "cancelled"}
\* the statuses of a GET response that carries parts
Deliverable == {"completed", "partial"}

BugCancellableAny == {"queued", "running", "completed", "partial", "failed"}
\* the WHERE clause of CancelCAS
Cancellable == {"queued", "running"}

Status == {"absent", "queued", "running"} \union Terminal
Outcomes == {"none"} \union Terminal

SubmitPC == {"idle", "acquire", "create", "enqueue", "queuefull", "enqueued",
             "accepted", "rejected", "lost"}
WorkPC == {"none", "queued", "register", "get", "mark", "markfail", "read",
           "upload", "append", "settle", "finalize", "finalizeBg", "leave",
           "done", "lost"}
DeletePC == {"idle", "cas", "reread", "signal", "list", "purge",
             "switched", "answered", "errored", "lost"}

\* Submit is between Acquire and Enqueue, the slot is its own
Submitting == {"create", "enqueue"}
\* process is running for the task
Processing == {"register", "get", "mark", "markfail", "read", "upload",
               "append", "settle", "finalize", "finalizeBg", "leave"}
\* process has read a row it must execute
Executing == Processing \ {"register", "get", "leave"}
\* run is under way; it has returned, and Finalize has not
Running == {"read", "upload", "append"}
AfterRun == {"settle", "finalize", "finalizeBg"}
SubmitEnded == {"idle", "accepted", "rejected", "lost"}
DeleteEnded == {"idle", "switched", "answered", "errored", "lost"}

\* taskCtx.Err() # nil: its parent or the task itself was cancelled
CtxDone(t) == stopping \/ t \in signalled

\* What a call to a store may do: take effect, fail without effect, or take
\* effect and still report an error (a lost answer, a context cancelled late).
CallResults(mayFail) == {"ok"} \union IF mayFail THEN {"fail", "unknown"} ELSE {}
Applied(r) == r # "fail"

\* The UPDATE of Store.UpdateStatus and the INSERT of Create: the status column.
\* It is unconditional, whatever the row holds by now.
SetStatus(r, t, s) ==
  status' = IF Applied(r) THEN [status EXCEPT ![t] = s] ELSE status

\* The UPDATE of Store.Finalize, unconditional too: n is the actual_count.
SetFinal(r, t, s, n) ==
  /\ SetStatus(r, t, s)
  /\ count' = IF Applied(r) THEN [count EXCEPT ![t] = n] ELSE count

BugSlotOffByOne == inflight <= InflightMax
\* Gate.Acquire: the buffered channel has room
SlotFree == inflight < InflightMax

\* Gate.Release: a receive that never blocks
Released == IF inflight > 0 THEN inflight - 1 ELSE 0

Busy == {t \in Tasks : wk[t] \in Processing}

-----------------------------------------------------------------------------
Init ==
  /\ status = [t \in Tasks |-> "absent"]
  /\ count = [t \in Tasks |-> 0]
  /\ parts = [t \in Tasks |-> {}]
  /\ objects = [t \in Tasks |-> {}]
  /\ inflight = 0
  /\ queue = <<>>
  /\ cancels = {}
  /\ signalled = {}
  /\ stopping = FALSE
  /\ restarts = 0
  /\ sub = [t \in Tasks |-> "idle"]
  /\ wk = [t \in Tasks |-> "none"]
  /\ outcome = [t \in Tasks |-> "none"]
  /\ flushed = [t \in Tasks |-> 0]
  /\ appended = [t \in Tasks |-> 0]
  /\ del = [d \in Deletes |-> "idle"]
  /\ target \in [Deletes -> Tasks]
  /\ listed = [d \in Deletes |-> {}]
  /\ answer = [d \in Deletes |-> "absent"]

-----------------------------------------------------------------------------
(* POST: Submitter.Submit from Gate.Acquire on.                            *)

Arrive(t) ==
  /\ sub[t] = "idle" /\ ~stopping
  /\ sub' = [sub EXCEPT ![t] = "acquire"]
  /\ UNCHANGED <<storeVars, memVars, workVars, deleteVars>>

Acquire(t) ==
  /\ sub[t] = "acquire" /\ SlotFree
  /\ inflight' = inflight + 1
  /\ sub' = [sub EXCEPT ![t] = "create"]
  /\ UNCHANGED <<storeVars, queue, cancels, signalled, stopping, restarts,
                 workVars, deleteVars>>

\* SubmitWait has passed, or the client has gone: 503.
Reject(t) ==
  /\ sub[t] = "acquire"
  /\ sub' = [sub EXCEPT ![t] = "rejected"]
  /\ UNCHANGED <<storeVars, memVars, workVars, deleteVars>>

BugCreateKeepsSlot(t) ==
  /\ sub[t] = "create"
  /\ \E r \in CallResults(RequestFaults) :
       /\ SetStatus(r, t, "queued")
       /\ sub' = [sub EXCEPT ![t] = IF r = "ok" THEN "enqueue" ELSE "rejected"]
  /\ UNCHANGED <<count, parts, objects, memVars, workVars, deleteVars>>

BugCreateFreesSlot(t) ==
  /\ sub[t] = "create"
  /\ \E r \in CallResults(RequestFaults) :
       /\ SetStatus(r, t, "queued")
       /\ sub' = [sub EXCEPT ![t] = IF r = "ok" THEN "enqueue" ELSE "rejected"]
  /\ inflight' = Released
  /\ UNCHANGED <<count, parts, objects, queue, cancels, signalled, stopping,
                 restarts, workVars, deleteVars>>

\* Store.Create; an error gives the slot back: 500.
Create(t) ==
  /\ sub[t] = "create"
  /\ \E r \in CallResults(RequestFaults) :
       /\ SetStatus(r, t, "queued")
       /\ sub' = [sub EXCEPT ![t] = IF r = "ok" THEN "enqueue" ELSE "rejected"]
       /\ inflight' = IF r = "ok" THEN inflight ELSE Released
  /\ UNCHANGED <<count, parts, objects, queue, cancels, signalled, stopping,
                 restarts, workVars, deleteVars>>

\* Executor.Enqueue, a send that never blocks; a full queue gives the slot back.
Enqueue(t) ==
  /\ sub[t] = "enqueue"
  /\ \/ /\ Len(queue) < QueueBuffer
        /\ queue' = Append(queue, t)
        /\ sub' = [sub EXCEPT ![t] = "enqueued"]
        /\ wk' = [wk EXCEPT ![t] = "queued"]
        /\ UNCHANGED inflight
     \/ /\ Len(queue) = QueueBuffer
        /\ inflight' = Released
        /\ sub' = [sub EXCEPT ![t] = "queuefull"]
        /\ UNCHANGED <<queue, wk>>
  /\ UNCHANGED <<storeVars, cancels, signalled, stopping, restarts, outcome,
                 flushed, appended, deleteVars>>

\* Finalize(failed, "queue full"), its error ignored: 503.
FailQueueFull(t) ==
  /\ sub[t] = "queuefull"
  /\ \E r \in CallResults(RequestFaults) : SetFinal(r, t, "failed", 0)
  /\ sub' = [sub EXCEPT ![t] = "rejected"]
  /\ UNCHANGED <<parts, objects, memVars, workVars, deleteVars>>

\* 202 with the task id: from here on the client can name the task.
Respond(t) ==
  /\ sub[t] = "enqueued"
  /\ sub' = [sub EXCEPT ![t] = "accepted"]
  /\ UNCHANGED <<storeVars, memVars, workVars, deleteVars>>

-----------------------------------------------------------------------------
(* A worker: Executor.worker takes a task, Executor.process executes it.   *)

\* A call that is entered with its context done fails before it does anything.
GoTo(t, pc) == wk' = [wk EXCEPT ![t] = pc]

RunReturns(t, result) ==
  /\ outcome' = [outcome EXCEPT ![t] = result]
  /\ GoTo(t, "settle")

\* run enters its next call under taskCtx
RunContinues(t, pc) ==
  IF CtxDone(t) THEN RunReturns(t, "failed") ELSE GoTo(t, pc) /\ UNCHANGED outcome

\* The select of an idle worker may still take a task after execCtx is cancelled.
Dequeue ==
  /\ queue # <<>> /\ Cardinality(Busy) < Workers
  /\ GoTo(Head(queue), "register")
  /\ queue' = Tail(queue)
  /\ UNCHANGED <<storeVars, inflight, cancels, signalled, stopping, restarts, sub,
                 outcome, flushed, appended, deleteVars>>

BugRegisterForgotten(t) ==
  /\ wk[t] = "register"
  /\ GoTo(t, IF CtxDone(t) THEN "leave" ELSE "get")
  /\ UNCHANGED <<storeVars, memVars, sub, outcome, flushed, appended, deleteVars>>

\* taskCtx and its cancel function are registered before the row is read.
Register(t) ==
  /\ wk[t] = "register"
  /\ cancels' = cancels \union {t}
  /\ GoTo(t, IF CtxDone(t) THEN "leave" ELSE "get")
  /\ UNCHANGED <<storeVars, inflight, queue, signalled, stopping, restarts, sub,
                 outcome, flushed, appended, deleteVars>>

BugGetIgnoresStatus(t) ==
  /\ wk[t] = "get"
  /\ \E r \in CallResults(StoreFaults \/ CtxDone(t)) :
       GoTo(t, IF r # "ok" THEN "leave" ELSE "mark")
  /\ UNCHANGED <<storeVars, memVars, sub, outcome, flushed, appended, deleteVars>>

\* Store.Get; an error or a terminal row ends the work on the task.  With
\* taskCtx done UpdateStatus fails at once, with parentCtx done Finalize too.
Get(t) ==
  /\ wk[t] = "get"
  /\ \E r \in CallResults(StoreFaults \/ CtxDone(t)) :
       GoTo(t, IF r # "ok" \/ status[t] \in Terminal \/ stopping THEN "leave"
               ELSE IF CtxDone(t) THEN "markfail" ELSE "mark")
  /\ UNCHANGED <<storeVars, memVars, sub, outcome, flushed, appended, deleteVars>>

BugMarkGivesUp(t) ==
  /\ wk[t] = "mark"
  /\ \E r \in CallResults(StoreFaults \/ CtxDone(t)) :
       /\ SetStatus(r, t, "running")
       /\ IF r = "ok" THEN RunContinues(t, "read")
          ELSE GoTo(t, "leave") /\ UNCHANGED outcome
  /\ UNCHANGED <<count, parts, objects, memVars, sub, flushed, appended, deleteVars>>

\* Store.UpdateStatus(running).
MarkRunning(t) ==
  /\ wk[t] = "mark"
  /\ \E r \in CallResults(StoreFaults \/ CtxDone(t)) :
       /\ SetStatus(r, t, "running")
       /\ IF r = "ok" THEN RunContinues(t, "read")
          ELSE /\ GoTo(t, IF stopping THEN "leave" ELSE "markfail")
               /\ UNCHANGED outcome
  /\ UNCHANGED <<count, parts, objects, memVars, sub, flushed, appended, deleteVars>>

\* Store.Finalize(failed) under parentCtx, its error ignored.
MarkFailed(t) ==
  /\ wk[t] = "markfail"
  /\ \E r \in CallResults(StoreFaults \/ stopping) : SetFinal(r, t, "failed", 0)
  /\ GoTo(t, "leave")
  /\ UNCHANGED <<parts, objects, memVars, sub, outcome, flushed, appended, deleteVars>>

\* run: the searches up to the next full part, or to the end of the hits.
\* OpenSearch failures and a done context end the run.
Read(t) ==
  /\ wk[t] = "read"
  /\ \/ flushed[t] < MaxParts /\ RunContinues(t, "upload")
     \/ flushed[t] > 0 /\ RunContinues(t, "append")
     \/ flushed[t] = 0 /\ \E o \in Deliverable : RunReturns(t, o)
     \/ (BackendFaults \/ CtxDone(t)) /\ RunReturns(t, "failed")
  /\ UNCHANGED <<storeVars, memVars, sub, flushed, appended, deleteVars>>

BugUploadErrorIgnored(t) ==
  /\ wk[t] = "upload"
  /\ \E r \in CallResults(BackendFaults \/ CtxDone(t)) :
       /\ objects' = IF Applied(r)
                     THEN [objects EXCEPT ![t] = @ \union {flushed[t]}] ELSE objects
       /\ flushed' = [flushed EXCEPT ![t] = @ + 1]
       /\ RunContinues(t, "read")
  /\ UNCHANGED <<status, count, parts, memVars, sub, appended, deleteVars>>

BugUploadRetries(t) ==
  /\ wk[t] = "upload"
  /\ \E r \in CallResults(BackendFaults \/ CtxDone(t)) :
       /\ objects' = IF Applied(r)
                     THEN [objects EXCEPT ![t] = @ \union {flushed[t]}] ELSE objects
       /\ IF r = "ok"
          THEN flushed' = [flushed EXCEPT ![t] = @ + 1] /\ RunContinues(t, "read")
          ELSE UNCHANGED flushed /\ GoTo(t, "read") /\ UNCHANGED outcome
  /\ UNCHANGED <<status, count, parts, memVars, sub, appended, deleteVars>>

\* Writer.flush: S3Uploader.Upload of part number partSeq.
Upload(t) ==
  /\ wk[t] = "upload"
  /\ \E r \in CallResults(BackendFaults \/ CtxDone(t)) :
       /\ objects' = IF Applied(r)
                     THEN [objects EXCEPT ![t] = @ \union {flushed[t]}] ELSE objects
       /\ IF r = "ok"
          THEN flushed' = [flushed EXCEPT ![t] = @ + 1] /\ RunContinues(t, "read")
          ELSE UNCHANGED flushed /\ RunReturns(t, "failed")
  /\ UNCHANGED <<status, count, parts, memVars, sub, appended, deleteVars>>

BugAppendStopsEarly(t) == appended[t] + 2 >= flushed[t]
\* the loop over Finish's parts ends with this one
LastAppend(t) == appended[t] + 1 = flushed[t]

\* Store.AppendPart; after the last one run succeeds without a look at taskCtx.
AppendPart(t) ==
  /\ wk[t] = "append"
  /\ \E r \in CallResults(StoreFaults \/ CtxDone(t)) :
       /\ parts' = IF Applied(r)
                   THEN [parts EXCEPT ![t] = @ \union {appended[t]}] ELSE parts
       /\ IF r # "ok" THEN UNCHANGED appended /\ RunReturns(t, "failed")
          ELSE /\ appended' = [appended EXCEPT ![t] = @ + 1]
               /\ IF LastAppend(t) THEN \E o \in Deliverable : RunReturns(t, o)
                  ELSE RunContinues(t, "append")
  /\ UNCHANGED <<status, count, objects, memVars, sub, flushed, deleteVars>>

\* failed turns into cancelled if taskCtx is done; the context of Finalize is chosen.
Settle(t) ==
  /\ wk[t] = "settle"
  /\ outcome' = IF outcome[t] = "failed" /\ CtxDone(t)
                THEN [outcome EXCEPT ![t] = "cancelled"] ELSE outcome
  /\ GoTo(t, IF stopping THEN "finalizeBg" ELSE "finalize")
  /\ UNCHANGED <<storeVars, memVars, sub, flushed, appended, deleteVars>>

BugFinalizeThenFailed(t) ==
  /\ wk[t] \in {"finalize", "finalizeBg"}
  /\ \E r \in CallResults(StoreFaults \/ (wk[t] = "finalize" /\ stopping)) :
       /\ SetFinal(r, t, outcome[t], IF outcome[t] \in Deliverable THEN flushed[t] ELSE 0)
       /\ GoTo(t, IF r = "ok" THEN "leave" ELSE "markfail")
  /\ UNCHANGED <<parts, objects, memVars, sub, outcome, flushed, appended, deleteVars>>

\* Store.Finalize(outcome), its error ignored.  The context chosen in
\* Settle may be cancelled since.
Finalize(t) ==
  /\ wk[t] \in {"finalize", "finalizeBg"}
  /\ \E r \in CallResults(StoreFaults \/ (wk[t] = "finalize" /\ stopping)) :
       SetFinal(r, t, outcome[t], IF outcome[t] \in Deliverable THEN flushed[t] ELSE 0)
  /\ GoTo(t, "leave")
  /\ UNCHANGED <<parts, objects, memVars, sub, outcome, flushed, appended, deleteVars>>

\* The deferred calls of process: unregister, cancel, Gate.Release.
Leave(t) ==
  /\ wk[t] = "leave"
  /\ cancels' = cancels \ {t}
  /\ signalled' = signalled \ {t}
  /\ inflight' = Released
  /\ GoTo(t, "done")
  /\ outcome' = [outcome EXCEPT ![t] = "none"]
  /\ flushed' = [flushed EXCEPT ![t] = 0]
  /\ appended' = [appended EXCEPT ![t] = 0]
  /\ UNCHANGED <<storeVars, queue, stopping, restarts, sub, deleteVars>>

-----------------------------------------------------------------------------
(* DELETE: Canceller.Cancel.  Only the client of an accepted task knows    *)
(* its id; the answers for unknown ids and foreign callers change nothing. *)

Answer(d, pc, s) ==
  /\ del' = [del EXCEPT ![d] = pc]
  /\ answer' = [answer EXCEPT ![d] = s]

\* Store.Get: a terminal task is answered as it is.
DeleteGet(d) ==
  /\ del[d] = "idle" /\ sub[target[d]] = "accepted" /\ ~stopping
  /\ \E r \in CallResults(RequestFaults) :
       IF r # "ok" THEN Answer(d, "errored", "absent")
       ELSE IF status[target[d]] \in Terminal THEN Answer(d, "answered", status[target[d]])
       ELSE Answer(d, "cas", "absent")
  /\ UNCHANGED <<storeVars, memVars, sub, workVars, target, listed>>

\* The UPDATE of Store.CancelCAS.  An error leaves the worker unsignalled even
\* if the row has been switched.
DeleteCAS(d) ==
  /\ del[d] = "cas"
  /\ \E r \in CallResults(RequestFaults) :
       /\ status' = IF Applied(r) /\ status[target[d]] \in Cancellable
                    THEN [status EXCEPT ![target[d]] = "cancelled"] ELSE status
       /\ del' = [del EXCEPT ![d] = IF r # "ok" THEN "errored"
                                    ELSE IF status[target[d]] \in Cancellable
                                    THEN "signal" ELSE "reread"]
  /\ UNCHANGED <<count, parts, objects, memVars, sub, workVars, target, listed, answer>>

\* The Get inside CancelCAS after an UPDATE that matched no row.
DeleteReread(d) ==
  /\ del[d] = "reread"
  /\ \E r \in CallResults(RequestFaults) :
       IF r = "ok" THEN Answer(d, "answered", status[target[d]])
       ELSE Answer(d, "errored", "absent")
  /\ UNCHANGED <<storeVars, memVars, sub, workVars, target, listed>>

\* Executor.CancelTask: a no-op for a task that is not registered.
DeleteSignal(d) ==
  /\ del[d] = "signal"
  /\ signalled' = signalled \union ({target[d]} \intersect cancels)
  /\ del' = [del EXCEPT ![d] = "list"]
  /\ UNCHANGED <<storeVars, inflight, queue, cancels, stopping, restarts, sub, workVars,
                 target, listed, answer>>

\* DeletePrefix lists the objects under today's prefix.  A failure, and a day
\* that has changed since NewWriter, leave nothing to delete.
DeleteList(d) ==
  /\ del[d] = "list"
  /\ \E r \in CallResults(BackendFaults \/ RequestFaults) :
       listed' = [listed EXCEPT ![d] = IF r = "ok" THEN objects[target[d]] ELSE {}]
  /\ del' = [del EXCEPT ![d] = "purge"]
  /\ UNCHANGED <<storeVars, memVars, sub, workVars, target, answer>>

\* DeletePrefix deletes one object per call, in key order, up to the first error.
DeletePurge(d) ==
  /\ del[d] = "purge"
  /\ \/ /\ listed[d] = {}
        /\ Answer(d, "switched", "cancelled")
        /\ UNCHANGED <<objects, listed>>
     \/ \E o \in listed[d], r \in CallResults(BackendFaults \/ RequestFaults) :
        /\ \A other \in listed[d] : o <= other
        /\ objects' = IF Applied(r)
                      THEN [objects EXCEPT ![target[d]] = @ \ {o}] ELSE objects
        /\ listed' = [listed EXCEPT ![d] = IF r = "ok" THEN @ \ {o} ELSE {}]
        /\ UNCHANGED <<del, answer>>
  /\ UNCHANGED <<status, count, parts, memVars, sub, workVars, target>>

-----------------------------------------------------------------------------
(* The process.                                                            *)

\* SIGTERM: the listener is closed and execCancel called.  Shutdown waits 15s
\* at most, so requests may still be in progress.
Stop ==
  /\ MayStop /\ ~stopping
  /\ stopping' = TRUE
  /\ UNCHANGED <<storeVars, inflight, queue, cancels, signalled, restarts, sub, workVars,
                 deleteVars>>

\* The process ends, 2s after Stop or by a crash at any point, and is started
\* again.  Nothing of its memory survives and nothing reads the rows back in.
Restart ==
  /\ restarts < MaxRestarts
  /\ restarts' = restarts + 1
  /\ inflight' = 0 /\ queue' = <<>> /\ cancels' = {} /\ signalled' = {}
  /\ stopping' = FALSE
  /\ sub' = [t \in Tasks |-> IF sub[t] \in SubmitEnded THEN sub[t] ELSE "lost"]
  /\ wk' = [t \in Tasks |-> IF wk[t] \in {"none", "done"} THEN wk[t] ELSE "lost"]
  /\ outcome' = [t \in Tasks |-> "none"]
  /\ flushed' = [t \in Tasks |-> 0]
  /\ appended' = [t \in Tasks |-> 0]
  /\ del' = [d \in Deletes |-> IF del[d] \in DeleteEnded THEN del[d] ELSE "lost"]
  /\ listed' = [d \in Deletes |-> {}]
  /\ UNCHANGED <<storeVars, target, answer>>

-----------------------------------------------------------------------------
SubmitStep(t) == \/ Acquire(t) \/ Reject(t) \/ Create(t) \/ Enqueue(t)
                 \/ FailQueueFull(t) \/ Respond(t)

WorkStep(t) == \/ Register(t) \/ Get(t) \/ MarkRunning(t) \/ MarkFailed(t)
               \/ Read(t) \/ Upload(t) \/ AppendPart(t) \/ Settle(t)
               \/ Finalize(t) \/ Leave(t)

DeleteStep(d) == \/ DeleteCAS(d) \/ DeleteReread(d) \/ DeleteSignal(d)
                 \/ DeleteList(d) \/ DeletePurge(d)

Next == \/ \E t \in Tasks : Arrive(t) \/ SubmitStep(t) \/ WorkStep(t)
        \/ Dequeue
        \/ \E d \in Deletes : DeleteGet(d) \/ DeleteStep(d)
        \/ Stop \/ Restart

\* Every call returns, and the Go scheduler runs every goroutine that can run.
\* Clients, SIGTERM and crashes owe nothing; after Stop a worker need not dequeue.
Fairness == /\ \A t \in Tasks : WF_vars(SubmitStep(t)) /\ WF_vars(WorkStep(t))
            /\ WF_vars(~stopping /\ Dequeue)
            /\ \A d \in Deletes : WF_vars(DeleteStep(d))

Spec == Init /\ [][Next]_vars /\ Fairness

-----------------------------------------------------------------------------
(* Properties.                                                             *)

\* The type invariant.
TypeOK ==
  /\ status \in [Tasks -> Status]
  /\ count \in [Tasks -> 0..MaxParts]
  /\ parts \in [Tasks -> SUBSET Nat]
  /\ objects \in [Tasks -> SUBSET Nat]
  /\ inflight \in 0..InflightMax
  /\ queue \in Seq(Tasks)
  /\ cancels \subseteq Tasks
  /\ signalled \subseteq Tasks
  /\ stopping \in BOOLEAN
  /\ restarts \in 0..MaxRestarts
  /\ sub \in [Tasks -> SubmitPC]
  /\ wk \in [Tasks -> WorkPC]
  /\ outcome \in [Tasks -> Outcomes]
  /\ flushed \in [Tasks -> 0..MaxParts]
  /\ appended \in [Tasks -> 0..MaxParts]
  /\ del \in [Deletes -> DeletePC]
  /\ target \in [Deletes -> Tasks]
  /\ listed \in [Deletes -> SUBSET Nat]
  /\ answer \in [Deletes -> Status]

\* The tasks that own a slot: from Acquire until Submit or process gives it back.
Holders == {t \in Tasks : sub[t] \in Submitting \/ wk[t] \in Processing \union {"queued"}}

\* One token per task in the system (gate.go: "queued+running"): no exit path of
\* Submit or process keeps a slot or gives back one it does not own, so that
\* PROTECT_GLOBAL_INFLIGHT_MAX bounds what is in the system and never leaks away.
GateAccounting == inflight = Cardinality(Holders)

\* With EXECUTOR_QUEUE_BUFFER at least PROTECT_GLOBAL_INFLIGHT_MAX (the defaults,
\* 50 and 50) the "queue full" path of Submit is never taken: a slot taken by
\* Acquire is room in the queue.
QueueNeverFull ==
  InflightMax <= QueueBuffer => \A t \in Tasks : sub[t] # "queuefull"

\* A row that a GET presents as completed or partial has all its batch_task_part
\* rows, 0 .. n-1 for the n parts its actual_count sums up: run's AppendPart loop
\* is over before Finalize, whatever fails in between.
DeliverableComplete ==
  \A t \in Tasks : status[t] \in Deliverable => parts[t] = 0 .. count[t] - 1

\* A DELETE that switched the row and has called CancelTask since.
Signalled(d) == del[d] \in {"list", "purge", "switched"}

\* No cancellation is lost between DELETE and worker: once CancelTask has returned,
\* a worker that executes the task has a cancelled context.  It rests on process
\* registering before it reads the row, and Cancel switching the row before it
\* looks the task up in the registry.
CancelNotLost ==
  \A d \in Deletes : Signalled(d) /\ wk[target[d]] \in Executing
                       => target[d] \in signalled

\* A part row names an object that is in the bucket, as long as no DELETE that won the
\* compare-and-swap has begun to delete: run records a part only when its upload
\* has succeeded, and a DELETE that lost deletes nothing.
PartsKeptUnlessSwitched ==
  \A t \in Tasks :
    (\A d \in Deletes : target[d] = t => del[d] \notin {"list", "purge", "switched", "lost"})
      => parts[t] \subseteq objects[t]

\* No accepted task is abandoned (every store call of the workers works, and the
\* process lives): when its worker has left, its row is terminal, whichever of
\* the submission, the worker and the DELETEs came first.
NotAbandoned ==
  \A t \in Tasks : wk[t] = "done" => status[t] \in Terminal

\* completed, partial and failed rows never change again, in spite of the
\* unconditional UPDATEs: the worker that wrote the row is gone, and a late
\* DELETE finds nothing to switch.
ResultIsFinal ==
  [][\A t \in Tasks : status[t] \in {"completed", "partial", "failed"}
       => UNCHANGED <<status[t], count[t], parts[t]>>]_vars

\* A cancelled row that no worker has picked up
CancelledUnexecuted(t) == status[t] = "cancelled" /\ wk[t] \notin Executing

\* "Queued tasks are skipped": a task cancelled while no worker executes it is
\* never executed, and its row stays cancelled.
CancelledIsSkipped ==
  [][\A t \in Tasks : CancelledUnexecuted(t) => CancelledUnexecuted(t)']_vars

\* Every accepted task reaches a terminal status (no store fault, no stop).
EventuallySettled ==
  \A t \in Tasks : sub[t] = "accepted" ~> status[t] \in Terminal

\* Every slot is given back, whatever fails short of a stop: no failure wedges the gate.
SlotsReturned == \A t \in Tasks : t \in Holders ~> t \notin Holders

\* Whose hands a task is in, seen from TaskContract.
Hand(t) == IF wk[t] = "none" THEN "none"
           ELSE IF wk[t] \in {"queued", "register", "get"} THEN "waiting"
           ELSE IF wk[t] \in Executing THEN "working" ELSE "over"

Contract == INSTANCE TaskContract WITH row <- status, hand <- [t \in Tasks |-> Hand(t)]

\* Everything Submit, process and Cancel do to the rows is a step of the contract:
\* a task is executed at most once, from a row that was still queued, and nobody
\* but its worker writes over a cancellation.
ImplementsContract == Contract!Spec

\* What run is doing for a task, seen from RunContract.
Stage(t) == IF wk[t] \in {"none", "queued", "register", "get", "mark", "markfail"} THEN "before"
            ELSE IF wk[t] \in Running THEN "running"
            ELSE IF wk[t] \notin AfterRun THEN "over"
            ELSE IF outcome[t] \in Deliverable THEN "succeeded" ELSE "failed"
Counted(t, n) == IF Stage(t) \in {"running", "succeeded"} THEN n ELSE 0

Runs == INSTANCE RunContract WITH
          phase <- [t \in Tasks |-> Stage(t)],
          uploaded <- [t \in Tasks |-> Counted(t, flushed[t])],
          recorded <- [t \in Tasks |-> Counted(t, appended[t])]

\* run is what ExportRun makes of it: of no task is a part recorded before the last
\* is uploaded, nor success reported before the last is recorded, whoever cancels
\* it and whatever fails.
ImplementsRun == Runs!Spec

-----------------------------------------------------------------------------
(* Statements of the repository's documents and comments that the code does *)
(* not keep; each is the property of a run that finds a counterexample.     *)

\* api-spec 3.3: completed, partial, failed and cancelled are terminal, the state
\* machine ends there.
TerminalIsFinal ==
  [][\A t \in Tasks : status[t] \in Terminal => status'[t] = status[t]]_vars

\* api-spec 3.3: the URLs of the parts of a result can be fetched again and again.
PartsDownloadable ==
  \A t \in Tasks : status[t] \in Deliverable => parts[t] \subseteq objects[t]

\* main.go: execCancel makes the workers cancel the running tasks and write a
\* terminal status.
ShutdownSettles ==
  stopping => \A t \in Tasks : wk[t] = "done" => status[t] # "running"

=============================================================================
