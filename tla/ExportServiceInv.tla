-------------------------- MODULE ExportServiceInv ---------------------------
(***************************************************************************)
(* The inductive invariants behind the properties of ExportService.  Each  *)
(* part is about one thing the code relies on without saying so.           *)
(***************************************************************************)
EXTENDS ExportService

\* process has not called run
BeforeRun == {"queued", "register", "get", "mark", "markfail"}

\* The data the worker of t works on: AppendPart starts when all uploads are done,
\* and run succeeds only behind its last AppendPart.
WorkerData(t) ==
  /\ wk[t] = "upload" => flushed[t] < MaxParts
  /\ wk[t] = "append" => appended[t] < flushed[t] /\ parts[t] = 0 .. appended[t] - 1
  /\ wk[t] \in {"none", "read", "upload"} \union BeforeRun
       => appended[t] = 0 /\ parts[t] = {}
  /\ wk[t] \in {"none"} \union BeforeRun => flushed[t] = 0
  /\ wk[t] \in AfterRun
       => /\ outcome[t] \in Terminal
          /\ outcome[t] \in Deliverable => parts[t] = 0 .. flushed[t] - 1

\* What the row of t may hold while Submit and the worker are where they are.
RowOwnership(t) ==
  /\ sub[t] \in {"idle", "acquire", "create"} => status[t] = "absent" /\ wk[t] = "none"
  /\ sub[t] \in {"enqueue", "queuefull"} => status[t] = "queued" /\ wk[t] = "none"
  /\ sub[t] = "rejected" => wk[t] = "none"
  /\ sub[t] \in {"enqueued", "accepted"} => wk[t] # "none"
  /\ wk[t] # "none" => status[t] # "absent"
  /\ wk[t] \in {"queued", "register", "get"} => status[t] # "running"
  /\ status[t] \in Deliverable => wk[t] \in {"leave", "done", "lost"}
  /\ status[t] = "failed" => wk[t] \in {"none", "leave", "done", "lost"}

\* Only an accepted task has DELETEs.
DeletesAccepted == \A d \in Deletes : del[d] # "idle" => sub[target[d]] = "accepted"

\* The registry holds the tasks between register and unregister.
RegistryExact ==
  /\ cancels = {t \in Tasks : wk[t] \in Processing \ {"register"}}
  /\ signalled \subseteq cancels

\* The queue holds each waiting task once.
QueueExact ==
  /\ \A t \in Tasks : wk[t] = "queued" <=> \E i \in 1 .. Len(queue) : queue[i] = t
  /\ \A i, j \in 1 .. Len(queue) : queue[i] = queue[j] => i = j

\* A DELETE that has switched the row
Switched(d) == del[d] \in {"signal", "list", "purge", "switched"}

\* Until the worker has read the row, it is the DELETE's to decide.
SwitchedSeen ==
  /\ \A d \in Deletes : Switched(d) /\ wk[target[d]] \in {"queued", "register", "get"}
                          => status[target[d]] = "cancelled"
  /\ \A t \in signalled : wk[t] = "get" => status[t] = "cancelled"

\* No DELETE has begun to delete objects of t.
Unpurged(t) ==
  \A d \in Deletes : target[d] = t => del[d] \notin {"list", "purge", "switched", "lost"}

\* What the writer has uploaded is there, and what the table names was uploaded.
UploadedKept == \A t \in Tasks :
  Unpurged(t) => /\ parts[t] \subseteq objects[t]
                 /\ 0 .. flushed[t] - 1 \subseteq objects[t]

\* The part of the invariant that holds whatever fails.
IInv ==
  /\ TypeOK
  /\ \A t \in Tasks : WorkerData(t) /\ RowOwnership(t)
  /\ DeliverableComplete
  /\ DeletesAccepted
  /\ RegistryExact
  /\ QueueExact
  /\ GateAccounting
  /\ SwitchedSeen
  /\ CancelNotLost
  /\ UploadedKept

\* With store calls that work and no SIGTERM, a worker leaves terminal rows only.
LeavesTerminal ==
  ~StoreFaults /\ ~MayStop =>
    /\ ~stopping
    /\ \A t \in Tasks : wk[t] \in {"leave", "done"} => status[t] \in Terminal

=============================================================================
