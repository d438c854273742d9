----------------------------- MODULE TaskContract ------------------------------
(***************************************************************************)
(* What the service promises about one row of batch_task: who may change   *)
(* it, when, and to what.  It is the state machine of api-spec 3.3 as the  *)
(* code keeps it: the one thing that may leave a terminal status is a      *)
(* worker that had read the row before it was cancelled.  A task goes      *)
(* through the hands none, waiting, working, over in this order, so it is  *)
(* executed at most once.                                                  *)
(***************************************************************************)
CONSTANT Tasks

VARIABLES
  row,    \* the status column, "absent" while there is no row
  hand    \* whose hands the task is in

vars == <<row, hand>>

Final == {"completed", "partial", "failed", "cancelled"}

TypeOK == /\ row \in [Tasks -> {"absent", "queued", "running"} \union Final]
          /\ hand \in [Tasks -> {"none", "waiting", "working", "over"}]

Init == /\ row = [t \in Tasks |-> "absent"]
        /\ hand = [t \in Tasks |-> "none"]

\* A row is created, and from then on it is never absent.
Submit(t) == /\ hand[t] = "none" /\ row[t] = "absent"
             /\ row' = [row EXCEPT ![t] = "queued"]
             /\ UNCHANGED hand

\* The service has no room for the task.
Refuse(t) == /\ hand[t] = "none" /\ row[t] = "queued"
             /\ row' = [row EXCEPT ![t] = "failed"]
             /\ UNCHANGED hand

\* The task is in the queue.
Admit(t) == /\ hand[t] = "none" /\ row[t] = "queued"
            /\ hand' = [hand EXCEPT ![t] = "waiting"]
            /\ UNCHANGED row

\* A worker reads a row that is not terminal and takes the task.
Start(t) == /\ hand[t] = "waiting" /\ row[t] = "queued"
            /\ hand' = [hand EXCEPT ![t] = "working"]
            /\ UNCHANGED row

\* A worker gives the task up without executing it.
Skip(t) == /\ hand[t] = "waiting"
           /\ hand' = [hand EXCEPT ![t] = "over"]
           /\ UNCHANGED row

\* The worker says that it is working, even over a cancellation.
Begin(t) == /\ hand[t] = "working" /\ row[t] \in {"queued", "running", "cancelled"}
            /\ row' = [row EXCEPT ![t] = "running"]
            /\ UNCHANGED hand

\* The worker writes its verdict, even over a cancellation, and lets go of the
\* task; it also lets go when it cannot write.
Conclude(t) == /\ hand[t] = "working" /\ row[t] \in {"queued", "running", "cancelled"}
               /\ \E s \in {row[t], "running"} \union Final : row' = [row EXCEPT ![t] = s]
               /\ hand' = [hand EXCEPT ![t] = "over"]

\* A client cancels.
Cancel(t) == /\ hand[t] # "none" /\ row[t] \in {"queued", "running"}
             /\ row' = [row EXCEPT ![t] = "cancelled"]
             /\ UNCHANGED hand

\* The process dies: nobody takes its tasks up again.
Crash == /\ hand' = [t \in Tasks |-> IF hand[t] = "none" THEN "none" ELSE "over"]
         /\ UNCHANGED row

Next == \/ \E t \in Tasks : \/ Submit(t) \/ Refuse(t) \/ Admit(t) \/ Start(t) \/ Skip(t)
                            \/ Begin(t) \/ Conclude(t) \/ Cancel(t)
        \/ Crash

Spec == Init /\ [][Next]_vars

=============================================================================
