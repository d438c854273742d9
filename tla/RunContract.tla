------------------------------ MODULE RunContract ------------------------------
(***************************************************************************)
(* What Executor.run promises to process: parts are uploaded first, then   *)
(* all of them are recorded in batch_task_part, and only then does run     *)
(* succeed; it is entered once per task, and fails at any point.           *)
(* ExportRun shows it of the data path, ExportService of the tasks that    *)
(* share the service: so what the one leaves out of run, the other has.    *)
(***************************************************************************)
EXTENDS Naturals

CONSTANT Tasks

VARIABLES
  phase,      \* "before", "running", "succeeded", "failed" or "over"
  uploaded,   \* parts uploaded, while that matters
  recorded    \* part rows written

vars == <<phase, uploaded, recorded>>

Init == /\ phase = [t \in Tasks |-> "before"]
        /\ uploaded = [t \in Tasks |-> 0]
        /\ recorded = [t \in Tasks |-> 0]

\* OpenPIT has succeeded.
Enter(t) == /\ phase[t] = "before"
            /\ phase' = [phase EXCEPT ![t] = "running"]
            /\ UNCHANGED <<uploaded, recorded>>

\* Writer.flush; not any more when a part is recorded.
Upload(t) == /\ phase[t] = "running" /\ recorded[t] = 0
             /\ uploaded' = [uploaded EXCEPT ![t] = @ + 1]
             /\ UNCHANGED <<phase, recorded>>

\* Store.AppendPart
Record(t) == /\ phase[t] = "running" /\ recorded[t] < uploaded[t]
             /\ recorded' = [recorded EXCEPT ![t] = @ + 1]
             /\ UNCHANGED <<phase, uploaded>>

\* completed or partial, perhaps at once with the last AppendPart
Succeed(t) == /\ phase[t] = "running" /\ uploaded[t] <= recorded[t] + 1
              /\ phase' = [phase EXCEPT ![t] = "succeeded"]
              /\ recorded' = [recorded EXCEPT ![t] = uploaded[t]]
              /\ UNCHANGED uploaded

Forgotten(t) == /\ uploaded' = [uploaded EXCEPT ![t] = 0]
                /\ recorded' = [recorded EXCEPT ![t] = 0]

Fail(t) == /\ phase[t] \in {"before", "running"}
           /\ phase' = [phase EXCEPT ![t] = "failed"]
           /\ Forgotten(t)

\* process is through with it, or never called run.
End(t) == /\ phase[t] \in {"before", "succeeded", "failed"}
          /\ phase' = [phase EXCEPT ![t] = "over"]
          /\ Forgotten(t)

\* The process dies.
Crash == /\ phase' \in [Tasks -> {"before", "over"}]
         /\ \A t \in Tasks : phase'[t] = "before" => phase[t] = "before"
         /\ uploaded' = [t \in Tasks |-> 0]
         /\ recorded' = [t \in Tasks |-> 0]

Next == \/ \E t \in Tasks : \/ Enter(t) \/ Upload(t) \/ Record(t)
                            \/ Succeed(t) \/ Fail(t) \/ End(t)
        \/ Crash

Spec == Init /\ [][Next]_vars

=============================================================================
