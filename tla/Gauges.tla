-------------------------------- MODULE Gauges --------------------------------
(***************************************************************************)
(* The two gauges of internal/metrics that say how busy the executor is.   *)
(* The goroutines of ExportService set them: each reads a length, and      *)
(* hands it to Set, with nothing that keeps others from going on, or from  *)
(* setting the gauge themselves, in between.                               *)
(***************************************************************************)
EXTENDS ExportService

VARIABLES
  shown,   \* the values of the gauges: executor_queue_depth, executor_inflight
  due,     \* the gauge that a goroutine is to set, or "none"
  read     \* the length that it has read for it, in a set; {} before

gaugeVars == <<shown, due, read>>
allVars == <<vars, gaugeVars>>

\* Submit's goroutine of a task, and the worker that processes it
Goroutines == Tasks \X {"submit", "work"}

-----------------------------------------------------------------------------
GaugeInit ==
  /\ Init
  /\ shown = [depth |-> 0, inflight |-> 0]
  /\ due = [g \in Goroutines |-> "none"]
  /\ read = [g \in Goroutines |-> {}]

\* A goroutine goes on with its own work when it has set the gauge.
Submits(t) ==
  /\ due[<<t, "submit">>] = "none"
  /\ Arrive(t) \/ SubmitStep(t)
  /\ due' = IF Len(queue') > Len(queue) THEN [due EXCEPT ![<<t, "submit">>] = "depth"] ELSE due
  /\ UNCHANGED <<shown, read>>

Takes ==
  /\ Dequeue
  /\ due' = [due EXCEPT ![<<Head(queue), "work">>] = "depth"]
  /\ UNCHANGED <<shown, read>>

\* UpdateStatus(running) has succeeded, or Finalize has; the slot is given back later, by
\* the deferred Release.  Where Finalize may fail, it may have reported an error.
Works(t) ==
  /\ due[<<t, "work">>] = "none"
  /\ WorkStep(t)
  /\ \/ /\ \/ wk[t] = "mark" /\ wk'[t] \in {"read", "settle"}
           \/ wk[t] \in {"finalize", "finalizeBg"} /\ status'[t] = outcome[t]
        /\ due' = [due EXCEPT ![<<t, "work">>] = "inflight"]
     \/ /\ wk[t] = "mark" => wk'[t] \in {"markfail", "leave"}
        /\ wk[t] \in {"finalize", "finalizeBg"} => StoreFaults \/ stopping
        /\ UNCHANGED due
  /\ UNCHANGED <<shown, read>>

\* len(e.queue), or Gate.InFlight.
ReadLength(g) ==
  /\ due[g] # "none" /\ read[g] = {}
  /\ read' = [read EXCEPT ![g] = {IF due[g] = "depth" THEN Len(queue) ELSE inflight}]
  /\ UNCHANGED <<vars, shown, due>>

\* Gauge.Set.
SetGauge(g) ==
  /\ \E n \in read[g] : shown' = [shown EXCEPT ![due[g]] = n]
  /\ due' = [due EXCEPT ![g] = "none"]
  /\ read' = [read EXCEPT ![g] = {}]
  /\ UNCHANGED vars

Others ==
  /\ Stop \/ \E d \in Deletes : DeleteGet(d) \/ DeleteStep(d)
  /\ UNCHANGED gaugeVars

\* The gauges are the process's.
Restarts ==
  /\ Restart
  /\ shown' = [depth |-> 0, inflight |-> 0]
  /\ due' = [g \in Goroutines |-> "none"]
  /\ read' = [g \in Goroutines |-> {}]

GaugeNext == \/ \E t \in Tasks : Submits(t) \/ Works(t)
             \/ Takes \/ Others \/ Restarts
             \/ \E g \in Goroutines : ReadLength(g) \/ SetGauge(g)

GaugeSpec == GaugeInit /\ [][GaugeNext]_allVars

-----------------------------------------------------------------------------
(* A statement of the gauges' help texts that the code does not keep.      *)

\* Nothing is in the system, and no gauge is about to be set.
AtRest == Holders = {} /\ \A g \in Goroutines : due[g] = "none"

\* executor_queue_depth: the length of the queue.
DepthAtRest == AtRest => shown.depth = Len(queue)

\* executor_inflight: the number of tasks that are being executed.
InflightAtRest == AtRest => shown.inflight = Cardinality(Busy)

\* The help texts of metrics.go, asked for only when nothing moves: a gauge that is set
\* too late or too early for good keeps a dashboard or an alert wrong until the next task.
GaugesAtRest == DepthAtRest /\ InflightAtRest

=============================================================================
