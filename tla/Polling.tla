-------------------------------- MODULE Polling --------------------------------
(***************************************************************************)
(* What clients see of their tasks: GET /v1/messages/batch/{id}            *)
(* (internal/handler/handler.go, handleGet) beside everything that changes *)
(* the rows.  handleGet reads the row with Store.Get and, if the row says  *)
(* that there is a result, the part rows with Store.GetParts; between the  *)
(* two reads workers, DELETEs and the process go on.                       *)
(*                                                                         *)
(* A client polls one task, one request after the other; several clients   *)
(* may poll the same task.                                                 *)
(***************************************************************************)
EXTENDS ExportService

CONSTANT Pollers   \* clients that poll

VARIABLES
  about,   \* the id a client polls
  poll,    \* where its handleGet is: "idle" between two requests, "parts" in GetParts
  row,     \* status and actual_count of the row that handleGet has read
  seen     \* the last 200 response of the client

pollVars == <<about, poll, row, seen>>
allVars == <<vars, pollVars>>

\* the statuses that nothing overwrites
Results == {"completed", "partial", "failed"}

-----------------------------------------------------------------------------
\* a response without parts, and the one of a client that has not polled
Bare(s) == [status |-> s, count |-> 0, parts |-> {}]

PollInit ==
  /\ Init
  /\ about \in [Pollers -> Tasks]
  /\ poll = [p \in Pollers |-> "idle"]
  /\ row = [p \in Pollers |-> [status |-> "absent", count |-> 0]]
  /\ seen = [p \in Pollers |-> Bare("absent")]

\* Store.Get: a row without a result is the whole response.  An error (500)
\* leaves the client as it was.
ReadRow(p) ==
  /\ poll[p] = "idle" /\ sub[about[p]] = "accepted" /\ ~stopping
  /\ LET t == about[p] IN
       IF status[t] \in Deliverable
       THEN /\ row' = [row EXCEPT ![p] = [status |-> status[t], count |-> count[t]]]
            /\ poll' = [poll EXCEPT ![p] = "parts"]
            /\ UNCHANGED seen
       ELSE /\ seen' = [seen EXCEPT ![p] = Bare(status[t])]
            /\ UNCHANGED <<poll, row>>
  /\ UNCHANGED <<vars, about>>

\* Store.GetParts, and Presign of each part, which is local.
ReadParts(p) ==
  /\ poll[p] = "parts"
  /\ poll' = [poll EXCEPT ![p] = "idle"]
  /\ seen' = [seen EXCEPT ![p] = [status |-> row[p].status, count |-> row[p].count,
                                  parts |-> parts[about[p]]]]
  /\ UNCHANGED <<vars, about, row>>

\* GetParts or Presign fails: 500.
FailParts(p) ==
  /\ poll[p] = "parts" /\ RequestFaults
  /\ poll' = [poll EXCEPT ![p] = "idle"]
  /\ UNCHANGED <<vars, about, row, seen>>

\* Everybody else; a process that dies takes the requests it was in with it.
Service ==
  /\ Next
  /\ poll' = IF restarts' = restarts THEN poll ELSE [p \in Pollers |-> "idle"]
  /\ UNCHANGED <<about, row, seen>>

PollNext == \/ Service
            \/ \E p \in Pollers : ReadRow(p) \/ ReadParts(p) \/ FailParts(p)

PollSpec == PollInit /\ [][PollNext]_allVars

-----------------------------------------------------------------------------
(* Properties.                                                             *)

\* A response with parts has all of them: the part rows 0 .. n-1 for the n that its
\* actual_count sums up, although the row and the part rows are read in two
\* statements with AppendPart, Finalize, DELETEs and a restart around them.
ResponseComplete ==
  \A p \in Pollers : seen[p].status \in Deliverable => seen[p].parts = 0 .. seen[p].count - 1

\* Whoever has been told a result of a task has been told the same: two clients that
\* poll it, down to the parts, and one whose DELETE came too late.
ResultsAgree ==
  \A p \in Pollers : seen[p].status \in Results =>
    /\ \A q \in Pollers : about[q] = about[p] /\ seen[q].status \in Results => seen[q] = seen[p]
    /\ \A d \in Deletes : target[d] = about[p] /\ answer[d] \in Results
         => answer[d] = seen[p].status

\* A client that has seen a result sees it again each time it polls, whatever is
\* cancelled, retried or restarted meanwhile.
ResultStays ==
  [][\A p \in Pollers : seen[p].status \in Results => seen'[p] = seen[p]]_allVars

=============================================================================
