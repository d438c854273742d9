------------------------------- MODULE Lifecycle -------------------------------
(***************************************************************************)
(* The process from its start to its exit (run in                          *)
(* cmd/octo-message-export-api/main.go): the start-up order, the migration *)
(* of the schema statement by statement, and the graceful shutdown, beside *)
(* the load balancers that ask /readyz (handleReadyz in internal/handler)  *)
(* and the requests that they route.  A supervisor starts the process      *)
(* again when it has died; MySQL keeps what was created.                   *)
(*                                                                         *)
(* What tasks go through meanwhile is ExportService's: execCancel here is  *)
(* Stop there, and an exit or death followed by a start is Restart.        *)
(***************************************************************************)
EXTENDS Integers, FiniteSets

CONSTANTS
  Configs,            \* what the environment may configure
  Requests,           \* requests that go through a balancer
  Balancers,          \* load balancers; each probes the process and routes by the answer
  Statements,         \* number of CREATE TABLE statements in schema.sql
  DatabaseExists,     \* is the DSN's database there before the first start?
  GraceCoversProbe,   \* is DRAIN_GRACE_MS long enough for each balancer to end the probe
                      \* that it is in, and to ask once more?
  MaxDeaths           \* bound on failed starts and crashes

ASSUME LifecycleAssumption ==
  /\ Statements \in Nat \ {0} /\ MaxDeaths \in Nat
  /\ DatabaseExists \in BOOLEAN /\ GraceCoversProbe \in BOOLEAN

\* Whether a required setting is there, and the form of MYSQL_DSN.
DSNs == {"unset", "no database", "no parameters", "full"}
ASSUME ConfigAssumption ==
  Configs \subseteq [endpoints : BOOLEAN, dsn : DSNs, bucket : BOOLEAN, prefix : BOOLEAN,
                    auth : BOOLEAN, tokens : BOOLEAN, workers : Int]

VARIABLES
  config,      \* the configuration, the same for every start
  main,        \* the call that run is in, or where it waits
  stmt,        \* the statement that applyMigrations has got to
  ready,       \* the flag that /readyz reads
  listening,   \* the listener is open
  working,     \* execCtx lives: Executor.Run has workers
  \* MySQL
  database,    \* the database is there
  tables,      \* the statements whose tables are there
  \* outside
  deaths,
  timedOut,    \* Shutdown has given up on requests in progress
  req,         \* what has become of a request
  lb,          \* does the balancer route requests to the process?
  probe,       \* "idle", or handleReadyz is in its "pings"
  probed       \* the balancer has asked since SIGTERM

processVars == <<config, main, stmt, ready, listening, working>>
storeVars == <<database, tables>>
outerVars == <<req, lb, probe, probed>>
vars == <<processVars, storeVars, deaths, timedOut, outerVars>>

Schema == 1 .. Statements

\* Config.validate
Valid(c) == /\ c.endpoints /\ c.dsn # "unset" /\ c.bucket /\ c.prefix
            /\ c.auth => c.tokens
            /\ c.workers > 0

Active == {r \in Requests : req[r] = "active"}
\* what becomes of the requests in progress when the process goes away
CutOff == [r \in Requests |-> IF req[r] = "active" THEN "cut" ELSE req[r]]

-----------------------------------------------------------------------------
Init ==
  /\ config \in Configs
  /\ main = "down" /\ stmt = 1
  /\ ready = FALSE /\ listening = FALSE /\ working = FALSE
  /\ database = DatabaseExists /\ tables = {}
  /\ deaths = 0 /\ timedOut = FALSE
  /\ req = [r \in Requests |-> "new"]
  /\ lb = [b \in Balancers |-> FALSE]
  /\ probe = [b \in Balancers |-> "idle"]
  /\ probed = [b \in Balancers |-> FALSE]

\* config.Load.
Start ==
  /\ main = "down"
  /\ main' = IF Valid(config) THEN "ping" ELSE "down"
  /\ UNCHANGED <<config, stmt, ready, listening, working, storeVars, deaths, timedOut, outerVars>>

\* NewMySQLStore: the driver connects to the DSN's database, if it names one, or run
\* returns an error.
Ping ==
  /\ main = "ping"
  /\ main' = IF database \/ config.dsn = "no database" THEN "database" ELSE "down"
  /\ UNCHANGED <<config, stmt, ready, listening, working, storeVars, deaths, timedOut, outerVars>>

\* ensureDatabase: CREATE DATABASE IF NOT EXISTS, if the DSN names one.
EnsureDatabase ==
  /\ main = "database"
  /\ IF config.dsn = "no database" THEN main' = "down" /\ UNCHANGED <<database, stmt>>
     ELSE database' = TRUE /\ main' = "schema" /\ stmt' = 1
  /\ UNCHANGED <<config, ready, listening, working, tables, deaths, timedOut, outerVars>>

NextStatement == IF stmt = Statements THEN main' = "construct" /\ UNCHANGED stmt
                 ELSE stmt' = stmt + 1 /\ UNCHANGED main

BugMigratedAlready ==
  /\ main = "schema"
  /\ IF stmt \in tables THEN main' = "construct" /\ UNCHANGED <<stmt, tables>>
     ELSE tables' = tables \union {stmt} /\ NextStatement
  /\ UNCHANGED <<config, ready, listening, working, database, deaths, timedOut, outerVars>>

BugCreateStrict ==
  /\ main = "schema"
  /\ IF stmt \in tables THEN main' = "down" /\ UNCHANGED <<stmt, tables>>
     ELSE tables' = tables \union {stmt} /\ NextStatement
  /\ UNCHANGED <<config, ready, listening, working, database, deaths, timedOut, outerVars>>

\* CREATE TABLE IF NOT EXISTS, one statement after the other and no transaction.  The
\* parameter that is appended to a DSN without any makes it name another database.
CreateTable ==
  /\ main = "schema"
  /\ IF config.dsn = "no parameters" THEN main' = "down" /\ UNCHANGED <<stmt, tables>>
     ELSE tables' = tables \union {stmt} /\ NextStatement
  /\ UNCHANGED <<config, ready, listening, working, database, deaths, timedOut, outerVars>>

\* The clients, the executor and its workers; errors of EnsureBucket and of the audit
\* file are logged.
Construct ==
  /\ main = "construct"
  /\ ready' = TRUE /\ working' = TRUE
  /\ main' = "listen"
  /\ UNCHANGED <<config, stmt, listening, storeVars, deaths, timedOut, outerVars>>

\* ListenAndServe has the port, and signal.Notify the signals.
Listen ==
  /\ main = "listen"
  /\ listening' = TRUE
  /\ main' = "serving"
  /\ UNCHANGED <<config, stmt, ready, working, storeVars, deaths, timedOut, outerVars>>

BugStaysReady ==
  /\ main = "serving"
  /\ main' = "drain"
  /\ UNCHANGED <<config, stmt, ready, listening, working, storeVars, deaths, timedOut, outerVars>>

\* SIGTERM; /readyz answers 503 from now on.
Sigterm ==
  /\ main = "serving"
  /\ ready' = FALSE
  /\ main' = "drain"
  /\ UNCHANGED <<config, stmt, listening, working, storeVars, deaths, timedOut, outerVars>>

\* DRAIN_GRACE_MS have passed; Shutdown closes the listener.
CloseListener ==
  /\ main = "drain"
  /\ GraceCoversProbe => \A b \in Balancers : probed[b]
  /\ listening' = FALSE
  /\ main' = "shutdown"
  /\ UNCHANGED <<config, stmt, ready, working, storeVars, deaths, timedOut, outerVars>>

BugWaitsForAll ==
  /\ main = "shutdown" /\ Active = {}
  /\ working' = FALSE
  /\ main' = "settle"
  /\ UNCHANGED <<config, stmt, ready, listening, storeVars, deaths, timedOut, outerVars>>

\* Shutdown returns when no request is in progress, or after 15s; then execCancel.
CancelWorkers ==
  /\ main = "shutdown"
  /\ timedOut' = (Active # {})
  /\ working' = FALSE
  /\ main' = "settle"
  /\ UNCHANGED <<config, stmt, ready, listening, storeVars, deaths, outerVars>>

\* 2s later.
Exit ==
  /\ main = "settle"
  /\ main' = "stopped"
  /\ req' = CutOff
  /\ UNCHANGED <<config, stmt, ready, listening, working, storeVars, deaths, timedOut, lb, probe, probed>>

\* A call of the start fails, the port is taken, the process crashes, or a signal
\* comes before Notify.
Die ==
  /\ deaths < MaxDeaths /\ main \notin {"down", "stopped"}
  /\ deaths' = deaths + 1
  /\ main' = "down" /\ ready' = FALSE /\ listening' = FALSE /\ working' = FALSE
  /\ req' = CutOff
  /\ probe' = [b \in Balancers |-> "idle"]
  /\ lb' = [b \in Balancers |-> lb[b] /\ probe[b] = "idle"]
  /\ probed' = [b \in Balancers |-> FALSE]
  /\ UNCHANGED <<config, stmt, storeVars, timedOut>>

-----------------------------------------------------------------------------
(* Balancers and requests.                                                 *)

\* A probe: handleReadyz reads the flag and goes on to its pings.  Where nobody
\* listens or the flag is down, the balancer takes the process out.
ProbeFlag(b) ==
  /\ probe[b] = "idle"
  /\ IF listening /\ ready
     THEN probe' = [probe EXCEPT ![b] = "pings"] /\ UNCHANGED lb
     ELSE lb' = [lb EXCEPT ![b] = FALSE] /\ UNCHANGED probe
  /\ probed' = [probed EXCEPT ![b] = main = "drain"]
  /\ UNCHANGED <<processVars, storeVars, deaths, timedOut, req>>

\* MySQL and OpenSearch have answered, or one has not.  The flag is not looked at again.
ProbeAnswer(b) ==
  /\ probe[b] = "pings"
  /\ \E ok \in BOOLEAN : lb' = [lb EXCEPT ![b] = ok]
  /\ probe' = [probe EXCEPT ![b] = "idle"]
  /\ UNCHANGED <<processVars, storeVars, deaths, timedOut, req, probed>>

\* A balancer that has the process in routes a request to it.
Send(r) ==
  /\ req[r] = "new"
  /\ \E b \in Balancers : lb[b]
  /\ req' = [req EXCEPT ![r] = IF listening THEN "active" ELSE "refused"]
  /\ UNCHANGED <<processVars, storeVars, deaths, timedOut, lb, probe, probed>>

\* Its handler returns; a task that it has enqueued needs the workers.
Serve(r) ==
  /\ req[r] = "active" /\ main # "stopped"
  /\ req' = [req EXCEPT ![r] = IF working THEN "served" ELSE "stranded"]
  /\ UNCHANGED <<processVars, storeVars, deaths, timedOut, lb, probe, probed>>

-----------------------------------------------------------------------------
MainStep == \/ Start \/ Ping \/ EnsureDatabase \/ CreateTable \/ Construct \/ Listen
            \/ CloseListener \/ CancelWorkers \/ Exit

ProbeStep(b) == ProbeFlag(b) \/ ProbeAnswer(b)

Next == \/ MainStep \/ Sigterm \/ Die
        \/ \E b \in Balancers : ProbeStep(b)
        \/ \E r \in Requests : Send(r) \/ Serve(r)

\* The supervisor starts what has died, the calls of run return and its waits end,
\* and balancers probe.  Requests may take for ever.
Spec == /\ Init /\ [][Next]_vars
        /\ WF_vars(MainStep) /\ \A b \in Balancers : WF_vars(ProbeStep(b))

-----------------------------------------------------------------------------
(* Properties.                                                             *)

\* No request meets a schema that is not all there, although the process may die
\* between two statements, and finds some of the tables when it starts again.
TrafficHasSchema == Active # {} => database /\ tables = Schema

\* A graceful stop costs no request anything, as long as nothing dies, Shutdown is not
\* timed out and the grace is long enough: none finds the listener closed, is cut
\* off, or is answered when the workers have been told to leave.  A probe may be
\* answered ready long behind SIGTERM, for the flag is read before the pings.
NoneTurnedAway ==
  GraceCoversProbe /\ deaths = 0 /\ ~timedOut =>
    \A r \in Requests : req[r] \in {"new", "active", "served"}

\* Starts that fail anywhere do not wedge the next ones: with a usable configuration and
\* the database there, the process comes up again and again, unless it is stopped.
ComesUp == DatabaseExists /\ Valid(config) /\ config.dsn = "full"
             => []<>(main \in {"serving", "stopped"})

\* SIGTERM ends the process, however long requests take.
Stops == main = "drain" ~> main \in {"stopped", "down"}

-----------------------------------------------------------------------------
(* A statement of a comment that the code does not keep.                   *)

\* main.go, applyMigrations: a database that is missing, as on a first local run, is
\* created.
DatabaseCreated == Valid(config) /\ config.dsn = "full" => <>database

=============================================================================
