# Verification of octo-message-export-api

TLA+ models of the export service, their TLC runs, and TLAPS proofs. The service takes
export requests over HTTP (`POST`, `GET`, `DELETE /v1/messages/batch`), reads messages
from OpenSearch, writes NDJSON parts to S3 and keeps task rows in MySQL. One process,
no persistence of its own besides the two stores. Paths below are relative to `src/`.

## The system

| Component | State | Operations |
|---|---|---|
| `internal/submit` | none | `Submit`: validate, `_count`, `Gate.Acquire`, `Store.Create`, `Enqueue`, error paths |
| `internal/executor/gate.go` | a buffered channel of tokens | `Acquire` (waits at most `SubmitWait`), `Release` (never blocks) |
| `internal/executor/executor.go` | a bounded queue, the `cancels` registry | `Enqueue`, `worker`, `process`, `run`, `drainChannel`, `CancelTask` |
| `internal/cancel` | none | `Cancel`: `Get`, `CancelCAS`, `CancelTask`, `DeletePrefix` |
| `internal/store` | MySQL `batch_task`, `batch_task_part` | `Create`, `Get`, `UpdateStatus`, `Finalize`, `AppendPart`, `GetParts`, `CancelCAS` (`ListStuck`, `ListExpired`, `Delete` have no caller) |
| `internal/result` | the writer of a task; S3 objects | `StartChannel`, `Write`, `Finish`; `Upload`, `DeletePrefix`, `Presign` |
| `internal/osclient` | a PIT per task | `Count`, `OpenPIT`, `Search`, `ClosePIT` |
| `internal/handler`, `auth` | none | POST, GET (two reads of the store), DELETE, readyz (the flag, then pings); caller check |
| `cmd/.../main.go` | the ready flag, the listener, `execCtx` | start, migrations, graceful shutdown |
| `internal/config` | none | `Load`, `validate` |
| `internal/metrics` | gauges, counters, the audit file | `Set`, `Inc`, `Log` |

How they interact. A request goroutine runs `Submit` or `Cancel`; a worker goroutine runs
`process`. They meet in the MySQL row (no transaction, and `UpdateStatus` and `Finalize`
update it unconditionally; only `CancelCAS` compares), in the gate, the queue and the
registry (memory), and in the bucket. `DELETE` reaches a running task through the
`context.CancelFunc` in the registry. `main` cancels every task through `execCtx`.

What is hard here:

- **Interleaving** of Submit, process and several Cancels on one row, between any two
  calls; a status that has been read is stale when it is used.
- **Failure** of any call, with or without its effect (a context cancelled while the
  UPDATE is under way), on a path that owns a slot or has half of the parts recorded.
- **Shutdown and death** of the process between two calls; the queue is lost.
- **Stale reads**: the two reads of a GET, the counts of a submission and the later snapshot,
  the flag that readyz looks at before its pings, the lengths that gauges are set to.
- **Starts**: the process may die between two CREATE TABLEs; the order of ping and creation.
- **Limits**: the gate, the queue, page size, rows and bytes of a part, hits of a channel
  and of a task, and the borders where two of them fall together.

What makes each component correct:

- gate: one token per task in the system, whichever way the task leaves it;
- queue: each accepted task waits in it once; with the default sizes it is never full;
- process: a task is executed at most once, from a queued row, and its row becomes terminal;
- cancellation: after `CancelTask` no worker executes the task with a live context, and a
  task that is still queued is skipped;
- rows: completed, partial and failed are final, and a result that GET shows is complete;
- GET: a response is complete, all clients are told the same result, and for good;
- submission: a task is refused for its size, and admitted, for cause;
- lifecycle: no traffic before the schema, no request lost in a graceful stop, a failed start
  does not wedge the next one, SIGTERM ends the process;
- gauges: at rest they are zero (they are not, see below);
- run and writer: each exportable hit exactly once, in order, up to the limits; the warnings
  are true; parts are within their limits; run ends and closes its PIT.

## Modules

| Module | Content |
|---|---|
| `ExportService` | The core: submissions, gate, queue, workers, DELETEs, rows, objects, SIGTERM, death, restart. Properties at its end. |
| `TaskContract` | Abstract specification of one row and the hands its task is in; `ExportService` implements it. |
| `RunContract` | Abstract specification of `Executor.run`: uploads, then part rows, then success. `ExportService` and `ExportRun` both implement it. |
| `Polling` | Clients that GET: `ExportService` extended by `handleGet`. |
| `ExportRun` | The data path of one task: paging, limits, warnings, rollover, parts. |
| `Admission` | One POST from `validate` through the counts to the end of its run: `ExportRun` extended by the submission and by messages that go on arriving. |
| `Lifecycle` | Start, migrations, readyz and load balancers, drain, Shutdown, death and the next start. |
| `Gauges` | `ExportService` extended by the goroutines' reads and sets of the two gauges. |
| `ExportServiceInv` | The inductive invariant `IInv` of the core, in named parts. |
| `ExportServiceProofs`, `ExportServiceRefinement` | The core's invariance, `Spec => Contract!Spec`, `Spec => Runs!Spec`. |
| `PollingProofs` | What clients see, for any number of them. |
| `AdmissionProofs` | The invariant of the data path, its parts, and that it implements `RunContract`. |
| `ExportProofs` | What a task exports, what it warns of, and why it ends. |
| `EstimateProofs` | What the counts of a submission promise about its result. |
| `Recursion` | Lemmas about the recursive functions of the model: sums over a sequence, sequences laid end to end. |
| `LifecycleProofs` | The safety properties of `Lifecycle`. |
| `MCExportService`, `MCPolling`, `MCAdmission`, `MCLifecycle` | What the `.cfg` files use. |

How they compose. `Polling` and `Gauges` run everything of `ExportService` and add to it.
`Admission` runs `ExportRun` behind the submission. `ExportRun` and `ExportService` look at
the same `run` from two sides, and `RunContract` is where they meet: what the data path does
to the outside, and all that the core assumes of it. `Lifecycle` has the process around
the core: its `CancelWorkers` is the core's `Stop`, an exit or death followed by a start is
the core's `Restart`.

### ExportService and the code

A task is a POST that has passed validation and the count check. `sub`, `wk` and `del` are
program counters: each value but the ends names the call that the goroutine is in. One step
returns from a call and does everything up to the next call, so every interleaving of calls
is there and nothing finer (local variables are not shared).

| Variables | Code |
|---|---|
| `status`, `count` | `batch_task.status`, `actual_count` |
| `parts` | the `part_seq` values in `batch_task_part` |
| `objects` | the part objects under the task's prefix |
| `inflight` | `len(Gate.sem)` |
| `queue`, `cancels` | `Executor.queue`, the keys of `Executor.cancels` |
| `signalled`, `stopping` | `taskCtx` cancelled by `CancelTask`; `execCtx` cancelled |
| `outcome`, `flushed`, `appended` | `status` in `process`, `Writer.partSeq`, the index of the `AppendPart` loop |
| `target`, `listed`, `answer` | the id in a DELETE, `out.Contents` in `DeletePrefix`, its 200 answer |

A call has one of three results (`CallResults`): *ok*, *fail* without effect, *unknown*, an
error although it took effect. Which calls may fail is a constant per kind: under a request
context (`RequestFaults`, clients go away), MySQL calls of a worker (`StoreFaults`),
OpenSearch and S3 (`BackendFaults`). A call under a cancelled context may fail in any
case, and one that is *entered* under it does: the drivers look at the context first.
An effect takes place before its caller goes on, or never: that MySQL carries out a statement
of a connection which the driver has given up only after the next statement of the same task
is not modelled. `ResultIsFinal` and all that is proved about results rest on that, as such a late
`UpdateStatus` would write running over what `Finalize` has written.
`Reject` is always possible while `Acquire` waits, since time is not modelled.

`Stop` is `execCancel`; that `Shutdown` gives up after 15s is why requests may still be in
progress. `Restart` is both an exit and a crash, at any point: all memory is lost, the
stores stay.

Left out: `actual_count` before `Finalize` (`Create` inserts 0, although `Submit` passes it
the estimate), error codes, audit, timestamps (`expires_at` has no reader), callers (a DELETE
by another caller changes nothing), and parts' contents, which are `ExportRun`'s.

### The two contracts

`TaskContract`: `row` goes from absent to queued; a worker `Start`s from a queued row only,
may `Begin` (write running) and `Conclude`; a client may `Cancel` queued and running rows. The
contract states what the code does keep of the state machine of api-spec 3.3: it lets only
the worker that had already read the row write over `cancelled`, and hands go none, waiting,
working, over, so that no task is executed twice, not even across restarts.

`RunContract`: `phase` goes before, running, succeeded or failed, over. Parts are uploaded
one by one; only behind the last is one recorded; `Succeed` needs all of them recorded. In
`ExportService` the phase is told from `wk` and `outcome`, in `ExportRun` from `pc` and
`result`; the last `AppendPart` and the success behind it are one step there and two here,
and the contract allows for both.

### Polling and the code

`ReadRow` is `Store.Get` and `ReadParts` is `GetParts` with the `Presign`s, which are local;
everything else may happen in between. `row` is the `*store.Task` that `handleGet` holds,
`seen` the last 200 response of the client. A client polls a task once its POST has been
answered; a 500 leaves it as it was; a dying process takes the request with it.

### ExportRun, Admission and the code

Channels are numbers in the order of their strings, hits are numbered newest first, a hit is
the length of its line (0: `extractPayload` makes `Write` skip it). One step per page
request, per hit, and per part row. `hits` does not change once the PIT is open, a PIT is a
snapshot. `Fail` stands for failing calls and for the looks at the context. A search answers with
the whole page or fails: `parseHits` looks at neither `_shards` nor `timed_out`, so the code could not tell a
page that lacks hits of a lost shard from a short one, and would take it for the last.
An `OpenPIT` that fails may have made a PIT (*leaked*), which nobody can close. `Wanted` says what
the export should be without pages, parts or loops.

In `Admission` a body is `validate`d (`Violation` is the code of the first check that fails),
its channels are counted one call at a time (`counted`, `total`: the loop's index and sum),
and the sum is compared with `MaxTaskHits`. `SubmitTail` is the rest of `Submit`, which is
`ExportService`'s, and `Execute` is run. Until the PIT is open a message may `Arrive` in the
index, between two counts or behind them; `late` notes the channels whose count is no
longer true. Messages that are deleted from the index are not modelled: nothing in the code
deletes any. A scope may repeat a channel, since `validate` allows it: it is counted, sorted
and read as often as it is named.

### Lifecycle and the code

`main` names the call that `run` is in: *ping* (`NewMySQLStore`), *database* and *schema*
(`applyMigrations`), *construct*, *listen*, *serving* (the select), *drain* (the sleep),
*shutdown*, *settle* (the 2s), *stopped*. `ready`, `listening` and `working` are the flag, the
listener and `execCtx`; `database` and `tables` are what MySQL holds, and outlive the process.
A configuration says which required settings are there, and which form `MYSQL_DSN` has:
`dsn+"&multiStatements=true"` makes one without parameters name another database, so that the
first CREATE TABLE fails. A start that returns an error, a crash or a signal before
`Notify` is `Die`, or `main' = "down"` where the code can do nothing else; the supervisor
starts the process again.

A balancer probes by `ProbeFlag` (the flag) and `ProbeAnswer` (the pings, with either
outcome), and routes requests while its last probe was answered 200. `Serve` says whether the
workers were still there when the handler returned. `GraceCoversProbe` says that
`DRAIN_GRACE_MS` is long enough for each balancer to finish its probe and to ask again:
`CloseListener` waits for that if it is so. Without it nothing protects a request, as no code
waits for balancers.

### Gauges and the code

`due` and `read` are the two halves of `Gauge.Set(float64(len(...)))`: the gauge that a
goroutine has got to, and the length it has read for it. Nothing keeps others from going on
between the read and the set. The deferred `Release` comes behind the set of `Inflight`.

## Runs

| Run | Checks | Bounds | Distinct states |
|---|---|---|---|
| `cancel_races` | `CancelNotLost`, `PartsKeptUnlessSwitched`, `NotAbandoned`, `CancelledIsSkipped` | 2 tasks, 2 DELETEs, 2 workers, 2 slots, queue 2, 2 parts; requests and backends fail | 1,642,405 |
| `faults_and_restart` | `DeliverableComplete`, `GateAccounting`, `ResultIsFinal`, `ImplementsContract`, `ImplementsRun` | 2 tasks, 1 DELETE, 1 worker, 2 slots, queue 1, 2 parts; everything fails, SIGTERM, 1 restart | 1,147,895 |
| `settled` | `TypeOK`, `QueueNeverFull`, `EventuallySettled`, `SlotsReturned` | 2 tasks, 1 DELETE, 1 slot, queue 1, 1 worker; requests and backends fail | 28,848 |
| `polling` | `ResponseComplete`, `ResultsAgree`, `ResultStays` | 1 task, 2 clients, 2 DELETEs, 2 parts; everything fails, SIGTERM, 1 restart | 1,041,458 |
| `run_exports` | `ExportsWanted`, `WarningsHonest`, `PartsWellFormed`, `EstimateHolds`, `RefusedForCause`, `RunEnds`, `ImplementsRun` | 2 channels with up to 5 hits of lengths 0, 1 and 3, scopes up to 2 and a body for each check of `validate`, page 2, cap 3, total 4, parts of 2 rows or 3 bytes; any call fails | 2,939,774 |
| `lifecycle` | `TrafficHasSchema`, `NoneTurnedAway`, `ComesUp`, `Stops` | a usable configuration and one for each way not to be, 2 statements, 2 balancers, 2 requests, 2 deaths | 7,238 |

Why the bounds are enough: two DELETEs suffice for a compare-and-swap to miss because of
another; a second task for a worker that is busy, a slot that is taken or a queue that is
full; two parts for a run that fails between two appends; two clients for two answers about
one task to differ, and one task suffices for that, since `handleGet` touches no other. In
`run_exports` the page divides some counts and not others, the cap and the total are
reached before, at and behind the end of a channel, and messages arrive between two counts.
Two statements have a point between them, two balancers one that has noticed and one that
has not; one death leaves half a schema and a second one tries again. What the small
instances cannot show, the proofs do.

Six runs refute statements of the repository; each is a finding.

| Run | Statement | What happens |
|---|---|---|
| `terminal_is_final` | api-spec 3.3: terminal statuses end the state machine | DELETE between the worker's read and its unconditional UPDATE: cancelled becomes running, completed or failed |
| `parts_downloadable` | api-spec 3.3: parts can be fetched until they expire | DeletePrefix runs while the worker finishes; the row ends completed, its objects are gone |
| `shutdown_settles` | `main.go:166`: workers write a terminal status on shutdown | execCtx is cancelled between the choice of `finCtx` and `Finalize`, or (TLC's trace) while an `UpdateStatus` is under way whose effect stays and whose answer is lost; the last UPDATE fails, the row stays running |
| `channel_in_one_part` | api-spec 5.2: a channel does not spread over parts | rollover within a channel, at either threshold; three rows with `PartMaxRows` = 2 are two parts, `PartMaxBytes` being out of reach in this run |
| `first_start` | `main.go:180`: a database that is missing at the first start is created | `NewMySQLStore` pings that database first, and run ends |
| `idle_gauge` | `metrics.go:87,93`: the gauges are the length of the queue and the number of tasks in execution | the worker reads `InFlight` before it gives its slot back, and a goroutine sets `QueueDepth` to a length it read earlier; with nothing in the system and no set due, a gauge is above zero |

`GaugesAtRest` has one conjunct per gauge; each alone is refuted by the same instance.

Further disagreements, without runs of their own:

- `mysql.go:27` says a miss of `CancelCAS` means a terminal row. The second read may find the
  running that the worker wrote over another DELETE's cancelled; the cause is that of
  `terminal_is_final`.
- api-spec 3.2 calls `actual_seen` the hits before the truncation; reading stops at the cap, so
  it always equals `limit`.
- The byte limit of api-spec 5.2 holds up to a line only: `Write` looks at the threshold behind
  the line. `PartsWellFormed` states what does hold.
- `README.md:91` has readyz answer 503 after SIGTERM; a probe whose flag was read before is
  still answered 200. `NoneTurnedAway` allows for it.
- `submit.go:175` says 40 bits of milliseconds last until 2100; such counts wrapped in 2004, so
  ids are ordered within one period of 34.8 years only. Nothing in the service orders ids.
- `execCancel` is followed by 2s, the deferred `ClosePIT` may take 5s: a PIT may outlive the
  process and is left to its keep-alive.

Deadlock is not checked: the system rests when all requests are answered, run ends, and a
stopped process stays stopped.

### Fairness

`ExportService`: weak fairness of the steps of each submission, worker and DELETE: every call
returns, and the Go scheduler runs every goroutine that can run. That calls return is an assumption
about the environment: those to OpenSearch, S3 and MySQL that a worker makes have no deadline of
their own (the exception is `ClosePIT`, 5s), so a backend that neither answers nor closes the
connection keeps a worker and a slot for as long. `Dequeue` is fair while `execCtx` is alive; the select of a worker may choose the
exit afterwards. Arrivals, DELETEs, SIGTERM and deaths have no fairness. No strong fairness is
needed: `Acquire` competes with `Reject`, and either ends the wait. `EventuallySettled` and
`SlotsReturned` are claimed without store faults and SIGTERM only: with them a row stays
queued or running, since nobody reads it again.

`Admission`: the submission and the run are each weakly fair, for every call returns; messages
need not arrive. `Lifecycle`: the supervisor starts what has died, the calls of `run` return,
its waits end, and balancers go on probing. Requests owe nothing: `Stops` holds although
they may hang, because Shutdown gives up. Deaths are bounded by `MaxDeaths`, which is what
makes `ComesUp` a promise: as often as the process comes down, it comes up again.
`Polling` and `Gauges` claim safety only.

## Proofs

For all constants that satisfy the `ASSUME`s of the modules (positive capacities as `NewGate`,
`executor.New` and `Run` clamp them, positive limits, finite sets of requests, any bounds).

**The core.** `IInv` is the conjunction of: `TypeOK`; per task `WorkerData` (nothing is uploaded
before run, parts recorded so far are exactly what the append loop has done, `run` succeeds
only behind it) and `RowOwnership` (which statuses are possible where Submit and the worker
are); `DeletesAccepted`; `RegistryExact` (the registry holds the tasks between register and
unregister); `QueueExact` (each waiting task is in the queue once); `GateAccounting`;
`SwitchedSeen` (until the worker reads it, the row of a switched task is cancelled);
`CancelNotLost`; `UploadedKept`; `DeliverableComplete`. None of the properties is inductive
alone: `CancelNotLost` needs the registry to be exact and the row to be cancelled before the
worker reads it; `GateAccounting` needs each waiting task in the queue once, or a Dequeue
would hand a slot to two workers; `DeliverableComplete` needs to know that the worker which
writes the result has recorded all its parts.

**Clients.** A response is made of two reads. `PollingProofs` adds to `IInv` that what a client
holds between them, and what it has seen, is what the row and the part rows of a result
say: results are final, so the second read finds the parts of the first.

**The data path.** `RunInv` says that the open part is below both thresholds and of the channel
in work (`Open`), and that each flushed part was below them up to its last line (`Whole`), in
the order of the channels; it needs the sorted channels, the loop's index, and that the page
holds hits of the channel. It is kept by `Arrive` because the PIT is not open yet.
`PartsWellFormed` follows. `Recorded` adds that no part row is written before the last flush;
with it every step of run is one of `RunContract`.

**What is exported.** `Wanted` is written without pages, parts or loops: the channels in order,
of each the newest `Share(i)` hits, those without a line left out. `ExportProofs` shows that a
result is just that, by `Progress`, which has four parts. `Seen`: up to the cursor, the counters
`chSeen` and `totalSeen` are what the pages, the channel's cap and the task's limit have let
through (`Taken`, the sum of the shares). `Written`: the rows in the flushed parts and the open
one are those of the channels before (`Laid`) and of the hits seen of this one. `Named`: each
warning names a channel that lost hits, and each channel read so far that lost hits is named.
`Told`: the part rows are the parts flushed, in order, and the result is *completed* if and only
if there are no warnings. Each needs the one before it: which rows are written depends on how
far the counters are, and whether a channel was cut off at all is seen only where it ends
(`ChannelEnds`: at the last hit, the cap or the limit, the share has been seen and written).
Where reading stops at the limit, the channels behind add nothing (`LaidRest`), so that the
result is whole although they were never searched. `ExportsWanted` and `WarningsHonest` follow.

**Why run ends.** `RunEnds` is a liveness property and stays with TLC, but what it rests on is
proved: by `RunGoesOn` every step of run moves `Position` on, which orders the stage, the
channel, the start of the channel, the hits behind the cursor, the page in hand, the hits seen
and the part rows written, in lexicographic order; `Bounds` limits each number while it grows. So no
page is read for ever, whatever the page size and the number of hits; a full page
that is the last costs one more search, which comes back empty and leaves the channel. What is left
to TLC is the appeal to fairness.

**The estimate.** `Counts` relates `total` to the index: for any function that sums up what the
scope holds (`SumsOf`), `total` is at most the sum over the channels that have been counted, and
equal to it as long as no message has arrived late. It is kept by `Arrive` because sums are
monotone, which is all that `RefusedForCause` needs: a count that was too large when taken is still
too large. `EstimateHolds` needs more, since run reads the scope sorted: sums do not
change under a permutation (`SumsPermuted`, `SortedSum`), `Taken` is never more than the
sum of what the channels hold, and less behind a channel that lost hits (`TakenBelow`).

**Recursion.** The model's sums are recursive functions over 0 .. n, and rows are laid end to end by a fold.
The library's induction theorems have an operator as parameter, which the provers cannot
instantiate; `Recursion` proves induction for a *set* of numbers instead, from the well-foundedness
of < (`SetInduction`, `UpTo`), and with it that these functions exist, are unique, grow and are
permuted as one expects. An invariant is then stated as the set of indices where it holds.

**The process.** `LifeInv`: a process behind the migrations has the whole schema and the
statements below `stmt` are there (`SchemaBuilt`), the flag and the listener are up where they
should be, requests are answered by workers that live, requests go where somebody listens,
and in a drain no balancer that has asked since SIGTERM routes any more (`Drained`). The last
is why the grace must cover the probe: a probe that read the flag before SIGTERM can route
again until the next one.

| Theorem | Says |
|---|---|
| `ExportServiceProofs`: `Invariance` | `Spec => []IInv` |
| `TypeCorrect`, `GateExact`, `DeliverableIsComplete`, `NoCancelLost`, `ObjectsKept` | parts of `IInv`, as properties |
| `QueueSuffices` | `InflightMax <= QueueBuffer` makes "queue full" unreachable: by cardinality, the waiting tasks and the one that enqueues all hold slots |
| `ResultsAreFinal`, `CancelledTasksSkipped` | action properties, from `IInv` |
| `NoneAbandoned` | without store faults and SIGTERM a worker leaves terminal rows, by the further invariant `LeavesTerminal` |
| `ExportServiceRefinement`: `ContractKept` | `ExportService` implements `TaskContract` |
| `RunsKept` | `ExportService` implements `RunContract` |
| `PollingProofs`: `NeverStale`, `ResponsesComplete`, `ResultsAgreed`, `ResultsStay` | the invariant, and what clients see |
| `AdmissionProofs`: `TaskInvariance`, `PartsOfRuns`, `PartsOfTasks` | `RunInv`, and `PartsWellFormed` with and without the submission |
| `TasksKeepContract` | the data path implements `RunContract` |
| `ExportProofs`: `ProgressOfTasks` | `Progress` in every state of the data path |
| `ResultsExportWanted`, `ResultsWarnHonestly` | `ExportsWanted`, `WarningsHonest` |
| `RunGoesOn` | each step of run goes forward in a bounded order |
| `EstimateProofs`: `CountsOfTasks`, `RefusalsHaveCause`, `EstimatesHold` | `Counts`, `RefusedForCause`, `EstimateHolds` |
| `LifecycleProofs`: `LifeInvariance`, `SchemaBeforeTraffic`, `GracefulStop` | `LifeInv`, `TrafficHasSchema`, `NoneTurnedAway` |

Every invariant and every action property that a run checks is stated by one of these theorems.
Model-checked only are the five liveness properties, `EventuallySettled`, `SlotsReturned`,
`RunEnds`, `ComesUp` and `Stops`: fairness speaks of ENABLED, which is out of the prover's reach.
The bounds of the runs matter for these five alone.

## Not modelled

- `auth`: a comparison of the request's token, without state; callers are taken as authorised.
- Parsing of the environment, and what `validate` lets through: `PART_MAX_ROWS`,
  `PER_CHANNEL_HARD_CAP` and `PROTECT_MAX_TASK_HITS` may be zero or negative, where the
  modules assume positive limits.
- Counters, histograms and the audit log, which are only added to.
- Queries, mappings and JSON of OpenSearch, pages that lack hits; a PIT that expires is a Search
  that fails.
- Statements that MySQL carries out after their caller has gone on.
- Payload extraction beyond whether a hit has a line; gzip and sha256 of a part.
- `ListStuck`, `ListExpired`, `Delete` of the store: nobody calls them; so neither expiry nor
  the hand-over of tasks across restarts (`README.md:53` plans it) exists in the program.
- `NewTaskID`: ids are taken to be unique, which rests on 80 random bits.
- `EnsureBucket`: its failure is logged and the start goes on.

## Plan

What is left is depth rather than parts: `AppendPart` of a task that is retried, expiry and the
hand-over of stuck tasks, once the program calls them; and a bound on how long a DELETE may
leave objects behind when the day changes between `NewWriter` and `Cancel`. Of the proofs: orders
like that of `RunGoesOn` for submissions, workers and DELETEs, and for the start and the stop of the
process, so that of each liveness property nothing but the appeal to fairness is left to TLC.
