# TLA+ models of the CloudlyNet edge agent

The edge agent sits between radio devices (TR-069 CPEs) and a cloud. It is an ACS for
the devices (CWMP over HTTP), it watches a directory that the devices fill by FTP with
gzipped logs, and it pushes metrics, alarms and log events to the cloud through an SQLite
outbox that survives outages. This directory models the parts of the agent whose
correctness depends on the order of steps: which goroutine runs when, which statement
fails, when the process stops, and what the device or the cloud does in between.

Paths below are relative to `src/goagent/internal/` unless they start with `src/`.

## 1. Inventory

| component | state | operations | interacts with |
|---|---|---|---|
| FTP ingest, `collector/collector.go` | `seenPaths`, `deferred`, `parseFails`, `scans`, `pendingMarks` (scanner only); `events`, `eventMarks`, `requeued` (under `mu`) | `scanFTP`, `takeRequeued`, `markSeen`, `persistScan`, `DrainFTP`, `Requeue`, `MarksIn` | watch directory, ledger, device rows, worker |
| Ingest ledger, `buffer/ftp_ledger.go` | table `ftp_ingested`: path, size, mtime | load, upsert and forget in chunks | collector; `EnqueueWithMarks` writes it with the outbox row |
| Telemetry push, `worker/worker.go` | the batch being enqueued | `pushTier`, `drainCWMPEvents`, `enqueueTelemetry`, `splitTelemetry` | collector, event table, outbox |
| Outbox, `buffer/sqlite.go` | table `outbox`, `queued` byte count | `EnqueueWithMarks`, `evictOldest`, `Drain`, `reclaim` | worker, cloud client |
| Cloud client, `cloud/client.go` | none | `doRaw` (three attempts, 4xx final), register, poll, heartbeat, snapshot, ack | cloud |
| CWMP session, `cwmp/session.go` | `taskQueue`, `results`, `waiters`, `inflight` | `Handle`, `enqueue`, `deliver`, `finishInflight`, `nextTask` | device (HTTP), callers |
| CWMP server, `cwmp/server.go` | `sessions` (by device id, or `ip:<host>` while nothing informed), `byIP` | `routeSession`, `Enqueue`, `Await`, `RequestAndAwait`, connection requests | sessions, worker, collector |
| CWMP store, `buffer/cwmp_store.go` | device rows, parameter cache, writability, `cwmp_events` | upserts, `DrainEvents` | sessions, collector |
| Command loop, `worker/worker.go` | table `applied`, acks | `handleCommands`, `apply`, read-back | cloud, CWMP server |
| Metric and alarm builders, `collector/metrics.go` | none; read the parameter cache | `CollectTier`, `buildMetrics`, `buildAlarms` | parameter cache, sessions (queued reads) |
| Rule engine, SOAP codec, configuration, manifest | none | pure mappings | collector, sessions, start |
| Agent start, `cmd/agent/main.go` | none | opens the database, loads the ledger, starts the goroutines | all |

Four kinds of goroutine run at once: the scanner (2 s ticker), the worker (one select
loop for polls, heartbeats, telemetry tiers, snapshots), the HTTP handlers of the ACS
(one per request, serialised per session by `Handle`'s mutex) and, inside `Await`,
whoever waits for a device.

What is hard, and what makes each part correct:

* **FTP ingest.** Files are rewritten and removed under the scanner; events are in memory
  until the worker inserts them; one upload may be spread over several outbox rows; each
  insert can fail; the process can stop anywhere. Correct means: what is recorded as
  ingested cannot lose events, what is skipped is accounted for, what was finished is not
  parsed again, and what stays in the directory is ingested in the end.
* **Outbox.** A body may be stored by the cloud and its answer lost, or its row not be
  deleted. Correct means: strict order, nothing lost except by the cap, the cap holds and
  evicts no more than it must, and the outbox empties when the cloud is there.
* **CWMP session.** A device may abandon a session after it was handed a task, requests of
  two of its sessions may meet in the handler, and callers time out while an answer is
  on its way. Correct means: a caller gets the answer to its own command, its task is not
  lost while it waits, a reboot is not repeated, a queued write is executed in the end.
* **CWMP server.** Only an Inform names its device; everything else of a session is
  attributed by cookie or source address, and both tables are lost with the process.
  Correct means: a device executes its own tasks, and its data is filed under its own id.
* **Command loop.** The cloud repeats a command until it is acknowledged; calls, statements
  and the process fail between the device's answer, the record and the acknowledgement.
  Answers come from a session with late requests, as above.
  Correct means: the cloud is told what happened, a command is not run twice for a
  lost call, a verified value is in effect, every command is acknowledged.
* **Telemetry tier.** Answers are cached one parameter at a time while samples are taken,
  and rows of a table that are gone stay cached. Correct means: a sample is one read
  of the device where the code can give one, and the samples follow the device.

The hazards, each at its source line and with the properties about it, are in
`PROJECT.json`.

## 2. Modules

| module | models | how it is used |
|---|---|---|
| `FtpIngest` | scanner, ledger, telemetry push, the device's uploads | `MCFtpIngest` runs it; `FtpIngestProofs`, `FtpOnceProofs` |
| `FifoDelivery` | what the outbox promises (abstract) | the property `DeliversInOrder` of `Outbox` |
| `Outbox` | outbox table, worker's drain, HTTP attempts, the cloud | runs directly; `OutboxProofs` |
| `CwmpSession` | one session, its callers, the device and the network | runs directly; `CwmpSessionProofs` |
| `Commands` | command loop, `applied` table, cloud and device at its two ends | `MCCommands` runs it; `CommandsProofs` |
| `Fleet` | the ACS's routing of several devices' sessions | runs directly; `FleetProofs` |
| `Telemetry` | third telemetry tier and parameter cache | `MCTelemetry` runs it; `TelemetryProofs` |
| `Upstream` | `FtpIngest` and `Outbox` composed: from the watch directory to the cloud | `MCUpstream` runs it; `UpstreamProofs` |

`Commands`, `Fleet` and `Telemetry` each sit on a simpler session than `CwmpSession`, which
says what may be assumed of one: tasks in order, one in flight, an unanswered task
queued again unless it is a reboot, a result for whoever asks for its id. `Commands` also has
the late requests of sessions that were given up, since an answer in the wrong place
changes what the cloud is told; `Fleet` and `Telemetry` have not.

A definition whose comment begins with `defect:` is not part of a specification. It is the
mutated form of the definition after it and is there to show that a property can fail.

### FtpIngest

State: `dir` is the watch directory; `known`, `ledger`, `cwmpEvents`, `queued`, `dropped`
are the database (with `queued` the events ever inserted into the outbox and `dropped`
those refused with `ErrPayloadTooLarge`); `events`, `eventMarks`, `requeued` are the
fields under `Collector.mu`; the rest is local to the scanner (`spc` is its place in
`scanFTP`) or the worker (`wpc`, `batch`, `marks`, `start`).

A pass of `scanFTP` is `ScanStart` (`takeRequeued`, `ReadDir`), then per entry in listing
order `SkipSeen` / `RewriteFound` / `Defer` / `StampEntry`, `ReadUpload`, `FinishEntry`
(`markSeen` or a parse retry), then `ScanGone`, and `persistScan` as `ForgetGone`,
`FilterMarks`, `FlushPending`. A step ends where another goroutine, the directory or a
failing statement can come in between. A `pushTier` is `DrainFTP`, `DrainEvents`, and
per body `EnqueuePart` (row and marks in one transaction), `DropPart` (too large) or
`InsertFailed` (`Requeue` of this and all later marks).

Abstractions:

* A stamp (size and mtime) is the version number of the file; every write makes a new
  one. Two different contents with one stamp are outside the model, as they are outside
  what the code can see.
* A content is one of four kinds: partial gzip, log without a classifiable line, log with
  `PerFile` events, log with one event larger than the cap. `ReadUpload` reads one
  version; a file that changes while it is read is covered by "partial".
* Where `splitTelemetry` cuts depends on sizes, so `EnqueuePart` may end a body anywhere
  and `DropPart` takes the bodies that cannot be cut further.
* `deferred` is folded where the code no longer tells two counts apart, and `scans` wraps
  at the re-stat interval. A chunked ledger write that fails may have committed any subset.
* `EventsIn`, `Span` and the like only name sets of events.

### FifoDelivery and Outbox

`Outbox` has the table as a set of rows (id, length, whether the cloud answers 4xx).
`EnqueueWithMarks` is one transaction with `evictOldest`; a refused body or a rolled back
transaction changes nothing. `Drain` reads the oldest `DrainLimit` rows, then for each
`SendAccepted`, `SendRejected` (4xx, not retried) or `SendFailed` (5xx, timeout, broken
connection: the cloud may or may not have stored the body), and `DeleteSent` or
`DeleteFailed`. The worker is one goroutine, so an insert never falls inside a drain.
`reclaim` returns pages to the filesystem, changes no row and is left out. The `queued`
counter of the code is the sum of the lengths of the rows and is not a variable of its own.

`FifoDelivery` has three actions: a body is admitted (which may push out oldest bodies),
the oldest body reaches the receiver, and a body that did leaves. The mapping is
`admitted <- nextId - 1`, `delivered <- received` and `done <- Gone`, where `Gone` is the
number below which all ids have left the table.

### Upstream

`Upstream` extends `FtpIngest` and has an instance of `Outbox` next to it (`wpc`, `batch`,
`faults` and `crashes` of the outbox are `opc`, `obatch`, `ofaults` and `ocrashes`). Three things
join them:

* One goroutine runs both: a push starts only when no drain is under way, and a drain only
  between pushes (`StartPush`, `flushOutbox`). `unflushed` is set when a push has queued a body and makes
  its drain come before the next push; without it a drain is that of a poll tick.
* One transaction: `InsertBody` is `EnqueuePart` and the outbox's `EnqueueWithMarks` at once, so
  row, eviction and marks come together or not at all. `carries[i]` are the events in body `i`.
* One process: `Restart` ends scanner, push and drain together, and leaves the database.

`pushMetrics` is a push without events, whose one body has metrics and alarms only. A length is
chosen freely for each body, as in `Outbox`; a body can be refused (`RefuseBody`) only if some length is over the cap,
and a log with a line larger than the cap exists only if there is a cap (`Outside`).

### CwmpSession

`Handle` is one step per request (`onInform`, `onEmptyPost`, `onAnswerUnawaited`,
`onAnswer`), as it holds the mutex. It is cut only in `deliver`, between the lookup of the
waiter and the send (`finishInflight`), as callers register and leave there. A caller is
`Call` (Enqueue), `Register` (`waitFor`), then `TakeMine`, `TakeShared`, `TakeForeign` and
`PutBack`, or `Timeout`. The device informs, posts empty, executes or refuses the task it
was given, and may `Abandon` the session at any point; the request it had sent is then
lost or, at most `MaxLate` times, handled after requests of its next session. The code
admits this: the HTTP server runs a goroutine per request and only the mutex orders them.

Abstractions: a task is known by the call that queued it, and a result carries (unseen by
the code) the call whose task the device really answered. The device's own RPCs (ATC,
TransferComplete, GetRPCMethods) are answered without touching this state. The two channel
capacities, 256 in the code, are constants. The worker takes snapshots one at a time
(`Asks`), all under one CommandID.

### Commands

The cloud hands out every command that is not acknowledged (`Outstanding`, `Poll`). For each
the worker looks into `applied` and acknowledges again (`Reack`), or runs it: `Apply` queues the
task, `OnAnswer` or `AwaitTimeout` ends the wait, a write that takes effect at once is read
back after a delay (`VerifyDelay`, `OnReadback`), then `MarkApplied`, `Ack` and
`postCommandSnapshot`. Each is a step of its own because the process may stop, the context may be
cancelled, or the device may act, between any two. A statement or a call fails at random
(bounded) and always once the context is cancelled, as the code passes the context on;
the loop over the batch goes on all the same (`Cancel`, then `Exit` when it is done).

The device executes a write at once, soon after its answer (`Settle`), or at the next
reboot (status 1); it refuses tasks and abandons sessions, before it read the task (`Abandon`),
after it executed it (`Answer`), or while its Inform or empty POST is on the way (`GiveUp`). The request of
a session that ended so is lost, or it waits in `late` and is handled between any two
later steps (`Late`), as the mutex of the session orders requests and nothing else does. A late Inform
re-queues the task in flight (`LateInform`), a late empty POST replaces it by the next (`LateEmpty`),
a late answer completes it, whatever the answer was to (`LateAnswer`, through `finishInflight`). Whichever
of these it is, nobody reads the response. Each given-up session and each late request counts as
one failure (`Room`). Abstractions: one parameter; write `n` writes the value `n`, so two spellings of one value
(`valuesMatch`) are one; a type outside the four is "other"; a session is open or
not; the result channels are one sequence from which the awaited id is taken. A failed
poll is a poll that did not happen.

### Fleet

`sessions`, `byIP`, and per session `taskQueue` and `inflight` are the ACS's memory; per device
the model has the address of its open session, its cookie and the task it is working on.
`Inform`, `onATC`, `EmptyPost` and `Answer` are one step each, as routing takes `mu` and `Handle`
the session's mutex and a device has one request under way. Which devices return cookies
and which address a session comes from is open, so NAT and DHCP are in the model. A task is
the id of the device it is for. Whether an orphan is queued again, and whether first
contact queues reads, is left open here (`CwmpSession` has the conditions). `fresh` and `mixed`
only serve the properties: sessions begun since the last start, and sessions that shared
their address with another at some time. A device works on at most `MaxSessionTasks` tasks
and takes the next task from the response to its answer, as a CPE does.

### Telemetry

The device has an alarm table and two counters. `CollectTier` takes the sample from the cache,
as `rrcSuccessPct` and `buildAlarms` compute it, and queues a read; `Answer` is the device's answer,
with only what exists, in the order asked for; each `CacheParam` is one statement,
which may fail, and samples may fall between them. `read` and `partial` record which answer the cache
should show. Other metrics are passed on one by one and have no logic; of an
alarm there are type and severity. A path is a name and a row (0 for a number), and the
alarms of a sample are a function of the row they come from.

## 3. Runs

Passing runs:

| run | question | bounds |
|---|---|---|
| `ftp_rewrites` | Can rewriting, removing, failing statements or a restart make the ledger or `seenPaths` claim an upload whose events are lost, or make a restart parse finished work again? Is a log that stays ingested in the end? | 1 path, 2 versions, 2 events per log, 2 faults, 1 restart, ledger loaded or not |
| `ftp_two_uploads` | Do the marks of uploads that share bodies, with an ATC event among them, go with the right body? Can an ATC event go out twice, or be lost without a failure? | 2 paths, 2 events each, 1 ATC event, 1 fault, 1 restart |
| `outbox_cap` | Cap, minimal eviction, no loss, order; does the outbox implement `FifoDelivery`? Does every body leave? | sizes 1, 2, 3 and 5 around a cap of 4, 5 bodies, 4 outages, drain limit 2 |
| `cwmp_reboot` | Can a reboot command reach the device twice? Do the channels keep their capacities? | 2 calls, 2 abandoned sessions, 1 late request, 1 fault |
| `cwmp_two_callers` | Does each of two callers that meet each other's results get its own answer, is no awaited task lost, and is a queued task executed? | writes and snapshots, 3 calls, 1 abandoned session |
| `command_loop` | Is the cloud told what happened and what is on record? How often can a command run? Is a verified value in effect? Are writes executed in order? Is every command acknowledged? | 2 commands (two writes; reboot and write; query and unknown), 2 failures of any kind, which includes a given-up session with its late request |
| `fleet` | Can a device execute another's task, or be filed under another's id? Do all devices come to be read again? | 2 devices, 2 addresses, queue of 1, 1 restart, 1 session cut short |
| `telemetry_tier` | Is a sample one read of the device? Can the success rate exceed 100? Do the samples come to show a settled device? | 5 alarm tables of 0 to 3 rows with 2 rows read, 3 steps of the device, 1 failed statement or restart |
| `upstream` | Can a restart, a failed insert or a failed send leave an upload recorded whose events are nowhere? Can the cloud have a line of a log without those before it? Do push and drain ever overlap? Does a log that stays arrive? | 1 log of 2 lines, 1 fault, 1 outage, 1 restart, 1 body of metrics, bodies that the cloud rejects; lengths 2 and 5, cap 4 |

What the properties of `Commands`, `Fleet` and `Telemetry` ask, and what they leave out:

* `RebootsPaidFor` bounds the runs of a reboot command by one plus the number of failed
  statements and stops: lost polls, acknowledgements and abandoned sessions alone never repeat it.
* `OutcomeOnRecord` holds through crashes and lost acknowledgements because `MarkApplied` comes before
  `Ack`. A failed statement breaks it (the command runs again and may end otherwise), so it asks for none.
* `AppliedWasExecuted` asks that no request was handled late (`lates = 0`), and the code does not give it
  without: a late answer with status 1 to an abandoned write completes the write then in flight
  (`cwmp/session.go:179-187` compares neither type nor `cwmp:ID`), `apply` reports that one as applied
  without a read-back (`worker/worker.go:305-308`), and as nothing is in flight any more it is not
  queued again. TLC finds a violation of the unrestricted formula with one given-up session
  and one late request; `cwmp_late_answer` is the run that shows the cause. Lost requests, stops and failed
  statements do not break it.
* `VerifiedIsInEffect` needs the command to run once (`Interruptions = 0`: after a stop or a failed statement it may run
  again and be in effect only later), and the last write executed to be the
  verified one; a write that is executed late may replace it, which the cloud does not learn. It also asks
  for `lates = 0`: a late answer to an older read of the same parameter can be taken for the read-back.
* `WritesInOrder` is about the queue: late writes keep their order. It excludes abandoned sessions,
  because `requeueOrphanedTask` appends: with one, an older write does end up after a newer one.
* `OwnTasksOnly` and `RoutedRight` are about `Exact` devices: begun since the last start, and with a cookie or
  an address of their own. These are the cases the code claims; `fleet_restart` shows the case
  it claims and does not have. Without cookies behind one address, or with a
  session from before a restart, the wrong device can be handed a write.
* `PctAtMost100` rests on the order of `tierReadPaths`, attempts before successes.

Runs that end in a violation, each a disagreement between the code and what a document or
comment of the repository says (the quotes are in `PROJECT.json`):

| run | what it shows |
|---|---|
| `cwmp_late_answer` | A late answer of an abandoned session is taken for the answer to whatever task is in flight. |
| `command_reboot` | An executed reboot is executed again if the agent stops, or a statement fails, before it is on record. After SIGTERM even a command on record runs again, as the lookup fails in the cancelled context. |
| `fleet_restart` | After a restart in mid-session a cookie names no session, and the request falls to whichever device informed last from the shared address. |

`OwnAnswer` and `AwaitedIsKept` therefore hold with `MaxLate = 0` and room in the shared
channel (`cwmp_two_callers`), and not without these. `RebootAtMostOnce` holds with late
requests too.

More disagreements are visible in the models and have no run of their own:

* `DrainEvents` marks an ATC event uploaded before the insert that carries it
  (`buffer/cwmp_store.go:162`), and a failed insert hands back only the marks of uploads: the event is never
  sent, although `src/README.md:51` says one is emitted "on each ATC into the telemetry batch". `AtcKept` therefore asks
  that no statement failed and the agent did not stop; without this it fails.
* With `MaxLate = 1`, `AwaitedIsKept` fails as well: a late empty POST pops a task nobody
  receives, and the next one overwrites it in `inflight` (`cwmp/session.go:256`), so it is
  not re-queued although its caller waits.
* With `ResultsCap = 1`, `AwaitedIsKept` fails without any late request:
  `RequestAndAwait` queues before it registers, and once late answers nobody collects have
  filled the shared channel, an answer that arrives in between is dropped. The comment at
  `cwmp/server.go:252` says a fast device cannot answer in between.
* All snapshots of a device use one CommandID (`collector/collector.go:250`): the late answer to
  one that timed out is returned as the fresh read of the next. `OwnAnswer` allows a
  snapshot the answer of any snapshot for this reason.
* When the ledger could not be loaded the agent goes on, but `markSeen` then keeps no mark
  (`collector/collector.go:478`): after a failed insert there is nothing to requeue and the events are gone.
  The comment of `Requeue` says they are never lost. `SeenAccounted` and `EventuallyIngested` ask for a ledger.
* Metrics and alarms over the cap share the first body with one event, and that event
  is dropped with them (`DropPart` with `start = 0`), however small it is. The README says
  only an event larger than the whole cap is dropped (`src/README.md:81`).
* A mark drained before its path left the directory is persisted after the path was
  forgotten, and its row stays until the next start; the README says rows go on the next
  scan (`src/README.md:88`).
* A Fault in answer to a query or a reboot is acknowledged as "applied": `apply` looks at the
  error of a write only (`worker/worker.go:331`, `:337`).
* `src/README.md:46` and `src/Agent.md:18` say the agent reads back "until all requested values match or
  `command_verify_timeout` expires"; the code reads once (`worker/worker.go:317`), so a write that takes effect a
  little later than `command_verify_delay` is acknowledged as failed.
* A write that timed out and was acknowledged as failed stays queued and may be executed later.
* A sample taken while an answer is cached mixes two answers: an alarm can have the type
  of one and the severity of another, a cleared alarm can show once more, and the success
  rate can exceed 100 after the counters start again. `buildAlarms` says it "folds a raw GPV result"
  (`collector/metrics.go:142`); it folds the cache.
* After a restart in mid-session a device alone on its address is routed to a provisional
  session without an id, so its parameters and events are stored under the empty id.
* The test suite's device discards the task it is handed in the response to its
  own answer (`src/testsuite/device.go:355-372`); that task waits until the next Inform re-queues it, and
  a reboot or a background read handed out that way is lost. The models' devices take it.

### Why the bounds are enough

Two versions of a file are the least with which a mark can be stale; two paths and two
events per log the least with which a body can end inside, between and after uploads.
The limits of the retry counters are 2 (1 for the fast window), which has a scan below,
at and after each limit. Faults, outages, restarts and abandoned sessions are one more
than a single recovery needs where the state space allows it. The outbox sizes include
one that equals the cap less one, pairs that sum to it exactly, and one that is over it; a
drain limit of 2 with 5 rows makes several drains necessary. In `CwmpSession` a queue of 3
or 4 and a shared channel of 1 to 3 are full in reachable states.

Two commands are the least with which one can overtake another, or meet a batch that a
signal cuts in two; two failures are a fault and the failure of its recovery, or a session that is given up and
its request that is handled late. With that `command_loop` has about a million states; instances of three failures
with two writes, and with a reboot and a write, were checked for safety as well. Two devices and
two addresses give sharing, swapping and moving; a queue of one is full at once. Three
rows where two are read put the alarm table below, at and above the limit, and three steps of
the device let it change before, between and after two answers.

In `upstream` two lines are the least that can be cut into two bodies, and one outage the least that
leaves a row behind. With lengths of 2 and a cap of 4 two bodies fit exactly and a third evicts the
first; 5 is over the cap. `MaxRows` is never reached. A row whose `DELETE` fails is sent again, as one whose
drain a restart cuts; the first is left to `outbox_cap`.

No module deadlocks: the scanner, the drain, the poll, the device and the tickers always have a step. Deadlock is checked in all runs.

### Fairness

* `ftp_rewrites`: weak fairness of the scanner and of the worker. The 2 s ticker starts every
  scan and the telemetry ticker every push; a scan or push that started goes on, as all its
  calls return. Nothing is assumed of the devices or of restarts, which are bounded.
  `EventuallyIngested` asks only for uploads that stay, in a readable version, of a device
  that is known, with a ledger.
* `outbox_cap`: weak fairness of `flushOutbox`, which every poll tick runs. Outages are
  finite, which is "once the cloud is reachable". A body the cloud answers with 4xx
  stays at the head and blocks the rest; the property says so, and so does the code.
* `cwmp_two_callers`: weak fairness of the handler (the HTTP server runs it) and of the device,
  which informs periodically (60 s in the deployment) and follows the protocol. Abandoned
  sessions are finite.
* `command_loop`: weak fairness of the worker only. Its ticker polls, and every wait it makes has a
  deadline; `EventuallyAcked` holds with a device that never answers.
* `fleet`: weak fairness of each device's sessions and turns and of the tickers that queue reads
  for a known device. Restarts and sessions cut short are finite.
* `telemetry_tier`: weak fairness of the device's answers, of a handler that has begun and
  of the tier's ticker. The device settles because its steps are bounded.
* `upstream`: weak fairness of the scanner, of `flushOutbox` and of `pushTier`. Each has a ticker, and
  the select loop serves them all, as each call it makes returns. Outages and restarts are finite. A
  log held up behind a body that the cloud rejects is allowed by the property, as by the code.

## 4. Proofs

The theorems hold for every value of the constants that satisfies the named assumptions,
one in each module (`ConstantsAssumption`, `OutboxAssumption`, `SessionAssumption`,
`CommandsAssumption`, `FleetAssumption`, `TelemetryAssumption`, `UpstreamAssumption`). They say no more than that
bounds and limits are natural numbers, limits are positive and names are typed and distinct
from the values that stand for "none". Every safety property of the passing runs is proved;
two of `CwmpSession` carry the hypotheses under which the code has them.

**`FtpIngestProofs`**

* `TypeCorrect`: `Spec => []TypeOK`, one lemma for each of environment, scanner and worker.
* `LedgerSound`: `Spec => []MarkedIsQueued`. The invariant speaks of the ledger only, and
  the ledger is written from marks that were made long before, so it is not inductive.
  `IndInv` adds: `StampsBehind` (no stamp anywhere is newer than the file), `EntryStamped`
  (the stamp of the entry in hand is not newer than the content that was read, which is
  why the code takes the stamp before it reads) and `MarksCovered` (a mark that still has
  the file's version covers that version's events: a pending mark and a ledger row those
  handed off, a mark with `end = n` those among the first `n` of its queue or batch). A
  rewrite makes a mark harmless, as its stamp is then behind; a step that writes the
  ledger is covered by `UpsertCovered`.
* `SeenNeverLost`: `Spec => []SeenAccounted`, on top of `IndInv` with `TrackInv`:
  `SeenTracked` (a path seen in the file's version has its events handed off, has a mark
  that travels with them, or is requeued), `GoneUnseen` (a path about to be forgotten is no
  longer seen) and `MarksInUse`. It is here that `FilterMarks` may drop marks: only of paths
  that are not seen any more.

**`OutboxProofs`**

* `OutboxLosesNothing`, `OutboxIsFifo`, `OutboxRefinesFifo`: `Spec => []NothingLost`,
  `[]StrictFifo` and `DeliversInOrder`. All rest on `OutInv`: the ids in the table are
  a window `(d+1)..(nextId-1)` (`TableInv`), a batch is read from the table and starts
  with its oldest row (`BatchInv`), and what the cloud has is at most one row ahead of
  `d`, and that row is the first of the table (`ReceivedInv`). The window makes the
  `CHOOSE` of `Gone` determined; the refinement is then a case split over the actions,
  of which an insert is `Admit`, a send that reaches the cloud for the first time
  `Deliver`, a delete `Settle` and everything else a stutter.
* `OutboxTypeCorrect`: `Spec => []TypeOK`, a conjunct of the same invariant.
* `OutboxUnderCap`: `Spec => []PayloadUnderCap`. The payload is a fold over a set of rows, whose value
  only induction gives. Instead of an induction scheme each such fact is proved by its smallest
  counterexample: if it failed for some finite set it would fail for one of least cardinality
  (`SmallestSet`, from the well-foundedness of `<`), and taking one row away contradicts that. `PayloadRemove`,
  `PayloadAdd` and `PayloadSplit` come from this; with them `CapInv` follows from what an
  eviction frees (`EvictedInv`).
* `OutboxEvictsShortestRun`: `Spec => ShortestRun`, an action property: without its newest row the
  evicted run would leave too little room.
* `EvictionIsDetermined`: for every length there is exactly one run that `evictOldest` allows, in every
  reachable state. The run is given by a condition in the model, so this says that the condition neither blocks
  an insert nor leaves a choice, as the loop over the rows does not.

**`FtpOnceProofs`** (on top of `IndInv` of `FtpIngestProofs`)

* `AtcSentOnce`: `Spec => []AtcAtMostOnce`. `AtcInv` adds that rows are numbered upwards
  (`AtcRows`), so that those a drain leaves behind differ from those it takes, that no reported
  event has a number still to be given (`AtcReported`), and that the events of uploads
  are no rows (`FtpEvents`).
* `AtcStaysKept`: `Spec => []AtcKept`. A step takes an event from the table, the batch or the queue only by
  putting it into the next; `KeptInv` adds that an idle worker has no batch (`BatchAtRest`), which `DrainFTP` would overwrite.
* `NothingIsReparsed`: `Spec => NoReparse`, an action property: a parse never meets a
  stamp that the ledger has. A stamp gets there from a mark, which travels through `eventMarks`, the
  batch, `requeued` and `pendingMarks`, so `OnceInv` says that the stamp of the entry in hand is in
  none of these (`EntryFresh`), as is the version of every file that is not seen (`Fresh`). For a requeued
  mark, which makes a file unseen, this needs that a mark is in one place only (`Single`), and for
  a path that is forgotten that it was gone or changed since (`AbsentOld`).

**`CwmpSessionProofs`**

* `SessionTypeCorrect`: `Spec => []TypeOK`, with `Basic`: who has which call (`CallInv`), tasks are
  those of calls (`TaskInv`), a waiter that was looked up waits for that id although it may have timed out
  since (`WaiterInv`), and results carry ids (`ResultInv`).
* `RebootsOnce`: `Spec => []RebootAtMostOnce`, with late requests. `RebootInv`: a reboot that was not
  sent has one copy, and none in the queue once the device has it or executed it.
* `AnswersAreOwn`: `Spec => [](lates = 0 => OwnAnswer)`. `AgreeInv` says that until a request is
  handled late the device and the agent agree on the task in flight, and `TrueInv` that every
  result has the id of the call it answers. The hypothesis is needed: it is what `cwmp_late_answer` refutes.
* `AwaitedStaysKept`: `Spec => []((lates = 0 /\ calls <= ResultsCap) => AwaitedIsKept)`. That
  no result is dropped is a counting argument: tasks and results under way are no more than the
  calls made (`CountInv`), so the shared channel has room. Both hypotheses are needed, as section 3 says.

**`CommandsProofs`**

* `CommandsTypeCorrect`, `ToldIsOnRecord`, `AppliedMeansExecuted`: `[]TypeOK`, `[]OutcomeOnRecord` and
  `[]AppliedWasExecuted`, whose formula has the hypothesis `lates = 0`. `RecordInv` follows a command between
  `MarkApplied` and `Ack`. `HandedInv` says that until a request is handled late the task in flight is the one the
  device works on, if a restart has not forgotten it (`AnswersAreOwn` of `CwmpSessionProofs` in this
  model). `OwnInv` then carries "was executed" from the result to the verdict, the record and the
  acknowledgement (`ExecutedInv`).
* `RebootsArePaidFor`: `[]RebootsPaidFor`. `PaidInv` bounds, for each reboot command, its runs plus the
  copies of it under way plus the tasks the worker may still queue before another failure
  (`More`) by `1 + faults + stops`. `More` is where SIGTERM costs: the rest of the batch runs without its record.
  Late requests are included: they queue no reboot again and hand none to the device (`LateCopies`).
* `WritesStayInOrder`: the action property `WritesInOrder`. `CleanInv`: without stops, failed statements and late requests (which come
  from abandoned sessions only, `QuietInv`), commands
  begin in the order of issue, each once; `OrderInv`: the writes in the queue and in flight are in order.
* `VerifiedStaysInEffect`: `[]VerifiedIsInEffect`. `EffectInv`: a write has one copy, and none once
  its read-back is under way, so that a value read back stays (`LastInv`) until another write runs. It has the
  hypotheses of `VerifiedIsInEffect`: no stops, no failed statements, no late requests.

**`FleetProofs`**

* `FleetTypeCorrect`, `FleetOwnTasks`, `FleetRoutesRight`, `FleetAlone`: all from `FleetInv`. Tasks stay with
  the session of their id (`QueueInv`); since the last start a cookie names the device's own
  session (`CookieInv`); a device with an address to itself is the last that informed
  from there (`AddressInv`), and after a restart at least nobody else is (`AloneInv`).

**`TelemetryProofs`**

* `TelemetryTypeCorrect`: `[]TypeOK`. Its main part is `AnswerFacts`: what `Answer` puts into `caching`,
  for every table and every number of rows read.
* `SamplesShowOneRead`: `[]SampleIsOneRead`. `ReadKept`: as long as nothing of the last answer was lost,
  each path that exists is still to be cached with its value, or is cached with it.
* `PctStaysBounded`: `[]PctAtMost100`. `PctInv`: until the counters start again or a statement fails,
  the cached successes are covered by the cached attempts (`Counted`), and the successes still to
  come by attempts that come first or are cached (`Coming`). This is where the order
  of `tierReadPaths` is needed.

**`UpstreamProofs`** (on top of `FtpOnceProofs` and of an instance of `OutboxProofs`)

* Every step of `Upstream` is a step or a stutter of each component (`OutboxStep`, `IngestStep`), so `UpSpec`
  implies both specifications (`KeepsOutbox`, `KeepsIngest`) and every theorem above about them holds of the composition.
* `UpstreamLinked`: `UpSpec => []LinkOK`, with `UpstreamRecordedIsCarried`: `UpSpec => []RecordedIsCarried`.
  `CarryInv` says that every event ever inserted is in some body of `carries`; then `MarkedIsQueued` puts the events
  of a recorded upload into bodies, and `NothingLost` puts the bodies into the table, at the cloud or
  among the evicted. Neither component can say it alone: one does not know what leaves the outbox, the other
  not what is in a row.
* `UpstreamLinesInOrder`: `UpSpec => []LinesInOrder`. `SeqInv`: in the event queue and in the batch a line of a
  log comes after those before it, and what precedes `start` in the batch is inserted or refused. `CarriedInOrder`: a body has a line only if this or an earlier body has
  the lines before it, or they were refused. `StrictFifo` then brings the order of bodies to the cloud: what is older than a body that
  arrived does not wait any more.
* `UncappedLosesNothing`: with `MaxBytes = 0` nothing is evicted or refused, so an event of a recorded upload waits
  in the outbox or has arrived.

Only model-checked: liveness, as fairness is outside the prover. The three properties that the code
violates are refuted by TLC.

## 5. Not modelled

* The digest exchange of a connection request (`cwmp/connrequest.go`): it only makes a device
  inform earlier, and `Inform` is possible at any time in the models.
* Registration and heartbeat: stateless calls, repeated until they succeed.
* Rule engine, SOAP codec, device ids, manifest: stateless mappings. A log is
  modelled by how many of its lines are classifiable, a device id by the device.
* Configuration and enrollment: read once at start.
* The first two telemetry tiers: values that are passed on, without logic; their reads
  go the way of the third's.
* The stored writability of a single parameter, which nothing in the agent reads.
* Some failures of single statements and reads, where the code ignores the error or repeats the
  step: a complete log that cannot be opened or read (`FtpIngest` fails a parse only when the file is gone or
  half written; both count against the same limits), a failed `ListDevices` that defers the
  log of a known device, more than one failed `UPDATE` in one drain of CWMP events, and an ATC event whose
  insert fails (`AtcKept` is about the events that are in the table).
* Lost or refused answers in `Telemetry`: a read without an answer is a read that was not asked for yet. Reads of
  the same paths by commands are left out there.
* In `Fleet`, a Fault with nothing in flight (204, `cwmp/session.go:156-159`) is not told from another answer;
  `CwmpSession` and `Commands` have it.
* In `CwmpSession`, the private channel of a snapshot that timed out counts as a place where the
  result of a later snapshot can be, because all snapshots have one CommandID; `AwaitedIsKept` says less of
  snapshots than of commands.
* In `Commands`, the reads of first contact and of the background: they carry no CommandID, and their answers
  are delivered to nobody.
* Page reclaiming, logging, install scripts, and of the test suite everything but
  the mock device's sessions and uploads and the mock cloud's command handlers.

## 6. What could come next

1. An abstract specification of ingest (a log is pending, then carried, then delivered) that
   `Upstream` refines; at present `RecordedIsCarried` and `LinesInOrder` say it as invariants.
2. Pure algorithms against reference definitions: `splitTelemetry` (a partition in order,
   every part within the cap or a single event), `CanonicalID`, configuration precedence.
