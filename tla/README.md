# A TLA+ model of the loongsuite-pilot collector

loongsuite-pilot is a daemon (`src/src/`, TypeScript on Node) that collects what coding agents do on a machine: it
tails their logs and hook spools, normalises the records, and delivers them to SLS, HTTP, local JSONL and OTLP traces.
A second daemon updates it and restarts it. This directory specifies the part of it in which the order of callbacks,
crashes and failures decides whether records are lost, repeated or stuck, checks the specification with TLC and
proves what matters most with TLAPS.

Contents: [the system](#the-system), [the modules](#the-modules), [what the runs check](#what-the-runs-check),
[bounds](#bounds), [fairness](#fairness), [conditions of the properties](#conditions-of-the-properties),
[what is proved](#what-is-proved), [abstractions and what is left out](#abstractions-and-what-is-left-out), [plan](#plan).

## The system

JavaScript runs one callback at a time. Concurrency is therefore the interleaving of code between awaits: timers,
watch events, promises of the network and of the file system. Processes are several only where two daemons start,
where hooks (short scripts run by the agents) write files the daemon reads, and where a process dies and starts again.

| component | state | operations | talks to | hard | module |
|---|---|---|---|---|---|
| checkpoint store, `checkpoints/state-store.ts` | one map of cursors for all inputs, revisions, one background writer, output holds, a latched failure; `input-state.json` | `load`, `set`, `update`, `delete`, `holdSaveUntil`, `save`, `isPersisted` | every input, the input manager | changes and holds arrive while a file is written; overlapping saves; the process dies around the rename | StateStore |
| collection, `inputs/base/base-input.ts` and its subclasses | cursor, `startPromise`, `stopPromise`, `cyclePromise`, timer | `start`, `stop`, poll, collect | store, input manager | `start` and `stop` overlap each other and a cycle that waits for other inputs' outputs | InputLifecycle, DurableDelivery |
| input manager, `core/input-manager.ts` | one FIFO of batches per input, `checkpointFailed` | emit handler, `dispatchEntries`, `startInput`, `stopInput`, `stopAll` | inputs, masking, outputs | a failed batch with others queued behind it | DurableDelivery |
| SLS output, `flushers/sls-flusher.ts` | a queue per endpoint and agent type, one flush, counters, the failure log | `send`, `sendBatch`, `flush`, `shutdown` | SLS | several endpoints and requests to a batch, retries of what arrived, shutdown during a flush | SlsFlusher |
| Codex trace turns, `flushers/otlp-trace-flusher.ts`, `codex-turn-journal.ts` | turn buffers, `batchDepth`, pending and acknowledged files | replay, `sendBatch`, export, acknowledge, evict | the exporter, disk | crashes between two file operations, late and repeated records, overlapping batches | CodexTraceTurns, CodexTurnJournal |
| agent discovery, `core/agent-discovery-service.ts` | one entry per input: idle, starting, running, stopping; a pending refresh | `start`, `stop`, `processEntry` on watch events and polls | input manager, orchestrator | bursts of events, failing starts, a shutdown in the middle | AgentDiscovery |
| file pipelines, `pipeline/input/file/`, `pipeline/flusher/file/` | reader queues per path, offsets by device and inode, one bounded sender per pipeline | poll cycle, rotation, `enqueue`, flush, start, stop, wake | SLS | rotation under backpressure, offsets saved ahead of delivery, stop during a cycle | FilePipeline |
| pipeline manager, `pipeline/pipeline-manager.ts` | pipelines and their configuration hashes, one rescan and one request for another | `start`, rescan, `stop` | the configuration directory, the pipelines | files that change during a rescan, a stop during one | PipelineManager |
| updater, `updater/updater.ts` | version directories, pointers, scripts, pinned runtime, hotfix | check, deploy, restart and confirm, clean up, hand over | launcher scripts, the collector, the CLI's rollback | crashes between pointer writes, a rollback that takes no lock, whose health report it is that came | Updater |
| local workers, `local-workers/`, `deployment/worker-manifest-supervisor.ts` | instance files, runtimes, pid and status files, active fingerprints | refresh, deploy, start, stop, exit handling, restart | worker processes, the next daemon | exits and restart timers that race a stop or the next deployment, deaths of the daemon | LocalWorker |
| single-instance lock, `utils/single-instance-lock.ts` | a lock file with pid, owner id and start token | acquire, stale take-over, `release` | both daemons, the interceptor, edits of shared settings | several processes, pid reuse, deaths between two system calls | SingleInstanceLock |
| orchestrator, `core/orchestrator.ts`, `index.ts` | the parts above and their order | `start`, `stop` | all | the order of a shutdown | the shutdown of inputs in AgentDiscovery |
| watchdogs, `core/updater-watchdog.ts`, `core/hook-watchdog.ts` | heartbeats, grace windows | check, restart, repair | updater, agents' settings | two restarts of one process | none |
| HTTP and JSONL outputs, OTLP export of other agents | buffers, circuit breakers | `send`, `flush`, `shutdown` | services, disk | partial failure | none; DurableDelivery sees whether they accept |
| Qoder API pipeline | cursors by endpoint | poll | a web API, SLS | paging, late records | none |
| deployment, `deployment/`, `hooks/` | hook entries in other tools' settings | deploy, repair, remove | agents, hook watchdog | concurrent edits | none |
| interceptor, `interceptor/` | verdicts by tool call | decide, link to results | hooks | late and lost verdicts | none |
| multimodal upload, `multimodal/` | an upload queue | process, upload | object storage | limits, shutdown | none |
| metrics, `metrics/` | counters, a spool written by hooks | drain, write | disk | a crash between deletion and report | none |
| retention, masking, normalisation, status bar, dashboard, CLI, installers | little or derived | mostly pure functions and presentation | | | none |

What makes the core correct:

* a cursor on disk never passes a record that an output which must take it has not taken, whatever fails or dies;
* progress that was made is on disk in the end, and `isPersisted` never claims more than is there;
* a turn is acknowledged only when its trace, with all its records, was exported; what a committed cursor has passed
  can be rebuilt from the journal;
* an offset of a followed file never passes a line that is not sent, logged as failed or in memory; a rotated file is
  read to its end before its successor;
* what an output counts as written arrived, and a Codex batch is accepted only when every endpoint has all of it;
* `start` and `stop` leave either a running input, pipeline or worker, or nothing, and `stop` ends;
* a shutdown leaves nothing running that it found;
* one pipeline for a configuration, one worker for an instance, one holder of the lock;
* whatever step an update fails or dies in, the pointers name an installation that starts, and the newest release runs
  in the end.

## The modules

```
AtLeastOnce  <--implements--  DurableDelivery --.
                                                EXTENDS
AgentDiscovery --EXTENDS--> InputLifecycle ---> StateStore
CodexTraceTurns --EXTENDS--> CodexTurnJournal
FilePipeline   PipelineManager   SlsFlusher   Updater   LocalWorker   SingleInstanceLock
```

The theorems of a component and their proofs are in the module named after it with `Proofs`: CodexTraceTurnsProofs,
FilePipelineProofs, SlsFlusherProofs, UpdaterProofs, LocalWorkerProofs, PipelineManagerProofs and SingleInstanceLockProofs. Those of StateStore and
of the two compositions with it (DurableDelivery; InputLifecycle with AgentDiscovery) are together in CollectionProofs.

**StateStore** is the store. `revision`, `inputRev` and `extraRev` are the counters of the code, `states` the map in
memory, `disk` the file. `saver` is where the background writer stands: `"none"` (no `savePromise`), `"holds"` (waits
for the outputs it saw, `awaited`), `"writing"` (a snapshot taken, target fixed), `"landed"` (the rename happened, the callback
has not run), `"settled"` (the promise has a result, its `finally` has not run). `FlushLoop` is the loop of
`flushPendingRevisions` from one await to the next. `Crash` may come anywhere, also between the rename and
its callback: the next lifetime starts from `disk`. `heldAt` and `diskRevision` are history variables.

**DurableDelivery** adds the cycle of every input and the FIFO to the outputs. `produced` is what the agent has
written, `cycle` the phase, `queue` the batches handed over, `result` what each output said of the first one, and
`accepted` (history, survives crashes) what each has taken. A Codex input emits a batch with a hold and then moves its
cursor (`Emit`, `Advance`); any other moves the cursor while it collects and emits later. A collection may fail
between the two. `DurableOutputs` are the ones that reject with a durability error, which freezes the store; an
ordinary error is swallowed, as in `MultiFlusher`. **AtLeastOnce** is the abstract promise: outputs take records in any order and any number
of times, and the cursor moves forward over records all of them have taken.

**InputLifecycle** is `BaseInput`'s `start`, `stop`, first cycle, poll timer and cycle, with the promise fields as variables.
What the collect of this input and all other inputs do to the store is any action of
StateStore at any time (`Activity`), which is a superset. **AgentDiscovery** adds one entry of the discovery service and
the shutdown of the orchestrator up to `stopAll`; `rejected` is a history variable.

**CodexTurnJournal** holds the operations on the pending and acknowledged files, each file operation a step of
its own. A torn append leaves an incomplete last line; the next append repairs it. **CodexTraceTurns** is the flusher over it: replay at the
start, check for acknowledged turns, append, buffer, complete, export, acknowledge, evict. The input's side is reduced
to its cursor, `saved` and `latched`. `spilled` holds the turns whose payload is read back from the journal at their export; `ahead` (history) holds the turns of which a batch was handled behind a failed one.

**SingleInstanceLock** has one process lifetime per element of `Procs` and a pid that may be reused. Link, read,
inspection, unlink, and the two halves of `release` are separate steps. `crossed` (history) records that a take-over
removed another file than the one it had judged.

**FilePipeline** is one path of one pipeline. The owner writes, rotates, truncates and removes; `queue` is the reader
queue, `poll` where the cycle awaits (`check` for rotation, `look`, `read`), `bucket` the sender's buffer with the part
in `flight`, `pending` the lines the full sender refused, `disk` the checkpoints. A step is the code from one await of
the file system to the next: detection of a rotation with its eviction, the read of a slice and its hand-over, the save
at the end of the cycle. A rename may come at any moment, also between the check and the read, which opens the path by its
name (`ReadsAnother`). `lossy`, `again` and `misread` (history) record that lines died with memory, that a file was read a second
time, and whose reader was made to read the successor of its file. `FileInv` says how files, readers and lines are ordered (`FilesInOrder`, `ReadersInOrder`, `WaitingInOrder`), what a stop
leaves (`StoppedIsSettled`), and that no line is taken twice (`TakenOnce`), which holds because whatever a reader has not read is
later than all that was received (`FreshIsLater`).

**PipelineManager** has one version per configuration file, the events of the watcher, the timer, and the rescan as it awaits
the stops and starts of pipelines one name at a time. `live` counts the pipelines that really run under a name, whatever the maps say.
A file that is being rewritten (`torn`) does not parse.

**SlsFlusher** has two kinds of jobs, flush and Codex batch, in a pool of `FlushConcurrency` workers, one job for each bucket:
an endpoint with a service name has one bucket per agent type (`SplitByType`, `AgentType`), any other has one. What fails is
handed to the failure log, which keeps its record or drops it (`Drops`: a failed append, a directory at its limit).
`Request` is one post with its four outcomes: taken, taken with the answer lost, refused, cancelled; a request that
is retried may leave a copy at the service. `arrived` and `arrivedCodex` are what the services really took, the counters
what the flusher says they did.

**Updater** steps through a check as the code writes: candidate, rename, `previous`, `current`, scripts, pin; then
restart, health, canary state, clean-up, handover; or the undoing of a switch. `CollectorStarts` is the service manager with
`collector-daemon.js`. A death of the updater may come between any two steps. The `Rollback*` actions are the CLI's
`rollback`, one file at a time, with the swap back after a failed copy of the scripts and the stop and start of both
services; it takes no lock, so it may begin, go on or die at any moment of a check. `met` (history) records that it ran
beside one.

**LocalWorker** is one instance. `record` is the runtime object of the supervisor (`restarts`, `stopping`, `stopped`,
`stopAttempt`), `current` the one registered under the pid file's path; `stops`, `starting`, `handler` and `timer` are
the continuations that wait: a stop per caller, a start per runtime, an exit handler per process, restart
timers. A process is a runtime with its restart count. The pid file survives the daemon, the maps do not. The status write or
removal of an exit handler, and the writes a restart begins with, may fail, which ends the chain of restarts (`HandlerFails`, `StartBreaksOff`). A
deployment does not wait for what was in progress before it: where it comes beside an exit, start or stop, `overtaken` (history) is
set and the daemon is followed no further, while the next daemon finds whatever such a one can leave (`RestartsAnew`). `OneWorker` and
`Findable` are the promise; `WorkerInv` is these with what they rest on: what may bring a worker about is one thing at a time
(`OneToken`), children are watched (`ChildrenWatched`), stops are attempts that later ones join (`AttemptsShared`), and what the last
stop of a deployment or a shutdown leaves (`LastStop`, `ReadyToStart`, `LastOfAll`).

The `MC*` modules hold symmetry definitions where a run uses one; the `.cfg` files give the constants. Operators
named as mutants in their comments (for example `FlushLoopIgnoringHolds`) are not part of any specification: each is
the code with one plausible bug, kept to show that the property beside it notices.

## What the runs check

| run | properties | what it shows |
|---|---|---|
| `state_store` | `IInv`, `UnacceptedOutputNotCheckpointed`, `PersistedIsOnDisk`, `DiskOnlyAdvances`, `ChangesReachDisk` | two inputs and two holds share the store through saves that overlap, failing writes and a crash: no write carries progress of an unaccepted output, `isPersisted` is true only of what a restart would find, the file only advances, and changes are written in the end |
| `durable_delivery` | `DeliveryInv`, `HandedInOrder` | a Codex input and another one share the store; collections fail half way, outputs fail, the daemon restarts: the durable Codex cursor covers accepted records only (`CodexCursorCovered`), Codex leaves no gap and the other input repeats nothing |
| `durable_delivery_overlap` | `ImplementsAtLeastOnce`, `CodexRecordsCheckpointed` | two outputs and overlapping batches: the delivery refines `AtLeastOnce`, and records end up behind the durable cursor |
| `input_lifecycle` | `LifecycleInv`, `NoCollectionDuringCleanup`, `StopEnds` | overlapping `start` and `stop` in any order, failing startups, a watcher and a busy store |
| `agent_discovery` | `DiscoveryInv`, `ShutdownIsFinal`, `ShutdownEnds` | checks, rejections, bursts, failing starts and a shutdown at any moment |
| `codex_trace_turns` | `TraceInv`, `CommittedRecoverable`, `AcknowledgedTurnsComplete`, `NoCompletedTurnLeftBehind` | torn appends, failed exports, evictions of open turns and of acknowledgements, spilled payloads, batches behind a failed one, crashes between any two file operations |
| `file_pipeline` | `FileInv`, `NothingSkipped`, `RotatedIsRead`, `EveryLineSettled` | a file is written, rotated, truncated and removed while a pipeline whose sender is full after two lines follows it, stops, dies and starts again, and a rename may come between the check for it and the read: offsets pass only lines that are settled or in memory, lines are taken once and in order, and those of a followed file are settled in the end |
| `pipeline_manager` | `ManagerInv`, `StopLeavesNothing`, `FollowsDirectory`, `ManagerStops` | two configuration files are rewritten and deleted while rescans overlap the manager's start and stop: one pipeline per configuration, at rest what the directory says, and nothing after a stop |
| `sls_flusher` | `BooksBalance`, `AcceptedIsWritten`, `ShutdownSettles`, `EntriesSettle` | two endpoints with different request limits and buckets share one worker through lost answers, retries, refusals, a dropped failure record, a cancelled Codex batch and a shutdown: every entry is accounted for, none counted as written that did not arrive, a Codex batch is accepted only whole, and entries settle |
| `updater` | `UpdaterInv`, `SettledConsistent`, `ConfirmedRunsNew`, `UpToDate` | three manifests, one of them a canary hotfix, through a failing step or a death and a rollback at any moment of a check: until the two meet, pointers name what is installed and a confirmed collector runs what was installed; also after that the newest release runs in the end |
| `local_worker` | `WorkerInv`, `ShutdownHolds`, `Converges` | an instance is edited while its worker exits, restarts, is replaced and stopped, with one failing call or write and two daemons: until a deployment overtakes what is in progress, workers do not multiply, the pid file finds the one that runs until a shutdown meets a deployment, nothing comes back after a shutdown, and what the instance file says is reached |
| `single_instance_lock` | `LockInv`, `HolderIsNamed` | processes start, die, reuse pids, take over and release in any order: only files of dead processes are condemned, and the file names its holder |

All runs set `CHECK_DEADLOCK FALSE`: the counters are bounded, and a daemon that was stopped, or whose store is frozen
by a rejected output, has nothing left to do. The bounded faults and edits of the other modules run out in the same way. That a stop is not a hang is what the liveness properties say.

## Bounds

* `MaxRevision` bounds the changes in one process lifetime. The writer distinguishes changes before the snapshot,
  during the write and after it; two changes with two inputs give every such split for a single write and the next. The
  proofs hold for every bound.
* `MaxCrash = 1`: whatever a crash leaves is a legal start, so a second one repeats the first from a state of the same
  shape; the Codex turns use two, since a crash there interrupts the recovery from a crash as well.
* `MaxRecords = 2` lets two batches be in flight, one accepted and one not, with a collection failing between them.
* Two turns of two records with one remembered acknowledgement: a turn can be torn between its records, and the second
  acknowledgement evicts the first, the case the limit of 10000 (`MAX_ACKNOWLEDGED_TURNS`) makes rare.
* `Threshold = 2`: an entry survives one missed check and not two.
* Three process lifetimes over two pids: a holder, and two that take over, one of which has the pid of the dead.
* `file_pipeline`: two inodes and three lines over a buffer of two with the watermark at one, reads and slices of one line: a
  rotation with unread lines in both files, pending lines and a flush in flight at once. One fault of any kind, of which a rename between
  the check and the read is one, and two starts. The
  eviction from a queue of two readers is not reached with two inodes.
* `pipeline_manager`: two names, two edits, one failing start; a change can come while the other name is being
  replaced.
* `sls_flusher`: two endpoints that take one and two logs a request, two entries and a Codex batch of two records: batches
  are split at one endpoint only, and the second job waits for the worker. The entries are of two agent types, so that they share a
  bucket at one endpoint and are apart at the other. Two attempts show a copy of a retry; one record may be dropped.
* `updater`: a release, a canary hotfix of the same commit and a release without one, on two nodes; one fault or death, whose
  undoing may fail with it, and one rollback, beside each other in every order. A restart that fails stands for a package that does not run; the proofs are for all
  manifests. `MaxDirs = 7` is never the reason that a deployment does not happen.
* `local_worker`: one restart, two edits (enough for disable and enable, or there and back), one failing call or write, two
  daemons; one that is followed no further leaves processes of one runtime (`MaxLeft`), which may be two. Three runtime records suffice, since unused ones are taken again (`RuntimesSuffice` in `MCLocalWorker`).
* `Procs`, `Turns`, pids are interchangeable, and the specifications of the runs with `SYMMETRY` state invariants only.

## Fairness

Weak fairness stands for Node's event loop: a settled promise's continuation runs, a timer that is set fires, a pending
file operation returns. Three assumptions go beyond that and are stated where they are used.

* A write that is tried for ever succeeds in the end (`SF` on `WriteLands`), and so do collections (`SF` on `Collect`,
  `Emit`, `Advance`). Failures are otherwise free.
* An output settles: it accepts or reports an error (`Accept \/ Reject`, `Take \/ Fail`). The code bounds its
  requests and retries by timeouts.
* The properties on progress carry `[]<>(~waitingForOutput)` as a hypothesis: moments without a pending batch. The
  code does not guarantee it, since the writer's loop waits for all holds of all inputs and new batches may keep
  arriving; it is a hypothesis of the property and not of the specification. With it, strong fairness of the writer's
  continuation says that it is scheduled in one of these moments.

The modules that stand alone assume weak fairness of their own steps only: of the poll cycle, the flush and its slices
(FilePipeline); of rescans, start, stop, notices, timer and whoever rewrites a file to its end (PipelineManager); of
workers, requests, which are answered or time out, and the flush timer (SlsFlusher); of the updater's progress and the
service manager's restarts, and of a rollback once begun (Updater); of refresh, stops, starts, timers and exit handlers, and of a killed process that
dies, as long as nothing was overtaken (LocalWorker). Their faults are bounded, so the liveness properties say what comes after the last one.

Nothing is assumed about the orchestrator being told to stop, about agents writing, or about checks.

## Conditions of the properties

Some histories the code does not exclude break what one would want of it. The properties name them as conditions, and
hold in every other history; history variables of the modules record them. A team that changes this code should know them.

* **Local JSONL is not a durable output.** Only durability errors freeze the cursor; a plain error of `JsonlFlusher` is
  logged (`multi-flusher.ts:46-57`, `input-manager.ts:515-518`) and the cursor passes the batch. `CodexCursorCovered` is
  about `DurableOutputs`.
* **A stop may wait for another input's output.** `stop()` frees a cycle that waits for its checkpoint only if an output
  is pending at that moment (`base-input.ts:106`); if the writer is writing then and another input takes a hold before it
  ends, the stop waits with the writer (`state-store.ts:157-163`). `StopEnds` and `ShutdownEnds` assume moments without a pending batch.
* **A batch behind a failed one is still journaled** (`input-manager.ts:190`): `checkpointFailed` is tested when a batch
  is emitted. It may close a turn, which is exported and acknowledged without the failed records; those are dropped as
  late after the restart. `CommittedRecoverable` and `AcknowledgedTurnsComplete` excuse such turns (`ahead`).
* **A completed turn stays in the buffers when the last batch rejects** (`otlp-trace-flusher.ts:943`):
  `NoCompletedTurnLeftBehind` has `~latched`.
* **Two processes may hold the lock** (`single-instance-lock.ts:254`): a file is judged stale and then removed by its path.
  `HolderIsNamed` has `~crossed`, and `OnlyTheRaceBreaksExclusion` proves that nothing else leads there.
* **A pipeline's `stop()` loses lines** of a read in progress, whose offset is saved, and pending lines the sender has no
  room for; so does a crash. A reader idle for an hour is dropped and its file read from the start; a
  rotated file's checkpoint is dropped on restart; one that is missing for a moment takes all readers of the path along (the
  message at `file-tailer.ts:279` says that the next one is read). A rename between the check for a rotation
  (`file-tailer.ts:203`) and the read by name (`file-tailer.ts:266-328`) has the old reader read the new file from the old
  offset: lines of the old file are passed over, those of the new one taken twice. `NothingSkipped`, `FileInv`, `RotatedIsRead` and `EveryLineSettled`
  name these (`lossy`, `again`, `faults`, `misread`).
* **A manager's `stop()` that meets a rescan** leaves the one pipeline whose start or stop that rescan awaits running or
  draining (`stray` in `StopLeavesNothing`).
* **A shutdown of the SLS output that meets a flush** returns at once, and what was queued meanwhile is never flushed
  (`ShutdownSettles` has `~met`). A cancelled Codex batch counts chunks that were sent as failed. The failure log drops records
  and its caller does not look (`sls-flusher.ts:659-675`, `sls-failure-log-writer.ts:95-128`): `FailuresLogged` counts kept and
  dropped ones together. Order holds for a bucket, not for an endpoint with several (`sls-flusher.ts:748-753`).
* **An update**: an updater that dies between `current` and the pin, one whose restoration fails too, and a rollback across
  a change of node leave pointer and pin apart until the next deployment (`astray`). A collector relaunched from a
  directory that is then abandoned may pass for the next one and lose its directory (`undone`). If the server goes back to
  an earlier build and forth again (A, B, A), or the hotfix file is ahead of what the updater remembers, and the restarts fail, the
  collector left over from the first A passes for the second one: the health report is compared by version and commit only
  (`collectorHealthFailure`), and the clean-up (`updater.ts:1405-1443`) removes the directory it runs from. `RunningDirKept`
  therefore assumes that manifests do not go back (`FeedAdvances`); the other properties hold for any sequence. `SettledConsistent`,
  `ConfirmedRunsNew` and `RunningDirKept` have these as conditions.
  `rollback` (`loongsuite-pilot.sh:2027-2069`) takes no lock and does not stop the updater before it writes: between the two
  pointer reads of the clean-up (`updater.ts:1408`, `:1413`) it makes current what is then removed, within a switch it leaves the scripts
  and the pin of one version with the pointer of another, and between restart and health check its restart starts an old collector with
  a new pid, which is confirmed. All safety properties of the updater end where the two meet (`met`); `UpToDate` does not: the next checks
  repair what was left. Outside the properties: a canary hotfix whose
  health check times out is deployed again at each check, and a death between the writes of `previous` and `current`
  leaves both the same.
* **A local worker**: `deploy()` awaits neither `start()` nor `handleExit()` (`plugin-probe-strategy.ts:119-147`). The start of a restart
  timer (`worker-manifest-supervisor.ts:1044-1047`) that is pending when the deployment's second stop finds no pid goes on beside the
  deployment's own, and two workers run; a late exit handler removes the pid file of the new worker. All properties end where a
  deployment overtakes what was in progress (`overtaken`), until the next daemon. A failed removal or status write in `handleExit`
  (`worker-manifest-supervisor.ts:996-1016`) rejects a promise nobody holds: the worker is not restarted (`undone`), and where Node is set to
  end a process on an unhandled rejection so does the daemon, which is `Restarts`. `stop()` of the service neither waits for nor cancels a refresh in progress, so a worker may be
  started after the stop or lose its pid file (`met` in `Findable` and `ShutdownHolds`); that there is one at a time holds even then. A worker whose daemon died between spawn and pid file is found by
  nobody (`orphans`). A deployment that fails after it stopped the worker keeps the fingerprint of the stopped one
  as active: an instance taken back to it is not started again (`undone` in `Converges`).

## What is proved

TLAPS checks the following for all values of the constants, from the assumptions named in the modules
(`NoVal \notin Vals`, `Absent` not a state, `NoFile \notin Procs`, bounds that are natural numbers, and the like). No theorem
needs a bound on inputs, outputs, turns, names, files or processes, and none needs fairness: each holds of a specification without its
liveness part. The inductive invariant is always one that a run checks, or a conjunction of such: what TLC explores on the
small instances is what the proofs use. Where a property ends with a history variable (`met`, `overtaken`, `misread`, `crossed`,
`again`, `lossy`), the invariant that is proved names it too: the theorem is about the histories without, and the steps that set it are part
of the specification.

**CollectionProofs: the store.** `Invariance` proves `IInv`, and from it `TypeCorrect`, `NoUnacceptedProgress`
(`UnacceptedOutputNotCheckpointed`), `PersistedMeansOnDisk`
(`PersistedIsOnDisk`, of inputs and of their keys) and `WritesOnlyAdvance`
(`DiskOnlyAdvances`). None of the properties is inductive. That the file holds nothing after a pending hold needs to
know that the snapshot being written does not either (`HoldsBoundWrites`), which holds because the writer takes its snapshot
with no hold outstanding and a hold records the revision at which it was taken. That `isPersisted` is right needs the
counters to be ordered at every step of the writer (`RevisionsOrdered`) and, the heart of the argument, that
file and snapshot agree with memory on whatever was last changed up to their revision
(`ContentTracked`): a change made during a write gets a higher number than the snapshot, pruning forgets only numbers
that are covered, so a number not above the persisted one means the file has that very content.

**CollectionProofs: the delivery.** First the composition: every step of the delivery is a step or a stutter of the store
(`StoreUsedAsSpecified`), so the theorems above hold of the daemon. Then `DeliverySound` proves `DeliveryInv`. The durable cursor
is behind every durable output (`CodexCursorsCovered`) by an induction over the whole path of a record: whatever a Codex cursor
in memory has passed is taken or queued (`PassedIsTakenOrQueued`), every queued Codex batch has a pending hold that is its own
(`BatchesHeld`), so when the writer takes its snapshot with no hold pending nothing is queued any more, and what the snapshot
carries is taken; a durability error sets `saveFailure`, after which nothing is written. `CursorsAdvance` orders file,
snapshot and memory. `HandOutOrder` (`HandedInOrder`) follows from `HandedTracked`: the last record handed out is not
behind a Codex cursor and not ahead of any other. `DeliveryImplementsPromise` is the refinement: initial states of the
delivery map to those of `AtLeastOnce`, the landing of a write is its cursor step, an output's acceptance its delivery, and every
other step a stutter.

**CollectionProofs: input and service.** `LifecycleSound` proves `LifecycleInv`, and `CleanupIsAlone` that `onStop` never runs beside a
startup or a collection. What makes it inductive is `FlagsAgree`: a `stop()` takes the running flag down for as long as it
lasts, so a startup that finds the flag gone knows that somebody cleans up; `WaitersAreServed` says that no wake-up is lost.
The service calls the input only as that specification allows (`InputUsedAsSpecified`), hence the lifecycle's invariant holds under it.
`DiscoverySound` (`DiscoveryInv`) and `ShutdownLeavesNothing` (`ShutdownIsFinal`) then need `EntryFollowsInput`
(between two calls the entry's state tells the truth) and `CallsArePending` (a call that is awaited has not been overtaken).

**CodexTraceTurnsProofs.** The inductive invariant is `TraceInv` with the two properties about loss:
`TraceInvariance`, `NothingCommittedIsLost` (`CommittedRecoverable`), `AcknowledgedOnlyWhenComplete`
(`AcknowledgedTurnsComplete`), and, by the step that a last batch takes, `LastBatchFlushes` (`NoCompletedTurnLeftBehind`). The argument
follows a record through the files. What the sender has handled is secured before the cursor can pass it: journaled, exported, or
the turn excused by `ahead` (`HandledIsSecured`). A turn that was closed has all its records in the journal or exported
(`ClosedIsComplete`), and what memory holds of a turn is in its file (`MemoryIsJournaled`), so an export that succeeds covers the turn and the
acknowledgement may forget it. `StepsOrdered` says which of the steps of acknowledging, exporting and replaying exclude each other,
also where a crash interrupts the trimming of acknowledgements. Lemmas on the journal (`FilesUnchanged`, `AckWritesProperties`) carry most steps.

**UpdaterProofs.** For every non-empty sequence of manifests `UpdaterInvariance` proves `UpdaterInv`, and
`NothingNamedIsRemoved` (`DirectoriesKept`), `SettledTogether` (`SettledConsistent`) and `ConfirmsWhatItMade`
(`ConfirmedRunsNew`) follow. `JobFollowsPointers` says which pointers are old and new at each step of a switch, and `SwitchConsistent`
the same of scripts and pin. That a confirmed collector is the one that was started (`ConfirmedIsCurrent`), although a health report carries only
version, commit and perhaps a pid, rests on why the deployment was begun (`DeploysForReason`: another build, or another pid is asked for) and on
the collector never being newer than what it is compared with (`CollectorNotAhead`). A rollback is followed from file to file
(`RollbackFollows`, `RollbackStep`): beside no check it finds the pointers as it left them, also on its way back. What
happens beside one only has to be noticed (`BesideStep`, `AloneStep`). That the directory of a collector left behind by an update is
kept needs `LeftBehindIsSeen`: while the server goes forward the pending hotfix makes the next check deploy again. The attempt to prove this for
all sequences is how the history described above under *an update* was found.

**FilePipelineProofs.** For any number of files, faults, starts and any limits, with rotations at any moment: `PipelineSound` proves `FileInv`, `OffsetsPassOnlyHandledLines` proves `NothingSkipped`, and
`RotatedFilesAreReadToTheEnd` the action property `RotatedIsRead`. The invariant is `FileInv` with `NothingSkipped`. An offset
advances only by lines that enter the buffer or the pending lines (`TakesLines`), or over another file, which makes its reader
one of `misread` (`ReadsAnotherStep`), a truncated file is not outgrown before it is looked
at, and lines leave the memory only when settled, so offsets stay covered (`SkipStep`). A line is taken once since a reader takes what is
fresh, what is fresh is later than all received (`FreshWhenRead`), and a newly met file belongs to no line received so far
(`FreshStep`); that a restart keeps this rests on the checkpoints being those of the queue at the stop (`StoppedIsSettled`). A reader
that leaves the queue has read its file, because the file was looked at before it was renamed, and was not misread (`ReadersInOrder`, `DropStep`). The steps
of the poll cycle are proved by what they do: `FollowsOnly` for the seven that read nothing, `TakesLines` for the one that reads.

**SlsFlusherProofs.** For any number of endpoints, entries, workers and attempts and any sizes of requests: `BooksAreSound` proves
`BooksBalance`, bucket by bucket, `AcceptedMeansWritten` `AcceptedIsWritten`, and `ShutdownLeavesNothing` `ShutdownSettles`. The counters and the failure
log, with what it dropped, balance by themselves, step by step (`AccountedStep`, `FailuresStep`). That none is counted as written that did not arrive
(`BilledIsWritten`) is not inductive, because an attempt whose answer is lost has arrived and will be posted again:
`BilledBeforeRequest` therefore bounds the counts by what arrived *before* the request under way (`FlushTaken`, `CodexTaken`), and
`EntriesInOrder` keeps the parts apart: what arrived, what the task still holds and what is queued follow each other in the order of
`send()`, so a retry brings either all of its request or only copies (`Fresh`/`Taken`), and a finished request is counted once.
`CodexProgress` says which records of a Codex batch have reached an endpoint at each point of its task, a cancelled one included;
an accepted batch has therefore reached all (`AcceptedStep`). `ShutdownEmptied` follows the shutdown through its own flush. Requests
and the other steps enter these proofs by what they do to one task and one endpoint (*A request, by what it does*).

**LocalWorkerProofs.** For any number of runtime records, restarts, edits, faults and lives of the daemon `WorkersAreSound` proves
`WorkerInv`, from which `WorkersDoNotMultiply` takes `OneWorker` and `Findable`, and `ShutdownIsFinal` proves `ShutdownHolds`, each
until a deployment overtakes what was in progress. That
there is one process is not inductive: a restart timer, an exit that is being handled or a start in progress is about to make another. `OneToken`
therefore counts all of them, and is used as `Alone`, its statement two by two. Every step of a process's life replaces one of these by another,
and only a stop may end one and a deployment begin one. A deployment begins one safely because of its second stop: nothing of an
earlier runtime can be restarted (`StopsLast`), the process it signals is the only one (`SignalsTheWorker`), and when it returns without an error
none is left, nor, if it overtook none, an exit handler that would go on (`LastStop`, `ReadyToStart`). A write that fails only ends a
handler or a start (`HandlerFailsStep`, `StartBreaksOffStep`), and the next daemon may find anything (`RestartsAnewStep`). The hard case is a stop that joins another's attempt
and returns with its result (`AttemptsShared`), also when that is the stop of a shutdown the deployment met. Steps that only move a
handler, a stop or a start one phase on share a lemma each (`HandlerMovesStep`, `StopMovesStep`, `StartMovesStep`).

**PipelineManagerProofs.** `ManagerInvariance` proves `ManagerInv`: `OneInstance`, because what runs is registered, or is being started or stopped by the
one name a rescan awaits (`InstancesCounted`, `StopsAwaited`); `IdleIsCurrent`, because a rescan has applied all it found but what
is left to do (`RescanFollowsFound`), and what it read still holds unless a change is on record, as an event, as a missed one or as
a request for another rescan (`ReadIsFresh`). `StopIsComplete` (`StopLeavesNothing`) follows from `StoppedForgets`.

**SingleInstanceLockProofs.** `LockInvariance` proves `LockInv`; from it `OnlyTheDeadAreStale` (`StaleMeansDead`),
`UncrossedHolderIsNamed` (`HolderIsNamed`) and `OnlyTheRaceBreaksExclusion`: two holders exist only after a
take-over removed another file than the one it judged. The argument: living processes have pids of
their own (`PidsTellApart`), a file names only processes that were born (`OwnersWereBorn`), so a file judged
stale names a dead one (`StaleOwnerGone`); if what is removed is what was judged, its owner is dead and nobody holds
the lock (`UncrossedUnlinkFindsNoHolder`). Processes that only move on are one lemma (`MovingOn`).

Only model-checked: all liveness (`ChangesReachDisk`, `CodexRecordsCheckpointed`, `StopEnds`, `ShutdownEnds`,
`EveryLineSettled`, `FollowsDirectory`, `ManagerStops`, `EntriesSettle`, `UpToDate`, `Converges`), since fairness and ENABLED are
out of the prover's reach. Every safety property of the runs is proved.

## Abstractions and what is left out

* A record is a number, an offset is a count of records, a state is an offset and extra keys. Batching by size and count is
  free: a batch is any run of records a collection found.
* `fsync` is not considered: a rename that returned survives a crash of the process.
* CodexTraceTurns has one sending Codex input and batches of one turn; others are seen through `batchDepth`. Duplicate
  records of a turn are merged, since journal and buffers drop them by event id. The wait of `sendBatch` for the exports it started is
  left out, so cursors may be saved earlier than they are.
* The stop of an input also drains its entry queue, and the input manager's abort of outputs at shutdown, are not in InputLifecycle.
* The lock's fallback for file systems without hard links is not modelled.
* FilePipeline: one path; at most one rotation or truncation between two polls; the owner reopens its file
  when it rotates it; the read and the hand-over of its lines are one step, although the code awaits the closing of the file between them
  (`file-tailer.ts:359`): only a crash after a wake saved the offset, or a stop, can tell, and either sets `lossy` in
  both orders, since the lines are in memory, or in a read in progress; the poll of a stopped instance ends before the next one starts. The failure log holds
  counts, so a line in it counts as settled and not as sent.
* SlsFlusher: `sendRaw`, tags, redaction and the closing of the dispatcher are left out; what a segment of the failure log takes
  with it when it is deleted to make room are records of one bucket.
* Updater: versions, commits and hotfixes are numbers, a package is a flag that says whether it runs, node runtimes are two.
  The service manager, the classification of crashes and the heartbeats' files are seen through the collector. A file is written by
  one rename: that rollback and updater use the same names for their temporary files (`current.tmp`) is left out, as are the moments between
  the stop of the one and of the other daemon in `cmd_stop`, and the clean-up of Hermes.
* LocalWorker: POSIX only, without the process identity of Windows; pids are not reused (the stop on POSIX signals whatever
  group has the recorded pid); a worker has no descendants. Of the writes that may fail, those of the exit handling and of a restart's
  beginning are modelled, and a stop that is refused; the others leave what `StopRefused` and `StartFails` leave. What goes on after a
  deployment overtook something is not followed: the states there are those of two supervisions beside each other, and what matters of
  them is what the next daemon finds.
* The lock: the start token of a process is taken to be exact. On macOS it is the output of `ps -o lstart=`, which depends on locale and
  time zone, so one process may show two tokens there.
* `isAvailable()` of the registered inputs catches its errors; `CheckThrows` models what the service does if one did not.
* Not modelled at all, with the reason, in `PROJECT.json`: per-agent parsing, masking, formatting, presentation, and
  shell scripts (no state worth checking), and the components of the plan below.

## Plan

1. The other agents' buffers in CodexTraceTurns; several paths over one sender in FilePipeline.
2. `UpdaterWatchdog` over SingleInstanceLock, with breadcrumbs; the hooks' metrics spool; the HTTP output with its
   circuit breaker; the Qoder API pipeline; the multimodal queue; deployment with the hook watchdog; the interceptor's
   verdict store; the turn boundary processor against a reference definition.
