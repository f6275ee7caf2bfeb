# A verification project for yg-go

yg-go is a Go library of back-end building blocks. This directory models, in
TLA+, the parts whose correctness depends on the order in which several
processes act, checks them with TLC on small instances, and proves the most
important properties with TLAPS for every value of the constants.

The core is the distributed task queue (`task/`), the health checker of its
workers (`task/health/`) and the master election it runs under
(`mutex/cluster.go`). Around it are the locks, queues, streams, pools, stores and
conversions of the library, each a component that is used on its own. Paths
below are relative to `src/`.

## 1. The system

### The core

    clients --CreateTasks / CancelTask / DeleteTask--> core_task (MySQL rows)
       |                                                   ^        ^
       +-- push a message per task --> Redis streams       |        |
                                            |              |        |
    workers: Pop (wakes up) <---------------+              |        |
             GetOnePendingTask (SELECT FOR UPDATE) --------+        |
             execute, SaveTaskResult ------------------------------+
             heartbeat --> Redis hashes --> HealthChecker (on the master)
                                              | OnWorkerDead
    master (ClusterMutex): timeout check, HandleDeadWorkerTasks, queue sync

* A **task** is a row with a status, a retry counter `redo` (limit `max_redo`),
  a worker ID and a place in a flow (`subject_id`, `app_group`, `step`). The row
  is the only truth; messages of the stream only wake a worker up.
* A **worker** runs goroutines, one loop each: Pop, select a row, mark it
  running, execute, save the result.
* **Managers** sweep rows: overdue ones, those of a dead worker, and at start-up
  all running ones. Sweeps run on the process that takes itself for the master.
* The **cluster mutex** elects that process with an expiring Redis key.
* The **health checker** keeps heartbeats in one Redis hash per task type and
  silent workers in a second one, the grace period.

### Inventory

Every part of the repository is listed under `components` in `PROJECT.json`,
with its sources, its status and, where it is not modelled, the reason. Summary:

| Part | Where | What makes it hard | Status |
|---|---|---|---|
| task entity, manager, repository, queue, worker | `task/model`, `task/manager`, `task/worker` | row locks, reads outside transactions, lost messages, crashes, retries | modelled, in part |
| task health checker | `task/health` | stale copies, several masters, failing callbacks | modelled |
| cluster mutex | `mutex/cluster.go` | lease expiry, failing renewals, cached belief | modelled |
| Redis locks | `mutex/redis_locker.go`, `dbtools/redispool` | unlock by a former holder, expiry, waiting | modelled, refines an abstract lock |
| concurrent queue | `concqueue` | close racing submit, panics that add workers | modelled |
| RPC queue | `queue/rpcqueue` | answers matched to waiters, timeouts, late answers | modelled, in part |
| lifecycle | `lifecycle` | unlocked registration, closers that hang | modelled, in part |
| server-sent events | `apis/sseclient` | readers and writers of one stream, stop | modelled |
| resource pools | `pool` | leases, crashes between two commands, returned twice | modelled, in part |
| Redis helpers | `dbtools/redispool` | answers lost after the command ran | modelled, in part |
| jobs, export jobs | `job`, `apis/exportjob` | monitors against updates, stale copies | modelled, in part |
| caches, settings | `cache`, `settings` | stale entries, expiry, secrets | modelled, in part |
| statistics, metrics, databases | `stat`, `metrics`, `dbtools/v2` | first error, registration races, failed opens | modelled, in part |
| storage, uploads | `storage`, `storage/v2` | string prefixes, pages, shared uploads, partial failure | modelled, in part |
| prompts, chat stream, scroll, money | `prompt`, `llm`, `dbtools/estool`, `types/money` | soft deletes, pieces out of order, edge cases | modelled, in part |
| HTTP runtime, middleware, API objects, logging, configuration, notifications, encryption, helpers | | no state between calls, output, libraries | not modelled |

## 2. Modules

| Module | Contents |
|---|---|
| `TaskEntity` | the row and its `Mark*` methods (`task/model/entity.go`) |
| `TaskQueue` | rows, row locks, stream, goroutines, sweeps, cancels |
| `MCTaskQueue`, `TaskQueueClaims` | instances for TLC; what comments of the code claim |
| `ClusterMutex` | master election |
| `MCMasters` | one instance of `TaskQueue` and of `ClusterMutex` |
| `HealthChecker` | heartbeats and death |
| `AbstractLock`, `RedisLock` | what a lock promises; the locks on a Redis key |
| `ConcQueue`, `RPCQueue`, `Lifecycle`, `SSEStream`, `Routines` | the worker pool; request and reply; leaving a process; event streams; Start and Stop of worker, manager and checker |
| `MCServices` | one instance of `RedisLock` and the five modules above |
| `ServicePool`, `PortPool`, `RedisCache`, `Keepers` | services in a sorted set; ports in memory; Redis helpers; the three together |
| `Settings`, `JobTables`, `StatManager` | a setting behind its cache; job rows; statistics |
| `Storage`, `StorageV2`, `Multipart`, `MultipartV2`, `Uploader`, `FileTable` | back ends and multipart calls of both generations; resumable uploads; the table of files |
| `Metrics`, `Registries` | Prometheus vectors; storagers and connections by name |
| `PromptStore`, `PromptRender` | prompts and versions; validation of a template and its values |
| `LLMStream`, `ScrollSearch`, `Money` | tool calls in pieces; scroll searches; amounts |
| `MCStorage`, `MCStores` | keys and folders; one instance of the modules of the six rows above |
| `TaskQueueProofs` | proofs about `TaskQueue` |
| `LeaseProofs` | proofs about what is held for a time: `ClusterMutex`, `ServicePool` |
| `HealthCheckerProofs` | proofs about `HealthChecker` |
| `GoroutineProofs` | proofs about `RedisLock`, `ConcQueue`, `Lifecycle`, `Routines` |
| `ServicesProofs` | proofs about `RPCQueue` and `SSEStream`, and about all of `MCServices` |
| `KeepersProofs` | proofs about `PortPool` and `RedisCache`, and about `Keepers` |
| `StoresProofs` | proofs about `Multipart`, `MultipartV2`, `JobTables`, `Settings`, `Metrics`, `Registries` |
| `UploadPromptProofs` | proofs about `Uploader` and `PromptStore` |

An operator whose comment starts with "Mutant" is a plausible mistake in the
definition that follows it. `PROJECT.json` says which property each one breaks;
no specification uses them.

### TaskQueue

| Model | Code |
|---|---|
| `row`, `lock` | committed rows of `core_task`; the InnoDB row locks |
| `stream`, `group`, `msgs` | Redis stream of a type, its consumer group, undelivered messages |
| `pc`, `cur`, `ent` | where a `workRoutine` goroutine is, its task, the entity in its hands |
| `sweep` | a batch update between its SELECT, its UPDATE and the pushes |
| `cancel` | a `CancelTask` call between its read and its write |
| `CreateTasks` | insert in one transaction, then one message per task |
| `CreateGroup`, `PopMessage`, `PopTimeout` | `Pop`: XGROUP CREATE at `$`, XREADGROUP NOACK, BlockTime |
| `PickSelect`, `PickCommit` | `GetOnePendingTask`: SELECT ... FOR UPDATE SKIP LOCKED, then MarkAsRunning and commit |
| `SaveRead`, `SaveWrite`, `SaveCommit` | `SaveTaskResult`: read outside the transaction; write all columns and push for the next step; commit |
| `Rollback`, `Crash`, `Panic`, `WorkerStart` | failing transactions, death and restart of a worker |
| `TimeoutScan`, `DeadScan`, `SweepUpdate`, `TimeoutRequeue`, `DeadRequeue` | the timeout check and `HandleDeadWorkerTasks` |
| `InitTaskDBStatus`, `SyncQueueCount` | start-up of a process; the periodic queue sync |

Two choices matter. A statement that takes row locks and the commit that
releases them are two steps, and a value read outside a transaction stays with
its reader until it is written, so all interleavings that MySQL allows are
behaviours. Time is abstract: an execution lasts as long as it likes, so any
running row may be overdue when the timeout check looks at it.

`overtaken` and `attempts` are history variables. A task is *overtaken* when a
sweep, a cancel, a delete or a start-up takes its row away from a goroutine that
still holds it. The code cannot undo that (section 5), so exclusive execution,
budget and finality are promised for the other tasks.

### ClusterMutex

`key` and `ttl` are the Redis key, `master[n]` is `currentMaster`, `cmPc[n]` and
`clock[n]` place the daemon routine in its tick. `TryPreempt`, `FirstLook`,
`Tick`, `GetCurrentMaster`, `Renew` and `Release` are the commands of a tick;
`Fail` is a command that returns an error; `Crash` and `Restart` end a process
and bring it back under its HOSTNAME. `Advance` is the passing of one unit of
time. `MaxLag` bounds how late a running process is, and
`MaxInterval + 2 MaxLag < Expiration` is the condition under which the lease is
safe: the code has an expiration of 30 s and ticks of 8 s plus a random offset of
less than 5 s.

### HealthChecker

`hb` and `gp` are the two hashes, with ages in place of timestamps. `check[c]`
is a `CheckWorkerHealth` in progress, with the maps it has read; several
checkers stand for several processes that take themselves for the master. Every
Redis command is a step: the scan for types, the two reads, the writes for one
worker, the callback, the deletion. Commands fail (`MaxErrors`), callbacks fail
as often as they like, checks die halfway, and workers come back under their ID
(`MaxRestarts`). Two things are assumed: `OnWorkerDead` returns (a panic in it
would end the checker's goroutine for good), and every heartbeat was written by
`SetHeartbeat` (a check deletes one that it cannot parse, `checker.go:310`).

### Locks, queues and streams

| Module | State and steps |
|---|---|
| `RedisLock` | `lkKey`, `lkTtl` are the key and its time to live. A client tries (`GetLock`, with the number of tries or the time limit of the variant it calls), works and deletes the key. `LockTick` lets a lease run out under its holder; commands fail and clients crash. |
| `AbstractLock` | A section admits one client at a time while `safe`. A lease that runs out, a foreign DEL or a failed SETNX makes it unsafe; an empty section makes it safe again. `RedisLock` maps its clients inside and `lkSafe` to these two variables. |
| `ConcQueue` | A task is submitted (look at `closed`, then send), queued, run, panics or fails. Workers are counted, and panics too: each leaves one more worker. `StopAndWait` closes the channel, waits and cancels. |
| `RPCQueue` | A call registers its channel, publishes, waits, unregisters and closes the channel in separate steps. The consumer looks a channel up and offers the reply in two. |
| `Lifecycle` | `append` to `preExitRun` is a read and a write. Two calls of `Exit` may close the channel twice. The timer ends the process. |
| `SSEStream` | Writers ask for the stop signal and then write. The reader takes the history and goes on from its last ID, on either store. |
| `Routines` | `rtSees` is the context a goroutine waits on, so a goroutine that outlives its Stop may live on under the next Start. |

### Stores and conversions

| Module | State and steps |
|---|---|
| `ServicePool` | The sorted set with scores as lease ends. Every Redis command of Acquire, Release, Clear and RefreshConfig is a step of one of two processes, which crash between them and restart. |
| `PortPool` | `GetPort` and `ReturnPort` are atomic, as the code holds its lock. Clients may return what they no longer have. |
| `RedisCache` | A command runs, runs with its answer lost, or does not run. The commands of `ServicePool` have the same three outcomes. |
| `Settings` | `UpsertSetting` deletes the cached entry and then writes the row, `Updates` writes the row and then deletes the entry; a read looks in the cache, then in the row, then fills the cache. A value carries the number of its write and how many times it is encrypted: by the caller, by `BeforeSave`, or not at all when the cipher refuses the key, which `SetSecretAESKey` does not look at. Requests fail. The three caches are separate definitions, since they differ (section 5). |
| `JobTables` | Reading a row, deciding, and writing it back are three steps for updates and for the monitor. |
| `Storage`, `StorageV2` | Keys are sequences of characters because the stores compare string prefixes. A directory copy is a work list, one request per step, while another client saves and deletes. A request fails; a local copy that fails half way leaves a cut file. |
| `Multipart`, `MultipartV2`, `Uploader` | Parts and their ETags; a call that fails leaves the upload open; clients that share a temporary row; completion at the service and the transaction after it. MinIO's library refuses the part size -1 that both generations pass, so no part reaches it. Clients of `Uploader` send only parts they were asked for: `UploadPart` does not check the number it is given. |
| `FileTable` | A `FileQuery` is one statement that each call changes in place, also across First, Last, List and Count. |
| `Registries`, `Metrics` | Load, make and store of a storager are three steps. Connections are kept by name, the empty one being `default`; an open may fail. Managers share the registry `std`. A label key has neither `:` nor `,`, as Prometheus demands, so the text that `getLabelKey` makes determines its parts. |
| `PromptStore` | The two tables with soft deletes; upserts of batches by ID or by prompt code; `RenderByCode` reads one table after the other. |
| `StatManager`, `ScrollSearch`, `LLMStream` | One step per goroutine action, request or chunk. |
| `PromptRender`, `Money` | Functions, compared with what their results must mean over all enumerated inputs. They use recursive operators, so they are only model-checked. |

## 3. Runs

Every property has a mutant that breaks it.

| Run | Instance | Shows |
|---|---|---|
| `flow` | flow of two steps, two workers, one manager, one cancel at a time, timeouts | `StepOrder`, `AttemptBudget`, `SuccessFinal` |
| `faults` | one task with two attempts, two workers, two managers; crash, panic, rollback, lost push, dead worker, restart, delete | `TypeOK`, `ClaimStable`, `RunningBelowMax`, `ExclusiveExecution` |
| `faults`, second part | the election: two processes, three failing commands, one restart; fair | `CmTypeOK`, `AtMostOneMaster`, `Failover`, `DualMasterEnds` |
| `life` | one task with two attempts, two workers, one manager; the faults of `faults` and timeouts; fair | `ClaimableIsTaken`, `OrphanRecovered` |
| `health` | one worker, two masters, one failing command, one restart; fair | `TypeOK`, `NoFalseDeath`, `DeadWasSilent`, `EntryCleared`, `CrashDetected` |
| `services` | one of six components per behaviour, 115,834 states; fair | see below |
| `stores` | one of nineteen component instances per behaviour, 880,944 states up to symmetry | see below |
| `claim_dead`, `claim_next`, `mutex_claim`, `health_claim`, `queue_claim`, `storage_claim` | small | a comment or README line that the code does not keep (section 5) |

What `services` shows:

| Property | Says |
|---|---|
| `LockImplementsSection` | the Redis locks implement the abstract lock |
| `LockNotStuck` | a key whose owner died does not block the others for ever |
| `QueueServes` | an open queue has its workers and one more for each recovered panic; after `StopAndWait` every accepted task has run, unless the caller cancelled the context |
| `RepliesMatch`, `RequestReturns` | a call gets a reply with its own ID or an error, and always returns unless the process panicked |
| `ShutdownSound` | exit code 0 means the closers ended; a stopped service has no goroutines, a restarted one not too many |
| `StopsReturn`, `ExitHappens` | `StopAndWait`, `Stop` and exit end, also with a goroutine or closer that hangs |
| `ReaderMissesNothing` | until the stream is dropped, the reader is given the messages from the first one on, in order, without a gap; a reader of the memory store that found no history is given them from the second one on |
| `StopStopsWriters` | after Stop only writers that had checked before still write |

What `stores` shows:

| Property | Says |
|---|---|
| `PoolsSound` | a service, port or list element has one holder and is not lost, with the exceptions the code has named as history variables |
| `CopyDirRight`, `MultipartNotMixed`, `UploadsWhole` | directories arrive whole and nothing else changes; an object is the work of one client; an upload becomes one whole file |
| `SettingsFresh` | once the writes are done every cached copy is the row and a read that begins then sees the last write or a later one, unless the copy was put back by a reader after the writer dropped it, was written under, or outlived a failed delete or an update by ID alone; a secret is read in clear while the cipher accepts the key |
| `JobRowsCoherent`, `DeletedStaysDeleted` | a job row is never half of two outcomes; a deleted row changes only by an upsert that names its ID or code, or an update that asks for deleted rows, and no list shows it unasked; the version that is rendered was not deleted when it was read (its prompt may be by then) |
| `ResultsComplete` | statistics, scrolls, tool calls (up to the chunk that finishes them) and file queries are complete when handed out |
| `RegistriesSound` | a metric reported as recorded is exposed; callers share a storager; a name is served by the newest connection that was opened for it |
| `ConversionsSound` | a rendered prompt was declared and checked; capitals say the amount, comparisons agree |

The components of `services`, and those of `stores`, share no state in the code.
The MC module therefore picks one in its initial state and leaves the others
alone, so that the state counts add up instead of multiplying. A few properties
of the two runs are conjunctions of the properties of several components.

**The bounds.** Two tasks are enough for one step to wait for another, two
goroutines of different workers for every race over a row, two managers for two
sweeps of the same rows. `max_redo` of 2 gives one retry and one exhausted task.
`MaxMsgs = 1`: a stream is empty or not, which is all that Pop tells apart.
`MaxFaults = 1` still allows a fault at every step; sweeps, cancels and starts
of processes are not counted. In the election of `faults`, `Expiration = 6` with
ticks of 2 to 3 and a lag of 1 is the tightest instance with `MaxInterval + 2
MaxLag < Expiration`, and three failing commands outlast a lease, so the run contains two
masters. In `health`, ages saturate at 5, beyond every comparison the code makes
(`GracePeriodTimeout + MaxCheck < MaxAge`). One worker is enough there, since
the entries of two workers never meet in a condition. In `services` three
lock clients give a holder, its successor and one more that a late DEL lets in;
three tasks on two workers and a channel of one fill the queue; two calls share
a correlation ID and a third does not; two writers, two stoppers, two exiters
give each race, and two Starts give a goroutine that survives a Stop. In
`stores` two processes or clients race for one or two things; pages of two
entries make a listing of three continue; one or two faults fall anywhere;
leases of one tick with a clock of two let a lease run out, be taken again and be
released by its former holder. Processes and clients of a component are
interchangeable, so `stores` uses symmetry over them; its properties are
invariants and action properties, for which that is sound.
`Money` takes every pattern of zeros in up to eleven digits, which reaches the
hundred millions.

**Fairness.** `TaskQueue`: goroutines keep running (their loops have no exit but
panic and shutdown), the manager's ticker keeps firing and a sweep goes on, and a
worker that ended is started again. Crashes, cancels, lost pushes and reports of
dead workers are never forced.
`ClusterMutex`: time passes and a running process goes on with its tick.
`HealthChecker`: time passes, punctual workers beat, checks go on, and a callback
tried again and again for one worker succeeds some day. That last one is strong
fairness and an assumption about the caller's `OnWorkerDead`. `RedisLock`: time
passes and a client that tries goes on trying (a loop with a sleep); nobody is
forced to unlock. `ConcQueue`: workers take tasks, tasks end, and a stopper that
waits is woken. `RPCQueue`: a call goes on, and its timer fires. `Lifecycle`: the
main goroutine goes on and the exit timer fires; closers are not fair.
`Routines`: a Stop goes on; goroutines are not fair. The other modules have no
fairness and only safety properties.

## 4. Proofs

The theorems hold for every value of the constants that meets the named
assumptions, which each module states: any set of tasks (finite), flows,
goroutines, managers, processes, workers, clients, calls, readers, writers,
names and labels, any number of parts, pages, ticks, faults and retries. The
assumptions that say more than "this bound is a number":

* `AttrAssumption`, `BatchAssumption`: `max_redo > 0`, and the steps of a flow are
  created by one call, as `task/README.md` shows.
* `TimeAssumption` of `ClusterMutex`: `MaxInterval + 2 MaxLag < Expiration`.
* `TimeAssumption` of `HealthChecker`: a heartbeat arrives within
  `HeartbeatTimeout`, and a check is shorter than the grace period.
* `CqAssumption`: `New` is given at least one worker. It does not look, and with
  none a `StopAndWait` would return before the tasks it accepted. The channel may
  have no buffer (`New(2, 0)` in its tests), so a send may also meet a worker.
* `MuAssumption`, `UpAssumption`: an upload has a part, and parts have a size
  (`defaultPartSize`, `storage/uploader.go:21`).
* `PpAssumption`: the default port range lies inside the ports there are.
* `LcAssumption`: a process has finitely many closers.

| Theorem | States | Of |
|---|---|---|
| `TypeCorrect` (three modules) | `TypeOK`, `CmTypeOK` | task queue, mutex, health |
| `PickIsSafe`, `RedoWithinMax` | `ClaimStable`, `RunningBelowMax` | `TaskQueue` |
| `ExecutionIsExclusive`, `ResultsAreFinal` | `ExclusiveExecution`, `SuccessFinal` | `TaskQueue` |
| `AttemptsBounded`, `StepsInOrder` | `AttemptBudget`, `StepOrder` | `TaskQueue` |
| `MutualExclusion` | `AtMostOneMaster` | `ClusterMutex` |
| `PunctualSurvive`, `DeadSilent` | `NoFalseDeath`, `DeadWasSilent` | `HealthChecker` |
| `LockRefines` | `LockImplementsSection` | `RedisLock` implements `AbstractLock` |
| `LockExcludes` | one client inside while `lkSafe` | `RedisLock` |
| `QueueServesAlways` | `QueueServes` | `ConcQueue` |
| `RepliesAlwaysMatch` | `RepliesMatch` | `RPCQueue` |
| `NothingIsMissed`, `StopEndsWriting` | `ReaderMissesNothing`, `StopStopsWriters` | `SSEStream` |
| `ServicesTypeCorrect`, `ShutdownLeavesNothing` | `ServicesTypeOK`, `ShutdownSound` | `MCServices` |
| `ServicesStaySound` | `PoolSound` | `ServicePool` |
| `KeptThingsStaySound` | `PoolsSound` | `Keepers` |
| `ObjectNeverMixed` | `MultipartNotMixed` | `Multipart` and `MultipartV2` |
| `JobsStayCoherent` | `JobRowsCoherent` | `JobTables` |
| `SettingsStayFresh` | `SettingsFresh` | `Settings` |
| `NamesKeepTheirMeaning` | `RegistriesSound` | `Metrics`, `Registries` |
| `UploadsStayWhole` | `UploadsWhole` | `Uploader` |
| `DeletedRowsStay` | `DeletedStaysDeleted` | `PromptStore` |

`KeptThingsStaySound` and `NamesKeepTheirMeaning` assume the specifications of
several components at once. These share no variable, so the assumption says that
each of them takes its own steps, in any interleaving; `MCStores` runs them one at
a time, which is a special case.

The inductive invariants, and why the property alone is not one:

* `CoreInv`: types, `ClaimStable`, `RunningBelowMax` and `WritersKnown`. The last
  says that whoever is about to write holds the lock, and what a write contains.
  Without it a stale copy could set a row back to running.
* `HoldInv` restates exclusive execution per goroutine. It needs `CoreInv` for
  the step from selection to commit.
* `BudgetExact`: `redo` equals the number of failed attempts exactly, so that
  `redo < max_redo` bounds the executions.
* `StepsStayDone` extends `StepOrder` to the time between selection and commit,
  and adds that the tasks of one call appear together: a lower step inserted
  later would otherwise break the order.
* `Lease`: a master holds the key, the holder knows it, and the key outlives the
  time to the next renewal.
* `FreshCopies`, `GraceFollowsBeat`: what holds of the hashes also holds of the
  copies that running checks work from, up to the duration of a check.
* `LockInv`: while the lock is safe an occupied section has its key. Without this
  a SETNX could succeed beside a holder, and `Enter` of the abstract lock would
  not be allowed. The refinement proof shows per action which abstract step, or
  none, it is.
* `CqInv`: workers, running tasks and errors are counted exactly (`CqCounts`), the
  channel holds just the queued tasks, each once (`CqChannel`), and the last
  worker leaves only an empty channel (`CqDrain`).
* `RqInv`: a reply is in the queue, in the consumer's hands, with a call or lost
  (`RqCounted`), and what the consumer holds fits the channel it looked up
  (`RqMatched`), though the call may have gone since.
* `SseInv`: the list holds the newest numbers without a gap (`SseListed`), and what
  the reader has got ends where its position stands (`SseRead`), which counts
  differently in Redis and in memory.
* `LcInv`, `RtInv`: the wait group counts the closers that still run; outside of
  overlapping Starts and Stops only the goroutines of the last Start run.
* `PoolInv`: a member that was not reset in use is popped by one process at a time
  and is out of the sorted set meanwhile (`PoolPops`), and its score, in the set or
  in the popper's hands, is not before the end of a running lease (`PoolLeases`).
  `PoolExclusive` alone does not say why a popped member is free.
* `PpInv`: the two lists repeat nothing and share nothing; `PortsSound` says it of
  their concatenation, about which the provers reason less well.
* `RcInv`: every value pushed is in one list or gone, lists fall from left to right,
  and what left the source list is older than what is in it. This order is why
  RPOPLPUSH keeps the target list in order too.
* `MuInv`, `JbInv`, `UpInv`: what the clients hold between two requests (ETags, copies
  of rows, lists of parts) fits what the service or table holds, or is older in a
  way that the next write detects or survives.
* `SgInv`: a cached value is the row unless a writer is about to drop it or the copy
  came late (`SgCached`), and a read has nothing older than its start (`SgRead`).
* `MxInv`: a manager has cached only vectors that its registry has registered, under
  the name and labels they were made for. `RgInv`: without a race at most one caller
  is making a storager, and none once there is one; a name that was opened is kept
  under the newest connection (`RgConns`).

The proofs of `Uploader` and `PromptStore` need facts about sequences of any
length (an ascending sequence of n different numbers of 1..n is 1..n, a finite
set of numbers can be listed in order). They are proved by a least
counterexample, since the provers do not instantiate the induction theorems.

`WritersKnown`, `BudgetExact`, `StepsStayDone`, `Lease`, `FreshCopies` and
`GraceFollowsBeat` are defined in the components' modules, where TLC can evaluate
them. They hold there, `Lease` while no command fails and no process returns,
`FreshCopies` while no worker returns.

Only model-checked:

* Liveness (`ClaimableIsTaken`, `OrphanRecovered`, `Failover`, `DualMasterEnds`,
  `EntryCleared`, `CrashDetected`, `LockNotStuck`, `StopsReturn`, `RequestReturns`,
  `ExitHappens`): the prover does not handle fairness.
* `ConversionsSound` and `StoresTypeOK`: `PromptRender` and `Money` are recursive
  functions over data, about which the prover cannot do induction, and `MCStores`
  extends them.
* `CopyDirRight` and `ResultsComplete`: what a listing, a chunked tool call or a
  query returns is sorted and filtered by operators over sequences whose results
  would need induction as well.

## 5. Where the code and its documentation disagree

Shown by a run that finds the quoted sentence violated:

* `claim_dead`: "将指定 worker 正在运行的任务标记为超时并重新入队"
  (`task/manager/manager.go:191`). `CanRetry` is asked of entities read before
  the update, whose status is still running, so nothing is pushed
  (`task/manager/repository.go:323`). Polling picks the tasks up later.
* `claim_next`: "成功则触发下一个任务" (`task/manager/manager.go:314`). The query for
  the next step runs on another connection before the commit and finds the
  completing step unfinished (`manager.go:328`). Again polling repairs it.
* `mutex_claim`: "主动释放锁（仅主节点）" (`mutex/cluster.go:141`). `release` trusts
  the cached name and deletes the key of a successor (`cluster.go:146`).
* `health_claim`: "Worker 定期上报心跳，自动检测故障并恢复任务" (`task/README.md:13`).
  `DeleteHeartbeat` after a callback also removes a heartbeat sent since; if the
  worker dies before the next one, nothing is left to detect
  (`task/health/checker.go:368`).
* `queue_claim`: "重启一个新的worker替代当前崩溃的worker" (`concqueue/queue.go:107`). The
  recover is in `runTask`, so the worker whose task panicked goes on, beside the new
  one: every panic makes the pool larger by one.
* `storage_claim`: "递归复制整个目录下的所有对象" (`storage/s3.go:321`). The listing
  takes the bare path as a prefix. With the keys `a/b/x` and `ab/x`, a copy of
  `a` to `d` maps both to `d/b/x`, and the second one wins.

Visible in the premises of properties, without a run of their own:

* A result saved late by an overtaken goroutine writes all columns of an old
  copy: it may reopen an earlier step or lower `redo` (`manager.go:261`, `277`).
  Hence `overtaken`.
* `CancelTask` may cancel a task picked between its read and its write
  (`repository.go:154`). Hence the premise on `cancel` in `SuccessFinal`.
* A process restarted under its HOSTNAME finds its own name in the key and takes
  itself for the master before it has renewed (`cluster.go:125`). Hence
  `cmRestarts = 0` in `AtMostOneMaster`.
* `WaitReady` does not return on a follower whose first SETNX failed
  (`cluster.go:115`).
* The grace period counts from its entry, not from the last heartbeat
  (`checker.go:402`).

Met while modelling the other components. The models do what the code does here;
where a property would otherwise fail, its premise or a history variable says so:

* A failed SETNX lets the caller of `RedisLocker.Lock` in (`mutex/redis_locker.go:47`),
  and `Unlock` deletes whoever's key (`:61`): the ways in which `AbstractLock` becomes
  unsafe.
* `Release` of the pool means to retry when "有人修改数据重试" (`pool/redis.go:124`). It
  uses `Pipelined`, which sends no MULTI, so WATCH has no effect. A lease may end
  between ZSCORE and ZADD (`plTaint`).
* Two concurrent AddCloser calls may lose one registration (`lcRace`).
* The MySQL cache refuses entries until they have expired (`cache/mysql/mysql.go:46`;
  `IsExist` compares the other way round). `Get` of the memory cache assigns to its
  parameter and never fills the caller's value (`cache/memory/memory.go:39`).
* The memory store of event streams sets its stop signal in one map and looks for
  it in another (`apis/sseclient/memory.go:87-99`), so Stop does not stop writers
  there. An empty ID means position 0, and the first message is skipped (`:80`).
  `StopStopsWriters` speaks of Redis only.
* An upsert brings back a deleted row that it names by ID or, a prompt, by code
  (`prompt/model/dao.go:153`). A prompt deleted after `RenderByCode` has read it is
  still rendered (`prompt/renderer.go:20`). An offset without a limit is an error of
  MySQL (`PageFails`).
* `copyDirectory` of COS copies the first page of a listing only
  (`storage/tencent_cos.go:304`, `stShort`).
* When the transaction of a completed upload fails, its object stays at COS without a
  row (`storage/uploader.go:193`). `UploadsWhole` excludes the reverse, a row without
  an object.
* The parts of a multipart upload never reach MinIO (`storage/minoss.go:237`).
* `SendRequest` may close its channel while the consumer sends on it, and `StopAndWait`
  may close the channel of a `Submit` that waits (`queue/rpcqueue/controller.go:79`,
  `concqueue/queue.go:73`): a panic, which no property forbids.
* `ExtractVariableNames` parses without `DefaultFuncMap` (`render.go:40`), so a template
  that uses `Upper` is refused before it is rendered. Names inside chains and template
  calls are not found. `RenderSound` excludes these two.
* `ScrollSize` has the default 100, not "默认1000" (`dbtools/estool/scroll.go:17`).
* `flushToolCallCache` does not do the "并清空缓存" of its comment
  (`llm/provider/openai/stream.go:90`): a chunk after the one that finishes the
  calls has them again. `ToolCallsWhole` speaks of the chunks up to that one.
* `NewEasyMetrics` ignores the registry it is given (`metrics/easy_metrics.go:39`), so a
  second manager that uses a name of the first gets an error.
* A `FileQuery` that ran First or Last keeps its order and its limit
  (`fileinfo_query.go:137`): a later List has one row, and a later Last may answer
  with the first. `FilesFound` says so.
* The pattern of `types/money/money.go:130` never matches: a hundred million is
  written with 亿万. `CapitalsRight` says exactly when that happens.

## 6. What is left out

Of the task queue: `SaveTask`, the creation of a single task, the plain push,
counters for monitoring, and payloads. The connection pool is not part of
`TaskQueue` (a hazard is noted: a save needs a second connection while it holds
one). `WaitReady` of a follower and the lazy creation of the default mutex by the
first two callers of `IsMaster` (`mutex/mutex.go:40`) have no property.

MySQL, Redis, RabbitMQ, Elasticsearch, the object stores and the chat service are
modelled from how the code uses them: atomic statements, row locks held to the
commit, reads of committed data, commands that run or fail or whose answer is
lost. Lost answers are modelled for the Redis lists and for the pool; elsewhere a
command that reports an error has not run. Replication lag and failover of Redis
are not modelled.

Of the other components: the text of URLs, events, templates and log lines; the
decoding of YAML and JSON; amounts of money beyond small numbers, and float64
beyond rounding to cents (negative amounts and more than fourteen digits are
outside what `ToUpper` indexes, and not among its inputs); weedfs.

Not modelled at all, with the reason for each in `PROJECT.json`: the HTTP server
runtime and its middleware (handlers registered at start-up, then nothing kept
between requests), API objects, error codes and configuration (data types), the
upload API (one handler that forwards to storage), logging and notifications
(output and calls to services), verification codes (one call and one row),
encryption and identifiers (wrappers of libraries), the Elasticsearch query
builder (nested maps), the example program, and small stateless helpers.

Hazards are listed in `PROJECT.json` at the line where they bite, with the
properties that bear on them. A note says where a property excuses the case, or
where none covers it.
