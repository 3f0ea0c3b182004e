# slurm_exporter in TLA+

slurm_exporter is a Prometheus exporter for the Slurm workload manager: a Go
program that answers every HTTP GET of `/metrics` by running Slurm's command line
tools (`squeue`, `sinfo`, `scontrol`, `sdiag`, `sshare`, and `sacct` in the
background), parsing what they print and sending it as metrics.  This directory
models what is hard about it in TLA+, checks the models with TLC and proves
theorems about every concurrent part, and about the parsers, with TLAPS.  File and line numbers are those
of `src/`; `C/` stands for `src/internal/collector/`.

To run: `tlc -workers 2 -config MCTimedCache.cfg MCTimedCache` for a run of the
table below, `tlapm TimedCacheProofs.tla` for the proofs.

## 1. Inventory

### The parts and their state

| Part | Code | State it keeps | Operations |
|---|---|---|---|
| Timed cache | `C/cache.go` | bytes, the time they were fetched, an RWMutex | `GetOrFetch` (fast path under the read lock, second look and fetch under the write lock), `AgeSeconds` |
| Shared caches | `C/cache.go`, `C/squeue_jobs.go`, `C/nodes.go`, `C/reservation_nodes.go` | two package-level caches, one gauge of their ages | `SqueueJobsData`, `SlurmGetTotal`, `ReservationNodesData`, `updateCacheAge` |
| Command execution | `C/execute.go` | the running process and its output, for one call | `Execute` under `--command.timeout`; `ValidateBinaries` at startup |
| Scrape | `C/status.go` and the control of all 16 collectors | per call: the entry it is at and whether it succeeded; the list of entries | `StatusTracker.Collect` |
| Sacct refresher | `C/sacct_efficiency.go` | stored metrics and their time, an RWMutex, a ticker, a done channel | `Start`, `refresh`, `Collect` |
| Slurm info | `C/slurm_binary_info.go` | a `sync.Once`, the series it built | `Collect`, `resolve`, `GetBinaryVersion` |
| Server lifecycle | `src/cmd/slurm_exporter/main.go` | the signal context, the channel of the serving goroutine | `main`, `runServer` |
| Job queue parsers | `C/squeue_jobs.go`, `C/accounts.go`, `C/users.go`, `C/partitions.go`, `C/queue.go` | none: functions of two `squeue` listings | projections, parsers, what is emitted |
| Node, CPU and GPU parsers | `C/cpus.go`, `C/nodes.go`, `C/node.go`, `C/node_drain.go`, `C/reservation_nodes.go`, `C/reservations.go`, `C/gpus.go`, `C/partitions.go` | none: functions of a listing each | parsers |
| Sacct aggregation | the other half of `C/sacct_efficiency.go` | the series of the last refresh that succeeded | the query of `refresh`, `ParseSacctEfficiency`, `AggregateSacctEfficiency` |
| Scheduler statistics | `C/scheduler.go` | none: a function of `sdiag`'s output | `ParseSchedulerMetrics`, `ParseRPCStats` |
| Fairshare | `C/fairshare.go` | none: a function of `sshare`'s listing | `ParseFairShareMetrics`, `tryCollect` |
| Licenses | `C/licenses.go` | none | not modelled |
| Static tables, tools, logging | `C/metric_surface.go`, `C/command_registry.go`, `src/tools/`, `src/internal/logger/` | none at run time | not modelled |

### How they interact

- `net/http` runs one goroutine per request, so **scrapes overlap**.  The
  registry calls `StatusTracker.Collect`, which calls the enabled collectors one
  after the other in an order that a map iteration fixed at startup.
- Five collectors of two groups **share a command's output** through two caches.
  The command runs while the write lock is held, and everybody who wants that cache
  waits for it.  After every use of a cache the ages of *both* are read, so a user of
  one cache takes the lock of the other.
- The sacct refresher is a **goroutine of its own** that lives as long as the signal
  context; scrapes only read what it stored.
- `main` starts the server in a goroutine and selects between its end and the
  signal; on a signal it waits for the open requests and for the refresher, each for
  a bounded time.
- Every command goes through `Execute`, whose deadline is what bounds all of the above.

### What is hard, and what makes each part correct

| Part | Hard behaviour | Correct when |
|---|---|---|
| Timed cache | callers that miss together; a refresh while others copy; a failing or slow fetch under the lock; time to live counted from the end of the fetch | one command at a time and a TTL apart; answers of bounded age that never go back in time; a failure leaves the cache and its lock as they were; nobody starves |
| Shared caches | two locks taken by the same goroutine in map order; ages published after the lock is given back | never two locks at once; every use ends |
| Execute | command, deadline and end of the pipe race | no half of an output is taken for a whole one; a killed command is reported as a timeout; a call ends within it |
| Scrape | errors and panics at any point of any collector; a TTL that expires in mid-scrape | `collector_success` is truthful; one failure costs only that collector; readers of one snapshot agree |
| Sacct refresher | store and scrape interleave; tick and cancellation ready together; a tick during a long refresh | metrics and timestamp belong together; scrapes do not wait for sacct; it ends once it is cancelled |
| Slurm info | concurrent first scrapes, all behind one command | binaries are probed once; nobody is served an unfinished list; everyone is answered |
| Lifecycle | signal, failure of the server, open requests, running refresh, in any order, also during startup | the process ends in bounded time, with a truthful status |
| Sacct aggregation | lines in any order, steps that say nothing; windows that must overlap, named in a time that occurs twice | each job counted once, for its owner; averages over the jobs that have a figure; no job lost to one missed refresh |
| Scheduler statistics | figures told apart by their order, lines that are not there, rows that belong to the last title | every gauge is the figure it is named for; the two tables agree |
| Fairshare | several lines for one label set; lines without shares | no series twice, no account lost |
| Other parsers | the same jobs and nodes listed by different commands, flags and versions of Slurm | the series of different collectors agree with each other and count everything once |

`PROJECT.json` lists each of these hazards at its line with the properties that
would catch it.

## 2. Modules

| Module | What it models |
|---|---|
| `RWMutex` | `sync.RWMutex` as the caches use it: readers inside, readers that arrived behind a writer, and the announced writer.  External: the interface of the standard library, including its rule that an announced writer holds off new readers. |
| `SnapshotRegister` | The abstract specification of a cache: every call takes effect in one step. |
| `TimedCache` | `GetOrFetch` and `AgeSeconds`, split wherever another goroutine can run.  Refines `SnapshotRegister`. |
| `SharedCaches` | Two instances of `TimedCache` and the callers, with `updateCacheAge`. |
| `Scrape` | `StatusTracker.Collect` over the collectors, each as the sequence of commands, cache reads and emissions it consists of; the caches are two instances of `SnapshotRegister`, and the `sync.Once` of `info` is a step that one scrape runs and the others wait for. |
| `SacctRefresher` | The background goroutine with ticker, context and `Collect`. |
| `Shutdown` | `main` and `runServer`, composed with an instance of `SacctRefresher`. |
| `Execute` | One call of `Execute` with its process, pipe and deadline. |
| `SlurmInfo` | The `sync.Once` and the probes; extends `Execute`, whose variables are the call in progress. |
| `JobQueue` | slurmctld's job table, squeue's two listings of it, and everything that the accounts, users, partitions and queue collectors make of them. |
| `NodeInventory` | slurmctld's node table, the listings of it, and what eight collectors make of them. |
| `SacctEfficiency` | What a refresh asks sacct for and makes of the answer, from one refresh to the next. |
| `Scheduler` | What slurmctld counts, what `sdiag` prints of it, and the gauges. |
| `FairShare` | The associations of users with accounts, `sshare`'s tree of them, and the series. |
| `*Proofs` | The theorems (section 6).  `SharedStateProofs` is about `SharedCaches`, `Execute` and `SlurmInfo`, what the scrapes of a process share; `CountingProofs` is about `JobQueue` and `Scheduler`, `ParserProofs` about the other parsers; `FoldProofs` has the lemmas about loops that both rest on; the others are about the module they are named after. |
| `MC*` | Instances for TLC. |

### Correspondence with the code

Definitions carry the names of the source where there is one (`GetOrFetch`,
`parseGRESByType`, `StatusTracker.Collect`'s `succeeded`, ...); `map` in
`PROJECT.json` gives the lines of each.

*Atomic steps.*  A step of a concurrent module is what runs between two points at
which another goroutine can observe or influence it: a lock operation, a channel
operation, a command.  Code between two such points that touches shared state only
under a lock is one step.

*Bytes.*  In the modules of the caches and the scrape the output of a command is the
instant at which slurmctld produced it, some instant while the command ran.  That is
all that staleness and agreement can tell apart.  In `SacctRefresher` it is a
generation.  In the modules of the parsers it is a sequence or a set of records,
one per line, whose fields are the columns.  Splitting a line at its separators,
numbers and time formats are not modelled.

*slurmctld and slurmdbd.*  The actions of the parsers' modules are external: jobs, nodes,
statistics and associations change between scrapes.  Only `SacctEfficiency` has steps of the
exporter, a refresh and one that fails, because its question spans several of them.  The
listings, parsers and emissions are operators on the state, so an invariant is a statement
about a scrape that runs at any moment, under the assumption that the listings it compares
are of the same moment.  What the commands print is modelled as the code relies on it:

- `squeue -r` prints a line for each task of an array and `squeue` without it prints one for
  the pending ones; `-a` adds hidden partitions; with no `--states` it reports
  `DefaultStates`, about which the repository disagrees with itself (section 5); the default
  partition carries a `*` in some versions only;
- `sinfo` groups nodes that agree in the columns asked for, and marks the default partition in
  some columns; without `-a` it and `scontrol show nodes` leave out hidden partitions and the
  nodes that are in no other;
- `scontrol show reservation` prints every reservation that was made, with its nodes, also one
  that has not begun and that no node knows of;
- `sacct` prints allocations and steps in whatever order slurmdbd has them, and MaxRSS on
  steps only;
- `sdiag` leaves out a mean that nothing has been counted for;
- `sshare` prints a user once for each association, and `parent` for the shares of a user or of an
  account that has none of its own.

*Mutants.*  An operator `X_suffix` that stands before `X` is a plausible bug in `X`;
nothing refers to it.  Substituted for `X` it must make the property that
`PROJECT.json` names fail, which shows that the property can fail.

### Choices a reader should know

- `TimedCache`: a call whose fast-path check succeeds takes effect at that check;
  its answer is fixed then, because the read lock keeps writers out until it is
  copied.  `asked`, `newest` and `floor` are history variables.
- `Tick` in `TimedCache` is disabled when a fetch has run for `Timeout`: Execute ends
  it.  `Execute` shows when that is right: `BoundedCommand` holds if commands leave no
  descendant that holds their output.
- `Scrape`: a collector that waits for a cache may wait for the failing fetches of
  every scrape queued before it, so a wait is bounded by the number of scrapes times
  the timeout.
- `SacctRefresher`: clocks are relative and saturate, so that there is no last
  instant and liveness does not depend on one.
- `Shutdown`: scrapes of the refresher's own metrics are left out; a request only
  starts and ends.  Startup takes no time.  Before `signal.NotifyContext` a signal
  kills the process, after it a signal is only seen by the select in `runServer`.
- `SlurmInfo`: a command is not assumed to end; that time passes, and that the exporter reacts to
  it, is enough for a scrape to be answered.
- `SacctEfficiency`: a refresh is one step (`SacctRefresher` has the goroutine).  Clocks are set
  back once, at `SetBack`, by `Hour`; a local time that means two instants means either.  A
  refresh may fail, but not two in a row, which is what the property is about.
- `Scheduler`: slurmctld's total of events is bounded, so TLC can see a cycle of each
  scheduler, a reset and the cycles after it.  `Label` stands for the pattern
  `[A-Za-z0-9_-]*`.
- `FairShare`: of a line's five figures the shares and the usage are kept.
- `NodeInventory`: `n.used` counts GPUs only, so a mixed node may use none.  A mixed node uses one
  of its CPUs, an allocated one all.  A reservation that is made in advance names the nodes of a
  member of `Bookings` and is inactive until it begins; from then on it is active as long as it has
  a node.  A node is in one reservation at a time: Slurm allows more to overlap, and how it names
  them on a node's line is not modelled.

## 3. Runs

All finish within three minutes on two workers.

| Run | Instance | Shows |
|---|---|---|
| `MCTimedCache` | 2 goroutines, TTL 2, timeout 2, 5 instants | `TypeOK`, `SingleFlight`, `BoundedStaleness`, `MonotonicReads`, `EveryCallReturns` (both `GetOrFetch` and `AgeSeconds`); `ImplementsLiveRegister`: the cache implements `SnapshotRegister` with its liveness |
| `MCSharedCaches` | 2 goroutines, both caches, TTL 1 | `LocksNotNested`, `EveryCallCompletes` |
| `MCSharedCachesMinusOne` | same | **violation** of `MinusOneMeansNeverPopulated`, section 5 |
| `MCScrapeMixed` | 2 overlapping scrapes of `nodes`, `info` and `queue`, in this order | `SuccessIsTruthful`, `EveryCollectorReports`, `EveryScrapeEnds` |
| `MCScrapeJobs` | 2 overlapping scrapes of `users` and `partitions` | `SameSnapshot` |
| `MCScrapeFresh` | `users`, `cpus`, `gpus`; unit 5 s: TTL 25 s, interval 30 s, timeout 5 s | **violation** of `AlwaysFresh`, section 5 |
| `MCSacctRefresher` | the refresher and 2 scrapes, interval 3, timeout 3 | `TimestampMatchesMetrics`, `CollectNeverWaitsForSacct`, `SacctSpaced`, `NoFalseAlarm`, `CancelEndsRefresher` |
| `MCShutdown` | 2 connections, with and without the refresher, windows of 3 and 2, interval 3, timeout 2 | `BoundedShutdown`, `RequestsFinish`, `OrderlyExit`, `ProcessEnds` |
| `MCSlurmInfo` | 3 scrapes, 3 binaries of which any may be missing, timeout 2, with and without descendants | `ResultIsTruthful`, `SameSeries`, `EveryCollectReturns` |
| `MCJobQueue` | 3 jobs or array tasks of 4 shapes, 3 partitions of which one is hidden; two sets of states that squeue lists unasked | `PartitionsMatchQueue`, `RunningCountedOnce`, `TotalsCountJobs`, `AggregateCountsAll`, `EveryTaskInOneSeries`, `SuspendedTasksInOneSeries` |
| `MCNodeInventory` | 3 nodes of different sizes, 2 partitions and a hidden one, GPUs of two kinds, a reservation that may be made in advance | `NodeViewsAgree`, `DegradedHaveReasons`, `HealthyIsUp`, `ReservationViewsAgree`, `GPUViewsAgree` |
| `MCAccounting` | 2 jobs out of 7 kinds, instants 0 to 8; 3 events between two resets of the statistics; 2 associations at a time | `EveryListedJobCounted`, `MissedRefreshHarmless`; `GaugesAreTheirFigures`, `RPCViewsAgree`; `SharesAreConsistent` |

Every module of a component states a `TypeOK`, which says what values its variables take.  That of
`TimedCache` is checked by a run.  Those of all concurrent modules are proved; any of them can be checked
too by adding it to the `INVARIANTS` of the module's configuration.  `FetchesSpaced` and `CopyUndisturbed` of
`TimedCache` and `BoundedCommand` of `Execute` are proved and are not in a run.  The first follows from the
refinement as far as a caller can tell; the second is the reason why the refinement may let a call take effect at
its freshness check; the third is close to the deadline's own guard, and what `TimedCache` and `Scrape` assume of commands.

### Bounds, and why they are enough

- *Two goroutines on a cache.*  The races are between one that refreshes and one that
  reads, waits or refreshes too; a third only lengthens the queue.  The theorems cover
  any number.
- *The clock.*  With TTL 2 and a horizon of 4 a snapshot is fetched, read at every age
  it can have, expires, and is replaced.  `TTL`, `Timeout` and the horizon are parameters
  of the theorems.  In `MCSharedCaches` the horizon is one TTL: its questions are about
  locks, and a refresh can already fail, wait and be repeated.
- *Scrapes.*  `MCScrapeMixed` has a partial emission between two sources (`nodes`), the totals at zero
  (`queue`) and one that waits for the probes (`info`); the others are shorter or longer sequences of the
  same steps, and the theorems are about any of them.  They run in one order, with `info` in the
  middle: a scrape that comes to it finds the other one before, in or after its probes, and `MCScrapeJobs`
  takes its two collectors in every order.  Time passes once, which is enough to be waited for,
  at a command, at the cache and at the once, by either scrape; the clock is bounded so tightly because liveness
  costs most.  `MCScrapeJobs` goes on until snapshots have expired twice; it uses symmetry between scrapes
  and checks invariants only.
- *The refresher.*  Interval 3 and timeout 3 let a refresh end before the next tick or with it, so
  that a tick is ready at select after select, and let the cancellation fall anywhere.
- *Shutdown.*  The windows keep the order of the real ones, 10 s and 5 s.  The
  refresher's command is shorter than the interval and as long as the wait for it, as the
  defaults are (5 s and 5 s).
- *Commands.*  With timeout 2 a command ends before, at and after its deadline; three scrapes are
  one that probes and two that wait.
- *Sacct.*  Interval 1, lookback 4 and an hour of 1 that occurs twice, at instants 3 and 4: a window holds
  two intervals and that hour at both of its ends, which is what the property asks for of jobs that end
  near it, and more than the two intervals it asks for of the others.  The
  instants 0 to 8 let a job end before, in and after that hour and leave every window.  Two jobs are of
  one user or of two, with and without a peak, in a listing of four orders.  The default
  window is no longer than the hour; the theorem has every length.
- *Statistics.*  Three events are a cycle of each scheduler and a backfilled job, or three RPCs of
  two kinds from three users; a reset may come between any two.
- *Associations.*  Two at a time are two of one user in one account, of which one is limited to a
  partition, or of two users or accounts; the tree has three accounts, one of which is listed twice.
  The three parts of `MCAccounting` share nothing: each behaviour moves one.
- *Other parsers.*  Three jobs suffice for two of one user and one of another in the same
  partition, or an array with a task that has started and one that has not.  Three
  nodes suffice for two that `sinfo` groups, of which one is in a second partition too, and one that is only
  in a hidden partition.  Shapes and nodes
  were chosen to differ in everything the parsers look at: partitions, order of features,
  typed and untyped GPUs, other GRES.

`CHECK_DEADLOCK FALSE` is given where the system may stop: the exporter has exited
(`MCShutdown`), or the clock is at its bound (`MCScrapeFresh`, `MCAccounting`).

## 4. Fairness

| Assumption | Why |
|---|---|
| weak fairness of a goroutine's own steps, and of what the runtime does for `Execute` (`Handling`) | the Go scheduler is preemptive and runs what is runnable |
| weak fairness of the end of a fetch, a refresh, a command's call | `Execute` has a deadline (`--command.timeout`) |
| strong fairness of announcing a writer (`LockSlow`) | the lock may be free and taken again in between; `sync.Mutex`, which RWMutex queues its writers on, hands itself over in arrival order once a waiter starves |
| strong fairness of the context's case (`OnCancelled`) | a Go select with two ready cases picks at random, so it does not pick the tick forever |
| strong fairness of `Tick` in `Shutdown`, weak of `Passing` in `SlurmInfo` | time passes: `time.After` and contexts expire |

Not assumed: that commands end by themselves, that they succeed, that requests end,
that anybody calls, that time passes in the modules of the caches.

## 5. What the runs say of the documentation

Two statements of the repository are violated by a run:

1. `C/cache.go:75-76`: "*one fetch per scrape, always fresh*".  The TTL of 25 s runs from
   the end of the fetch, not from the start of the scrape.  Commands that run before the
   first reader of the snapshot delay the fetch; if it ends more than five seconds into the
   scrape, the next scrape of a 30 s interval finds it fresh and serves it again
   (`MCScrapeFresh`).
2. `C/cache.go:94-95`: "*-1 means the cache has never been populated*".
   `updateCacheAge` publishes an age after the lock it was read under was given back, so a -1
   read before the first refresh can be published after it, and stays until a cache is used
   again (`MCSharedCachesMinusOne`).

The following follow from the models too and have no run of their own; each holds under the
assumption in brackets, under which the passing run checks it:

- `C/cache.go:68-69`, "a single scrape always gets fresh data without double-fetching", does
  not hold of a scrape that is longer than the TTL [scrapes shorter than it: `SameSnapshot`].
- `main.go:97-98`, "sacct is never called more frequently than this": a tick that
  arrives during a refresh longer than the interval is kept and starts the next one at once
  [a timeout no longer than the interval: `SacctSpaced`, proved].
- `C/sacct_efficiency.go:274-275`, "so the goroutine is finished before the process exits":
  the signal does not cancel the command, and the wait is as long as the default timeout, 5 s.  A
  command that takes all of it may be left behind (`OrderlyExit` says that no other is).  With a
  timeout of an interval or more, a tick that is ready may start another command after the
  signal, which may be left behind earlier [a timeout shorter than the interval: `OrderlyExit`, proved].
- `main.go:346-366`: once it has seen the signal, `runServer` does not look at `errCh` again, and of
  two ready cases its select picks either.  A server that fails when the signal arrives, or during the
  shutdown, is not reported, and the process exits with status 0.  So status 0 means that a signal asked
  for the end, not that the server was well [a server that fails on its own: `OrderlyExit`, proved].
- `docs/configuration.md:35`, "Timeout for executing Slurm commands": a descendant of a killed command
  that keeps the pipe open keeps `Execute` waiting, as `WaitDelay` is not set [no such
  descendant: `BoundedCommand`].  If the command was one of Slurm info's probes, every scrape
  from then on waits in `resolveOnce` [no such descendant: `EveryCollectReturns`].
- `C/slurm_binary_info.go:38-39`, "if missing they appear with version=not_found": so does
  a binary whose one probe failed for another reason, for the life of the process.
- `docs/configuration.md:62`, "the overlap is what makes a missed refresh harmless".  The window is named in
  local time without a zone, so in the hour after the clocks are set back it may shrink by
  that hour; with the default lookback of one hour it may be empty.  Away from that hour the
  default, twelve intervals, is enough [a lookback of two intervals for jobs that end away from the
  change of clocks and its echo a lookback later, and of twice that hour more for the others:
  `MissedRefreshHarmless`, proved].  Nor are
  jobs in its window that end in another state than the four it asks for, such as NODE_FAIL.
- `C/scheduler.go:87-89`, "Last cycle" and "Mean cycle" appear twice: after a reset of the
  statistics sdiag leaves "Mean cycle" out for a scheduler that has not cycled, and if only the
  backfill scheduler has, its mean is exported as the main one's, and its own gauge is 0
  (`GaugesAreTheirFigures` says exactly that of this case).
- `C/scheduler.go:26`: the pattern of a name stops at a dot, so users `j.doe` and `j.roe` are
  both `j`, and the series is that of the last row
  [names that stay distinct: `RPCViewsAgree`].
- `C/fairshare.go:170-174`: of the associations of a user that are each limited to a partition the
  first is exported, and users with `parent` shares have no series, so the usages of an account's
  users add up to the account's only if there are neither [`SharesAreConsistent`].
- `C/fairshare.go:57-59` drops every line with `parent` shares, an account's too: such an account has
  no series at all, also not of its usage, which the accounts above it include (`SharesAreConsistent`
  says who has a series).
- The repository disagrees with itself about what `squeue` reports without `--states`:
  `C/queue.go:182-186`, `main.go:75-76` and `C/command_registry.go:186-187` say pending and running jobs only;
  `test_data/squeue_jobs.txt:8`, a capture of the same command without it, has a suspended job, and
  `C/command_registry.go:161` says so.  If the former are right, `slurm_account_jobs_suspended` and
  `slurm_user_jobs_suspended` are always 0, and a task that is suspended is in no series of its user until
  it resumes (`EveryTaskInOneSeries` states both cases; `MCJobQueue` checks it with pending and running jobs only, and
  as `SuspendedTasksInOneSeries` with the suspended ones too).
- `C/reservation_nodes.go:62-64` drops the `*` of a node that does not respond, as "irrelevant to these
  counts": such a node is counted as healthy although no job can start on it (`HealthyIsUp`).
- `C/gpus.go:324` asks `sinfo -a`; `C/node.go:105-108`, `C/nodes.go` and `C/partitions.go:31` do not.  The GPUs of nodes
  that are only in hidden partitions are in the cluster's total and in no node's or partition's series
  (`GPUViewsAgree` counts them apart).
- `C/reservations.go` exports inactive reservations too, as in `test_data/reservations.txt`, with their node
  count; `C/reservation_nodes.go` has no series for those, as no node names them yet
  (`ReservationViewsAgree` compares the active ones).

## 6. Proofs

Eight modules hold proofs, about the specifications of the modules they extend, for every value of their
constants.  They cover every safety invariant that a passing run checks (`SuspendedTasksInOneSeries` is
`EveryTaskInOneSeries` for another value of `DefaultStates`, which the theorem has for any):

| Module | Properties of the runs that are proved | Hypotheses beyond the module's `ASSUME`s |
|---|---|---|
| `TimedCacheProofs` | `TypeOK`, `SingleFlight`, `BoundedStaleness`, `MonotonicReads`; the safety part of `ImplementsLiveRegister` | |
| `SharedStateProofs` | `LocksNotNested` (of `SharedCaches`), `ResultIsTruthful` (of `Execute`), `SameSeries` (of `SlurmInfo`) | |
| `ScrapeProofs` | `SuccessIsTruthful`, `EveryCollectorReports`, `SameSnapshot` | |
| `SacctRefresherProofs` | `TimestampMatchesMetrics`, `CollectNeverWaitsForSacct` | |
| | `SacctSpaced`, `NoFalseAlarm` | `Timeout <= Interval` |
| `ShutdownProofs` | `BoundedShutdown`, `RequestsFinish` | |
| | `OrderlyExit` | `Timeout < Interval` |
| `CountingProofs` | `PartitionsMatchQueue`, `RunningCountedOnce`, `TotalsCountJobs`, `AggregateCountsAll`, `EveryTaskInOneSeries` (of `JobQueue`) | |
| | `RPCViewsAgree`, `GaugesAreTheirFigures` (of `Scheduler`) | |
| `ParserProofs` | `MissedRefreshHarmless`, `EveryListedJobCounted` (of `SacctEfficiency`) | |
| | `HealthyIsUp`, `NodeViewsAgree`, `ReservationViewsAgree`, `GPUViewsAgree` (of `NodeInventory`) | |
| | `DegradedHaveReasons` | `Reasons \cap SaysNothing = {}` |
| | `SharesAreConsistent` (of `FairShare`) | |
| `FoldProofs` | no module's: what `FoldLeft` computes | |

The `ASSUME`s say that times and bounds are natural numbers (the TTL, the interval and the timeout of
a command that is started, and the wait for the refresher, are not zero), that the enabled collectors, the nodes and the partitions are finitely
many, that accounts are listed in a sequence, that the jobs that may be submitted name one or more partitions, none twice,
and want natural numbers of CPUs and GPUs, that the states a job ends in are not among those it lives in, that a job that ends has natural numbers of CPUs, seconds
and megabytes, that operations and users of RPCs are finitely many and their names are not the titles of sdiag's tables,
that the pattern cuts no two operations to one label, that cycles and RPCs take time,
and that a value that stands for "nobody" or "nothing" is no goroutine and no binary.  Goroutines, scrapes,
connections, users and shapes of jobs are any sets.  The hypotheses are not idle: without them TLC finds
the property violated (section 5 says what the code does then).  The defaults are a timeout
of 5 s and an interval of 5 min, which meet both.  The
hypothesis of `DegradedHaveReasons` is that no administrator types as a reason what `sinfo` prints for none:
such a node is degraded and shows no reason.

### How the proofs are put together

- `SharedCaches` and `Shutdown` are built from other modules with `INSTANCE`, and so are their
  proofs: `NodesCache`, `JobsCache` and `SacctThread` are instances of `TimedCacheProofs` and
  `SacctRefresherProofs`.  `NodesImplemented`, `JobsImplemented` and `SacctImplemented` show that each step of
  the whole is a step or a stutter of the part, which carries every theorem about the part over:
  `BothSingleFlight`, `LocksCorrect`, `SacctTypes` are theirs.
- `SlurmInfo` extends `Execute`; `ExecuteImplemented` does the same for it: `ProbesAreTruthful`,
  `ProbesAreBounded`.
- `Scrape` uses the abstract register where the code has a cache.  Two theorems justify that:
  `RegistersImplemented` (the two caches, with their callers and the publication of ages, implement
  two registers) and `CachesAreRegisters` (a scrape does nothing to a register but what its
  specification allows, and never something to both at once).

- `CountingProofs` and `ParserProofs` are about operators on a state rather than about steps.  Each has
  a small inductive invariant, of what slurmctld's tables may hold, and from it the property as a statement
  about two computations: the parser's loop over the lines, and the sum or the cardinality it should come to.
- The library's induction takes an operator as a parameter, which the provers cannot instantiate.  `FoldProofs`
  has it for sets (`NatInd`: a set that holds 0 and is closed under successor holds all numbers), from
  the well-foundedness of their order.  `Trace`: a loop `FoldLeft(Step, base, s)` runs through states
  `g[0] = base`, `g[i] = Step(g[i - 1], s[i])` and ends in `g[Len(s)]`.  Each loop of a parser is an instance of the
  module, with the loop's body for `Step`, and a loop invariant about `g[i]` is an induction over `i`.
- `CountingProofs` begins with the laws of sums over finite sets (of a union, over a bijection, regrouped by a
  function, exchanged with another sum) and of `FlattenSeq`, which squeue's and sinfo's listings are made with.
  They rest on the recursion of the community modules, which is over `CHOOSE`: first a function is shown
  to exist that obeys the recursion for every finite set, then that the choice does not matter.

### The arguments

*`TimedCache`.*  No property is inductive by itself: that two goroutines do not fetch at
once depends on who holds the lock, and the lock is only a record.  `LockInv` says that the
lock's fields and the program counters agree: who is at "recheck" or "fetching" is the
writer, whoever copies is a reader, and a fetch goes with no reader inside.  It needs only
`TypeOK`.  On top of it `TimeInv` relates the recorded instants (the snapshot is at most
a command older than its timestamp; a fetch in progress found the cache stale and is within its
time; a copy in progress found it fresh): it needs `LockInv` because only
the lock keeps `fetchAt` unchanged between a decision and its use.  `HistoryInv` says that
nobody has seen a snapshot newer than the cached one, which needs both.  The
properties are consequences of one layer each.  `RegisterImplemented` maps "copy" to a call
that has already been answered; each step is shown to be a step of the register or a stutter.
`FetchesSpacedHolds` and `CopyUndisturbedHolds` are proved on the way.

*`SharedCaches`.*  `LocksCorrect` brings `LockInv` for both locks.  `PlaceInv` says where in the two caches a
goroutine may be for each place in its own program; that it is idle in one whenever it is busy in the
other is `LocksNotNested`.  The types of what is published rest on `AgesCorrect`, which has it from `TimeInv`:
no timestamp is ahead of the clock.

*`SacctRefresher`.*  `LockInv` is that of the cache with the refresher as the only writer.  `DataInv`: the two
stored fields differ only between the two assignments, when no reader is inside, and a scrape that has read one
of them has read the stored one.  `ClockInv` is about the tick that is kept: it bounds how long ago the last
one came by what has happened since, so that a refresh that starts from the buffer has run into
the next interval, which a timeout of at most an interval excludes.  For `Timeout > Interval` it is false.

*`Execute`.*  `CallInv` says what the call knows at each place: at "returned" the error it gives
classifies how the process ended and whether the deadline had passed.  `LeavesInv` keeps the pipe closed
and the clock within the timeout as long as no descendant holds it.

*`SlurmInfo`.*  `ProbesInv`: the probes are made one after the other and each has a version or "not_found".
`OnceInv`: one scrape at most is inside `resolveOnce`, and none is past it before the list is complete.  `SeriesInv`:
what a scrape was served is the list.  `ProbedOnce` is the action property that nothing changes it afterwards.

*`Shutdown`.*  `ServerInv` ties the serving goroutine, its channel and the exit status to `main`'s place;
`PhaseInv` adds the clocks of the two windows, and that they follow each other without a gap, from which
`BoundedShutdown` and `RequestsFinish` follow.  `LastRefreshInv` follows the refresher after the signal: it finishes
the command that runs or the one that a ready tick starts at once, and no third, so the window is enough for it.

*`Scrape`.*  `CallInv`: a cache is being asked only for the collector that is at the step which asks it, so
the answer cannot go to another.  `WalkInv` is the loop invariant of `StatusTracker.Collect`: the entries before
the one it is at have been reported truthfully, the one it is at has sent what its steps so far send, the rest have
sent nothing.  `SuccessIsTruthful` and `EveryCollectorReports` are read off it.  `Lineage` is about one
cache and all scrapes: a snapshot that a scrape was given is the cached one, or older, and if it was
taken in that scrape and is not the cached one any more, then the scrape has lasted a TTL; and the readers
of one scrape were given snapshots in their order.  It needs `WalkInv` to know that nobody later in the
order has been given anything yet.  It is stated once and proved for both caches.

*`SacctEfficiency`.*  `Asked` is the last tick that a successful refresh has answered, or an earlier one.
`WindowInv` says that a job which no refresh has counted ended later than `Asked`, give or take the
hour that occurs twice.  A refresh that succeeds keeps it because its window goes back over two ticks and twice that
hour, one for each end of the window; one that fails leaves `Asked` where it was.  That the ticks are a whole
interval apart is arithmetic with remainders by a number that is not known, which three lemmas do once.
`EndedInv` says that what is listed has ended, and keeps what it ended with, so that `EveryListedJobCounted` has only to be
shown of a refresh.  What the parser knows of a job depends on the set of its lines seen so far and not on their order
(`KnownFrom`: the record is the allocation line, if it was seen; the peak is the greatest of those seen), and in each of
the orders the set is the same in the end (`OrdersHave`).  `SeriesAre` has the values of a series from the records: one if there is
a record for the labels, none otherwise.

*`NodeInventory`.*  scontrol prints a line for each node, so a count of lines is one of nodes (`SameCount`,
a bijection); `ReservationCounts` restates the parser's counts so.  The rest compares
cardinalities of sets of nodes: the base states are disjoint, and what is up is usable or drained.  `UsableWord`
relates scontrol's base state and flags to the word that sinfo prints of them, over every case.  For `NodeViewsAgree`
the groups of `sinfo` are shown to partition the nodes, so that counting their sizes by state counts nodes; the
fields of the parser are shown to cover every word.  The maps that the loops fill are followed line by line: which
keys are there after each line, and that no later line changes what an earlier one stored (`AddReason`,
`AddReservation`, `AddPartition`).  `GPUViewsAgree` compares sums over lines of what one node has, has used, and has
as long as it is available; that the third is no less than the second and the first no less than the third is shown
for one node, and the rest is the law of sums.

*`JobQueue`.*  `JobTable` says that a job has one or more partitions and none twice, and that one that runs has one
and is one task; it is inductive.  A listing is the concatenation, over the jobs, of the lines of each, so the number of
lines with a property is a sum over the jobs (`FlattenSeq`'s law).  The loop of each parser is followed with a loop
invariant that says what has been counted under each key so far: the number of lines seen that count there.  The end
of the loop and the sum over the jobs then differ in the order of two sums.  The properties are the equations
between different listings: `PartitionsMatchQueue` that a job without an array gives either one line or none
in both, `RunningCountedOnce` that a running job's partitions are one, so the sum over partitions of the jobs
in each is the number of jobs.  `AggregateCountsAll` needs that two different series of one line never have the same
labels once the user is dropped, which follows from the partitions of a job being different.

*`FairShare`.*  The associations are finitely many (`ShareInv`).  What the loop of `tryCollect` has emitted after each line
has no label set twice, consists of lines seen, and has one of every label set that is wanted (`EmitOne`, `AllEmitted`).
A line that has an account's label and no user is that account's own line, so the series shown is the account's
(`LinesAreOf`, `AccountsAreShown`); a user's series is that of one of the user's associations that has shares (`UserSeries`).
`UsersAddUp` compares usages as sums over associations: of the lines of an account's users, and of what the account has below it.

*`Scheduler`.*  `StatsInv`: the figures are numbers, and a call that was not made took no time.  The listing is read
part by part: a loop over two parts one after the other is the loop over the second from where the first ended (`InTwo`), and
the loop that fills the tables is idle over the figures as the loop that fills the gauges is over the tables (`Idle`).
For `GaugesAreTheirFigures` each line leads from one state of the parser to the next (`LineLeads`), and so do parts that are
there only if something has been counted; the keys that appear twice need the set of the keys already seen.  A
mean whose line is left out is 0, as is the gauge that nothing was assigned to.  For `RPCViewsAgree` each table has a row for
each name that was called, under its label (`Tabulates`); the labels of the names are different, so a sum over a table is one
over the names (a bijection), and the two sums over names are those of one matrix of calls by row and by column.

Invariants were checked by TLC on the instances of section 3 before they were proved.

### Left to TLC

- All liveness, including the liveness part of the refinement: it rests on `ENABLED`.
- The two claims of the repository that TLC refutes (the runs that expect a violation).
- What the models leave open: `SacctEfficiency` has four orders of a listing's lines, and sdiag's rows come in the order of
  `SetToSeq`; the proofs of the loops do not depend on which.

## 7. What is not modelled

- Splitting lines, numbers, units and timestamps; memory figures, the time of a drain and the times of
  reservations, which the collectors copy from a column to a series.
- `licenses.go`: four figures of a line become four series, and nothing relates them to anything
  else.
- The histogram and the error counter of `Execute`; the logger; the routes of `newMux`; the
  flags, beyond a choice of their values.
- `metric_surface.go` and `command_registry.go` are tables that documentation is generated
  from, with no state at run time; `src/tools/` are developer tools.

## 8. Plan

Done: the core (`RWMutex`, `TimedCache`, `SnapshotRegister` with proofs), its users
(`SharedCaches`, `Scrape`), the other concurrent parts (`SacctRefresher`, `Execute` with
`SlurmInfo`, `Shutdown`), and the parsers whose output can be held against something
(`JobQueue`, `NodeInventory`, `SacctEfficiency`, `Scheduler`, `FairShare`).

Proved: every safety invariant that a passing run checks.

Next: what a reader of the proofs would ask for.  The hypothesis of `SacctSpaced` could be replaced by
the weaker statement that holds without it (a refresh is never started before the previous one has ended), and the action properties of the parts (what is stored is replaced
only by a refresh that succeeded; a report once sent is not changed) stated and proved from the same invariants.
