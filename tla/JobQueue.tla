------------------------------ MODULE JobQueue ------------------------------
(***************************************************************************)
(* The job queue as three squeue consumers count it: accounts and users    *)
(* (internal/collector/accounts.go, users.go), the job part of partitions  *)
(* (partitions.go), which share one snapshot (squeue_jobs.go), and the     *)
(* queue collector (queue.go) with a command of its own.                   *)
(*                                                                         *)
(* The actions are slurmctld's: what can happen to a job between scrapes.  *)
(* squeue's two listings of the jobs, every parser and what it emits are   *)
(* functions of that state, so the invariants hold of a scrape at any      *)
(* moment.  A line of squeue is a record of the columns that the source    *)
(* reads; columns hold no separator.                                       *)
(***************************************************************************)
EXTENDS Integers, SequencesExt

CONSTANTS
  Shapes,           \* the jobs that users submit
  Partitions,       \* names of the partitions
  Hidden,           \* those that sinfo and squeue show with -a only
  DefaultPartition, \* the default partition
  PendingReasons,   \* why a job is pending
  DefaultStates,    \* the states squeue reports when it is not told which
  Ends,             \* the states a job ends in
  MaxJobs           \* bound of the model: jobs that slurmctld remembers

ASSUME JobQueueAssumption ==
  /\ Hidden \subseteq Partitions
  /\ DefaultPartition \in Partitions \ Hidden
  /\ IsFiniteSet(Partitions)
  /\ \A s \in Shapes :
       /\ s.parts \in Seq(Partitions) /\ s.parts # << >> /\ IsInjective(s.parts)
       /\ {s.cpus, s.gpus, s.tasks} \subseteq Nat /\ s.tasks # 0
  /\ {"PENDING", "RUNNING"} \subseteq DefaultStates
  /\ (DefaultStates \cup {"SUSPENDED", "COMPLETING"}) \cap Ends = {}
  /\ "NONE" \notin DefaultStates \cup Ends
  /\ MaxJobs \in Nat \ {0}

VARIABLES
  jobs,                \* the job table of slurmctld
  marked,              \* this version of squeue marks the default partition
  withTerminalStates   \* --collector.queue.terminal-states

queueVars == <<jobs, marked, withTerminalStates>>

JobIds == 1 .. MaxJobs
Live   == {"PENDING", "RUNNING", "SUSPENDED", "COMPLETING"}
None   == [state |-> "NONE"]
NotPending == "None"

QueueInit ==
  /\ jobs = [j \in JobIds |-> None]
  /\ marked \in BOOLEAN
  /\ withTerminalStates \in BOOLEAN

-----------------------------------------------------------------------------
(* slurmctld.                                                              *)

FreeIds == {j \in JobIds : jobs[j] = None}
NextId == CHOOSE j \in FreeIds : \A k \in FreeIds : j <= k

Becomes(j, job) ==
  /\ jobs' = [jobs EXCEPT ![j] = job]
  /\ UNCHANGED <<marked, withTerminalStates>>

\* A shape names user, account, cpus, gpus, tasks (of a job array) and parts,
\* the partitions of "sbatch -p a,b".
Submit ==
  \E s \in Shapes, r \in PendingReasons :
    /\ FreeIds # {}
    /\ Becomes(NextId, [user |-> s.user, account |-> s.account, parts |-> s.parts,
                       cpus |-> s.cpus, gpus |-> s.gpus, tasks |-> s.tasks,
                       state |-> "PENDING", reason |-> r])

Reconsider(j) ==
  /\ jobs[j].state = "PENDING"
  /\ \E r \in PendingReasons \ {jobs[j].reason} : Becomes(j, [jobs[j] EXCEPT !.reason = r])

\* A task of an array that starts or is cancelled is a job of its own from then
\* on, and leaves the others pending.
Task(j, job) ==
  \/ jobs[j].tasks = 1 /\ Becomes(j, job)
  \/ /\ jobs[j].tasks > 1
     /\ FreeIds # {}
     /\ jobs' = [jobs EXCEPT ![j].tasks = @ - 1, ![NextId] = job]
     /\ UNCHANGED <<marked, withTerminalStates>>

\* A job runs in one of its partitions.
Start(j) ==
  /\ jobs[j].state = "PENDING"
  /\ \E p \in Partitions :
       /\ p \in ToSet(jobs[j].parts)
       /\ Task(j, [jobs[j] EXCEPT !.state = "RUNNING", !.parts = <<p>>,
                                    !.reason = NotPending, !.tasks = 1])

Cancel(j) ==
  /\ jobs[j].state = "PENDING"
  /\ "CANCELLED" \in Ends
  /\ Task(j, [jobs[j] EXCEPT !.state = "CANCELLED", !.reason = NotPending, !.tasks = 1])

Moves(j, from, to) == jobs[j].state = from /\ Becomes(j, [jobs[j] EXCEPT !.state = to])

Suspend(j)  == Moves(j, "RUNNING", "SUSPENDED")
Resume(j)   == Moves(j, "SUSPENDED", "RUNNING")
Complete(j) == Moves(j, "RUNNING", "COMPLETING")
End(j)      == \E e \in Ends : Moves(j, "COMPLETING", e)

\* slurmctld forgets it MinJobAge after its end.
Forget(j) == jobs[j].state \in Ends /\ Becomes(j, None)

QueueNext ==
  \/ Submit
  \/ \E j \in JobIds :
       Reconsider(j) \/ Start(j) \/ Cancel(j) \/ Suspend(j) \/ Resume(j)
       \/ Complete(j) \/ End(j) \/ Forget(j)

QueueSpec == QueueInit /\ [][QueueNext]_queueVars

-----------------------------------------------------------------------------
(* squeue.                                                                 *)

\* The partition column: a list of names, the default one with its marker.
Column(parts) ==
  [i \in DOMAIN parts |-> [name |-> parts[i], star |-> marked /\ parts[i] = DefaultPartition]]

JobLine(j) == [user |-> jobs[j].user, account |-> jobs[j].account,
              part |-> Column(jobs[j].parts), state |-> jobs[j].state,
              reason |-> jobs[j].reason, cores |-> jobs[j].cpus, gpus |-> jobs[j].gpus]

\* The lines for job j: n of them if it is in these states.
JobLines(j, states, n) == IF jobs[j].state \in states THEN [i \in 1 .. n |-> JobLine(j)] ELSE << >>

\* Mutant: without -r.
SqueueJobsData_arrays == FlattenSeq([j \in JobIds |-> JobLines(j, DefaultStates, 1)])

\* squeue -a -r: hidden partitions too, and a line for every task of an array.
SqueueJobsData == FlattenSeq([j \in JobIds |-> JobLines(j, DefaultStates, jobs[j].tasks)])

\* squeue [--states=all]: one line for the pending tasks of an array.
QueueData ==
  LET states == IF withTerminalStates THEN Live \cup Ends ELSE DefaultStates
  IN FlattenSeq([j \in JobIds |->
       JobLines(j, states, IF ToSet(jobs[j].parts) \subseteq Hidden THEN 0 ELSE 1)])

-----------------------------------------------------------------------------
(* The projections of the shared snapshot, and their parsers.              *)

projectNamedJobView(lines, name) ==
  [i \in DOMAIN lines |-> [name  |-> lines[i][name],  state |-> lines[i].state,
                           cores |-> lines[i].cores, gpus  |-> lines[i].gpus]]

\* Mutant: the state is not looked at.
projectPartitionView_all(lines, state) == [i \in DOMAIN lines |-> lines[i].part]

projectPartitionView(lines, state) ==
  FlattenSeq([i \in DOMAIN lines |-> IF lines[i].state = state THEN <<lines[i].part>> ELSE << >>])

JobMetrics == [pending |-> 0, running |-> 0, runningCpus |-> 0,
               runningGPUs |-> 0, suspended |-> 0]

Counted(c, l) ==
  CASE l.state = "PENDING"   -> [c EXCEPT !.pending = @ + 1]
    [] l.state = "RUNNING"   -> [c EXCEPT !.running = @ + 1,
                                          !.runningCpus = @ + l.cores,
                                          !.runningGPUs = @ + l.gpus]
    [] l.state = "SUSPENDED" -> [c EXCEPT !.suspended = @ + 1]
    [] OTHER                 -> c

CountJob(m, l) ==
  [n \in DOMAIN m \cup {l.name} |->
     IF n = l.name THEN Counted(IF n \in DOMAIN m THEN m[n] ELSE JobMetrics, l) ELSE m[n]]

Empty == [x \in {} |-> 0]

ParseAccountsMetrics(view) == FoldLeft(CountJob, Empty, view)
ParseUsersMetrics(view)    == FoldLeft(CountJob, Empty, view)

\* The marker is stripped from every name of the list.
squeuePartitions(column) == [i \in DOMAIN column |-> column[i].name]

\* How often x occurs in s.
Times(x, s) == Cardinality({i \in DOMAIN s : s[i] = x})

\* Mutant: a marked name is looked up as it is.
CountIn_raw(counts, column) ==
  [p \in DOMAIN counts |-> counts[p] + Times([name |-> p, star |-> FALSE], column)]

\* A job is counted in each of its partitions that sinfo knows.
CountIn(counts, column) ==
  [p \in DOMAIN counts |-> counts[p] + Times(p, squeuePartitions(column))]

\* parsePartitionCPUs made an entry of every partition that sinfo lists.
Known == [p \in Partitions \ Hidden |-> 0]

parsePartitionJobs(pendingData, runningData) ==
  [jobPending |-> FoldLeft(CountIn, Known, pendingData),
   jobRunning |-> FoldLeft(CountIn, Known, runningData)]

-----------------------------------------------------------------------------
(* The queue collector.                                                    *)

\* The states it has a map for; a job in any other is counted nowhere.
QueueStates ==
  {"PENDING", "RUNNING", "SUSPENDED", "CANCELLED", "COMPLETING", "COMPLETED",
   "CONFIGURING", "FAILED", "TIMEOUT", "PREEMPTED", "NODE_FAIL"}

\* A counter that is not there reads as 0.
At(m, x) == IF x \in DOMAIN m THEN m[x] ELSE 0

\* Each counter of inc is added to m's.
Incr(m, inc) == [x \in DOMAIN m \cup DOMAIN inc |-> At(m, x) + At(inc, x)]

NoLabel == ""

\* Its 22 maps are two here, one of jobs and one of cores, with the state in the
\* key; only pending jobs are told apart by their reason.
SeriesKey(l, p) == [state |-> l.state, part |-> p, user |-> l.user,
                    reason |-> IF l.state = "PENDING" THEN l.reason ELSE NoLabel]

\* n for each partition in the line's list.
InEach(l, n) ==
  LET keys == [i \in DOMAIN l.part |-> SeriesKey(l, squeuePartitions(l.part)[i])]
  IN  [k \in ToSet(keys) |-> n * Times(k, keys)]

\* Mutant: the totals are counted once per partition.
AddLine_total(qm, l) ==
  IF l.state \notin QueueStates THEN qm
  ELSE [jobs       |-> Incr(qm.jobs, InEach(l, 1)),
        cores      |-> Incr(qm.cores, InEach(l, l.cores)),
        jobTotals  |-> Incr(qm.jobTotals, [s \in {l.state} |-> Len(l.part)]),
        coreTotals |-> Incr(qm.coreTotals, [s \in {l.state} |-> l.cores])]

AddLine(qm, l) ==
  IF l.state \notin QueueStates THEN qm
  ELSE [jobs       |-> Incr(qm.jobs, InEach(l, 1)),
        cores      |-> Incr(qm.cores, InEach(l, l.cores)),
        jobTotals  |-> Incr(qm.jobTotals, [s \in {l.state} |-> 1]),
        coreTotals |-> Incr(qm.coreTotals, [s \in {l.state} |-> l.cores])]

ParseQueueMetrics(lines) ==
  FoldLeft(AddLine, [jobs |-> Empty, cores |-> Empty,
                     jobTotals |-> Empty, coreTotals |-> Empty], lines)

\* Without the user label: the users' values are added up.
Labels(key) == [state |-> key.state, part |-> key.part, reason |-> key.reason]

\* Mutant: one user's value replaces another's.
pushAggregated_last(m) ==
  [ls \in {Labels(k) : k \in DOMAIN m} |-> m[CHOOSE k \in DOMAIN m : Labels(k) = ls]]

pushAggregated(m) ==
  [ls \in {Labels(k) : k \in DOMAIN m} |-> SumFunctionOnSet(m, {k \in DOMAIN m : Labels(k) = ls})]

\* A total is sent for every state, and a missing one reads as 0.
emitGlobalTotals(totals) ==
  [s \in QueueStates |-> At(totals, s)]

-----------------------------------------------------------------------------
accounts   == ParseAccountsMetrics(projectNamedJobView(SqueueJobsData, "account"))
users      == ParseUsersMetrics(projectNamedJobView(SqueueJobsData, "user"))
partitions == parsePartitionJobs(projectPartitionView(SqueueJobsData, "PENDING"),
                                 projectPartitionView(SqueueJobsData, "RUNNING"))
queue      == ParseQueueMetrics(QueueData)

Total(m, f) == SumFunction([n \in DOMAIN m |-> m[n][f]])

Queued(q, state, p) ==
  SumFunctionOnSet(q.jobs, {k \in DOMAIN q.jobs : k.state = state /\ k.part = p})

SomeJob == [user : {s.user : s \in Shapes}, account : {s.account : s \in Shapes},
            parts : Seq(Partitions), cpus : Nat, gpus : Nat, tasks : Nat \ {0},
            state : Live \cup Ends, reason : PendingReasons \cup {NotPending}]

\* The job table is well formed.
QueueTypeOK ==
  /\ jobs \in [JobIds -> {None} \cup SomeJob]
  /\ \A j \in JobIds \ FreeIds :
       /\ jobs[j].parts # << >> /\ IsInjective(jobs[j].parts)
       /\ jobs[j].state # "PENDING" => jobs[j].tasks = 1
       /\ jobs[j].state \in Live \ {"PENDING"} => Len(jobs[j].parts) = 1
  /\ {marked, withTerminalStates} \subseteq BOOLEAN

\* Two commands with different flags, two parsers, one truth: the partitions and
\* the queue collector count the same running jobs in a partition, and the same
\* pending ones but for the tasks of arrays, which only squeue -r lists.  (Marked
\* and listed partitions went uncounted on one side before #140 and #154.)
PartitionsMatchQueue ==
  LET q == queue
      m == partitions
  IN  \A p \in Partitions \ Hidden :
        /\ m.jobRunning[p] = Queued(q, "RUNNING", p)
        /\ m.jobPending[p] >= Queued(q, "PENDING", p)
        /\ (\A j \in JobIds \ FreeIds : jobs[j].tasks = 1) =>
             m.jobPending[p] = Queued(q, "PENDING", p)

\* A job runs in one partition: the partitions' running jobs add up to the
\* accounts', less those in hidden partitions.  Each of them can be pending in
\* several, but no partition has more pending jobs than there are.
RunningCountedOnce ==
  LET m == partitions
      a == accounts
      hidden == {j \in JobIds : jobs[j].state = "RUNNING" /\ Head(jobs[j].parts) \in Hidden}
  IN  /\ SumFunctionOnSet(m.jobRunning, Partitions \ Hidden)
           = Total(a, "running") - Cardinality(hidden)
      /\ \A p \in Partitions \ Hidden : m.jobPending[p] <= Total(a, "pending")

\* The cluster-wide totals are job counts: a job queued in several partitions is
\* one pending job, and its cores are wanted once (#154).
TotalsCountJobs ==
  LET lines == QueueData
      q     == ParseQueueMetrics(lines)
      of(state) == {i \in DOMAIN lines : lines[i].state = state}
  IN  \A s \in QueueStates :
        /\ emitGlobalTotals(q.jobTotals)[s] = Cardinality(of(s))
        /\ emitGlobalTotals(q.coreTotals)[s] = SumFunction([i \in of(s) |-> lines[i].cores])

\* The series that a line is counted in.
LineLabels(l) == {Labels(SeriesKey(l, p)) : p \in ToSet(squeuePartitions(l.part))}

\* Without the user label each series still counts the jobs, of all users, that
\* have its state, partition and reason: nobody's jobs are lost or counted twice,
\* and versions that mark the default partition (#20) have the same series.
AggregateCountsAll ==
  LET lines  == QueueData
      counts == pushAggregated(ParseQueueMetrics(lines).jobs)
  IN  /\ \A ls \in DOMAIN counts : ls.part \in Partitions
      /\ DOMAIN counts =
           UNION {LineLabels(lines[i]) : i \in {i \in DOMAIN lines : lines[i].state \in QueueStates}}
      /\ \A ls \in DOMAIN counts :
           counts[ls] = Cardinality({i \in DOMAIN lines : ls \in LineLabels(lines[i])})

\* The tasks of a user's jobs that are in one of these states.
TasksOf(u, states) ==
  LET of == {j \in JobIds \ FreeIds : jobs[j].user = u /\ jobs[j].state \in states}
  IN  SumFunction([j \in of |-> jobs[j].tasks])

\* A task that waits, starts, is suspended or resumes stays one job of its user, in
\* one of three series that add up to the user's tasks that have not begun to end.
\* That is so if squeue lists suspended jobs unasked, as the repository's fixture
\* has it.  If it lists pending and running ones only, as queue.go and main.go say,
\* a task is in no series while it is suspended, and that series is never above 0.
EveryTaskInOneSeries ==
  LET m == users
  IN  \A u \in {s.user : s \in Shapes} :
        LET counted == IF u \in DOMAIN m THEN m[u].pending + m[u].running + m[u].suspended ELSE 0
        IN  IF "SUSPENDED" \in DefaultStates
            THEN counted = TasksOf(u, {"PENDING", "RUNNING", "SUSPENDED"})
            ELSE /\ counted = TasksOf(u, {"PENDING", "RUNNING"})
                 /\ u \in DOMAIN m => m[u].suspended = 0
=============================================================================
