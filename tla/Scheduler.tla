------------------------------ MODULE Scheduler ------------------------------
(***************************************************************************)
(* The scheduler collector, internal/collector/scheduler.go: what          *)
(* ParseSchedulerMetrics and ParseRPCStats make of the output of sdiag.    *)
(*                                                                         *)
(* The actions are slurmctld's: what it counts, and the reset of its       *)
(* statistics.  sdiag's output, the parsers and the series are functions   *)
(* of that state, so the invariants hold of a scrape at any moment.  A     *)
(* line is a record: a key and its value, the title of a section, or a row *)
(* of a table of RPCs.  Keys that no pattern of the source matches are     *)
(* left out, but for two that are nearly another's.  The spaces of a key   *)
(* are written as underscores, and those before it are left out.           *)
(***************************************************************************)
EXTENDS Integers, SequencesExt

CONSTANTS
  Operations,   \* names of RPCs
  RPCUsers,     \* names of users, who send RPCs
  Label,        \* what [A-Za-z0-9_-]* matches of a name
  Durations,    \* of a cycle or of an RPC, in microseconds
  MaxEvents     \* bound of the model: what slurmctld counts up to

\* The titles of the two tables of RPCs.
ByMessageType == "Remote_Procedure_Call_statistics_by_message_type"
ByUser        == "Remote_Procedure_Call_statistics_by_user"

ASSUME SchedulerAssumption ==
  /\ DOMAIN Label = Operations \cup RPCUsers
  /\ IsFiniteSet(DOMAIN Label) /\ {ByMessageType, ByUser} \cap DOMAIN Label = {}
  /\ \A o, p \in Operations : Label[o] = Label[p] => o = p
  /\ Durations \subseteq Nat \ {0}
  /\ MaxEvents \in Nat

VARIABLES
  figures,   \* what slurmctld has counted
  calls      \* the RPCs of each kind from each user

statsVars == <<figures, calls>>

\* Counted since the statistics were reset.
Counters == {"submitted", "started", "completed", "canceled", "failed",
             "cycles", "cycleTime", "lastCycle", "minutes",
             "bfCycles", "bfCycleTime", "bfLastCycle", "bfDepth", "bfJobsCycle"}
\* What there is now, or since slurmctld started.
Levels   == {"threads", "agentQueue", "dbdQueue", "bfJobsStart", "bfHetero"}

NoCalls == [o \in Operations |-> [u \in RPCUsers |-> [count |-> 0, time |-> 0]]]

StatsTypeOK ==
  /\ figures \in [Counters \cup Levels -> Nat]
  /\ calls \in [Operations -> [RPCUsers -> [count : Nat, time : Nat]]]

StatsInit ==
  /\ figures = [f \in Counters \cup Levels |-> 0]
  /\ calls = NoCalls

-----------------------------------------------------------------------------
(* slurmctld.                                                              *)

OfOperation(field, o) == SumFunction([u \in RPCUsers |-> calls[o][u][field]])
OfUser(field, u)      == SumFunction([o \in Operations |-> calls[o][u][field]])

Events == SumFunctionOnSet(figures, (Counters \cup Levels)
                                      \ {"cycleTime", "bfCycleTime", "lastCycle", "bfLastCycle"})
          + SumFunction([o \in Operations |-> OfOperation("count", o)])

Updates(changes) ==
  /\ Events < MaxEvents
  /\ figures' = [f \in DOMAIN figures |->
                   IF f \in DOMAIN changes THEN changes[f] ELSE figures[f]]
  /\ UNCHANGED calls

More(f) == figures[f] + 1

JobEvent ==
  \E f \in {"submitted", "started", "completed", "canceled", "failed"} : Updates([g \in {f} |-> More(g)])

LoadChanges ==
  \E f \in {"threads", "agentQueue", "dbdQueue"} : Updates([g \in {f} |-> More(g)])

MainCycle ==
  \E d \in Durations :
    Updates([cycles |-> More("cycles"), cycleTime |-> figures.cycleTime + d, lastCycle |-> d])

BackfillCycle ==
  \E d \in Durations, looked \in 0 .. 1 :
    Updates([bfCycles |-> More("bfCycles"), bfCycleTime |-> figures.bfCycleTime + d,
             bfLastCycle |-> d, bfDepth |-> figures.bfDepth + looked])

Backfilled ==
  /\ figures.bfCycles > 0
  /\ \E hetero \in 0 .. 1 :
       Updates([bfJobsCycle |-> More("bfJobsCycle"), bfJobsStart |-> More("bfJobsStart"),
                bfHetero |-> figures.bfHetero + hetero, started |-> More("started")])

MinutePasses == figures.minutes = 0 /\ Updates([minutes |-> 1])

ServesRPC ==
  /\ Events < MaxEvents
  /\ \E o \in Operations, u \in RPCUsers, d \in Durations :
       calls' = [calls EXCEPT ![o][u].count = @ + 1, ![o][u].time = @ + d]
  /\ UNCHANGED figures

\* sdiag --reset, and slurmctld at midnight.
ResetStats ==
  /\ figures' = [f \in DOMAIN figures |-> IF f \in Counters THEN 0 ELSE figures[f]]
  /\ calls' = NoCalls

StatsNext == \/ JobEvent \/ LoadChanges \/ MainCycle \/ BackfillCycle \/ Backfilled
             \/ MinutePasses \/ ServesRPC \/ ResetStats

StatsSpec == StatsInit /\ [][StatsNext]_statsVars

-----------------------------------------------------------------------------
(* sdiag.                                                                  *)

Mean(time, count) == IF count = 0 THEN 0 ELSE time \div count

Figure(key, value) == [kind |-> "figure", key |-> key, value |-> value]
Title(text)        == [kind |-> "title", key |-> text]
RPCRow(name, count, time) ==
  [kind |-> "rpc", key |-> name, count |-> count, ave |-> Mean(time, count), total |-> time]

\* There is no mean before there is a cycle, nor a rate in the first minute.
If(cond, lines) == IF cond THEN lines ELSE << >>

FigureLines ==
  << Figure("Server_thread_count", figures.threads),
     Figure("Agent_queue_size", figures.agentQueue),
     Figure("DBD_Agent_queue_size", figures.dbdQueue),
     Figure("Jobs_submitted", figures.submitted),
     Figure("Jobs_started", figures.started),
     Figure("Jobs_completed", figures.completed),
     Figure("Jobs_canceled", figures.canceled),
     Figure("Jobs_failed", figures.failed),
     Figure("Last_cycle", figures.lastCycle) >>
  \o If(figures.cycles > 0, << Figure("Mean_cycle", Mean(figures.cycleTime, figures.cycles)) >>)
  \o If(figures.minutes > 0,
        << Figure("Cycles_per_minute", figures.cycles \div figures.minutes) >>)
  \o << Figure("Total_backfilled_jobs_(since_last_slurm_start)", figures.bfJobsStart),
        Figure("Total_backfilled_jobs_(since_last_stats_cycle_start)", figures.bfJobsCycle),
        Figure("Total_backfilled_heterogeneous_job_components", figures.bfHetero),
        Figure("Last_cycle_when", 0),
        Figure("Last_cycle", figures.bfLastCycle) >>
  \o If(figures.bfCycles > 0,
        << Figure("Mean_cycle", Mean(figures.bfCycleTime, figures.bfCycles)) >>)
  \o << Figure("Last_depth_cycle", 0) >>
  \o If(figures.bfCycles > 0,
        << Figure("Depth_Mean", Mean(figures.bfDepth, figures.bfCycles)) >>)

\* The rows of those that sent or were sent an RPC.
RPCRows(names, Of(_, _)) ==
  LET called == {n \in names : Of("count", n) > 0}
  IN [i \in 1 .. Cardinality(called) |->
        LET n == SetToSeq(called)[i] IN RPCRow(n, Of("count", n), Of("time", n))]

SchedulerData ==
  FigureLines \o << Title(ByMessageType) >> \o RPCRows(Operations, OfOperation)
              \o << Title(ByUser) >> \o RPCRows(RPCUsers, OfUser)

-----------------------------------------------------------------------------
(* The exporter.                                                           *)

\* applySchedulerCoreField, applySchedulerBackfillField, applySchedulerJobsField.
CoreField == {<<"Server_thread_count", "threads">>, <<"Agent_queue_size", "queueSize">>,
              <<"DBD_Agent_queue_size", "dbdQueueSize">>,
              <<"Cycles_per_minute", "cyclePerMinute">>}

BackfillCounter ==
  {<<"Depth_Mean", "backfillDepthMean">>,
   <<"Total_backfilled_jobs_(since_last_slurm_start)", "totalBackfilledJobsSinceStart">>,
   <<"Total_backfilled_jobs_(since_last_stats_cycle_start)", "totalBackfilledJobsSinceCycle">>,
   <<"Total_backfilled_heterogeneous_job_components", "totalBackfilledHeterogeneous">>}

JobsField == {<<"Jobs_submitted", "jobsSubmitted">>, <<"Jobs_started", "jobsStarted">>,
              <<"Jobs_completed", "jobsCompleted">>, <<"Jobs_canceled", "jobsCanceled">>,
              <<"Jobs_failed", "jobsFailed">>}

FieldOf == CoreField \cup BackfillCounter \cup JobsField

\* What appears twice: the first is the main scheduler's.
CycleKeys     == {"Last_cycle", "Mean_cycle"}
MainField     == {<<"Last_cycle", "lastCycle">>, <<"Mean_cycle", "meanCycle">>}
BackfillField == {<<"Last_cycle", "backfillLastCycle">>, <<"Mean_cycle", "backfillMeanCycle">>}

Fields == {pair[2] : pair \in FieldOf \cup MainField \cup BackfillField}

Assigned(sm, fields, line) ==
  [f \in Fields |-> IF <<line.key, f>> \in fields THEN line.value ELSE sm[f]]

\* Mutant: one counter for what appears twice.
applySchedulerCycleField_shared(parsed, line) ==
  [sm |-> Assigned(parsed.sm, IF parsed.seen = {} THEN MainField ELSE BackfillField, line),
   seen |-> parsed.seen \cup {line.key}]

applySchedulerCycleField(parsed, line) ==
  [sm |-> Assigned(parsed.sm, IF line.key \in parsed.seen THEN BackfillField ELSE MainField, line),
   seen |-> parsed.seen \cup {line.key}]

ApplyLine(parsed, line) ==
  IF line.kind # "figure" THEN parsed
  ELSE IF line.key \in CycleKeys THEN applySchedulerCycleField(parsed, line)
  ELSE [sm |-> Assigned(parsed.sm, FieldOf, line), seen |-> parsed.seen]

ParseSchedulerMetrics(lines) ==
  FoldLeft(ApplyLine, [sm |-> [f \in Fields |-> 0], seen |-> {}], lines).sm

\* Mutant: the first section does not end where the second begins.
Section_sticky(parsed, line) ==
  IF line.key = ByMessageType \/ parsed.section = "rpcStats" THEN "rpcStats"
  ELSE IF line.key = ByUser THEN "userRPCStats" ELSE parsed.section

Section(parsed, line) ==
  IF line.key = ByMessageType THEN "rpcStats"
  ELSE IF line.key = ByUser THEN "userRPCStats" ELSE parsed.section

\* A row is stored under what the pattern matched of its name.
Stored(table, line) ==
  LET row == [count |-> line.count, ave |-> line.ave, total |-> line.total]
  IN [l \in DOMAIN table \cup {Label[line.key]} |-> IF l = Label[line.key] THEN row ELSE table[l]]

RPCLine(parsed, line) ==
  LET section == Section(parsed, line)
      In(name, table) == IF line.kind = "rpc" /\ section = name THEN Stored(table, line) ELSE table
  IN [section |-> section, rpcStats |-> In("rpcStats", parsed.rpcStats),
      userRPCStats |-> In("userRPCStats", parsed.userRPCStats)]

ParseRPCStats(lines) ==
  FoldLeft(RPCLine, [section |-> "none", rpcStats |-> << >>, userRPCStats |-> << >>], lines)

-----------------------------------------------------------------------------
\* Every gauge is the figure that its help text names, even those whose lines
\* look alike or appear twice, and 0 if sdiag leaves its line out.  The means are
\* the exception, once the statistics are reset: until the main scheduler completes
\* a cycle sdiag has no mean of it, and the backfill's, which the parser tells by
\* its place, is in the main scheduler's gauge and not in its own.
GaugesAreTheirFigures ==
  LET sm == ParseSchedulerMetrics(SchedulerData)
      f  == figures
  IN /\ <<sm.threads, sm.queueSize, sm.dbdQueueSize>> = <<f.threads, f.agentQueue, f.dbdQueue>>
     /\ <<sm.jobsSubmitted, sm.jobsStarted, sm.jobsCompleted, sm.jobsCanceled, sm.jobsFailed>>
          = <<f.submitted, f.started, f.completed, f.canceled, f.failed>>
     /\ <<sm.lastCycle, sm.backfillLastCycle>> = <<f.lastCycle, f.bfLastCycle>>
     /\ sm.backfillDepthMean = Mean(f.bfDepth, f.bfCycles)
     /\ sm.cyclePerMinute = IF f.minutes > 0 THEN f.cycles \div f.minutes ELSE 0
     /\ <<sm.totalBackfilledJobsSinceStart, sm.totalBackfilledJobsSinceCycle,
          sm.totalBackfilledHeterogeneous>> = <<f.bfJobsStart, f.bfJobsCycle, f.bfHetero>>
     /\ <<sm.meanCycle, sm.backfillMeanCycle>> =
          IF f.cycles > 0 THEN <<Mean(f.cycleTime, f.cycles), Mean(f.bfCycleTime, f.bfCycles)>>
                          ELSE <<Mean(f.bfCycleTime, f.bfCycles), 0>>

\* Users whose names the pattern cuts to the same label share one series.
Distinct ==
  \A u, v \in RPCUsers :
    u # v /\ OfUser("count", u) > 0 /\ OfUser("count", v) > 0 => Label[u] # Label[v]

\* The two tables of RPCs are two views of the same calls: summed over the
\* operations and over the users, counts and times are the same, and a user's
\* series holds that user's calls.
RPCViewsAgree ==
  LET rpc  == ParseRPCStats(SchedulerData)
      Sum(table, field) == SumFunction([n \in DOMAIN table |-> table[n][field]])
  IN /\ \A o \in Operations :
          OfOperation("count", o) > 0 => rpc.rpcStats[Label[o]].count = OfOperation("count", o)
     /\ Distinct =>
          /\ Sum(rpc.rpcStats, "count") = Sum(rpc.userRPCStats, "count")
          /\ Sum(rpc.rpcStats, "total") = Sum(rpc.userRPCStats, "total")
          /\ \A u \in RPCUsers :
               OfUser("count", u) > 0 => rpc.userRPCStats[Label[u]].count = OfUser("count", u)
=============================================================================
