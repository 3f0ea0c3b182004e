--------------------------- MODULE SacctEfficiency ---------------------------
(***************************************************************************)
(* What refresh of internal/collector/sacct_efficiency.go asks sacct for   *)
(* and makes of the answer: the window of the query, ParseSacctEfficiency, *)
(* AggregateSacctEfficiency and the series.  SacctRefresher has the        *)
(* goroutine, the lock and the ticker; here a refresh is one step.         *)
(*                                                                         *)
(* The query names two instants as local time without a zone.  In the hour *)
(* after the clocks were set back they name two instants each, and sacct   *)
(* takes one of them.  The unit of time is whatever divides the interval   *)
(* and that hour; the time of each job and of sacct itself is too short to *)
(* matter.  A memory column is its value in MB, 0 for "", "0" and "16?".   *)
(***************************************************************************)
EXTENDS Integers, SequencesExt

CONSTANTS
  Interval,   \* --collector.sacct.interval
  Lookback,   \* --collector.sacct.lookback
  SetBack,    \* when the clocks are set back
  Hour,       \* by how much
  JobLimit,   \* bound of the model: jobs that end
  MaxTime,    \* bound of the model: the clock stops there
  Endings     \* the jobs there may be, as they end

ASSUME SacctAssumption == /\ {Interval, Lookback, Hour} \subseteq Nat \ {0}
                          /\ {SetBack, JobLimit, MaxTime} \subseteq Nat
                          /\ Endings \subseteq [user : STRING, account : STRING, state : STRING,
                                                alloc : Nat, elapsed : Nat, busy : Nat,
                                                reqMem : Nat, steps : Seq(Nat)]

VARIABLES
  clock,
  ended,    \* slurmdbd: the jobs that have ended
  due,      \* the ticker has fired
  missed,   \* the last refresh failed
  cached,   \* SacctEfficiencyCollector.cached
  listed,   \* history: the jobs that sacct listed for what is cached
  counted   \* history: the jobs that were ever in what was cached

sacctVars == <<clock, ended, due, missed, cached, listed, counted>>

JobIDs   == 1 .. JobLimit
Running  == [state |-> "RUNNING"]
EndedAt(e, t) == [f \in DOMAIN e \cup {"at"} |-> IF f = "at" THEN t ELSE e[f]]
HasEnded == {j \in JobIDs : ended[j].state # "RUNNING"}

SacctTypeOK ==
  /\ clock \in 0 .. MaxTime
  /\ \A j \in JobIDs :
       ended[j] = Running \/ \E e \in Endings, t \in 0 .. clock : ended[j] = EndedAt(e, t)
  /\ {due, missed} \subseteq BOOLEAN
  /\ listed \subseteq counted /\ counted \subseteq HasEnded
  /\ \A m \in cached : m.value \in Nat \X (Nat \ {0})

SacctInit ==
  /\ clock = 0
  /\ ended = [j \in JobIDs |-> Running]
  /\ due = TRUE
  /\ missed = FALSE
  /\ cached = {}
  /\ listed = {}
  /\ counted = {}

-----------------------------------------------------------------------------
(* sacct.                                                                  *)

\* The local time of an instant, and the instants a local time may be.
Format(t)  == IF t < SetBack THEN t ELSE t - Hour
Instants(s) == {t \in {s, s + Hour} : Format(t) = s}

QueriedStates == {"COMPLETED", "FAILED", "TIMEOUT", "CANCELLED"}

SacctSelects(from, to) ==
  {j \in HasEnded : ended[j].state \in QueriedStates /\ ended[j].at \in from .. to}

Allocation(j) ==
  [id |-> j, isStep |-> FALSE, user |-> ended[j].user, account |-> ended[j].account,
   alloc |-> ended[j].alloc, elapsed |-> ended[j].elapsed,
   totalCPU |-> ended[j].busy * ended[j].elapsed,
   cpuTime |-> ended[j].alloc * ended[j].elapsed,
   maxRSS |-> 0, reqMem |-> ended[j].reqMem]

\* A step has no user and no request; only steps have MaxRSS, and not all.
Steps(j) ==
  [i \in 1 .. Len(ended[j].steps) |->
     [Allocation(j) EXCEPT !.isStep = TRUE, !.user = "", !.reqMem = 0,
                           !.maxRSS = ended[j].steps[i]]]

\* The lines come in whatever order slurmdbd has the rows.
Orders(ids) ==
  LET allocations == [j \in ids |-> <<Allocation(j)>>]
      steps       == [j \in ids |-> Steps(j)]
      both        == [j \in ids |-> <<Allocation(j)>> \o Steps(j)]
      Each(lines) == FlattenSeq([j \in JobIDs |-> IF j \in ids THEN lines[j] ELSE << >>])
  IN {Each(both), Reverse(Each(both)),
      Each(allocations) \o Each(steps), Each(steps) \o Each(allocations)}

-----------------------------------------------------------------------------
(* The exporter.                                                           *)

parseSacctMemory(column) == [value |-> column, ok |-> column # 0]

NoLine == [rec |-> << >>, haveAlloc |-> FALSE, maxRSS |-> 0, rssSeen |-> FALSE]

SeeMaxRSS(job, line) ==
  LET rss == parseSacctMemory(line.maxRSS)
  IN IF rss.ok /\ (~job.rssSeen \/ rss.value > job.maxRSS)
     THEN [job EXCEPT !.maxRSS = rss.value, !.rssSeen = TRUE]
     ELSE job

\* The allocation line of a job that was somebody's and used something.
Authoritative(line) ==
  /\ ~line.isStep
  /\ line.user # "" /\ line.account # ""
  /\ line.alloc # 0 /\ line.elapsed # 0

\* Mutant: a step whose job has not been seen yet is dropped.
ReadLine_ordered(byID, line) ==
  LET job == IF line.isStep /\ ~byID[line.id].haveAlloc
             THEN byID[line.id] ELSE SeeMaxRSS(byID[line.id], line)
  IN [byID EXCEPT ![line.id] =
        IF Authoritative(line) THEN [job EXCEPT !.rec = line, !.haveAlloc = TRUE] ELSE job]

ReadLine(byID, line) ==
  LET job == SeeMaxRSS(byID[line.id], line)
  IN [byID EXCEPT ![line.id] =
        IF Authoritative(line) THEN [job EXCEPT !.rec = line, !.haveAlloc = TRUE] ELSE job]

\* One record for each job with an allocation line, whatever order it came in.
ParseSacctEfficiency(lines) ==
  LET byID == FoldLeft(ReadLine, [j \in JobIDs |-> NoLine], lines)
  IN [j \in {k \in JobIDs : byID[k].haveAlloc} |-> byID[j]]

\* Mutant (#143): a job without MaxRSS is one that used no memory.
InMemAverage_zero(r) == r.rec.reqMem > 0

InMemAverage(r) == r.rec.reqMem > 0 /\ r.rssSeen

\* A value is a sum and what it is divided by.
Aggregate(records, ids) ==
  LET mem == {j \in ids : InMemAverage(records[j])}
      cpu == {j \in ids : records[j].rec.cpuTime > 0}
      Percent(part, whole) == (part * 100) \div whole
  IN [jobCount |-> <<Cardinality(ids), 1>>,
      cpuHoursAllocated |-> <<SumFunction([j \in ids |-> records[j].rec.cpuTime]), 1>>,
      cpuEfficiency |->
        <<SumFunction([j \in cpu |-> Percent(records[j].rec.totalCPU, records[j].rec.cpuTime)]),
          Cardinality(cpu)>>,
      memEfficiency |->
        <<SumFunction([j \in mem |-> Percent(records[j].maxRSS, records[j].rec.reqMem)]),
          Cardinality(mem)>>]

AggregateSacctEfficiency(records) ==
  {[account |-> g.account, user |-> g.user,
    agg |-> Aggregate(records, {j \in DOMAIN records : /\ records[j].rec.account = g.account
                                                       /\ records[j].rec.user = g.user})] :
     g \in {records[j].rec : j \in DOMAIN records}}

\* The memory series is there if it has a job to average.
Metrics(aggregates) ==
  UNION {{[name |-> n, account |-> g.account, user |-> g.user, value |-> g.agg[n]] :
            n \in {"cpuEfficiency", "jobCount", "cpuHoursAllocated"}
                  \cup (IF g.agg.memEfficiency[2] > 0 THEN {"memEfficiency"} ELSE {})} :
         g \in aggregates}

\* Mutant: only what is new since the last refresh is asked for.
startTime_interval == Format(clock - Interval)

startTime == Format(clock - Lookback)
endTime   == Format(clock)

-----------------------------------------------------------------------------
\* slurmdbd: a job ends.
JobEnds(j) ==
  /\ ended[j] = Running
  /\ \E e \in Endings : ended' = [ended EXCEPT ![j] = EndedAt(e, clock)]
  /\ UNCHANGED <<clock, due, missed, cached, listed, counted>>

refresh ==
  /\ due
  /\ due' = FALSE
  /\ missed' = FALSE
  /\ \E from \in Instants(startTime), to \in Instants(endTime) :
       LET ids == SacctSelects(from, to)
       IN \E lines \in Orders(ids) :
            /\ cached' = Metrics(AggregateSacctEfficiency(ParseSacctEfficiency(lines)))
            /\ listed' = ids
            /\ counted' = counted \cup ids
  /\ UNCHANGED <<clock, ended>>

\* sacct fails, which keeps the previous cache.  One refresh is missed at a time.
refreshFails ==
  /\ due
  /\ ~missed
  /\ due' = FALSE
  /\ missed' = TRUE
  /\ UNCHANGED <<clock, ended, cached, listed, counted>>

Passes ==
  /\ ~due
  /\ clock < MaxTime
  /\ clock' = clock + 1
  /\ due' = (clock' % Interval = 0)
  /\ UNCHANGED <<ended, missed, cached, listed, counted>>

SacctNext == (\E j \in JobIDs : JobEnds(j)) \/ refresh \/ refreshFails \/ Passes

SacctSpec == SacctInit /\ [][SacctNext]_sacctVars

-----------------------------------------------------------------------------
\* The jobs of those listed that the series are about.
Used(user, account) ==
  {j \in listed : /\ ended[j].user = user /\ ended[j].account = account
                  /\ ended[j].alloc > 0 /\ ended[j].elapsed > 0}

Peak(j) == Max(ToSet(ended[j].steps))

Measured(ids) ==
  {j \in ids : ended[j].reqMem > 0 /\ \E i \in 1 .. Len(ended[j].steps) : ended[j].steps[i] > 0}

\* "aggregated by account+user over the lookback window": each job that used
\* anything is counted once for its user in its account, and no other is.  The
\* memory average is over the peaks of the jobs that have one, whatever order
\* the lines came in; with no such job there is no average, rather than a zero
\* that an alert would fire on (#143).
EveryListedJobCounted ==
  \A user, account \in {e.user : e \in Endings} \cup {e.account : e \in Endings} :
    LET ids == IF user = "" \/ account = "" THEN {} ELSE Used(user, account)
        Series(n) == {m.value : m \in {c \in cached : /\ c.name = n /\ c.user = user
                                                      /\ c.account = account}}
    IN /\ Series("jobCount") = IF ids = {} THEN {} ELSE {<<Cardinality(ids), 1>>}
       /\ Series("memEfficiency") =
            IF Measured(ids) = {} THEN {}
            ELSE {<<SumFunction([j \in Measured(ids) |-> (Peak(j) * 100) \div ended[j].reqMem]),
                    Cardinality(Measured(ids))>>}

\* Each local time that a refresh may name for a job that ended at this moment
\* names one instant: the clocks are not set back near either end of its window.
Unambiguous(at) ==
  \A t \in at .. at + 2 * Interval :
    Instants(Format(t)) = {t} /\ Instants(Format(t - Lookback)) = {t - Lookback}

\* "the overlap is what makes a missed refresh harmless": if the window is long
\* enough for two intervals, every job is in the series of some refresh, even if
\* every other refresh fails.  The defaults have a window of twelve.  For a job
\* that ends when the clocks are set back, or a window's length after, it has to
\* be longer by the hour that occurs twice, once for each end of the window; the
\* defaults are not.
MissedRefreshHarmless ==
  \A j \in HasEnded :
    LET at     == ended[j].at
        enough == IF Unambiguous(at) THEN 2 * Interval ELSE 2 * (Interval + Hour)
    IN  ended[j].state \in QueriedStates /\ Lookback >= enough /\ ~due /\ clock >= at + enough
          => j \in counted
=============================================================================
