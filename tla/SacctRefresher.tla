--------------------------- MODULE SacctRefresher ---------------------------
(***************************************************************************)
(* SacctEfficiencyCollector of internal/collector/sacct_efficiency.go: a   *)
(* background goroutine runs sacct at start and then at every tick, stores *)
(* what it parsed with the time under the write lock, and exits when its   *)
(* context is cancelled.  Collect serves the stored pair to the scrapes    *)
(* under the read lock.                                                    *)
(*                                                                         *)
(* Clocks are relative and saturate, so that the model has no last instant *)
(* and its liveness does not depend on one.  Two consecutive refreshes are *)
(* told apart by a generation, 1 and 2 in turn; 0 is the zero value.       *)
(***************************************************************************)
EXTENDS Integers, RWMutex

CONSTANTS Refresher,   \* the goroutine that Start launches
          Interval,    \* SacctEfficiencyCollector.interval
          Timeout      \* the longest a command runs

ASSUME RefresherAssumption == /\ Refresher \in Procs
                              /\ Interval \in Nat \ {0}
                              /\ Timeout \in Nat

VARIABLES
  mu,           \* SacctEfficiencyCollector.mu
  cached,       \* SacctEfficiencyCollector.cached: the generation of the metrics
  lastRefresh,  \* SacctEfficiencyCollector.lastRefresh: that of the timestamp
  pc,           \* where the background goroutine is
  ran,          \* for how long its command has run
  tickIn,       \* time to the ticker's next tick, NoTicker before NewTicker
  ticked,       \* ticker.C holds a tick
  cancelled,    \* ctx.Done() is closed
  done,         \* the done channel is closed
  at,           \* where the Collect call of each scrape is
  sent,         \* what that call has sent
  since,        \* history: time since the last refresh began, up to Interval
  gap,          \* history: time between the last two beginnings, up to Interval
  stale,        \* history: age of lastRefresh, up to 2 * Interval + 1
  failed        \* history: a refresh failed since the last one that succeeded

refresh == <<pc, ran, tickIn, ticked, cancelled, done>>
stored  == <<cached, lastRefresh>>
scrapes == <<at, sent>>
history == <<since, gap, stale, failed>>
vars    == <<mu, refresh, stored, scrapes, history>>

Scrapes     == Procs \ {Refresher}
NoTicker    == 0
Generations == 0 .. 2
NothingSent == [metrics |-> 0, time |-> 0]

TypeOK ==
  /\ mu \in RWMutexes
  /\ cached \in Generations
  /\ lastRefresh \in Generations
  /\ pc \in {"start", "running", "lock", "store", "select", "exited"}
  /\ ran \in 0 .. Timeout
  /\ tickIn \in 0 .. Interval
  /\ ticked \in BOOLEAN
  /\ cancelled \in BOOLEAN
  /\ done \in BOOLEAN
  /\ at \in [Scrapes -> {"idle", "metrics", "time", "sent"}]
  /\ sent \in [Scrapes -> [metrics : Generations, time : Generations]]
  /\ since \in 0 .. Interval
  /\ gap \in 0 .. Interval
  /\ stale \in 0 .. 2 * Interval + 1
  /\ failed \in BOOLEAN

Init ==
  /\ mu = Unlocked
  /\ cached = 0
  /\ lastRefresh = 0
  /\ pc = "start"
  /\ ran = 0
  /\ tickIn = NoTicker
  /\ ticked = FALSE
  /\ cancelled = FALSE
  /\ done = FALSE
  /\ at = [s \in Scrapes |-> "idle"]
  /\ sent = [s \in Scrapes |-> NothingSent]
  /\ since = Interval
  /\ gap = Interval
  /\ stale = 0
  /\ failed = FALSE

-----------------------------------------------------------------------------
UpTo(n, bound) == IF n < bound THEN n ELSE bound

\* Mutant: the lock is taken before the command.
Begin_locked(from) ==
  /\ pc = from
  /\ pc' = "running"
  /\ CanAnnounce(mu)
  /\ mu' = Announce(mu, Refresher)
  /\ ran' = 0
  /\ gap' = since
  /\ since' = 0
  /\ UNCHANGED <<tickIn, cancelled, done, stored, scrapes, stale, failed>>

\* refresh() begins: the command is started.
Begin(from) ==
  /\ pc = from
  /\ pc' = "running"
  /\ ran' = 0
  /\ gap' = since
  /\ since' = 0
  /\ UNCHANGED <<mu, tickIn, cancelled, done, stored, scrapes, stale, failed>>

\* Mutant: the ticker is given twice the interval.
End_double ==
  /\ pc' = "select"
  /\ ran' = 0
  /\ tickIn' = IF tickIn = NoTicker THEN 2 * Interval ELSE tickIn
  /\ UNCHANGED <<ticked, cancelled, done>>

\* refresh() is over.  The ticker is made after the first one.
End ==
  /\ pc' = "select"
  /\ ran' = 0
  /\ tickIn' = IF tickIn = NoTicker THEN Interval ELSE tickIn
  /\ UNCHANGED <<ticked, cancelled, done>>

FirstRefresh == Begin("start") /\ UNCHANGED ticked

\* The ticker's case of the select.
OnTick == /\ ticked
          /\ ticked' = FALSE
          /\ Begin("select")

\* Mutant: the select looks at the ticker first.
OnCancelled_ticks ==
  /\ pc = "select"
  /\ cancelled /\ ~ticked
  /\ pc' = "exited"
  /\ done' = TRUE
  /\ UNCHANGED <<mu, ran, tickIn, ticked, cancelled, stored, scrapes, history>>

\* The context's case: the deferred close of done runs as the goroutine ends.
OnCancelled ==
  /\ pc = "select"
  /\ cancelled
  /\ pc' = "exited"
  /\ done' = TRUE
  /\ UNCHANGED <<mu, ran, tickIn, ticked, cancelled, stored, scrapes, history>>

\* Mutant: a refresh that fails is tried again at once.
SacctFails_retry ==
  /\ pc = "running"
  /\ failed' = TRUE
  /\ pc' = "start"
  /\ UNCHANGED <<mu, ran, tickIn, ticked, cancelled, done, stored, scrapes,
                 since, gap, stale>>

\* The command failed: the previous cache is kept.
SacctFails ==
  /\ pc = "running"
  /\ failed' = TRUE
  /\ End
  /\ UNCHANGED <<mu, stored, scrapes, since, gap, stale>>

\* The command succeeded and its output is parsed: ask for the write lock.
LockToStore ==
  /\ pc = "running"
  /\ CanAnnounce(mu)
  /\ mu' = Announce(mu, Refresher)
  /\ pc' = "lock"
  /\ UNCHANGED <<ran, tickIn, ticked, cancelled, done, stored, scrapes, history>>

\* Mutant: the lock is given back between the two assignments.
StoreMetrics_unlocked ==
  /\ pc = "lock"
  /\ HoldsWrite(mu, Refresher)
  /\ cached' = IF cached = 1 THEN 2 ELSE 1
  /\ pc' = "store"
  /\ mu' = Unlock(mu)
  /\ UNCHANGED <<ran, tickIn, ticked, cancelled, done, lastRefresh, scrapes, history>>

StoreMetrics ==
  /\ pc = "lock"
  /\ HoldsWrite(mu, Refresher)
  /\ cached' = IF cached = 1 THEN 2 ELSE 1
  /\ pc' = "store"
  /\ UNCHANGED <<mu, ran, tickIn, ticked, cancelled, done, lastRefresh, scrapes, history>>

StoreTime ==
  /\ pc = "store"
  /\ lastRefresh' = cached
  /\ mu' = Unlock(mu)
  /\ End
  /\ stale' = 0
  /\ failed' = FALSE
  /\ UNCHANGED <<cached, scrapes, since, gap>>

\* main's signal context is cancelled.
Cancel ==
  /\ ~cancelled
  /\ cancelled' = TRUE
  /\ UNCHANGED <<mu, pc, ran, tickIn, ticked, done, stored, scrapes, history>>

-----------------------------------------------------------------------------
Step(s, from, to) == at[s] = from /\ at' = [at EXCEPT ![s] = to]

\* Collect, called by a scrape.
Collect(s) ==
  /\ Step(s, "idle", "metrics")
  /\ mu' = RLock(mu, s)
  /\ UNCHANGED <<refresh, stored, sent, history>>

SendMetrics(s) ==
  /\ HoldsRead(mu, s)
  /\ Step(s, "metrics", "time")
  /\ sent' = [sent EXCEPT ![s].metrics = cached]
  /\ UNCHANGED <<mu, refresh, stored, history>>

\* Mutant: Collect returns without unlocking.
SendTime_locked(s) ==
  /\ Step(s, "time", "sent")
  /\ sent' = [sent EXCEPT ![s].time = lastRefresh]
  /\ UNCHANGED <<mu, refresh, stored, history>>

\* The timestamp is sent unless it is zero, which 0 stands for here too.
SendTime(s) ==
  /\ Step(s, "time", "sent")
  /\ sent' = [sent EXCEPT ![s].time = lastRefresh]
  /\ mu' = RUnlock(mu, s)
  /\ UNCHANGED <<refresh, stored, history>>

CollectReturns(s) ==
  /\ Step(s, "sent", "idle")
  /\ sent' = [sent EXCEPT ![s] = NothingSent]
  /\ UNCHANGED <<mu, refresh, stored, history>>

-----------------------------------------------------------------------------
\* Only a command and the select take time; a Collect sends to a registry that
\* drains its channel.
Waiting ==
  /\ \/ pc = "running" /\ ran < Timeout
     \/ pc = "select" /\ ~ticked /\ ~cancelled
     \/ pc = "exited"
  /\ \A s \in Scrapes : at[s] = "idle"

\* Time passes; the ticker drops a tick that finds the last one still there.
Tick ==
  /\ Waiting
  /\ ran' = IF pc = "running" THEN ran + 1 ELSE ran
  /\ since' = UpTo(since + 1, Interval)
  /\ stale' = UpTo(stale + 1, 2 * Interval + 1)
  /\ IF tickIn = NoTicker \/ pc = "exited"
     THEN UNCHANGED <<tickIn, ticked>>
     ELSE /\ tickIn' = IF tickIn = 1 THEN Interval ELSE tickIn - 1
          /\ ticked' = (ticked \/ tickIn = 1)
  /\ UNCHANGED <<mu, pc, cancelled, done, stored, scrapes, gap, failed>>

Proceed == \/ FirstRefresh \/ OnTick \/ OnCancelled
           \/ SacctFails \/ LockToStore \/ StoreMetrics \/ StoreTime

Serve(s) == SendMetrics(s) \/ SendTime(s) \/ CollectReturns(s)

Next ==
  \/ Proceed
  \/ Cancel
  \/ \E s \in Scrapes : Collect(s) \/ Serve(s)
  \/ Tick

Spec == Init /\ [][Next]_vars

(***************************************************************************)
(* Goroutines run and a command ends: weak fairness.  A select whose two   *)
(* cases stay ready picks one at random each time, so it does not pick the *)
(* tick forever: strong fairness of the other case.                        *)
(***************************************************************************)
LiveSpec ==
  /\ Spec
  /\ WF_vars(Proceed)
  /\ SF_vars(OnCancelled)
  /\ \A s \in Scrapes : WF_vars(Serve(s))

-----------------------------------------------------------------------------
\* The timestamp a scrape exports is that of the refresh which produced the
\* metrics it exports, however the refresh and the scrape interleave.
TimestampMatchesMetrics ==
  \A s \in Scrapes : at[s] = "sent" => sent[s].time = sent[s].metrics

\* "Collect returns cached metrics - non-blocking": no scrape ever waits for
\* sacct to finish, only for the two assignments that follow it.
CollectNeverWaitsForSacct == pc = "running" => mu.parked = {}

\* "sacct is never called more frequently than this": the beginnings of two
\* refreshes are an interval apart.  It is true of commands no longer than the
\* interval; see README for the others.
SacctSpaced == gap >= Interval

\* "Alert if time()-this > 2*collector.sacct.interval": a refresher whose sacct
\* succeeds, however slowly, never raises the alert.
NoFalseAlarm ==
  lastRefresh # 0 /\ ~failed /\ ~cancelled => stale <= 2 * Interval

\* A cancelled goroutine closes done, even if a tick is ready at every select, as
\* when each sacct takes the whole interval, and although scrapes keep reading
\* what its refresh is about to replace.
CancelEndsRefresher == cancelled ~> done
=============================================================================
