------------------------------- MODULE Scrape -------------------------------
(***************************************************************************)
(* A scrape of /metrics: the registry calls StatusTracker.Collect, which   *)
(* runs the enabled collectors one after the other and reports for each    *)
(* whether it succeeded.  Several scrapes may be in progress at once; they *)
(* share the two caches, which are taken here at their interface, the      *)
(* SnapshotRegister that TimedCache is shown to implement.                 *)
(*                                                                         *)
(* A collector is the sequence of things its tryCollect can block or stop  *)
(* at: a Slurm command of its own ("exec"), a shared snapshot ("jobs",     *)
(* "nodes"), the once of the info collector ("resolve"), and a stretch of  *)
(* metrics sent to the channel ("emit").  What the metrics say is left to  *)
(* the modules of the parsers, what a probe does to SlurmInfo.             *)
(***************************************************************************)
EXTENDS Integers, Sequences, FiniteSets, SequencesExt

CONSTANTS Procs,      \* the scrapes that may be in progress at once
          Enabled,    \* the collectors enabled on the command line
          TTL, Timeout,
          Interval,   \* scrapes start at multiples of Prometheus's interval
          MaxTime

accounts          == <<"jobs", "emit">>
users             == <<"jobs", "emit">>
partitions        == <<"exec", "exec", "jobs", "emit">>
nodes             == <<"exec", "emit", "nodes", "emit">>
reservation_nodes == <<"nodes", "emit">>
queue             == <<"exec", "emit">>
cpus              == <<"exec", "emit">>
gpus              == <<"exec", "emit">>
node              == <<"exec", "emit">>
drain_reason      == <<"exec", "emit">>
fairshare         == <<"exec", "emit">>
licenses          == <<"exec", "emit">>
reservations      == <<"exec", "emit">>
scheduler         == <<"exec", "emit">>
info              == <<"resolve", "emit">>
sacct_efficiency  == <<"emit">>   \* a plain Collect: it has no error to report

tryCollect ==
  [accounts |-> accounts, users |-> users, partitions |-> partitions,
   nodes |-> nodes, reservation_nodes |-> reservation_nodes, queue |-> queue,
   cpus |-> cpus, gpus |-> gpus, node |-> node, drain_reason |-> drain_reason,
   fairshare |-> fairshare, licenses |-> licenses,
   reservations |-> reservations, scheduler |-> scheduler, info |-> info,
   sacct_efficiency |-> sacct_efficiency]

ASSUME ScrapeAssumption ==
  /\ Enabled \subseteq DOMAIN tryCollect
  /\ IsFiniteSet(Enabled)
  /\ {TTL, Interval} \subseteq Nat \ {0}
  /\ {Timeout, MaxTime} \subseteq Nat

VARIABLES
  now,
  jSnapshot, jStoredAt, jStatus, jAsked, jReply,   \* squeueJobsCache
  nSnapshot, nStoredAt, nStatus, nAsked, nReply,   \* scontrolNodesCache
  resolving, \* the scrape that runs the info collector's resolve
  resolved,  \* resolveOnce is done
  entries,   \* StatusTracker.entries: the order of registration
  pos,       \* the entry each scrape is at; 0 while it is not running
  op,        \* the step of that entry's collector
  since,     \* when that step began
  start,     \* when the scrape began
  succeeded, \* Collect's local of that name, for the current entry
  got,       \* the snapshot each collector was given in this scrape
  emitted,   \* how many of its stretches each collector has sent
  zeros,     \* the queue collector sent its totals at zero
  success    \* slurm_exporter_collector_success, NotReported before it is sent

jVars   == <<jSnapshot, jStoredAt, jStatus, jAsked, jReply>>
nVars   == <<nSnapshot, nStoredAt, nStatus, nAsked, nReply>>
once    == <<resolving, resolved>>
samples == <<got, emitted, zeros, success>>
vars    == <<now, jVars, nVars, once, entries, pos, op, since, start, succeeded, samples>>

Jobs  == INSTANCE SnapshotRegister WITH
           snapshot <- jSnapshot, storedAt <- jStoredAt,
           status <- jStatus, asked <- jAsked, reply <- jReply
Nodes == INSTANCE SnapshotRegister WITH
           snapshot <- nSnapshot, storedAt <- nStoredAt,
           status <- nStatus, asked <- nAsked, reply <- nReply

NotReported == -1
NoSnapshot  == -1
Instant     == 0 .. MaxTime

\* resolve asks five required binaries and up to three others, one by one.
Probes == 8

\* registerCollectors ranges over a map: any order, fixed for the process.
Orders == SetToSeqs(Enabled)

TypeOK ==
  /\ now \in Instant
  /\ {jSnapshot, jStoredAt, nSnapshot, nStoredAt} \subseteq Instant \cup {-1}
  /\ resolving \subseteq Procs
  /\ resolved \in BOOLEAN
  /\ entries \in Orders
  /\ pos \in [Procs -> 0 .. Len(entries) + 1]
  /\ op \in [Procs -> Nat]
  /\ since \in [Procs -> Instant]
  /\ start \in [Procs -> Instant]
  /\ succeeded \in [Procs -> {0, 1}]
  /\ got \in [Procs -> [Enabled -> Instant \cup {NoSnapshot}]]
  /\ emitted \in [Procs -> [Enabled -> Nat]]
  /\ zeros \in [Procs -> BOOLEAN]
  /\ success \in [Procs -> [Enabled -> {NotReported, 0, 1}]]

Init ==
  /\ Jobs!Init
  /\ Nodes!Init
  /\ resolving = {}
  /\ resolved = FALSE
  /\ entries \in Orders
  /\ pos = [s \in Procs |-> 0]
  /\ op = [s \in Procs |-> 0]
  /\ since = [s \in Procs |-> 0]
  /\ start = [s \in Procs |-> 0]
  /\ succeeded = [s \in Procs |-> 1]
  /\ got = [s \in Procs |-> [c \in Enabled |-> NoSnapshot]]
  /\ emitted = [s \in Procs |-> [c \in Enabled |-> 0]]
  /\ zeros = [s \in Procs |-> FALSE]
  /\ success = [s \in Procs |-> [c \in Enabled |-> NotReported]]

-----------------------------------------------------------------------------
Running(s)  == pos[s] \in 1 .. Len(entries)
Finished(s) == pos[s] = Len(entries) + 1
Current(s)  == entries[pos[s]]
Program(s)  == tryCollect[Current(s)]

\* The collector is about to do its step o.
At(s, o) == /\ Running(s)
            /\ succeeded[s] = 1
            /\ op[s] <= Len(Program(s))
            /\ Program(s)[op[s]] = o

Continue(s) == /\ op' = [op EXCEPT ![s] = @ + 1]
               /\ since' = [since EXCEPT ![s] = now]
               /\ UNCHANGED succeeded

\* tryCollect returns an error, or a panic is recovered in Collect.
Abandon(s) == /\ succeeded' = [succeeded EXCEPT ![s] = 0]
              /\ since' = [since EXCEPT ![s] = now]
              /\ UNCHANGED op

Enter(s, i) == /\ pos' = [pos EXCEPT ![s] = i]
               /\ op' = [op EXCEPT ![s] = 1]
               /\ since' = [since EXCEPT ![s] = now]
               /\ succeeded' = [succeeded EXCEPT ![s] = 1]

\* The registry starts StatusTracker.Collect for a scrape.
StartScrape(s) ==
  /\ pos[s] = 0
  /\ now % Interval = 0
  /\ Enter(s, 1)
  /\ start' = [start EXCEPT ![s] = now]
  /\ UNCHANGED <<now, jVars, nVars, once, entries, samples>>

\* The collector's own command ends.
ExecOK(s) ==
  /\ At(s, "exec")
  /\ Continue(s)
  /\ UNCHANGED <<now, jVars, nVars, once, entries, pos, start, samples>>

\* Mutant: the error is only logged.
ExecFail_ignored(s) ==
  /\ At(s, "exec")
  /\ Continue(s)
  /\ zeros' = [zeros EXCEPT ![s] = @ \/ Current(s) = "queue"]
  /\ UNCHANGED <<now, jVars, nVars, once, entries, pos, start, got, emitted, success>>

\* On an error only the queue collector sends anything: its totals, at zero.
ExecFail(s) ==
  /\ At(s, "exec")
  /\ Abandon(s)
  /\ zeros' = [zeros EXCEPT ![s] = @ \/ Current(s) = "queue"]
  /\ UNCHANGED <<now, jVars, nVars, once, entries, pos, start, got, emitted, success>>

\* The collector asks a shared cache, which answers in its own time.
AskCache(s) ==
  /\ \/ At(s, "jobs") /\ Jobs!Invoke(s) /\ UNCHANGED nVars
     \/ At(s, "nodes") /\ Nodes!Invoke(s) /\ UNCHANGED jVars
  /\ UNCHANGED <<once, entries, pos, op, since, start, succeeded, samples>>

CacheAnswers(s) ==
  /\ \/ Jobs!Respond(s) /\ UNCHANGED nVars
     \/ Nodes!Respond(s) /\ UNCHANGED jVars
  /\ UNCHANGED <<once, entries, pos, op, since, start, succeeded, samples>>

Received(s, r) ==
  /\ IF r.ok THEN Continue(s) ELSE Abandon(s)
  /\ got' = [got EXCEPT ![s][Current(s)] = r.data]

FromCache(s) ==
  /\ \/ Jobs!Finish(s) /\ Received(s, jReply[s]) /\ UNCHANGED nVars
     \/ Nodes!Finish(s) /\ Received(s, nReply[s]) /\ UNCHANGED jVars
  /\ UNCHANGED <<once, entries, pos, start, emitted, zeros, success>>

\* The first call of resolveOnce.Do runs resolve, and the others wait for it.
BeginResolve(s) ==
  /\ At(s, "resolve")
  /\ ~resolved /\ resolving = {}
  /\ resolving' = {s}
  /\ since' = [since EXCEPT ![s] = now]
  /\ UNCHANGED <<now, jVars, nVars, resolved, entries, pos, op, start, succeeded, samples>>

\* resolve returns, with or without the version of each binary.
EndResolve(s) ==
  /\ At(s, "resolve")
  /\ s \in resolving
  /\ resolving' = {}
  /\ resolved' = TRUE
  /\ UNCHANGED <<now, jVars, nVars, entries, pos, op, since, start, succeeded, samples>>

\* Mutant: a lock in place of the once, not released by the scrape that passes.
PassOnce_locked(s) ==
  /\ At(s, "resolve")
  /\ resolved /\ resolving = {}
  /\ resolving' = {s}
  /\ Continue(s)
  /\ UNCHANGED <<now, jVars, nVars, resolved, entries, pos, start, samples>>

\* resolveOnce.Do returns.
PassOnce(s) ==
  /\ At(s, "resolve")
  /\ resolved
  /\ Continue(s)
  /\ UNCHANGED <<now, jVars, nVars, once, entries, pos, start, samples>>

\* A stretch of metrics is parsed and sent, or panics on the way.
Emit(s) ==
  /\ At(s, "emit")
  /\ Continue(s)
  /\ emitted' = [emitted EXCEPT ![s][Current(s)] = @ + 1]
  /\ UNCHANGED <<now, jVars, nVars, once, entries, pos, start, got, zeros, success>>

\* Mutant: the panic is recovered outside the loop over the entries.
Panic_outside(s) ==
  /\ At(s, "emit")
  /\ Enter(s, Len(entries) + 1)
  /\ UNCHANGED <<now, jVars, nVars, once, entries, start, samples>>

Panic(s) ==
  /\ At(s, "emit")
  /\ Abandon(s)
  /\ UNCHANGED <<now, jVars, nVars, once, entries, pos, start, samples>>

\* The collector returned or was recovered: Collect sends its status metrics
\* and goes to the next entry.
Returned(s) == Running(s) /\ (succeeded[s] = 0 \/ op[s] > Len(Program(s)))

\* Mutant: a collector is run again until it succeeds.
Report_retry(s) ==
  /\ Returned(s)
  /\ success' = [success EXCEPT ![s][Current(s)] = succeeded[s]]
  /\ Enter(s, pos[s] + succeeded[s])
  /\ UNCHANGED <<now, jVars, nVars, once, entries, start, got, emitted, zeros>>

Report(s) ==
  /\ Returned(s)
  /\ success' = [success EXCEPT ![s][Current(s)] = succeeded[s]]
  /\ Enter(s, pos[s] + 1)
  /\ UNCHANGED <<now, jVars, nVars, once, entries, start, got, emitted, zeros>>

\* The response is written and the scrape's variables go out of scope.
EndScrape(s) ==
  /\ Finished(s)
  /\ pos' = [pos EXCEPT ![s] = 0]
  /\ op' = [op EXCEPT ![s] = 0]
  /\ since' = [since EXCEPT ![s] = 0]
  /\ start' = [start EXCEPT ![s] = 0]
  /\ got' = [got EXCEPT ![s] = [c \in Enabled |-> NoSnapshot]]
  /\ emitted' = [emitted EXCEPT ![s] = [c \in Enabled |-> 0]]
  /\ zeros' = [zeros EXCEPT ![s] = FALSE]
  /\ success' = [success EXCEPT ![s] = [c \in Enabled |-> NotReported]]
  /\ UNCHANGED <<now, jVars, nVars, once, entries, succeeded>>

\* A scrape waits for its own command; for a cache that is being refreshed, by
\* this call or by the other calls queued before it; for the probes of resolve;
\* or for another scrape that runs resolve.  Everything else it does takes no
\* time at this scale.
Waiting(s) ==
  \/ At(s, "exec") /\ now < since[s] + Timeout
  \/ /\ \/ jStatus[s] = "pending" /\ ~Jobs!Fresh
        \/ nStatus[s] = "pending" /\ ~Nodes!Fresh
     /\ now < since[s] + Cardinality(Procs) * Timeout
  \/ s \in resolving /\ now < since[s] + Probes * Timeout
  \/ At(s, "resolve") /\ resolving \ {s} # {}

Tick ==
  /\ \A s \in Procs : pos[s] = 0 \/ Waiting(s)
  /\ Jobs!Pass
  /\ Nodes!Pass
  /\ UNCHANGED <<once, entries, pos, op, since, start, succeeded, samples>>

Proceed(s) ==
  \/ ExecOK(s) \/ ExecFail(s)
  \/ AskCache(s) \/ CacheAnswers(s) \/ FromCache(s)
  \/ BeginResolve(s) \/ EndResolve(s) \/ PassOnce(s)
  \/ Emit(s) \/ Panic(s) \/ Report(s) \/ EndScrape(s)

Next ==
  \/ \E s \in Procs : StartScrape(s) \/ Proceed(s)
  \/ Tick

Spec == Init /\ [][Next]_vars

\* Commands and caches answer (TimedCache's liveness), and goroutines run.
LiveSpec == Spec /\ \A s \in Procs : WF_vars(Proceed(s))

-----------------------------------------------------------------------------
Stretches(c) == Cardinality({i \in 1 .. Len(tryCollect[c]) : tryCollect[c][i] = "emit"})

\* The success gauge is truthful: 1 says that everything the collector has to
\* send was sent and none of it is the zero totals of a failed squeue; 0 says
\* that something is missing.  A collector that sends some metrics before a
\* later source fails (nodes) cannot pass for a complete one.
SuccessIsTruthful ==
  \A s \in Procs, c \in Enabled :
    /\ success[s][c] = 1 => emitted[s][c] = Stretches(c) /\ ~(c = "queue" /\ zeros[s])
    /\ success[s][c] = 0 => emitted[s][c] < Stretches(c)

\* Every enabled collector reports in every scrape, whatever failed or panicked
\* before it: one collector's failure costs nothing but its own metrics.
EveryCollectorReports ==
  \A s \in Procs : Finished(s) => \A c \in Enabled : success[s][c] # NotReported

Source(c) == {tryCollect[c][i] : i \in 1 .. Len(tryCollect[c])} \cap {"jobs", "nodes"}

Precedes(c, d) == \E i, j \in 1 .. Len(entries) : entries[i] = c /\ entries[j] = d /\ i < j

\* The collectors of one scrape that share a snapshot describe the same instant
\* of the cluster, once one of them was given a snapshot taken in this scrape
\* and for as long as the scrape is shorter than the TTL; and time does not go
\* backwards in it: none is given an older snapshot than one that ran before.
SameSnapshot ==
  \A s \in Procs, c, d \in Enabled :
    /\ Source(c) = Source(d)
    /\ got[s][c] # NoSnapshot /\ got[s][d] # NoSnapshot
    => /\ start[s] <= got[s][c] /\ got[s][c] < got[s][d] => now - start[s] >= TTL
       /\ Precedes(c, d) /\ success[s][c] = 1 => got[s][c] <= got[s][d]

\* A scrape ends, whatever fails or panics in it, also when another scrape runs
\* beside it and is the one that probes the binaries both must know.  That a
\* call of a cache ends behind the failing fetches of others is a property of
\* TimedCache and is taken here at its interface.
EveryScrapeEnds == \A s \in Procs : Running(s) ~> pos[s] = 0

\* "one fetch per scrape, always fresh": the job snapshot given to a collector
\* was taken during the scrape it is served in.
AlwaysFresh ==
  \A s \in Procs, c \in Enabled :
    Source(c) = {"jobs"} /\ got[s][c] # NoSnapshot => got[s][c] >= start[s]
=============================================================================
