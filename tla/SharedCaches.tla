---------------------------- MODULE SharedCaches ----------------------------
(***************************************************************************)
(* The two package-level caches, scontrolNodesCache and squeueJobsCache,   *)
(* and the functions the collectors reach them through: SlurmGetTotal and  *)
(* ReservationNodesData for the first, SqueueJobsData for the second.      *)
(* Each calls GetOrFetch and then updateCacheAge, which visits every cache *)
(* in the registry, its own and the other one, and publishes the ages.     *)
(***************************************************************************)
EXTENDS Integers, RWMutex

CONSTANTS TTL, Timeout, MaxTime

ASSUME CachesAssumption == TTL \in Nat \ {0} /\ {Timeout, MaxTime} \subseteq Nat

VARIABLES
  now,
  nMu, nData, nFetchAt, nPc, nReadAt, nAsked, nResult, nAge, nNewest, nFloor,
  jMu, jData, jFetchAt, jPc, jReadAt, jAsked, jResult, jAge, jNewest, jFloor,
  stage,   \* where each goroutine is in the function that uses a cache
  todo,    \* the caches updateCacheAge has not visited yet
  gauge    \* slurm_exporter_cache_age_seconds, per cache label

nVars == <<nMu, nData, nFetchAt, nPc, nReadAt, nAsked, nResult, nAge, nNewest, nFloor>>
jVars == <<jMu, jData, jFetchAt, jPc, jReadAt, jAsked, jResult, jAge, jNewest, jFloor>>
vars  == <<now, nVars, jVars, stage, todo, gauge>>

Nodes == INSTANCE TimedCache WITH
           mu <- nMu, data <- nData, fetchAt <- nFetchAt, pc <- nPc,
           readAt <- nReadAt, asked <- nAsked, result <- nResult, age <- nAge,
           newest <- nNewest, floor <- nFloor

Jobs == INSTANCE TimedCache WITH
          mu <- jMu, data <- jData, fetchAt <- jFetchAt, pc <- jPc,
          readAt <- jReadAt, asked <- jAsked, result <- jResult, age <- jAge,
          newest <- jNewest, floor <- jFloor

cacheRegistry == {"scontrol_nodes", "squeue_jobs"}

NoSeries == -2   \* the label has not been published yet

TypeOK ==
  /\ Nodes!TypeOK
  /\ Jobs!TypeOK
  /\ stage \in [Procs -> {"idle", "get", "ages"}]
  /\ todo \in [Procs -> SUBSET cacheRegistry]
  /\ gauge \in [cacheRegistry -> NoSeries .. MaxTime]

Init ==
  /\ Nodes!Init
  /\ Jobs!Init
  /\ stage = [p \in Procs |-> "idle"]
  /\ todo = [p \in Procs |-> {}]
  /\ gauge = [k \in cacheRegistry |-> NoSeries]

-----------------------------------------------------------------------------
MoveTo(p, from, to) == stage[p] = from /\ stage' = [stage EXCEPT ![p] = to]

\* A collector asks for the output of scontrol show nodes.
NodesData(p) ==
  /\ MoveTo(p, "idle", "get")
  /\ Nodes!Call(p)
  /\ UNCHANGED <<jVars, todo, gauge>>

\* A collector asks for the squeue snapshot.
SqueueJobsData(p) ==
  /\ MoveTo(p, "idle", "get")
  /\ Jobs!Call(p)
  /\ UNCHANGED <<nVars, todo, gauge>>

\* Steps of a call that stay inside one cache.
InCache(p) ==
  /\ \/ (Nodes!GetOrFetch(p) \/ Nodes!AgeRead(p)) /\ UNCHANGED jVars
     \/ (Jobs!GetOrFetch(p) \/ Jobs!AgeRead(p)) /\ UNCHANGED nVars
  /\ UNCHANGED <<stage, todo, gauge>>

\* GetOrFetch returned, with data or an error: updateCacheAge begins.
Fetched(p) ==
  /\ MoveTo(p, "get", "ages")
  /\ \/ Nodes!Return(p) /\ UNCHANGED jVars
     \/ Jobs!Return(p) /\ UNCHANGED nVars
  /\ todo' = [todo EXCEPT ![p] = cacheRegistry]
  /\ UNCHANGED gauge

Visiting(p) == nPc[p] # "idle" \/ jPc[p] # "idle"

\* updateCacheAge calls AgeSeconds on the next cache, in no particular order.
AskAge(p) ==
  /\ stage[p] = "ages"
  /\ ~Visiting(p)
  /\ \/ "scontrol_nodes" \in todo[p] /\ Nodes!AgeCall(p) /\ UNCHANGED jVars
     \/ "squeue_jobs" \in todo[p] /\ Jobs!AgeCall(p) /\ UNCHANGED nVars
  /\ UNCHANGED <<stage, todo, gauge>>

\* The age is published once AgeSeconds has returned: no lock is held.
Publish(p, k, value) ==
  /\ gauge' = [gauge EXCEPT ![k] = value]
  /\ todo' = [todo EXCEPT ![p] = @ \ {k}]
  /\ stage' = [stage EXCEPT ![p] = IF todo[p] = {k} THEN "idle" ELSE "ages"]

SetAge(p) ==
  \/ Nodes!AgeReturn(p) /\ Publish(p, "scontrol_nodes", nAge[p]) /\ UNCHANGED jVars
  \/ Jobs!AgeReturn(p) /\ Publish(p, "squeue_jobs", jAge[p]) /\ UNCHANGED nVars

Tick == Nodes!Tick /\ Jobs!Tick /\ UNCHANGED <<stage, todo, gauge>>

Proceed(p) == InCache(p) \/ Fetched(p) \/ AskAge(p) \/ SetAge(p)

Next ==
  \/ \E p \in Procs : NodesData(p) \/ SqueueJobsData(p) \/ Proceed(p)
  \/ Tick

Spec == Init /\ [][Next]_vars

\* The fairness of TimedCache, for each cache, and of the code around it.
Fairness ==
  \A p \in Procs :
    /\ WF_vars(Proceed(p))
    /\ SF_vars(Nodes!LockSlow(p) /\ Proceed(p))
    /\ SF_vars(Jobs!LockSlow(p) /\ Proceed(p))

LiveSpec == Spec /\ Fairness

-----------------------------------------------------------------------------
\* A goroutine never holds, or waits for, the locks of both caches: whatever
\* the order in which collectors and updateCacheAge visit them, no cycle of
\* goroutines waiting for each other can form.
Involved(m, p) == p \in m.readers \cup m.parked \cup {m.writer}
LocksNotNested == \A p \in Procs : ~(Involved(nMu, p) /\ Involved(jMu, p))

\* Every use of a cache ends and has published both ages, even when the other
\* cache's command fails or takes its full time while this call waits for it.
EveryCallCompletes == \A p \in Procs : stage[p] = "get" ~> stage[p] = "idle"

Quiet == \A p \in Procs : stage[p] = "idle"

\* "-1 means the cache has never been populated": once no call is in progress,
\* a cache published as -1 has not been populated.
MinusOneMeansNeverPopulated ==
  Quiet => /\ gauge["scontrol_nodes"] = -1 => nFetchAt = -1
           /\ gauge["squeue_jobs"] = -1 => jFetchAt = -1
=============================================================================
