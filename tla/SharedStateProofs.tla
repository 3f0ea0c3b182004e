-------------------------- MODULE SharedStateProofs -------------------------
(***************************************************************************)
(* Proofs about what the scrapes of one process share: the two caches, and *)
(* the answers of the Slurm binaries about their versions.                 *)
(*                                                                         *)
(* Seen from one cache alone SharedCaches is TimedCache, so everything     *)
(* that TimedCacheProofs proves holds of each of the two; what is left to  *)
(* prove is what relates them.                                             *)
(*                                                                         *)
(* CallInv says what each place of a call of Execute knows of the process  *)
(* and of its pipe; LeavesInv, what is known besides of commands that      *)
(* leave no descendant.  What SlurmInfo does to the variables of Execute   *)
(* are steps of Execute, so that what is proved of one call holds of every *)
(* probe; the invariant of the once and of the probes rests on it.         *)
(***************************************************************************)
EXTENDS SharedCaches, SlurmInfo, TLAPS

-----------------------------------------------------------------------------
(* The two caches.                                                         *)


\* The theorems of TimedCacheProofs about scontrolNodesCache.
NodesCache == INSTANCE TimedCacheProofs WITH
                mu <- nMu, data <- nData, fetchAt <- nFetchAt, pc <- nPc,
                readAt <- nReadAt, asked <- nAsked, result <- nResult, age <- nAge,
                newest <- nNewest, floor <- nFloor

\* And those about squeueJobsCache.
JobsCache == INSTANCE TimedCacheProofs WITH
               mu <- jMu, data <- jData, fetchAt <- jFetchAt, pc <- jPc,
               readAt <- jReadAt, asked <- jAsked, result <- jResult, age <- jAge,
               newest <- jNewest, floor <- jFloor

GetSteps == {"fast", "copy", "slow", "recheck", "fetching", "done"}
AgeSteps == {"age", "aged"}

\* A goroutine is in one cache at most, and in a step of the call that its
\* function is making.
PlaceInv ==
  /\ stage \in [Procs -> {"idle", "get", "ages"}]
  /\ \A p \in Procs :
       /\ nPc[p] = "idle" \/ jPc[p] = "idle"
       /\ stage[p] = "idle" => nPc[p] = "idle" /\ jPc[p] = "idle"
       /\ stage[p] = "get" => {nPc[p], jPc[p]} \cap AgeSteps = {}
       /\ stage[p] = "ages" => {nPc[p], jPc[p]} \cap GetSteps = {}

-----------------------------------------------------------------------------
\* What TimedCacheProofs assumes of the constants is assumed here too.
LEMMA CacheAssumptions ==
  /\ NodesCache!TimeAssumption /\ NodesCache!NoOneAssumption
  /\ JobsCache!TimeAssumption /\ JobsCache!NoOneAssumption
BY CachesAssumption, NoOneAssumption
DEF NodesCache!TimeAssumption, NodesCache!NoOneAssumption,
    JobsCache!TimeAssumption, JobsCache!NoOneAssumption

\* The two instances of the module are the same specification.
LEMMA NodesSame == Nodes!Spec => NodesCache!Spec
<1>1. Nodes!Init => NodesCache!Init
  BY DEF Nodes!Init, NodesCache!Init, Nodes!NoResult, NodesCache!NoResult,
         Nodes!Never, NodesCache!Never, Nodes!Unlocked, NodesCache!Unlocked
<1>2. [Nodes!Next]_(Nodes!vars) => [NodesCache!Next]_(NodesCache!vars)
  BY Zenon DEF Nodes!Next, NodesCache!Next, Nodes!vars, NodesCache!vars, Nodes!Call,
       NodesCache!Call, Nodes!FastHit, NodesCache!FastHit, Nodes!FastCopy,
       NodesCache!FastCopy, Nodes!FastMiss, NodesCache!FastMiss,
       Nodes!LockSlow, NodesCache!LockSlow, Nodes!RecheckHit,
       NodesCache!RecheckHit, Nodes!StartFetch, NodesCache!StartFetch,
       Nodes!FetchOK, NodesCache!FetchOK, Nodes!FetchFail,
       NodesCache!FetchFail, Nodes!Return, NodesCache!Return, Nodes!AgeCall,
       NodesCache!AgeCall, Nodes!AgeRead, NodesCache!AgeRead, Nodes!AgeReturn,
       NodesCache!AgeReturn, Nodes!Tick, NodesCache!Tick, Nodes!GetOrFetch,
       NodesCache!GetOrFetch, Nodes!EndFetch, NodesCache!EndFetch,
       Nodes!FetchesInTime, NodesCache!FetchesInTime, Nodes!Goto,
       NodesCache!Goto, Nodes!Answer, NodesCache!Answer, Nodes!RLock,
       NodesCache!RLock, Nodes!RUnlock, NodesCache!RUnlock, Nodes!Announce,
       NodesCache!Announce, Nodes!CanAnnounce, NodesCache!CanAnnounce,
       Nodes!HoldsRead, NodesCache!HoldsRead, Nodes!HoldsWrite,
       NodesCache!HoldsWrite, Nodes!Unlock, NodesCache!Unlock, Nodes!Fresh,
       NodesCache!Fresh, Nodes!Never, NodesCache!Never, Nodes!NoResult,
       NodesCache!NoResult, Nodes!AgeSeconds, NodesCache!AgeSeconds
<1>. QED
  BY <1>1, <1>2, PTL DEF Nodes!Spec, NodesCache!Spec

\* The same of the job cache.
LEMMA JobsSame == Jobs!Spec => JobsCache!Spec
<1>1. Jobs!Init => JobsCache!Init
  BY DEF Jobs!Init, JobsCache!Init, Jobs!NoResult, JobsCache!NoResult,
         Jobs!Never, JobsCache!Never, Jobs!Unlocked, JobsCache!Unlocked
<1>2. [Jobs!Next]_(Jobs!vars) => [JobsCache!Next]_(JobsCache!vars)
  BY Zenon DEF Jobs!Next, JobsCache!Next, Jobs!vars, JobsCache!vars, Jobs!Call,
       JobsCache!Call, Jobs!FastHit, JobsCache!FastHit, Jobs!FastCopy,
       JobsCache!FastCopy, Jobs!FastMiss, JobsCache!FastMiss, Jobs!LockSlow,
       JobsCache!LockSlow, Jobs!RecheckHit, JobsCache!RecheckHit,
       Jobs!StartFetch, JobsCache!StartFetch, Jobs!FetchOK, JobsCache!FetchOK,
       Jobs!FetchFail, JobsCache!FetchFail, Jobs!Return, JobsCache!Return,
       Jobs!AgeCall, JobsCache!AgeCall, Jobs!AgeRead, JobsCache!AgeRead,
       Jobs!AgeReturn, JobsCache!AgeReturn, Jobs!Tick, JobsCache!Tick,
       Jobs!GetOrFetch, JobsCache!GetOrFetch, Jobs!EndFetch,
       JobsCache!EndFetch, Jobs!FetchesInTime, JobsCache!FetchesInTime,
       Jobs!Goto, JobsCache!Goto, Jobs!Answer, JobsCache!Answer, Jobs!RLock,
       JobsCache!RLock, Jobs!RUnlock, JobsCache!RUnlock, Jobs!Announce,
       JobsCache!Announce, Jobs!CanAnnounce, JobsCache!CanAnnounce,
       Jobs!HoldsRead, JobsCache!HoldsRead, Jobs!HoldsWrite,
       JobsCache!HoldsWrite, Jobs!Unlock, JobsCache!Unlock, Jobs!Fresh,
       JobsCache!Fresh, Jobs!Never, JobsCache!Never, Jobs!NoResult,
       JobsCache!NoResult, Jobs!AgeSeconds, JobsCache!AgeSeconds
<1>. QED
  BY <1>1, <1>2, PTL DEF Jobs!Spec, JobsCache!Spec

-----------------------------------------------------------------------------
\* A goroutine's step in one of the caches.
NodesStep(p) == \/ Nodes!Call(p) \/ Nodes!GetOrFetch(p) \/ Nodes!Return(p)
                \/ Nodes!AgeCall(p) \/ Nodes!AgeRead(p) \/ Nodes!AgeReturn(p)
JobsStep(p)  == \/ Jobs!Call(p) \/ Jobs!GetOrFetch(p) \/ Jobs!Return(p)
                \/ Jobs!AgeCall(p) \/ Jobs!AgeRead(p) \/ Jobs!AgeReturn(p)

\* Seen from the node cache, the functions that use both caches are callers of
\* one timedCache: none of their steps reaches past its interface.
THEOREM NodesImplemented == Spec => Nodes!Spec
<1>1. Init => Nodes!Init
  BY DEF Init
<1>2. ASSUME NEW p \in Procs, JobsStep(p)
      PROVE  UNCHANGED now
  BY <1>2 DEF JobsStep, Jobs!Call, Jobs!Return, Jobs!AgeCall, Jobs!AgeRead, Jobs!AgeReturn, Jobs!GetOrFetch, Jobs!FastHit, Jobs!FastCopy, Jobs!FastMiss, Jobs!LockSlow, Jobs!RecheckHit, Jobs!StartFetch, Jobs!EndFetch, Jobs!FetchOK, Jobs!FetchFail
<1>3. [Next]_vars => [Nodes!Next]_(Nodes!vars)
  BY <1>2 DEF Next, NodesData, SqueueJobsData, Proceed, InCache, Fetched, AskAge,
     SetAge, Tick, JobsStep, Nodes!Next, Nodes!vars, vars, nVars, jVars
<1>. QED
  BY <1>1, <1>3, PTL DEF Spec, Nodes!Spec

\* And so they are seen from the job cache.
THEOREM JobsImplemented == Spec => Jobs!Spec
<1>1. Init => Jobs!Init
  BY DEF Init
<1>2. ASSUME NEW p \in Procs, NodesStep(p)
      PROVE  UNCHANGED now
  BY <1>2 DEF NodesStep, Nodes!Call, Nodes!Return, Nodes!AgeCall, Nodes!AgeRead, Nodes!AgeReturn, Nodes!GetOrFetch, Nodes!FastHit, Nodes!FastCopy, Nodes!FastMiss, Nodes!LockSlow, Nodes!RecheckHit, Nodes!StartFetch, Nodes!EndFetch, Nodes!FetchOK, Nodes!FetchFail
<1>3. [Next]_vars => [Jobs!Next]_(Jobs!vars)
  BY <1>2 DEF Next, NodesData, SqueueJobsData, Proceed, InCache, Fetched, AskAge,
     SetAge, Tick, NodesStep, Jobs!Next, Jobs!vars, vars, nVars, jVars
<1>. QED
  BY <1>1, <1>3, PTL DEF Spec, Jobs!Spec

\* The lock invariants of both caches.
THEOREM LocksCorrect ==
  Spec => [](/\ NodesCache!TypeOK /\ NodesCache!LockInv
             /\ JobsCache!TypeOK /\ JobsCache!LockInv)
<1>1. Spec => NodesCache!Spec /\ JobsCache!Spec
  BY NodesImplemented, NodesSame, JobsImplemented, JobsSame
<1>2. NodesCache!Spec => []NodesCache!TypeOK
  BY NodesCache!TypeCorrect, CacheAssumptions
<1>3. NodesCache!Spec => []NodesCache!LockInv
  BY NodesCache!LockCorrect, CacheAssumptions
<1>4. JobsCache!Spec => []JobsCache!TypeOK
  BY JobsCache!TypeCorrect, CacheAssumptions
<1>5. JobsCache!Spec => []JobsCache!LockInv
  BY JobsCache!LockCorrect, CacheAssumptions
<1>. QED
  BY <1>1, <1>2, <1>3, <1>4, <1>5, PTL

\* A goroutine's own steps leave the program counters of the others alone, and
\* each kind of step keeps to its part of the cache.
LEMMA NodesMoves ==
  ASSUME NodesCache!TypeOK, NEW p \in Procs
  PROVE  /\ Nodes!Call(p) => nPc' = [nPc EXCEPT ![p] = "fast"]
         /\ Nodes!GetOrFetch(p) =>
              nPc[p] \in GetSteps /\ \E s \in GetSteps : nPc' = [nPc EXCEPT ![p] = s]
         /\ Nodes!Return(p) => nPc[p] = "done" /\ nPc' = [nPc EXCEPT ![p] = "idle"]
         /\ Nodes!AgeCall(p) => nPc' = [nPc EXCEPT ![p] = "age"]
         /\ Nodes!AgeRead(p) => nPc[p] = "age" /\ nPc' = [nPc EXCEPT ![p] = "aged"]
         /\ Nodes!AgeReturn(p) => nPc[p] = "aged" /\ nPc' = [nPc EXCEPT ![p] = "idle"]
BY DEF GetSteps, Nodes!Call, Nodes!Return, Nodes!AgeCall, Nodes!AgeRead, Nodes!AgeReturn,
   Nodes!GetOrFetch, Nodes!FastHit, Nodes!FastCopy, Nodes!FastMiss, Nodes!LockSlow, Nodes!RecheckHit, Nodes!StartFetch,
   Nodes!EndFetch, Nodes!FetchOK, Nodes!FetchFail, Nodes!Goto

\* The same in the other cache.
LEMMA JobsMoves ==
  ASSUME JobsCache!TypeOK, NEW p \in Procs
  PROVE  /\ Jobs!Call(p) => jPc' = [jPc EXCEPT ![p] = "fast"]
         /\ Jobs!GetOrFetch(p) =>
              jPc[p] \in GetSteps /\ \E s \in GetSteps : jPc' = [jPc EXCEPT ![p] = s]
         /\ Jobs!Return(p) => jPc[p] = "done" /\ jPc' = [jPc EXCEPT ![p] = "idle"]
         /\ Jobs!AgeCall(p) => jPc' = [jPc EXCEPT ![p] = "age"]
         /\ Jobs!AgeRead(p) => jPc[p] = "age" /\ jPc' = [jPc EXCEPT ![p] = "aged"]
         /\ Jobs!AgeReturn(p) => jPc[p] = "aged" /\ jPc' = [jPc EXCEPT ![p] = "idle"]
BY DEF GetSteps, Jobs!Call, Jobs!Return, Jobs!AgeCall, Jobs!AgeRead, Jobs!AgeReturn,
   Jobs!GetOrFetch, Jobs!FastHit, Jobs!FastCopy, Jobs!FastMiss, Jobs!LockSlow, Jobs!RecheckHit, Jobs!StartFetch,
   Jobs!EndFetch, Jobs!FetchOK, Jobs!FetchFail, Jobs!Goto

\* A goroutine that uses the caches is in one of them at a time.
THEOREM PlacesCorrect == Spec => []PlaceInv
<1>1. Init => PlaceInv
  BY DEF Init, PlaceInv, Nodes!Init, Jobs!Init
<1>2. NodesCache!TypeOK /\ JobsCache!TypeOK /\ PlaceInv /\ [Next]_vars => PlaceInv'
  <2>. SUFFICES ASSUME NodesCache!TypeOK, JobsCache!TypeOK, PlaceInv, [Next]_vars
                PROVE  PlaceInv'
    OBVIOUS
  <2>0. nPc \in [Procs -> NodesCache!Steps] /\ jPc \in [Procs -> JobsCache!Steps]
    BY DEF NodesCache!TypeOK, JobsCache!TypeOK
  <2>. USE <2>0 DEF PlaceInv, GetSteps, AgeSteps
  <2>1. ASSUME NEW p \in Procs, NodesData(p) PROVE PlaceInv'
    BY <2>1, NodesMoves DEF NodesData, MoveTo, jVars
  <2>2. ASSUME NEW p \in Procs, SqueueJobsData(p) PROVE PlaceInv'
    BY <2>2, JobsMoves DEF SqueueJobsData, MoveTo, nVars
  <2>3. ASSUME NEW p \in Procs, InCache(p) PROVE PlaceInv'
    <3>1. CASE (Nodes!GetOrFetch(p) \/ Nodes!AgeRead(p)) /\ UNCHANGED jVars
      BY <2>3, <3>1, NodesMoves DEF InCache, jVars
    <3>2. CASE (Jobs!GetOrFetch(p) \/ Jobs!AgeRead(p)) /\ UNCHANGED nVars
      BY <2>3, <3>2, JobsMoves DEF InCache, nVars
    <3>. QED
      BY <2>3, <3>1, <3>2 DEF InCache
  <2>4. ASSUME NEW p \in Procs, Fetched(p) PROVE PlaceInv'
    <3>1. CASE Nodes!Return(p) /\ UNCHANGED jVars
      BY <2>4, <3>1, NodesMoves DEF Fetched, MoveTo, jVars
    <3>2. CASE Jobs!Return(p) /\ UNCHANGED nVars
      BY <2>4, <3>2, JobsMoves DEF Fetched, MoveTo, nVars
    <3>. QED
      BY <2>4, <3>1, <3>2 DEF Fetched
  <2>5. ASSUME NEW p \in Procs, AskAge(p) PROVE PlaceInv'
    <3>1. CASE Nodes!AgeCall(p) /\ UNCHANGED jVars
      BY <2>5, <3>1, NodesMoves DEF AskAge, Visiting, jVars
    <3>2. CASE Jobs!AgeCall(p) /\ UNCHANGED nVars
      BY <2>5, <3>2, JobsMoves DEF AskAge, Visiting, nVars
    <3>. QED
      BY <2>5, <3>1, <3>2 DEF AskAge
  <2>6. ASSUME NEW p \in Procs, SetAge(p) PROVE PlaceInv'
    <3>1. CASE Nodes!AgeReturn(p) /\ Publish(p, "scontrol_nodes", nAge[p]) /\ UNCHANGED jVars
      BY <3>1, NodesMoves DEF Publish, jVars
    <3>2. CASE Jobs!AgeReturn(p) /\ Publish(p, "squeue_jobs", jAge[p]) /\ UNCHANGED nVars
      BY <3>2, JobsMoves DEF Publish, nVars
    <3>. QED
      BY <2>6, <3>1, <3>2 DEF SetAge
  <2>7. CASE Tick
    BY <2>7 DEF Tick, Nodes!Tick, Jobs!Tick
  <2>8. CASE UNCHANGED vars
    BY <2>8 DEF vars, nVars, jVars
  <2>. QED
    BY <2>1, <2>2, <2>3, <2>4, <2>5, <2>6, <2>7, <2>8 DEF Next, Proceed
<1>. QED
  BY <1>1, <1>2, LocksCorrect, PTL DEF Spec

\* What is left to visit, and the published ages, keep their types too.
PublishedInv ==
  /\ todo \in [Procs -> SUBSET cacheRegistry]
  /\ gauge \in [cacheRegistry -> NoSeries .. MaxTime]

\* Every variable of the caches and of their callers keeps its type: what is
\* published is an age, or -1.
THEOREM TypeCorrect == Spec => []TypeOK
<1>1. NodesCache!TypeOK => Nodes!TypeOK
  BY DEF NodesCache!TypeOK, Nodes!TypeOK, NodesCache!RWMutexes, Nodes!RWMutexes,
     NodesCache!Steps, Nodes!Steps, NodesCache!Result, Nodes!Result,
     NodesCache!Instant, Nodes!Instant, NodesCache!Never, Nodes!Never
<1>2. JobsCache!TypeOK => Jobs!TypeOK
  BY DEF JobsCache!TypeOK, Jobs!TypeOK, JobsCache!RWMutexes, Jobs!RWMutexes,
     JobsCache!Steps, Jobs!Steps, JobsCache!Result, Jobs!Result,
     JobsCache!Instant, Jobs!Instant, JobsCache!Never, Jobs!Never
<1>3. Init => PublishedInv
  BY CachesAssumption DEF Init, PublishedInv, NoSeries
<1>4. NodesCache!AgeInv /\ JobsCache!AgeInv /\ PublishedInv /\ [Next]_vars => PublishedInv'
  <2>. SUFFICES ASSUME NodesCache!AgeInv, JobsCache!AgeInv, PublishedInv, [Next]_vars
                PROVE  PublishedInv'
    OBVIOUS
  <2>1. \A p \in Procs : nAge[p] \in NoSeries .. MaxTime /\ jAge[p] \in NoSeries .. MaxTime
    BY CachesAssumption DEF NodesCache!AgeInv, JobsCache!AgeInv, NoSeries
  <2>2. ASSUME NEW p \in Procs, NEW k \in cacheRegistry, NEW value \in NoSeries .. MaxTime,
               Publish(p, k, value)
        PROVE  PublishedInv'
    BY <2>2 DEF Publish, PublishedInv
  <2>3. ASSUME NEW p \in Procs, Fetched(p) PROVE PublishedInv'
    BY <2>3 DEF Fetched, PublishedInv
  <2>4. ASSUME NEW p \in Procs, SetAge(p) PROVE PublishedInv'
    BY <2>1, <2>2, <2>4 DEF SetAge, cacheRegistry
  <2>5. ASSUME UNCHANGED <<todo, gauge>> PROVE PublishedInv'
    BY <2>5 DEF PublishedInv
  <2>. QED
    BY <2>3, <2>4, <2>5 DEF Next, NodesData, SqueueJobsData, Proceed, InCache, AskAge, Tick, vars
<1>5. Nodes!TypeOK /\ Jobs!TypeOK /\ PlaceInv /\ PublishedInv => TypeOK
  BY DEF TypeOK, PlaceInv, PublishedInv
<1>6. Spec => [](NodesCache!AgeInv /\ JobsCache!AgeInv)
  <2>1. NodesCache!Spec => []NodesCache!AgeInv
    BY NodesCache!AgesCorrect, CacheAssumptions
  <2>2. JobsCache!Spec => []JobsCache!AgeInv
    BY JobsCache!AgesCorrect, CacheAssumptions
  <2>. QED
    BY <2>1, <2>2, NodesImplemented, NodesSame, JobsImplemented, JobsSame, PTL
<1>. QED
  BY <1>1, <1>2, <1>3, <1>4, <1>5, <1>6, LocksCorrect, PlacesCorrect, PTL DEF Spec

-----------------------------------------------------------------------------
\* However many goroutines use the caches, and in whatever order they come to
\* them, none holds or waits for both locks: there is no order of the locks to
\* keep and no cycle of waiting to be in.
THEOREM LocksNotNestedHolds == Spec => []LocksNotNested
<1>1. ASSUME NodesCache!TypeOK, NodesCache!LockInv, NEW p \in Procs, Involved(nMu, p)
      PROVE  nPc[p] # "idle"
  BY <1>1 DEF Involved, NodesCache!TypeOK, NodesCache!LockInv
<1>2. ASSUME JobsCache!TypeOK, JobsCache!LockInv, NEW p \in Procs, Involved(jMu, p)
      PROVE  jPc[p] # "idle"
  BY <1>2 DEF Involved, JobsCache!TypeOK, JobsCache!LockInv
<1>3. /\ NodesCache!TypeOK /\ NodesCache!LockInv
      /\ JobsCache!TypeOK /\ JobsCache!LockInv
      /\ PlaceInv
      => LocksNotNested
  BY <1>1, <1>2 DEF PlaceInv, LocksNotNested
<1>. QED
  BY <1>3, LocksCorrect, PlacesCorrect, PTL

\* Each of the two Slurm commands behind the caches runs once at a time, though
\* the caches are used together.
THEOREM BothSingleFlight == Spec => []Nodes!SingleFlight /\ []Jobs!SingleFlight
<1>1. NodesCache!Spec => []NodesCache!SingleFlight
  BY NodesCache!SingleFlightHolds, CacheAssumptions
<1>2. JobsCache!Spec => []JobsCache!SingleFlight
  BY JobsCache!SingleFlightHolds, CacheAssumptions
<1>3. /\ NodesCache!SingleFlight => Nodes!SingleFlight
      /\ JobsCache!SingleFlight => Jobs!SingleFlight
  BY DEF NodesCache!SingleFlight, Nodes!SingleFlight, JobsCache!SingleFlight, Jobs!SingleFlight
<1>. QED
  BY <1>1, <1>2, <1>3, NodesImplemented, NodesSame, JobsImplemented, JobsSame, PTL

\* Each cache of the composition is a one-step register to its callers, which is
\* how a scrape takes both.
THEOREM RegistersImplemented ==
  Spec => NodesCache!ImplementsRegister /\ JobsCache!ImplementsRegister
<1>1. NodesCache!Spec => NodesCache!ImplementsRegister
  BY NodesCache!RegisterImplemented, CacheAssumptions
<1>2. JobsCache!Spec => JobsCache!ImplementsRegister
  BY JobsCache!RegisterImplemented, CacheAssumptions
<1>. QED
  BY <1>1, <1>2, NodesImplemented, NodesSame, JobsImplemented, JobsSame

-----------------------------------------------------------------------------
(* One call of Execute.                                                    *)

AtRest == /\ process = "none"
          /\ ~written
          /\ elapsed = 0
          /\ err = "nil"

\* What Classify makes of the error and of the deadline.
Classified ==
  /\ result.err = "nil" <=> err = "nil"
  /\ result.err = "nil" => result.output = IF written THEN "whole" ELSE "part"
  /\ result.err # "nil" => (Expired <=> result.err = "deadline")

CallInv ==
  /\ pc = "idle" => AtRest
  /\ pc = "running" => process # "none" /\ err = "nil"
  /\ process = "running" => pc = "running"
  /\ process = "succeeded" => written
  /\ process = "killed" \/ err = "deadline" => Expired
  /\ held => pc \in {"running", "reading"}
  /\ pc \in {"reading", "ended", "returned"} /\ err = "nil" =>
       process = "succeeded"
  /\ pc = "returned" => Classified

LeavesInv == ~leaves => ~held /\ elapsed <= commandTimeout

-----------------------------------------------------------------------------
\* The variables of a call start within their types.
LEMMA ExecuteInit == CallInit => CallTypeOK
<1>. SUFFICES ASSUME CallInit PROVE CallTypeOK
  OBVIOUS
<1>1. {leaves, written, held} \subseteq BOOLEAN
  BY DEF CallInit
<1>. QED
  BY <1>1, ExecuteAssumption DEF CallInit, CallTypeOK, NoResult, Outputs, Errors

\* Every variable of the call keeps its type.
THEOREM CallTypeCorrect == CallSpec => []CallTypeOK
<1>1. CallInit => CallTypeOK
  BY ExecuteInit
<1>2. CallTypeOK /\ [CallNext]_callVars => CallTypeOK'
  <2>. SUFFICES ASSUME CallTypeOK, [CallNext]_callVars PROVE CallTypeOK'
    OBVIOUS
  <2>. USE ExecuteAssumption DEF CallTypeOK, Outputs, Errors, Expired
  <2>1. CASE Start
    BY <2>1 DEF Start, Goto
  <2>2. CASE CannotStart
    BY <2>2 DEF CannotStart, Goto
  <2>3. CASE Write
    BY <2>3 DEF Write
  <2>4. CASE Succeed
    BY <2>4 DEF Succeed, Gone
  <2>5. CASE Crash
    BY <2>5 DEF Crash, Gone
  <2>6. CASE DescendantEnds
    BY <2>6 DEF DescendantEnds
  <2>7. CASE Kill
    BY <2>7 DEF Kill, Gone
  <2>8. CASE Reap
    BY <2>8 DEF Reap, Goto
  <2>9. CASE EndOfOutput
    BY <2>9 DEF EndOfOutput, Goto
  <2>10. CASE Classify
    BY <2>10 DEF Classify, Goto
  <2>11. CASE Return
    <3>1. {leaves', written', held'} \subseteq BOOLEAN
      BY <2>11 DEF Return
    <3>. QED
      BY <2>11, <3>1 DEF Return, Goto, NoResult
  <2>12. CASE CallTick
    BY <2>12 DEF CallTick
  <2>13. CASE UNCHANGED callVars
    BY <2>13 DEF callVars
  <2>. QED
    BY <2>1, <2>2, <2>3, <2>4, <2>5, <2>6, <2>7, <2>8, <2>9, <2>10, <2>11, <2>12, <2>13 DEF CallNext, Command
<1>. QED
  BY <1>1, <1>2, PTL DEF CallSpec

\* What the call knows at each of its places is true of its process.
THEOREM CallCorrect == CallSpec => []CallInv
<1>1. CallInit => CallInv
  BY DEF CallInit, CallInv, AtRest
<1>2. CallTypeOK /\ CallInv /\ [CallNext]_callVars => CallInv'
  <2>. SUFFICES ASSUME CallTypeOK, CallInv, [CallNext]_callVars PROVE CallInv'
    OBVIOUS
  <2>. USE ExecuteAssumption DEF CallTypeOK, Outputs, Errors, CallInv, AtRest, Classified, Expired
  <2>1. CASE Start
    BY <2>1 DEF Start, Goto
  <2>2. CASE CannotStart
    BY <2>2 DEF CannotStart, Goto
  <2>3. CASE Write
    BY <2>3 DEF Write
  <2>4. CASE Succeed
    BY <2>4 DEF Succeed, Gone
  <2>5. CASE Crash
    BY <2>5 DEF Crash, Gone
  <2>6. CASE DescendantEnds
    BY <2>6 DEF DescendantEnds
  <2>7. CASE Kill
    BY <2>7 DEF Kill, Gone
  <2>8. CASE Reap
    BY <2>8 DEF Reap, Goto
  <2>9. CASE EndOfOutput
    BY <2>9 DEF EndOfOutput, Goto
  <2>10. CASE Classify
    BY <2>10 DEF Classify, Goto
  <2>11. CASE Return
    BY <2>11 DEF Return, Goto
  <2>12. CASE CallTick
    BY <2>12 DEF CallTick
  <2>13. CASE UNCHANGED callVars
    BY <2>13 DEF callVars
  <2>. QED
    BY <2>1, <2>2, <2>3, <2>4, <2>5, <2>6, <2>7, <2>8, <2>9, <2>10, <2>11, <2>12, <2>13 DEF CallNext, Command
<1>. QED
  BY <1>1, <1>2, CallTypeCorrect, PTL DEF CallSpec

\* Nothing but the process itself can hold up a call whose command leaves no
\* descendant, and the process is gone at the deadline.
THEOREM LeavesCorrect == CallSpec => []LeavesInv
<1>1. CallInit => LeavesInv
  BY ExecuteAssumption DEF CallInit, LeavesInv
<1>2. CallTypeOK /\ LeavesInv /\ [CallNext]_callVars => LeavesInv'
  <2>. SUFFICES ASSUME CallTypeOK, LeavesInv, [CallNext]_callVars PROVE LeavesInv'
    OBVIOUS
  <2>. USE ExecuteAssumption DEF CallTypeOK, LeavesInv, Expired
  <2>1. CASE Start
    BY <2>1 DEF Start, Goto
  <2>2. CASE CannotStart
    BY <2>2 DEF CannotStart, Goto
  <2>3. CASE Write
    BY <2>3 DEF Write
  <2>4. CASE Succeed
    BY <2>4 DEF Succeed, Gone
  <2>5. CASE Crash
    BY <2>5 DEF Crash, Gone
  <2>6. CASE DescendantEnds
    BY <2>6 DEF DescendantEnds
  <2>7. CASE Kill
    BY <2>7 DEF Kill, Gone
  <2>8. CASE Reap
    BY <2>8 DEF Reap, Goto
  <2>9. CASE EndOfOutput
    BY <2>9 DEF EndOfOutput, Goto
  <2>10. CASE Classify
    BY <2>10 DEF Classify, Goto
  <2>11. CASE Return
    BY <2>11 DEF Return, Goto
  <2>12. CASE CallTick
    BY <2>12 DEF CallTick
  <2>13. CASE UNCHANGED callVars
    BY <2>13 DEF callVars
  <2>. QED
    BY <2>1, <2>2, <2>3, <2>4, <2>5, <2>6, <2>7, <2>8, <2>9, <2>10, <2>11, <2>12, <2>13 DEF CallNext, Command
<1>. QED
  BY <1>1, <1>2, CallTypeCorrect, PTL DEF CallSpec

-----------------------------------------------------------------------------
\* No parser is given part of an output, and "deadline exceeded" is said of
\* every command that was killed and of none that ended in time, whatever the
\* order in which the process, the pipe and the deadline come to their ends.
THEOREM ResultIsTruthfulHolds == CallSpec => []ResultIsTruthful
<1>1. CallTypeOK /\ CallInv => ResultIsTruthful
  BY DEF CallTypeOK, CallInv, Classified, Expired, ResultIsTruthful
<1>. QED
  BY <1>1, CallTypeCorrect, CallCorrect, PTL

\* A call whose command leaves nothing behind does not outlive the timeout.
THEOREM BoundedCommandHolds == CallSpec => []BoundedCommand
<1>1. LeavesInv => BoundedCommand
  BY DEF LeavesInv, BoundedCommand, WithinTimeout
<1>. QED
  BY <1>1, LeavesCorrect, PTL

-----------------------------------------------------------------------------
(* The probes and the once.                                                *)

\* The once: one scrape at most resolves, before anyone has passed.
OnceInv ==
  /\ resolver # Nobody => at[resolver] = "once" /\ ~resolved
  /\ \A p \in Scrapes : at[p] \in {"send", "sent"} => resolved
  /\ \A p \in Scrapes : at[p] = "sent" => sent[p] = series

\* The probes: there is a call of Execute exactly while a version is asked for,
\* a process only of a binary that is there, and an answer of every required
\* binary that resolve has come past.
ProbesInv ==
  /\ resolver = Nobody => unprobed = {} /\ asking = Nothing
  /\ asking = Nothing <=> pc = "idle"
  /\ asking # Nothing => asking \in unprobed
  /\ process # "none" => asking \in installed
  /\ \A b \in Binaries : answers[b] \in {"version", "unknown"} => b \in installed
  /\ resolver # Nobody =>
       \A b \in requiredBinaries \ unprobed : answers[b] \in Versions

\* The series: complete, and of the binaries that are there.
SeriesInv ==
  resolved => /\ requiredBinaries \subseteq DOMAIN series
              /\ \A b \in DOMAIN series : series[b] # "not_found" => b \in installed

-----------------------------------------------------------------------------
\* A function from some binaries to versions can be the series of a scrape.
LEMMA SeriesMember ==
  ASSUME NEW f, DOMAIN f \subseteq Binaries, f \in [DOMAIN f -> Versions]
  PROVE  f \in Series
BY DEF Series

\* Before resolve has run there is no series.
LEMMA NotBuiltMember == NotBuilt \in Series
<1>1. NotBuilt \in [{} -> Versions] /\ {} \subseteq Binaries
  BY DEF NotBuilt
<1>. QED
  BY <1>1 DEF Series

\* Resolve reaches commands through Execute only, one call at a time: every step
\* is a step of Execute or leaves its call alone.
THEOREM ExecuteImplemented == InfoSpec => CallSpec
<1>1. InfoInit => CallInit
  BY DEF InfoInit
<1>2. [InfoNext]_all => [CallNext]_callVars
  BY DEF InfoNext, Progress, Collect, BeginResolve, BeginProbe, SkipProbe, EndProbe,
     EndResolve, PassOnce, Send, Returned, Executing, Handling, Passing, CallNext, all
<1>. QED
  BY <1>1, <1>2, PTL DEF InfoSpec, CallSpec

\* The invariants of the call hold of every probe.
THEOREM ProbeCallsCorrect == InfoSpec => [](CallTypeOK /\ CallInv)
BY ExecuteImplemented, CallTypeCorrect, CallCorrect, PTL

\* Every variable keeps its type, and the probes are where resolve says.
THEOREM ProbesCorrect == InfoSpec => [](InfoTypeOK /\ ProbesInv)
<1>1. InfoInit => InfoTypeOK /\ ProbesInv
  <2>. SUFFICES ASSUME InfoInit PROVE InfoTypeOK /\ ProbesInv
    OBVIOUS
  <2>1. CallTypeOK
    BY ExecuteInit DEF InfoInit
  <2>2. InfoTypeOK
    BY <2>1, NotBuiltMember DEF InfoInit, InfoTypeOK
  <2>3. ProbesInv
    BY DEF InfoInit, CallInit, ProbesInv, NotAsked
  <2>. QED
    BY <2>2, <2>3
<1>2. InfoTypeOK /\ ProbesInv /\ CallTypeOK' /\ CallInv /\ [InfoNext]_all => (InfoTypeOK /\ ProbesInv)'
  <2>. SUFFICES ASSUME InfoTypeOK, ProbesInv, CallTypeOK', CallInv, [InfoNext]_all PROVE (InfoTypeOK /\ ProbesInv)'
    OBVIOUS
  <2>. USE InfoAssumption DEF InfoTypeOK, ProbesInv
  <2>1. ASSUME NEW p \in Scrapes, Collect(p) PROVE (InfoTypeOK /\ ProbesInv)'
    BY <2>1 DEF Collect, Move, callVars, info, once, probes
  <2>2. ASSUME NEW p \in Scrapes, BeginResolve(p) PROVE (InfoTypeOK /\ ProbesInv)'
    <3>1. unprobed' = Binaries /\ asking' = Nothing /\ resolver' = p /\ pc' = "idle"
      BY <2>2 DEF BeginResolve, callVars
    <3>2. requiredBinaries \ unprobed' = {}
      BY <3>1 DEF Binaries
    <3>. QED
      BY <2>2, <3>1, <3>2 DEF BeginResolve, callVars
  <2>3. ASSUME NEW p \in Scrapes, BeginProbe(p) PROVE (InfoTypeOK /\ ProbesInv)'
    BY <2>3 DEF BeginProbe, Start, CannotStart, Goto, callVars, info, once, probes
  <2>4. ASSUME NEW p \in Scrapes, SkipProbe(p) PROVE (InfoTypeOK /\ ProbesInv)'
    BY <2>4 DEF SkipProbe, callVars, info, once, probes
  <2>5. ASSUME NEW p \in Scrapes, EndProbe(p) PROVE (InfoTypeOK /\ ProbesInv)'
    <3>1. PICK answer \in GetBinaryVersion : answers' = [answers EXCEPT ![asking] = answer]
      BY <2>5 DEF EndProbe
    <3>2. pc = "returned" /\ pc' = "idle" /\ process' = "none"
      BY <2>5 DEF EndProbe, Return, Goto
    <3>3. asking \in unprobed /\ asking' = Nothing /\ unprobed' = unprobed \ {asking}
      BY <2>5, <3>2 DEF EndProbe
    <3>4. answer \in Versions
      BY <3>1 DEF GetBinaryVersion, Versions
    <3>5. answer # "not_found" => asking \in installed
      BY <3>1, <3>2 DEF GetBinaryVersion, CallInv, Classified
    <3>6. UNCHANGED <<installed, resolver, resolved, series, at, sent>>
      BY <2>5 DEF EndProbe, once
    <3>. QED
      BY <3>1, <3>2, <3>3, <3>4, <3>5, <3>6 DEF Versions
  <2>6. ASSUME NEW p \in Scrapes, EndResolve(p) PROVE (InfoTypeOK /\ ProbesInv)'
    <3>1. series' \in Series
      <4>. DEFINE told == {c \in Binaries : Emitted(c)}
      <4>1. \A b \in told : answers[b] \in Versions
        BY <2>6 DEF EndResolve, Emitted, Versions, Binaries
      <4>2. series' = [b \in told |-> answers[b]]
        BY <2>6 DEF EndResolve
      <4>. QED
        BY <4>1, <4>2, SeriesMember
    <3>2. asking = Nothing
      BY <2>6 DEF EndResolve
    <3>. QED
      BY <2>6, <3>1, <3>2 DEF EndResolve, callVars, probes
  <2>7. ASSUME NEW p \in Scrapes, PassOnce(p) PROVE (InfoTypeOK /\ ProbesInv)'
    BY <2>7 DEF PassOnce, Move, callVars, info, once, probes
  <2>8. ASSUME NEW p \in Scrapes, Send(p) PROVE (InfoTypeOK /\ ProbesInv)'
    BY <2>8 DEF Send, Move, callVars, info, once, probes
  <2>9. ASSUME NEW p \in Scrapes, Returned(p) PROVE (InfoTypeOK /\ ProbesInv)'
    BY <2>9, NotBuiltMember DEF Returned, Move, callVars, info, once, probes
  <2>10. CASE Executing
    BY <2>10 DEF Executing, Command, Write, Succeed, Crash, DescendantEnds, Gone, callVars, info, once, probes
  <2>11. CASE Handling
    BY <2>11 DEF Handling, Kill, Reap, EndOfOutput, Classify, Gone, Goto, callVars, info, once, probes
  <2>12. CASE Passing
    BY <2>12 DEF Passing, CallTick, callVars, info, once, probes
  <2>13. CASE UNCHANGED all
    BY <2>13 DEF all, info, once, probes, callVars
  <2>. QED
    BY <2>1, <2>2, <2>3, <2>4, <2>5, <2>6, <2>7, <2>8, <2>9, <2>10, <2>11, <2>12, <2>13 DEF InfoNext, Progress
<1>. QED
  BY <1>1, <1>2, ProbeCallsCorrect, PTL DEF InfoSpec

\* Nobody passes the once before resolve has returned, and resolve runs once.
THEOREM OnceCorrect == InfoSpec => []OnceInv
<1>1. InfoInit => OnceInv
  BY InfoAssumption DEF InfoInit, OnceInv
<1>2. InfoTypeOK /\ OnceInv /\ [InfoNext]_all => (OnceInv)'
  <2>. SUFFICES ASSUME InfoTypeOK, OnceInv, [InfoNext]_all PROVE (OnceInv)'
    OBVIOUS
  <2>. USE InfoAssumption DEF InfoTypeOK, OnceInv
  <2>1. ASSUME NEW p \in Scrapes, Collect(p) PROVE (OnceInv)'
    BY <2>1 DEF Collect, Move, callVars, info, once, probes
  <2>2. ASSUME NEW p \in Scrapes, BeginResolve(p) PROVE (OnceInv)'
    BY <2>2 DEF BeginResolve, callVars, info, once, probes
  <2>3. ASSUME NEW p \in Scrapes, BeginProbe(p) PROVE (OnceInv)'
    BY <2>3 DEF BeginProbe, Start, CannotStart, Goto, callVars, info, once, probes
  <2>4. ASSUME NEW p \in Scrapes, SkipProbe(p) PROVE (OnceInv)'
    BY <2>4 DEF SkipProbe, callVars, info, once, probes
  <2>5. ASSUME NEW p \in Scrapes, EndProbe(p) PROVE (OnceInv)'
    BY <2>5 DEF EndProbe, callVars, info, once, probes
  <2>6. ASSUME NEW p \in Scrapes, EndResolve(p) PROVE (OnceInv)'
    BY <2>6 DEF EndResolve, callVars, info, once, probes
  <2>7. ASSUME NEW p \in Scrapes, PassOnce(p) PROVE (OnceInv)'
    BY <2>7 DEF PassOnce, Move, callVars, info, once, probes
  <2>8. ASSUME NEW p \in Scrapes, Send(p) PROVE (OnceInv)'
    BY <2>8 DEF Send, Move, callVars, info, once, probes
  <2>9. ASSUME NEW p \in Scrapes, Returned(p) PROVE (OnceInv)'
    BY <2>9 DEF Returned, Move, callVars, info, once, probes
  <2>10. CASE Executing
    BY <2>10 DEF Executing, Command, Write, Succeed, Crash, DescendantEnds, Gone, callVars, info, once, probes
  <2>11. CASE Handling
    BY <2>11 DEF Handling, Kill, Reap, EndOfOutput, Classify, Gone, Goto, callVars, info, once, probes
  <2>12. CASE Passing
    BY <2>12 DEF Passing, CallTick, callVars, info, once, probes
  <2>13. CASE UNCHANGED all
    BY <2>13 DEF all, info, once, probes, callVars
  <2>. QED
    BY <2>1, <2>2, <2>3, <2>4, <2>5, <2>6, <2>7, <2>8, <2>9, <2>10, <2>11, <2>12, <2>13 DEF InfoNext, Progress
<1>. QED
  BY <1>1, <1>2, ProbesCorrect, PTL DEF InfoSpec

\* What resolve built is complete and true of the disk.
THEOREM SeriesCorrect == InfoSpec => []SeriesInv
<1>1. InfoInit => SeriesInv
  BY DEF InfoInit, SeriesInv
<1>2. InfoTypeOK /\ ProbesInv /\ OnceInv /\ SeriesInv /\ [InfoNext]_all => (SeriesInv)'
  <2>. SUFFICES ASSUME InfoTypeOK, ProbesInv, OnceInv, SeriesInv, [InfoNext]_all PROVE (SeriesInv)'
    OBVIOUS
  <2>. USE InfoAssumption DEF SeriesInv
  <2>1. ASSUME NEW p \in Scrapes, Collect(p) PROVE (SeriesInv)'
    BY <2>1 DEF Collect, Move, callVars, info, once, probes
  <2>2. ASSUME NEW p \in Scrapes, BeginResolve(p) PROVE (SeriesInv)'
    BY <2>2 DEF BeginResolve, callVars, info, once, probes
  <2>3. ASSUME NEW p \in Scrapes, BeginProbe(p) PROVE (SeriesInv)'
    BY <2>3 DEF BeginProbe, Start, CannotStart, Goto, callVars, info, once, probes
  <2>4. ASSUME NEW p \in Scrapes, SkipProbe(p) PROVE (SeriesInv)'
    BY <2>4 DEF SkipProbe, callVars, info, once, probes
  <2>5. ASSUME NEW p \in Scrapes, EndProbe(p) PROVE (SeriesInv)'
    BY <2>5 DEF EndProbe, callVars, info, once, probes
  <2>6. ASSUME NEW p \in Scrapes, EndResolve(p) PROVE (SeriesInv)'
    BY <2>6 DEF EndResolve, Emitted, Binaries, ProbesInv, OnceInv, Versions, InfoTypeOK, NotAsked
  <2>7. ASSUME NEW p \in Scrapes, PassOnce(p) PROVE (SeriesInv)'
    BY <2>7 DEF PassOnce, Move, callVars, info, once, probes
  <2>8. ASSUME NEW p \in Scrapes, Send(p) PROVE (SeriesInv)'
    BY <2>8 DEF Send, Move, callVars, info, once, probes
  <2>9. ASSUME NEW p \in Scrapes, Returned(p) PROVE (SeriesInv)'
    BY <2>9 DEF Returned, Move, callVars, info, once, probes
  <2>10. CASE Executing
    BY <2>10 DEF Executing, Command, Write, Succeed, Crash, DescendantEnds, Gone, callVars, info, once, probes
  <2>11. CASE Handling
    BY <2>11 DEF Handling, Kill, Reap, EndOfOutput, Classify, Gone, Goto, callVars, info, once, probes
  <2>12. CASE Passing
    BY <2>12 DEF Passing, CallTick, callVars, info, once, probes
  <2>13. CASE UNCHANGED all
    BY <2>13 DEF all, info, once, probes, callVars
  <2>. QED
    BY <2>1, <2>2, <2>3, <2>4, <2>5, <2>6, <2>7, <2>8, <2>9, <2>10, <2>11, <2>12, <2>13 DEF InfoNext, Progress
<1>. QED
  BY <1>1, <1>2, ProbesCorrect, OnceCorrect, PTL DEF InfoSpec

-----------------------------------------------------------------------------
\* However many scrapes come first at once, all of them export one series, with
\* every required binary in it and no version of a binary that is not there.
THEOREM SameSeriesHolds == InfoSpec => []SameSeries
<1>1. OnceInv /\ SeriesInv => SameSeries
  BY DEF OnceInv, SeriesInv, SameSeries
<1>. QED
  BY <1>1, OnceCorrect, SeriesCorrect, PTL

\* What is read of a probe is all that its command had to say.
THEOREM ProbesAreTruthful == InfoSpec => []ResultIsTruthful
BY ExecuteImplemented, ResultIsTruthfulHolds, PTL

\* A probe of a binary that leaves nothing behind ends within the timeout.
THEOREM ProbesAreBounded == InfoSpec => []BoundedCommand
BY ExecuteImplemented, BoundedCommandHolds, PTL

\* Once resolve has returned no scrape runs a command any more or changes the
\* series: probing is paid for by the first scrape only.
THEOREM ProbedOnce == InfoSpec => [][resolved => UNCHANGED <<callVars, series>>]_all
<1>1. InfoTypeOK /\ ProbesInv /\ OnceInv /\ CallInv /\ [InfoNext]_all
        => [resolved => UNCHANGED <<callVars, series>>]_all
  <2>. SUFFICES ASSUME InfoTypeOK, ProbesInv, OnceInv, CallInv, InfoNext, resolved
                PROVE  UNCHANGED <<callVars, series>>
    OBVIOUS
  <2>1. resolver = Nobody /\ pc = "idle"
    BY DEF ProbesInv, OnceInv
  <2>. QED
    BY <2>1, InfoAssumption DEF InfoNext, InfoTypeOK, ProbesInv, OnceInv, CallInv, AtRest,
       Progress, Collect, BeginResolve, BeginProbe, SkipProbe, EndProbe, EndResolve,
       PassOnce, Send, Returned, Executing, Command, Write, Succeed, Crash, Gone,
       DescendantEnds, Handling, Kill, Reap, EndOfOutput, Classify, Return, Goto,
       Passing, CallTick, info
<1>. QED
  BY <1>1, ProbeCallsCorrect, ProbesCorrect, OnceCorrect, PTL DEF InfoSpec
=============================================================================
