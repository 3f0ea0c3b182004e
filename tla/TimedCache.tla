----------------------------- MODULE TimedCache -----------------------------
(***************************************************************************)
(* timedCache of internal/collector/cache.go: goroutines (one per scrape   *)
(* in progress) call GetOrFetch and AgeSeconds on one shared cache.  A     *)
(* call is split at the points where another goroutine can run: taking and *)
(* leaving the RWMutex, the freshness check, the copy, and the command the *)
(* fetch callback executes.                                                *)
(*                                                                         *)
(* The cached bytes are abstracted to the instant at which slurmctld       *)
(* produced them, which is all that freshness, staleness and ordering can  *)
(* tell apart.                                                             *)
(***************************************************************************)
EXTENDS Integers, RWMutex

CONSTANTS TTL,       \* timedCache.ttl
          Timeout,   \* the longest a fetch runs: Execute's command timeout
          MaxTime    \* bound of the model: the clock stops there

ASSUME TimeAssumption == /\ TTL \in Nat \ {0}
                         /\ Timeout \in Nat
                         /\ MaxTime \in Nat

VARIABLES
  now,       \* the clock that time.Now and time.Since read
  mu,        \* timedCache.mu
  data,      \* timedCache.data: the instant the cached snapshot was taken
  fetchAt,   \* timedCache.fetchAt, Never while the time is zero
  pc,        \* where each goroutine is
  readAt,    \* the instant at which the call last read the clock
  asked,     \* history: the instant at which the call began
  result,    \* what the GetOrFetch call of each goroutine answers
  age,       \* what the AgeSeconds call of each goroutine answers
  newest,    \* history: the newest snapshot any call has returned
  floor      \* history: the value of newest when the call began

vars == <<now, mu, data, fetchAt, pc, readAt, asked, result, age, newest, floor>>

Never   == -1
Instant == 0 .. MaxTime

Steps == {"idle", "fast", "copy", "slow", "recheck", "fetching", "done",
          "age", "aged"}

Result == [ok : BOOLEAN, data : Instant \cup {Never}, at : Instant]

NoResult == [ok |-> FALSE, data |-> Never, at |-> 0]

TypeOK ==
  /\ now \in Instant
  /\ mu \in RWMutexes
  /\ data \in Instant \cup {Never}
  /\ fetchAt \in Instant \cup {Never}
  /\ pc \in [Procs -> Steps]
  /\ readAt \in [Procs -> Instant]
  /\ asked \in [Procs -> Instant]
  /\ result \in [Procs -> Result]
  /\ age \in [Procs -> Int]
  /\ newest \in Instant \cup {Never}
  /\ floor \in [Procs -> Instant \cup {Never}]

Init ==
  /\ now = 0
  /\ mu = Unlocked
  /\ data = Never
  /\ fetchAt = Never
  /\ pc = [p \in Procs |-> "idle"]
  /\ readAt = [p \in Procs |-> 0]
  /\ asked = [p \in Procs |-> 0]
  /\ result = [p \in Procs |-> NoResult]
  /\ age = [p \in Procs |-> -1]
  /\ newest = Never
  /\ floor = [p \in Procs |-> Never]

-----------------------------------------------------------------------------
Goto(p, from, to) == pc[p] = from /\ pc' = [pc EXCEPT ![p] = to]

\* Mutant: served for one instant too long.
Fresh_late == fetchAt # Never /\ now - fetchAt <= TTL

\* !c.fetchAt.IsZero() && time.Since(c.fetchAt) < c.ttl
Fresh == fetchAt # Never /\ now - fetchAt < TTL

Answer(p, r) == result' = [result EXCEPT ![p] = r]

\* GetOrFetch is entered and asks for the read lock.
Call(p) ==
  /\ Goto(p, "idle", "fast")
  /\ mu' = RLock(mu, p)
  /\ floor' = [floor EXCEPT ![p] = newest]
  /\ asked' = [asked EXCEPT ![p] = now]
  /\ UNCHANGED <<now, data, fetchAt, readAt, result, age, newest>>

\* Mutant: the read lock is given back before the copy.
FastHit_unlocked(p) ==
  /\ HoldsRead(mu, p)
  /\ Fresh
  /\ Goto(p, "fast", "copy")
  /\ readAt' = [readAt EXCEPT ![p] = now]
  /\ mu' = RUnlock(mu, p)
  /\ UNCHANGED <<now, data, fetchAt, asked, result, age, newest, floor>>

\* Fast path: the cache is fresh.
FastHit(p) ==
  /\ HoldsRead(mu, p)
  /\ Fresh
  /\ Goto(p, "fast", "copy")
  /\ readAt' = [readAt EXCEPT ![p] = now]
  /\ UNCHANGED <<now, mu, data, fetchAt, asked, result, age, newest, floor>>

\* The copy is made before the read lock is given back.
FastCopy(p) ==
  /\ Goto(p, "copy", "done")
  /\ Answer(p, [ok |-> TRUE, data |-> data, at |-> readAt[p]])
  /\ mu' = RUnlock(mu, p)
  /\ UNCHANGED <<now, data, fetchAt, readAt, asked, age, newest, floor>>

FastMiss(p) ==
  /\ HoldsRead(mu, p)
  /\ ~Fresh
  /\ Goto(p, "fast", "slow")
  /\ mu' = RUnlock(mu, p)
  /\ UNCHANGED <<now, data, fetchAt, readAt, asked, result, age, newest, floor>>

\* Slow path: announce the writer; readers inside must leave first.
LockSlow(p) ==
  /\ CanAnnounce(mu)
  /\ Goto(p, "slow", "recheck")
  /\ mu' = Announce(mu, p)
  /\ UNCHANGED <<now, data, fetchAt, readAt, asked, result, age, newest, floor>>

\* Double check: somebody refreshed the cache while this call waited.
RecheckHit(p) ==
  /\ HoldsWrite(mu, p)
  /\ Fresh
  /\ Goto(p, "recheck", "done")
  /\ Answer(p, [ok |-> TRUE, data |-> data, at |-> now])
  /\ mu' = Unlock(mu)
  /\ UNCHANGED <<now, data, fetchAt, readAt, asked, age, newest, floor>>

\* Mutant: the command runs outside the lock.
StartFetch_unlocked(p) ==
  /\ HoldsWrite(mu, p)
  /\ ~Fresh
  /\ Goto(p, "recheck", "fetching")
  /\ readAt' = [readAt EXCEPT ![p] = now]
  /\ mu' = Unlock(mu)
  /\ UNCHANGED <<now, data, fetchAt, asked, result, age, newest, floor>>

\* fetch() starts, under the write lock.
StartFetch(p) ==
  /\ HoldsWrite(mu, p)
  /\ ~Fresh
  /\ Goto(p, "recheck", "fetching")
  /\ readAt' = [readAt EXCEPT ![p] = now]
  /\ UNCHANGED <<now, mu, data, fetchAt, asked, result, age, newest, floor>>

\* Mutant: the expiry is stored in place of the time of the fetch.
FetchOK_expiry(p) ==
  /\ Goto(p, "fetching", "done")
  /\ \E t \in readAt[p] .. now :
       /\ data' = t
       /\ Answer(p, [ok |-> TRUE, data |-> t, at |-> now])
  /\ fetchAt' = now + TTL
  /\ mu' = Unlock(mu)
  /\ UNCHANGED <<now, readAt, asked, age, newest, floor>>

\* fetch() returned a snapshot, taken at some instant since it started.
FetchOK(p) ==
  /\ Goto(p, "fetching", "done")
  /\ \E t \in readAt[p] .. now :
       /\ data' = t
       /\ Answer(p, [ok |-> TRUE, data |-> t, at |-> now])
  /\ fetchAt' = now
  /\ mu' = Unlock(mu)
  /\ UNCHANGED <<now, readAt, asked, age, newest, floor>>

\* Mutant: the error path does not unlock.
FetchFail_locked(p) ==
  /\ Goto(p, "fetching", "done")
  /\ Answer(p, [ok |-> FALSE, data |-> Never, at |-> now])
  /\ UNCHANGED <<now, mu, data, fetchAt, readAt, asked, age, newest, floor>>

\* fetch() failed: the error is returned and the cache keeps what it had.
FetchFail(p) ==
  /\ Goto(p, "fetching", "done")
  /\ Answer(p, [ok |-> FALSE, data |-> Never, at |-> now])
  /\ mu' = Unlock(mu)
  /\ UNCHANGED <<now, data, fetchAt, readAt, asked, age, newest, floor>>

\* The caller has its result, and the call's variables go out of scope.
Return(p) ==
  /\ Goto(p, "done", "idle")
  /\ newest' = IF result[p].ok /\ result[p].data > newest
               THEN result[p].data ELSE newest
  /\ readAt' = [readAt EXCEPT ![p] = 0]
  /\ asked' = [asked EXCEPT ![p] = 0]
  /\ floor' = [floor EXCEPT ![p] = Never]
  /\ Answer(p, NoResult)
  /\ UNCHANGED <<now, mu, data, fetchAt, age>>

\* AgeSeconds.
AgeCall(p) ==
  /\ Goto(p, "idle", "age")
  /\ mu' = RLock(mu, p)
  /\ UNCHANGED <<now, data, fetchAt, readAt, asked, result, age, newest, floor>>

AgeSeconds == IF fetchAt = Never THEN -1 ELSE now - fetchAt

\* Mutant: AgeSeconds does not unlock.
AgeRead_locked(p) ==
  /\ HoldsRead(mu, p)
  /\ Goto(p, "age", "aged")
  /\ age' = [age EXCEPT ![p] = AgeSeconds]
  /\ UNCHANGED <<now, mu, data, fetchAt, readAt, asked, result, newest, floor>>

AgeRead(p) ==
  /\ HoldsRead(mu, p)
  /\ Goto(p, "age", "aged")
  /\ age' = [age EXCEPT ![p] = AgeSeconds]
  /\ mu' = RUnlock(mu, p)
  /\ UNCHANGED <<now, data, fetchAt, readAt, asked, result, newest, floor>>

AgeReturn(p) ==
  /\ Goto(p, "aged", "idle")
  /\ age' = [age EXCEPT ![p] = -1]
  /\ UNCHANGED <<now, mu, data, fetchAt, readAt, asked, result, newest, floor>>

\* Execute kills its command at the timeout, so a fetch does not outlive it.
FetchesInTime == \A p \in Procs : pc[p] = "fetching" => now < readAt[p] + Timeout

Tick ==
  /\ now < MaxTime
  /\ FetchesInTime
  /\ now' = now + 1
  /\ UNCHANGED <<mu, data, fetchAt, pc, readAt, asked, result, age, newest, floor>>

EndFetch(p) == FetchOK(p) \/ FetchFail(p)

GetOrFetch(p) ==
  \/ FastHit(p) \/ FastCopy(p) \/ FastMiss(p) \/ LockSlow(p)
  \/ RecheckHit(p) \/ StartFetch(p) \/ EndFetch(p)

Next ==
  \/ \E p \in Procs : Call(p) \/ GetOrFetch(p) \/ Return(p)
                      \/ AgeCall(p) \/ AgeRead(p) \/ AgeReturn(p)
  \/ Tick

Spec == Init /\ [][Next]_vars

(***************************************************************************)
(* A goroutine that is runnable keeps running, and a fetch ends because    *)
(* Execute bounds it: weak fairness.  The announcement is only             *)
(* intermittently possible when several writers compete, and sync.Mutex    *)
(* hands itself over in arrival order once a waiter starves: strong        *)
(* fairness.  Nothing makes a caller call, and nothing needs time to pass. *)
(***************************************************************************)
Fairness ==
  \A p \in Procs :
    /\ WF_vars(GetOrFetch(p))
    /\ WF_vars(Return(p))
    /\ WF_vars(AgeRead(p) \/ AgeReturn(p))
    /\ SF_vars(LockSlow(p))

LiveSpec == Spec /\ Fairness

-----------------------------------------------------------------------------
(* Safety.                                                                 *)

\* "Concurrent callers wait on a single write lock": however the callers
\* interleave, the Slurm command behind the cache never runs twice at once.
SingleFlight ==
  \A p, q \in Procs : pc[p] = "fetching" /\ pc[q] = "fetching" => p = q

\* No thundering herd: the callers that queued up behind one refresh do not
\* refresh again; a command starts no sooner than a TTL after the last one
\* that succeeded.
FetchesSpaced ==
  \A p \in Procs :
    pc[p] = "fetching" /\ fetchAt # Never => readAt[p] - fetchAt >= TTL

\* What GetOrFetch answers described the cluster less than a TTL and one
\* command ago, counted from its own freshness decision: the TTL runs from the
\* end of the fetch and the snapshot may be as old as its start.
BoundedStaleness ==
  \A p \in Procs :
    pc[p] = "done" /\ result[p].ok => result[p].at - result[p].data < TTL + Timeout

\* A call that begins after another call returned never answers an older
\* snapshot than that one did: between scrapes the cache does not go back in
\* time, whoever refreshes it.
MonotonicReads ==
  \A p \in Procs :
    pc[p] = "done" /\ result[p].ok => result[p].data >= floor[p]

\* The bytes and their timestamp stay put from the fast path's freshness check
\* to the end of its copy.
CopyUndisturbed ==
  [][(\E p \in Procs : pc[p] = "copy") => UNCHANGED <<data, fetchAt>>]_vars

-----------------------------------------------------------------------------
(* Liveness.                                                               *)

\* Every GetOrFetch returns, with data or with the command's error, whatever
\* the other callers do and however often the command fails; and AgeSeconds is
\* not starved by the refreshes it has to wait for.
EveryCallReturns ==
  \A p \in Procs : /\ pc[p] = "fast" ~> pc[p] = "done"
                   /\ pc[p] = "age" ~> pc[p] = "aged"

-----------------------------------------------------------------------------
(* Refinement.                                                             *)

\* A call takes effect when its freshness check succeeds under a lock, or when
\* its fetch ends.
StatusBar ==
  [p \in Procs |->
     CASE pc[p] \in {"idle", "age", "aged"} -> "idle"
       [] pc[p] \in {"fast", "slow", "recheck", "fetching"} -> "pending"
       [] OTHER -> "replied"]

ReplyBar ==
  [p \in Procs |->
     IF pc[p] = "copy" THEN [ok |-> TRUE, data |-> data, at |-> readAt[p]]
     ELSE result[p]]

Register == INSTANCE SnapshotRegister
            WITH snapshot <- data, storedAt <- fetchAt,
                 status <- StatusBar, reply <- ReplyBar

\* The cache is linearizable: its callers cannot tell it from a register that
\* answers each of them in one step.
ImplementsRegister == Register!Spec

\* The same with the promise that every call is answered.
ImplementsLiveRegister == Register!LiveSpec
=============================================================================
