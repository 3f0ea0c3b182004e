-------------------------- MODULE TimedCacheProofs --------------------------
(***************************************************************************)
(* Proofs about TimedCache for any number of callers, any TTL, any command *)
(* timeout and any clock bound.  The inductive invariant is built in three *)
(* layers: who is where with respect to the lock (LockInv), what the       *)
(* recorded instants say (TimeInv), and what callers have seen             *)
(* (HistoryInv); each layer rests on the ones before it.                   *)
(***************************************************************************)
EXTENDS TimedCache, TLAPS

\* The lock's fields agree with where the goroutines are, and a fetch has the
\* lock to itself.
LockInv ==
  /\ mu.readers \cap mu.parked = {}
  /\ \A p \in mu.readers : pc[p] \in {"fast", "copy", "age"}
  /\ \A p \in mu.parked : pc[p] \in {"fast", "age"}
  /\ \A p \in Procs :
       /\ pc[p] = "copy" => p \in mu.readers
       /\ pc[p] \in {"recheck", "fetching"} <=> mu.writer = p
       /\ pc[p] = "fetching" => mu.readers = {}

\* The snapshot is no younger than its timestamp and at most a command older; a
\* fetch began on a stale cache and is within its time; a copy began on a fresh
\* one.
TimeInv ==
  /\ fetchAt # Never => /\ data # Never
                        /\ data <= fetchAt
                        /\ fetchAt <= now
                        /\ fetchAt - data <= Timeout
  /\ \A p \in Procs :
       /\ readAt[p] <= now
       /\ asked[p] <= now
       /\ pc[p] = "fetching" => /\ now - readAt[p] <= Timeout
                                /\ asked[p] <= readAt[p]
                                /\ fetchAt # Never => readAt[p] - fetchAt >= TTL
       /\ pc[p] = "copy" => fetchAt # Never /\ readAt[p] - fetchAt < TTL

\* Nobody has seen a snapshot newer than the cached one.
HistoryInv ==
  /\ newest <= data
  /\ fetchAt = Never => data = Never
  /\ \A p \in Procs :
       /\ floor[p] <= newest
       /\ pc[p] = "done" /\ result[p].ok =>
            /\ result[p].data <= data
            /\ floor[p] <= result[p].data
            /\ result[p].at - result[p].data < TTL + Timeout

\* AgeSeconds has answered -1 or an age the clock can show.
AgeInv == \A p \in Procs : age[p] \in -1 .. MaxTime

-----------------------------------------------------------------------------
\* Every variable keeps to its type: no call is ever in two places, and the
\* clock, the snapshot and its timestamp stay on the model's time line.
THEOREM TypeCorrect == Spec => []TypeOK
<1>1. Init => TypeOK
  BY TimeAssumption DEF Init, TypeOK, Instant, RWMutexes, Unlocked, Steps, Result,
     NoResult, Never
<1>2. TypeOK /\ [Next]_vars => TypeOK'
  <2>. SUFFICES ASSUME TypeOK, [Next]_vars PROVE TypeOK'
    OBVIOUS
  <2>. USE TimeAssumption DEF TypeOK, Instant, RWMutexes, Steps, Result, Goto
  <2>1. ASSUME NEW p \in Procs, Call(p) PROVE TypeOK'
    BY <2>1 DEF Call, RLock
  <2>2. ASSUME NEW p \in Procs, FastHit(p) PROVE TypeOK'
    BY <2>2 DEF FastHit
  <2>3. ASSUME NEW p \in Procs, FastCopy(p) PROVE TypeOK'
    BY <2>3 DEF FastCopy, Answer, RUnlock
  <2>4. ASSUME NEW p \in Procs, FastMiss(p) PROVE TypeOK'
    BY <2>4 DEF FastMiss, RUnlock
  <2>5. ASSUME NEW p \in Procs, LockSlow(p) PROVE TypeOK'
    BY <2>5 DEF LockSlow, Announce
  <2>6. ASSUME NEW p \in Procs, RecheckHit(p) PROVE TypeOK'
    BY <2>6 DEF RecheckHit, Answer, Unlock
  <2>7. ASSUME NEW p \in Procs, StartFetch(p) PROVE TypeOK'
    BY <2>7 DEF StartFetch
  <2>8. ASSUME NEW p \in Procs, FetchOK(p) PROVE TypeOK'
    <3>1. PICK t \in readAt[p] .. now :
            data' = t /\ Answer(p, [ok |-> TRUE, data |-> t, at |-> now])
      BY <2>8 DEF FetchOK
    <3>2. t \in Instant
      BY <3>1
    <3>3. [ok |-> TRUE, data |-> t, at |-> now] \in Result
      BY <3>2
    <3>4. result' \in [Procs -> Result]
      BY <3>1, <3>3 DEF Answer
    <3>5. mu' \in RWMutexes
      BY <2>8 DEF FetchOK, Unlock
    <3>. QED
      BY <2>8, <3>1, <3>2, <3>4, <3>5 DEF FetchOK
  <2>9. ASSUME NEW p \in Procs, FetchFail(p) PROVE TypeOK'
    BY <2>9 DEF FetchFail, Answer, Unlock, Never
  <2>10. ASSUME NEW p \in Procs, Return(p) PROVE TypeOK'
    BY <2>10 DEF Return, Answer, NoResult, Never
  <2>11. ASSUME NEW p \in Procs, AgeCall(p) PROVE TypeOK'
    BY <2>11 DEF AgeCall, RLock
  <2>12. ASSUME NEW p \in Procs, AgeRead(p) PROVE TypeOK'
    <3>1. AgeSeconds \in Int
      BY DEF AgeSeconds, Never
    <3>2. age' \in [Procs -> Int]
      BY <2>12, <3>1 DEF AgeRead
    <3>3. mu' \in RWMutexes
      BY <2>12 DEF AgeRead, RUnlock
    <3>. QED
      BY <2>12, <3>2, <3>3 DEF AgeRead
  <2>13. ASSUME NEW p \in Procs, AgeReturn(p) PROVE TypeOK'
    BY <2>13 DEF AgeReturn
  <2>14. CASE Tick
    BY <2>14 DEF Tick
  <2>15. CASE UNCHANGED vars
    BY <2>15 DEF vars
  <2>. QED
    BY <2>1, <2>2, <2>3, <2>4, <2>5, <2>6, <2>7, <2>8, <2>9, <2>10, <2>11, <2>12, <2>13, <2>14, <2>15
    DEF Next, GetOrFetch, EndFetch
<1>. QED
  BY <1>1, <1>2, PTL DEF Spec

\* The lock protocol: goroutines inside the read lock or announced as writer
\* are exactly those whose program counter says so.
THEOREM LockCorrect == Spec => []LockInv
<1>1. Init => LockInv
  BY NoOneAssumption DEF Init, LockInv, Unlocked
<1>2. TypeOK /\ LockInv /\ [Next]_vars => LockInv'
  <2>. SUFFICES ASSUME TypeOK, LockInv, [Next]_vars PROVE LockInv'
    OBVIOUS
  <2>. USE NoOneAssumption DEF TypeOK, RWMutexes, LockInv, Goto
  <2>1. ASSUME NEW p \in Procs, Call(p) PROVE LockInv'
    BY <2>1 DEF Call, RLock
  <2>2. ASSUME NEW p \in Procs, FastHit(p) PROVE LockInv'
    BY <2>2 DEF FastHit, HoldsRead
  <2>3. ASSUME NEW p \in Procs, FastCopy(p) PROVE LockInv'
    BY <2>3 DEF FastCopy, RUnlock
  <2>4. ASSUME NEW p \in Procs, FastMiss(p) PROVE LockInv'
    BY <2>4 DEF FastMiss, HoldsRead, RUnlock
  <2>5. ASSUME NEW p \in Procs, LockSlow(p) PROVE LockInv'
    BY <2>5 DEF LockSlow, Announce, CanAnnounce
  <2>6. ASSUME NEW p \in Procs, RecheckHit(p) PROVE LockInv'
    BY <2>6 DEF RecheckHit, HoldsWrite, Unlock
  <2>7. ASSUME NEW p \in Procs, StartFetch(p) PROVE LockInv'
    BY <2>7 DEF StartFetch, HoldsWrite
  <2>8. ASSUME NEW p \in Procs, FetchOK(p) PROVE LockInv'
    <3>1. PICK t \in readAt[p] .. now :
            data' = t /\ Answer(p, [ok |-> TRUE, data |-> t, at |-> now])
      BY <2>8 DEF FetchOK
    <3>. QED
      BY <2>8, <3>1 DEF FetchOK, Unlock
  <2>9. ASSUME NEW p \in Procs, FetchFail(p) PROVE LockInv'
    BY <2>9 DEF FetchFail, Unlock
  <2>10. ASSUME NEW p \in Procs, Return(p) PROVE LockInv'
    BY <2>10 DEF Return
  <2>11. ASSUME NEW p \in Procs, AgeCall(p) PROVE LockInv'
    BY <2>11 DEF AgeCall, RLock
  <2>12. ASSUME NEW p \in Procs, AgeRead(p) PROVE LockInv'
    BY <2>12 DEF AgeRead, RUnlock, HoldsRead
  <2>13. ASSUME NEW p \in Procs, AgeReturn(p) PROVE LockInv'
    BY <2>13 DEF AgeReturn
  <2>14. CASE Tick
    BY <2>14 DEF Tick
  <2>15. CASE UNCHANGED vars
    BY <2>15 DEF vars
  <2>. QED
    BY <2>1, <2>2, <2>3, <2>4, <2>5, <2>6, <2>7, <2>8, <2>9, <2>10, <2>11, <2>12, <2>13, <2>14, <2>15
    DEF Next, GetOrFetch, EndFetch
<1>. QED
  BY <1>1, <1>2, TypeCorrect, PTL DEF Spec

\* The instants recorded in the cache and by its callers fit together.
THEOREM TimesCorrect == Spec => []TimeInv
<1>1. Init => TimeInv
  BY TimeAssumption DEF Init, TimeInv, Never
<1>2. TypeOK /\ LockInv /\ TimeInv /\ [Next]_vars => TimeInv'
  <2>. SUFFICES ASSUME TypeOK, LockInv, TimeInv, [Next]_vars PROVE TimeInv'
    OBVIOUS
  <2>. USE TimeAssumption DEF TypeOK, Instant, TimeInv, Goto, Never
  <2>1. ASSUME NEW p \in Procs, Call(p) PROVE TimeInv'
    BY <2>1 DEF Call
  <2>2. ASSUME NEW p \in Procs, FastHit(p) PROVE TimeInv'
    BY <2>2 DEF FastHit, Fresh
  <2>3. ASSUME NEW p \in Procs, FastCopy(p) PROVE TimeInv'
    BY <2>3 DEF FastCopy
  <2>4. ASSUME NEW p \in Procs, FastMiss(p) PROVE TimeInv'
    BY <2>4 DEF FastMiss
  <2>5. ASSUME NEW p \in Procs, LockSlow(p) PROVE TimeInv'
    BY <2>5 DEF LockSlow
  <2>6. ASSUME NEW p \in Procs, RecheckHit(p) PROVE TimeInv'
    BY <2>6 DEF RecheckHit
  <2>7. ASSUME NEW p \in Procs, StartFetch(p) PROVE TimeInv'
    BY <2>7 DEF StartFetch, Fresh
  <2>8. ASSUME NEW p \in Procs, FetchOK(p) PROVE TimeInv'
    <3>1. PICK t \in readAt[p] .. now :
            data' = t /\ Answer(p, [ok |-> TRUE, data |-> t, at |-> now])
      BY <2>8 DEF FetchOK
    <3>. QED
      BY <2>8, <3>1 DEF FetchOK, LockInv
  <2>9. ASSUME NEW p \in Procs, FetchFail(p) PROVE TimeInv'
    BY <2>9 DEF FetchFail
  <2>10. ASSUME NEW p \in Procs, Return(p) PROVE TimeInv'
    BY <2>10 DEF Return
  <2>11. ASSUME NEW p \in Procs, AgeCall(p) PROVE TimeInv'
    BY <2>11 DEF AgeCall
  <2>12. ASSUME NEW p \in Procs, AgeRead(p) PROVE TimeInv'
    BY <2>12 DEF AgeRead
  <2>13. ASSUME NEW p \in Procs, AgeReturn(p) PROVE TimeInv'
    BY <2>13 DEF AgeReturn
  <2>14. CASE Tick
    BY <2>14 DEF Tick, FetchesInTime
  <2>15. CASE UNCHANGED vars
    BY <2>15 DEF vars
  <2>. QED
    BY <2>1, <2>2, <2>3, <2>4, <2>5, <2>6, <2>7, <2>8, <2>9, <2>10, <2>11, <2>12, <2>13, <2>14, <2>15
    DEF Next, GetOrFetch, EndFetch
<1>. QED
  BY <1>1, <1>2, TypeCorrect, LockCorrect, PTL DEF Spec

\* AgeSeconds never answers a negative age other than -1: no timestamp in the
\* cache is ahead of the clock it is compared with.
THEOREM AgesCorrect == Spec => []AgeInv
<1>1. Init => AgeInv
  <2>1. -1 \in -1 .. MaxTime
    BY TimeAssumption
  <2>2. Init => age = [p \in Procs |-> -1]
    BY DEF Init
  <2>. QED
    BY <2>1, <2>2 DEF AgeInv
<1>2. TypeOK /\ TimeInv /\ AgeInv /\ [Next]_vars => AgeInv'
  <2>. SUFFICES ASSUME TypeOK, TimeInv, AgeInv, [Next]_vars PROVE AgeInv'
    OBVIOUS
  <2>1. AgeSeconds \in -1 .. MaxTime
    BY TimeAssumption DEF TypeOK, Instant, TimeInv, AgeSeconds, Never
  <2>2. ASSUME NEW p \in Procs, AgeRead(p) PROVE AgeInv'
    BY <2>1, <2>2 DEF AgeRead, AgeInv, TypeOK
  <2>3. ASSUME NEW p \in Procs, AgeReturn(p) PROVE AgeInv'
    BY <2>3, TimeAssumption DEF AgeReturn, AgeInv, TypeOK
  <2>4. ASSUME UNCHANGED age PROVE AgeInv'
    BY <2>4 DEF AgeInv
  <2>5. ASSUME Next, \A p \in Procs : ~AgeRead(p) /\ ~AgeReturn(p)
        PROVE  UNCHANGED age
    BY Zenon, <2>5
    DEF Next, GetOrFetch, EndFetch, Call, FastHit, FastCopy, FastMiss, LockSlow,
        RecheckHit, StartFetch, FetchOK, FetchFail, Return, AgeCall, Tick
  <2>. QED
    BY <2>2, <2>3, <2>4, <2>5 DEF vars
<1>. QED
  BY <1>1, <1>2, TypeCorrect, TimesCorrect, PTL DEF Spec

\* What callers have been told never runs ahead of the cache, and the cache
\* never runs behind what they have been told.
THEOREM HistoryCorrect == Spec => []HistoryInv
<1>1. Init => HistoryInv
  BY DEF Init, HistoryInv, NoResult, Never
<1>2. TypeOK /\ LockInv /\ TimeInv /\ HistoryInv /\ [Next]_vars => HistoryInv'
  <2>. SUFFICES ASSUME TypeOK, LockInv, TimeInv, HistoryInv, [Next]_vars
                PROVE  HistoryInv'
    OBVIOUS
  <2>. USE TimeAssumption DEF TypeOK, Instant, Result, HistoryInv, Goto, Never
  <2>1. ASSUME NEW p \in Procs, Call(p) PROVE HistoryInv'
    BY <2>1 DEF Call
  <2>2. ASSUME NEW p \in Procs, FastHit(p) PROVE HistoryInv'
    BY <2>2 DEF FastHit
  <2>3. ASSUME NEW p \in Procs, FastCopy(p) PROVE HistoryInv'
    BY <2>3 DEF FastCopy, Answer, TimeInv
  <2>4. ASSUME NEW p \in Procs, FastMiss(p) PROVE HistoryInv'
    BY <2>4 DEF FastMiss
  <2>5. ASSUME NEW p \in Procs, LockSlow(p) PROVE HistoryInv'
    BY <2>5 DEF LockSlow
  <2>6. ASSUME NEW p \in Procs, RecheckHit(p) PROVE HistoryInv'
    BY <2>6 DEF RecheckHit, Answer, TimeInv, Fresh
  <2>7. ASSUME NEW p \in Procs, StartFetch(p) PROVE HistoryInv'
    BY <2>7 DEF StartFetch
  <2>8. ASSUME NEW p \in Procs, FetchOK(p) PROVE HistoryInv'
    <3>1. PICK t \in readAt[p] .. now :
            data' = t /\ Answer(p, [ok |-> TRUE, data |-> t, at |-> now])
      BY <2>8 DEF FetchOK
    <3>. QED
      BY <2>8, <3>1 DEF FetchOK, Answer, TimeInv
  <2>9. ASSUME NEW p \in Procs, FetchFail(p) PROVE HistoryInv'
    BY <2>9 DEF FetchFail, Answer
  <2>10. ASSUME NEW p \in Procs, Return(p) PROVE HistoryInv'
    BY <2>10 DEF Return, Answer, NoResult
  <2>11. ASSUME NEW p \in Procs, AgeCall(p) PROVE HistoryInv'
    BY <2>11 DEF AgeCall
  <2>12. ASSUME NEW p \in Procs, AgeRead(p) PROVE HistoryInv'
    BY <2>12 DEF AgeRead
  <2>13. ASSUME NEW p \in Procs, AgeReturn(p) PROVE HistoryInv'
    BY <2>13 DEF AgeReturn
  <2>14. CASE Tick
    BY <2>14 DEF Tick
  <2>15. CASE UNCHANGED vars
    BY <2>15 DEF vars
  <2>. QED
    BY <2>1, <2>2, <2>3, <2>4, <2>5, <2>6, <2>7, <2>8, <2>9, <2>10, <2>11, <2>12, <2>13, <2>14, <2>15
    DEF Next, GetOrFetch, EndFetch
<1>. QED
  BY <1>1, <1>2, TypeCorrect, LockCorrect, TimesCorrect, PTL DEF Spec

-----------------------------------------------------------------------------
\* However callers interleave, the command behind the cache never runs twice at
\* once: the write lock is held from the double check to the end of the fetch.
THEOREM SingleFlightHolds == Spec => []SingleFlight
<1>1. TypeOK /\ LockInv => SingleFlight
  BY DEF TypeOK, LockInv, SingleFlight
<1>. QED
  BY <1>1, TypeCorrect, LockCorrect, PTL

\* A fetch starts at least a TTL after the last one that succeeded, so callers
\* that queued behind a refresh do not repeat it.
THEOREM FetchesSpacedHolds == Spec => []FetchesSpaced
<1>1. TimeInv => FetchesSpaced
  BY DEF TimeInv, FetchesSpaced
<1>. QED
  BY <1>1, TimesCorrect, PTL

\* What a call answers was taken less than a TTL plus one command before the
\* call's own freshness decision.
THEOREM BoundedStalenessHolds == Spec => []BoundedStaleness
<1>1. HistoryInv => BoundedStaleness
  BY DEF HistoryInv, BoundedStaleness
<1>. QED
  BY <1>1, HistoryCorrect, PTL

\* No call answers a snapshot older than one answered before the call began.
THEOREM MonotonicReadsHolds == Spec => []MonotonicReads
<1>1. TypeOK /\ HistoryInv => MonotonicReads
  BY DEF TypeOK, Instant, Result, Never, HistoryInv, MonotonicReads
<1>. QED
  BY <1>1, TypeCorrect, HistoryCorrect, PTL

\* While one goroutine copies the bytes no other goroutine replaces them.
THEOREM CopyUndisturbedHolds == Spec => CopyUndisturbed
<1>. DEFINE Undisturbed == (\E p \in Procs : pc[p] = "copy") => UNCHANGED <<data, fetchAt>>
<1>1. TypeOK /\ LockInv /\ [Next]_vars => [Undisturbed]_vars
  <2>. SUFFICES ASSUME TypeOK, LockInv, Next, NEW p \in Procs, pc[p] = "copy"
                PROVE  UNCHANGED <<data, fetchAt>>
    OBVIOUS
  <2>1. \A q \in Procs : ~EndFetch(q)
    BY DEF LockInv, EndFetch, FetchOK, FetchFail, Goto
  <2>. QED
    BY <2>1 DEF Next, GetOrFetch, EndFetch, Call, FastHit, FastCopy, FastMiss,
       LockSlow, RecheckHit, StartFetch, Return, AgeCall, AgeRead, AgeReturn, Tick
<1>. QED
  BY <1>1, TypeCorrect, LockCorrect, PTL DEF Spec, CopyUndisturbed

-----------------------------------------------------------------------------
\* timedCache implements the one-step register: every step of the cache is a
\* step of the register, or invisible to its callers.
THEOREM RegisterImplemented == Spec => ImplementsRegister
<1>. USE DEF StatusBar, ReplyBar
<1>1. Init => Register!Init
  BY DEF Init, NoResult, Never, Register!Init, Register!NoReply, Register!Never
<1>2. TypeOK /\ LockInv /\ TimeInv /\ [Next]_vars => [Register!Next]_(Register!regVars)
  <2>. SUFFICES ASSUME TypeOK, LockInv, TimeInv, [Next]_vars
                PROVE  Register!Next \/ UNCHANGED Register!regVars
    OBVIOUS
  <2>. USE DEF TypeOK, Steps, Goto, Register!regVars
  <2>1. ASSUME NEW p \in Procs, Call(p) PROVE Register!Invoke(p)
    BY <2>1, TimeAssumption DEF Call, Register!Invoke, Register!Become
  <2>2. ASSUME NEW p \in Procs, FastHit(p) PROVE Register!Serve(p)
    BY <2>2, TimeAssumption DEF FastHit, Register!Serve, Register!Become, Fresh, Register!Fresh, Never, Register!Never, LockInv
  <2>3. ASSUME NEW p \in Procs, FastCopy(p) PROVE UNCHANGED Register!regVars
    BY <2>3, TimeAssumption DEF FastCopy, Answer
  <2>4. ASSUME NEW p \in Procs, FastMiss(p) PROVE UNCHANGED Register!regVars
    BY <2>4, TimeAssumption DEF FastMiss
  <2>5. ASSUME NEW p \in Procs, LockSlow(p) PROVE UNCHANGED Register!regVars
    BY <2>5, TimeAssumption DEF LockSlow
  <2>6. ASSUME NEW p \in Procs, RecheckHit(p) PROVE Register!Serve(p)
    BY <2>6, TimeAssumption DEF RecheckHit, Register!Serve, Register!Become, Answer, Fresh, Register!Fresh, Never, Register!Never, LockInv, HoldsWrite
  <2>7. ASSUME NEW p \in Procs, StartFetch(p) PROVE UNCHANGED Register!regVars
    BY <2>7, TimeAssumption DEF StartFetch
  <2>8. ASSUME NEW p \in Procs, FetchOK(p) PROVE Register!Refresh(p)
    <3>1. ~Register!Fresh
      BY <2>8, TimeAssumption DEF FetchOK, TimeInv, Instant, Never, Register!Fresh, Register!Never
    <3>2. Register!Become(p, "pending", "replied")
      BY <2>8 DEF FetchOK, Register!Become
    <3>3. PICK t \in readAt[p] .. now :
            data' = t /\ Answer(p, [ok |-> TRUE, data |-> t, at |-> now])
      BY <2>8 DEF FetchOK
    <3>4. t \in 0 .. now /\ t >= fetchAt /\ t >= asked[p] /\ now - t <= Timeout
      BY <2>8, <3>3, TimeAssumption DEF FetchOK, TimeInv, Instant, Never
    <3>5. \A q \in Procs : pc[q] # "copy" /\ pc'[q] # "copy"
      BY <2>8 DEF FetchOK, LockInv
    <3>6. ReplyBar' = [ReplyBar EXCEPT ![p] = [ok |-> TRUE, data |-> t, at |-> now]]
      BY <3>3, <3>5 DEF Answer
    <3>. QED
      BY <2>8, <3>1, <3>2, <3>3, <3>4, <3>6 DEF FetchOK, Register!Refresh
  <2>9. ASSUME NEW p \in Procs, FetchFail(p) PROVE Register!Fail(p)
    <3>1. ~Register!Fresh
      BY <2>9, TimeAssumption DEF FetchFail, TimeInv, Instant, Never, Register!Fresh, Register!Never
    <3>2. Register!Become(p, "pending", "replied")
      BY <2>9 DEF FetchFail, Register!Become
    <3>3. ReplyBar' = [ReplyBar EXCEPT ![p] =
                         [ok |-> FALSE, data |-> Never, at |-> now]]
      BY <2>9 DEF FetchFail, Answer
    <3>. QED
      BY <2>9, <3>1, <3>2, <3>3 DEF FetchFail, Register!Fail, Never, Register!Never
  <2>10. ASSUME NEW p \in Procs, Return(p) PROVE Register!Finish(p)
    BY <2>10, TimeAssumption DEF Return, Register!Finish, Register!Become, Answer, NoResult, Never, Register!NoReply, Register!Never
  <2>11. ASSUME NEW p \in Procs, AgeCall(p) PROVE UNCHANGED Register!regVars
    BY <2>11, TimeAssumption DEF AgeCall
  <2>12. ASSUME NEW p \in Procs, AgeRead(p) PROVE UNCHANGED Register!regVars
    BY <2>12, TimeAssumption DEF AgeRead
  <2>13. ASSUME NEW p \in Procs, AgeReturn(p) PROVE UNCHANGED Register!regVars
    BY <2>13, TimeAssumption DEF AgeReturn
  <2>14. CASE Tick
    BY <2>14 DEF Tick, Register!Next, Register!Pass
  <2>15. CASE UNCHANGED vars
    BY <2>15 DEF vars
  <2>. QED
    BY <2>1, <2>2, <2>3, <2>4, <2>5, <2>6, <2>7, <2>8, <2>9, <2>10, <2>11, <2>12, <2>13, <2>14, <2>15
    DEF Next, GetOrFetch, EndFetch, Register!Next, Register!Respond
<1>. QED
  BY <1>1, <1>2, TypeCorrect, LockCorrect, TimesCorrect, PTL
  DEF Spec, ImplementsRegister, Register!Spec
=============================================================================
