------------------------ MODULE SacctRefresherProofs ------------------------
(***************************************************************************)
(* Proofs about SacctRefresher for any number of scrapes, any interval and *)
(* any command timeout.  The inductive invariant has three layers: who is  *)
(* where with respect to the lock (LockInv), which generation is where     *)
(* (DataInv), and, for commands that do not outlast the interval, what the *)
(* clocks say of each other (ClockInv).                                    *)
(***************************************************************************)
EXTENDS SacctRefresher, TLAPS

\* The lock's fields agree with where the goroutines are; the refresher is
\* announced only for the two assignments, and makes the second one alone.
LockInv ==
  /\ mu.readers \cap mu.parked = {}
  /\ mu.readers \cup mu.parked \subseteq Scrapes
  /\ mu.writer = IF pc \in {"lock", "store"} THEN Refresher ELSE NoOne
  /\ mu.writer = NoOne => mu.parked = {}
  /\ pc = "store" => mu.readers = {}
  /\ \A s \in Scrapes :
       /\ s \in mu.readers => at[s] \in {"metrics", "time"}
       /\ s \in mu.parked => at[s] = "metrics"
       /\ at[s] = "time" => s \in mu.readers

\* Metrics and timestamp differ only between the two assignments, and a scrape
\* that has sent the one and not the other has sent what is cached.
DataInv ==
  /\ pc # "store" => cached = lastRefresh
  /\ \A s \in Scrapes :
       /\ at[s] = "time" => sent[s].metrics = cached
       /\ at[s] = "sent" => sent[s].metrics = sent[s].time

Busy == pc \in {"running", "lock", "store"}

\* The time since the last refresh began, the time to the next tick and the age
\* of the timestamp add up: a refresh that follows a tick begins with it and is
\* over before the next one or together with it.
ClockInv ==
  /\ gap = Interval
  /\ pc = "start" => since = Interval
  /\ Busy => since = ran
  /\ tickIn = NoTicker => /\ pc \in {"start", "running", "lock", "store"}
                          /\ ~ticked
                          /\ lastRefresh = 0
  /\ pc = "start" => tickIn = NoTicker
  /\ tickIn # NoTicker /\ Busy =>
       \/ ran < Interval /\ tickIn = Interval - ran /\ ~ticked
       \/ ran = Interval /\ tickIn = Interval /\ ticked
  /\ pc = "select" => IF ticked THEN since = Interval /\ tickIn = Interval
                                ELSE since + tickIn >= Interval
  /\ pc = "exited" => cancelled
  /\ lastRefresh # 0 /\ ~failed /\ ~cancelled =>
       /\ Busy => stale <= Interval + ran
       /\ pc = "select" => IF ticked THEN stale <= Interval
                                     ELSE stale + tickIn <= Interval

-----------------------------------------------------------------------------
\* Every variable keeps its type: clocks stay within their bounds, and only
\* scrapes and the refresher are in the lock's fields.
THEOREM TypeCorrect == Spec => []TypeOK
<1>1. Init => TypeOK
  <2>. SUFFICES ASSUME Init PROVE TypeOK
    OBVIOUS
  <2>. USE RefresherAssumption DEF Init
  <2>1. mu \in RWMutexes
    BY DEF RWMutexes, Unlocked
  <2>2. /\ at \in [Scrapes -> {"idle", "metrics", "time", "sent"}]
        /\ sent \in [Scrapes -> [metrics : Generations, time : Generations]]
    BY DEF NothingSent, Generations
  <2>3. /\ ticked \in BOOLEAN /\ cancelled \in BOOLEAN
        /\ done \in BOOLEAN /\ failed \in BOOLEAN
    OBVIOUS
  <2>4. /\ {cached, lastRefresh} \subseteq Generations
        /\ pc \in {"start", "running", "lock", "store", "select", "exited"}
        /\ ran \in 0 .. Timeout
        /\ tickIn \in 0 .. Interval
        /\ since \in 0 .. Interval /\ gap \in 0 .. Interval
        /\ stale \in 0 .. 2 * Interval + 1
    BY DEF Generations, NoTicker
  <2>. QED
    BY <2>1, <2>2, <2>3, <2>4 DEF TypeOK
<1>2. TypeOK /\ [Next]_vars => TypeOK'
  <2>. SUFFICES ASSUME TypeOK, [Next]_vars PROVE TypeOK'
    OBVIOUS
  <2>. USE RefresherAssumption, NoOneAssumption DEF TypeOK, RWMutexes, Scrapes, Generations, NoTicker
  <2>1. CASE FirstRefresh
    BY <2>1 DEF FirstRefresh, Begin, stored, scrapes
  <2>2. CASE OnTick
    <3>1. Begin("select") /\ ticked' \in BOOLEAN
      BY <2>2 DEF OnTick
    <3>. QED
      BY <3>1 DEF Begin, stored, scrapes
  <2>3. CASE OnCancelled
    BY <2>3 DEF OnCancelled, stored, scrapes, history
  <2>4. CASE SacctFails
    BY <2>4 DEF SacctFails, End, stored, scrapes
  <2>5. CASE LockToStore
    BY <2>5 DEF LockToStore, Announce, CanAnnounce, stored, scrapes, history
  <2>6. CASE StoreMetrics
    BY <2>6 DEF StoreMetrics, HoldsWrite, scrapes, history
  <2>7. CASE StoreTime
    <3>1. /\ pc' = "select" /\ ran' = 0
          /\ tickIn' \in 0 .. Interval
      BY <2>7 DEF StoreTime, End
    <3>2. ticked' \in BOOLEAN /\ failed' \in BOOLEAN
      BY <2>7 DEF StoreTime, End
    <3>3. mu' \in RWMutexes
      BY <2>7 DEF StoreTime, Unlock
    <3>. QED
      BY <2>7, <3>1, <3>2, <3>3 DEF StoreTime, End, scrapes
  <2>8. CASE Cancel
    BY <2>8 DEF Cancel, stored, scrapes, history
  <2>9. CASE Tick
    <3>1. ran' \in 0 .. Timeout
      BY <2>9 DEF Tick, Waiting
    <3>2. since' \in 0 .. Interval /\ stale' \in 0 .. 2 * Interval + 1
      BY <2>9 DEF Tick, UpTo
    <3>3. tickIn' \in 0 .. Interval
      BY <2>9 DEF Tick
    <3>4. ticked' \in BOOLEAN
      BY <2>9, Zenon DEF Tick
    <3>. QED
      BY <2>9, <3>1, <3>2, <3>3, <3>4 DEF Tick, stored, scrapes
  <2>10. ASSUME NEW s \in Scrapes, Collect(s) PROVE TypeOK'
    BY <2>10 DEF Collect, RLock, Step, refresh, stored, history
  <2>11. ASSUME NEW s \in Scrapes, SendMetrics(s) PROVE TypeOK'
    BY <2>11 DEF SendMetrics, HoldsRead, Step, refresh, stored, history
  <2>12. ASSUME NEW s \in Scrapes, SendTime(s) PROVE TypeOK'
    BY <2>12 DEF SendTime, RUnlock, Step, refresh, stored, history
  <2>13. ASSUME NEW s \in Scrapes, CollectReturns(s) PROVE TypeOK'
    BY <2>13 DEF CollectReturns, Step, refresh, stored, history, NothingSent
  <2>14. CASE UNCHANGED vars
    BY <2>14 DEF vars, refresh, stored, scrapes, history
  <2>. QED
    BY <2>1, <2>2, <2>3, <2>4, <2>5, <2>6, <2>7, <2>8, <2>9, <2>10, <2>11, <2>12, <2>13, <2>14 DEF Next, Proceed, Serve
<1>. QED
  BY <1>1, <1>2, PTL DEF Spec

\* The lock protocol of refresh and Collect.
THEOREM LockCorrect == Spec => []LockInv
<1>1. Init => LockInv
  BY DEF Init, LockInv, Unlocked
<1>2. TypeOK /\ LockInv /\ [Next]_vars => LockInv'
  <2>. SUFFICES ASSUME TypeOK, LockInv, [Next]_vars PROVE LockInv'
    OBVIOUS
  <2>. USE RefresherAssumption, NoOneAssumption DEF TypeOK, RWMutexes, LockInv, Scrapes
  <2>1. CASE FirstRefresh
    BY <2>1 DEF FirstRefresh, Begin, stored, scrapes
  <2>2. CASE OnTick
    BY <2>2 DEF OnTick, Begin, stored, scrapes
  <2>3. CASE OnCancelled
    BY <2>3 DEF OnCancelled, stored, scrapes, history
  <2>4. CASE SacctFails
    BY <2>4 DEF SacctFails, End, stored, scrapes
  <2>5. CASE LockToStore
    BY <2>5 DEF LockToStore, Announce, CanAnnounce, stored, scrapes, history
  <2>6. CASE StoreMetrics
    BY <2>6 DEF StoreMetrics, HoldsWrite, scrapes, history
  <2>7. CASE StoreTime
    BY <2>7 DEF StoreTime, End, Unlock, scrapes
  <2>8. CASE Cancel
    BY <2>8 DEF Cancel, stored, scrapes, history
  <2>9. CASE Tick
    BY <2>9 DEF Tick, UpTo, Waiting, stored, scrapes
  <2>10. ASSUME NEW s \in Scrapes, Collect(s) PROVE LockInv'
    BY <2>10 DEF Collect, RLock, Step, refresh, stored, history
  <2>11. ASSUME NEW s \in Scrapes, SendMetrics(s) PROVE LockInv'
    BY <2>11 DEF SendMetrics, HoldsRead, Step, refresh, stored, history
  <2>12. ASSUME NEW s \in Scrapes, SendTime(s) PROVE LockInv'
    BY <2>12 DEF SendTime, RUnlock, Step, refresh, stored, history
  <2>13. ASSUME NEW s \in Scrapes, CollectReturns(s) PROVE LockInv'
    BY <2>13 DEF CollectReturns, Step, refresh, stored, history, NothingSent
  <2>14. CASE UNCHANGED vars
    BY <2>14 DEF vars, refresh, stored, scrapes, history
  <2>. QED
    BY <2>1, <2>2, <2>3, <2>4, <2>5, <2>6, <2>7, <2>8, <2>9, <2>10, <2>11, <2>12, <2>13, <2>14 DEF Next, Proceed, Serve
<1>. QED
  BY <1>1, <1>2, TypeCorrect, PTL DEF Spec

\* The metrics and the timestamp of one generation are served together.
THEOREM DataCorrect == Spec => []DataInv
<1>1. Init => DataInv
  BY DEF Init, DataInv
<1>2. TypeOK /\ LockInv /\ DataInv /\ [Next]_vars => DataInv'
  <2>. SUFFICES ASSUME TypeOK, LockInv, DataInv, [Next]_vars PROVE DataInv'
    OBVIOUS
  <2>. USE RefresherAssumption DEF TypeOK, LockInv, DataInv, Generations
  <2>1. CASE FirstRefresh
    BY <2>1 DEF FirstRefresh, Begin, stored, scrapes
  <2>2. CASE OnTick
    BY <2>2 DEF OnTick, Begin, stored, scrapes
  <2>3. CASE OnCancelled
    BY <2>3 DEF OnCancelled, stored, scrapes, history
  <2>4. CASE SacctFails
    BY <2>4 DEF SacctFails, End, stored, scrapes
  <2>5. CASE LockToStore
    BY <2>5 DEF LockToStore, Announce, CanAnnounce, stored, scrapes, history
  <2>6. CASE StoreMetrics
    BY <2>6 DEF StoreMetrics, HoldsWrite, scrapes, history
  <2>7. CASE StoreTime
    BY <2>7 DEF StoreTime, End, Unlock, scrapes
  <2>8. CASE Cancel
    BY <2>8 DEF Cancel, stored, scrapes, history
  <2>9. CASE Tick
    BY <2>9 DEF Tick, UpTo, Waiting, stored, scrapes
  <2>10. ASSUME NEW s \in Scrapes, Collect(s) PROVE DataInv'
    BY <2>10 DEF Collect, RLock, Step, refresh, stored, history
  <2>11. ASSUME NEW s \in Scrapes, SendMetrics(s) PROVE DataInv'
    BY <2>11 DEF SendMetrics, HoldsRead, Step, refresh, stored, history
  <2>12. ASSUME NEW s \in Scrapes, SendTime(s) PROVE DataInv'
    BY <2>12 DEF SendTime, RUnlock, Step, refresh, stored, history
  <2>13. ASSUME NEW s \in Scrapes, CollectReturns(s) PROVE DataInv'
    BY <2>13 DEF CollectReturns, Step, refresh, stored, history, NothingSent
  <2>14. CASE UNCHANGED vars
    BY <2>14 DEF vars, refresh, stored, scrapes, history
  <2>. QED
    BY <2>1, <2>2, <2>3, <2>4, <2>5, <2>6, <2>7, <2>8, <2>9, <2>10, <2>11, <2>12, <2>13, <2>14 DEF Next, Proceed, Serve
<1>. QED
  BY <1>1, <1>2, TypeCorrect, LockCorrect, PTL DEF Spec

\* The clocks fit together as long as no command outlasts the interval.
THEOREM ClocksCorrect ==
  ASSUME Timeout <= Interval
  PROVE  Spec => []ClockInv
<1>1. Init => ClockInv
  BY RefresherAssumption DEF Init, ClockInv, Busy, NoTicker
<1>2. TypeOK /\ DataInv /\ ClockInv /\ [Next]_vars => ClockInv'
  <2>. SUFFICES ASSUME TypeOK, DataInv, ClockInv, [Next]_vars PROVE ClockInv'
    OBVIOUS
  <2>. USE RefresherAssumption DEF TypeOK, ClockInv, Busy, NoTicker
  <2>1. CASE FirstRefresh
    BY <2>1 DEF FirstRefresh, Begin, stored, scrapes
  <2>2. CASE OnTick
    BY <2>2 DEF OnTick, Begin, stored, scrapes
  <2>3. CASE OnCancelled
    BY <2>3 DEF OnCancelled, stored, scrapes, history
  <2>4. CASE SacctFails
    BY <2>4 DEF SacctFails, End, stored, scrapes
  <2>5. CASE LockToStore
    BY <2>5 DEF LockToStore, Announce, CanAnnounce, stored, scrapes, history
  <2>6. CASE StoreMetrics
    BY <2>6 DEF StoreMetrics, HoldsWrite, scrapes, history
  <2>7. CASE StoreTime
    BY <2>7 DEF StoreTime, End, Unlock, scrapes, DataInv
  <2>8. CASE Cancel
    BY <2>8 DEF Cancel, stored, scrapes, history
  <2>9. CASE Tick
    <3>. DEFINE Ticks == tickIn # NoTicker /\ pc # "exited"
    <3>1. Ticks /\ tickIn # 1 => ticked' = ticked /\ tickIn' = tickIn - 1
      <4>1. (ticked \/ FALSE) = ticked
        OBVIOUS
      <4>2. Ticks /\ tickIn # 1 => ticked' = (ticked \/ FALSE)
        BY <2>9 DEF Tick
      <4>. QED
        BY <2>9, <4>1, <4>2 DEF Tick
    <3>2. Ticks /\ tickIn = 1 => ticked' = TRUE /\ tickIn' = Interval
      BY <2>9 DEF Tick
    <3>3. ~Ticks => ticked' = ticked /\ tickIn' = tickIn
      BY <2>9 DEF Tick
    <3>4. /\ since' = UpTo(since + 1, Interval)
          /\ stale' = UpTo(stale + 1, 2 * Interval + 1)
          /\ ran' = IF pc = "running" THEN ran + 1 ELSE ran
          /\ UNCHANGED <<pc, cancelled, lastRefresh, gap, failed>>
      BY <2>9 DEF Tick, stored
    <3>5. CASE pc = "running" /\ ran < Timeout
      BY <3>1, <3>2, <3>3, <3>4, <3>5 DEF UpTo
    <3>6. CASE pc = "select" /\ ~ticked /\ ~cancelled
      BY <3>1, <3>2, <3>3, <3>4, <3>6 DEF UpTo
    <3>7. CASE pc = "exited"
      BY <3>3, <3>4, <3>7 DEF UpTo
    <3>. QED
      BY <2>9, <3>5, <3>6, <3>7 DEF Tick, Waiting
  <2>10. ASSUME NEW s \in Scrapes, Collect(s) PROVE ClockInv'
    BY <2>10 DEF Collect, RLock, Step, refresh, stored, history
  <2>11. ASSUME NEW s \in Scrapes, SendMetrics(s) PROVE ClockInv'
    BY <2>11 DEF SendMetrics, HoldsRead, Step, refresh, stored, history
  <2>12. ASSUME NEW s \in Scrapes, SendTime(s) PROVE ClockInv'
    BY <2>12 DEF SendTime, RUnlock, Step, refresh, stored, history
  <2>13. ASSUME NEW s \in Scrapes, CollectReturns(s) PROVE ClockInv'
    BY <2>13 DEF CollectReturns, Step, refresh, stored, history, NothingSent
  <2>14. CASE UNCHANGED vars
    BY <2>14 DEF vars, refresh, stored, scrapes, history
  <2>. QED
    BY <2>1, <2>2, <2>3, <2>4, <2>5, <2>6, <2>7, <2>8, <2>9, <2>10, <2>11, <2>12, <2>13, <2>14 DEF Next, Proceed, Serve
<1>. QED
  BY <1>1, <1>2, TypeCorrect, DataCorrect, PTL DEF Spec

-----------------------------------------------------------------------------
\* However a refresh and the scrapes interleave, a scrape exports the timestamp
\* of the refresh whose metrics it exports: both assignments are made under the
\* write lock and both are read under the read lock.
THEOREM TimestampMatchesMetricsHolds == Spec => []TimestampMatchesMetrics
<1>1. DataInv => TimestampMatchesMetrics
  BY DEF DataInv, TimestampMatchesMetrics
<1>. QED
  BY <1>1, DataCorrect, PTL

\* While sacct runs no scrape is parked: the write lock is not even asked for
\* before the command has ended.
THEOREM CollectNeverWaitsForSacctHolds == Spec => []CollectNeverWaitsForSacct
<1>1. LockInv => CollectNeverWaitsForSacct
  BY DEF LockInv, CollectNeverWaitsForSacct
<1>. QED
  BY <1>1, LockCorrect, PTL

\* Two refreshes begin at least an interval apart, if commands do not outlast
\* the interval: a tick kept during a refresh is the only way to be early.
THEOREM SacctSpacedHolds ==
  ASSUME Timeout <= Interval
  PROVE  Spec => []SacctSpaced
<1>1. TypeOK /\ ClockInv => SacctSpaced
  BY RefresherAssumption DEF TypeOK, ClockInv, SacctSpaced
<1>. QED
  BY <1>1, TypeCorrect, ClocksCorrect, PTL

\* Under the same condition the documented alert, twice the interval, is raised
\* by no refresher whose sacct succeeds: the timestamp is never older than an
\* interval and a command.
THEOREM NoFalseAlarmHolds ==
  ASSUME Timeout <= Interval
  PROVE  Spec => []NoFalseAlarm
<1>1. TypeOK /\ DataInv /\ ClockInv => NoFalseAlarm
  <2>. SUFFICES ASSUME TypeOK, DataInv, ClockInv,
                       lastRefresh # 0, ~failed, ~cancelled
                PROVE  stale <= 2 * Interval
    BY DEF NoFalseAlarm
  <2>. USE RefresherAssumption DEF TypeOK, ClockInv, Busy, NoTicker
  <2>1. CASE Busy
    BY <2>1
  <2>2. CASE pc = "select"
    BY <2>2
  <2>3. pc # "start" /\ pc # "exited"
    OBVIOUS
  <2>. QED
    BY <2>1, <2>2, <2>3
<1>. QED
  BY <1>1, TypeCorrect, DataCorrect, ClocksCorrect, PTL
=============================================================================
