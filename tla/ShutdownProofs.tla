---------------------------- MODULE ShutdownProofs ----------------------------
(***************************************************************************)
(* Proofs about Shutdown for any windows, any connections and any interval *)
(* and timeout of the refresher.  What main does to the refresher are      *)
(* steps of SacctRefresher, so that SacctRefresherProofs holds of it.      *)
(* ServerInv relates main, the server and its requests; PhaseInv, main and *)
(* the time since the signal; LastRefreshInv, that time and the refresher. *)
(***************************************************************************)
EXTENDS Shutdown, TLAPS

\* The theorems of SacctRefresherProofs about the goroutine that main starts.
SacctThread == INSTANCE SacctRefresherProofs

Before == {"binaries", "register", "mux"}

\* The server serves between newMux and BeginShutdown, and only there may it
\* report a failure that main sees; a request is only taken while it serves.
ServerInv ==
  /\ withSacct \in BOOLEAN
  /\ main \in Before \cup {"select", "shutdown", "sacct", "exited"}
  /\ serve \in {"off", "serving", "failed", "closed", "ended"}
  /\ errCh \in {<< >>, <<"failed">>, <<"closed">>}
  /\ open \subseteq Conns
  /\ exitCode \in {Running, 0, 1, Killed}
  /\ Alive <=> exitCode = Running
  /\ main \in Before => open = {} /\ serve = "off" /\ errCh = << >>
  /\ main = "select" => serve \notin {"off", "closed"} /\ errCh # <<"closed">>
  /\ main \in {"shutdown", "sacct"} => serve \notin {"off", "serving"}

\* Once main has seen the signal its windows follow each other without a gap.
PhaseInv ==
  /\ waited \in 0 .. ShutdownTimeout + SacctWait
  /\ signalled \in NoSignal .. Longest
  /\ Alive /\ ~cancelled => signalled = NoSignal
  /\ main \in Before \cup {"select"} => waited = 0
  /\ cancelled /\ main \in Before \cup {"select"} => signalled = 0
  /\ main = "shutdown" => /\ cancelled
                          /\ signalled = waited
                          /\ waited <= ShutdownTimeout
  /\ main = "sacct" => /\ cancelled /\ withSacct
                       /\ waited <= SacctWait
                       /\ waited <= signalled
                       /\ signalled <= ShutdownTimeout + waited
                       /\ open = {} \/ signalled >= ShutdownTimeout + waited
  /\ exitCode = Killed => open = {}
  /\ exitCode = 0 => /\ signalled # NoSignal
                     /\ open = {} \/ signalled >= ShutdownTimeout

\* After the signal the refresher finishes one command at most: the one that
\* runs, or the one that a tick that was ready starts at once.
LastRefreshInv ==
  /\ ~withSacct \/ main \in {"binaries", "register"} => pc = "start"
  /\ pc = "exited" => done
  /\ withSacct /\ Alive /\ cancelled =>
       /\ pc = "start" => signalled = 0
       /\ pc \in {"running", "lock", "store"} => signalled <= ran
       /\ pc = "select" /\ signalled # 0 => /\ ~ticked
                                            /\ signalled <= since
                                            /\ since <= Timeout
  /\ exitCode = 0 /\ withSacct => done \/ (SacctWait <= since /\ since <= Timeout)

-----------------------------------------------------------------------------
\* What SacctRefresherProofs assumes of the constants is assumed here too.
LEMMA SacctAssumptions ==
  SacctThread!RefresherAssumption /\ SacctThread!NoOneAssumption
BY ShutdownAssumption
DEF SacctThread!RefresherAssumption, SacctThread!NoOneAssumption, Procs

\* The two instances of the module are the same specification.
LEMMA SacctSame == Sacct!Spec => SacctThread!Spec
<1>1. Sacct!Init => SacctThread!Init
  BY DEF Sacct!Init, SacctThread!Init, Sacct!Unlocked, SacctThread!Unlocked,
         Sacct!NothingSent, SacctThread!NothingSent, Sacct!NoTicker,
         SacctThread!NoTicker, Sacct!Scrapes, SacctThread!Scrapes
<1>2. [Sacct!Next]_(Sacct!vars) => [SacctThread!Next]_(SacctThread!vars)
  BY Zenon DEF Sacct!Next, SacctThread!Next, Sacct!vars, SacctThread!vars,
       Sacct!refresh, SacctThread!refresh, Sacct!stored, SacctThread!stored,
       Sacct!scrapes, SacctThread!scrapes, Sacct!history, SacctThread!history,
       Sacct!Proceed, SacctThread!Proceed, Sacct!FirstRefresh,
       SacctThread!FirstRefresh, Sacct!OnTick, SacctThread!OnTick,
       Sacct!OnCancelled, SacctThread!OnCancelled, Sacct!SacctFails,
       SacctThread!SacctFails, Sacct!LockToStore, SacctThread!LockToStore,
       Sacct!StoreMetrics, SacctThread!StoreMetrics, Sacct!StoreTime,
       SacctThread!StoreTime, Sacct!Cancel, SacctThread!Cancel, Sacct!Collect,
       SacctThread!Collect, Sacct!Serve, SacctThread!Serve, Sacct!SendMetrics,
       SacctThread!SendMetrics, Sacct!SendTime, SacctThread!SendTime,
       Sacct!CollectReturns, SacctThread!CollectReturns, Sacct!Tick,
       SacctThread!Tick, Sacct!Waiting, SacctThread!Waiting, Sacct!Begin,
       SacctThread!Begin, Sacct!End, SacctThread!End, Sacct!Step,
       SacctThread!Step, Sacct!UpTo, SacctThread!UpTo, Sacct!Announce,
       SacctThread!Announce, Sacct!CanAnnounce, SacctThread!CanAnnounce,
       Sacct!HoldsWrite, SacctThread!HoldsWrite, Sacct!HoldsRead,
       SacctThread!HoldsRead, Sacct!Unlock, SacctThread!Unlock, Sacct!RLock,
       SacctThread!RLock, Sacct!RUnlock, SacctThread!RUnlock, Sacct!NoTicker,
       SacctThread!NoTicker, Sacct!NothingSent, SacctThread!NothingSent,
       Sacct!Scrapes, SacctThread!Scrapes
<1>. QED
  BY <1>1, <1>2, PTL DEF Sacct!Spec, SacctThread!Spec

\* Main reaches the refresher only through its context and its channel: every
\* step is one of the refresher, of its clock, or leaves it alone.
THEOREM SacctImplemented == Spec => Sacct!Spec
<1>1. Init => Sacct!Init
  BY DEF Init
<1>2. [Next]_vars => [Sacct!Next]_(Sacct!vars)
  BY DEF Next, Startup, ValidateBinaries, registerCollectors, newMux, Signal,
     SignalKills, Refresh, Request, Respond, ServeFails, SendError, RunServer,
     ServerStopped, BeginShutdown, EndShutdown, EndSacctWait, Tick, vars, sacct,
     Sacct!Next, Sacct!vars, Sacct!refresh, Sacct!stored, Sacct!scrapes, Sacct!history
<1>. QED
  BY <1>1, <1>2, PTL DEF Spec, Sacct!Spec

\* The types of the refresher's variables.
THEOREM SacctTypes == Spec => []SacctThread!TypeOK
<1>1. SacctThread!Spec => []SacctThread!TypeOK
  BY SacctThread!TypeCorrect, SacctAssumptions
<1>. QED
  BY <1>1, SacctImplemented, SacctSame, PTL

\* Main, the server and its requests agree.
THEOREM ServerCorrect == Spec => []ServerInv
<1>1. Init => ServerInv
  BY DEF Init, ServerInv, Before, Alive, Running, Killed
<1>2. ServerInv /\ [Next]_vars => ServerInv'
  <2>. SUFFICES ASSUME ServerInv, [Next]_vars PROVE ServerInv'
    OBVIOUS
  <2>. USE DEF ServerInv, Before, Alive, Running, Killed
  <2>1. CASE ValidateBinaries
    BY <2>1 DEF ValidateBinaries, Exit, http
  <2>2. CASE registerCollectors
    BY <2>2 DEF registerCollectors, http
  <2>3. CASE newMux
    BY <2>3 DEF newMux, Exit, http
  <2>4. CASE Signal
    BY <2>4 DEF Signal, Catches, Sacct!Cancel, http
  <2>5. CASE SignalKills
    BY <2>5 DEF SignalKills, Catches, Exit, http
  <2>6. CASE Refresh
    BY <2>6 DEF Refresh, Started, http
  <2>7. CASE ServeFails
    BY <2>7 DEF ServeFails, http
  <2>8. CASE SendError
    <3>1. errCh = << >>
      BY <2>8 DEF SendError
    <3>2. errCh' = <<serve>> /\ serve \in {"failed", "closed"}
      BY <2>8, <3>1 DEF SendError
    <3>. QED
      BY <2>8, <3>2 DEF SendError
  <2>9. CASE ServerStopped
    <3>1. errCh = <<"failed">>
      BY <2>9 DEF ServerStopped
    <3>2. errCh' = << >> /\ Head(errCh) = "failed"
      BY <2>9, <3>1 DEF ServerStopped
    <3>. QED
      BY <2>9, <3>2 DEF ServerStopped, Exit
  <2>10. CASE BeginShutdown
    BY <2>10 DEF BeginShutdown, http
  <2>11. CASE EndShutdown
    BY <2>11 DEF EndShutdown, ShutdownExpired, Exit, http
  <2>12. CASE EndSacctWait
    BY <2>12 DEF EndSacctWait, SacctExpired, Exit, http
  <2>13. CASE Tick
    BY <2>13 DEF Tick, MainWaits, Sacct!Tick, http
  <2>14. ASSUME NEW c \in Conns, Request(c) PROVE ServerInv'
    BY <2>14 DEF Request, http
  <2>15. ASSUME NEW c \in Conns, Respond(c) PROVE ServerInv'
    BY <2>15 DEF Respond, http
  <2>16. CASE UNCHANGED vars
    BY <2>16 DEF vars, http, sacct
  <2>. QED
    BY <2>1, <2>2, <2>3, <2>4, <2>5, <2>6, <2>7, <2>8, <2>9, <2>10, <2>11,
       <2>12, <2>13, <2>14, <2>15, <2>16
    DEF Next, Startup, RunServer
<1>. QED
  BY <1>1, <1>2, PTL DEF Spec

\* Only a signal cancels the context, and no step of the refresher does.
LEMMA RefreshKeepsContext == Sacct!Proceed => UNCHANGED cancelled
BY DEF Sacct!Proceed, Sacct!FirstRefresh, Sacct!OnTick, Sacct!OnCancelled,
   Sacct!SacctFails, Sacct!LockToStore, Sacct!StoreMetrics, Sacct!StoreTime,
   Sacct!Begin, Sacct!End

\* The windows follow the signal and each other.
THEOREM PhasesCorrect == Spec => []PhaseInv
<1>1. Init => PhaseInv
  BY ShutdownAssumption DEF Init, Sacct!Init, PhaseInv, Before, Alive, Running, Killed,
     NoSignal, Longest
<1>2. SacctThread!TypeOK /\ ServerInv /\ PhaseInv /\ [Next]_vars => PhaseInv'
  <2>. SUFFICES ASSUME SacctThread!TypeOK, ServerInv, PhaseInv, [Next]_vars PROVE PhaseInv'
    OBVIOUS
  <2>. USE ShutdownAssumption DEF ServerInv, PhaseInv, Before, Alive, Running, Killed,
             NoSignal, Longest
  <2>1. CASE ValidateBinaries
    BY <2>1 DEF ValidateBinaries, Exit, http
  <2>2. CASE registerCollectors
    BY <2>2 DEF registerCollectors, http
  <2>3. CASE newMux
    BY <2>3 DEF newMux, Exit, http
  <2>4. CASE Signal
    BY <2>4 DEF Signal, Catches, Sacct!Cancel, http
  <2>5. CASE SignalKills
    BY <2>5 DEF SignalKills, Catches, Exit, http
  <2>6. CASE Refresh
    BY <2>6, RefreshKeepsContext DEF Refresh, Started, http
  <2>7. CASE ServeFails
    BY <2>7 DEF ServeFails, http
  <2>8. CASE SendError
    BY <2>8 DEF SendError, http
  <2>9. CASE ServerStopped
    BY <2>9 DEF ServerStopped, Exit, http
  <2>10. CASE BeginShutdown
    BY <2>10 DEF BeginShutdown, http
  <2>11. CASE EndShutdown
    BY <2>11 DEF EndShutdown, ShutdownExpired, Exit, http
  <2>12. CASE EndSacctWait
    BY <2>12 DEF EndSacctWait, SacctExpired, Exit, http
  <2>13. CASE Tick
    <3>1. /\ UNCHANGED <<cancelled, withSacct, main, exitCode, open>>
          /\ waited' = IF main = "select" THEN 0 ELSE waited + 1
          /\ signalled' = IF signalled = NoSignal THEN NoSignal
                          ELSE IF signalled + 1 < Longest THEN signalled + 1 ELSE Longest
      BY <2>13 DEF Tick, Sacct!Tick, Sacct!UpTo, http
    <3>2. \/ main = "select" /\ ~cancelled
          \/ main = "shutdown" /\ waited # ShutdownTimeout
          \/ main = "sacct" /\ waited # SacctWait
      BY <2>13 DEF Tick, MainWaits, ShutdownExpired, SacctExpired
    <3>. QED
      BY <3>1, <3>2
  <2>14. ASSUME NEW c \in Conns, Request(c) PROVE PhaseInv'
    BY <2>14 DEF Request, http
  <2>15. ASSUME NEW c \in Conns, Respond(c) PROVE PhaseInv'
    BY <2>15 DEF Respond, http
  <2>16. CASE UNCHANGED vars
    BY <2>16 DEF vars, http, sacct
  <2>. QED
    BY <2>1, <2>2, <2>3, <2>4, <2>5, <2>6, <2>7, <2>8, <2>9, <2>10, <2>11,
       <2>12, <2>13, <2>14, <2>15, <2>16
    DEF Next, Startup, RunServer
<1>. QED
  BY <1>1, <1>2, SacctTypes, ServerCorrect, PTL DEF Spec

\* What holds of the clocks of SacctRefresher holds of those of its goroutine.
LEMMA SacctClocks ==
  ASSUME Timeout <= Interval
  PROVE  Spec => [](SacctThread!TypeOK /\ SacctThread!ClockInv)
<1>1. SacctThread!Spec => []SacctThread!ClockInv
  BY SacctThread!ClocksCorrect, SacctAssumptions
<1>. QED
  BY <1>1, SacctTypes, SacctImplemented, SacctSame, PTL

\* The refresher is at its end a command after the signal at the latest.
THEOREM LastRefreshCorrect ==
  ASSUME Timeout < Interval
  PROVE  Spec => []LastRefreshInv
<1>1. Init => LastRefreshInv
  BY DEF Init, Sacct!Init, LastRefreshInv, Running
<1>2. ASSUME SacctThread!TypeOK, SacctThread!ClockInv, ServerInv, PhaseInv,
             LastRefreshInv, [Next]_vars
      PROVE  LastRefreshInv'
  <2>. USE <1>2, ShutdownAssumption DEF ServerInv, PhaseInv, LastRefreshInv, Before, Alive,
             Running, Killed, NoSignal, Longest
  <2>1. CASE ValidateBinaries
    BY <2>1 DEF ValidateBinaries, Exit, sacct
  <2>2. CASE registerCollectors
    BY <2>2 DEF registerCollectors, sacct
  <2>3. CASE newMux
    BY <2>3 DEF newMux, Exit, sacct
  <2>4. CASE Signal
    <3>1. /\ signalled' = 0
          /\ UNCHANGED <<pc, ran, ticked, done, withSacct, main, exitCode>>
      BY <2>4 DEF Signal, Sacct!Cancel
    <3>2. ran \in 0 .. Timeout
      BY DEF SacctThread!TypeOK
    <3>. QED
      BY <2>4, <3>1, <3>2 DEF Signal, Catches
  <2>5. CASE SignalKills
    BY <2>5 DEF SignalKills, Catches, Exit, sacct
  <2>6. CASE Refresh
    <3>. USE DEF Sacct!Begin, Sacct!End
    <3>0. /\ Alive /\ withSacct /\ main \notin {"binaries", "register"}
          /\ UNCHANGED <<withSacct, main, waited, exitCode, signalled, cancelled>>
      BY <2>6, RefreshKeepsContext DEF Refresh, Started
    <3>1. CASE Sacct!FirstRefresh
      BY <3>0, <3>1 DEF Sacct!FirstRefresh
    <3>2. CASE Sacct!OnTick
      BY <3>0, <3>2 DEF Sacct!OnTick
    <3>3. CASE Sacct!OnCancelled
      BY <3>0, <3>3 DEF Sacct!OnCancelled
    <3>4. CASE Sacct!SacctFails
      BY <3>0, <3>4 DEF Sacct!SacctFails, SacctThread!ClockInv, SacctThread!TypeOK,
         SacctThread!Busy, SacctThread!NoTicker
    <3>5. CASE Sacct!LockToStore
      BY <3>0, <3>5 DEF Sacct!LockToStore
    <3>6. CASE Sacct!StoreMetrics
      BY <3>0, <3>6 DEF Sacct!StoreMetrics
    <3>7. CASE Sacct!StoreTime
      BY <3>0, <3>7 DEF Sacct!StoreTime, SacctThread!ClockInv, SacctThread!TypeOK,
         SacctThread!Busy, SacctThread!NoTicker
    <3>. QED
      BY <2>6, <3>1, <3>2, <3>3, <3>4, <3>5, <3>6, <3>7 DEF Refresh, Sacct!Proceed
  <2>7. CASE ServeFails
    BY <2>7 DEF ServeFails, sacct
  <2>8. CASE SendError
    BY <2>8 DEF SendError, sacct
  <2>9. CASE ServerStopped
    BY <2>9 DEF ServerStopped, Exit, sacct
  <2>10. CASE BeginShutdown
    BY <2>10 DEF BeginShutdown, sacct
  <2>11. CASE EndShutdown
    BY <2>11 DEF EndShutdown, ShutdownExpired, Exit, sacct
  <2>12. CASE EndSacctWait
    <3>1. ~done => waited = SacctWait
      BY <2>12 DEF EndSacctWait, SacctExpired
    <3>2. main = "sacct" /\ waited <= signalled /\ cancelled /\ withSacct
      BY <2>12 DEF EndSacctWait
    <3>3. /\ pc \in {"start", "running", "lock", "store", "select", "exited"}
          /\ ran \in 0 .. Timeout /\ since \in Nat
          /\ pc \in {"running", "lock", "store"} => since = ran
      BY DEF SacctThread!TypeOK, SacctThread!ClockInv, SacctThread!Busy
    <3>4. done \/ (SacctWait <= since /\ since <= Timeout)
      BY <3>1, <3>2, <3>3
    <3>. QED
      BY <2>12, <3>4 DEF EndSacctWait, Exit, sacct
  <2>13. CASE Tick
    <3>1. CASE withSacct
      <4>1. /\ UNCHANGED <<pc, done, cancelled, withSacct, main, exitCode>>
            /\ main \in {"select", "shutdown", "sacct"}
            /\ signalled' = IF signalled = NoSignal THEN NoSignal
                            ELSE Sacct!UpTo(signalled + 1, Longest)
        BY <2>13, <3>1 DEF Tick, MainWaits, Sacct!Tick, http
      <4>2. \/ pc = "running" /\ ran' = ran + 1
            \/ pc = "select" /\ ~cancelled
            \/ pc = "exited"
        BY <2>13, <3>1 DEF Tick, Sacct!Tick, Sacct!Waiting
      <4>3. ran \in Nat
        BY DEF SacctThread!TypeOK
      <4>4. signalled \in Int /\ (signalled # NoSignal => signalled' <= signalled + 1)
        BY <4>1 DEF Sacct!UpTo
      <4>5. exitCode # 0 /\ exitCode' # 0
        BY <4>1
      <4>. QED
        BY <3>1, <4>1, <4>2, <4>3, <4>4, <4>5
    <3>2. CASE ~withSacct
      BY <2>13, <3>2 DEF Tick, MainWaits, sacct
    <3>. QED
      BY <3>1, <3>2
  <2>14. ASSUME NEW c \in Conns, Request(c) PROVE LastRefreshInv'
    BY <2>14 DEF Request, sacct
  <2>15. ASSUME NEW c \in Conns, Respond(c) PROVE LastRefreshInv'
    BY <2>15 DEF Respond, sacct
  <2>16. CASE UNCHANGED vars
    BY <2>16 DEF vars, sacct
  <2>. QED
    BY <2>1, <2>2, <2>3, <2>4, <2>5, <2>6, <2>7, <2>8, <2>9, <2>10, <2>11,
       <2>12, <2>13, <2>14, <2>15, <2>16
    DEF Next, Startup, RunServer
<1>3. Spec => [](SacctThread!TypeOK /\ SacctThread!ClockInv)
  BY SacctClocks, ShutdownAssumption
<1>. QED
  BY <1>1, <1>2, <1>3, ServerCorrect, PhasesCorrect, PTL DEF Spec

\* Every variable keeps its type; the channel never holds more than the one error
\* it has room for.
THEOREM TypeCorrect == Spec => []TypeOK
<1>1. SacctThread!TypeOK => Sacct!TypeOK
  BY DEF Sacct!TypeOK, SacctThread!TypeOK, Sacct!RWMutexes, SacctThread!RWMutexes,
     Sacct!Generations, SacctThread!Generations, Sacct!Scrapes, SacctThread!Scrapes
<1>2. SacctThread!TypeOK /\ ServerInv /\ PhaseInv => TypeOK
  <2>. SUFFICES ASSUME SacctThread!TypeOK, ServerInv, PhaseInv PROVE TypeOK
    OBVIOUS
  <2>1. errCh \in Seq({"failed", "closed"}) /\ Len(errCh) <= 1
    <3>1. CASE errCh = << >>
      BY <3>1
    <3>2. CASE errCh = <<"failed">>
      <4>1. <<"failed">> \in Seq({"failed", "closed"}) /\ Len(<<"failed">>) <= 1
        OBVIOUS
      <4>. QED
        BY <3>2, <4>1
    <3>3. CASE errCh = <<"closed">>
      <4>1. <<"closed">> \in Seq({"failed", "closed"}) /\ Len(<<"closed">>) <= 1
        OBVIOUS
      <4>. QED
        BY <3>3, <4>1
    <3>. QED
      BY <3>1, <3>2, <3>3 DEF ServerInv
  <2>. QED
    BY <1>1, <2>1 DEF TypeOK, ServerInv, PhaseInv, Before
<1>. QED
  BY <1>2, SacctTypes, ServerCorrect, PhasesCorrect, PTL

-----------------------------------------------------------------------------
\* Whatever requests and commands do, main is gone once the two windows it grants
\* have passed since the signal: no wait of main is outside of them.
THEOREM BoundedShutdownHolds == Spec => []BoundedShutdown
<1>1. SacctThread!TypeOK /\ ServerInv /\ PhaseInv => BoundedShutdown
  BY ShutdownAssumption
  DEF SacctThread!TypeOK, ServerInv, PhaseInv, Before, NoSignal, BoundedShutdown, Alive
<1>. QED
  BY <1>1, SacctTypes, ServerCorrect, PhasesCorrect, PTL

\* Unless the server failed, a request that is cut off had the whole window that
\* Shutdown grants.
THEOREM RequestsFinishHolds == Spec => []RequestsFinish
<1>1. ServerInv /\ PhaseInv => RequestsFinish
  BY ShutdownAssumption
  DEF ServerInv, PhaseInv, NoSignal, Longest, RequestsFinish, Alive, Running, Killed
<1>. QED
  BY <1>1, ServerCorrect, PhasesCorrect, PTL

\* Status 0 tells of a signal and, for commands shorter than the interval, of a
\* refresher that has ended or whose sacct has had the whole window.
THEOREM OrderlyExitHolds ==
  ASSUME Timeout < Interval
  PROVE  Spec => []OrderlyExit
<1>1. PhaseInv /\ LastRefreshInv => OrderlyExit
  BY DEF PhaseInv, LastRefreshInv, OrderlyExit
<1>. QED
  BY <1>1, PhasesCorrect, LastRefreshCorrect, PTL
=============================================================================
