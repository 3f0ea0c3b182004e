------------------------------ MODULE Shutdown ------------------------------
(***************************************************************************)
(* main and runServer of cmd/slurm_exporter/main.go: main checks the       *)
(* binaries, catches the signals, registers the collectors, one of which   *)
(* starts the sacct_efficiency goroutine, and builds the routes.  The      *)
(* server runs in a goroutine that reports how it ended through a channel; *)
(* on a signal main shuts it down, gives sacct_efficiency a bounded time,  *)
(* and returns.                                                            *)
(* It is composed with SacctRefresher, whose context is the same signal    *)
(* context.  A request is what Scrape models; here it starts and ends.     *)
(***************************************************************************)
EXTENDS Integers, Sequences

CONSTANTS Refresher, NoOne, Interval, Timeout,   \* as in SacctRefresher
          Conns,             \* the connections that may carry a request
          ShutdownTimeout,   \* what server.Shutdown is given: 10 s
          SacctWait          \* what the refresher is given: 5 s

ASSUME ShutdownAssumption == /\ {Timeout, ShutdownTimeout} \subseteq Nat
                             /\ {Interval, SacctWait} \subseteq Nat \ {0}
                             /\ NoOne # Refresher

Procs == {Refresher}   \* the scrapes' side of the cache lock is left out

VARIABLES
  mu, cached, lastRefresh, pc, ran, tickIn, ticked, cancelled, done, at, sent,
  since, gap, stale, failed,   \* of the refresher
  withSacct, \* sacctDone # nil: the sacct_efficiency collector is enabled
  main,      \* where main is: in its own body up to "mux", then in runServer
  serve,     \* the goroutine that runs the server
  errCh,     \* what it sent and main has not received
  open,      \* the connections with a request in progress
  waited,    \* for how long main has waited where it is
  exitCode,  \* of the process; Running until it exits
  signalled  \* history: time since the signal, up to Longest; NoSignal before

sacct == <<mu, cached, lastRefresh, pc, ran, tickIn, ticked, done, at, sent,
           since, gap, stale, failed>>
http  == <<serve, errCh, open>>
vars  == <<sacct, cancelled, withSacct, main, http, waited, exitCode, signalled>>

Sacct == INSTANCE SacctRefresher

Running  == -1
NoSignal == -1
Killed   == 2    \* by a signal that it does not catch
Longest  == ShutdownTimeout + SacctWait + 1

TypeOK ==
  /\ Sacct!TypeOK
  /\ withSacct \in BOOLEAN
  /\ main \in {"binaries", "register", "mux", "select", "shutdown", "sacct", "exited"}
  /\ serve \in {"off", "serving", "failed", "closed", "ended"}
  /\ errCh \in Seq({"failed", "closed"}) /\ Len(errCh) <= 1
  /\ open \subseteq Conns
  /\ waited \in 0 .. ShutdownTimeout + SacctWait
  /\ exitCode \in {Running, 0, 1, Killed}
  /\ signalled \in NoSignal .. Longest

Init ==
  /\ Sacct!Init
  /\ withSacct \in BOOLEAN   \* a flag, off by default
  /\ main = "binaries"
  /\ serve = "off"
  /\ errCh = << >>
  /\ open = {}
  /\ waited = 0
  /\ exitCode = Running
  /\ signalled = NoSignal

-----------------------------------------------------------------------------
Alive == main # "exited"

Exit(code) == main' = "exited" /\ exitCode' = code

\* signal.NotifyContext has been called: once the binaries have been checked.
Catches == Alive /\ main # "binaries"

\* SIGTERM or SIGINT; a second one changes nothing.
Signal ==
  /\ Catches
  /\ Sacct!Cancel
  /\ signalled' = 0
  /\ UNCHANGED <<withSacct, main, http, waited, exitCode>>

\* Until then a signal has its default effect.
SignalKills ==
  /\ Alive /\ ~Catches
  /\ Exit(Killed)
  /\ signalled' = 0
  /\ UNCHANGED <<sacct, cancelled, withSacct, http, waited>>

\* With --slurm.bin-path, a binary that is not there ends the program.
ValidateBinaries ==
  /\ main = "binaries"
  /\ \/ Exit(1)
     \/ main' = "register" /\ UNCHANGED exitCode
  /\ UNCHANGED <<sacct, cancelled, withSacct, http, waited, signalled>>

\* The constructor of sacct_efficiency, if it is enabled, starts the goroutine.
registerCollectors ==
  /\ main = "register"
  /\ main' = "mux"
  /\ UNCHANGED <<sacct, cancelled, withSacct, http, waited, exitCode, signalled>>

\* Building the routes can fail; runServer launches the goroutine that serves.
newMux ==
  /\ main = "mux"
  /\ \/ Exit(1) /\ UNCHANGED serve
     \/ main' = "select" /\ serve' = "serving" /\ UNCHANGED exitCode
  /\ UNCHANGED <<sacct, cancelled, withSacct, errCh, open, waited, signalled>>

Startup == ValidateBinaries \/ registerCollectors \/ newMux

Started == Alive /\ withSacct /\ main \notin {"binaries", "register"}

\* The background goroutine does its next step.
Refresh ==
  /\ Started
  /\ Sacct!Proceed
  /\ UNCHANGED <<withSacct, main, http, waited, exitCode, signalled>>

Request(c) ==
  /\ Alive
  /\ serve = "serving"
  /\ c \notin open
  /\ open' = open \cup {c}
  /\ UNCHANGED <<sacct, cancelled, withSacct, main, serve, errCh, waited, exitCode, signalled>>

Respond(c) ==
  /\ Alive
  /\ c \in open
  /\ open' = open \ {c}
  /\ UNCHANGED <<sacct, cancelled, withSacct, main, serve, errCh, waited, exitCode, signalled>>

\* Listening or accepting fails: ListenAndServe returns.
ServeFails ==
  /\ Alive
  /\ serve = "serving"
  /\ serve' = "failed"
  /\ UNCHANGED <<sacct, cancelled, withSacct, main, errCh, open, waited, exitCode, signalled>>

\* errCh <- serve(): the channel has room for one error.
SendError ==
  /\ Alive
  /\ serve \in {"failed", "closed"}
  /\ Len(errCh) < 1
  /\ errCh' = Append(errCh, serve)
  /\ serve' = "ended"
  /\ UNCHANGED <<sacct, cancelled, withSacct, main, open, waited, exitCode, signalled>>

\* Mutant: every end of the server is taken for an orderly one.
ServerStopped_nil ==
  /\ main = "select"
  /\ errCh # << >>
  /\ errCh' = Tail(errCh)
  /\ Exit(0)
  /\ UNCHANGED <<sacct, cancelled, withSacct, serve, open, waited, signalled>>

\* The server stopped on its own.
ServerStopped ==
  /\ main = "select"
  /\ errCh # << >>
  /\ errCh' = Tail(errCh)
  /\ Exit(IF Head(errCh) = "closed" THEN 0 ELSE 1)
  /\ UNCHANGED <<sacct, cancelled, withSacct, serve, open, waited, signalled>>

\* The signal is seen: Shutdown closes the listener, and serve() returns.
BeginShutdown ==
  /\ main = "select"
  /\ cancelled
  /\ main' = "shutdown"
  /\ waited' = 0
  /\ serve' = IF serve = "serving" THEN "closed" ELSE serve
  /\ UNCHANGED <<sacct, cancelled, withSacct, errCh, open, exitCode, signalled>>

\* Mutant: Shutdown is given a context that does not expire.
ShutdownExpired_never == FALSE

ShutdownExpired == waited = ShutdownTimeout

SacctExpired == waited = SacctWait

\* Mutant: Close in place of Shutdown.
EndShutdown_close ==
  /\ main = "shutdown"
  /\ waited' = 0
  /\ IF withSacct THEN main' = "sacct" /\ UNCHANGED exitCode ELSE Exit(0)
  /\ UNCHANGED <<sacct, cancelled, withSacct, http, signalled>>

\* Mutant: Shutdown waits for the requests only.
EndShutdown_forever ==
  /\ main = "shutdown"
  /\ open = {}
  /\ waited' = 0
  /\ IF withSacct THEN main' = "sacct" /\ UNCHANGED exitCode ELSE Exit(0)
  /\ UNCHANGED <<sacct, cancelled, withSacct, http, signalled>>

\* Shutdown returned: every request ended, or its context expired.
EndShutdown ==
  /\ main = "shutdown"
  /\ open = {} \/ ShutdownExpired
  /\ waited' = 0
  /\ IF withSacct THEN main' = "sacct" /\ UNCHANGED exitCode ELSE Exit(0)
  /\ UNCHANGED <<sacct, cancelled, withSacct, http, signalled>>

\* Mutant: main does not wait for the refresher.
EndSacctWait_none ==
  /\ main = "sacct"
  /\ Exit(0)
  /\ UNCHANGED <<sacct, cancelled, withSacct, http, waited, signalled>>

\* The refresher has ended, or time.After has fired.
EndSacctWait ==
  /\ main = "sacct"
  /\ done \/ SacctExpired
  /\ Exit(0)
  /\ UNCHANGED <<sacct, cancelled, withSacct, http, waited, signalled>>

RunServer == ServerStopped \/ BeginShutdown \/ EndShutdown \/ EndSacctWait

\* Main waits in its select, in Shutdown or for the refresher.
MainWaits ==
  \/ main = "select" /\ errCh = << >> /\ ~cancelled
  \/ main = "shutdown" /\ open # {} /\ ~ShutdownExpired
  \/ main = "sacct" /\ ~done /\ ~SacctExpired

Tick ==
  /\ MainWaits
  /\ serve \in {"serving", "ended"} \/ errCh # << >>
  /\ IF withSacct THEN Sacct!Tick ELSE UNCHANGED <<sacct, cancelled>>
  /\ waited' = IF main = "select" THEN 0 ELSE waited + 1
  /\ signalled' = IF signalled = NoSignal THEN NoSignal
                  ELSE Sacct!UpTo(signalled + 1, Longest)
  /\ UNCHANGED <<withSacct, main, http, exitCode>>

Next ==
  \/ Startup
  \/ Signal \/ SignalKills \/ Refresh
  \/ \E c \in Conns : Request(c) \/ Respond(c)
  \/ ServeFails \/ SendError
  \/ RunServer
  \/ Tick

Spec == Init /\ [][Next]_vars

\* Goroutines run and time passes.  Requests are not assumed to end.
LiveSpec ==
  /\ Spec
  /\ WF_vars(Startup)
  /\ WF_vars(RunServer)
  /\ WF_vars(Refresh)
  /\ SF_vars(Refresh /\ Sacct!OnCancelled)
  /\ WF_vars(SendError)
  /\ SF_vars(Tick)

-----------------------------------------------------------------------------
\* Whatever the requests and sacct do, main is gone within the two windows it
\* grants, counted from the signal.
BoundedShutdown == Alive => signalled <= ShutdownTimeout + SacctWait

\* A request is cut off only by the end of the window that Shutdown grants, or
\* by a server that failed.
RequestsFinish ==
  main \in {"sacct", "exited"} /\ exitCode # 1 =>
    open = {} \/ signalled >= ShutdownTimeout

\* A supervisor that sees status 0 knows that a signal asked for the end: a server
\* that fails on its own is never an orderly exit.  (Status 0 does not say that
\* the server was well: a failure that meets a signal is lost; see README.)  And
\* "the goroutine is finished before the process exits": a refresh is left behind
\* only if it has had the whole window, so that sacct was as slow as the window is
\* long, even when a tick is ready at the signal and starts one more sacct.  The
\* second is true of commands shorter than the interval.
OrderlyExit ==
  exitCode = 0 => /\ signalled # NoSignal
                  /\ withSacct => done \/ (SacctWait <= since /\ since <= Timeout)

\* A signal ends the process, even if a request never ends, and so does a
\* server that cannot serve.
ProcessEnds ==
  /\ cancelled ~> main = "exited"
  /\ serve = "failed" ~> main = "exited"
=============================================================================
