------------------------------- MODULE Execute -------------------------------
(***************************************************************************)
(* Execute of internal/collector/execute.go: runs a command under a        *)
(* deadline, collects what it writes and classifies the error.  Calls do   *)
(* not share anything but two counters that no property here is about: the *)
(* module is one call at a time, and SlurmInfo makes them.                 *)
(*                                                                         *)
(* os/exec and the command are external.  CombinedOutput starts the        *)
(* process, a goroutine that reads the pipe until everyone who can write   *)
(* to it has closed it, and one that kills the process at the deadline; it *)
(* returns when the process was reaped and the pipe is at its end.         *)
(* WaitDelay is left at zero: nothing else closes the pipe.                *)
(***************************************************************************)
EXTENDS Integers

CONSTANTS commandTimeout,
          MaxElapsed       \* bound of the model: the clock of a call stops there

ASSUME ExecuteAssumption == /\ commandTimeout \in Nat \ {0}
                            /\ MaxElapsed \in Nat

VARIABLES
  leaves,    \* commands may leave a descendant: --slurm.bin-path has wrappers
  pc,        \* where the call is
  process,   \* the process it started
  written,   \* everything the command had to say is in the pipe
  held,      \* a descendant of the process can still write to the pipe
  elapsed,   \* time since the call began
  err,       \* what CombinedOutput returns
  result     \* what Execute returned

callVars == <<leaves, pc, process, written, held, elapsed, err, result>>

Outputs  == {"none", "part", "whole"}
Errors   == {"nil", "start", "exit", "deadline"}
NoResult == [output |-> "none", err |-> "nil"]

CallTypeOK ==
  /\ pc \in {"idle", "running", "reading", "ended", "returned"}
  /\ process \in {"none", "running", "succeeded", "failed", "killed"}
  /\ {leaves, written, held} \subseteq BOOLEAN
  /\ elapsed \in 0 .. MaxElapsed
  /\ err \in Errors
  /\ result \in [output : Outputs, err : Errors]

CallInit ==
  /\ leaves \in BOOLEAN
  /\ pc = "idle"
  /\ process = "none"
  /\ written = FALSE
  /\ held = FALSE
  /\ elapsed = 0
  /\ err = "nil"
  /\ result = NoResult

-----------------------------------------------------------------------------
Goto(from, to) == pc = from /\ pc' = to

\* Mutant: a context with no deadline.
Expired_never == FALSE

\* context.WithTimeout(...) has expired.
Expired == elapsed >= commandTimeout

Start ==
  /\ Goto("idle", "running")
  /\ process' = "running"
  /\ UNCHANGED <<leaves, written, held, elapsed, err, result>>

\* The binary is not there, or cannot be started.
CannotStart ==
  /\ Goto("idle", "ended")
  /\ err' = "start"
  /\ UNCHANGED <<leaves, process, written, held, elapsed, result>>

\* The command.
Write ==
  /\ process = "running"
  /\ ~written
  /\ written' = TRUE
  /\ UNCHANGED <<leaves, pc, process, held, elapsed, err, result>>

\* The process is gone; a descendant of it may stay and keep the pipe.
Gone(how) ==
  /\ process = "running"
  /\ process' = how
  /\ held' \in {FALSE, leaves}
  /\ UNCHANGED <<leaves, pc, written, elapsed, err, result>>

Succeed == written /\ Gone("succeeded")

Crash == Gone("failed")

DescendantEnds ==
  /\ held
  /\ held' = FALSE
  /\ UNCHANGED <<leaves, pc, process, written, elapsed, err, result>>

\* CommandContext kills the process at the deadline.
Kill == Expired /\ Gone("killed")

\* Wait reaps it.  If the deadline passes between its exit and that, the kill
\* reaches a process that is not there any more, and the deadline is an error.
Reap ==
  /\ process # "running"
  /\ Goto("running", "reading")
  /\ \/ process = "succeeded" /\ err' = "nil"
     \/ process = "succeeded" /\ Expired /\ err' = "deadline"
     \/ process \in {"failed", "killed"} /\ err' = "exit"
  /\ UNCHANGED <<leaves, process, written, held, elapsed, result>>

\* The reader of the pipe comes to its end.
EndOfOutput ==
  /\ ~held
  /\ Goto("reading", "ended")
  /\ UNCHANGED <<leaves, process, written, held, elapsed, err, result>>

\* Mutant: the exit status is not looked at.
Classify_status ==
  /\ Goto("ended", "returned")
  /\ result' = IF err \in {"nil", "exit"}
               THEN [output |-> IF written THEN "whole" ELSE "part", err |-> "nil"]
               ELSE [output |-> "none", err |-> IF Expired THEN "deadline" ELSE err]
  /\ UNCHANGED <<leaves, process, written, held, elapsed, err>>

\* Mutant: the context is not looked at.
Classify_context ==
  /\ Goto("ended", "returned")
  /\ result' = IF err = "nil"
               THEN [output |-> IF written THEN "whole" ELSE "part", err |-> "nil"]
               ELSE [output |-> "none", err |-> err]
  /\ UNCHANGED <<leaves, process, written, held, elapsed, err>>

\* Execute looks at the error, and at its context if there is one.
Classify ==
  /\ Goto("ended", "returned")
  /\ result' = IF err = "nil"
               THEN [output |-> IF written THEN "whole" ELSE "part", err |-> "nil"]
               ELSE [output |-> "none", err |-> IF Expired THEN "deadline" ELSE err]
  /\ UNCHANGED <<leaves, process, written, held, elapsed, err>>

Return ==
  /\ Goto("returned", "idle")
  /\ process' = "none"
  /\ written' = FALSE
  /\ elapsed' = 0
  /\ err' = "nil"
  /\ result' = NoResult
  /\ UNCHANGED <<leaves, held>>

\* Time passes while the process runs, or while its output is awaited.
CallTick ==
  /\ elapsed < MaxElapsed
  /\ \/ process = "running" /\ ~Expired
     \/ pc = "reading" /\ held
  /\ elapsed' = elapsed + 1
  /\ UNCHANGED <<leaves, pc, process, written, held, err, result>>

Command == Write \/ Succeed \/ Crash \/ DescendantEnds

CallNext == \/ Start \/ CannotStart \/ Command
            \/ Kill \/ Reap \/ EndOfOutput \/ Classify \/ Return
            \/ CallTick

CallSpec == CallInit /\ [][CallNext]_callVars

-----------------------------------------------------------------------------
\* Output that comes with no error is all of the output of a command that
\* ended by itself: a parser is never given the first half of a command that
\* was killed, which would read as a cluster with fewer jobs or nodes.  And the
\* caller is told "deadline exceeded" of every command that was killed, and of
\* none that ended in time.
ResultIsTruthful ==
  pc = "returned" =>
    /\ result.err = "nil" => result.output = "whole" /\ process = "succeeded"
    /\ process = "killed" => result.err = "deadline"
    /\ result.err = "deadline" => elapsed >= commandTimeout

\* "Timeout for executing Slurm commands": a call does not outlive it.
WithinTimeout == pc # "idle" => elapsed <= commandTimeout

\* It does not if commands leave nothing behind: what TimedCache, Scrape and
\* SacctRefresher assume of the commands they run.
BoundedCommand == ~leaves => WithinTimeout
=============================================================================
