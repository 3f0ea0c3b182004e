------------------------------ MODULE MCScrape ------------------------------
(* Instances of Scrape for TLC.                                            *)
EXTENDS Scrape, TLC

Scrapes == Permutations(Procs)

\* What a scrape may wait for, a command, a cache and the probes of another scrape,
\* with a partial emission and the zero totals; info in the middle, so that a
\* scrape that comes to it may find the other one before, in or after its probes.
Mixed     == {"nodes", "queue", "info"}
MixedInit == Init /\ entries = <<"nodes", "info", "queue">>
MixedSpec == MixedInit /\ [][Next]_vars /\ \A s \in Procs : WF_vars(Proceed(s))

\* Two readers of the job snapshot, one of them after commands of its own.
TwoReaders == {"users", "partitions"}

\* A reader of each cache among collectors that run commands of their own.
Periodic == {"users", "cpus", "gpus"}
=============================================================================
