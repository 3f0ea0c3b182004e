------------------------------ MODULE SlurmInfo ------------------------------
(***************************************************************************)
(* SlurmInfoCollector of internal/collector/slurm_binary_info.go: the      *)
(* first scrape probes the version of every Slurm binary, through a        *)
(* sync.Once, and every scrape is served the series that it built.         *)
(*                                                                         *)
(* A probe is a call of Execute: the variables of that module are the call *)
(* in progress, and no two are ever in progress because of the once.       *)
(***************************************************************************)
EXTENDS Execute, FiniteSets

CONSTANTS Scrapes,            \* the scrapes that may be in progress at once
          requiredBinaries,   \* always in the series; sinfo is one of them
          optionalBinaries,   \* in the series if they are found
          Nobody

Binaries == requiredBinaries \cup optionalBinaries

Nothing  == "none"   \* no binary

ASSUME InfoAssumption == /\ Nobody \notin Scrapes
                         /\ "sinfo" \in requiredBinaries
                         /\ requiredBinaries \cap optionalBinaries = {}
                         /\ Nothing \notin Binaries

VARIABLES
  installed,  \* the binaries that are on the disk
  resolver,   \* resolveOnce: who runs resolve, Nobody before and after
  resolved,   \* resolveOnce: resolve has returned
  unprobed,   \* the binaries resolve has not come to yet
  asking,     \* the binary whose version resolve is asking for, if any
  answers,    \* what GetBinaryVersion has answered to this resolve
  series,     \* SlurmInfoCollector.series
  at,         \* where the Collect call of each scrape is
  sent        \* the series it has sent

once   == <<installed, resolver, resolved>>
probes == <<unprobed, asking, answers>>
info   == <<once, probes, series, at, sent>>
all    == <<callVars, info>>

\* GetBinaryVersion: a version, "unknown" for an output with none, or an error.
Versions == {"version", "unknown", "not_found"}
NotAsked == "not_asked"
NotBuilt == [b \in {} |-> "not_found"]
Series   == UNION {[B -> Versions] : B \in SUBSET Binaries}

InfoTypeOK ==
  /\ CallTypeOK
  /\ installed \subseteq Binaries
  /\ resolver \in Scrapes \cup {Nobody}
  /\ resolved \in BOOLEAN
  /\ unprobed \subseteq Binaries
  /\ asking \in Binaries \cup {Nothing}
  /\ answers \in [Binaries -> Versions \cup {NotAsked}]
  /\ series \in Series
  /\ at \in [Scrapes -> {"idle", "once", "send", "sent"}]
  /\ sent \in [Scrapes -> Series]

InfoInit ==
  /\ CallInit
  /\ installed \in SUBSET Binaries
  /\ resolver = Nobody
  /\ resolved = FALSE
  /\ unprobed = {}
  /\ asking = Nothing
  /\ answers = [b \in Binaries |-> NotAsked]
  /\ series = NotBuilt
  /\ at = [p \in Scrapes |-> "idle"]
  /\ sent = [p \in Scrapes |-> NotBuilt]

-----------------------------------------------------------------------------
Move(p, from, to) == at[p] = from /\ at' = [at EXCEPT ![p] = to]

Collect(p) ==
  /\ Move(p, "idle", "once")
  /\ UNCHANGED <<callVars, once, probes, series, sent>>

\* Mutant: a flag that is set at the beginning.
BeginResolve_early(p) ==
  /\ at[p] = "once"
  /\ ~resolved /\ resolver = Nobody
  /\ resolver' = p
  /\ resolved' = TRUE
  /\ unprobed' = Binaries
  /\ UNCHANGED <<callVars, installed, asking, answers, series, at, sent>>

\* The first call of resolveOnce.Do runs resolve; the others wait for it.
BeginResolve(p) ==
  /\ at[p] = "once"
  /\ ~resolved /\ resolver = Nobody
  /\ resolver' = p
  /\ unprobed' = Binaries
  /\ UNCHANGED <<callVars, installed, resolved, asking, answers, series, at, sent>>

\* sinfo is probed first, for two series, and the optional binaries last.
IsNext(b) ==
  /\ b \in unprobed
  /\ "sinfo" \in unprobed => b = "sinfo"
  /\ unprobed \cap requiredBinaries # {} => b \in requiredBinaries

\* GetBinaryVersion calls Execute, which may fail although the binary is there.
BeginProbe(p) ==
  /\ resolver = p
  /\ asking = Nothing
  /\ \E b \in unprobed :
       /\ IsNext(b)
       /\ b \in optionalBinaries => b \in installed
       /\ asking' = b
       /\ \/ b \in installed /\ Start
          \/ CannotStart
  /\ UNCHANGED <<once, unprobed, answers, series, at, sent>>

\* An optional binary is looked up on the disk first.
SkipProbe(p) ==
  /\ resolver = p
  /\ asking = Nothing
  /\ \E b \in optionalBinaries \ installed : IsNext(b) /\ unprobed' = unprobed \ {b}
  /\ UNCHANGED <<callVars, once, asking, answers, series, at, sent>>

\* While resolve waits for Execute: what the binary does, what the exporter
\* does, and the clock.
Executing == Command /\ UNCHANGED info
Handling  == (Kill \/ Reap \/ EndOfOutput \/ Classify) /\ UNCHANGED info
Passing   == CallTick /\ UNCHANGED info

\* The second word of the output is the version.
GetBinaryVersion ==
  IF result.err # "nil" THEN {"not_found"} ELSE {"version", "unknown"}

\* Mutant: the output of a command that failed is read all the same.
EndProbe_failed(p) ==
  /\ resolver = p
  /\ Return
  /\ \E answer \in {"version", "unknown"} : answers' = [answers EXCEPT ![asking] = answer]
  /\ asking' = Nothing
  /\ unprobed' = unprobed \ {asking}
  /\ UNCHANGED <<once, series, at, sent>>

EndProbe(p) ==
  /\ resolver = p
  /\ Return
  /\ \E answer \in GetBinaryVersion : answers' = [answers EXCEPT ![asking] = answer]
  /\ asking' = Nothing
  /\ unprobed' = unprobed \ {asking}
  /\ UNCHANGED <<once, series, at, sent>>

Emitted(b) == b \in requiredBinaries \/ answers[b] \in {"version", "unknown"}

\* Mutant: the once is not marked as done.
EndResolve_again(p) ==
  /\ resolver = p
  /\ unprobed = {}
  /\ series' = [b \in {c \in Binaries : Emitted(c)} |-> answers[b]]
  /\ resolver' = Nobody
  /\ UNCHANGED <<callVars, installed, resolved, probes, at, sent>>

EndResolve(p) ==
  /\ resolver = p
  /\ unprobed = {}
  /\ series' = [b \in {c \in Binaries : Emitted(c)} |-> answers[b]]
  /\ resolved' = TRUE
  /\ resolver' = Nobody
  /\ UNCHANGED <<callVars, installed, probes, at, sent>>

\* resolveOnce.Do returns.
PassOnce(p) ==
  /\ resolved
  /\ Move(p, "once", "send")
  /\ UNCHANGED <<callVars, once, probes, series, sent>>

Send(p) ==
  /\ Move(p, "send", "sent")
  /\ sent' = [sent EXCEPT ![p] = series]
  /\ UNCHANGED <<callVars, once, probes, series>>

Returned(p) ==
  /\ Move(p, "sent", "idle")
  /\ sent' = [sent EXCEPT ![p] = NotBuilt]
  /\ UNCHANGED <<callVars, once, probes, series>>

Progress(p) == \/ BeginResolve(p) \/ BeginProbe(p) \/ SkipProbe(p) \/ EndProbe(p)
               \/ EndResolve(p) \/ PassOnce(p) \/ Send(p) \/ Returned(p)

InfoNext == \/ \E p \in Scrapes : Collect(p) \/ Progress(p)
            \/ Executing \/ Handling \/ Passing

InfoSpec == InfoInit /\ [][InfoNext]_all

\* Goroutines run and time passes.  A command is not assumed to end.
LiveInfoSpec == /\ InfoSpec
                /\ \A p \in Scrapes : WF_all(Progress(p))
                /\ WF_all(Handling)
                /\ WF_all(Passing)

-----------------------------------------------------------------------------
\* However many scrapes come first at once, the binaries are probed once: all
\* scrapes export the same series, every required binary has one, and a
\* version is only told of a binary that is there.
SameSeries ==
  \A p, q \in Scrapes :
    at[p] = "sent" /\ at[q] = "sent" =>
      /\ sent[p] = sent[q]
      /\ requiredBinaries \subseteq DOMAIN sent[p]
      /\ \A b \in DOMAIN sent[p] : sent[p][b] # "not_found" => b \in installed

\* A scrape is answered, though it may have to wait for another's probes and
\* though a binary may hang, if no command leaves a descendant behind: one that
\* keeps the output of a probe open holds up this and every later scrape.
EveryCollectReturns ==
  \A p \in Scrapes : at[p] = "once" /\ ~leaves ~> at[p] = "idle"
=============================================================================
