----------------------------- MODULE ScrapeProofs -----------------------------
(***************************************************************************)
(* Proofs about Scrape for any selection of collectors, any number of      *)
(* scrapes and any TTL and timeout.  WalkInv is StatusTracker.Collect's    *)
(* loop invariant: what has been reported is true, what is being run is    *)
(* counted, what is to come is untouched.  Lineage relates the snapshots   *)
(* a scrape was given to the one the cache holds.                          *)
(***************************************************************************)
EXTENDS Scrape, FiniteSetTheorems, TLAPS

Statuses == {"idle", "pending", "replied"}
Replies  == [ok : BOOLEAN, data : Instant \cup {NoSnapshot}, at : Int]

\* The caches' part of the state, which TypeOK leaves to SnapshotRegister.
CachesTyped ==
  /\ jStatus \in [Procs -> Statuses] /\ jReply \in [Procs -> Replies]
  /\ nStatus \in [Procs -> Statuses] /\ nReply \in [Procs -> Replies]

\* A call of a cache is made by a collector that is at that step.
CallInv ==
  \A s \in Procs : /\ jStatus[s] # "idle" => At(s, "jobs")
                   /\ nStatus[s] # "idle" => At(s, "nodes")

Basics == TypeOK /\ CachesTyped /\ CallInv

\* What collector c has sent when it comes to step k.
SentBefore(c, k) == {i \in 1 .. k - 1 : tryCollect[c][i] = "emit"}
Sent(c, k)       == Cardinality(SentBefore(c, k))

ZeroTotals(s, c) == c = "queue" /\ zeros[s]

Reported(s, c) ==
  /\ success[s][c] \in {0, 1}
  /\ success[s][c] = 1 => emitted[s][c] = Stretches(c) /\ ~ZeroTotals(s, c)
  /\ success[s][c] = 0 => emitted[s][c] < Stretches(c)

Underway(s, c) ==
  /\ success[s][c] = NotReported
  /\ op[s] \in 1 .. Len(tryCollect[c]) + 1
  /\ emitted[s][c] = Sent(c, op[s])
  /\ succeeded[s] = 0 => op[s] <= Len(tryCollect[c])
  /\ ZeroTotals(s, c) => succeeded[s] = 0

Untouched(s, c) ==
  /\ success[s][c] = NotReported
  /\ emitted[s][c] = 0
  /\ got[s][c] = NoSnapshot
  /\ ~ZeroTotals(s, c)

\* What Collect's loop has done so far, at entry i of scrape s.
WalkAt(s, i) ==
  /\ i < pos[s] => Reported(s, entries[i])
  /\ i = pos[s] => Underway(s, entries[i])
  /\ i > pos[s] => Untouched(s, entries[i])

WalkInv == \A s \in Procs, i \in 1 .. Len(entries) : WalkAt(s, i)

\* A collector that was given a snapshot asked for one.
SourceInv ==
  \A s \in Procs, c \in Enabled : got[s][c] # NoSnapshot => Source(c) # {}

\* A snapshot d that scrape s was given is the one that the cache still holds,
\* or an older one; older than one that was taken in s only when s is longer
\* than the TTL.
Known(s, d, snapshot) ==
  /\ d <= snapshot
  /\ start[s] <= d => d = snapshot \/ now - start[s] >= TTL

Readers(source) == {c \in Enabled : Source(c) = {source}}

Lineage(source, snapshot, storedAt, status, reply) ==
  /\ snapshot <= storedAt
  /\ storedAt <= now
  /\ \A s \in Procs, c \in Readers(source) : Known(s, got[s][c], snapshot)
  /\ \A s \in Procs : status[s] = "replied" /\ reply[s].ok =>
       /\ Known(s, reply[s].data, snapshot)
       /\ \A c \in Readers(source) : got[s][c] <= reply[s].data
  /\ \A s \in Procs : status[s] = "replied" /\ ~reply[s].ok => reply[s].data = NoSnapshot
  /\ \A s \in Procs, i, j \in 1 .. Len(entries) :
       /\ i < j
       /\ {entries[i], entries[j]} \subseteq Readers(source)
       /\ got[s][entries[j]] # NoSnapshot
       => got[s][entries[i]] <= got[s][entries[j]]

JobsLineage  == Lineage("jobs", jSnapshot, jStoredAt, jStatus, jReply)
NodesLineage == Lineage("nodes", nSnapshot, nStoredAt, nStatus, nReply)

-----------------------------------------------------------------------------
\* An order of registration has every enabled collector in it, once.
LEMMA OrderFacts ==
  ASSUME entries \in Orders
  PROVE  /\ Len(entries) \in Nat
         /\ \A i \in 1 .. Len(entries) : entries[i] \in Enabled
         /\ \A i, j \in 1 .. Len(entries) : entries[i] = entries[j] => i = j
         /\ \A c \in Enabled : \E i \in 1 .. Len(entries) : entries[i] = c
<1> DEFINE n == Cardinality(Enabled)
<1>1. n \in Nat
  BY FS_CardinalityType, ScrapeAssumption
<1>2. /\ entries \in [1 .. n -> Enabled]
      /\ \A i, j \in 1 .. n : i # j => entries[i] # entries[j]
  BY DEF Orders, SetToSeqs
<1>3. Len(entries) = n
  BY <1>1, <1>2
<1>4. entries \in Injection(1 .. n, Enabled)
  BY <1>2 DEF Injection, IsInjective
<1>5. Cardinality(1 .. n) = n
  BY <1>1, FS_Interval
<1>6. entries \in Surjection(1 .. n, Enabled)
  BY <1>4, <1>5, FS_Injection, ScrapeAssumption
<1>. QED
  BY <1>1, <1>2, <1>3, <1>6 DEF Surjection

\* What the programs of the collectors have in common: the last step is to send,
\* and no collector reads both caches.
LEMMA ProgramFacts ==
  ASSUME NEW c \in Enabled
  PROVE  /\ tryCollect[c] \in Seq({"exec", "jobs", "nodes", "resolve", "emit"})
         /\ Len(tryCollect[c]) \in Nat \ {0}
         /\ tryCollect[c][Len(tryCollect[c])] = "emit"
         /\ Source(c) \in {{}, {"jobs"}, {"nodes"}}
<1>1. tryCollect[c] \in {<<"emit">>, <<"exec", "emit">>, <<"jobs", "emit">>,
                         <<"nodes", "emit">>, <<"resolve", "emit">>,
                         <<"exec", "exec", "jobs", "emit">>,
                         <<"exec", "emit", "nodes", "emit">>}
  BY ScrapeAssumption
     DEF tryCollect, accounts, users, partitions, nodes, reservation_nodes,
         queue, cpus, gpus, node, drain_reason, fairshare, licenses,
         reservations, scheduler, info, sacct_efficiency
<1>2. CASE tryCollect[c] = <<"emit">>
  BY <1>2 DEF Source
<1>3. CASE tryCollect[c] = <<"exec", "emit">>
  BY <1>3 DEF Source
<1>4. CASE tryCollect[c] = <<"jobs", "emit">>
  BY <1>4 DEF Source
<1>5. CASE tryCollect[c] = <<"nodes", "emit">>
  BY <1>5 DEF Source
<1>6. CASE tryCollect[c] = <<"exec", "exec", "jobs", "emit">>
  BY <1>6 DEF Source
<1>7. CASE tryCollect[c] = <<"exec", "emit", "nodes", "emit">>
  BY <1>7 DEF Source
<1>8. CASE tryCollect[c] = <<"resolve", "emit">>
  BY <1>8 DEF Source
<1>. QED
  BY <1>1, <1>2, <1>3, <1>4, <1>5, <1>6, <1>7, <1>8

\* The count of stretches goes up with each one sent, and is complete at the end
\* of the program and no sooner.
LEMMA SentFacts ==
  ASSUME NEW c \in Enabled
  PROVE  /\ Sent(c, 1) = 0
         /\ Sent(c, Len(tryCollect[c]) + 1) = Stretches(c)
         /\ \A k \in 1 .. Len(tryCollect[c]) :
              /\ Sent(c, k) \in Nat
              /\ Sent(c, k + 1) = IF tryCollect[c][k] = "emit" THEN Sent(c, k) + 1
                                                               ELSE Sent(c, k)
              /\ Sent(c, k) < Stretches(c)
<1> DEFINE n == Len(tryCollect[c])
<1>1. n \in Nat \ {0} /\ tryCollect[c][n] = "emit"
  BY ProgramFacts
<1>2. \A k \in 1 .. n + 1 : /\ IsFiniteSet(SentBefore(c, k))
                            /\ Cardinality(SentBefore(c, k)) \in Nat
  <2>1. SUFFICES ASSUME NEW k \in 1 .. n + 1 PROVE IsFiniteSet(SentBefore(c, k))
    BY FS_CardinalityType
  <2>2. IsFiniteSet(1 .. k - 1)
    BY <1>1, FS_Interval
  <2>. QED
    BY <2>2, FS_Subset DEF SentBefore
<1>3. Sent(c, 1) = 0
  <2>1. SentBefore(c, 1) = {}
    BY DEF SentBefore
  <2>. QED
    BY <2>1, FS_EmptySet DEF Sent
<1>4. Sent(c, n + 1) = Stretches(c)
  <2>1. SentBefore(c, n + 1) = {i \in 1 .. n : tryCollect[c][i] = "emit"}
    BY <1>1 DEF SentBefore
  <2>. QED
    BY <2>1 DEF Sent, Stretches
<1>5. ASSUME NEW k \in 1 .. n
      PROVE  /\ Sent(c, k) \in Nat
             /\ Sent(c, k + 1) = IF tryCollect[c][k] = "emit" THEN Sent(c, k) + 1
                                                              ELSE Sent(c, k)
             /\ Sent(c, k) < Stretches(c)
  <2>1. Sent(c, k) \in Nat
    BY <1>1, <1>2 DEF Sent
  <2>2. ASSUME tryCollect[c][k] = "emit" PROVE Sent(c, k + 1) = Sent(c, k) + 1
    <3>1. SentBefore(c, k + 1) = SentBefore(c, k) \cup {k} /\ k \notin SentBefore(c, k)
      BY <1>1, <2>2 DEF SentBefore
    <3>2. IsFiniteSet(SentBefore(c, k))
      BY <1>1, <1>2
    <3>3. Cardinality(SentBefore(c, k) \cup {k}) = Cardinality(SentBefore(c, k)) + 1
      BY <3>1, <3>2, FS_AddElement
    <3>. QED
      BY <3>1, <3>3 DEF Sent
  <2>3. ASSUME tryCollect[c][k] # "emit" PROVE Sent(c, k + 1) = Sent(c, k)
    <3>1. SentBefore(c, k + 1) = SentBefore(c, k)
      BY <1>1, <2>3 DEF SentBefore
    <3>. QED
      BY <3>1 DEF Sent
  <2>4. Sent(c, k) < Stretches(c)
    <3>1. /\ SentBefore(c, k) \in SUBSET SentBefore(c, n + 1)
          /\ n \in SentBefore(c, n + 1) /\ n \notin SentBefore(c, k)
      BY <1>1 DEF SentBefore
    <3>2. IsFiniteSet(SentBefore(c, n + 1)) /\ Sent(c, n + 1) \in Nat
      BY <1>1, <1>2 DEF Sent
    <3>3. Sent(c, k) <= Sent(c, n + 1) /\ Sent(c, k) # Sent(c, n + 1)
      BY <3>1, <3>2, FS_Subset DEF Sent
    <3>. QED
      BY <2>1, <3>2, <3>3, <1>4
  <2>. QED
    BY <2>1, <2>2, <2>3, <2>4
<1>. QED
  BY <1>3, <1>4, <1>5

-----------------------------------------------------------------------------
\* Seen from a cache, a scrape is a caller: nothing that it does reaches past the
\* interface that TimedCache implements, and no step moves both caches at once.
THEOREM CachesAreRegisters == Spec => Jobs!Spec /\ Nodes!Spec
<1>1. Init => Jobs!Init /\ Nodes!Init
  BY DEF Init
<1>2. [Next]_vars => [Jobs!Next]_(Jobs!regVars) /\ [Nodes!Next]_(Nodes!regVars)
  <2> SUFFICES ASSUME [Next]_vars
               PROVE  [Jobs!Next]_(Jobs!regVars) /\ [Nodes!Next]_(Nodes!regVars)
    OBVIOUS
  <2> USE DEF Jobs!regVars, Nodes!regVars, jVars, nVars
  <2>1. CASE UNCHANGED vars
    BY <2>1 DEF vars
  <2>2. CASE Tick
    BY <2>2 DEF Tick, Jobs!Next, Nodes!Next, Jobs!Pass, Nodes!Pass
  <2>3. ASSUME NEW s \in Procs, Jobs!Invoke(s) \/ Jobs!Respond(s) \/ Jobs!Finish(s)
        PROVE  Jobs!Next /\ UNCHANGED now
    BY <2>3 DEF Jobs!Next, Jobs!Invoke, Jobs!Respond, Jobs!Finish, Jobs!Serve,
                Jobs!Refresh, Jobs!Fail
  <2>4. ASSUME NEW s \in Procs, Nodes!Invoke(s) \/ Nodes!Respond(s) \/ Nodes!Finish(s)
        PROVE  Nodes!Next /\ UNCHANGED now
    BY <2>4 DEF Nodes!Next, Nodes!Invoke, Nodes!Respond, Nodes!Finish, Nodes!Serve,
                Nodes!Refresh, Nodes!Fail
  <2>5. ASSUME NEW s \in Procs, AskCache(s) \/ CacheAnswers(s) \/ FromCache(s)
        PROVE  [Jobs!Next]_(Jobs!regVars) /\ [Nodes!Next]_(Nodes!regVars)
    BY <2>3, <2>4, <2>5 DEF AskCache, CacheAnswers, FromCache
  <2>6. ASSUME NEW s \in Procs,
               \/ StartScrape(s) \/ ExecOK(s) \/ ExecFail(s) \/ Emit(s)
               \/ Panic(s) \/ Report(s) \/ EndScrape(s)
               \/ BeginResolve(s) \/ EndResolve(s) \/ PassOnce(s)
        PROVE  UNCHANGED <<now, jVars, nVars>>
    BY <2>6 DEF StartScrape, ExecOK, ExecFail, Emit, Panic, Report, EndScrape,
       BeginResolve, EndResolve, PassOnce
  <2>. QED
    BY <2>1, <2>2, <2>5, <2>6 DEF Next, Proceed
<1>. QED
  BY <1>1, <1>2, PTL DEF Spec, Jobs!Spec, Nodes!Spec

\* What one scrape s may do, whatever it is at: the disjuncts of Proceed that
\* leave the caches alone.
OwnStep(s) == \/ StartScrape(s) \/ ExecOK(s) \/ ExecFail(s) \/ Emit(s)
              \/ Panic(s) \/ Report(s) \/ EndScrape(s)
              \/ BeginResolve(s) \/ EndResolve(s) \/ PassOnce(s)

\* A call of the job cache is made, answered or taken back.
LEMMA JobsCalls ==
  ASSUME Basics, NEW s \in Procs,
         Jobs!Invoke(s) \/ Jobs!Respond(s) \/ Jobs!Finish(s)
  PROVE  /\ UNCHANGED now
         /\ {jSnapshot', jStoredAt'} \subseteq Instant \cup {-1}
         /\ jStatus' \in [Procs -> Statuses]
         /\ jReply' \in [Procs -> Replies]
         /\ \A t \in Procs \ {s} : jStatus'[t] = jStatus[t] /\ jReply'[t] = jReply[t]
<1> USE DEF Basics, TypeOK, CachesTyped, Statuses, Replies, Instant, NoSnapshot
<1>1. CASE Jobs!Invoke(s)
  BY <1>1 DEF Jobs!Invoke, Jobs!Become
<1>2. CASE Jobs!Serve(s)
  <2>1. [ok |-> TRUE, data |-> jSnapshot, at |-> now] \in Replies
    OBVIOUS
  <2>. QED
    BY <1>2, <2>1 DEF Jobs!Serve, Jobs!Become
<1>3. CASE Jobs!Refresh(s)
  <2>1. PICK t \in 0 .. now :
          /\ jSnapshot' = t
          /\ jReply' = [jReply EXCEPT ![s] = [ok |-> TRUE, data |-> t, at |-> now]]
    BY <1>3 DEF Jobs!Refresh
  <2>2. t \in Instant
    BY ScrapeAssumption
  <2>3. [ok |-> TRUE, data |-> t, at |-> now] \in Replies
    BY <2>2
  <2>. QED
    BY <1>3, <2>1, <2>2, <2>3 DEF Jobs!Refresh, Jobs!Become
<1>4. CASE Jobs!Fail(s)
  BY <1>4 DEF Jobs!Fail, Jobs!Become, Jobs!Never
<1>5. CASE Jobs!Finish(s)
  BY <1>5 DEF Jobs!Finish, Jobs!Become, Jobs!NoReply, Jobs!Never
<1>. QED
  BY <1>1, <1>2, <1>3, <1>4, <1>5 DEF Jobs!Respond

\* And so is one of the node cache.
LEMMA NodesCalls ==
  ASSUME Basics, NEW s \in Procs,
         Nodes!Invoke(s) \/ Nodes!Respond(s) \/ Nodes!Finish(s)
  PROVE  /\ UNCHANGED now
         /\ {nSnapshot', nStoredAt'} \subseteq Instant \cup {-1}
         /\ nStatus' \in [Procs -> Statuses]
         /\ nReply' \in [Procs -> Replies]
         /\ \A t \in Procs \ {s} : nStatus'[t] = nStatus[t] /\ nReply'[t] = nReply[t]
<1> USE DEF Basics, TypeOK, CachesTyped, Statuses, Replies, Instant, NoSnapshot
<1>1. CASE Nodes!Invoke(s)
  BY <1>1 DEF Nodes!Invoke, Nodes!Become
<1>2. CASE Nodes!Serve(s)
  <2>1. [ok |-> TRUE, data |-> nSnapshot, at |-> now] \in Replies
    OBVIOUS
  <2>. QED
    BY <1>2, <2>1 DEF Nodes!Serve, Nodes!Become
<1>3. CASE Nodes!Refresh(s)
  <2>1. PICK t \in 0 .. now :
          /\ nSnapshot' = t
          /\ nReply' = [nReply EXCEPT ![s] = [ok |-> TRUE, data |-> t, at |-> now]]
    BY <1>3 DEF Nodes!Refresh
  <2>2. t \in Instant
    BY ScrapeAssumption
  <2>3. [ok |-> TRUE, data |-> t, at |-> now] \in Replies
    BY <2>2
  <2>. QED
    BY <1>3, <2>1, <2>2, <2>3 DEF Nodes!Refresh, Nodes!Become
<1>4. CASE Nodes!Fail(s)
  BY <1>4 DEF Nodes!Fail, Nodes!Become, Nodes!Never
<1>5. CASE Nodes!Finish(s)
  BY <1>5 DEF Nodes!Finish, Nodes!Become, Nodes!NoReply, Nodes!Never
<1>. QED
  BY <1>1, <1>2, <1>3, <1>4, <1>5 DEF Nodes!Respond

\* Every step of a scrape keeps the types, and a call of a cache is under way only for the
\* collector that is at the step that makes it.
LEMMA BasicsStep == Basics /\ [Next]_vars => Basics'
<1> SUFFICES ASSUME Basics, [Next]_vars PROVE Basics'
  OBVIOUS
<1> USE DEF once
<1>a. /\ Len(entries) \in Nat
      /\ \A i \in 1 .. Len(entries) : entries[i] \in Enabled
  BY OrderFacts DEF Basics, TypeOK
<1>b. /\ now \in Instant /\ 0 \in Instant /\ 1 \in 0 .. Len(entries) + 1
      /\ \A s \in Procs : Running(s) => /\ Current(s) \in Enabled
                                        /\ pos[s] + 1 \in 0 .. Len(entries) + 1
  BY <1>a, ScrapeAssumption DEF Basics, TypeOK, Running, Current, Instant
<1>1. CASE UNCHANGED vars
  BY <1>1 DEF vars, jVars, nVars, samples, Basics, TypeOK, CachesTyped, CallInv, At,
     Running, Program, Current
<1>2. CASE Tick
  <2>1. now' \in Instant
    BY <1>2, <1>b, ScrapeAssumption DEF Tick, Jobs!Pass, Instant
  <2>. QED
    BY <1>2, <2>1 DEF Tick, Jobs!Pass, Nodes!Pass, samples, Basics, TypeOK, CachesTyped,
       CallInv, At, Running, Program, Current
<1>3. ASSUME NEW s \in Procs, OwnStep(s)
      PROVE  Basics'
  <2>1. UNCHANGED <<now, jVars, nVars, entries>>
    BY <1>3 DEF OwnStep, StartScrape, ExecOK, ExecFail, Emit, Panic, Report, EndScrape,
       BeginResolve, EndResolve, PassOnce
  <2>2. jStatus[s] = "idle" /\ nStatus[s] = "idle"
    BY <1>3, <1>a DEF OwnStep, StartScrape, ExecOK, ExecFail, Emit, Panic, Report,
       EndScrape, BeginResolve, EndResolve, PassOnce, Returned, Finished, Basics, CallInv, At, Running, TypeOK
  <2>3. ASSUME StartScrape(s) PROVE TypeOK'
    BY <2>3, <1>b, <2>1 DEF StartScrape, Enter, samples, jVars, nVars, Basics, TypeOK
  <2>4. ASSUME ExecOK(s) PROVE TypeOK'
    BY <2>4, <1>b, <2>1 DEF ExecOK, Continue, samples, jVars, nVars, Basics, TypeOK
  <2>5. ASSUME ExecFail(s) PROVE TypeOK'
    <3>1. zeros' \in [Procs -> BOOLEAN]
      BY Zenon, <2>5 DEF ExecFail, Basics, TypeOK
    <3>. QED
      BY <2>5, <3>1, <1>b, <2>1 DEF ExecFail, Abandon, jVars, nVars, Basics, TypeOK
  <2>6. ASSUME Emit(s) PROVE TypeOK'
    BY <2>6, <1>b, <2>1 DEF Emit, Continue, At, jVars, nVars, Basics, TypeOK
  <2>7. ASSUME Panic(s) PROVE TypeOK'
    BY <2>7, <1>b, <2>1 DEF Panic, Abandon, samples, jVars, nVars, Basics, TypeOK
  <2>8. ASSUME Report(s) PROVE TypeOK'
    BY <2>8, <1>b, <2>1 DEF Report, Returned, Enter, jVars, nVars, Basics, TypeOK
  <2>9. ASSUME EndScrape(s) PROVE TypeOK'
    BY <2>9, <1>b, <2>1 DEF EndScrape, jVars, nVars, Basics, TypeOK
  <2>a. ASSUME BeginResolve(s) PROVE TypeOK'
    <3>1. resolving' \subseteq Procs /\ since' \in [Procs -> Instant]
      BY <2>a, <1>b DEF BeginResolve, Basics, TypeOK
    <3>. QED
      BY <2>a, <3>1, <1>b, <2>1 DEF BeginResolve, samples, jVars, nVars, Basics, TypeOK
  <2>b. ASSUME EndResolve(s) PROVE TypeOK'
    BY <2>b, <1>b, <2>1 DEF EndResolve, samples, jVars, nVars, Basics, TypeOK
  <2>c. ASSUME PassOnce(s) PROVE TypeOK'
    BY <2>c, <1>b, <2>1 DEF PassOnce, Continue, samples, jVars, nVars, Basics, TypeOK
  <2>10. TypeOK'
    BY <1>3, <2>3, <2>4, <2>5, <2>6, <2>7, <2>8, <2>9, <2>a, <2>b, <2>c
       DEF OwnStep
  <2>11. CachesTyped'
    BY <2>1 DEF jVars, nVars, Basics, CachesTyped
  <2>12. \A t \in Procs \ {s} : /\ pos'[t] = pos[t] /\ op'[t] = op[t]
                                /\ succeeded'[t] = succeeded[t]
    BY <1>3 DEF OwnStep, StartScrape, ExecOK, ExecFail, Emit, Panic, Report, EndScrape,
       BeginResolve, EndResolve, PassOnce, Enter, Continue, Abandon, Basics, TypeOK
  <2>13. CallInv'
    BY <2>1, <2>2, <2>12 DEF jVars, nVars, Basics, CallInv, At, Running, Program, Current
  <2>. QED
    BY <2>10, <2>11, <2>13 DEF Basics
<1>4. ASSUME NEW s \in Procs, AskCache(s)
      PROVE  Basics'
  <2>1. CASE At(s, "jobs") /\ Jobs!Invoke(s) /\ UNCHANGED nVars
    BY <1>4, <2>1, JobsCalls DEF AskCache, Basics, TypeOK, CachesTyped, CallInv, At,
       Running, Program, Current, nVars, samples
  <2>2. CASE At(s, "nodes") /\ Nodes!Invoke(s) /\ UNCHANGED jVars
    BY <1>4, <2>2, NodesCalls DEF AskCache, Basics, TypeOK, CachesTyped, CallInv, At,
       Running, Program, Current, jVars, samples
  <2>. QED
    BY <1>4, <2>1, <2>2 DEF AskCache
<1>5. ASSUME NEW s \in Procs, CacheAnswers(s)
      PROVE  Basics'
  <2>1. CASE Jobs!Respond(s) /\ UNCHANGED nVars
    <3>1. jStatus[s] = "pending"
      BY <2>1 DEF Jobs!Respond, Jobs!Serve, Jobs!Refresh, Jobs!Fail, Jobs!Become
    <3>. QED
      BY <1>5, <2>1, <3>1, JobsCalls DEF CacheAnswers, Basics, TypeOK, CachesTyped,
         CallInv, At, Running, Program, Current, nVars, samples
  <2>2. CASE Nodes!Respond(s) /\ UNCHANGED jVars
    <3>1. nStatus[s] = "pending"
      BY <2>2 DEF Nodes!Respond, Nodes!Serve, Nodes!Refresh, Nodes!Fail, Nodes!Become
    <3>. QED
      BY <1>5, <2>2, <3>1, NodesCalls DEF CacheAnswers, Basics, TypeOK, CachesTyped,
         CallInv, At, Running, Program, Current, jVars, samples
  <2>. QED
    BY <1>5, <2>1, <2>2 DEF CacheAnswers
<1>6. ASSUME NEW s \in Procs, FromCache(s)
      PROVE  Basics'
  <2>1. \A t \in Procs \ {s} : /\ pos'[t] = pos[t] /\ op'[t] = op[t]
                               /\ succeeded'[t] = succeeded[t]
    BY <1>6 DEF FromCache, Received, Continue, Abandon, Basics, TypeOK
  <2>2. CASE Jobs!Finish(s) /\ Received(s, jReply[s]) /\ UNCHANGED nVars
    <3>1. At(s, "jobs") /\ jStatus'[s] = "idle" /\ nStatus[s] = "idle"
      BY <2>2 DEF Jobs!Finish, Jobs!Become, Basics, CallInv, CachesTyped, At
    <3>2. jReply[s].data \in Instant \cup {NoSnapshot} /\ Current(s) \in Enabled
      BY <3>1, <1>b DEF Basics, CachesTyped, Replies, At
    <3>3. UNCHANGED now /\ {jSnapshot', jStoredAt'} \subseteq Instant \cup {-1}
      BY <2>2, JobsCalls
    <3>4. TypeOK'
      <4>1. /\ op' \in [Procs -> Nat] /\ since' \in [Procs -> Instant]
            /\ succeeded' \in [Procs -> {0, 1}]
        <5>1. Continue(s) \/ Abandon(s)
          BY <2>2 DEF Received
        <5>2. CASE Continue(s)
          BY <5>2 DEF Continue, Basics, TypeOK
        <5>3. CASE Abandon(s)
          BY <5>3 DEF Abandon, Basics, TypeOK
        <5>. QED
          BY <5>1, <5>2, <5>3
      <4>2. got' \in [Procs -> [Enabled -> Instant \cup {NoSnapshot}]]
        BY <2>2, <3>2 DEF Received, Basics, TypeOK
      <4>. QED
        BY <1>6, <2>2, <3>3, <4>1, <4>2 DEF FromCache, nVars, Basics, TypeOK
    <3>5. CachesTyped'
      BY <2>2, JobsCalls DEF nVars, Basics, CachesTyped
    <3>6. CallInv'
      BY <1>6, <2>1, <2>2, <3>1, JobsCalls DEF FromCache, nVars, Basics, CallInv, At,
         Running, Program, Current
    <3>. QED
      BY <3>4, <3>5, <3>6 DEF Basics
  <2>3. CASE Nodes!Finish(s) /\ Received(s, nReply[s]) /\ UNCHANGED jVars
    <3>1. At(s, "nodes") /\ nStatus'[s] = "idle" /\ jStatus[s] = "idle"
      BY <2>3 DEF Nodes!Finish, Nodes!Become, Basics, CallInv, CachesTyped, At
    <3>2. nReply[s].data \in Instant \cup {NoSnapshot} /\ Current(s) \in Enabled
      BY <3>1, <1>b DEF Basics, CachesTyped, Replies, At
    <3>3. UNCHANGED now /\ {nSnapshot', nStoredAt'} \subseteq Instant \cup {-1}
      BY <2>3, NodesCalls
    <3>4. TypeOK'
      <4>1. /\ op' \in [Procs -> Nat] /\ since' \in [Procs -> Instant]
            /\ succeeded' \in [Procs -> {0, 1}]
        <5>1. Continue(s) \/ Abandon(s)
          BY <2>3 DEF Received
        <5>2. CASE Continue(s)
          BY <5>2 DEF Continue, Basics, TypeOK
        <5>3. CASE Abandon(s)
          BY <5>3 DEF Abandon, Basics, TypeOK
        <5>. QED
          BY <5>1, <5>2, <5>3
      <4>2. got' \in [Procs -> [Enabled -> Instant \cup {NoSnapshot}]]
        BY <2>3, <3>2 DEF Received, Basics, TypeOK
      <4>. QED
        BY <1>6, <2>3, <3>3, <4>1, <4>2 DEF FromCache, jVars, Basics, TypeOK
    <3>5. CachesTyped'
      BY <2>3, NodesCalls DEF jVars, Basics, CachesTyped
    <3>6. CallInv'
      BY <1>6, <2>1, <2>3, <3>1, NodesCalls DEF FromCache, jVars, Basics, CallInv, At,
         Running, Program, Current
    <3>. QED
      BY <3>4, <3>5, <3>6 DEF Basics
  <2>. QED
    BY <1>6, <2>2, <2>3 DEF FromCache
<1>. QED
  BY <1>1, <1>2, <1>3, <1>4, <1>5, <1>6 DEF Next, Proceed, OwnStep

\* No scrape has begun, and no cache has been asked.
LEMMA BasicsInit == Init => Basics
<1>1. ASSUME Init PROVE Len(entries) \in Nat
  BY <1>1, OrderFacts DEF Init
<1>2. ASSUME Init PROVE TypeOK
  <2>1. 0 \in Instant /\ -1 \in Instant \cup {-1} /\ 0 \in Nat
    BY ScrapeAssumption DEF Instant
  <2>2. /\ pos \in [Procs -> 0 .. Len(entries) + 1] /\ op \in [Procs -> Nat]
        /\ since \in [Procs -> Instant] /\ start \in [Procs -> Instant]
        /\ succeeded \in [Procs -> {0, 1}]
    BY <1>1, <1>2, <2>1 DEF Init
  <2>3. /\ got \in [Procs -> [Enabled -> Instant \cup {NoSnapshot}]]
        /\ emitted \in [Procs -> [Enabled -> Nat]]
        /\ success \in [Procs -> [Enabled -> {NotReported, 0, 1}]]
    BY <1>2, <2>1 DEF Init, NoSnapshot
  <2>4. zeros \in [Procs -> BOOLEAN] /\ resolving \subseteq Procs /\ resolved \in BOOLEAN
    BY <1>2 DEF Init
  <2>5. /\ now \in Instant /\ entries \in Orders
        /\ {jSnapshot, jStoredAt, nSnapshot, nStoredAt} \subseteq Instant \cup {-1}
    BY <1>2, <2>1 DEF Init, Jobs!Init, Nodes!Init, Jobs!Never, Nodes!Never
  <2>. QED
    BY <2>2, <2>3, <2>4, <2>5 DEF TypeOK
<1>3. ASSUME Init PROVE CachesTyped /\ CallInv
  BY <1>3 DEF Init, CachesTyped, CallInv, Statuses, Replies, Jobs!Init, Nodes!Init,
     Jobs!NoReply, Nodes!NoReply, Jobs!Never, Nodes!Never, NoSnapshot
<1>. QED
  BY <1>2, <1>3 DEF Basics

\* Every variable keeps its type, and a cache is only called by a collector that
\* is at the step that calls it: a scrape has one call under way at most.
THEOREM TypeCorrect == Spec => [](TypeOK /\ CachesTyped /\ CallInv)
BY BasicsInit, BasicsStep, PTL DEF Spec, Basics

-----------------------------------------------------------------------------
\* A step that leaves everything of a scrape alone leaves its walk alone.
LEMMA WalkSame ==
  ASSUME WalkInv, UNCHANGED entries, NEW t \in Procs,
         pos'[t] = pos[t], op'[t] = op[t], succeeded'[t] = succeeded[t],
         got'[t] = got[t], emitted'[t] = emitted[t],
         zeros'[t] = zeros[t], success'[t] = success[t]
  PROVE  \A i \in 1 .. Len(entries) : WalkAt(t, i)'
BY DEF WalkInv, WalkAt, Reported, Underway, Untouched, ZeroTotals

\* A collector goes on to its next step, having sent what it should have.
LEMMA WalkContinues ==
  ASSUME Basics, WalkInv, UNCHANGED <<entries, pos, success>>, NEW s \in Procs,
         Running(s), op[s] <= Len(Program(s)), Continue(s),
         succeeded[s] = 1,
         \A c \in Enabled \ {Current(s)} :
           got'[s][c] = got[s][c] /\ emitted'[s][c] = emitted[s][c],
         emitted'[s][Current(s)] = emitted[s][Current(s)]
            + (IF Program(s)[op[s]] = "emit" THEN 1 ELSE 0),
         zeros'[s] = zeros[s]
  PROVE  \A i \in 1 .. Len(entries) : WalkAt(s, i)'
<1> SUFFICES ASSUME NEW i \in 1 .. Len(entries) PROVE WalkAt(s, i)'
  OBVIOUS
<1>a. /\ Len(entries) \in Nat /\ pos[s] \in 1 .. Len(entries)
      /\ entries[i] \in Enabled
      /\ entries[i] = Current(s) => i = pos[s]
  BY OrderFacts DEF Basics, TypeOK, Running, Current
<1>b. op'[s] = op[s] + 1 /\ succeeded'[s] = succeeded[s]
  BY DEF Continue, Basics, TypeOK
<1>1. CASE i = pos[s]
  <2>1. Underway(s, entries[i])
    BY <1>1 DEF WalkInv, WalkAt
  <2>2. entries[i] = Current(s) /\ Len(Program(s)) \in Nat
    BY <1>1, <1>a, ProgramFacts DEF Current, Program
  <2>3. emitted'[s][entries[i]] = Sent(entries[i], op[s] + 1)
    BY <2>1, <2>2, <1>a, SentFacts DEF Underway, Program
  <2>4. Underway(s, entries[i])'
    BY <2>1, <2>2, <2>3, <1>b DEF Underway, ZeroTotals, Program
  <2>. QED
    BY <2>4, <1>1, <1>a DEF WalkAt
<1>2. CASE i # pos[s]
  BY <1>2, <1>a DEF WalkInv, WalkAt, Reported, Untouched, ZeroTotals
<1>. QED
  BY <1>1, <1>2

\* A collector stops, with something left to send.
LEMMA WalkAbandons ==
  ASSUME Basics, WalkInv, UNCHANGED <<entries, pos, success>>, NEW s \in Procs,
         Running(s), op[s] <= Len(Program(s)), Abandon(s),
         \A c \in Enabled \ {Current(s)} : got'[s][c] = got[s][c],
         emitted'[s] = emitted[s],
         zeros'[s] # zeros[s] => Current(s) = "queue"
  PROVE  \A i \in 1 .. Len(entries) : WalkAt(s, i)'
<1> SUFFICES ASSUME NEW i \in 1 .. Len(entries) PROVE WalkAt(s, i)'
  OBVIOUS
<1>a. /\ Len(entries) \in Nat /\ pos[s] \in 1 .. Len(entries)
      /\ entries[i] \in Enabled
      /\ entries[i] = Current(s) => i = pos[s]
  BY OrderFacts DEF Basics, TypeOK, Running, Current
<1>b. op'[s] = op[s] /\ succeeded'[s] = 0
  BY DEF Abandon, Basics, TypeOK
<1>1. CASE i = pos[s]
  <2>1. Underway(s, entries[i])
    BY <1>1 DEF WalkInv, WalkAt
  <2>2. Underway(s, entries[i])'
    BY <2>1, <1>1, <1>b DEF Underway, ZeroTotals, Program, Current
  <2>. QED
    BY <2>2, <1>1, <1>a DEF WalkAt
<1>2. CASE i # pos[s]
  <2>1. entries[i] # Current(s)
    BY <1>2, <1>a
  <2>2. ZeroTotals(s, entries[i])' <=> ZeroTotals(s, entries[i])
    BY <2>1 DEF ZeroTotals
  <2>. QED
    BY <1>2, <2>1, <2>2, <1>a DEF WalkInv, WalkAt, Reported, Untouched
<1>. QED
  BY <1>1, <1>2

\* Collect reports on a collector that is done, and goes to the next.
LEMMA WalkReports ==
  ASSUME Basics, WalkInv, NEW s \in Procs, Report(s)
  PROVE  \A i \in 1 .. Len(entries) : WalkAt(s, i)'
<1> SUFFICES ASSUME NEW i \in 1 .. Len(entries) PROVE WalkAt(s, i)'
  OBVIOUS
<1>a. /\ Len(entries) \in Nat /\ pos[s] \in 1 .. Len(entries)
      /\ entries[i] \in Enabled /\ Current(s) \in Enabled
      /\ entries[i] = Current(s) => i = pos[s]
  BY OrderFacts DEF Basics, TypeOK, Running, Current, Report, Returned
<1>b. /\ pos'[s] = pos[s] + 1 /\ op'[s] = 1 /\ succeeded'[s] = 1
      /\ success'[s][Current(s)] = succeeded[s]
      /\ \A c \in Enabled \ {Current(s)} : success'[s][c] = success[s][c]
      /\ UNCHANGED <<entries, got, emitted, zeros>>
  BY <1>a DEF Report, Enter, Basics, TypeOK
<1>1. CASE i < pos[s]
  BY <1>1, <1>a, <1>b DEF WalkInv, WalkAt, Reported, ZeroTotals
<1>2. CASE i = pos[s]
  <2>1. Underway(s, entries[i]) /\ entries[i] = Current(s)
    BY <1>2 DEF WalkInv, WalkAt, Current
  <2>2. /\ Len(Program(s)) \in Nat
        /\ Sent(Current(s), Len(Program(s)) + 1) = Stretches(Current(s))
        /\ \A k \in 1 .. Len(Program(s)) : Sent(Current(s), k) < Stretches(Current(s))
    BY <1>a, SentFacts, ProgramFacts DEF Program
  <2>3. succeeded[s] \in {0, 1} /\ (succeeded[s] = 0 \/ op[s] > Len(Program(s)))
    BY DEF Report, Returned, Basics, TypeOK
  <2>4. Reported(s, entries[i])'
    <3>1. CASE succeeded[s] = 0
      <4>1. /\ op[s] \in 1 .. Len(Program(s))
            /\ emitted[s][Current(s)] = Sent(Current(s), op[s])
        BY <2>1, <2>2, <3>1 DEF Underway, Program
      <4>. QED
        BY <2>1, <2>2, <4>1, <3>1, <1>b DEF Reported
    <3>2. CASE succeeded[s] = 1
      <4>1. /\ op[s] = Len(Program(s)) + 1
            /\ emitted[s][Current(s)] = Sent(Current(s), op[s])
            /\ ~ZeroTotals(s, Current(s))
        BY <2>1, <2>2, <2>3, <3>2 DEF Underway, Program
      <4>. QED
        BY <2>1, <2>2, <4>1, <3>2, <1>b DEF Reported, ZeroTotals
    <3>. QED
      BY <2>3, <3>1, <3>2
  <2>. QED
    BY <2>4, <1>2, <1>a, <1>b DEF WalkAt
<1>3. CASE i > pos[s]
  <2>1. Untouched(s, entries[i]) /\ entries[i] # Current(s)
    BY <1>3, <1>a DEF WalkInv, WalkAt
  <2>2. Untouched(s, entries[i])'
    BY <2>1, <1>a, <1>b DEF Untouched, ZeroTotals
  <2>3. Underway(s, entries[i])'
    BY <2>1, <2>2, <1>a, <1>b, SentFacts, ProgramFacts DEF Underway, Untouched, ZeroTotals
  <2>. QED
    BY <1>3, <1>a, <1>b, <2>2, <2>3 DEF WalkAt
<1>. QED
  BY <1>1, <1>2, <1>3, <1>a

\* Every step of Collect and of its collectors keeps the loop invariant.
LEMMA WalkStep == Basics /\ WalkInv /\ [Next]_vars => WalkInv'
<1> SUFFICES ASSUME Basics, WalkInv, [Next]_vars PROVE WalkInv'
  OBVIOUS
<1>a. UNCHANGED entries
  <2>1. ASSUME NEW s \in Procs, StartScrape(s) \/ Proceed(s) PROVE UNCHANGED entries
    BY <2>1 DEF Proceed, StartScrape, ExecOK, ExecFail, AskCache, CacheAnswers,
       FromCache, BeginResolve, EndResolve, PassOnce, Emit, Panic, Report, EndScrape
  <2>. QED
    BY <2>1 DEF Next, vars, Tick
<1>b. SUFFICES \A t \in Procs, i \in 1 .. Len(entries) : WalkAt(t, i)'
  BY <1>a DEF WalkInv, WalkAt
<1>1. CASE UNCHANGED vars \/ Tick
  BY <1>1, WalkSame DEF vars, samples, Tick
<1>2. ASSUME NEW s \in Procs, StartScrape(s) \/ Proceed(s), NEW t \in Procs \ {s}
      PROVE  \A i \in 1 .. Len(entries) : WalkAt(t, i)'
  BY <1>2, WalkSame DEF StartScrape, Proceed, ExecOK, ExecFail, AskCache,
     CacheAnswers, FromCache, BeginResolve, EndResolve, PassOnce, Emit, Panic,
     Report, EndScrape, Enter, Continue,
     Abandon, Received, samples, Basics, TypeOK
<1>3. ASSUME NEW s \in Procs, StartScrape(s) \/ Proceed(s)
      PROVE  \A i \in 1 .. Len(entries) : WalkAt(s, i)'
  <2>1. CASE StartScrape(s)
    BY <2>1, OrderFacts, SentFacts, ProgramFacts
       DEF StartScrape, Enter, samples, Basics, TypeOK, WalkInv, WalkAt, Untouched,
           Underway, ZeroTotals
  <2>a. Running(s) => Current(s) \in Enabled /\ emitted[s][Current(s)] \in Nat
    BY OrderFacts DEF Running, Current, Basics, TypeOK
  <2>2. CASE ExecOK(s)
    <3>1. emitted'[s][Current(s)] = emitted[s][Current(s)]
             + (IF Program(s)[op[s]] = "emit" THEN 1 ELSE 0)
      BY <2>2, <2>a DEF ExecOK, At, samples
    <3>. QED
      BY <2>2, <3>1, WalkContinues DEF ExecOK, At, samples
  <2>3. CASE ExecFail(s)
    BY <2>3, WalkAbandons DEF ExecFail, At, Basics, TypeOK
  <2>4. CASE AskCache(s) \/ CacheAnswers(s)
    BY <2>4, WalkSame DEF AskCache, CacheAnswers, samples
  <2>5. CASE FromCache(s)
    <3>1. PICK r : Received(s, r)
      BY <2>5 DEF FromCache
    <3>2. \/ At(s, "jobs") /\ UNCHANGED nVars
          \/ At(s, "nodes") /\ UNCHANGED jVars
      BY <2>5 DEF FromCache, Jobs!Finish, Nodes!Finish, Jobs!Become, Nodes!Become,
         Basics, CallInv
    <3>3. \A c \in Enabled \ {Current(s)} : got'[s][c] = got[s][c]
      BY <3>1, <3>2, <2>a DEF Received, At, Basics, TypeOK
    <3>4. emitted'[s][Current(s)] = emitted[s][Current(s)]
             + (IF Program(s)[op[s]] = "emit" THEN 1 ELSE 0)
      BY <2>5, <3>2, <2>a DEF FromCache, At
    <3>5. CASE Continue(s)
      BY <2>5, <3>2, <3>3, <3>4, <3>5, WalkContinues DEF FromCache, At
    <3>6. CASE Abandon(s)
      BY <2>5, <3>2, <3>3, <3>6, WalkAbandons DEF FromCache, At
    <3>. QED
      BY <3>1, <3>5, <3>6 DEF Received
  <2>6. CASE Emit(s)
    <3>1. emitted'[s][Current(s)] = emitted[s][Current(s)]
             + (IF Program(s)[op[s]] = "emit" THEN 1 ELSE 0)
      BY <2>6, <2>a DEF Emit, At, Basics, TypeOK
    <3>2. \A c \in Enabled \ {Current(s)} : emitted'[s][c] = emitted[s][c]
      BY <2>6, <2>a DEF Emit, Basics, TypeOK
    <3>. QED
      BY <2>6, <3>1, <3>2, WalkContinues DEF Emit, At
  <2>7. CASE Panic(s)
    BY <2>7, WalkAbandons DEF Panic, At, samples
  <2>8. CASE Report(s)
    BY <2>8, WalkReports
  <2>9. CASE EndScrape(s)
    BY <2>9, OrderFacts
       DEF EndScrape, Finished, Basics, TypeOK, WalkAt, Untouched, ZeroTotals
  <2>10. CASE BeginResolve(s) \/ EndResolve(s)
    BY <2>10, WalkSame DEF BeginResolve, EndResolve, samples
  <2>11. CASE PassOnce(s)
    <3>1. emitted'[s][Current(s)] = emitted[s][Current(s)]
             + (IF Program(s)[op[s]] = "emit" THEN 1 ELSE 0)
      BY <2>11, <2>a DEF PassOnce, At, samples
    <3>. QED
      BY <2>11, <3>1, WalkContinues DEF PassOnce, At, samples
  <2>. QED
    BY <1>3, <2>1, <2>2, <2>3, <2>4, <2>5, <2>6, <2>7, <2>8, <2>9, <2>10, <2>11
       DEF Proceed
<1>. QED
  BY <1>1, <1>2, <1>3 DEF Next

\* The loop invariant of Collect.
THEOREM WalkCorrect == Spec => []WalkInv
<1>1. Init => WalkInv
  <2>1. ASSUME Init PROVE /\ Len(entries) \in Nat
                          /\ \A i \in 1 .. Len(entries) : entries[i] \in Enabled
    BY <2>1, OrderFacts DEF Init
  <2>2. ASSUME Init, NEW s \in Procs, NEW i \in 1 .. Len(entries)
        PROVE  Untouched(s, entries[i]) /\ pos[s] = 0
    BY <2>1, <2>2 DEF Init, Untouched, ZeroTotals
  <2>3. ASSUME Init, NEW s \in Procs, NEW i \in 1 .. Len(entries) PROVE WalkAt(s, i)
    BY <2>1, <2>2, <2>3 DEF WalkAt
  <2>. QED
    BY <2>3 DEF WalkInv
<1>. QED
  BY <1>1, BasicsInit, BasicsStep, WalkStep, PTL DEF Spec

\* A success of 1 says that the collector sent everything, and none of it the
\* zero totals of a failed squeue; a 0, that something is missing.
THEOREM SuccessIsTruthfulHolds == Spec => []SuccessIsTruthful
<1>1. Basics /\ WalkInv => SuccessIsTruthful
  <2> SUFFICES ASSUME Basics, WalkInv, NEW s \in Procs, NEW c \in Enabled
               PROVE  /\ success[s][c] = 1 => /\ emitted[s][c] = Stretches(c)
                                              /\ ~(c = "queue" /\ zeros[s])
                      /\ success[s][c] = 0 => emitted[s][c] < Stretches(c)
    BY DEF SuccessIsTruthful
  <2>1. PICK i \in 1 .. Len(entries) : entries[i] = c
    BY OrderFacts DEF Basics, TypeOK
  <2>2. pos[s] \in Int /\ Len(entries) \in Nat
    BY OrderFacts DEF Basics, TypeOK
  <2>3. CASE i < pos[s]
    BY <2>1, <2>3 DEF WalkInv, WalkAt, Reported, ZeroTotals
  <2>4. CASE i >= pos[s]
    <3>1. success[s][c] = NotReported
      BY <2>1, <2>2, <2>4 DEF WalkInv, WalkAt, Underway, Untouched
    <3>. QED
      BY <3>1 DEF NotReported
  <2>. QED
    BY <2>2, <2>3, <2>4
<1>. QED
  BY <1>1, BasicsInit, BasicsStep, WalkCorrect, PTL DEF Spec

\* A scrape that is over has a status of every enabled collector, whatever failed
\* or panicked in it.
THEOREM EveryCollectorReportsHolds == Spec => []EveryCollectorReports
<1>1. Basics /\ WalkInv => EveryCollectorReports
  <2> SUFFICES ASSUME Basics, WalkInv, NEW s \in Procs, Finished(s), NEW c \in Enabled
               PROVE  success[s][c] # NotReported
    BY DEF EveryCollectorReports
  <2>1. PICK i \in 1 .. Len(entries) : entries[i] = c
    BY OrderFacts DEF Basics, TypeOK
  <2>2. i < pos[s]
    BY OrderFacts DEF Finished, Basics, TypeOK
  <2>. QED
    BY <2>1, <2>2 DEF WalkInv, WalkAt, Reported, NotReported
<1>. QED
  BY <1>1, BasicsInit, BasicsStep, WalkCorrect, PTL DEF Spec

-----------------------------------------------------------------------------
\* A scrape that is not running holds no snapshot.
LEMMA IdleHoldsNothing ==
  ASSUME Basics, WalkInv, NEW s \in Procs, pos[s] = 0
  PROVE  \A c \in Enabled : got[s][c] = NoSnapshot
<1> SUFFICES ASSUME NEW c \in Enabled PROVE got[s][c] = NoSnapshot
  OBVIOUS
<1>1. PICK i \in 1 .. Len(entries) : entries[i] = c
  BY OrderFacts DEF Basics, TypeOK
<1>2. Len(entries) \in Nat
  BY OrderFacts DEF Basics, TypeOK
<1>3. Untouched(s, entries[i])
  BY <1>2 DEF WalkInv, WalkAt
<1>. QED
  BY <1>1, <1>3 DEF Untouched

\* A collector that is at a step that reads a cache is a reader of that cache.
LEMMA CallerReads ==
  ASSUME Basics, WalkInv, NEW s \in Procs, NEW o \in {"jobs", "nodes"}, At(s, o)
  PROVE  Current(s) \in Enabled /\ o \in Source(Current(s))
<1>1. Running(s) /\ Current(s) \in Enabled
  BY OrderFacts DEF At, Running, Current, Basics, TypeOK
<1>2. op[s] \in 1 .. Len(Program(s))
  BY <1>1, ProgramFacts DEF At, Running, Current, Program, WalkInv, WalkAt, Underway
<1>. QED
  BY <1>1, <1>2 DEF At, Program, Source

\* Only a collector that reads a cache is given a snapshot by a step.
LEMMA SourceStep == Basics /\ WalkInv /\ SourceInv /\ [Next]_vars => SourceInv'
<1> SUFFICES ASSUME Basics, WalkInv, SourceInv, [Next]_vars PROVE SourceInv'
  OBVIOUS
<1>1. CASE UNCHANGED got
  BY <1>1 DEF SourceInv
<1>2. ASSUME NEW s \in Procs, FromCache(s) PROVE SourceInv'
  <2>1. PICK r : Received(s, r)
    BY <1>2 DEF FromCache
  <2>2. At(s, "jobs") \/ At(s, "nodes")
    BY <1>2 DEF FromCache, Jobs!Finish, Nodes!Finish, Jobs!Become, Nodes!Become,
       Basics, CallInv
  <2>3. Source(Current(s)) # {} /\ Current(s) \in Enabled
    BY <2>2, CallerReads
  <2>. QED
    BY <2>1, <2>3 DEF Received, SourceInv, Basics, TypeOK
<1>3. ASSUME NEW s \in Procs, EndScrape(s) PROVE SourceInv'
  BY <1>3 DEF EndScrape, SourceInv, Basics, TypeOK
<1>4. ASSUME NEW s \in Procs,
             \/ StartScrape(s) \/ ExecOK(s) \/ ExecFail(s) \/ AskCache(s)
             \/ CacheAnswers(s) \/ Emit(s) \/ Panic(s) \/ Report(s)
             \/ BeginResolve(s) \/ EndResolve(s) \/ PassOnce(s)
      PROVE  UNCHANGED got
  BY <1>4 DEF StartScrape, ExecOK, ExecFail, AskCache, CacheAnswers, Emit, Panic,
     Report, BeginResolve, EndResolve, PassOnce, samples
<1>. QED
  BY <1>1, <1>2, <1>3, <1>4 DEF Next, Proceed, Tick, vars, samples

\* What the scrapes were given by the job cache stays in line with what it holds.
LEMMA JobsLineageStep ==
  Basics /\ WalkInv /\ JobsLineage /\ [Next]_vars => JobsLineage'
<1> SUFFICES ASSUME Basics, WalkInv, JobsLineage, [Next]_vars PROVE JobsLineage'
  OBVIOUS
<1> USE DEF JobsLineage, Known, NoSnapshot
<1>a. /\ now \in Int /\ jSnapshot \in Int /\ jStoredAt \in Int /\ TTL \in Nat
      /\ jSnapshot >= -1 /\ jStoredAt >= -1
      /\ \A s \in Procs : /\ start[s] \in Nat
                          /\ \A c \in Enabled : got[s][c] \in Int /\ got[s][c] >= -1
                          /\ jReply[s].data \in Int
  <2>1. \A x \in Instant \cup {-1} : x \in Int /\ x >= -1
    BY ScrapeAssumption DEF Instant
  <2>2. TTL \in Nat /\ Instant \subseteq Nat
    BY ScrapeAssumption DEF Instant
  <2>3. /\ now \in Instant
        /\ jSnapshot \in Instant \cup {-1} /\ jStoredAt \in Instant \cup {-1}
    BY DEF Basics, TypeOK
  <2>4. \A s \in Procs : /\ start[s] \in Instant
                         /\ \A c \in Enabled : got[s][c] \in Instant \cup {-1}
                         /\ jReply[s].data \in Instant \cup {-1}
    BY DEF Basics, TypeOK, CachesTyped, Replies
  <2>. QED
    BY <2>1, <2>2, <2>3, <2>4
<1>b. Readers("jobs") \subseteq Enabled
  BY DEF Readers
<1>1. ASSUME UNCHANGED <<now, start, got, entries, jSnapshot, jStoredAt, jStatus, jReply>>
      PROVE  JobsLineage'
  BY <1>1 DEF Lineage, Readers
<1>2. CASE Tick
  BY <1>2, <1>a, <1>b DEF Tick, Jobs!Pass, samples, Lineage, Readers
<1>3. ASSUME NEW s \in Procs, StartScrape(s) \/ EndScrape(s)
      PROVE  JobsLineage'
  <2>1. jStatus[s] = "idle"
    BY <1>3 DEF StartScrape, EndScrape, Finished, Basics, CallInv, At, Running, TypeOK
  <2>2. UNCHANGED <<now, jSnapshot, jStoredAt, jStatus, jReply, entries>>
    BY <1>3 DEF StartScrape, EndScrape, jVars
  <2>3. \A t \in Procs \ {s} : got'[t] = got[t] /\ start'[t] = start[t]
    BY <1>3 DEF StartScrape, EndScrape, samples, Basics, TypeOK
  <2>4. start'[s] \in Nat
    BY <1>3, ScrapeAssumption DEF StartScrape, EndScrape, Basics, TypeOK, Instant
  <2>5. \A c \in Enabled : got'[s][c] = NoSnapshot
    BY <1>3, IdleHoldsNothing DEF StartScrape, EndScrape, samples, Basics, TypeOK
  <2>6. \A t \in Procs, c \in Enabled : Known(t, got[t][c], jSnapshot)
                                        => Known(t, got[t][c], jSnapshot)'
    BY <2>2, <2>3, <2>4, <2>5, <1>a
  <2>. QED
    BY <2>1, <2>2, <2>3, <2>5, <2>6, <1>a, <1>b DEF Lineage, Readers
<1>4. ASSUME NEW s \in Procs, Jobs!Invoke(s),
             UNCHANGED <<entries, start, samples>>
      PROVE  JobsLineage'
  BY <1>4 DEF Jobs!Invoke, Jobs!Become, samples, Lineage, Readers, Basics, CachesTyped
<1>5. ASSUME NEW s \in Procs, Jobs!Respond(s),
             UNCHANGED <<entries, start, samples>>
      PROVE  JobsLineage'
  <2>. USE DEF samples
  <2>1. CASE Jobs!Serve(s)
    BY <1>5, <2>1, <1>a, <1>b
       DEF Jobs!Serve, Jobs!Become, Lineage, Readers, Basics, CachesTyped
  <2>2. CASE Jobs!Refresh(s)
    <3>1. PICK t \in 0 .. now :
            /\ t >= jStoredAt
            /\ jSnapshot' = t
            /\ jReply' = [jReply EXCEPT ![s] = [ok |-> TRUE, data |-> t, at |-> now]]
      BY <2>2 DEF Jobs!Refresh
    <3>2. /\ jStatus' = [jStatus EXCEPT ![s] = "replied"]
          /\ jStoredAt' = now /\ now' = now
          /\ jStoredAt # -1 => now - jStoredAt >= TTL
      BY <2>2, <1>a DEF Jobs!Refresh, Jobs!Become, Jobs!Fresh, Jobs!Never
    <3>3. \A r \in Procs, d \in Int : Known(r, d, jSnapshot) => Known(r, d, t)
      BY <3>1, <3>2, <1>a DEF Lineage
    <3>4. /\ jReply'[s].ok /\ jReply'[s].data = t
          /\ \A r \in Procs \ {s} : jStatus'[r] = jStatus[r] /\ jReply'[r] = jReply[r]
      BY <3>1, <3>2 DEF Basics, CachesTyped
    <3>5. \A r \in Procs, c \in Readers("jobs") : Known(r, got[r][c], t) /\ got[r][c] <= t
      BY <3>3, <1>a, <1>b DEF Lineage
    <3>6. \A r \in Procs : jStatus'[r] = "replied" /\ jReply'[r].ok =>
            /\ Known(r, jReply'[r].data, t)
            /\ \A c \in Readers("jobs") : got[r][c] <= jReply'[r].data
      <4>1. Known(s, t, t)
        BY <3>1, <1>a
      <4>. QED
        BY <3>3, <3>4, <3>5, <4>1, <1>a DEF Lineage
    <3>7. \A r \in Procs : jStatus'[r] = "replied" /\ ~jReply'[r].ok =>
                            jReply'[r].data = NoSnapshot
      BY <3>4 DEF Lineage
    <3>. QED
      BY <1>5, <3>1, <3>2, <3>5, <3>6, <3>7, <1>a DEF Lineage, Readers
  <2>3. CASE Jobs!Fail(s)
    BY <1>5, <2>3, <1>a, <1>b
       DEF Jobs!Fail, Jobs!Become, Jobs!Never, Lineage, Readers, Basics, CachesTyped
  <2>. QED
    BY <1>5, <2>1, <2>2, <2>3 DEF Jobs!Respond
<1>6. ASSUME NEW s \in Procs, FromCache(s)
      PROVE  JobsLineage'
  <2>a. Running(s) => Current(s) \in Enabled
    BY OrderFacts DEF Running, Current, Basics, TypeOK
  <2>b. UNCHANGED <<start, entries>>
    BY <1>6 DEF FromCache
  <2>1. CASE Jobs!Finish(s) /\ Received(s, jReply[s]) /\ UNCHANGED nVars
    <3> DEFINE d == jReply[s].data
               c0 == Current(s)
    <3>1. /\ jStatus[s] = "replied" /\ jStatus'[s] = "idle"
          /\ \A t \in Procs \ {s} : jStatus'[t] = jStatus[t] /\ jReply'[t] = jReply[t]
          /\ UNCHANGED <<now, jSnapshot, jStoredAt>>
      BY <2>1 DEF Jobs!Finish, Jobs!Become, Basics, CachesTyped
    <3>2. Running(s) /\ c0 \in Enabled
      BY <3>1, <2>a DEF Basics, CallInv, At
    <3>3. /\ got'[s][c0] = d
          /\ \A c \in Enabled \ {c0} : got'[s][c] = got[s][c]
          /\ \A t \in Procs \ {s} : got'[t] = got[t]
      BY <2>1, <3>2 DEF Received, Basics, TypeOK
    <3>4. /\ Known(s, d, jSnapshot)
          /\ d # -1 => \A c \in Readers("jobs") : got[s][c] <= d
      BY <3>1, <1>a DEF Lineage
    <3>5. \A t \in Procs, c \in Readers("jobs") : Known(t, got[t][c], jSnapshot)'
      BY <3>1, <3>3, <3>4, <2>b, <1>b DEF Lineage, Readers
    <3>6. ASSUME NEW t \in Procs, NEW i \in 1 .. Len(entries), NEW j \in 1 .. Len(entries),
                 i < j, {entries[i], entries[j]} \subseteq Readers("jobs"),
                 got'[t][entries[j]] # -1
          PROVE  got'[t][entries[i]] <= got'[t][entries[j]]
      <4>1. got[t][entries[j]] # -1 => got[t][entries[i]] <= got[t][entries[j]]
        BY <3>6 DEF Lineage
      <4>2. CASE t # s
        BY <4>1, <4>2, <3>3, <3>6
      <4>3. CASE t = s /\ entries[j] = c0
        <5>1. entries[i] \in Readers("jobs") /\ entries[i] # c0
          <6>1. entries[i] # entries[j]
            BY <3>6, OrderFacts DEF Basics, TypeOK
          <6>. QED
            BY <6>1, <4>3, <3>6
        <5>2. got'[s][entries[j]] = d
          BY <4>3, <3>3
        <5>3. got'[s][entries[i]] = got[s][entries[i]]
          BY <5>1, <3>3, <1>b
        <5>. QED
          BY <5>1, <5>2, <5>3, <4>3, <3>4, <3>6
      <4>4. CASE t = s /\ entries[j] # c0
        <5>1. entries[j] \in Enabled /\ entries[i] \in Enabled
          BY <3>6, <1>b
        <5>2. got[s][entries[j]] # -1
          BY <5>1, <4>4, <3>3, <3>6
        <5>3. entries[i] # c0
          BY <5>2, <3>2, <3>6, OrderFacts
             DEF Basics, TypeOK, WalkInv, WalkAt, Untouched, Running, Current
        <5>. QED
          BY <5>1, <5>2, <5>3, <4>1, <4>4, <3>3
      <4>. QED
        BY <4>2, <4>3, <4>4
    <3>7. \A t \in Procs : jStatus'[t] = "replied" => t # s
      BY <3>1
    <3>. QED
      BY <3>1, <3>3, <3>5, <3>6, <3>7, <2>b DEF Lineage, Readers
  <2>2. CASE Nodes!Finish(s) /\ Received(s, nReply[s]) /\ UNCHANGED jVars
    <3>1. At(s, "nodes")
      BY <2>2 DEF Nodes!Finish, Nodes!Become, Basics, CallInv
    <3>2. Current(s) \in Enabled \ Readers("jobs")
      BY <3>1, CallerReads DEF Readers
    <3>3. \A t \in Procs, c \in Readers("jobs") : got'[t][c] = got[t][c]
      BY <2>2, <3>2, <1>b DEF Received, Basics, TypeOK
    <3>4. UNCHANGED <<now, jSnapshot, jStoredAt, jStatus, jReply>>
      BY <2>2, NodesCalls DEF jVars
    <3>. QED
      BY <3>3, <3>4, <2>b DEF Lineage, Readers
  <2>. QED
    BY <1>6, <2>1, <2>2 DEF FromCache
<1>7. ASSUME NEW s \in Procs,
             \/ ExecOK(s) \/ ExecFail(s) \/ Emit(s) \/ Panic(s) \/ Report(s)
             \/ BeginResolve(s) \/ EndResolve(s) \/ PassOnce(s)
             \/ Nodes!Invoke(s) /\ AskCache(s) /\ UNCHANGED jVars
             \/ Nodes!Respond(s) /\ CacheAnswers(s) /\ UNCHANGED jVars
      PROVE  UNCHANGED <<now, start, got, entries, jSnapshot, jStoredAt, jStatus, jReply>>
  BY <1>7, NodesCalls DEF ExecOK, ExecFail, Emit, Panic, Report, BeginResolve,
     EndResolve, PassOnce, AskCache, CacheAnswers, jVars, samples
<1>. QED
  BY <1>1, <1>2, <1>3, <1>4, <1>5, <1>6, <1>7
     DEF Next, Proceed, AskCache, CacheAnswers, vars, jVars, samples

\* What the scrapes were given by the node cache stays in line with what it holds.
LEMMA NodesLineageStep ==
  Basics /\ WalkInv /\ NodesLineage /\ [Next]_vars => NodesLineage'
<1> SUFFICES ASSUME Basics, WalkInv, NodesLineage, [Next]_vars PROVE NodesLineage'
  OBVIOUS
<1> USE DEF NodesLineage, Known, NoSnapshot
<1>a. /\ now \in Int /\ nSnapshot \in Int /\ nStoredAt \in Int /\ TTL \in Nat
      /\ nSnapshot >= -1 /\ nStoredAt >= -1
      /\ \A s \in Procs : /\ start[s] \in Nat
                          /\ \A c \in Enabled : got[s][c] \in Int /\ got[s][c] >= -1
                          /\ nReply[s].data \in Int
  <2>1. \A x \in Instant \cup {-1} : x \in Int /\ x >= -1
    BY ScrapeAssumption DEF Instant
  <2>2. TTL \in Nat /\ Instant \subseteq Nat
    BY ScrapeAssumption DEF Instant
  <2>3. /\ now \in Instant
        /\ nSnapshot \in Instant \cup {-1} /\ nStoredAt \in Instant \cup {-1}
    BY DEF Basics, TypeOK
  <2>4. \A s \in Procs : /\ start[s] \in Instant
                         /\ \A c \in Enabled : got[s][c] \in Instant \cup {-1}
                         /\ nReply[s].data \in Instant \cup {-1}
    BY DEF Basics, TypeOK, CachesTyped, Replies
  <2>. QED
    BY <2>1, <2>2, <2>3, <2>4
<1>b. Readers("nodes") \subseteq Enabled
  BY DEF Readers
<1>1. ASSUME UNCHANGED <<now, start, got, entries, nSnapshot, nStoredAt, nStatus, nReply>>
      PROVE  NodesLineage'
  BY <1>1 DEF Lineage, Readers
<1>2. CASE Tick
  BY <1>2, <1>a, <1>b DEF Tick, Nodes!Pass, samples, Lineage, Readers
<1>3. ASSUME NEW s \in Procs, StartScrape(s) \/ EndScrape(s)
      PROVE  NodesLineage'
  <2>1. nStatus[s] = "idle"
    BY <1>3 DEF StartScrape, EndScrape, Finished, Basics, CallInv, At, Running, TypeOK
  <2>2. UNCHANGED <<now, nSnapshot, nStoredAt, nStatus, nReply, entries>>
    BY <1>3 DEF StartScrape, EndScrape, nVars
  <2>3. \A t \in Procs \ {s} : got'[t] = got[t] /\ start'[t] = start[t]
    BY <1>3 DEF StartScrape, EndScrape, samples, Basics, TypeOK
  <2>4. start'[s] \in Nat
    BY <1>3, ScrapeAssumption DEF StartScrape, EndScrape, Basics, TypeOK, Instant
  <2>5. \A c \in Enabled : got'[s][c] = NoSnapshot
    BY <1>3, IdleHoldsNothing DEF StartScrape, EndScrape, samples, Basics, TypeOK
  <2>6. \A t \in Procs, c \in Enabled : Known(t, got[t][c], nSnapshot)
                                        => Known(t, got[t][c], nSnapshot)'
    BY <2>2, <2>3, <2>4, <2>5, <1>a
  <2>. QED
    BY <2>1, <2>2, <2>3, <2>5, <2>6, <1>a, <1>b DEF Lineage, Readers
<1>4. ASSUME NEW s \in Procs, Nodes!Invoke(s),
             UNCHANGED <<entries, start, samples>>
      PROVE  NodesLineage'
  BY <1>4 DEF Nodes!Invoke, Nodes!Become, samples, Lineage, Readers, Basics, CachesTyped
<1>5. ASSUME NEW s \in Procs, Nodes!Respond(s),
             UNCHANGED <<entries, start, samples>>
      PROVE  NodesLineage'
  <2>. USE DEF samples
  <2>1. CASE Nodes!Serve(s)
    BY <1>5, <2>1, <1>a, <1>b
       DEF Nodes!Serve, Nodes!Become, Lineage, Readers, Basics, CachesTyped
  <2>2. CASE Nodes!Refresh(s)
    <3>1. PICK t \in 0 .. now :
            /\ t >= nStoredAt
            /\ nSnapshot' = t
            /\ nReply' = [nReply EXCEPT ![s] = [ok |-> TRUE, data |-> t, at |-> now]]
      BY <2>2 DEF Nodes!Refresh
    <3>2. /\ nStatus' = [nStatus EXCEPT ![s] = "replied"]
          /\ nStoredAt' = now /\ now' = now
          /\ nStoredAt # -1 => now - nStoredAt >= TTL
      BY <2>2, <1>a DEF Nodes!Refresh, Nodes!Become, Nodes!Fresh, Nodes!Never
    <3>3. \A r \in Procs, d \in Int : Known(r, d, nSnapshot) => Known(r, d, t)
      BY <3>1, <3>2, <1>a DEF Lineage
    <3>4. /\ nReply'[s].ok /\ nReply'[s].data = t
          /\ \A r \in Procs \ {s} : nStatus'[r] = nStatus[r] /\ nReply'[r] = nReply[r]
      BY <3>1, <3>2 DEF Basics, CachesTyped
    <3>5. \A r \in Procs, c \in Readers("nodes") : Known(r, got[r][c], t) /\ got[r][c] <= t
      BY <3>3, <1>a, <1>b DEF Lineage
    <3>6. \A r \in Procs : nStatus'[r] = "replied" /\ nReply'[r].ok =>
            /\ Known(r, nReply'[r].data, t)
            /\ \A c \in Readers("nodes") : got[r][c] <= nReply'[r].data
      <4>1. Known(s, t, t)
        BY <3>1, <1>a
      <4>. QED
        BY <3>3, <3>4, <3>5, <4>1, <1>a DEF Lineage
    <3>7. \A r \in Procs : nStatus'[r] = "replied" /\ ~nReply'[r].ok =>
                            nReply'[r].data = NoSnapshot
      BY <3>4 DEF Lineage
    <3>. QED
      BY <1>5, <3>1, <3>2, <3>5, <3>6, <3>7, <1>a DEF Lineage, Readers
  <2>3. CASE Nodes!Fail(s)
    BY <1>5, <2>3, <1>a, <1>b
       DEF Nodes!Fail, Nodes!Become, Nodes!Never, Lineage, Readers, Basics, CachesTyped
  <2>. QED
    BY <1>5, <2>1, <2>2, <2>3 DEF Nodes!Respond
<1>6. ASSUME NEW s \in Procs, FromCache(s)
      PROVE  NodesLineage'
  <2>a. Running(s) => Current(s) \in Enabled
    BY OrderFacts DEF Running, Current, Basics, TypeOK
  <2>b. UNCHANGED <<start, entries>>
    BY <1>6 DEF FromCache
  <2>1. CASE Nodes!Finish(s) /\ Received(s, nReply[s]) /\ UNCHANGED jVars
    <3> DEFINE d == nReply[s].data
               c0 == Current(s)
    <3>1. /\ nStatus[s] = "replied" /\ nStatus'[s] = "idle"
          /\ \A t \in Procs \ {s} : nStatus'[t] = nStatus[t] /\ nReply'[t] = nReply[t]
          /\ UNCHANGED <<now, nSnapshot, nStoredAt>>
      BY <2>1 DEF Nodes!Finish, Nodes!Become, Basics, CachesTyped
    <3>2. Running(s) /\ c0 \in Enabled
      BY <3>1, <2>a DEF Basics, CallInv, At
    <3>3. /\ got'[s][c0] = d
          /\ \A c \in Enabled \ {c0} : got'[s][c] = got[s][c]
          /\ \A t \in Procs \ {s} : got'[t] = got[t]
      BY <2>1, <3>2 DEF Received, Basics, TypeOK
    <3>4. /\ Known(s, d, nSnapshot)
          /\ d # -1 => \A c \in Readers("nodes") : got[s][c] <= d
      BY <3>1, <1>a DEF Lineage
    <3>5. \A t \in Procs, c \in Readers("nodes") : Known(t, got[t][c], nSnapshot)'
      BY <3>1, <3>3, <3>4, <2>b, <1>b DEF Lineage, Readers
    <3>6. ASSUME NEW t \in Procs, NEW i \in 1 .. Len(entries), NEW j \in 1 .. Len(entries),
                 i < j, {entries[i], entries[j]} \subseteq Readers("nodes"),
                 got'[t][entries[j]] # -1
          PROVE  got'[t][entries[i]] <= got'[t][entries[j]]
      <4>1. got[t][entries[j]] # -1 => got[t][entries[i]] <= got[t][entries[j]]
        BY <3>6 DEF Lineage
      <4>2. CASE t # s
        BY <4>1, <4>2, <3>3, <3>6
      <4>3. CASE t = s /\ entries[j] = c0
        <5>1. entries[i] \in Readers("nodes") /\ entries[i] # c0
          <6>1. entries[i] # entries[j]
            BY <3>6, OrderFacts DEF Basics, TypeOK
          <6>. QED
            BY <6>1, <4>3, <3>6
        <5>2. got'[s][entries[j]] = d
          BY <4>3, <3>3
        <5>3. got'[s][entries[i]] = got[s][entries[i]]
          BY <5>1, <3>3, <1>b
        <5>. QED
          BY <5>1, <5>2, <5>3, <4>3, <3>4, <3>6
      <4>4. CASE t = s /\ entries[j] # c0
        <5>1. entries[j] \in Enabled /\ entries[i] \in Enabled
          BY <3>6, <1>b
        <5>2. got[s][entries[j]] # -1
          BY <5>1, <4>4, <3>3, <3>6
        <5>3. entries[i] # c0
          BY <5>2, <3>2, <3>6, OrderFacts
             DEF Basics, TypeOK, WalkInv, WalkAt, Untouched, Running, Current
        <5>. QED
          BY <5>1, <5>2, <5>3, <4>1, <4>4, <3>3
      <4>. QED
        BY <4>2, <4>3, <4>4
    <3>7. \A t \in Procs : nStatus'[t] = "replied" => t # s
      BY <3>1
    <3>. QED
      BY <3>1, <3>3, <3>5, <3>6, <3>7, <2>b DEF Lineage, Readers
  <2>2. CASE Jobs!Finish(s) /\ Received(s, jReply[s]) /\ UNCHANGED nVars
    <3>1. At(s, "jobs")
      BY <2>2 DEF Jobs!Finish, Jobs!Become, Basics, CallInv
    <3>2. Current(s) \in Enabled \ Readers("nodes")
      BY <3>1, CallerReads DEF Readers
    <3>3. \A t \in Procs, c \in Readers("nodes") : got'[t][c] = got[t][c]
      BY <2>2, <3>2, <1>b DEF Received, Basics, TypeOK
    <3>4. UNCHANGED <<now, nSnapshot, nStoredAt, nStatus, nReply>>
      BY <2>2, JobsCalls DEF nVars
    <3>. QED
      BY <3>3, <3>4, <2>b DEF Lineage, Readers
  <2>. QED
    BY <1>6, <2>1, <2>2 DEF FromCache
<1>7. ASSUME NEW s \in Procs,
             \/ ExecOK(s) \/ ExecFail(s) \/ Emit(s) \/ Panic(s) \/ Report(s)
             \/ BeginResolve(s) \/ EndResolve(s) \/ PassOnce(s)
             \/ Jobs!Invoke(s) /\ AskCache(s) /\ UNCHANGED nVars
             \/ Jobs!Respond(s) /\ CacheAnswers(s) /\ UNCHANGED nVars
      PROVE  UNCHANGED <<now, start, got, entries, nSnapshot, nStoredAt, nStatus, nReply>>
  BY <1>7, JobsCalls DEF ExecOK, ExecFail, Emit, Panic, Report, BeginResolve,
     EndResolve, PassOnce, AskCache, CacheAnswers, nVars, samples
<1>. QED
  BY <1>1, <1>2, <1>3, <1>4, <1>5, <1>6, <1>7
     DEF Next, Proceed, AskCache, CacheAnswers, vars, nVars, samples

\* A scrape's snapshots are in line with both caches, and were asked for.
THEOREM LineageCorrect == Spec => [](SourceInv /\ JobsLineage /\ NodesLineage)
<1>1. Init => Basics /\ SourceInv /\ JobsLineage /\ NodesLineage
  <2>1. ASSUME Init
        PROVE  /\ Len(entries) \in Nat
               /\ \A i \in 1 .. Len(entries) : entries[i] \in Enabled
    BY <2>1, OrderFacts DEF Init
  <2>2. Init => Basics /\ SourceInv
    BY BasicsInit DEF Init, SourceInv
  <2>3. ASSUME Init PROVE JobsLineage
    BY <2>1, <2>3, ScrapeAssumption
       DEF Init, Jobs!Init, Jobs!Never, NoSnapshot, JobsLineage, Lineage, Known, Readers
  <2>4. ASSUME Init PROVE NodesLineage
    BY <2>1, <2>4, ScrapeAssumption
       DEF Init, Nodes!Init, Nodes!Never, NoSnapshot, NodesLineage, Lineage, Known, Readers
  <2>. QED
    BY <2>2, <2>3, <2>4
<1>. QED
  BY <1>1, BasicsStep, WalkCorrect, SourceStep, JobsLineageStep, NodesLineageStep,
     PTL DEF Spec

\* The collectors of a scrape that read one cache describe one instant of the
\* cluster, for as long as the scrape is shorter than the TTL; and none is given
\* an older snapshot than one that ran before it.
THEOREM SameSnapshotHolds == Spec => []SameSnapshot
<1>1. Basics /\ SourceInv /\ JobsLineage /\ NodesLineage => SameSnapshot
  <2> SUFFICES ASSUME Basics, SourceInv, JobsLineage, NodesLineage,
                      NEW s \in Procs, NEW c \in Enabled, NEW d \in Enabled,
                      Source(c) = Source(d),
                      got[s][c] # NoSnapshot, got[s][d] # NoSnapshot
               PROVE  /\ start[s] <= got[s][c] /\ got[s][c] < got[s][d]
                           => now - start[s] >= TTL
                      /\ Precedes(c, d) => got[s][c] <= got[s][d]
    BY DEF SameSnapshot
  <2>1. \E source \in {"jobs", "nodes"} : {c, d} \subseteq Readers(source)
    BY ProgramFacts DEF SourceInv, Readers
  <2>2. {now, start[s], got[s][c], got[s][d], jSnapshot, nSnapshot} \subseteq Int
    BY DEF Basics, TypeOK, Instant, NoSnapshot
  <2>3. ASSUME {c, d} \subseteq Readers("jobs")
        PROVE  /\ Known(s, got[s][c], jSnapshot) /\ Known(s, got[s][d], jSnapshot)
               /\ Precedes(c, d) => got[s][c] <= got[s][d]
    BY <2>3 DEF JobsLineage, Lineage, Precedes
  <2>4. ASSUME {c, d} \subseteq Readers("nodes")
        PROVE  /\ Known(s, got[s][c], nSnapshot) /\ Known(s, got[s][d], nSnapshot)
               /\ Precedes(c, d) => got[s][c] <= got[s][d]
    BY <2>4 DEF NodesLineage, Lineage, Precedes
  <2>. QED
    BY <2>1, <2>2, <2>3, <2>4 DEF Known
<1>. QED
  BY <1>1, TypeCorrect, LineageCorrect, PTL DEF Basics

=============================================================================
