---------------------------- MODULE ParserProofs ---------------------------
(***************************************************************************)
(* Proofs about what the other collectors make of the listings: that no    *)
(* finished job is lost to one missed refresh, for any interval, hour,     *)
(* lookback and instant at which the clocks are set back, and that every   *)
(* job listed is counted once, whatever order its lines come in            *)
(* (SacctEfficiency);                                                      *)
(* that what different collectors say of nodes, reasons, reservations and  *)
(* GPUs agrees and counts everything once (NodeInventory), for any         *)
(* cluster; and that the fairshare series are valid and complete           *)
(* (FairShare), for any associations.                                      *)
(*                                                                         *)
(* The lemmas about sums and sequences are those of CountingProofs.        *)
(***************************************************************************)
EXTENDS SacctEfficiency, NodeInventory, FairShare, CountingProofs

-----------------------------------------------------------------------------
(* Remainders, for the ticks of SacctEfficiency.                           *)

\* A multiple of n is at least n above each smaller one.
LEMMA Multiples ==
  ASSUME NEW n \in Nat \ {0}, NEW a \in Int, NEW b \in Int, a > b
  PROVE  n * a >= n * b + n
<1>1. PICK k \in Nat : a = b + 1 + k
  <2>1. a - b - 1 \in Nat /\ a = b + 1 + (a - b - 1)
    OBVIOUS
  <2>. QED
    BY <2>1
<1>2. n * a = n * b + n + n * k
  BY <1>1
<1>3. n * k >= 0
  BY <1>1
<1>. QED
  BY <1>2, <1>3, <1>1

\* A number has one remainder.
LEMMA Remainders ==
  ASSUME NEW n \in Nat \ {0},
         NEW q \in Int, NEW r \in 0 .. n - 1, NEW d \in Int, NEW m \in 0 .. n - 1,
         n * q + r = n * d + m
  PROVE  r = m
<1>0. n * q \in Int /\ n * d \in Int
  OBVIOUS
<1>1. CASE q > d
  <2>1. n * q >= n * d + n
    BY <1>1, Multiples
  <2>. QED
    BY <1>0, <2>1
<1>2. CASE d > q
  <2>1. n * d >= n * q + n
    BY <1>2, Multiples
  <2>. QED
    BY <1>0, <2>1
<1>3. CASE d = q
  BY <1>0, <1>3
<1>. QED
  BY <1>1, <1>2, <1>3

\* The remainders of successive numbers count up to n - 1 and start again.
LEMMA NextRemainder ==
  ASSUME NEW n \in Nat \ {0}, NEW t \in Nat
  PROVE  /\ t % n \in 0 .. n - 1
         /\ (t + 1) % n = IF t % n = n - 1 THEN 0 ELSE (t % n) + 1
<1>1. /\ t % n \in 0 .. n - 1
      /\ (t + 1) % n \in 0 .. n - 1
  OBVIOUS
<1>2. t \div n \in Int /\ (t + 1) \div n \in Int
  OBVIOUS
<1>3. t = n * (t \div n) + (t % n)
  OBVIOUS
<1>4. t + 1 \in Nat
  OBVIOUS
<1>5. t + 1 = n * ((t + 1) \div n) + ((t + 1) % n)
  BY <1>4
<1>. DEFINE q == t \div n  r == t % n  d == (t + 1) \div n  m == (t + 1) % n
<1>6. q \in Int /\ d \in Int /\ r \in 0 .. n - 1 /\ m \in 0 .. n - 1
      /\ n * q + r + 1 = n * d + m
  BY <1>1, <1>2, <1>3, <1>5
<1>. HIDE DEF q, r, d, m
<1>7. CASE r = n - 1
  <2>1. n * q + n = n * (q + 1) + 0
    BY <1>6
  <2>2. n * (q + 1) + 0 = n * d + m /\ 0 \in 0 .. n - 1 /\ q + 1 \in Int
    BY <1>6, <1>7, <2>1
  <2>3. m = 0
    BY <1>6, <2>2, Remainders
  <2>. QED
    BY <1>1, <1>7, <2>3 DEF r, m
<1>8. CASE r # n - 1
  <2>1. n * q + (r + 1) = n * d + m /\ r + 1 \in 0 .. n - 1
    BY <1>6, <1>8
  <2>2. m = r + 1
    BY <1>6, <2>1, Remainders
  <2>. QED
    BY <1>1, <1>8, <2>2 DEF r, m
<1>. QED
  BY <1>7, <1>8
\* Zero, where the clock and the ticker start, is a multiple of every number.
LEMMA ZeroRemainder == ASSUME NEW n \in Nat \ {0} PROVE 0 % n = 0
<1>1. 0 % n \in 0 .. n - 1 /\ 0 \div n \in Int /\ 0 = n * (0 \div n) + (0 % n)
  OBVIOUS
<1>2. n * 0 + 0 = n * (0 \div n) + (0 % n) /\ 0 \in 0 .. n - 1
  BY <1>1
<1>. QED
  BY <1>1, <1>2, Remainders

-----------------------------------------------------------------------------
(* The windows of successive refreshes of SacctEfficiency.                 *)

\* The last tick that a refresh, successful or not, has answered; it was an
\* interval ago if the ticker has fired.
Answered == IF due THEN clock - Interval ELSE clock - (clock % Interval)

\* The last tick that a successful refresh has answered, or an earlier one.
Asked == IF missed THEN Answered - Interval ELSE Answered

\* The ticker fires at multiples of the interval, and jobs end in the past.
ClockInv ==
  /\ clock \in Nat
  /\ {due, missed} \subseteq BOOLEAN
  /\ due => clock % Interval = 0
  /\ ended = [j \in JobIDs |-> ended[j]]
  /\ \A j \in HasEnded : ended[j].at \in 0 .. clock

\* A job ended too late for a window that was asked for, give or take the hour
\* that occurs twice.
TooLate(at, asked) ==
  /\ Lookback >= 2 * (Interval + Hour) => asked < at + Hour
  /\ Lookback >= 2 * Interval /\ Unambiguous(at) => asked <= at

\* A job that no refresh has counted ended too late for the last that succeeded.
WindowInv ==
  \A j \in HasEnded :
    ended[j].state \in QueriedStates /\ j \notin counted => TooLate(ended[j].at, Asked)

\* What a refresh may take for the two instants that it names.
LEMMA WindowFacts ==
  ASSUME NEW t \in Int, NEW i \in Instants(Format(t))
  PROVE  i \in t - Hour .. t + Hour
BY SacctAssumption DEF Instants, Format

\* Jobs that end, refreshes that succeed and that fail, and the passing of time keep the
\* windows' invariant.
LEMMA SacctStep ==
  ASSUME ClockInv, WindowInv, [SacctNext]_sacctVars
  PROVE  ClockInv' /\ WindowInv'
<1>a. /\ Interval \in Nat \ {0} /\ Hour \in Nat \ {0} /\ Lookback \in Nat
      /\ clock \in Nat
      /\ clock % Interval \in 0 .. Interval - 1
  BY SacctAssumption, NextRemainder DEF ClockInv
<1>1. ASSUME NEW j \in JobIDs, JobEnds(j) PROVE ClockInv' /\ WindowInv'
  <2>1. PICK e \in Endings : ended' = [ended EXCEPT ![j] = EndedAt(e, clock)]
    BY <1>1 DEF JobEnds
  <2>2. UNCHANGED <<clock, due, missed, counted>>
    BY <1>1 DEF JobEnds
  <2>3. ended'[j].at = clock
    BY <2>1 DEF ClockInv, EndedAt
  <2>4. \A k \in JobIDs \ {j} : ended'[k] = ended[k]
    BY <2>1 DEF ClockInv
  <2>5. \A k \in HasEnded' : k = j \/ k \in HasEnded
    BY <2>4 DEF HasEnded
  <2>6. ClockInv'
    BY <2>1, <2>2, <2>3, <2>4, <2>5, <1>a DEF ClockInv, HasEnded
  <2>7. Asked' = Asked /\ Asked \in Int /\ Asked <= clock
    BY <2>2, <1>a DEF Asked, Answered
  <2>8. WindowInv'
    <3>1. ASSUME NEW k \in HasEnded', ended'[k].state \in QueriedStates, k \notin counted'
          PROVE  TooLate(ended'[k].at, Asked)
      <4>1. CASE k = j
        BY <4>1, <2>3, <2>7, <1>a DEF TooLate
      <4>2. CASE k # j
        <5>1. k \in HasEnded /\ ended'[k] = ended[k]
          BY <3>1, <4>2, <2>4, <2>5 DEF HasEnded
        <5>. QED
          BY <3>1, <5>1, <2>2 DEF WindowInv
      <4>. QED
        BY <4>1, <4>2
    <3>. QED
      BY <3>1, <2>7 DEF WindowInv
  <2>. QED
    BY <2>6, <2>8
<1>2. CASE refresh
  <2>1. PICK from \in Instants(startTime), to \in Instants(endTime) :
          counted' = counted \cup SacctSelects(from, to)
    BY <1>2 DEF refresh
  <2>2. /\ from \in (clock - Lookback) - Hour .. (clock - Lookback) + Hour
        /\ to \in clock - Hour .. clock + Hour
    BY <2>1, <1>a, WindowFacts DEF startTime, endTime
  <2>3. due /\ due' = FALSE /\ missed' = FALSE /\ UNCHANGED <<clock, ended>>
    BY <1>2 DEF refresh
  <2>4. ClockInv'
    BY <2>3 DEF ClockInv, HasEnded
  <2>5. Asked' = clock /\ Asked \in Int /\ clock - 2 * Interval <= Asked
    BY <2>3, <1>a DEF Asked, Answered, ClockInv
  <2>6. WindowInv'
    <3> SUFFICES ASSUME NEW j \in HasEnded, ended[j].state \in QueriedStates, j \notin counted'
                 PROVE  TooLate(ended[j].at, clock)
      BY <2>3, <2>5 DEF WindowInv, HasEnded
    <3>1. ended[j].at \in 0 .. clock
      BY DEF ClockInv
    <3>2. TooLate(ended[j].at, Asked)
      BY <2>1 DEF WindowInv
    <3>3. ended[j].at \notin from .. to
      BY <2>1 DEF SacctSelects
    <3>4. ASSUME Lookback >= 2 * (Interval + Hour) PROVE clock < ended[j].at + Hour
      <4>1. Asked < ended[j].at + Hour
        BY <3>2, <3>4 DEF TooLate
      <4>2. CASE ended[j].at > to
        BY <1>a, <2>2, <3>1, <4>2
      <4>3. CASE ended[j].at < from
        BY <1>a, <2>2, <2>5, <3>1, <3>4, <4>1, <4>3
      <4>. QED
        BY <2>2, <3>1, <3>3, <4>2, <4>3, <1>a
    <3>5. ASSUME Lookback >= 2 * Interval, Unambiguous(ended[j].at) PROVE clock <= ended[j].at
      <4>1. Asked <= ended[j].at
        BY <3>2, <3>5 DEF TooLate
      <4>2. clock \in ended[j].at .. ended[j].at + 2 * Interval
        BY <1>a, <2>5, <3>1, <4>1
      <4>3. from = clock - Lookback /\ to = clock
        BY <2>1, <3>5, <4>2 DEF Unambiguous, startTime, endTime
      <4>. QED
        BY <1>a, <2>5, <3>1, <3>3, <3>5, <4>1, <4>3
    <3>. QED
      BY <3>4, <3>5 DEF TooLate
  <2>. QED
    BY <2>4, <2>6
<1>3. CASE refreshFails
  <2>1. /\ due /\ ~missed /\ due' = FALSE /\ missed' = TRUE
        /\ UNCHANGED <<clock, ended, counted>>
    BY <1>3 DEF refreshFails
  <2>2. ClockInv'
    BY <2>1 DEF ClockInv, HasEnded
  <2>3. Asked' = Asked
    BY <2>1, <1>a DEF Asked, Answered, ClockInv
  <2>4. WindowInv'
    BY <2>1, <2>3 DEF WindowInv, HasEnded
  <2>. QED
    BY <2>2, <2>4
<1>4. CASE Passes
  <2>1. /\ ~due /\ clock' = clock + 1 /\ due' = ((clock + 1) % Interval = 0)
        /\ UNCHANGED <<ended, missed, counted>>
    BY <1>4 DEF Passes
  <2>2. (clock + 1) % Interval =
          IF clock % Interval = Interval - 1 THEN 0 ELSE (clock % Interval) + 1
    BY <1>a, NextRemainder
  <2>3. ClockInv'
    BY <2>1, <1>a DEF ClockInv, HasEnded
  <2>4. Answered' = Answered
    <3>1. Answered = clock - (clock % Interval)
      BY <2>1 DEF Answered
    <3>2. Answered' = IF (clock + 1) % Interval = 0 THEN clock + 1 - Interval
                      ELSE clock + 1 - ((clock + 1) % Interval)
      <4>1. due' <=> (clock + 1) % Interval = 0
        BY <2>1
      <4>2. Answered' = IF due' THEN clock' - Interval ELSE clock' - (clock' % Interval)
        BY Zenon DEF Answered
      <4>. QED
        BY <1>a, <2>1, <4>1, <4>2
    <3>. DEFINE m == clock % Interval  n == (clock + 1) % Interval
    <3>3. m \in 0 .. Interval - 1 /\ n = IF m = Interval - 1 THEN 0 ELSE m + 1
      BY <2>2, <1>a
    <3>4. Answered = clock - m
          /\ Answered' = IF n = 0 THEN clock + 1 - Interval ELSE clock + 1 - n
      BY <3>1, <3>2
    <3>. HIDE DEF m, n
    <3>. QED
      BY <3>3, <3>4, <1>a
  <2>5. WindowInv'
    BY <2>1, <2>4 DEF WindowInv, HasEnded, Asked
  <2>. QED
    BY <2>3, <2>5
<1>5. CASE UNCHANGED sacctVars
  BY <1>5 DEF sacctVars, ClockInv, WindowInv, HasEnded, Asked, Answered
<1>. QED
  BY <1>1, <1>2, <1>3, <1>4, <1>5 DEF SacctNext

\* refresh: a job that no refresh has counted ended too late for the last that succeeded.
THEOREM WindowsCorrect == SacctSpec => [](ClockInv /\ WindowInv)
<1>1. SacctInit => ClockInv /\ WindowInv
  <2> SUFFICES ASSUME SacctInit PROVE ClockInv /\ WindowInv
    OBVIOUS
  <2>1. HasEnded = {}
    BY DEF SacctInit, HasEnded, Running
  <2>2. clock % Interval = 0
    BY SacctAssumption, ZeroRemainder DEF SacctInit
  <2>. QED
    BY <2>1, <2>2 DEF SacctInit, ClockInv, WindowInv
<1>. QED
  BY <1>1, SacctStep, PTL DEF SacctSpec

\* refresh: every finished job is in the series of some refresh, though one of two fails,
\* if the window holds two intervals; near a change of the clocks, twice its hour more.
THEOREM MissedRefreshHarmlessHolds == SacctSpec => []MissedRefreshHarmless
<1>1. ClockInv /\ WindowInv => MissedRefreshHarmless
  <2> SUFFICES ASSUME ClockInv, WindowInv,
                      NEW j \in HasEnded, ended[j].state \in QueriedStates, ~due,
                      NEW enough, enough = (IF Unambiguous(ended[j].at) THEN 2 * Interval
                                            ELSE 2 * (Interval + Hour)),
                      Lookback >= enough, clock >= ended[j].at + enough, j \notin counted
               PROVE  FALSE
    BY DEF MissedRefreshHarmless
  <2>1. TooLate(ended[j].at, Asked)
    BY DEF WindowInv
  <2>2. Asked \in Int /\ clock - 2 * Interval < Asked
    BY SacctAssumption, NextRemainder DEF Asked, Answered, ClockInv
  <2>. QED
    <3>1. ended[j].at \in 0 .. clock /\ clock \in Nat
      BY DEF ClockInv
    <3>2. {Interval, Hour} \subseteq Nat \ {0}
      BY SacctAssumption
    <3>3. CASE Unambiguous(ended[j].at)
      BY <2>1, <2>2, <3>1, <3>2, <3>3 DEF TooLate
    <3>4. CASE ~Unambiguous(ended[j].at)
      BY <2>1, <2>2, <3>1, <3>2, <3>4 DEF TooLate
    <3>. QED
      BY <3>3, <3>4
<1>. QED
  BY <1>1, WindowsCorrect, PTL

-----------------------------------------------------------------------------
(* What SacctEfficiency makes of the jobs that are listed.                 *)

\* What sacct prints of a job.
JobFields(r) == {r.alloc, r.elapsed, r.busy, r.reqMem} \subseteq Nat /\ r.steps \in Seq(Nat)

\* The jobs that have ended are typed, and only those are listed.
EndedInv ==
  /\ ended = [j \in JobIDs |-> ended[j]]
  /\ \A j \in HasEnded : JobFields(ended[j])
  /\ listed \subseteq HasEnded

\* A job keeps what it ended with.
LEMMA EndingKept ==
  ASSUME NEW e \in Endings, NEW t, NEW r, r = EndedAt(e, t)
  PROVE  JobFields(r)
<1>1. /\ {e.alloc, e.elapsed, e.busy, e.reqMem} \subseteq Nat /\ e.steps \in Seq(Nat)
      /\ {"alloc", "elapsed", "busy", "reqMem", "steps"} \subseteq DOMAIN e
  BY SacctAssumption
<1>2. \A f \in DOMAIN e : f # "at" => r[f] = e[f]
  BY DEF EndedAt
<1>3. r.alloc = e.alloc /\ r.elapsed = e.elapsed /\ r.busy = e.busy /\ r.reqMem = e.reqMem
      /\ r.steps = e.steps
  BY <1>1, <1>2
<1>. QED
  BY <1>1, <1>3 DEF JobFields

\* What a job that has ended is typed by stays, and so does what is listed.
LEMMA EndedStep ==
  ASSUME EndedInv, [SacctNext]_sacctVars
  PROVE  EndedInv'
<1>1. ASSUME NEW j \in JobIDs, JobEnds(j) PROVE EndedInv'
  <2>1. PICK e \in Endings : ended' = [ended EXCEPT ![j] = EndedAt(e, clock)]
    BY <1>1 DEF JobEnds
  <2>2. listed' = listed /\ ended[j].state = "RUNNING"
    BY <1>1 DEF JobEnds, Running
  <2>3. \A k \in JobIDs \ {j} : ended'[k] = ended[k]
    BY <2>1 DEF EndedInv
  <2>4. ended'[j] = EndedAt(e, clock)
    BY <2>1 DEF EndedInv
  <2>5. JobFields(ended'[j])
    BY <2>4, EndingKept
  <2>6. \A k \in HasEnded' : JobFields(ended'[k])
    <3> SUFFICES ASSUME NEW k \in HasEnded' PROVE JobFields(ended'[k])
      OBVIOUS
    <3>1. CASE k = j
      BY <2>5, <3>1
    <3>2. CASE k # j
      BY <2>3, <3>2 DEF HasEnded, EndedInv
    <3>. QED
      BY <3>1, <3>2
  <2>7. listed' \subseteq HasEnded'
    <3> SUFFICES ASSUME NEW k \in listed PROVE k \in HasEnded'
      BY <2>2
    <3>1. k \in HasEnded /\ k # j
      BY <2>2 DEF EndedInv, HasEnded
    <3>. QED
      BY <2>3, <3>1 DEF HasEnded
  <2>8. ended' = [k \in JobIDs |-> ended'[k]]
    BY <2>1 DEF EndedInv
  <2>. QED
    BY <2>6, <2>7, <2>8 DEF EndedInv
<1>2. CASE refresh
  <2>1. ended' = ended /\ \E from, to : listed' = SacctSelects(from, to)
    BY <1>2 DEF refresh
  <2>2. listed' \subseteq HasEnded
    BY <2>1 DEF SacctSelects
  <2>. QED
    BY <2>1, <2>2 DEF EndedInv, HasEnded
<1>3. CASE refreshFails \/ Passes \/ UNCHANGED sacctVars
  BY <1>3 DEF refreshFails, Passes, sacctVars, EndedInv, HasEnded
<1>. QED
  BY <1>1, <1>2, <1>3 DEF SacctNext

-----------------------------------------------------------------------------
(* The lines of sacct.                                                     *)

\* The lines of some jobs.
SacctLines(ids) == {Allocation(j) : j \in ids}
                     \cup UNION {{Steps(j)[i] : i \in 1 .. Len(ended[j].steps)} : j \in ids}

\* Allocation, Steps: the lines of a job, one by one.
LEMMA JobLinesAre ==
  ASSUME EndedInv, NEW j \in HasEnded, NEW S, NEW ids, j \in ids, S = SacctLines(ids)
  PROVE  /\ Allocation(j) \in S
         /\ <<Allocation(j)>> \in Seq(S) /\ \A x : Occurs(x, <<Allocation(j)>>) <=> x = Allocation(j)
         /\ Steps(j) \in Seq(S)
         /\ \A x : Occurs(x, Steps(j)) <=> \E i \in 1 .. Len(ended[j].steps) : x = Steps(j)[i]
<1>1. PICK n \in Nat : n = Len(ended[j].steps)
  <2>1. PICK st : st = ended[j].steps /\ st \in Seq(Nat)
    BY DEF EndedInv, JobFields
  <2>2. Len(st) \in Nat
    BY <2>1
  <2>. QED
    BY <2>1, <2>2
<1>2. DOMAIN Steps(j) = 1 .. n
  BY <1>1 DEF Steps
<1>3. \A i \in 1 .. n : Steps(j)[i] \in S
  BY <1>1 DEF SacctLines
<1>4. Allocation(j) \in S
  BY DEF SacctLines
<1>5. PICK a : a = Allocation(j)
  OBVIOUS
<1>6. <<a>> \in Seq(S) /\ \A x : Occurs(x, <<a>>) <=> x = a
  BY <1>4, <1>5 DEF Occurs
<1>7. PICK st : st = Steps(j)
  OBVIOUS
<1>8. st \in Seq(S)
  <2>1. st = [i \in 1 .. n |-> st[i]]
    BY <1>1, <1>7 DEF Steps
  <2>2. \A i \in 1 .. n : st[i] \in S
    BY <1>3, <1>7
  <2>. QED
    BY <2>1, <2>2
<1>9. \A x : Occurs(x, st) <=> \E i \in 1 .. n : x = st[i]
  BY <1>2, <1>7 DEF Occurs
<1>. QED
  BY <1>1, <1>4, <1>5, <1>6, <1>7, <1>8, <1>9

\* The lines of each job, one job after the other.
OneByOne(s, ids, of) == s = FlattenSeq([j \in JobIDs |-> IF j \in ids THEN of[j] ELSE << >>])

\* They are those of all the jobs.
LEMMA EachHas ==
  ASSUME NEW S, NEW ids \in SUBSET JobIDs, NEW of, \A j \in ids : of[j] \in Seq(S),
         NEW s, OneByOne(s, ids, of)
  PROVE  s \in Seq(S) /\ \A x : Occurs(x, s) <=> \E j \in ids : Occurs(x, of[j])
<1>1. PICK seqs : seqs = [j \in JobIDs |-> IF j \in ids THEN of[j] ELSE << >>]
  OBVIOUS
<1>2. seqs \in Seq(Seq(S)) /\ DOMAIN seqs = JobIDs
  <2>1. PICK n \in Nat : n = JobLimit /\ JobIDs = 1 .. n
    BY SacctAssumption DEF JobIDs
  <2>2. \A j \in JobIDs : seqs[j] \in Seq(S)
    <3>1. << >> \in Seq(S)
      OBVIOUS
    <3>. QED
      BY <1>1, <3>1
  <2>3. DOMAIN seqs = 1 .. n /\ seqs = [j \in 1 .. n |-> seqs[j]]
    BY <1>1, <2>1
  <2>4. PICK T : T = Seq(S)
    OBVIOUS
  <2>5. \A j \in 1 .. n : seqs[j] \in T
    BY <2>1, <2>2, <2>4
  <2>6. seqs \in Seq(T)
    BY <2>3, <2>5
  <2>. QED
    BY <2>1, <2>3, <2>4, <2>6
<1>3. s = FlattenSeq(seqs)
  BY <1>1 DEF OneByOne
<1>4. s \in Seq(S) /\ \A x : Occurs(x, s) <=> \E j \in JobIDs : Occurs(x, seqs[j])
  BY <1>2, <1>3, FlattenHas
<1>5. \A j \in JobIDs : \A x : Occurs(x, seqs[j]) <=> j \in ids /\ Occurs(x, of[j])
  <2> SUFFICES ASSUME NEW j \in JobIDs, NEW x PROVE Occurs(x, seqs[j]) <=> j \in ids /\ Occurs(x, of[j])
    OBVIOUS
  <2>1. CASE j \in ids
    <3>1. seqs[j] = of[j]
      BY <1>1, <2>1
    <3>. QED
      BY <2>1, <3>1
  <2>2. CASE j \notin ids
    <3>1. seqs[j] = << >>
      BY <1>1, <2>2
    <3>. QED
      BY <2>2, <3>1 DEF Occurs
  <2>. QED
    BY <2>1, <2>2
<1>. QED
  BY <1>4, <1>5

\* The order of the lines does not matter to what they are.
LEMMA ReverseHas ==
  ASSUME NEW S, NEW s \in Seq(S)
  PROVE  Reverse(s) \in Seq(S) /\ \A x : Occurs(x, Reverse(s)) <=> Occurs(x, s)
<1>1. PICK n \in Nat : n = Len(s)
  OBVIOUS
<1>2. PICK r : r = Reverse(s)
  OBVIOUS
<1>3. r = [i \in 1 .. n |-> s[(n - i) + 1]] /\ DOMAIN s = 1 .. n
  BY <1>1, <1>2 DEF Reverse
<1>4. \A i \in 1 .. n : (n - i) + 1 \in 1 .. n /\ (n - ((n - i) + 1)) + 1 = i
  OBVIOUS
<1>5. \A i \in 1 .. n : r[i] = s[(n - i) + 1]
  BY <1>3
<1>6. \A i \in 1 .. n : s[i] = r[(n - i) + 1]
  BY <1>4, <1>5
<1>7. \A i \in 1 .. n : r[i] \in S
  BY <1>3, <1>4, <1>5
<1>8. r \in Seq(S)
  BY <1>3, <1>7
<1>9. \A x : Occurs(x, r) <=> Occurs(x, s)
  BY <1>3, <1>4, <1>5, <1>6 DEF Occurs
<1>. QED
  BY <1>2, <1>8, <1>9

\* Orders: in each of them the lines are those of the jobs.
LEMMA OrdersHave ==
  ASSUME EndedInv, NEW ids \in SUBSET HasEnded, NEW lines \in Orders(ids), NEW S, S = SacctLines(ids)
  PROVE  lines \in Seq(S) /\ \A x : Occurs(x, lines) <=> x \in S
<1>. DEFINE of1 == [j \in ids |-> <<Allocation(j)>>]
            of2 == [j \in ids |-> Steps(j)]
            of3 == [j \in ids |-> <<Allocation(j)>> \o Steps(j)]
            IsStepOf(x, j) == \E i \in 1 .. Len(ended[j].steps) : x = Steps(j)[i]
<1>0. ids \subseteq JobIDs
  BY DEF HasEnded
<1>1. PICK a, b, c : a = of1 /\ b = of2 /\ c = of3
  OBVIOUS
<1>2. PICK s1 : OneByOne(s1, ids, a)
  BY DEF OneByOne
<1>3. PICK s2 : OneByOne(s2, ids, b)
  BY DEF OneByOne
<1>4. PICK s3 : OneByOne(s3, ids, c)
  BY DEF OneByOne
<1>5. lines \in {s3, Reverse(s3), s1 \o s2, s2 \o s1}
  BY <1>1, <1>2, <1>3, <1>4 DEF Orders, OneByOne
<1>6. \A j \in ids : /\ a[j] \in Seq(S) /\ \A x : Occurs(x, a[j]) <=> x = Allocation(j)
                     /\ b[j] \in Seq(S) /\ \A x : Occurs(x, b[j]) <=> IsStepOf(x, j)
  <2> SUFFICES ASSUME NEW j \in ids
               PROVE  /\ a[j] \in Seq(S) /\ \A x : Occurs(x, a[j]) <=> x = Allocation(j)
                      /\ b[j] \in Seq(S) /\ \A x : Occurs(x, b[j]) <=> IsStepOf(x, j)
    OBVIOUS
  <2>1. a[j] = <<Allocation(j)>> /\ b[j] = Steps(j)
    BY <1>1
  <2>2. j \in HasEnded
    OBVIOUS
  <2>. QED
    BY <2>1, <2>2, JobLinesAre
<1>7. \A j \in ids : c[j] \in Seq(S) /\ \A x : Occurs(x, c[j]) <=> x = Allocation(j) \/ IsStepOf(x, j)
  <2> SUFFICES ASSUME NEW j \in ids
               PROVE  c[j] \in Seq(S) /\ \A x : Occurs(x, c[j]) <=> x = Allocation(j) \/ IsStepOf(x, j)
    OBVIOUS
  <2>1. c[j] = a[j] \o b[j]
    BY <1>1
  <2>2. c[j] \in Seq(S) /\ \A x : Occurs(x, c[j]) <=> Occurs(x, a[j]) \/ Occurs(x, b[j])
    BY <2>1, <1>6, ConcatHas
  <2>. QED
    BY <2>2, <1>6
<1>s. /\ ids \in SUBSET JobIDs
      /\ \A j \in ids : a[j] \in Seq(S) /\ b[j] \in Seq(S) /\ c[j] \in Seq(S)
  BY <1>0, <1>6, <1>7
<1>8. \A x : x \in S <=> \E j \in ids : x = Allocation(j) \/ IsStepOf(x, j)
  BY DEF SacctLines
<1>h. HIDE DEF IsStepOf, of1, of2, of3
<1>9. s1 \in Seq(S) /\ \A x : Occurs(x, s1) <=> \E j \in ids : x = Allocation(j)
  <2>1. s1 \in Seq(S) /\ \A x : Occurs(x, s1) <=> \E j \in ids : Occurs(x, a[j])
    BY <1>2, <1>s, EachHas
  <2>. QED
    BY <2>1, <1>6
<1>10. s2 \in Seq(S) /\ \A x : Occurs(x, s2) <=> \E j \in ids : IsStepOf(x, j)
  <2>1. s2 \in Seq(S) /\ \A x : Occurs(x, s2) <=> \E j \in ids : Occurs(x, b[j])
    BY <1>3, <1>s, EachHas
  <2>. QED
    BY <2>1, <1>6
<1>11. s3 \in Seq(S) /\ \A x : Occurs(x, s3) <=> x \in S
  <2>1. s3 \in Seq(S) /\ \A x : Occurs(x, s3) <=> \E j \in ids : Occurs(x, c[j])
    BY <1>4, <1>s, EachHas
  <2>. QED
    BY <2>1, <1>7, <1>8
<1>12. CASE lines = s3
  BY <1>11, <1>12
<1>13. CASE lines = Reverse(s3)
  BY <1>11, <1>13, ReverseHas
<1>14. CASE lines = s1 \o s2
  <2>1. lines \in Seq(S) /\ \A x : Occurs(x, lines) <=> Occurs(x, s1) \/ Occurs(x, s2)
    BY <1>9, <1>10, <1>14, ConcatHas
  <2>. QED
    BY <2>1, <1>8, <1>9, <1>10
<1>15. CASE lines = s2 \o s1
  <2>1. lines \in Seq(S) /\ \A x : Occurs(x, lines) <=> Occurs(x, s2) \/ Occurs(x, s1)
    BY <1>9, <1>10, <1>15, ConcatHas
  <2>. QED
    BY <2>1, <1>8, <1>9, <1>10
<1>. QED
  BY <1>5, <1>12, <1>13, <1>14, <1>15
-----------------------------------------------------------------------------
(* ParseSacctEfficiency.                                                   *)

SacctRead == INSTANCE FoldProofs WITH Step <- ReadLine

\* What is known of a job after some of its lines, in whatever order they came.
KnownFrom(job, L) ==
  /\ job = [rec |-> job.rec, haveAlloc |-> job.haveAlloc, maxRSS |-> job.maxRSS,
            rssSeen |-> job.rssSeen]
  /\ job.haveAlloc \in BOOLEAN /\ job.rssSeen \in BOOLEAN
  /\ job.haveAlloc <=> \E l \in L : Authoritative(l)
  /\ job.haveAlloc => job.rec \in L /\ Authoritative(job.rec)
  /\ job.rssSeen <=> \E l \in L : l.maxRSS # 0
  /\ job.rssSeen => /\ \E l \in L : l.maxRSS = job.maxRSS
                    /\ \A l \in L : l.maxRSS <= job.maxRSS

\* SeeMaxRSS: the peak is kept.
LEMMA PeakKept ==
  ASSUME NEW job, NEW L, KnownFrom(job, L), \A l \in L : l.maxRSS \in Nat,
         NEW line, line.maxRSS \in Nat, NEW new, new = SeeMaxRSS(job, line)
  PROVE  /\ new = [rec |-> job.rec, haveAlloc |-> job.haveAlloc, maxRSS |-> new.maxRSS,
                   rssSeen |-> new.rssSeen]
         /\ new.rssSeen \in BOOLEAN
         /\ new.rssSeen <=> \E l \in L \cup {line} : l.maxRSS # 0
         /\ new.rssSeen => /\ \E l \in L \cup {line} : l.maxRSS = new.maxRSS
                           /\ \A l \in L \cup {line} : l.maxRSS <= new.maxRSS
<1>1. PICK r \in Nat : r = line.maxRSS
  OBVIOUS
<1>2. new = IF r # 0 /\ (~job.rssSeen \/ r > job.maxRSS)
            THEN [job EXCEPT !.maxRSS = r, !.rssSeen = TRUE] ELSE job
  BY <1>1 DEF SeeMaxRSS, parseSacctMemory
<1>3. CASE r # 0 /\ (~job.rssSeen \/ r > job.maxRSS)
  <2>1. new = [rec |-> job.rec, haveAlloc |-> job.haveAlloc, maxRSS |-> r, rssSeen |-> TRUE]
    BY <1>2, <1>3 DEF KnownFrom
  <2>2. \A l \in L : l.maxRSS <= r
    <3>1. CASE ~job.rssSeen
      <4>1. \A l \in L : l.maxRSS = 0
        BY <3>1 DEF KnownFrom
      <4>. QED
        BY <4>1
    <3>2. CASE job.rssSeen
      <4>1. job.maxRSS \in Nat /\ \A l \in L : l.maxRSS <= job.maxRSS
        BY <3>2 DEF KnownFrom
      <4>2. r > job.maxRSS
        BY <1>3, <3>2
      <4>. QED
        BY <4>1, <4>2
    <3>. QED
      BY <3>1, <3>2 DEF KnownFrom
  <2>. QED
    BY <1>1, <1>3, <2>1, <2>2
<1>4. CASE ~(r # 0 /\ (~job.rssSeen \/ r > job.maxRSS))
  <2>1. new = job
    BY <1>2, <1>4
  <2>2. CASE r = 0
    <3>1. line.maxRSS = 0
      BY <1>1, <2>2
    <3>2. job.rssSeen <=> \E l \in L \cup {line} : l.maxRSS # 0
      BY <3>1 DEF KnownFrom
    <3>3. ASSUME job.rssSeen PROVE /\ \E l \in L \cup {line} : l.maxRSS = job.maxRSS
                                   /\ \A l \in L \cup {line} : l.maxRSS <= job.maxRSS
      <4>1. job.maxRSS \in Nat /\ 0 <= job.maxRSS
        BY <3>3 DEF KnownFrom
      <4>. QED
        BY <3>1, <3>3, <4>1 DEF KnownFrom
    <3>4. /\ job = [rec |-> job.rec, haveAlloc |-> job.haveAlloc, maxRSS |-> job.maxRSS,
                    rssSeen |-> job.rssSeen]
          /\ job.rssSeen \in BOOLEAN
      BY DEF KnownFrom
    <3>. QED
      BY <2>1, <3>2, <3>3, <3>4
  <2>3. CASE r # 0
    <3>1. job.rssSeen /\ ~(r > job.maxRSS) /\ job.maxRSS \in Nat
      BY <1>4, <2>3 DEF KnownFrom
    <3>. QED
      BY <1>1, <2>1, <3>1 DEF KnownFrom
  <2>. QED
    BY <2>2, <2>3
<1>. QED
  BY <1>3, <1>4

\* What a job is made of.
LEMMA JobFour ==
  ASSUME NEW a, NEW h \in BOOLEAN, NEW p, NEW q \in BOOLEAN, NEW new,
         new = [rec |-> a, haveAlloc |-> h, maxRSS |-> p, rssSeen |-> q]
  PROVE  new.rec = a /\ new.haveAlloc = h /\ new.maxRSS = p /\ new.rssSeen = q
OBVIOUS

\* What ReadLine makes of a job whose peak is known.
Recorded(new, seen, line) ==
  new = IF Authoritative(line) THEN [seen EXCEPT !.rec = line, !.haveAlloc = TRUE] ELSE seen

\* ReadLine: what the line says is added to what is known of its job.
LEMMA LineAdds ==
  ASSUME NEW job, NEW L, KnownFrom(job, L), \A l \in L : l.maxRSS \in Nat,
         NEW line, line.maxRSS \in Nat, NEW seen, seen = SeeMaxRSS(job, line),
         NEW new, Recorded(new, seen, line)
  PROVE  KnownFrom(new, L \cup {line})
<1>1. /\ seen = [rec |-> job.rec, haveAlloc |-> job.haveAlloc, maxRSS |-> seen.maxRSS,
                 rssSeen |-> seen.rssSeen]
      /\ seen.rssSeen \in BOOLEAN
      /\ seen.rssSeen <=> \E l \in L \cup {line} : l.maxRSS # 0
      /\ seen.rssSeen => /\ \E l \in L \cup {line} : l.maxRSS = seen.maxRSS
                         /\ \A l \in L \cup {line} : l.maxRSS <= seen.maxRSS
  BY PeakKept
<1>2. /\ job.haveAlloc \in BOOLEAN
      /\ job.haveAlloc <=> \E l \in L : Authoritative(l)
      /\ job.haveAlloc => job.rec \in L /\ Authoritative(job.rec)
  BY DEF KnownFrom
<1>3. CASE Authoritative(line)
  <2>1. new = [rec |-> line, haveAlloc |-> TRUE, maxRSS |-> seen.maxRSS, rssSeen |-> seen.rssSeen]
    BY <1>1, <1>3 DEF Recorded
  <2>. QED
    BY <1>1, <1>3, <2>1 DEF KnownFrom
<1>4. CASE ~Authoritative(line)
  <2>1. new = [rec |-> job.rec, haveAlloc |-> job.haveAlloc, maxRSS |-> seen.maxRSS,
               rssSeen |-> seen.rssSeen]
    BY <1>1, <1>4 DEF Recorded
  <2>2. new.haveAlloc = job.haveAlloc /\ new.rec = job.rec
        /\ new.maxRSS = seen.maxRSS /\ new.rssSeen = seen.rssSeen
    <3>1. PICK a, p : a = job.rec /\ p = seen.maxRSS
      OBVIOUS
    <3>2. PICK h, q \in BOOLEAN : h = job.haveAlloc /\ q = seen.rssSeen
      BY <1>1, <1>2
    <3>3. new = [rec |-> a, haveAlloc |-> h, maxRSS |-> p, rssSeen |-> q]
      BY <2>1, <3>1, <3>2
    <3>. QED
      BY <3>1, <3>2, <3>3, JobFour
  <2>3. (\E l \in L \cup {line} : Authoritative(l)) <=> \E l \in L : Authoritative(l)
    BY <1>4
  <2>. QED
    BY <1>1, <1>2, <2>1, <2>2, <2>3 DEF KnownFrom
<1>. QED
  BY <1>3, <1>4

\* The lines, read one by one.
SacctRun(g, s, n) ==
  /\ g[0] = [j \in JobIDs |-> NoLine]
  /\ \A i \in 1 .. n : g[i] = ReadLine(g[i - 1], s[i])
  /\ ParseSacctEfficiency(s) = [j \in {k \in JobIDs : g[n][k].haveAlloc} |-> g[n][j]]

\* That is how ParseSacctEfficiency reads them.
LEMMA SacctTrace ==
  ASSUME NEW s, NEW n \in Nat, DOMAIN s = 1 .. n
  PROVE  \E g : SacctRun(g, s, n)
<1>1. PICK none : none = [j \in JobIDs |-> NoLine]
  OBVIOUS
<1>2. ParseSacctEfficiency(s)
        = [j \in {k \in JobIDs : SacctRead!Folded(none, s)[k].haveAlloc} |-> SacctRead!Folded(none, s)[j]]
  BY <1>1 DEF ParseSacctEfficiency, SacctRead!Folded, FoldLeft, MapThenFoldSet,
              SacctRead!MapThenFoldSet, Max, SacctRead!Greatest
<1>3. \E g : /\ g[0] = none
             /\ \A i \in 1 .. n : g[i] = ReadLine(g[i - 1], s[i])
             /\ SacctRead!Folded(none, s) = g[n]
  BY SacctRead!Trace
<1>. QED
  BY <1>1, <1>2, <1>3 DEF SacctRun

\* What is known of each job after some of the lines s comes from its lines among them.
KnownUpTo(b, s, i) ==
  /\ b = [j \in JobIDs |-> b[j]]
  /\ \A j \in JobIDs : KnownFrom(b[j], {s[m] : m \in {k \in 1 .. i : s[k].id = j}})

\* One more line.
LEMMA OneMoreLine ==
  ASSUME NEW s, NEW n \in Nat, \A m \in 1 .. n : s[m].maxRSS \in Nat /\ s[m].id \in JobIDs,
         NEW i \in 0 .. n - 1, NEW b, KnownUpTo(b, s, i), NEW new, new = ReadLine(b, s[i + 1])
  PROVE  KnownUpTo(new, s, i + 1)
<1>1. PICK line : line = s[i + 1]
  OBVIOUS
<1>2. line.maxRSS \in Nat /\ line.id \in JobIDs
  BY <1>1
<1>3. PICK seen : seen = SeeMaxRSS(b[line.id], line)
  OBVIOUS
<1>4. PICK job : Recorded(job, seen, line)
  BY DEF Recorded
<1>5. new = [b EXCEPT ![line.id] = job]
  BY <1>1, <1>3, <1>4 DEF ReadLine, Recorded
<1>6. new = [j \in JobIDs |-> new[j]] /\ new[line.id] = job
      /\ \A j \in JobIDs : j # line.id => new[j] = b[j]
  BY <1>2, <1>5 DEF KnownUpTo
<1>7. ASSUME NEW j \in JobIDs
      PROVE  KnownFrom(new[j], {s[m] : m \in {k \in 1 .. i + 1 : s[k].id = j}})
  <2>1. PICK L, M : /\ L = {s[m] : m \in {k \in 1 .. i : s[k].id = j}}
                    /\ M = {s[m] : m \in {k \in 1 .. i + 1 : s[k].id = j}}
    OBVIOUS
  <2>2. KnownFrom(b[j], L)
    BY <2>1 DEF KnownUpTo
  <2>3. \A k : k \in 1 .. i + 1 <=> k \in 1 .. i \/ k = i + 1
    OBVIOUS
  <2>4. \A l \in L : l.maxRSS \in Nat
    BY <2>1
  <2>5. CASE j = line.id
    <3>1. M = L \cup {line}
      BY <1>1, <2>1, <2>3, <2>5
    <3>2. PICK old : old = b[j]
      OBVIOUS
    <3>3. seen = SeeMaxRSS(old, line) /\ KnownFrom(old, L)
      BY <1>3, <2>2, <2>5, <3>2
    <3>4. KnownFrom(job, L \cup {line})
      BY <1>2, <1>4, <2>4, <3>3, LineAdds
    <3>. QED
      BY <1>6, <2>1, <2>5, <3>1, <3>4
  <2>6. CASE j # line.id
    <3>1. M = L
      BY <1>1, <2>1, <2>3, <2>6
    <3>. QED
      BY <1>6, <2>1, <2>2, <2>6, <3>1
  <2>. QED
    BY <2>5, <2>6
<1>. QED
  BY <1>6, <1>7 DEF KnownUpTo

\* All of them.
LEMMA AllKnown ==
  ASSUME NEW s, NEW n \in Nat, \A m \in 1 .. n : s[m].maxRSS \in Nat /\ s[m].id \in JobIDs,
         NEW g, SacctRun(g, s, n)
  PROVE  KnownUpTo(g[n], s, n)
<1>0. g[0] = [j \in JobIDs |-> NoLine] /\ \A i \in 1 .. n : g[i] = ReadLine(g[i - 1], s[i])
  BY DEF SacctRun
<1>. DEFINE N == {i \in Nat : i <= n => KnownUpTo(g[i], s, i)}
<1>1. 0 \in N
  <2>1. PICK b : b = g[0]
    OBVIOUS
  <2>2. b = [j \in JobIDs |-> b[j]] /\ \A j \in JobIDs : b[j] = NoLine
    BY <1>0, <2>1
  <2>3. \A j \in JobIDs : {s[m] : m \in {k \in 1 .. 0 : s[k].id = j}} = {}
    OBVIOUS
  <2>4. KnownFrom(NoLine, {})
    BY DEF KnownFrom, NoLine
  <2>5. KnownUpTo(b, s, 0)
    BY <2>2, <2>3, <2>4 DEF KnownUpTo
  <2>. QED
    BY <2>1, <2>5
<1>2. ASSUME NEW i \in Nat, i \in N PROVE i + 1 \in N
  <2> SUFFICES ASSUME i + 1 <= n PROVE KnownUpTo(g[i + 1], s, i + 1)
    OBVIOUS
  <2>1. i \in 0 .. n - 1 /\ i + 1 \in 1 .. n /\ (i + 1) - 1 = i
    OBVIOUS
  <2>2. PICK b, new : b = g[i] /\ new = g[i + 1]
    OBVIOUS
  <2>3. KnownUpTo(b, s, i) /\ new = ReadLine(b, s[i + 1])
    BY <1>0, <1>2, <2>1, <2>2
  <2>4. KnownUpTo(new, s, i + 1)
    BY <2>1, <2>3, OneMoreLine
  <2>. QED
    BY <2>2, <2>4
<1>3. Nat \subseteq N
  <2>. HIDE DEF N
  <2>. QED
    BY <1>1, <1>2, NatInd
<1>. QED
  BY <1>3

\* The lines of a job are of that job; only its steps have a peak, and only they are steps.
LEMMA LineFields ==
  ASSUME EndedInv, NEW j \in HasEnded, NEW n \in Nat, n = Len(ended[j].steps)
  PROVE  /\ Allocation(j).id = j /\ Allocation(j).maxRSS = 0 /\ ~Allocation(j).isStep
         /\ \A i \in 1 .. n : /\ ended[j].steps[i] \in Nat
                              /\ Steps(j)[i].id = j /\ Steps(j)[i].maxRSS = ended[j].steps[i]
                              /\ Steps(j)[i].isStep
<1>1. Allocation(j).id = j /\ Allocation(j).maxRSS = 0 /\ ~Allocation(j).isStep
  BY DEF Allocation
<1>2. PICK st : st = ended[j].steps /\ st \in Seq(Nat) /\ n = Len(st)
  BY DEF EndedInv, JobFields
<1>3. ASSUME NEW i \in 1 .. n
      PROVE  /\ st[i] \in Nat
             /\ Steps(j)[i].id = j /\ Steps(j)[i].maxRSS = st[i] /\ Steps(j)[i].isStep
  <2>1. st[i] \in Nat
    BY <1>2
  <2>2. PICK v : v = st[i]
    OBVIOUS
  <2>3. Steps(j)[i] = [Allocation(j) EXCEPT !.isStep = TRUE, !.user = "", !.reqMem = 0, !.maxRSS = v]
    BY <1>2, <2>2 DEF Steps
  <2>4. Steps(j)[i].id = j /\ Steps(j)[i].maxRSS = v /\ Steps(j)[i].isStep
    BY <2>3 DEF Allocation
  <2>. QED
    BY <2>1, <2>2, <2>4
<1>. QED
  BY <1>1, <1>2, <1>3

\* Some step of the job has a peak.
HasPeak(j) == \E i \in 1 .. Len(ended[j].steps) : ended[j].steps[i] > 0

\* Peak: the greatest of the steps' is the job's.
LEMMA PeakIs ==
  ASSUME EndedInv, NEW j \in HasEnded, NEW n \in Nat, n = Len(ended[j].steps),
         NEW v \in Nat, \E i \in 1 .. n : ended[j].steps[i] = v,
         \A i \in 1 .. n : ended[j].steps[i] <= v
  PROVE  Peak(j) = v
<1>1. PICK st : st = ended[j].steps /\ st \in Seq(Nat) /\ n = Len(st)
  BY DEF EndedInv, JobFields
<1>2. PICK T : T = ToSet(st)
  OBVIOUS
<1>3. Peak(j) = CHOOSE x \in T : \A y \in T : x >= y
  BY <1>1, <1>2 DEF Peak, Max
<1>4. T \in SUBSET Nat /\ v \in T /\ \A y \in T : v >= y
  <2>1. DOMAIN st = 1 .. n /\ \A i \in 1 .. n : st[i] \in Nat
    BY <1>1
  <2>2. T = {st[i] : i \in 1 .. n}
    BY <1>2, <2>1 DEF ToSet
  <2>. QED
    BY <1>1, <2>1, <2>2
<1>5. PICK x : x = CHOOSE z \in T : \A y \in T : z >= y
  OBVIOUS
<1>6. x \in T /\ \A y \in T : x >= y
  BY <1>4, <1>5
<1>7. x = v
  BY <1>4, <1>6
<1>. QED
  BY <1>3, <1>5, <1>7

\* The jobs that there is a record of.
Recorder(ids) == {j \in ids : Authoritative(Allocation(j))}

\* The records are those of the jobs, whatever order their lines came in.
RecordsOf(records, ids) ==
  /\ DOMAIN records = Recorder(ids)
  /\ \A j \in Recorder(ids) : /\ records[j].rec = Allocation(j)
                              /\ records[j].rssSeen <=> HasPeak(j)
                              /\ HasPeak(j) => records[j].maxRSS = Peak(j)

\* A job of which all lines are known.
LEMMA JobKnown ==
  ASSUME EndedInv, NEW j \in HasEnded, NEW n \in Nat, n = Len(ended[j].steps),
         NEW L, \A x : x \in L <=> x = Allocation(j) \/ \E i \in 1 .. n : x = Steps(j)[i],
         NEW job, KnownFrom(job, L)
  PROVE  /\ job.haveAlloc <=> Authoritative(Allocation(j))
         /\ job.haveAlloc => job.rec = Allocation(j)
         /\ job.rssSeen <=> HasPeak(j)
         /\ HasPeak(j) => job.maxRSS = Peak(j)
<1>1. PICK a, st, pk : a = Allocation(j) /\ st = Steps(j) /\ pk = ended[j].steps
  OBVIOUS
<1>2. /\ a.maxRSS = 0 /\ ~a.isStep
      /\ \A i \in 1 .. n : pk[i] \in Nat /\ st[i].maxRSS = pk[i] /\ st[i].isStep
  BY <1>1, LineFields
<1>3. \A x : x \in L <=> x = a \/ \E i \in 1 .. n : x = st[i]
  BY <1>1
<1>4. ASSUME NEW x \in L, Authoritative(x) PROVE x = a
  <2>1. ~x.isStep
    BY <1>4 DEF Authoritative
  <2>2. x = a \/ \E i \in 1 .. n : x = st[i]
    BY <1>3
  <2>3. ASSUME NEW i \in 1 .. n, x = st[i] PROVE FALSE
    <3>1. x.isStep
      BY <1>2, <2>3
    <3>. QED
      BY <2>1, <3>1
  <2>. QED
    BY <2>2, <2>3
<1>5. (job.haveAlloc <=> Authoritative(a)) /\ (job.haveAlloc => job.rec = a)
  BY <1>3, <1>4 DEF KnownFrom
<1>6. HasPeak(j) <=> \E i \in 1 .. n : pk[i] > 0
  BY <1>1 DEF HasPeak
<1>7. job.rssSeen <=> HasPeak(j)
  <2>1. (\E l \in L : l.maxRSS # 0) <=> \E i \in 1 .. n : pk[i] > 0
    BY <1>2, <1>3
  <2>. QED
    BY <1>6, <2>1 DEF KnownFrom
<1>8. ASSUME HasPeak(j) PROVE job.maxRSS = Peak(j)
  <2>1. PICK v : v = job.maxRSS
    OBVIOUS
  <2>2. (\E l \in L : l.maxRSS = v) /\ \A l \in L : l.maxRSS <= v
    BY <1>7, <1>8, <2>1 DEF KnownFrom
  <2>3. v \in Nat
    BY <1>2, <1>3, <2>2
  <2>4. \A i \in 1 .. n : pk[i] <= v
    BY <1>2, <1>3, <2>2
  <2>5. v > 0
    <3>1. PICK i \in 1 .. n : pk[i] > 0
      BY <1>6, <1>8
    <3>2. pk[i] <= v /\ pk[i] \in Nat
      BY <1>2, <2>4
    <3>. QED
      BY <2>3, <3>1, <3>2
  <2>6. \E i \in 1 .. n : pk[i] = v
    BY <1>2, <1>3, <2>2, <2>5
  <2>7. Peak(j) = v
    BY <1>1, <2>3, <2>4, <2>6, PeakIs
  <2>. QED
    BY <2>1, <2>7
<1>. QED
  BY <1>1, <1>5, <1>7, <1>8

\* ParseSacctEfficiency: a job is recorded if its allocation line says that it was somebody's
\* and used something; the record has its peak, if there is one.
LEMMA JobsRead ==
  ASSUME EndedInv, NEW ids \in SUBSET HasEnded, NEW lines \in Orders(ids)
  PROVE  RecordsOf(ParseSacctEfficiency(lines), ids)
<1>0. PICK S : S = SacctLines(ids)
  OBVIOUS
<1>1. lines \in Seq(S) /\ \A x : Occurs(x, lines) <=> x \in S
  BY <1>0, OrdersHave
<1>2. PICK n \in Nat : n = Len(lines) /\ DOMAIN lines = 1 .. n
  BY <1>1
<1>3. \A x : x \in S <=> \E m \in 1 .. n : lines[m] = x
  BY <1>1, <1>2 DEF Occurs
<1>4. \A j \in HasEnded : Len(ended[j].steps) \in Nat
  <2> SUFFICES ASSUME NEW j \in HasEnded PROVE Len(ended[j].steps) \in Nat
    OBVIOUS
  <2>1. PICK st : st = ended[j].steps /\ st \in Seq(Nat)
    BY DEF EndedInv, JobFields
  <2>2. Len(st) \in Nat
    BY <2>1
  <2>. QED
    BY <2>1, <2>2
<1>5. \A x \in S : \E j \in ids : x = Allocation(j) \/ \E i \in 1 .. Len(ended[j].steps) : x = Steps(j)[i]
  BY <1>0 DEF SacctLines
<1>6. \A j \in ids : Allocation(j) \in S /\ \A i \in 1 .. Len(ended[j].steps) : Steps(j)[i] \in S
  BY <1>0 DEF SacctLines
<1>7. \A j \in ids : /\ Allocation(j).id = j /\ Allocation(j).maxRSS = 0
                     /\ \A i \in 1 .. Len(ended[j].steps) :
                          /\ Steps(j)[i].id = j /\ Steps(j)[i].maxRSS \in Nat
  BY <1>4, LineFields
<1>8. ids \subseteq JobIDs /\ ids \subseteq HasEnded
  BY DEF HasEnded
<1>9. \A m \in 1 .. n : lines[m].maxRSS \in Nat /\ lines[m].id \in JobIDs /\ lines[m].id \in ids
  <2> SUFFICES ASSUME NEW m \in 1 .. n
               PROVE  lines[m].maxRSS \in Nat /\ lines[m].id \in JobIDs /\ lines[m].id \in ids
    OBVIOUS
  <2>1. PICK x : x = lines[m] /\ x \in S
    BY <1>3
  <2>2. x.maxRSS \in Nat /\ x.id \in ids
    BY <1>5, <1>7, <2>1
  <2>. QED
    BY <1>8, <2>1, <2>2
<1>10. PICK g : SacctRun(g, lines, n)
  BY <1>2, SacctTrace
<1>11. PICK b, r : b = g[n] /\ r = ParseSacctEfficiency(lines)
  OBVIOUS
<1>12. KnownUpTo(b, lines, n)
  BY <1>9, <1>10, <1>11, AllKnown
<1>13. r = [j \in {k \in JobIDs : b[k].haveAlloc} |-> b[j]]
  BY <1>10, <1>11 DEF SacctRun
<1>14. ASSUME NEW j \in ids
       PROVE  /\ b[j].haveAlloc <=> Authoritative(Allocation(j))
              /\ b[j].haveAlloc => b[j].rec = Allocation(j)
              /\ b[j].rssSeen <=> HasPeak(j)
              /\ HasPeak(j) => b[j].maxRSS = Peak(j)
  <2>1. PICK L : L = {lines[m] : m \in {k \in 1 .. n : lines[k].id = j}}
    OBVIOUS
  <2>2. PICK k \in Nat : k = Len(ended[j].steps)
    BY <1>4, <1>8
  <2>3. KnownFrom(b[j], L)
    BY <1>8, <1>12, <2>1 DEF KnownUpTo
  <2>4. \A x : x \in L <=> x \in S /\ x.id = j
    BY <1>3, <2>1
  <2>5. \A x : x \in L <=> x = Allocation(j) \/ \E i \in 1 .. k : x = Steps(j)[i]
    BY <1>5, <1>6, <1>7, <2>2, <2>4
  <2>6. j \in HasEnded
    BY <1>8
  <2>7. PICK job : job = b[j]
    OBVIOUS
  <2>8. /\ job.haveAlloc <=> Authoritative(Allocation(j))
        /\ job.haveAlloc => job.rec = Allocation(j)
        /\ job.rssSeen <=> HasPeak(j)
        /\ HasPeak(j) => job.maxRSS = Peak(j)
    BY <2>2, <2>3, <2>5, <2>6, <2>7, JobKnown
  <2>. QED
    BY <2>7, <2>8
<1>15. ASSUME NEW j \in JobIDs \ ids PROVE ~b[j].haveAlloc
  <2>1. {lines[m] : m \in {k \in 1 .. n : lines[k].id = j}} = {}
    BY <1>9
  <2>2. KnownFrom(b[j], {})
    BY <1>12, <2>1 DEF KnownUpTo
  <2>. QED
    BY <2>2 DEF KnownFrom
<1>16. {k \in JobIDs : b[k].haveAlloc} = Recorder(ids)
  BY <1>8, <1>14, <1>15 DEF Recorder
<1>17. DOMAIN r = Recorder(ids) /\ \A j \in Recorder(ids) : r[j] = b[j] /\ j \in ids
  BY <1>13, <1>16 DEF Recorder
<1>18. \A j \in Recorder(ids) : b[j].haveAlloc
  BY <1>14 DEF Recorder
<1>19. RecordsOf(r, ids)
  BY <1>14, <1>17, <1>18 DEF RecordsOf
<1>. QED
  BY <1>11, <1>19
-----------------------------------------------------------------------------
(* AggregateSacctEfficiency and the series.                                *)

\* The values of a series in c.
ValuesIn(c, n, user, account) ==
  {m.value : m \in {x \in c : x.name = n /\ x.user = user /\ x.account = account}}

\* The records of a user in an account.
RecordedFor(records, user, account) ==
  {j \in DOMAIN records : records[j].rec.account = account /\ records[j].rec.user = user}

\* What is aggregated of a group is all that there is of it, and there is no group of no records.
LEMMA GroupsAre ==
  ASSUME NEW records, NEW user, NEW account, NEW K, K = RecordedFor(records, user, account)
  PROVE  /\ \A g \in AggregateSacctEfficiency(records) :
              g.user = user /\ g.account = account => g.agg = Aggregate(records, K) /\ K # {}
         /\ K # {} => [account |-> account, user |-> user, agg |-> Aggregate(records, K)]
                        \in AggregateSacctEfficiency(records)
<1>1. ASSUME NEW g \in AggregateSacctEfficiency(records), g.user = user, g.account = account
      PROVE  g.agg = Aggregate(records, K) /\ K # {}
  <2>1. PICK j \in DOMAIN records :
          g = [account |-> records[j].rec.account, user |-> records[j].rec.user,
               agg |-> Aggregate(records, RecordedFor(records, records[j].rec.user,
                                                      records[j].rec.account))]
    BY <1>1 DEF AggregateSacctEfficiency, RecordedFor
  <2>2. PICK a, u, G : /\ a = records[j].rec.account /\ u = records[j].rec.user
                       /\ G = Aggregate(records, RecordedFor(records, u, a))
    OBVIOUS
  <2>3. g = [account |-> a, user |-> u, agg |-> G]
    BY <2>1, <2>2
  <2>4. g.account = a /\ g.user = u /\ g.agg = G
    BY <2>3
  <2>5. a = account /\ u = user
    BY <1>1, <2>4
  <2>6. j \in K
    BY <2>2, <2>5 DEF RecordedFor
  <2>. QED
    BY <2>2, <2>4, <2>5, <2>6
<1>2. ASSUME K # {}
      PROVE  [account |-> account, user |-> user, agg |-> Aggregate(records, K)]
               \in AggregateSacctEfficiency(records)
  <2>1. PICK j \in DOMAIN records : records[j].rec.account = account /\ records[j].rec.user = user
    BY <1>2 DEF RecordedFor
  <2>2. PICK q : q = records[j].rec
    OBVIOUS
  <2>3. q \in {records[k].rec : k \in DOMAIN records} /\ q.account = account /\ q.user = user
    BY <2>1, <2>2
  <2>4. [account |-> q.account, user |-> q.user,
         agg |-> Aggregate(records, RecordedFor(records, q.user, q.account))]
          \in AggregateSacctEfficiency(records)
    BY <2>3 DEF AggregateSacctEfficiency, RecordedFor
  <2>. QED
    BY <2>3, <2>4
<1>. QED
  BY <1>1, <1>2

\* Metrics: a group has one value in each of its series.
LEMMA SeriesAre ==
  ASSUME NEW records, NEW user, NEW account, NEW K, K = RecordedFor(records, user, account),
         NEW agg, agg = Aggregate(records, K),
         NEW c, c = Metrics(AggregateSacctEfficiency(records))
  PROVE  /\ ValuesIn(c, "jobCount", user, account) = IF K = {} THEN {} ELSE {agg.jobCount}
         /\ ValuesIn(c, "memEfficiency", user, account)
              = IF K # {} /\ agg.memEfficiency[2] > 0 THEN {agg.memEfficiency} ELSE {}
<1>1. PICK G : G = AggregateSacctEfficiency(records)
  OBVIOUS
<1>2. /\ \A g \in G : g.user = user /\ g.account = account => g.agg = agg /\ K # {}
      /\ K # {} => [account |-> account, user |-> user, agg |-> agg] \in G
  BY <1>1, GroupsAre
<1>. DEFINE Names(g) == {"cpuEfficiency", "jobCount", "cpuHoursAllocated"}
                          \cup (IF g.agg.memEfficiency[2] > 0 THEN {"memEfficiency"} ELSE {})
            Entry(n, g) == [name |-> n, account |-> g.account, user |-> g.user, value |-> g.agg[n]]
<1>3. c = UNION {{Entry(n, g) : n \in Names(g)} : g \in G}
  BY <1>1 DEF Metrics
<1>4. \A n, g : /\ Entry(n, g).name = n /\ Entry(n, g).account = g.account
                /\ Entry(n, g).user = g.user /\ Entry(n, g).value = g.agg[n]
  OBVIOUS
<1>5. \A x \in c : \E g \in G : \E n \in Names(g) : x = Entry(n, g)
  BY <1>3
<1>6. \A g \in G : \A n \in Names(g) : Entry(n, g) \in c
  BY <1>3
<1>7. \A g : /\ "jobCount" \in Names(g)
             /\ "memEfficiency" \in Names(g) <=> g.agg.memEfficiency[2] > 0
  OBVIOUS
<1>. HIDE DEF Names, Entry
<1>8. ASSUME NEW n, NEW v, v \in ValuesIn(c, n, user, account)
      PROVE  K # {} /\ v = agg[n] /\ \E g \in G : g.agg = agg /\ n \in Names(g)
  <2>1. PICK x \in c : x.name = n /\ x.user = user /\ x.account = account /\ x.value = v
    BY <1>8 DEF ValuesIn
  <2>2. PICK g \in G : \E k \in Names(g) : x = Entry(k, g)
    BY <1>5
  <2>k. PICK k \in Names(g) : x = Entry(k, g)
    BY <2>2
  <2>3. k = n /\ g.account = account /\ g.user = user /\ v = g.agg[k]
    BY <1>4, <2>1, <2>k
  <2>. QED
    BY <1>2, <2>3
<1>9. ASSUME K # {}, NEW n, \A g \in G : g.agg = agg => n \in Names(g)
      PROVE  agg[n] \in ValuesIn(c, n, user, account)
  <2>1. PICK g : g = [account |-> account, user |-> user, agg |-> agg]
    OBVIOUS
  <2>2. g \in G /\ g.account = account /\ g.user = user /\ g.agg = agg
    BY <1>2, <1>9, <2>1
  <2>3. PICK x : x = Entry(n, g)
    OBVIOUS
  <2>4. x \in c
    BY <1>6, <1>9, <2>2, <2>3
  <2>5. x.name = n /\ x.account = account /\ x.user = user /\ x.value = agg[n]
    BY <1>4, <2>2, <2>3
  <2>. QED
    BY <2>4, <2>5 DEF ValuesIn
<1>10. ValuesIn(c, "jobCount", user, account) = IF K = {} THEN {} ELSE {agg.jobCount}
  <2>1. K # {} => agg["jobCount"] \in ValuesIn(c, "jobCount", user, account)
    BY <1>7, <1>9
  <2>. QED
    BY <1>8, <2>1
<1>11. ValuesIn(c, "memEfficiency", user, account)
         = IF K # {} /\ agg.memEfficiency[2] > 0 THEN {agg.memEfficiency} ELSE {}
  <2>1. K # {} /\ agg.memEfficiency[2] > 0
          => agg["memEfficiency"] \in ValuesIn(c, "memEfficiency", user, account)
    BY <1>7, <1>9
  <2>2. \A v \in ValuesIn(c, "memEfficiency", user, account) :
          K # {} /\ v = agg["memEfficiency"] /\ agg.memEfficiency[2] > 0
    BY <1>7, <1>8
  <2>. QED
    BY <2>1, <2>2
<1>. QED
  BY <1>10, <1>11

\* EveryListedJobCounted of one user and account, with the jobs as e has them, the series c
\* and the jobs ids listed for them.
UsedIn(e, ids, user, account) ==
  IF user = "" \/ account = "" THEN {}
  ELSE {j \in ids : /\ e[j].user = user /\ e[j].account = account
                    /\ e[j].alloc > 0 /\ e[j].elapsed > 0}
MeasuredIn(e, ids) ==
  {j \in ids : e[j].reqMem > 0 /\ \E i \in 1 .. Len(e[j].steps) : e[j].steps[i] > 0}
ShareIn(e, j) == (Max(ToSet(e[j].steps)) * 100) \div e[j].reqMem
CountedIn(e, c, ids, user, account) ==
  LET U == UsedIn(e, ids, user, account)
      M == MeasuredIn(e, U)
  IN /\ ValuesIn(c, "jobCount", user, account) = IF U = {} THEN {} ELSE {<<Cardinality(U), 1>>}
     /\ ValuesIn(c, "memEfficiency", user, account)
          = IF M = {} THEN {}
            ELSE {<<SumFunction([j \in M |-> ShareIn(e, j)]), Cardinality(M)>>}

\* Only what is said of the jobs listed matters.
LEMMA OnlyListed ==
  ASSUME NEW d, NEW e, NEW ids, \A j \in ids : d[j] = e[j], NEW c, NEW user, NEW account,
         CountedIn(d, c, ids, user, account)
  PROVE  CountedIn(e, c, ids, user, account)
<1>1. PICK U : U = UsedIn(e, ids, user, account)
  OBVIOUS
<1>2. U = UsedIn(d, ids, user, account) /\ U \subseteq ids
  BY <1>1 DEF UsedIn
<1>3. PICK M : M = MeasuredIn(e, U)
  OBVIOUS
<1>4. M = MeasuredIn(d, U) /\ M \subseteq ids
  BY <1>2, <1>3 DEF MeasuredIn
<1>5. [j \in M |-> ShareIn(e, j)] = [j \in M |-> ShareIn(d, j)]
  BY <1>4 DEF ShareIn
<1>. QED
  BY <1>1, <1>2, <1>3, <1>4, <1>5 DEF CountedIn

\* refresh: the series made of the jobs listed count them.
LEMMA RefreshCounts ==
  ASSUME EndedInv, NEW ids \in SUBSET HasEnded, NEW lines \in Orders(ids),
         NEW user, NEW account, NEW c,
         c = Metrics(AggregateSacctEfficiency(ParseSacctEfficiency(lines)))
  PROVE  CountedIn(ended, c, ids, user, account)
<1>1. PICK records : records = ParseSacctEfficiency(lines)
  OBVIOUS
<1>2. RecordsOf(records, ids)
  BY <1>1, JobsRead
<1>3. PICK K : K = RecordedFor(records, user, account)
  OBVIOUS
<1>4. PICK M : M = MeasuredIn(ended, K)
  OBVIOUS
<1>5. \A j \in HasEnded : JobFields(ended[j])
  BY DEF EndedInv
<1>6. \A j : /\ Allocation(j).user = ended[j].user /\ Allocation(j).account = ended[j].account
             /\ Allocation(j).alloc = ended[j].alloc /\ Allocation(j).elapsed = ended[j].elapsed
             /\ Allocation(j).reqMem = ended[j].reqMem /\ ~Allocation(j).isStep
  BY DEF Allocation
<1>7. ASSUME NEW j \in ids
      PROVE  j \in Recorder(ids) <=> /\ ended[j].user # "" /\ ended[j].account # ""
                                     /\ ended[j].alloc > 0 /\ ended[j].elapsed > 0
  <2>1. PICK e : e = ended[j]
    OBVIOUS
  <2>2. e.alloc \in Nat /\ e.elapsed \in Nat
    BY <1>5, <2>1 DEF JobFields
  <2>3. j \in Recorder(ids) <=> e.user # "" /\ e.account # "" /\ e.alloc # 0 /\ e.elapsed # 0
    BY <1>6, <2>1 DEF Recorder, Authoritative
  <2>4. (e.alloc # 0 <=> e.alloc > 0) /\ (e.elapsed # 0 <=> e.elapsed > 0)
    BY <2>2
  <2>. QED
    BY <2>1, <2>3, <2>4, Zenon
<1>8. \A j : j \in K <=> j \in Recorder(ids) /\ ended[j].user = user /\ ended[j].account = account
  BY <1>2, <1>3, <1>6 DEF RecordedFor, RecordsOf
<1>9. Recorder(ids) \subseteq ids
  BY DEF Recorder
<1>10. K = UsedIn(ended, ids, user, account)
  BY <1>7, <1>8, <1>9 DEF UsedIn
<1>11. {j \in K : InMemAverage(records[j])} = M
  <2> SUFFICES ASSUME NEW j \in K PROVE InMemAverage(records[j]) <=> j \in M
    BY <1>4 DEF MeasuredIn
  <2>1. j \in Recorder(ids)
    BY <1>8
  <2>2. records[j].rec.reqMem = ended[j].reqMem /\ (records[j].rssSeen <=> HasPeak(j))
    BY <1>2, <1>6, <2>1 DEF RecordsOf
  <2>. QED
    BY <1>4, <2>2 DEF InMemAverage, MeasuredIn, HasPeak
<1>12. \A j \in M : (records[j].maxRSS * 100) \div records[j].rec.reqMem = ShareIn(ended, j)
  <2> SUFFICES ASSUME NEW j \in M
               PROVE  (records[j].maxRSS * 100) \div records[j].rec.reqMem = ShareIn(ended, j)
    OBVIOUS
  <2>1. j \in Recorder(ids) /\ HasPeak(j)
    BY <1>4, <1>8 DEF MeasuredIn, HasPeak
  <2>2. records[j].rec.reqMem = ended[j].reqMem /\ records[j].maxRSS = Max(ToSet(ended[j].steps))
    BY <1>2, <1>6, <2>1 DEF RecordsOf, Peak
  <2>. QED
    BY <2>2 DEF ShareIn
<1>13. PICK agg : agg = Aggregate(records, K)
  OBVIOUS
<1>14. /\ agg.jobCount = <<Cardinality(K), 1>>
       /\ agg.memEfficiency = <<SumFunction([j \in M |-> ShareIn(ended, j)]), Cardinality(M)>>
  <2>1. PICK share, saved : /\ share = [j \in M |-> ShareIn(ended, j)]
                            /\ saved = [j \in M |-> (records[j].maxRSS * 100) \div records[j].rec.reqMem]
    OBVIOUS
  <2>2. share = saved
    BY <1>12, <2>1
  <2>3. agg.jobCount = <<Cardinality(K), 1>>
    BY <1>13 DEF Aggregate
  <2>4. agg.memEfficiency = <<SumFunction(saved), Cardinality(M)>>
    BY <1>11, <1>13, <2>1 DEF Aggregate
  <2>. QED
    BY <2>1, <2>2, <2>3, <2>4
<1>15. IsFiniteSet(M)
  <2>1. M \subseteq JobIDs
    BY <1>4, <1>8, <1>9 DEF MeasuredIn, HasEnded
  <2>2. IsFiniteSet(JobIDs)
    BY SacctAssumption, FS_Interval DEF JobIDs
  <2>. QED
    BY <2>1, <2>2, FS_Subset
<1>16. Cardinality(M) > 0 <=> M # {}
  BY <1>15, FS_EmptySet, FS_CardinalityType
<1>17. M # {} => K # {}
  BY <1>4 DEF MeasuredIn
<1>18. /\ ValuesIn(c, "jobCount", user, account) = IF K = {} THEN {} ELSE {agg.jobCount}
       /\ ValuesIn(c, "memEfficiency", user, account)
            = IF K # {} /\ agg.memEfficiency[2] > 0 THEN {agg.memEfficiency} ELSE {}
  BY <1>1, <1>3, <1>13, SeriesAre
<1>19. agg.memEfficiency[2] = Cardinality(M)
  <2>1. PICK x, y : x = SumFunction([j \in M |-> ShareIn(ended, j)]) /\ y = Cardinality(M)
    OBVIOUS
  <2>2. agg.memEfficiency = <<x, y>>
    BY <1>14, <2>1
  <2>3. agg.memEfficiency[2] = y
    BY <2>2
  <2>. QED
    BY <2>1, <2>3
<1>20. CountedIn(ended, c, ids, user, account)
  <2>1. ValuesIn(c, "jobCount", user, account) = IF K = {} THEN {} ELSE {<<Cardinality(K), 1>>}
    BY <1>14, <1>18
  <2>2. ValuesIn(c, "memEfficiency", user, account)
          = IF M = {} THEN {}
            ELSE {<<SumFunction([j \in M |-> ShareIn(ended, j)]), Cardinality(M)>>}
    BY <1>14, <1>16, <1>17, <1>18, <1>19
  <2>. QED
    BY <1>4, <1>10, <2>1, <2>2 DEF CountedIn
<1>. QED
  BY <1>20

\* CountedIn, of every user and account there may be, is EveryListedJobCounted.
SacctLabels == {e.user : e \in Endings} \cup {e.account : e \in Endings}
CountedAll(e, c, ids) == \A user, account \in SacctLabels : CountedIn(e, c, ids, user, account)

\* EveryListedJobCounted, in those words, now and after a step.
LEMMA CountedSays ==
  /\ EveryListedJobCounted <=> CountedAll(ended, cached, listed)
  /\ EveryListedJobCounted' <=> CountedAll(ended', cached', listed')
<1>1. EveryListedJobCounted <=> CountedAll(ended, cached, listed)
  BY Zenon DEF EveryListedJobCounted, CountedAll, CountedIn, SacctLabels, ValuesIn, UsedIn, Used,
         MeasuredIn, Measured, ShareIn, Peak
<1>2. EveryListedJobCounted' <=> CountedAll(ended', cached', listed')
  BY Zenon DEF EveryListedJobCounted, CountedAll, CountedIn, SacctLabels, ValuesIn, UsedIn, Used,
         MeasuredIn, Measured, ShareIn, Peak
<1>. QED
  BY <1>1, <1>2

\* ParseSacctEfficiency, AggregateSacctEfficiency: every job listed that used something is
\* counted once, and the averages of memory are over the peaks of those that have one.
THEOREM EveryListedJobCountedHolds == SacctSpec => []EveryListedJobCounted
<1>1. SacctInit => EndedInv /\ EveryListedJobCounted
  <2> SUFFICES ASSUME SacctInit PROVE EndedInv /\ EveryListedJobCounted
    OBVIOUS
  <2>1. EndedInv
    BY DEF SacctInit, EndedInv, HasEnded, Running
  <2>2. cached = {} /\ listed = {}
    BY DEF SacctInit
  <2>3. CountedAll(ended, cached, listed)
    BY <2>2 DEF CountedAll, CountedIn, ValuesIn, UsedIn, MeasuredIn
  <2>. QED
    BY <2>1, <2>3, CountedSays
<1>2. EndedInv /\ EveryListedJobCounted /\ [SacctNext]_sacctVars => EndedInv' /\ EveryListedJobCounted'
  <2> SUFFICES ASSUME EndedInv, EveryListedJobCounted, [SacctNext]_sacctVars
               PROVE  EndedInv' /\ EveryListedJobCounted'
    OBVIOUS
  <2>1. EndedInv'
    BY EndedStep
  <2>2. CountedAll(ended, cached, listed)
    BY CountedSays
  <2>3. CASE refresh
    <3>1. PICK ids, lines :
            /\ ids \subseteq HasEnded /\ lines \in Orders(ids)
            /\ cached' = Metrics(AggregateSacctEfficiency(ParseSacctEfficiency(lines)))
            /\ listed' = ids /\ ended' = ended
      <4>1. PICK from, to : \E lines \in Orders(SacctSelects(from, to)) :
              /\ cached' = Metrics(AggregateSacctEfficiency(ParseSacctEfficiency(lines)))
              /\ listed' = SacctSelects(from, to) /\ ended' = ended
        BY <2>3 DEF refresh
      <4>2. SacctSelects(from, to) \subseteq HasEnded
        BY DEF SacctSelects
      <4>. QED
        BY <4>1, <4>2
    <3>2. PICK c : c = cached'
      OBVIOUS
    <3>3. \A user, account \in SacctLabels : CountedIn(ended, c, ids, user, account)
      BY <3>1, <3>2, RefreshCounts
    <3>4. CountedAll(ended', cached', listed')
      BY <3>1, <3>2, <3>3 DEF CountedAll
    <3>. QED
      BY <2>1, <3>4, CountedSays
  <2>4. ASSUME cached' = cached, listed' = listed, \A j \in listed : ended[j] = ended'[j]
        PROVE  CountedAll(ended', cached', listed')
    <3>1. PICK d, e, c, ids : d = ended /\ e = ended' /\ c = cached /\ ids = listed
      OBVIOUS
    <3>2. \A user, account \in SacctLabels : CountedIn(d, c, ids, user, account)
      BY <2>2, <3>1 DEF CountedAll
    <3>3. \A j \in ids : d[j] = e[j]
      BY <2>4, <3>1
    <3>4. \A user, account \in SacctLabels : CountedIn(e, c, ids, user, account)
      BY <3>2, <3>3, OnlyListed
    <3>. QED
      BY <2>4, <3>1, <3>4 DEF CountedAll
  <2>5. ASSUME NEW j \in JobIDs, JobEnds(j) PROVE EveryListedJobCounted'
    <3>1. PICK e \in Endings : ended' = [ended EXCEPT ![j] = EndedAt(e, clock)]
      BY <2>5 DEF JobEnds
    <3>2. ended[j].state = "RUNNING" /\ cached' = cached /\ listed' = listed
      BY <2>5 DEF JobEnds, Running
    <3>3. \A k \in listed : k # j
      BY <3>2 DEF EndedInv, HasEnded
    <3>4. \A k \in listed : ended[k] = ended'[k]
      BY <3>1, <3>3 DEF EndedInv
    <3>. QED
      BY <2>4, <3>2, <3>4, CountedSays
  <2>6. CASE refreshFails \/ Passes \/ UNCHANGED sacctVars
    <3>1. ended' = ended /\ cached' = cached /\ listed' = listed
      BY <2>6 DEF refreshFails, Passes, sacctVars
    <3>. QED
      BY <2>1, <2>4, <3>1, CountedSays
  <2>. QED
    BY <2>1, <2>3, <2>5, <2>6 DEF SacctNext
<1>. QED
  BY <1>1, <1>2, PTL DEF SacctSpec

-----------------------------------------------------------------------------
(* The nodes of a reservation in NodeInventory.                            *)

\* The words and flags that slurmctld has for a node.
NodeType == [base : Up \cup {"UNKNOWN", "DOWN"},
             drain : BOOLEAN, planned : BOOLEAN, responds : BOOLEAN,
             resv : Reservations \cup {NoResv},
             reason : Reasons \cup {NoReason, Silent}, used : Int]

NodesTyped == node \in [Nodes -> NodeType]

Members(r)         == {n \in VisibleNodes : node[n].resv = r}
ReservedIn(r, B)   == {n \in Members(r) : node[n].base \in B}
ReservedDrained(r) == {n \in Members(r) : node[n].drain}
ReservedUsable(r)  == {n \in Members(r) : node[n].base \in Up /\ ~node[n].drain}

\* The line of a node in scontrol's listing, and those of some nodes.
Line(n) == [node |-> n, base |-> node[n].base, resv |-> node[n].resv,
            flags |-> {f \in {"DRAIN", "PLANNED"} : \/ f = "DRAIN" /\ node[n].drain
                                                    \/ f = "PLANNED" /\ node[n].planned}]
Lines(ns) == {Line(n) : n \in ns}

\* scontrol prints a line for each node, so lines are counted as nodes are.
LEMMA SameCount ==
  ASSUME NEW ns \in SUBSET Nodes
  PROVE  /\ IsFiniteSet(ns)
         /\ Cardinality(Lines(ns)) = Cardinality(ns)
<1>1. IsFiniteSet(ns)
  BY FS_Subset, InventoryAssumption
<1>. DEFINE f == [n \in ns |-> Line(n)]
<1>2. \A n \in ns : Line(n).node = n
  BY DEF Line
<1>3. f \in Bijection(ns, Lines(ns))
  <2>1. f \in [ns -> Lines(ns)]
    BY DEF Lines
  <2>2. \A a, b \in ns : f[a] = f[b] => a = b
    BY <1>2
  <2>3. \A l \in Lines(ns) : \E n \in ns : f[n] = l
    BY DEF Lines
  <2>. QED
    BY <2>1, <2>2, <2>3 DEF Bijection, Injection, Surjection, IsInjective
<1>4. ExistsBijection(ns, Lines(ns))
  BY <1>3 DEF ExistsBijection
<1>. QED
  BY <1>1, <1>4, FS_Bijection


\* Nodes that are told apart are counted apart.
LEMMA DisjointCount ==
  ASSUME NEW S \in SUBSET Nodes, NEW T \in SUBSET Nodes, S \cap T = {}
  PROVE  Cardinality(S \cup T) = Cardinality(S) + Cardinality(T)
<1>1. IsFiniteSet(S) /\ IsFiniteSet(T)
  BY SameCount
<1>2. Cardinality(S) \in Nat /\ Cardinality(T) \in Nat /\ Cardinality(S \cap T) = 0
  BY <1>1, FS_CardinalityType, FS_EmptySet
<1>3. Cardinality(S \cup T) = Cardinality(S) + Cardinality(T) - Cardinality(S \cap T)
  BY <1>1, FS_Union
<1>. QED
  BY <1>2, <1>3

\* What ParseReservationNodesMetrics counts of a reservation, in terms of slurmctld's nodes.
LEMMA ReservationCounts ==
  ASSUME NodesTyped, NEW r \in DOMAIN ParseReservationNodesMetrics(ScontrolNodes)
  PROVE  LET m == ParseReservationNodesMetrics(ScontrolNodes)[r]
         IN  /\ m.alloc = Cardinality(ReservedIn(r, {"ALLOCATED"}))
             /\ m.idle = Cardinality(ReservedIn(r, {"IDLE"}))
             /\ m.mix = Cardinality(ReservedIn(r, {"MIXED"}))
             /\ m.down = Cardinality(ReservedIn(r, {"DOWN"}))
             /\ m.other = Cardinality(ReservedIn(r, {"UNKNOWN"}))
             /\ m.drain = Cardinality(ReservedDrained(r))
             /\ m.healthy = Cardinality(ReservedUsable(r))
<1>1. ScontrolNodes = Lines(VisibleNodes) /\ VisibleNodes \subseteq Nodes
  BY DEF ScontrolNodes, Lines, Line, VisibleNodes
<1>2. \A n \in Nodes : /\ Line(n).base = node[n].base
                       /\ Line(n).resv = node[n].resv
                       /\ "DRAIN" \in Line(n).flags <=> node[n].drain
  BY DEF Line
<1>3. \A n \in Nodes : node[n].base \in {"MIXED", "ALLOCATED", "IDLE", "UNKNOWN", "DOWN"}
  BY DEF NodesTyped, NodeType, Up, Busy
<1>. DEFINE m == ParseReservationNodesMetrics(ScontrolNodes)[r]
<1>4. /\ m.alloc = Cardinality({l \in Lines(VisibleNodes) : l.resv = r /\ l.base = "ALLOCATED"})
      /\ m.idle = Cardinality({l \in Lines(VisibleNodes) : l.resv = r /\ l.base = "IDLE"})
      /\ m.mix = Cardinality({l \in Lines(VisibleNodes) : l.resv = r /\ l.base = "MIXED"})
      /\ m.down = Cardinality({l \in Lines(VisibleNodes) : l.resv = r /\ l.base = "DOWN"})
      /\ m.other = Cardinality({l \in Lines(VisibleNodes) : l.resv = r /\ l.base \notin Up \cup {"DOWN"}})
      /\ m.drain = Cardinality({l \in Lines(VisibleNodes) : l.resv = r /\ "DRAIN" \in l.flags})
      /\ m.healthy = Cardinality({l \in Lines(VisibleNodes) :
                                   l.resv = r /\ l.base \in Up /\ "DRAIN" \notin l.flags})
  BY <1>1 DEF ParseReservationNodesMetrics
<1>5. {l \in Lines(VisibleNodes) : l.resv = r /\ l.base = "ALLOCATED"}
        = Lines(ReservedIn(r, {"ALLOCATED"}))
  BY <1>1, <1>2, <1>3 DEF Lines, ReservedIn, ReservedDrained, ReservedUsable, Members, Up, Busy
<1>6. {l \in Lines(VisibleNodes) : l.resv = r /\ l.base = "IDLE"}
        = Lines(ReservedIn(r, {"IDLE"}))
  BY <1>1, <1>2, <1>3 DEF Lines, ReservedIn, ReservedDrained, ReservedUsable, Members, Up, Busy
<1>7. {l \in Lines(VisibleNodes) : l.resv = r /\ l.base = "MIXED"}
        = Lines(ReservedIn(r, {"MIXED"}))
  BY <1>1, <1>2, <1>3 DEF Lines, ReservedIn, ReservedDrained, ReservedUsable, Members, Up, Busy
<1>8. {l \in Lines(VisibleNodes) : l.resv = r /\ l.base = "DOWN"}
        = Lines(ReservedIn(r, {"DOWN"}))
  BY <1>1, <1>2, <1>3 DEF Lines, ReservedIn, ReservedDrained, ReservedUsable, Members, Up, Busy
<1>9. {l \in Lines(VisibleNodes) : l.resv = r /\ l.base \notin Up \cup {"DOWN"}}
        = Lines(ReservedIn(r, {"UNKNOWN"}))
  BY <1>1, <1>2, <1>3 DEF Lines, ReservedIn, ReservedDrained, ReservedUsable, Members, Up, Busy
<1>10. {l \in Lines(VisibleNodes) : l.resv = r /\ "DRAIN" \in l.flags}
        = Lines(ReservedDrained(r))
  BY <1>1, <1>2, <1>3 DEF Lines, ReservedIn, ReservedDrained, ReservedUsable, Members, Up, Busy
<1>11. {l \in Lines(VisibleNodes) : l.resv = r /\ l.base \in Up /\ "DRAIN" \notin l.flags}
        = Lines(ReservedUsable(r))
  BY <1>1, <1>2, <1>3 DEF Lines, ReservedIn, ReservedDrained, ReservedUsable, Members, Up, Busy
<1>12. /\ ReservedDrained(r) \in SUBSET Nodes
       /\ ReservedUsable(r) \in SUBSET Nodes
       /\ \A B : ReservedIn(r, B) \in SUBSET Nodes
  BY <1>1 DEF ReservedIn, ReservedDrained, ReservedUsable, Members
<1>. QED
  BY <1>4, <1>5, <1>6, <1>7, <1>8, <1>9, <1>10, <1>11, <1>12, SameCount

\* So are nodes in different states.
LEMMA StatesCount ==
  ASSUME NEW r, NEW B, NEW C, B \cap C = {}
  PROVE  Cardinality(ReservedIn(r, B \cup C)) =
           Cardinality(ReservedIn(r, B)) + Cardinality(ReservedIn(r, C))
<1>1. /\ ReservedIn(r, B) \in SUBSET Nodes
      /\ ReservedIn(r, C) \in SUBSET Nodes
      /\ ReservedIn(r, B) \cap ReservedIn(r, C) = {}
      /\ ReservedIn(r, B \cup C) = ReservedIn(r, B) \cup ReservedIn(r, C)
  BY DEF ReservedIn, Members, VisibleNodes
<1>. QED
  BY <1>1, DisjointCount

\* scontrol's base state and flags say the same of a node as the words of sinfo.
LEMMA UsableWord ==
  ASSUME NodesTyped, NEW n \in Nodes
  PROVE  node[n].base \in Up /\ ~node[n].drain
           <=> Bucket(StateLong(n)) \notin {"drain", "down", "other"}
<1>1. /\ node[n].base \in {"MIXED", "ALLOCATED", "IDLE", "UNKNOWN", "DOWN"}
      /\ node[n].drain \in BOOLEAN
  BY DEF NodesTyped, NodeType, Up, Busy
<1>2. StateLong(n).word = Word(node[n])
  BY DEF StateLong
<1>3. CASE node[n].drain
  <2>1. Word(node[n]) \in {"draining", "drained"}
    BY <1>3 DEF Word
  <2>2. Bucket(StateLong(n)) = "drain"
    BY <1>2, <2>1 DEF Bucket
  <2>. QED
    BY <1>3, <2>2
<1>4. CASE ~node[n].drain /\ node[n].base \in {"UNKNOWN", "DOWN"}
  <2>1. Word(node[n]) \in {"unknown", "down"}
    BY <1>4 DEF Word
  <2>2. Bucket(StateLong(n)) \in {"other", "down"}
    BY <1>2, <2>1 DEF Bucket
  <2>. QED
    BY <1>4, <2>2 DEF Up, Busy
<1>5. CASE ~node[n].drain /\ node[n].base \in Up
  <2>1. Word(node[n]) \in {"mixed", "allocated", "planned", "reserved", "idle"}
    BY <1>5 DEF Word, Up, Busy
  <2>2. Bucket(StateLong(n)) \in {"mix", "alloc", "planned", "resv", "idle"}
    BY <1>2, <2>1 DEF Bucket
  <2>. QED
    BY <1>5, <2>2
<1>. QED
  BY <1>1, <1>3, <1>4, <1>5 DEF Up, Busy

\* slurmctld's nodes keep their types.
THEOREM NodesTypedCorrect == Spec => []NodesTyped
<1>1. ASSUME Init PROVE NodesTyped
  <2>1. [base |-> "UNKNOWN", drain |-> FALSE, planned |-> FALSE, responds |-> FALSE,
         resv |-> NoResv, reason |-> NoReason, used |-> 0] \in NodeType
    BY DEF NodeType
  <2>. QED
    BY <1>1, <2>1 DEF Init, NodesTyped
<1>2. ASSUME NodesTyped, [Next]_vars PROVE NodesTyped'
  <2>1. CASE UNCHANGED node
    BY <1>2, <2>1 DEF NodesTyped
  <2>2. ASSUME NEW n \in Nodes, Register(n) PROVE NodesTyped'
    <3>1. PICK q \in Reasons \cup {NoReason, Silent} :
            node' = [node EXCEPT ![n].base = "IDLE", ![n].responds = TRUE, ![n].reason = q]
      BY <1>2, <2>2 DEF Register, NodesTyped, NodeType
    <3>2. [node[n] EXCEPT !.base = "IDLE", !.responds = TRUE, !.reason = q] \in NodeType
      BY <1>2 DEF NodesTyped, NodeType, Up
    <3>. QED
      BY <1>2, <3>1, <3>2 DEF NodesTyped
  <2>3. ASSUME NEW n \in Nodes, Allocate(n) PROVE NodesTyped'
    <3>1. PICK b \in Busy, u \in Int :
            node' = [node EXCEPT ![n].base = b, ![n].used = u, ![n].planned = FALSE]
      <4>1. \A u : u \in node[n].used .. parseGPUCount(Inventory[n].gres) => u \in Int
        OBVIOUS
      <4>. QED
        BY <2>3, <4>1 DEF Allocate
    <3>2. [node[n] EXCEPT !.base = b, !.used = u, !.planned = FALSE] \in NodeType
      BY <1>2 DEF NodesTyped, NodeType, Up
    <3>. QED
      BY <1>2, <3>1, <3>2 DEF NodesTyped
  <2>4. ASSUME NEW n \in Nodes, Release(n) PROVE NodesTyped'
    <3>1. PICK u \in Int, b \in {"MIXED", "IDLE"} :
            node' = [node EXCEPT ![n].base = b, ![n].used = u]
      <4>1. \A u : u \in 0 .. node[n].used => u \in Int
        OBVIOUS
      <4>. QED
        BY <2>4, <4>1 DEF Release
    <3>2. [node[n] EXCEPT !.base = b, !.used = u] \in NodeType
      BY <1>2 DEF NodesTyped, NodeType, Up, Busy
    <3>. QED
      BY <1>2, <3>1, <3>2 DEF NodesTyped
  <2>5. ASSUME NEW n \in Nodes, Drain(n) PROVE NodesTyped'
    <3>1. PICK q \in Reasons \cup {NoReason, Silent} :
            node' = [node EXCEPT ![n].drain = TRUE, ![n].reason = q, ![n].planned = FALSE]
      BY <1>2, <2>5 DEF Drain, NodesTyped, NodeType
    <3>2. [node[n] EXCEPT !.drain = TRUE, !.reason = q, !.planned = FALSE] \in NodeType
      BY <1>2 DEF NodesTyped, NodeType, Up
    <3>. QED
      BY <1>2, <3>1, <3>2 DEF NodesTyped
  <2>6. ASSUME NEW n \in Nodes, Undrain(n) PROVE NodesTyped'
    <3>1. PICK q \in Reasons \cup {NoReason, Silent} :
            node' = [node EXCEPT ![n].drain = FALSE, ![n].reason = q]
      BY <1>2, <2>6 DEF Undrain, NodesTyped, NodeType
    <3>2. [node[n] EXCEPT !.drain = FALSE, !.reason = q] \in NodeType
      BY <1>2 DEF NodesTyped, NodeType, Up
    <3>. QED
      BY <1>2, <3>1, <3>2 DEF NodesTyped
  <2>7. ASSUME NEW n \in Nodes, Hush(n) PROVE NodesTyped'
    BY <1>2, <2>7 DEF Hush, NodesTyped, NodeType, Up, Busy
  <2>8. ASSUME NEW n \in Nodes, Answer(n) PROVE NodesTyped'
    BY <1>2, <2>8 DEF Answer, NodesTyped, NodeType, Up, Busy
  <2>9. ASSUME NEW n \in Nodes, Fail(n) PROVE NodesTyped'
    <3>1. PICK q \in Reasons \cup {NoReason, Silent}, p \in {FALSE}, u \in {0} :
            node' = [node EXCEPT ![n].base = "DOWN", ![n].used = u, ![n].planned = p,
                                 ![n].reason = q]
      BY <1>2, <2>9 DEF Fail, NodesTyped, NodeType
    <3>2. p \in BOOLEAN
      OBVIOUS
    <3>3. u \in Int
      OBVIOUS
    <3>4. [node[n] EXCEPT !.base = "DOWN", !.used = u, !.planned = p, !.reason = q]
            \in NodeType
      BY <1>2, <3>2, <3>3 DEF NodesTyped, NodeType, Up
    <3>. QED
      BY <1>2, <3>1, <3>4 DEF NodesTyped
  <2>10. ASSUME NEW n \in Nodes, Plan(n) PROVE NodesTyped'
    <3>1. PICK p \in BOOLEAN :
            node' = [node EXCEPT ![n].planned = p]
      BY <1>2, <2>10 DEF Plan, NodesTyped, NodeType
    <3>2. [node[n] EXCEPT !.planned = p] \in NodeType
      BY <1>2 DEF NodesTyped, NodeType, Up
    <3>. QED
      BY <1>2, <3>1, <3>2 DEF NodesTyped
  <2>11. ASSUME NEW n \in Nodes, Reserve(n) PROVE NodesTyped'
    BY <1>2, <2>11 DEF Reserve, NodesTyped, NodeType, Up, Busy
  <2>12. ASSUME NEW r \in Reservations, Begin(r) PROVE NodesTyped'
    <3>1. ASSUME NEW n \in Nodes PROVE node'[n] \in NodeType
      <4>1. node[n] \in NodeType /\ [node[n] EXCEPT !.resv = r] \in NodeType
        BY <1>2 DEF NodesTyped, NodeType
      <4>2. node'[n] = IF n \in inactive[r] THEN [node[n] EXCEPT !.resv = r] ELSE node[n]
        BY <2>12 DEF Begin
      <4>. QED
        BY <4>1, <4>2
    <3>2. node' = [n \in Nodes |-> node'[n]]
      BY <2>12 DEF Begin
    <3>. QED
      BY <3>1, <3>2 DEF NodesTyped
  <2>13. UNCHANGED node \/ NodeChanges \/ \E r \in Reservations : Begin(r)
    BY <1>2 DEF Next, vars, Book, Delete
  <2>. QED
    BY <2>1, <2>2, <2>3, <2>4, <2>5, <2>6, <2>7, <2>8, <2>9, <2>10, <2>11, <2>12, <2>13 DEF NodeChanges
<1>. QED
  BY <1>1, <1>2, PTL DEF Spec

\* ParseReservationNodesMetrics: a node is healthy iff it is up and not drained, whether or
\* not it responds, each node is in one base state, and what is up but not healthy is drained.
THEOREM HealthyIsUpHolds == Spec => []HealthyIsUp
<1>1. ASSUME NodesTyped PROVE HealthyIsUp
  <2> SUFFICES
        ASSUME NEW r \in DOMAIN ParseReservationNodesMetrics(ScontrolNodes)
        PROVE  LET m == ParseReservationNodesMetrics(ScontrolNodes)[r]
               IN  /\ m.healthy = Cardinality({n \in Members(r) :
                        Bucket(StateLong(n)) \notin {"drain", "down", "other"}})
                   /\ m.healthy = Cardinality({n \in Members(r) : Schedulable(n)})
                                  + Cardinality({n \in {n \in Members(r) :
                                        Bucket(StateLong(n)) \notin {"drain", "down", "other"}} : ~node[n].responds})
                   /\ m.alloc + m.idle + m.mix + m.down + m.other = Cardinality(Members(r))
                   /\ m.alloc + m.idle + m.mix <= m.healthy + m.drain
    BY DEF HealthyIsUp, Members
  <2>1. {n \in Members(r) : Bucket(StateLong(n)) \notin {"drain", "down", "other"}}
          = ReservedUsable(r)
    BY <1>1, UsableWord DEF Members, ReservedUsable, VisibleNodes
  <2>7. Cardinality(ReservedUsable(r)) = Cardinality({n \in Members(r) : Schedulable(n)})
                                         + Cardinality({n \in ReservedUsable(r) : ~node[n].responds})
    <3>1. PICK S, T : /\ S = {n \in Members(r) : Schedulable(n)}
                      /\ T = {n \in ReservedUsable(r) : ~node[n].responds}
      OBVIOUS
    <3>2. S \in SUBSET Nodes /\ T \in SUBSET Nodes /\ S \cap T = {} /\ S \cup T = ReservedUsable(r)
      BY <3>1 DEF Members, ReservedUsable, Schedulable, VisibleNodes
    <3>. QED
      BY <3>1, <3>2, DisjointCount
  <2>2. /\ Cardinality(ReservedIn(r, {"ALLOCATED"} \cup {"IDLE"})) =
             Cardinality(ReservedIn(r, {"ALLOCATED"})) + Cardinality(ReservedIn(r, {"IDLE"}))
        /\ Cardinality(ReservedIn(r, {"ALLOCATED", "IDLE"} \cup {"MIXED"})) =
             Cardinality(ReservedIn(r, {"ALLOCATED", "IDLE"}))
             + Cardinality(ReservedIn(r, {"MIXED"}))
        /\ Cardinality(ReservedIn(r, Up \cup {"DOWN"})) =
             Cardinality(ReservedIn(r, Up)) + Cardinality(ReservedIn(r, {"DOWN"}))
        /\ Cardinality(ReservedIn(r, (Up \cup {"DOWN"}) \cup {"UNKNOWN"})) =
             Cardinality(ReservedIn(r, Up \cup {"DOWN"})) + Cardinality(ReservedIn(r, {"UNKNOWN"}))
    BY StatesCount DEF Up, Busy
  <2>3. /\ {"ALLOCATED"} \cup {"IDLE"} = {"ALLOCATED", "IDLE"}
        /\ {"ALLOCATED", "IDLE"} \cup {"MIXED"} = Up
    BY DEF Up, Busy
  <2>4. ReservedIn(r, (Up \cup {"DOWN"}) \cup {"UNKNOWN"}) = Members(r)
    BY <1>1 DEF ReservedIn, Members, NodesTyped, NodeType, VisibleNodes
  <2>5. Cardinality(ReservedIn(r, Up)) <= Cardinality(ReservedUsable(r))
                                          + Cardinality(ReservedDrained(r))
    <3>1. /\ ReservedUsable(r) \in SUBSET Nodes
          /\ ReservedDrained(r) \in SUBSET Nodes
          /\ ReservedUsable(r) \cap ReservedDrained(r) = {}
          /\ ReservedIn(r, Up) \in SUBSET (ReservedUsable(r) \cup ReservedDrained(r))
      BY DEF ReservedUsable, ReservedDrained, ReservedIn, Members, VisibleNodes
    <3>2. Cardinality(ReservedUsable(r) \cup ReservedDrained(r)) =
            Cardinality(ReservedUsable(r)) + Cardinality(ReservedDrained(r))
      BY <3>1, DisjointCount
    <3>3. IsFiniteSet(ReservedUsable(r) \cup ReservedDrained(r))
      BY <3>1, SameCount
    <3>. QED
      BY <3>1, <3>2, <3>3, FS_Subset
  <2>6. \A B : Cardinality(ReservedIn(r, B)) \in Nat
    <3>1. \A B : ReservedIn(r, B) \in SUBSET Nodes
      BY DEF ReservedIn, Members, VisibleNodes
    <3>. QED
      BY <3>1, SameCount, FS_CardinalityType
  <2>. QED
    BY <1>1, <2>1, <2>2, <2>3, <2>4, <2>5, <2>6, <2>7, ReservationCounts
<1>. QED
  BY <1>1, NodesTypedCorrect, PTL

-----------------------------------------------------------------------------
(* What the node collector reads.                                          *)

\* The node collector takes the marker of the default partition off and leaves other names alone.
LEMMA MarkerStripped ==
  ASSUME NEW p \in Parts
  PROVE  TrimRight(Marked(p)) = p
<1>0. PICK star : star = Default \o "*"
  OBVIOUS
<1>1. \A q \in Parts : Marked(p) \in {q, Marked(q)} <=> q = p
  <2>1. star \notin Parts
    BY <1>0, InventoryAssumption
  <2>2. \A q : Marked(q) = IF q = Default THEN star ELSE q
    BY <1>0 DEF Marked
  <2>. QED
    BY <2>1, <2>2
<1>. QED
  BY <1>1 DEF TrimRight

\* However many partitions list a node, its entry says what slurmctld has of it.
LEMMA NodesListed ==
  /\ DOMAIN ParseNodeMetrics(NodeData) = VisibleNodes
  /\ \A n \in VisibleNodes : ParseNodeMetrics(NodeData)[n] =
       [cpus       |-> ParseCPUsMetrics(CPUsState({n})),
        nodeStatus |-> StateLong(n),
        partitions |-> ShownParts(n),
        gresTotal  |-> parseGRESByType(Inventory[n].gres),
        gresUsed   |-> parseGRESByType(GresUsed(n))]
<1>. DEFINE Row(n, p) == [node |-> n, cpus |-> CPUsState({n}), state |-> StateLong(n),
                          part |-> Marked(p),
                          gres |-> Inventory[n].gres, gresUsed |-> GresUsed(n)]
            Of(n) == {l \in NodeData : l.node = n}
<1>1. NodeData = UNION {{Row(n, p) : p \in ShownParts(n)} : n \in Nodes}
  BY DEF NodeData, PerNode
<1>2. \A n \in VisibleNodes : n \in Nodes /\ ShownParts(n) # {} /\ ShownParts(n) \subseteq Parts
  BY DEF Parts, VisibleNodes, ShownParts
<1>3. \A n, p : /\ Row(n, p).node = n
                /\ Row(n, p).cpus = CPUsState({n}) /\ Row(n, p).state = StateLong(n)
                /\ Row(n, p).part = Marked(p)
                /\ Row(n, p).gres = Inventory[n].gres /\ Row(n, p).gresUsed = GresUsed(n)
  OBVIOUS
<1>. HIDE DEF Row
<1>4. \A n \in VisibleNodes : Of(n) = {Row(n, p) : p \in ShownParts(n)}
  BY <1>1, <1>2, <1>3
<1>5. {l.node : l \in NodeData} = VisibleNodes
  BY <1>1, <1>2, <1>3 DEF VisibleNodes
<1>6. ASSUME NEW n \in VisibleNodes
      PROVE  /\ \A l \in Of(n) : /\ l.cpus = CPUsState({n}) /\ l.state = StateLong(n)
                                 /\ l.gres = Inventory[n].gres /\ l.gresUsed = GresUsed(n)
             /\ Of(n) # {}
             /\ {TrimRight(l.part) : l \in Of(n)} = ShownParts(n)
  <2>1. \A p \in ShownParts(n) : TrimRight(Row(n, p).part) = p
    BY <1>2, <1>3, MarkerStripped
  <2>. QED
    BY <1>2, <1>3, <1>4, <2>1
<1>7. /\ DOMAIN ParseNodeMetrics(NodeData) = {l.node : l \in NodeData}
      /\ \A n \in {l.node : l \in NodeData} : ParseNodeMetrics(NodeData)[n] =
           [cpus       |-> ParseCPUsMetrics((CHOOSE l \in Of(n) : TRUE).cpus),
            nodeStatus |-> (CHOOSE l \in Of(n) : TRUE).state,
            partitions |-> {TrimRight(l.part) : l \in Of(n)},
            gresTotal  |-> parseGRESByType((CHOOSE l \in Of(n) : TRUE).gres),
            gresUsed   |-> parseGRESByType((CHOOSE l \in Of(n) : TRUE).gresUsed)]
  BY DEF ParseNodeMetrics
<1>8. ASSUME NEW n \in VisibleNodes PROVE (CHOOSE l \in Of(n) : TRUE) \in Of(n)
  BY <1>6
<1>. HIDE DEF Of
<1>. QED
  BY <1>5, <1>6, <1>7, <1>8

-----------------------------------------------------------------------------
(* The reasons.                                                            *)

DegradedReasoned ==
  \A n \in Nodes :
    node[n].drain \/ node[n].base = "DOWN" => node[n].reason \in Reasons \cup {Silent}

\* The buckets down and drain hold the nodes that are drained or down.
LEMMA DegradedWord ==
  ASSUME NodesTyped, NEW n \in Nodes
  PROVE  Bucket(StateLong(n)) \in {"down", "drain"} <=> node[n].drain \/ node[n].base = "DOWN"
<1>1. /\ node[n].base \in {"MIXED", "ALLOCATED", "IDLE", "UNKNOWN", "DOWN"}
      /\ node[n].drain \in BOOLEAN
  BY DEF NodesTyped, NodeType, Up, Busy
<1>2. StateLong(n).word = Word(node[n])
  BY DEF StateLong
<1>3. CASE node[n].drain
  <2>1. Word(node[n]) \in {"draining", "drained"}
    BY <1>3 DEF Word
  <2>2. Bucket(StateLong(n)) = "drain"
    BY <1>2, <2>1 DEF Bucket
  <2>. QED
    BY <1>3, <2>2
<1>4. CASE ~node[n].drain /\ node[n].base = "DOWN"
  <2>1. Word(node[n]) = "down"
    BY <1>4 DEF Word
  <2>2. Bucket(StateLong(n)) = "down"
    BY <1>2, <2>1 DEF Bucket
  <2>. QED
    BY <1>4, <2>2
<1>5. CASE ~node[n].drain /\ node[n].base \in {"MIXED", "ALLOCATED", "IDLE", "UNKNOWN"}
  <2>1. Word(node[n]) \in {"mixed", "allocated", "planned", "reserved", "idle", "unknown"}
    BY <1>5 DEF Word
  <2>2. Bucket(StateLong(n)) \in {"mix", "alloc", "planned", "resv", "idle", "other"}
    BY <1>2, <2>1 DEF Bucket
  <2>. QED
    BY <1>5, <2>2
<1>. QED
  BY <1>1, <1>3, <1>4, <1>5

\* slurmctld lets no node be drained or go down without a reason.
THEOREM DegradedReasonedCorrect == Spec => []DegradedReasoned
<1>1. Init => DegradedReasoned
  BY DEF Init, DegradedReasoned
<1>2. ASSUME NodesTyped, DegradedReasoned, [Next]_vars PROVE DegradedReasoned'
  <2>0. node \in [Nodes -> NodeType] /\ \A n \in Nodes : node[n] \in NodeType
    BY <1>2 DEF NodesTyped
  <2> USE DEF DegradedReasoned, NodeType
  <2>1. CASE UNCHANGED node
    BY <1>2, <2>1
  <2>2. ASSUME NEW n \in Nodes, Register(n) PROVE DegradedReasoned'
    BY <1>2, <2>0, <2>2 DEF Register
  <2>3. ASSUME NEW n \in Nodes, Allocate(n) PROVE DegradedReasoned'
    BY <1>2, <2>0, <2>3 DEF Allocate, Schedulable, Busy, Up
  <2>4. ASSUME NEW n \in Nodes, Release(n) PROVE DegradedReasoned'
    BY <1>2, <2>0, <2>4 DEF Release, Busy
  <2>5. ASSUME NEW n \in Nodes, Drain(n) PROVE DegradedReasoned'
    BY <1>2, <2>0, <2>5 DEF Drain
  <2>6. ASSUME NEW n \in Nodes, Undrain(n) PROVE DegradedReasoned'
    BY <1>2, <2>0, <2>6 DEF Undrain
  <2>7. ASSUME NEW n \in Nodes, Hush(n) PROVE DegradedReasoned'
    BY <1>2, <2>0, <2>7 DEF Hush
  <2>8. ASSUME NEW n \in Nodes, Answer(n) PROVE DegradedReasoned'
    BY <1>2, <2>0, <2>8 DEF Answer
  <2>9. ASSUME NEW n \in Nodes, Fail(n) PROVE DegradedReasoned'
    BY <1>2, <2>0, <2>9 DEF Fail
  <2>10. ASSUME NEW n \in Nodes, Plan(n) PROVE DegradedReasoned'
    BY <1>2, <2>0, <2>10 DEF Plan
  <2>11. ASSUME NEW n \in Nodes, Reserve(n) PROVE DegradedReasoned'
    BY <1>2, <2>0, <2>11 DEF Reserve
  <2>12. ASSUME NEW r \in Reservations, Begin(r) PROVE DegradedReasoned'
    <3>1. ASSUME NEW n \in Nodes
          PROVE  /\ node'[n].drain = node[n].drain /\ node'[n].base = node[n].base
                 /\ node'[n].reason = node[n].reason
      <4>1. node'[n] = node[n] \/ node'[n] = [node[n] EXCEPT !.resv = r]
        BY <2>12 DEF Begin
      <4>. QED
        BY <2>0, <4>1
    <3>. QED
      BY <1>2, <3>1
  <2>13. UNCHANGED node \/ NodeChanges \/ \E r \in Reservations : Begin(r)
    BY <1>2 DEF Next, vars, Book, Delete
  <2>. QED
    BY <2>1, <2>2, <2>3, <2>4, <2>5, <2>6, <2>7, <2>8, <2>9, <2>10, <2>11, <2>12, <2>13 DEF NodeChanges
<1>. QED
  BY <1>1, <1>2, NodesTypedCorrect, PTL DEF Spec

Shown == INSTANCE FoldProofs WITH Step <- AddReason

Row(n, p) == [node |-> n, part |-> p, reason |-> node[n].reason, state |-> StateLong(n)]

Rows == UNION {{Row(n, p) : p \in ShownParts(n)} : n \in Nodes}

Degraded(n) == node[n].drain \/ node[n].base = "DOWN"

\* The lines of the reasons: one for each node and partition, and those to be shown are of degraded nodes.
LEMMA ReasonRows ==
  ASSUME NodesTyped, DegradedReasoned, Reasons \cap SaysNothing = {}
  PROVE  /\ DrainReasonData = SetToSeq(Rows)
         /\ IsFiniteSet(Rows)
         /\ \A l \in Rows : l.node \in VisibleNodes /\ l.reason \in Reasons \cup {NoReason, Silent}
         /\ \A l \in Rows : ~Degraded(l.node) <=> \/ l.reason \in SaysNothing
                                                  \/ Bucket(l.state) \notin {"down", "drain"}
         /\ \A n \in VisibleNodes : \E l \in Rows : l.node = n
<1>1. DrainReasonData = SetToSeq(Rows)
  BY DEF DrainReasonData, PerNode, Rows, Row
<1>2. \A n, p : /\ Row(n, p).node = n
                /\ Row(n, p).reason = node[n].reason
                /\ Row(n, p).state = StateLong(n)
  BY DEF Row
<1>3. IsFiniteSet(Rows)
  <2>1. ASSUME NEW n \in Nodes PROVE IsFiniteSet({Row(n, p) : p \in ShownParts(n)})
    <3>1. PICK h, R : /\ h = [p \in ShownParts(n) |-> Row(n, p)]
                      /\ R = {Row(n, p) : p \in ShownParts(n)}
      OBVIOUS
    <3>2. IsFiniteSet(ShownParts(n)) /\ \A y \in R : \E p \in ShownParts(n) : y = h[p]
      <4>1. IsFiniteSet(ShownParts(n))
        BY InventoryAssumption, FS_Subset DEF ShownParts
      <4>. QED
        BY <3>1, <4>1
    <3>3. IsFiniteSet(R)
      BY <3>2, FiniteImage
    <3>. QED
      BY <3>1, <3>3
  <2>2. PICK h, R : /\ h = [n \in Nodes |-> {Row(n, p) : p \in ShownParts(n)}]
                    /\ R = {{Row(n, p) : p \in ShownParts(n)} : n \in Nodes}
    OBVIOUS
  <2>3. IsFiniteSet(R)
    <3>1. \A y \in R : \E n \in Nodes : y = h[n]
      BY <2>2
    <3>. QED
      BY <3>1, InventoryAssumption, FiniteImage
  <2>4. \A T \in R : IsFiniteSet(T)
    BY <2>1, <2>2
  <2>5. IsFiniteSet(UNION R)
    BY <2>3, <2>4, FS_UNION
  <2>. QED
    BY <2>2, <2>5 DEF Rows
<1>4. \A l \in Rows : l.node \in VisibleNodes /\ l.reason = node[l.node].reason
                      /\ l.state = StateLong(l.node)
  <2> SUFFICES ASSUME NEW l \in Rows
               PROVE  /\ l.node \in VisibleNodes /\ l.reason = node[l.node].reason
                      /\ l.state = StateLong(l.node)
    OBVIOUS
  <2>1. PICK n \in Nodes : \E p \in ShownParts(n) : l = Row(n, p)
    BY DEF Rows
  <2>. QED
    BY <1>2, <2>1 DEF VisibleNodes
<1>5. \A n \in Nodes : Degraded(n) => node[n].reason \notin SaysNothing
  <2>1. Silent \notin SaysNothing
    BY Zenon DEF Silent, SaysNothing, Unset
  <2>. QED
    BY <2>1 DEF DegradedReasoned, Degraded
<1>6. \A l \in Rows : ~Degraded(l.node) <=> \/ l.reason \in SaysNothing
                                            \/ Bucket(l.state) \notin {"down", "drain"}
  BY <1>4, <1>5, DegradedWord DEF Degraded, VisibleNodes
<1>7. \A n \in VisibleNodes : \E l \in Rows : l.node = n
  <2> SUFFICES ASSUME NEW n \in VisibleNodes PROVE \E l \in Rows : l.node = n
    OBVIOUS
  <2>1. PICK p : p \in ShownParts(n)
    BY DEF VisibleNodes
  <2>2. Row(n, p) \in Rows
    BY <2>1 DEF Rows, VisibleNodes
  <2>. QED
    BY <1>2, <2>2
<1>8. \A n \in Nodes : node[n].reason \in Reasons \cup {NoReason, Silent}
  BY DEF NodesTyped, NodeType
<1>. QED
  BY <1>1, <1>3, <1>4, <1>6, <1>7, <1>8 DEF VisibleNodes

Entry == [node : Nodes, reason : Reasons \cup {NoReason, Silent}]

ShownOnce(results, ns) ==
  /\ results \in Seq(Entry)
  /\ {results[i].node : i \in DOMAIN results} = ns
  /\ \A i, j \in DOMAIN results : results[i].node = results[j].node => i = j

\* One more node is shown once if it was not shown before.
LEMMA ShowOne ==
  ASSUME NEW results, NEW ns, ShownOnce(results, ns),
         NEW n \in Nodes \ ns, NEW r \in Reasons \cup {NoReason, Silent}
  PROVE  ShownOnce(Append(results, [node |-> n, reason |-> r]), ns \cup {n})
<1>1. PICK e : e = [node |-> n, reason |-> r]
  OBVIOUS
<1>2. PICK k \in Nat : k = Len(results)
  BY DEF ShownOnce
<1>3. e \in Entry /\ e.node = n
  BY <1>1 DEF Entry
<1>4. PICK more : more = Append(results, e)
  OBVIOUS
<1>5. /\ more \in Seq(Entry)
      /\ DOMAIN more = (1 .. k) \cup {k + 1}
      /\ DOMAIN results = 1 .. k
      /\ more[k + 1] = e
      /\ \A i \in 1 .. k : more[i] = results[i]
  BY <1>2, <1>3, <1>4 DEF ShownOnce
<1>6. {more[i].node : i \in DOMAIN more} = ns \cup {n}
  BY <1>3, <1>5 DEF ShownOnce
<1>7. \A i, j \in DOMAIN more : more[i].node = more[j].node => i = j
  BY <1>3, <1>5 DEF ShownOnce
<1>. QED
  BY <1>1, <1>4, <1>5, <1>6, <1>7 DEF ShownOnce

\* The loop over the lines, step by step.
LEMMA ReasonsTrace ==
  ASSUME NEW s, NEW k \in Nat, DOMAIN s = 1 .. k
  PROVE  \E g : /\ g[0] = <<>>
                /\ \A i \in 1 .. k : g[i] = AddReason(g[i - 1], s[i])
                /\ ParseDrainReasonMetrics(s) = g[k]
<1>1. PICK none : none = <<>>
  OBVIOUS
<1>2. ParseDrainReasonMetrics(s) = Shown!Folded(none, s)
  BY <1>1 DEF ParseDrainReasonMetrics, Shown!Folded, FoldLeft, MapThenFoldSet, Shown!MapThenFoldSet, Max, Shown!Greatest
<1>3. \E g : /\ g[0] = none
             /\ \A i \in 1 .. k : g[i] = AddReason(g[i - 1], s[i])
             /\ Shown!Folded(none, s) = g[k]
  BY Shown!Trace
<1>. QED
  BY <1>1, <1>2, <1>3

\* It starts with nothing shown.
LEMMA NothingShown == ShownOnce(<<>>, {})
BY DEF ShownOnce

\* It ends with each degraded node shown once, however the lines are ordered.
LEMMA ReasonsShown ==
  ASSUME NodesTyped, DegradedReasoned, Reasons \cap SaysNothing = {}
  PROVE  ShownOnce(ParseDrainReasonMetrics(DrainReasonData), {n \in VisibleNodes : Degraded(n)})
<1>. DEFINE s == SetToSeq(Rows)
<1>1. PICK k \in Nat : k = Cardinality(Rows)
  BY ReasonRows, FS_CardinalityType
<1>2. /\ DOMAIN s = 1 .. k
      /\ \A i \in 1 .. k : s[i] \in Rows
      /\ \A l \in Rows : \E i \in 1 .. k : s[i] = l
  BY <1>1, ReasonRows, Listed
<1>. HIDE DEF s
<1>4. PICK g : /\ g[0] = <<>>
               /\ \A i \in 1 .. k : g[i] = AddReason(g[i - 1], s[i])
               /\ ParseDrainReasonMetrics(s) = g[k]
  BY <1>2, ReasonsTrace
<1>. DEFINE Before(i) == {n \in VisibleNodes : Degraded(n) /\ \E j \in 1 .. i : s[j].node = n}
            S == {i \in Nat : i <= k => ShownOnce(g[i], Before(i))}
<1>5. 0 \in S
  <2>1. Before(0) = {}
    OBVIOUS
  <2>. QED
    BY <1>4, <2>1, NothingShown
<1>6. ASSUME NEW i \in Nat, i \in S PROVE i + 1 \in S
  <2> SUFFICES ASSUME i + 1 <= k PROVE ShownOnce(g[i + 1], Before(i + 1))
    OBVIOUS
  <2>1. ShownOnce(g[i], Before(i))
    BY <1>6
  <2>2. i + 1 \in 1 .. k /\ (i + 1) - 1 = i
    OBVIOUS
  <2>3. PICK l \in Rows : l = s[i + 1]
    BY <1>2, <2>2
  <2>4. g[i + 1] = AddReason(g[i], l)
    BY <1>4, <2>2, <2>3
  <2>5. Before(i + 1) = IF Degraded(l.node) THEN Before(i) \cup {l.node} ELSE Before(i)
    <3>1. \A j : j \in 1 .. i + 1 <=> j \in 1 .. i \/ j = i + 1
      OBVIOUS
    <3>. QED
      BY <2>3, <3>1, ReasonRows
  <2>6. (\E j \in DOMAIN g[i] : g[i][j].node = l.node) <=> l.node \in Before(i)
    BY <2>1 DEF ShownOnce
  <2>7. CASE ~Degraded(l.node) \/ l.node \in Before(i)
    <3>1. g[i + 1] = g[i]
      BY <2>3, <2>4, <2>6, <2>7, ReasonRows DEF AddReason
    <3>2. Before(i + 1) = Before(i)
      BY <2>5, <2>7
    <3>. QED
      BY <2>1, <3>1, <3>2
  <2>8. CASE Degraded(l.node) /\ l.node \notin Before(i)
    <3>1. g[i + 1] = Append(g[i], [node |-> l.node, reason |-> l.reason])
      BY <2>3, <2>4, <2>6, <2>8, ReasonRows DEF AddReason
    <3>2. Before(i + 1) = Before(i) \cup {l.node}
      BY <2>5, <2>8
    <3>3. l.node \in Nodes \ Before(i) /\ l.reason \in Reasons \cup {NoReason, Silent}
      BY <2>3, <2>8, ReasonRows DEF VisibleNodes
    <3>4. PICK old, ns : old = g[i] /\ ns = Before(i)
      OBVIOUS
    <3>5. ShownOnce(Append(old, [node |-> l.node, reason |-> l.reason]), ns \cup {l.node})
      BY <2>1, <3>3, <3>4, ShowOne
    <3>. QED
      BY <3>1, <3>2, <3>4, <3>5
  <2>. QED
    BY <2>7, <2>8
<1>7. k \in S
  <2>. HIDE DEF S
  <2>. QED
    BY <1>5, <1>6, NatInd
<1>8. Before(k) = {n \in VisibleNodes : Degraded(n)}
  BY <1>2, ReasonRows
<1>9. ShownOnce(g[k], Before(k))
  BY <1>7
<1>. HIDE DEF Before
<1>10. ShownOnce(ParseDrainReasonMetrics(s), {n \in VisibleNodes : Degraded(n)})
  BY <1>4, <1>8, <1>9
<1>. QED
  BY <1>10, ReasonRows DEF s

\* Each node that nodes.go puts among the down or drained ones has one series with its reason,
\* and no other node has (node_drain.go), unless an administrator may type a reason that sinfo
\* prints as it prints none.
THEOREM DegradedHaveReasonsHolds ==
  ASSUME Reasons \cap SaysNothing = {}
  PROVE  Spec => []DegradedHaveReasons
<1>1. ASSUME NodesTyped, DegradedReasoned PROVE DegradedHaveReasons
  <2>1. ShownOnce(ParseDrainReasonMetrics(DrainReasonData), {n \in VisibleNodes : Degraded(n)})
    BY <1>1, ReasonsShown
  <2>2. {n \in VisibleNodes : Degraded(n)} =
          {n \in DOMAIN ParseNodeMetrics(NodeData) :
             Bucket(ParseNodeMetrics(NodeData)[n].nodeStatus) \in {"down", "drain"}}
    <3>1. ASSUME NEW n \in VisibleNodes PROVE ParseNodeMetrics(NodeData)[n].nodeStatus = StateLong(n)
      <4>1. ParseNodeMetrics(NodeData)[n] =
              [cpus       |-> ParseCPUsMetrics(CPUsState({n})),
               nodeStatus |-> StateLong(n),
               partitions |-> ShownParts(n),
               gresTotal  |-> parseGRESByType(Inventory[n].gres),
               gresUsed   |-> parseGRESByType(GresUsed(n))]
        BY NodesListed
      <4>. QED
        BY <4>1
    <3>2. \A n \in VisibleNodes : Degraded(n) <=> Bucket(StateLong(n)) \in {"down", "drain"}
      BY <1>1, DegradedWord DEF Degraded, VisibleNodes
    <3>. QED
      BY <3>1, <3>2, NodesListed
  <2>. QED
    BY <2>1, <2>2 DEF ShownOnce, DegradedHaveReasons
<1>. QED
  BY <1>1, NodesTypedCorrect, DegradedReasonedCorrect, PTL

-----------------------------------------------------------------------------
(* What the reservations collector reads.                                  *)

Field  == INSTANCE FoldProofs WITH Step <- setReservationField
Booked == INSTANCE FoldProofs WITH Step <- AddReservation

Made == {r \in Reservations : Reserved(r) # {}}

\* The record that scontrol prints of a reservation, and what is read of it.
Booking(r) == <<[key |-> "ReservationName", value |-> r],
                [key |-> "Nodes", value |-> Reserved(r)],
                [key |-> "NodeCnt", value |-> Cardinality(Reserved(r))],
                [key |-> "PartitionName", value |-> "(null)"],
                [key |-> "State", value |-> IF inactive[r] = {} THEN "ACTIVE" ELSE "INACTIVE"]>>

\* A record is read field by field.
LEMMA FieldsTrace ==
  ASSUME NEW s, NEW k \in Nat, DOMAIN s = 1 .. k
  PROVE  \E g : /\ g[0] = ReservationInfo
                /\ \A i \in 1 .. k : g[i] = setReservationField(g[i - 1], s[i])
                /\ Reservation(s) = g[k]
<1>1. PICK none : none = ReservationInfo
  OBVIOUS
<1>2. Reservation(s) = Field!Folded(none, s)
  BY <1>1 DEF Reservation, Field!Folded, FoldLeft, MapThenFoldSet, Field!MapThenFoldSet, Max, Field!Greatest
<1>3. \E g : /\ g[0] = none
             /\ \A i \in 1 .. k : g[i] = setReservationField(g[i - 1], s[i])
             /\ Field!Folded(none, s) = g[k]
  BY Field!Trace
<1>. QED
  BY <1>1, <1>2, <1>3

\* What the collector keeps of reservation r.
ReadOf(info, r) ==
  /\ info.Name = r
  /\ info.State = IF inactive[r] = {} THEN "ACTIVE" ELSE "INACTIVE"
  /\ info.Nodes = Reserved(r)
  /\ info.NodeCount = Cardinality(Reserved(r))

\* A record with fields has what they say; one with none has no name.
LEMMA RecordRead ==
  /\ Reservation(<<>>).Name = Unset
  /\ \A r : ReadOf(Reservation(Booking(r)), r)
<1>1. Reservation(<<>>).Name = Unset
  <2>1. PICK s : s = <<>>
    OBVIOUS
  <2>2. DOMAIN s = 1 .. 0
    BY <2>1
  <2>3. PICK g : g[0] = ReservationInfo /\ Reservation(s) = g[0]
    BY <2>2, FieldsTrace
  <2>. QED
    BY <2>1, <2>3 DEF ReservationInfo
<1>2. ASSUME NEW r
      PROVE  ReadOf(Reservation(Booking(r)), r)
  <2>1. PICK s, c, ns, st : /\ s = Booking(r) /\ c = Cardinality(Reserved(r)) /\ ns = Reserved(r)
                            /\ st = IF inactive[r] = {} THEN "ACTIVE" ELSE "INACTIVE"
    OBVIOUS
  <2>2. /\ DOMAIN s = 1 .. 5
        /\ s[1].key = "ReservationName" /\ s[1].value = r
        /\ s[2].key = "Nodes" /\ s[2].value = ns
        /\ s[3].key = "NodeCnt" /\ s[3].value = c
        /\ s[4].key = "PartitionName"
        /\ s[5].key = "State" /\ s[5].value = st
    BY <2>1 DEF Booking
  <2>3. PICK g : /\ g[0] = ReservationInfo
                 /\ \A i \in 1 .. 5 : g[i] = setReservationField(g[i - 1], s[i])
                 /\ Reservation(s) = g[5]
    <3>1. PICK k \in Nat : k = 5
      OBVIOUS
    <3>2. DOMAIN s = 1 .. k
      BY <2>2, <3>1
    <3>3. \E g : /\ g[0] = ReservationInfo
                 /\ \A i \in 1 .. k : g[i] = setReservationField(g[i - 1], s[i])
                 /\ Reservation(s) = g[k]
      BY <3>2, FieldsTrace
    <3>. QED
      BY <3>1, <3>3
  <2>4. \A v : setReservationField(v, s[1]) = [v EXCEPT !.Name = r]
    BY <2>2 DEF setReservationField
  <2>5. \A v : setReservationField(v, s[2]) = [v EXCEPT !.Nodes = ns]
    BY <2>2 DEF setReservationField
  <2>6. \A v : setReservationField(v, s[3]) = [v EXCEPT !.NodeCount = c]
    BY <2>2 DEF setReservationField
  <2>7. \E w : \A v : setReservationField(v, s[4]) = [v EXCEPT !.Partition = w]
    BY <2>2 DEF setReservationField
  <2>8. \A v : setReservationField(v, s[5]) = [v EXCEPT !.State = st]
    BY <2>2 DEF setReservationField
  <2>9. /\ g[1] = setReservationField(g[0], s[1])
        /\ g[2] = setReservationField(g[1], s[2])
        /\ g[3] = setReservationField(g[2], s[3])
        /\ g[4] = setReservationField(g[3], s[4])
        /\ g[5] = setReservationField(g[4], s[5])
    <3>1. /\ 1 \in 1 .. 5 /\ 2 \in 1 .. 5 /\ 3 \in 1 .. 5 /\ 4 \in 1 .. 5 /\ 5 \in 1 .. 5
          /\ 1 - 1 = 0 /\ 2 - 1 = 1 /\ 3 - 1 = 2 /\ 4 - 1 = 3 /\ 5 - 1 = 4
      OBVIOUS
    <3>. QED
      BY <2>3, <3>1
  <2>10. PICK none : none = Unset
    OBVIOUS
  <2>11. g[0] = [Name |-> none, State |-> none, Nodes |-> {}, Partition |-> none, NodeCount |-> 0]
    BY <2>3, <2>10 DEF ReservationInfo
  <2>12. PICK w : \A v : setReservationField(v, s[4]) = [v EXCEPT !.Partition = w]
    BY <2>7
  <2>13. g[1] = [Name |-> r, State |-> none, Nodes |-> {}, Partition |-> none, NodeCount |-> 0]
    BY <2>4, <2>9, <2>11
  <2>14. g[2] = [Name |-> r, State |-> none, Nodes |-> ns, Partition |-> none, NodeCount |-> 0]
    BY <2>5, <2>9, <2>13
  <2>15. g[3] = [Name |-> r, State |-> none, Nodes |-> ns, Partition |-> none, NodeCount |-> c]
    BY <2>6, <2>9, <2>14
  <2>16. g[4] = [Name |-> r, State |-> none, Nodes |-> ns, Partition |-> w, NodeCount |-> c]
    BY <2>9, <2>12, <2>15
  <2>17. g[5] = [Name |-> r, State |-> st, Nodes |-> ns, Partition |-> w, NodeCount |-> c]
    BY <2>8, <2>9, <2>16
  <2>18. /\ g[5].Name = r /\ g[5].State = st /\ g[5].Nodes = ns /\ g[5].NodeCount = c
    BY <2>17
  <2>. QED
    BY <2>1, <2>3, <2>18 DEF ReadOf
<1>. QED
  BY <1>1, <1>2

\* The records are read one by one.
LEMMA RecordsTrace ==
  ASSUME NEW s, NEW k \in Nat, DOMAIN s = 1 .. k
  PROVE  \E g : /\ g[0] = <<>>
                /\ \A i \in 1 .. k : g[i] = AddReservation(g[i - 1], s[i])
                /\ parseReservations(s) = g[k]
<1>1. PICK none : none = <<>>
  OBVIOUS
<1>2. parseReservations(s) = Booked!Folded(none, s)
  BY <1>1 DEF parseReservations, Booked!Folded, FoldLeft, MapThenFoldSet, Booked!MapThenFoldSet, Max, Booked!Greatest
<1>3. \E g : /\ g[0] = none
             /\ \A i \in 1 .. k : g[i] = AddReservation(g[i - 1], s[i])
             /\ Booked!Folded(none, s) = g[k]
  BY Booked!Trace
<1>. QED
  BY <1>1, <1>2, <1>3

\* One record for each reservation, or a sentence.
LEMMA BookingsListed ==
  /\ IsFiniteSet({Booking(r) : r \in Made})
  /\ Made = {} => ReservationsData = << <<>> >>
  /\ Made # {} => ReservationsData = SetToSeq({Booking(r) : r \in Made})
<1>1. IsFiniteSet({Booking(r) : r \in Made})
  <2>1. IsFiniteSet(Made)
    BY FS_Subset, InventoryAssumption DEF Made
  <2>2. PICK R, h : R = {Booking(r) : r \in Made} /\ h = [r \in Made |-> Booking(r)]
    OBVIOUS
  <2>3. \A y \in R : \E r \in Made : y = h[r]
    BY <2>2
  <2>4. IsFiniteSet(R)
    BY <2>1, <2>3, FiniteImage
  <2>. QED
    BY <2>2, <2>4
<1>2. Made = {} => ReservationsData = << <<>> >>
  BY DEF ReservationsData, Made
<1>3. Made # {} => ReservationsData = SetToSeq({Booking(r) : r \in Made})
  BY DEF ReservationsData, Made, Booking
<1>. QED
  BY <1>1, <1>2, <1>3

\* Named records are all kept, in their order.
LEMMA AllBooked ==
  ASSUME NEW s, NEW k \in Nat, DOMAIN s = 1 .. k,
         \A i \in 1 .. k : Reservation(s[i]).Name # Unset
  PROVE  /\ DOMAIN parseReservations(s) = 1 .. k
         /\ \A i \in 1 .. k : parseReservations(s)[i] = Reservation(s[i])
<1>1. PICK g : /\ g[0] = <<>>
               /\ \A i \in 1 .. k : g[i] = AddReservation(g[i - 1], s[i])
               /\ parseReservations(s) = g[k]
  BY RecordsTrace
<1>. DEFINE Read(i) == Reservation(s[i])
            Kept(i) == g[i] = [j \in 1 .. i |-> Read(j)]
            S == {i \in Nat : i <= k => Kept(i)}
<1>2. \A i \in 1 .. k : AddReservation(g[i - 1], s[i]) = Append(g[i - 1], Read(i))
  BY DEF AddReservation
<1>. HIDE DEF Read
<1>3. 0 \in S
  <2>1. <<>> = [j \in 1 .. 0 |-> Read(j)]
    OBVIOUS
  <2>. QED
    BY <1>1, <2>1
<1>4. ASSUME NEW i \in Nat, i \in S PROVE i + 1 \in S
  <2> SUFFICES ASSUME i + 1 <= k PROVE Kept(i + 1)
    OBVIOUS
  <2>1. PICK old : old = [j \in 1 .. i |-> Read(j)]
    OBVIOUS
  <2>2. g[i] = old
    BY <1>4, <2>1
  <2>3. i + 1 \in 1 .. k /\ (i + 1) - 1 = i
    OBVIOUS
  <2>4. g[i + 1] = Append(old, Read(i + 1))
    BY <1>1, <1>2, <2>2, <2>3
  <2>5. Append(old, Read(i + 1)) = [j \in 1 .. i + 1 |-> Read(j)]
    BY <2>1
  <2>. QED
    BY <2>4, <2>5
<1>5. k \in S
  <2>. HIDE DEF S
  <2>. QED
    BY <1>3, <1>4, NatInd
<1>6. g[k] = [j \in 1 .. k |-> Read(j)]
  BY <1>5
<1>. QED
  BY <1>1, <1>6 DEF Read

\* The collector has each reservation that is made, once.
LEMMA ReservationsRead ==
  LET infos == parseReservations(ReservationsData)
  IN  /\ {infos[i].Name : i \in DOMAIN infos} = Made
      /\ \A i \in DOMAIN infos : ReadOf(infos[i], infos[i].Name)
      /\ \A i, j \in DOMAIN infos : infos[i].Name = infos[j].Name => i = j
<1>1. CASE Made = {}
  <2>1. PICK s : s = << <<>> >>
    OBVIOUS
  <2>2. PICK k \in Nat : k = 1
    OBVIOUS
  <2>3. DOMAIN s = 1 .. k /\ s[k] = <<>>
    BY <2>1, <2>2
  <2>4. PICK g : /\ g[0] = <<>>
                 /\ \A i \in 1 .. k : g[i] = AddReservation(g[i - 1], s[i])
                 /\ parseReservations(s) = g[k]
    BY <2>3, RecordsTrace
  <2>5. g[k] = AddReservation(<<>>, <<>>)
    <3>1. k \in 1 .. k /\ k - 1 = 0
      BY <2>2
    <3>. QED
      BY <2>3, <2>4, <3>1
  <2>6. AddReservation(<<>>, <<>>) = <<>>
    BY RecordRead DEF AddReservation
  <2>7. parseReservations(ReservationsData) = <<>>
    BY <1>1, <2>1, <2>4, <2>5, <2>6, BookingsListed
  <2>. QED
    BY <1>1, <2>7
<1>2. CASE Made # {}
  <2>1. PICK B : B = {Booking(r) : r \in Made}
    OBVIOUS
  <2>2. PICK s : s = SetToSeq(B)
    OBVIOUS
  <2>3. ReservationsData = s /\ IsFiniteSet(B)
    BY <1>2, <2>1, <2>2, BookingsListed
  <2>4. PICK k \in Nat : k = Cardinality(B)
    BY <2>3, FS_CardinalityType
  <2>5. /\ DOMAIN s = 1 .. k
        /\ \A i \in 1 .. k : s[i] \in B
        /\ \A i, j \in 1 .. k : s[i] = s[j] => i = j
        /\ \A b \in B : \E i \in 1 .. k : s[i] = b
    BY <2>2, <2>3, <2>4, Listed
  <2>6. \A b \in B : \E r \in Made : /\ b = Booking(r)
                                     /\ Reservation(b).Name = r
                                     /\ ReadOf(Reservation(b), r)
    BY <2>1, RecordRead DEF ReadOf
  <2>7. \A r \in Made : r # Unset
    BY InventoryAssumption DEF Made, NoResv
  <2>8. PICK infos : infos = parseReservations(s)
    OBVIOUS
  <2>9. DOMAIN infos = 1 .. k /\ \A i \in 1 .. k : infos[i] = Reservation(s[i])
    BY <2>5, <2>6, <2>7, <2>8, AllBooked
  <2>10. \A r \in Made : \E i \in 1 .. k : s[i] = Booking(r)
    BY <2>1, <2>5
  <2>11. {infos[i].Name : i \in DOMAIN infos} = Made
    <3>1. \A r \in Made : Reservation(Booking(r)).Name = r
      BY RecordRead DEF ReadOf
    <3>. QED
      BY <2>5, <2>6, <2>9, <2>10, <3>1
  <2>12. \A i \in DOMAIN infos : ReadOf(infos[i], infos[i].Name)
    BY <2>5, <2>6, <2>9
  <2>13. \A i, j \in DOMAIN infos : infos[i].Name = infos[j].Name => i = j
    BY <2>5, <2>6, <2>9
  <2>. QED
    BY <2>3, <2>8, <2>11, <2>12, <2>13
<1>. QED
  BY <1>1, <1>2

\* No node knows of a reservation that has not begun.
BookedApart(nodes, booked) ==
  /\ booked \in [Reservations -> SUBSET Nodes]
  /\ \A r \in Reservations : booked[r] # {} => \A n \in Nodes : nodes[n].resv # r

LEMMA BookedApartCorrect == Spec => []BookedApart(node, inactive)
<1>1. Init => BookedApart(node, inactive)
  BY DEF Init, BookedApart
<1>2. ASSUME BookedApart(node, inactive), NodesTyped, [Next]_vars
      PROVE  BookedApart(node, inactive)'
  <2>. SUFFICES BookedApart(node', inactive')
    BY DEF BookedApart
  <2>1. ASSUME inactive' = inactive, \A n \in Nodes : node'[n].resv = node[n].resv
        PROVE  BookedApart(node', inactive')
    BY <1>2, <2>1 DEF BookedApart
  <2>2. ASSUME NEW n \in Nodes, Reserve(n), inactive' = inactive
        PROVE  BookedApart(node', inactive')
    <3>1. PICK r \in Reservations \cup {NoResv} :
            /\ r # NoResv => inactive[r] = {}
            /\ node' = [node EXCEPT ![n].resv = r]
      BY <2>2 DEF Reserve
    <3>2. \A m \in Nodes : node'[m].resv = IF m = n THEN r ELSE node[m].resv
      BY <1>2, <3>1 DEF NodesTyped, NodeType
    <3>3. \A q \in Reservations : inactive[q] # {} => q # r
      BY <3>1, InventoryAssumption
    <3>. QED
      BY <1>2, <2>2, <3>2, <3>3 DEF BookedApart
  <2>3. ASSUME NEW r \in Reservations, Book(r) PROVE BookedApart(node', inactive')
    <3>1. PICK ns \in Bookings : inactive' = [inactive EXCEPT ![r] = ns]
      BY <2>3 DEF Book
    <3>2. ns \in SUBSET Nodes
      BY InventoryAssumption
    <3>3. \A n \in Nodes : node'[n].resv = node[n].resv /\ node[n].resv # r
      BY <2>3 DEF Book, Reserved
    <3>. QED
      BY <1>2, <3>1, <3>2, <3>3 DEF BookedApart
  <2>4. ASSUME NEW r \in Reservations, Begin(r) PROVE BookedApart(node', inactive')
    <3>1. \A n \in Nodes : node'[n].resv = IF n \in inactive[r] THEN r ELSE node[n].resv
      <4>1. ASSUME NEW n \in Nodes
            PROVE  node'[n] = IF n \in inactive[r] THEN [node[n] EXCEPT !.resv = r] ELSE node[n]
        BY <2>4 DEF Begin
      <4>2. \A n \in Nodes : [node[n] EXCEPT !.resv = r].resv = r
        BY <1>2 DEF NodesTyped, NodeType
      <4>. QED
        BY <4>1, <4>2
    <3>2. inactive' = [inactive EXCEPT ![r] = {}]
      BY <2>4 DEF Begin
    <3>. QED
      BY <1>2, <3>1, <3>2 DEF BookedApart
  <2>5. ASSUME NEW r \in Reservations, Delete(r) PROVE BookedApart(node', inactive')
    BY <1>2, <2>5 DEF Delete, BookedApart
  <2>6. ASSUME NEW n \in Nodes,
               \/ Register(n) \/ Allocate(n) \/ Release(n) \/ Drain(n) \/ Undrain(n)
               \/ Hush(n) \/ Answer(n) \/ Fail(n) \/ Plan(n)
        PROVE  \A m \in Nodes : node'[m].resv = node[m].resv
    <3>1. \A m \in Nodes : node[m] \in NodeType
      BY <1>2 DEF NodesTyped
    <3>2. CASE Register(n)
      BY <3>1, <3>2, <1>2 DEF Register, NodesTyped, NodeType
    <3>3. CASE Allocate(n)
      BY <3>1, <3>3, <1>2 DEF Allocate, NodesTyped, NodeType
    <3>4. CASE Release(n)
      BY <3>1, <3>4, <1>2 DEF Release, NodesTyped, NodeType
    <3>5. CASE Drain(n)
      BY <3>1, <3>5, <1>2 DEF Drain, NodesTyped, NodeType
    <3>6. CASE Undrain(n)
      BY <3>1, <3>6, <1>2 DEF Undrain, NodesTyped, NodeType
    <3>7. CASE Hush(n)
      BY <3>1, <3>7, <1>2 DEF Hush, NodesTyped, NodeType
    <3>8. CASE Answer(n)
      BY <3>1, <3>8, <1>2 DEF Answer, NodesTyped, NodeType
    <3>9. CASE Fail(n)
      BY <3>1, <3>9, <1>2 DEF Fail, NodesTyped, NodeType
    <3>10. CASE Plan(n)
      BY <3>1, <3>10, <1>2 DEF Plan, NodesTyped, NodeType
    <3>. QED
      BY <2>6, <3>2, <3>3, <3>4, <3>5, <3>6, <3>7, <3>8, <3>9, <3>10
  <2>7. CASE NodeChanges /\ UNCHANGED inactive
    BY <2>1, <2>2, <2>6, <2>7 DEF NodeChanges
  <2>8. CASE UNCHANGED vars
    BY <2>1, <2>8 DEF vars
  <2>. QED
    BY <1>2, <2>3, <2>4, <2>5, <2>7, <2>8 DEF Next
<1>. QED
  BY <1>1, <1>2, NodesTypedCorrect, PTL DEF Spec

\* parseReservations and ParseReservationNodesMetrics: the nodes' collector knows active
\* reservations only, and all of them but those whose nodes are hidden; both give one the
\* same number of nodes, but for the hidden ones.
THEOREM ReservationViewsAgreeHolds == Spec => []ReservationViewsAgree
<1>1. ASSUME NodesTyped, BookedApart(node, inactive), HealthyIsUp PROVE ReservationViewsAgree
  <2>1. PICK infos : infos = parseReservations(ReservationsData)
    OBVIOUS
  <2>2. PICK m : m = ParseReservationNodesMetrics(ScontrolNodes)
    OBVIOUS
  <2>3. PICK K : K = DOMAIN infos
    OBVIOUS
  <2>4. /\ {infos[i].Name : i \in K} = Made
        /\ \A i \in K : ReadOf(infos[i], infos[i].Name)
        /\ \A i, j \in K : infos[i].Name = infos[j].Name => i = j
    BY <2>1, <2>3, ReservationsRead
  <2>5. VisibleNodes \subseteq Nodes
    BY DEF VisibleNodes
  <2>6. DOMAIN m = {r \in Reservations : Members(r) # {}}
    <3>1. ScontrolNodes = Lines(VisibleNodes)
      BY DEF ScontrolNodes, Lines, Line
    <3>2. \A n \in Nodes : Line(n).resv = node[n].resv
      BY DEF Line
    <3>3. {l.resv : l \in ScontrolNodes} = {node[n].resv : n \in VisibleNodes}
      BY <2>5, <3>1, <3>2 DEF Lines
    <3>4. \A n \in Nodes : node[n].resv \in Reservations \cup {NoResv}
      BY <1>1 DEF NodesTyped, NodeType
    <3>5. DOMAIN m = {l.resv : l \in ScontrolNodes} \ {NoResv}
      BY <2>2 DEF ParseReservationNodesMetrics
    <3>. QED
      BY <2>5, <3>3, <3>4, <3>5, InventoryAssumption DEF Members
  <2>7. \A r \in DOMAIN m : inactive[r] = {} /\ r \in Made
    BY <1>1, <2>5, <2>6 DEF BookedApart, Members, Made, Reserved
  <2>8. ASSUME NEW i \in K, NEW r, r = infos[i].Name
        PROVE  /\ infos[i].State = "ACTIVE" <=> inactive[r] = {}
               /\ infos[i].State = "INACTIVE" <=> inactive[r] # {}
               /\ infos[i].Nodes = Reserved(r) /\ infos[i].NodeCount = Cardinality(Reserved(r))
    BY <2>4, <2>8 DEF ReadOf
  <2>9. DOMAIN m \subseteq {infos[i].Name : i \in {i \in K : infos[i].State = "ACTIVE"}}
    BY <2>4, <2>7, <2>8
  <2>10. DOMAIN m \cap {infos[i].Name : i \in {i \in K : infos[i].State = "INACTIVE"}} = {}
    BY <2>7, <2>8
  <2>11. ASSUME NEW i \in K, infos[i].State = "ACTIVE", NEW r, r = infos[i].Name
         PROVE  infos[i].NodeCount = Cardinality(infos[i].Nodes \ VisibleNodes)
                  + IF r \in DOMAIN m
                    THEN m[r].alloc + m[r].idle + m[r].mix + m[r].down + m[r].other ELSE 0
    <3>1. /\ inactive[r] = {} /\ infos[i].Nodes = Reserved(r)
          /\ infos[i].NodeCount = Cardinality(Reserved(r)) /\ r \in Reservations
      BY <2>4, <2>8, <2>11 DEF Made
    <3>2. PICK S, T : S = Reserved(r) \ VisibleNodes /\ T = Members(r)
      OBVIOUS
    <3>3. /\ S \in SUBSET Nodes /\ T \in SUBSET Nodes /\ S \cap T = {} /\ S \cup T = Reserved(r)
      BY <2>5, <3>1, <3>2 DEF Reserved, Members
    <3>4. Cardinality(Reserved(r)) = Cardinality(S) + Cardinality(T)
      BY <3>3, DisjointCount
    <3>5. CASE r \in DOMAIN m
      <4>1. m[r].alloc + m[r].idle + m[r].mix + m[r].down + m[r].other = Cardinality(T)
        BY <1>1, <2>2, <3>2, <3>5 DEF HealthyIsUp, Members
      <4>. QED
        BY <3>1, <3>2, <3>4, <3>5, <4>1
    <3>6. CASE r \notin DOMAIN m
      <4>1. T = {}
        BY <2>6, <3>1, <3>2, <3>6
      <4>2. Cardinality(T) = 0 /\ Cardinality(S) \in Nat
        BY <3>3, <4>1, FS_EmptySet, SameCount, FS_CardinalityType
      <4>. QED
        BY <3>1, <3>2, <3>4, <3>6, <4>2
    <3>. QED
      BY <3>5, <3>6
  <2>. QED
    BY <2>1, <2>2, <2>3, <2>4, <2>9, <2>10, <2>11 DEF ReservationViewsAgree, Made
<1>. QED
  BY <1>1, NodesTypedCorrect, BookedApartCorrect, HealthyIsUpHolds, PTL

-----------------------------------------------------------------------------
(* What sinfo groups.                                                      *)

\* Each node is in a line of sinfo's.
LEMMA GroupedHas ==
  ASSUME NEW columns, NEW n \in DOMAIN columns
  PROVE  \E l : l \in Grouped(columns)
<1>1. columns[n] \in Range(columns)
  BY DEF Range
<1>2. PICK l : l = [columns |-> columns[n],
                    nodes   |-> Cardinality({m \in DOMAIN columns : columns[m] = columns[n]})]
  OBVIOUS
<1>3. l \in Grouped(columns)
  BY <1>1, <1>2 DEF Grouped
<1>. QED
  BY <1>3

\* sinfo prints finitely many lines.
LEMMA GroupedFinite ==
  ASSUME NEW D, IsFiniteSet(D), NEW columns, DOMAIN columns = D
  PROVE  IsFiniteSet(Grouped(columns))
<1>. DEFINE row(c) == [columns |-> c, nodes |-> Cardinality({n \in D : columns[n] = c})]
<1>1. PICK G, rows : G = Grouped(columns) /\ rows = [n \in D |-> row(columns[n])]
  OBVIOUS
<1>2. G = {row(c) : c \in Range(columns)}
  BY <1>1 DEF Grouped
<1>. HIDE DEF row
<1>3. \A l \in G : \E n \in D : l = rows[n]
  BY <1>1, <1>2 DEF Range
<1>4. IsFiniteSet(G)
  BY <1>3, FiniteImage
<1>. QED
  BY <1>1, <1>4

\* A line says w of each of its nodes.
EachSays(f, columns, w) == \A l \in Grouped(columns) : f[l] = l.nodes * w[l.columns]

\* A line counts its nodes: summed over the lines it is as if sinfo had printed
\* one for each node.
LEMMA GroupedSum ==
  ASSUME NEW D, IsFiniteSet(D), NEW columns, DOMAIN columns = D,
         NEW w, \A n \in D : w[columns[n]] \in Int,
         NEW f, EachSays(f, columns, w),
         NEW g, \A n \in D : g[n] = w[columns[n]]
  PROVE  /\ IsFiniteSet(Grouped(columns))
         /\ SumFunctionOnSet(f, Grouped(columns)) = SumFunctionOnSet(g, D)
<1>. DEFINE Of(c) == {n \in D : columns[n] = c}
            row(c) == [columns |-> c, nodes |-> Cardinality(Of(c))]
<1>1. PICK K : K = {columns[n] : n \in D}
  OBVIOUS
<1>2. IsFiniteSet(K)
  BY <1>1, FiniteImage
<1>3. PICK h : h = [c \in K |-> SumFunctionOnSet(g, Of(c))]
  OBVIOUS
<1>4. SumFunctionOnSet(h, K) = SumFunctionOnSet(g, D)
  <2>1. \A n \in D : columns[n] \in K /\ g[n] \in Int
    BY <1>1
  <2>2. PICK of : of = [c \in K |-> Of(c)]
    OBVIOUS
  <2>3. \A c \in K : of[c] = {n \in D : columns[n] = c}
    BY <2>2
  <2>. HIDE DEF Of
  <2>4. \A c \in K : h[c] = SumFunctionOnSet(g, of[c])
    BY <1>3, <2>2
  <2>. QED
    BY <1>2, <2>1, <2>3, <2>4, SumGroup
<1>5. ASSUME NEW c \in K PROVE Cardinality(Of(c)) \in Nat /\ w[c] \in Int /\ h[c] = w[c] * Cardinality(Of(c))
  <2>1. PICK T : T = Of(c)
    OBVIOUS
  <2>2. IsFiniteSet(T)
    BY <2>1, FS_Subset
  <2>3. w[c] \in Int /\ \A n \in T : g[n] = w[c]
    BY <1>1, <2>1
  <2>4. SumFunctionOnSet(g, T) = w[c] * Cardinality(T)
    BY <2>2, <2>3, SumConst
  <2>. QED
    BY <1>3, <2>1, <2>2, <2>3, <2>4, FS_CardinalityType
<1>6. Grouped(columns) = {row(c) : c \in K}
  <2>1. Range(columns) = K
    BY <1>1 DEF Range
  <2>. QED
    BY <2>1 DEF Grouped
<1>7. \A c \in K : row(c).columns = c /\ row(c).nodes = Cardinality(Of(c))
  OBVIOUS
<1>8. PICK rows : rows = [c \in K |-> row(c)]
  OBVIOUS
<1>. HIDE DEF row, Of
<1>9. PICK R : R = Grouped(columns)
  OBVIOUS
<1>10. /\ \A c \in K : rows[c] \in R
       /\ \A c, d \in K : rows[c] = rows[d] => c = d
       /\ \A l \in R : \E c \in K : l = rows[c]
  BY <1>6, <1>7, <1>8, <1>9
<1>11. /\ \A c \in K : h[c] = f[rows[c]]
       /\ \A c \in K : h[c] \in Int
  <2>1. \A c \in K : f[rows[c]] = Cardinality(Of(c)) * w[c]
    BY <1>7, <1>8, <1>9, <1>10 DEF EachSays
  <2>. QED
    BY <1>5, <2>1
<1>12. \A l \in R : f[l] \in Int
  BY <1>10, <1>11
<1>13. IsFiniteSet(R) /\ SumFunctionOnSet(h, K) = SumFunctionOnSet(f, R)
  <2>1. OneToOne(rows, K, R)
    BY <1>10 DEF OneToOne
  <2>2. \A c \in K : h[c] = f[rows[c]]
    BY <1>11
  <2>. QED
    BY <1>2, <1>12, <2>1, <2>2, SumReindex
<1>. QED
  BY <1>4, <1>9, <1>13

-----------------------------------------------------------------------------
(* The CPUs of nodes.                                                      *)

Usable(n) == node[n].base \in Up /\ ~node[n].drain
Free(n)   == Inventory[n].cpus - CPUsUsed(n)

\* What the node collector reads of a node's CPUs.
CPUsOf(n) == ParseCPUsMetrics(CPUsState({n}))

CPUsFields == {"alloc", "idle", "other", "total"}

\* Only the CPUs of a node that is up and not drained are idle.
LEMMA OneNode ==
  ASSUME NodesTyped, NEW n \in Nodes
  PROVE  /\ CPUsUsed(n) \in Nat /\ Inventory[n].cpus \in Nat /\ Free(n) \in Nat
         /\ CPUsOf(n) = [alloc |-> CPUsUsed(n),
                         idle  |-> IF Usable(n) THEN Free(n) ELSE 0,
                         other |-> IF Usable(n) THEN 0 ELSE Free(n),
                         total |-> Inventory[n].cpus]
<1>1. CPUsUsed(n) \in Nat /\ Inventory[n].cpus \in Nat /\ Free(n) \in Nat
  BY InventoryAssumption DEF CPUsUsed, Free
<1>2. PICK used, free, all, one :
        /\ used = [m \in one |-> CPUsUsed(m)] /\ free = [m \in one |-> Inventory[m].cpus - CPUsUsed(m)]
        /\ all = [m \in one |-> Inventory[m].cpus] /\ one = {n}
  OBVIOUS
<1>3. PICK usable, rest :
        /\ usable = {m \in one : node[m].base \in Up /\ ~node[m].drain}
        /\ rest = one \ usable
  OBVIOUS
<1>4. CPUsState(one) = <<SumFunctionOnSet(used, one), SumFunctionOnSet(free, usable),
                         SumFunctionOnSet(free, rest), SumFunctionOnSet(all, one)>>
  <2>1. SumFunction(used) = SumFunctionOnSet(used, one)
    BY <1>2 DEF SumFunction
  <2>2. SumFunction(all) = SumFunctionOnSet(all, one)
    BY <1>2 DEF SumFunction
  <2>. QED
    BY <1>2, <1>3, <2>1, <2>2 DEF CPUsState
<1>5. used[n] = CPUsUsed(n) /\ free[n] = Free(n) /\ all[n] = Inventory[n].cpus
  BY <1>2 DEF Free
<1>6. SumFunctionOnSet(used, one) = CPUsUsed(n) /\ SumFunctionOnSet(all, one) = Inventory[n].cpus
  BY <1>1, <1>2, <1>5, SumOne
<1>7. SumFunctionOnSet(free, one) = Free(n) /\ SumFunctionOnSet(free, {}) = 0
  BY <1>1, <1>2, <1>5, SumOne, SumEmpty
<1>8. /\ Usable(n) => usable = one /\ rest = {}
      /\ ~Usable(n) => usable = {} /\ rest = one
  BY <1>2, <1>3 DEF Usable
<1>9. /\ SumFunctionOnSet(free, usable) = IF Usable(n) THEN Free(n) ELSE 0
      /\ SumFunctionOnSet(free, rest) = IF Usable(n) THEN 0 ELSE Free(n)
  BY <1>7, <1>8
<1>10. CPUsState({n}) = <<CPUsUsed(n), IF Usable(n) THEN Free(n) ELSE 0,
                          IF Usable(n) THEN 0 ELSE Free(n), Inventory[n].cpus>>
  BY <1>2, <1>4, <1>6, <1>9
<1>. QED
  BY <1>1, <1>10 DEF CPUsOf, ParseCPUsMetrics

\* The CPUs that sinfo prints for some nodes are those it prints for each, summed.
LEMMA CPUsSum ==
  ASSUME NodesTyped, NEW ns \in SUBSET Nodes
  PROVE  /\ DOMAIN ParseCPUsMetrics(CPUsState(ns)) = CPUsFields
         /\ \A field \in CPUsFields :
              ParseCPUsMetrics(CPUsState(ns))[field]
                = SumFunctionOnSet([n \in ns |-> CPUsOf(n)[field]], ns)
<1>1. PICK used, free, all, usable, rest :
        /\ used = [m \in ns |-> CPUsUsed(m)] /\ free = [m \in ns |-> Inventory[m].cpus - CPUsUsed(m)]
        /\ all = [m \in ns |-> Inventory[m].cpus]
        /\ usable = {m \in ns : node[m].base \in Up /\ ~node[m].drain}
        /\ rest = ns \ usable
  OBVIOUS
<1>2. CPUsState(ns) = <<SumFunctionOnSet(used, ns), SumFunctionOnSet(free, usable),
                        SumFunctionOnSet(free, rest), SumFunctionOnSet(all, ns)>>
  <2>1. SumFunction(used) = SumFunctionOnSet(used, ns)
    BY <1>1 DEF SumFunction
  <2>2. SumFunction(all) = SumFunctionOnSet(all, ns)
    BY <1>1 DEF SumFunction
  <2>. QED
    BY <1>1, <2>1, <2>2 DEF CPUsState
<1>3. ParseCPUsMetrics(CPUsState(ns)) =
        [alloc |-> SumFunctionOnSet(used, ns), idle |-> SumFunctionOnSet(free, usable),
         other |-> SumFunctionOnSet(free, rest), total |-> SumFunctionOnSet(all, ns)]
  BY <1>2 DEF ParseCPUsMetrics
<1>4. IsFiniteSet(ns)
  BY SameCount
<1>5. \A n \in ns : /\ used[n] = CPUsUsed(n) /\ free[n] = Free(n) /\ all[n] = Inventory[n].cpus
                    /\ used[n] \in Nat /\ free[n] \in Nat /\ all[n] \in Nat
                    /\ CPUsOf(n) = [alloc |-> CPUsUsed(n),
                                    idle  |-> IF Usable(n) THEN Free(n) ELSE 0,
                                    other |-> IF Usable(n) THEN 0 ELSE Free(n),
                                    total |-> Inventory[n].cpus]
  BY <1>1, OneNode DEF Free
<1>6. PICK a, i, o, t :
        /\ a = [n \in ns |-> CPUsOf(n)["alloc"]] /\ i = [n \in ns |-> CPUsOf(n)["idle"]]
        /\ o = [n \in ns |-> CPUsOf(n)["other"]] /\ t = [n \in ns |-> CPUsOf(n)["total"]]
  OBVIOUS
<1>7. SumFunctionOnSet(used, ns) = SumFunctionOnSet(a, ns)
  <2>1. \A n \in ns : used[n] \in Int /\ used[n] = a[n]
    BY <1>5, <1>6
  <2>. QED
    BY <1>4, <2>1, SumSame
<1>8. SumFunctionOnSet(all, ns) = SumFunctionOnSet(t, ns)
  <2>1. \A n \in ns : all[n] \in Int /\ all[n] = t[n]
    BY <1>5, <1>6
  <2>. QED
    BY <1>4, <2>1, SumSame
<1>9. SumFunctionOnSet(i, ns) = SumFunctionOnSet(free, usable)
  <2>1. usable \in SUBSET ns /\ \A n \in usable : free[n] \in Int /\ i[n] = free[n]
    BY <1>1, <1>5, <1>6 DEF Usable
  <2>2. \A n \in ns \ usable : i[n] = 0
    BY <1>1, <1>5, <1>6 DEF Usable
  <2>. QED
    BY <1>4, <2>1, <2>2, SumFilter
<1>10. SumFunctionOnSet(o, ns) = SumFunctionOnSet(free, rest)
  <2>1. rest \in SUBSET ns /\ \A n \in rest : free[n] \in Int /\ o[n] = free[n]
    BY <1>1, <1>5, <1>6 DEF Usable
  <2>2. \A n \in ns \ rest : o[n] = 0
    BY <1>1, <1>5, <1>6 DEF Usable
  <2>. QED
    BY <1>4, <2>1, <2>2, SumFilter
<1>. QED
  BY <1>3, <1>6, <1>7, <1>8, <1>9, <1>10 DEF CPUsFields

\* A CPU of some nodes is allocated, idle or neither.
LEMMA CPUsAddUp ==
  ASSUME NodesTyped, NEW ns \in SUBSET Nodes
  PROVE  LET c == ParseCPUsMetrics(CPUsState(ns))
         IN  c.alloc + c.idle + c.other = c.total
<1>1. PICK a, i, o, t, u :
        /\ a = [n \in ns |-> CPUsOf(n)["alloc"]] /\ i = [n \in ns |-> CPUsOf(n)["idle"]]
        /\ o = [n \in ns |-> CPUsOf(n)["other"]] /\ t = [n \in ns |-> CPUsOf(n)["total"]]
        /\ u = [n \in ns |-> a[n] + i[n]]
  OBVIOUS
<1>2. IsFiniteSet(ns)
  BY SameCount
<1>3. \A n \in ns : /\ a[n] \in Int /\ i[n] \in Int /\ o[n] \in Int /\ t[n] \in Int /\ u[n] \in Int
                    /\ u[n] = a[n] + i[n] /\ t[n] = u[n] + o[n]
  <2> SUFFICES ASSUME NEW n \in ns
               PROVE  /\ a[n] \in Int /\ i[n] \in Int /\ o[n] \in Int /\ t[n] \in Int /\ u[n] \in Int
                      /\ u[n] = a[n] + i[n] /\ t[n] = u[n] + o[n]
    OBVIOUS
  <2>1. /\ a[n] = CPUsUsed(n) /\ t[n] = Inventory[n].cpus /\ u[n] = a[n] + i[n]
        /\ i[n] = IF Usable(n) THEN Free(n) ELSE 0
        /\ o[n] = IF Usable(n) THEN 0 ELSE Free(n)
        /\ CPUsUsed(n) \in Nat /\ Inventory[n].cpus \in Nat /\ Free(n) \in Nat
    BY <1>1, OneNode
  <2>2. Free(n) = Inventory[n].cpus - CPUsUsed(n)
    BY DEF Free
  <2>. QED
    BY <2>1, <2>2
<1>4. SumFunctionOnSet(u, ns) = SumFunctionOnSet(a, ns) + SumFunctionOnSet(i, ns)
  BY <1>2, <1>3, SumPlus
<1>5. SumFunctionOnSet(t, ns) = SumFunctionOnSet(u, ns) + SumFunctionOnSet(o, ns)
  BY <1>2, <1>3, SumPlus
<1>. QED
  BY <1>1, <1>4, <1>5, CPUsSum DEF CPUsFields

PartitionSeen == INSTANCE FoldProofs WITH Step <- AddPartition

\* A partition's name without a marker is left alone.
LEMMA PlainKept ==
  ASSUME NEW p \in Parts
  PROVE  TrimRight(p) = p
<1>1. PICK star : star = Default \o "*"
  OBVIOUS
<1>2. star \notin Parts
  BY <1>1, InventoryAssumption
<1>3. \A q : Marked(q) = IF q = Default THEN star ELSE q
  BY <1>1 DEF Marked
<1>4. \A q \in Parts : p \in {q, Marked(q)} <=> q = p
  BY <1>2, <1>3
<1>. QED
  BY <1>4 DEF TrimRight

\* The lines of partitions are read one by one.
LEMMA PartitionsTrace ==
  ASSUME NEW lines, NEW s, s = SetToSeq(lines), NEW k \in Nat, DOMAIN s = 1 .. k
  PROVE  \E g : /\ g[0] = <<>>
                /\ \A i \in 1 .. k : g[i] = AddPartition(g[i - 1], s[i])
                /\ parsePartitionCPUs(lines) = g[k]
<1>1. PICK none : none = <<>>
  OBVIOUS
<1>2. parsePartitionCPUs(lines) = PartitionSeen!Folded(none, s)
  BY <1>1 DEF parsePartitionCPUs, PartitionSeen!Folded, FoldLeft, MapThenFoldSet, PartitionSeen!MapThenFoldSet, Max, PartitionSeen!Greatest
<1>3. \E g : /\ g[0] = none
             /\ \A i \in 1 .. k : g[i] = AddPartition(g[i - 1], s[i])
             /\ PartitionSeen!Folded(none, s) = g[k]
  BY PartitionSeen!Trace
<1>. QED
  BY <1>1, <1>2, <1>3

PartLine(p) == [part |-> p, cpus |-> CPUsState(In(p))]

\* There are finitely many partitions.
LEMMA PartsFinite == IsFiniteSet(Parts)
<1>1. PICK ps : ps = {Inventory[n].parts : n \in Nodes}
  OBVIOUS
<1>2. PICK parts : parts = [n \in Nodes |-> Inventory[n].parts]
  OBVIOUS
<1>3. \A y \in ps : \E n \in Nodes : y = parts[n]
  BY <1>1, <1>2
<1>4. IsFiniteSet(Nodes)
  BY InventoryAssumption
<1>5. IsFiniteSet(ps)
  BY <1>3, <1>4, FiniteImage
<1>6. \A T \in ps : IsFiniteSet(T)
  BY <1>1, InventoryAssumption
<1>7. IsFiniteSet(UNION ps)
  BY <1>5, <1>6, FS_UNION
<1>. QED
  BY <1>1, <1>7 DEF Parts

\* The partitions collector has the partitions that sinfo prints and the CPUs of each.
LEMMA PartitionsRead ==
  LET parts == parsePartitionCPUs(PartitionsData)
  IN  /\ DOMAIN parts = VisibleParts
      /\ \A p \in VisibleParts : parts[p] = ParseCPUsMetrics(CPUsState(In(p)))
<1>0. VisibleParts \subseteq Parts /\ IsFiniteSet(VisibleParts)
  BY PartsFinite, FS_Subset DEF VisibleParts
<1>1. PICK L : L = {PartLine(q) : q \in VisibleParts}
  OBVIOUS
<1>2. PartitionsData = L
  BY <1>1 DEF PartitionsData, PartLine
<1>3. IsFiniteSet(L)
  <2>1. PICK row : row = [q \in VisibleParts |-> PartLine(q)]
    OBVIOUS
  <2>2. \A y \in L : \E q \in VisibleParts : y = row[q]
    BY <1>1, <2>1
  <2>. QED
    BY <1>0, <2>2, FiniteImage
<1>4. PICK k \in Nat : k = Cardinality(L)
  BY <1>3, FS_CardinalityType
<1>5. PICK s : s = SetToSeq(L)
  OBVIOUS
<1>6. /\ DOMAIN s = 1 .. k
      /\ \A i \in 1 .. k : s[i] \in L
      /\ \A l \in L : \E i \in 1 .. k : s[i] = l
  BY <1>3, <1>4, <1>5, Listed
<1>61. DOMAIN s = 1 .. k
  BY <1>6
<1>7. PICK g : /\ g[0] = <<>>
               /\ \A i \in 1 .. k : g[i] = AddPartition(g[i - 1], s[i])
               /\ parsePartitionCPUs(L) = g[k]
  BY <1>5, <1>61, PartitionsTrace
<1>8. \A q : PartLine(q).part = q /\ PartLine(q).cpus = CPUsState(In(q))
  BY DEF PartLine
<1>. DEFINE Cpus(q) == ParseCPUsMetrics(CPUsState(In(q)))
            SeenBy(i) == {q \in VisibleParts : \E j \in 1 .. i : s[j].part = q}
            Read(i) == DOMAIN g[i] = SeenBy(i) /\ \A q \in SeenBy(i) : g[i][q] = Cpus(q)
            S == {i \in Nat : i <= k => Read(i)}
<1>9. ASSUME NEW old, NEW q \in VisibleParts
      PROVE  LET new == AddPartition(old, PartLine(q))
             IN  /\ DOMAIN new = DOMAIN old \cup {q} /\ new[q] = Cpus(q)
                 /\ \A x \in DOMAIN old : x # q => new[x] = old[x]
  <2>1. TrimRight(PartLine(q).part) = q
    BY <1>0, <1>8, PlainKept
  <2>. QED
    BY <1>8, <2>1 DEF AddPartition
<1>. HIDE DEF Cpus
<1>10. 0 \in S
  <2>1. SeenBy(0) = {}
    OBVIOUS
  <2>2. DOMAIN g[0] = {}
    BY <1>7
  <2>. QED
    BY <2>1, <2>2
<1>11. ASSUME NEW i \in Nat, i \in S PROVE i + 1 \in S
  <2> SUFFICES ASSUME i + 1 <= k PROVE Read(i + 1)
    OBVIOUS
  <2>1. i + 1 \in 1 .. k /\ (i + 1) - 1 = i
    OBVIOUS
  <2>2. PICK r \in VisibleParts : s[i + 1] = PartLine(r)
    BY <1>1, <1>6, <2>1
  <2>3. /\ DOMAIN g[i + 1] = DOMAIN g[i] \cup {r} /\ g[i + 1][r] = Cpus(r)
        /\ \A x \in DOMAIN g[i] : x # r => g[i + 1][x] = g[i][x]
    <3>1. PICK old, new : old = g[i] /\ new = AddPartition(old, PartLine(r))
      OBVIOUS
    <3>2. g[i + 1] = new
      BY <1>7, <2>1, <2>2, <3>1
    <3>3. /\ DOMAIN new = DOMAIN old \cup {r} /\ new[r] = Cpus(r)
          /\ \A x \in DOMAIN old : x # r => new[x] = old[x]
      BY <1>9, <3>1
    <3>. QED
      BY <3>1, <3>2, <3>3
  <2>4. Read(i)
    BY <1>11
  <2>5. SeenBy(i + 1) = SeenBy(i) \cup {r}
    <3>1. \A j \in 1 .. i + 1 : j = i + 1 \/ j \in 1 .. i
      OBVIOUS
    <3>2. s[i + 1].part = r
      BY <1>8, <2>2
    <3>3. \A j \in 1 .. i : j \in 1 .. i + 1
      OBVIOUS
    <3>4. i + 1 \in 1 .. i + 1
      OBVIOUS
    <3>. QED
      BY <3>1, <3>2, <3>3, <3>4
  <2>. HIDE DEF SeenBy
  <2>. QED
    BY <2>3, <2>4, <2>5
<1>12. k \in S
  <2>. HIDE DEF S
  <2>. QED
    BY <1>10, <1>11, NatInd
<1>13. SeenBy(k) = VisibleParts
  BY <1>1, <1>6, <1>8
<1>14. Read(k)
  BY <1>12
<1>15. DOMAIN g[k] = VisibleParts /\ \A q \in VisibleParts : g[k][q] = Cpus(q)
  BY <1>13, <1>14
<1>. QED
  BY <1>2, <1>7, <1>15 DEF Cpus

\* A line has its columns from one of the nodes, and a number of them.
LEMMA GroupedLine ==
  ASSUME NEW D, IsFiniteSet(D), NEW columns, DOMAIN columns = D, NEW l \in Grouped(columns)
  PROVE  /\ \E n \in D : l.columns = columns[n]
         /\ l.nodes \in Nat
<1>1. PICK c \in Range(columns) : l = [columns |-> c, nodes |-> Cardinality({n \in D : columns[n] = c})]
  BY DEF Grouped
<1>2. PICK T : T = {n \in D : columns[n] = c}
  OBVIOUS
<1>3. Cardinality(T) \in Nat
  BY <1>2, FS_Subset, FS_CardinalityType
<1>. QED
  BY <1>1, <1>2, <1>3 DEF Range

SomeSay(f, columns, C, w) ==
  \A l \in Grouped(columns) : l.columns \in C => f[l] = l.nodes * w[l.columns]

\* So is a sum over the lines with some columns.
LEMMA GroupedWhere ==
  ASSUME NEW D, IsFiniteSet(D), NEW columns, DOMAIN columns = D, NEW C,
         NEW w, \A n \in D : columns[n] \in C => w[columns[n]] \in Int,
         NEW f, SomeSay(f, columns, C, w),
         NEW g, \A n \in D : columns[n] \in C => g[n] = w[columns[n]],
         NEW L, L = {l \in Grouped(columns) : l.columns \in C},
         NEW T, T = {n \in D : columns[n] \in C}
  PROVE  SumFunctionOnSet(f, L) = SumFunctionOnSet(g, T)
<1>1. PICK w2 : w2 = [c \in Range(columns) |-> IF c \in C THEN w[c] ELSE 0]
  OBVIOUS
<1>2. PICK G : G = Grouped(columns)
  OBVIOUS
<1>3. PICK f2, g2 : /\ f2 = [l \in G |-> l.nodes * w2[l.columns]]
                    /\ g2 = [n \in D |-> w2[columns[n]]]
  OBVIOUS
<1>4. \A n \in D : /\ columns[n] \in Range(columns)
                   /\ w2[columns[n]] \in Int
                   /\ columns[n] \in C => g2[n] = g[n] /\ g[n] \in Int
                   /\ columns[n] \notin C => g2[n] = 0 /\ w2[columns[n]] = 0
                   /\ g2[n] = w2[columns[n]]
  BY <1>1, <1>3 DEF Range
<1>5. EachSays(f2, columns, w2)
  BY <1>2, <1>3 DEF EachSays
<1>6. IsFiniteSet(G) /\ SumFunctionOnSet(f2, G) = SumFunctionOnSet(g2, D)
  <2>1. \A n \in D : w2[columns[n]] \in Int
    BY <1>4
  <2>2. \A n \in D : g2[n] = w2[columns[n]]
    BY <1>4
  <2>. QED
    BY <1>2, <1>5, <2>1, <2>2, GroupedSum
<1>7. ASSUME NEW l \in G
      PROVE  /\ l.columns \in C => f2[l] = f[l] /\ f[l] \in Int
             /\ l.columns \notin C => f2[l] = 0
  <2>1. PICK n \in D : l.columns = columns[n]
    BY <1>2, GroupedLine
  <2>2. l.nodes \in Nat
    BY <1>2, GroupedLine
  <2>3. f2[l] = l.nodes * w2[l.columns]
    BY <1>3
  <2>4. CASE l.columns \in C
    <3>1. w2[l.columns] = w[l.columns] /\ w[l.columns] \in Int
      BY <1>1, <1>4, <2>1, <2>4
    <3>2. f[l] = l.nodes * w[l.columns]
      BY <1>2, <2>4 DEF SomeSay
    <3>. QED
      BY <2>2, <2>3, <2>4, <3>1, <3>2
  <2>5. CASE l.columns \notin C
    BY <1>4, <2>1, <2>2, <2>3, <2>5
  <2>. QED
    BY <2>4, <2>5
<1>8. SumFunctionOnSet(f2, G) = SumFunctionOnSet(f, L)
  <2>1. L \in SUBSET G
    BY <1>2
  <2>2. \A l \in L : f[l] \in Int /\ f2[l] = f[l]
    BY <1>2, <1>7
  <2>3. \A l \in G \ L : f2[l] = 0
    BY <1>2, <1>7
  <2>. QED
    BY <1>6, <2>1, <2>2, <2>3, SumFilter
<1>9. SumFunctionOnSet(g2, D) = SumFunctionOnSet(g, T)
  <2>1. T \in SUBSET D
    OBVIOUS
  <2>2. \A n \in T : g[n] \in Int /\ g2[n] = g[n]
    BY <1>4
  <2>3. \A n \in D \ T : g2[n] = 0
    BY <1>4
  <2>. QED
    BY <2>1, <2>2, <2>3, SumFilter
<1>. QED
  BY <1>6, <1>8, <1>9

\* What sinfo prints of the nodes of a partition, and the lines of it.
Looks(p) == [n \in In(p) |-> [part |-> p, state |-> StateLong(n), features |-> Inventory[n].features]]

\* The lines of a partition are those of its nodes, grouped.
LEMMA PartitionLines ==
  /\ {l.columns.part : l \in NodesDataGlobal} = VisibleParts
  /\ \A p \in VisibleParts :
       /\ IsFiniteSet(In(p)) /\ In(p) # {}
       /\ {l \in NodesDataGlobal : l.columns.part = p} = Grouped(Looks(p))
<1>1. \A q \in VisibleParts : IsFiniteSet(In(q)) /\ In(q) # {}
  <2>1. \A q \in VisibleParts : In(q) \in SUBSET Nodes /\ In(q) # {}
    BY DEF In, Parts, VisibleParts
  <2>. QED
    BY <2>1, SameCount
<1>2. NodesDataGlobal = UNION {Grouped(Looks(q)) : q \in VisibleParts}
  BY DEF NodesDataGlobal, Looks
<1>3. ASSUME NEW q \in VisibleParts, NEW l \in Grouped(Looks(q)) PROVE l.columns.part = q
  <2>1. PICK D, columns : D = In(q) /\ columns = Looks(q)
    OBVIOUS
  <2>2. /\ IsFiniteSet(D) /\ DOMAIN columns = D
        /\ \A n \in D : columns[n].part = q
    BY <1>1, <2>1 DEF Looks
  <2>3. l \in Grouped(columns)
    BY <2>1
  <2>4. \E n \in D : l.columns = columns[n]
    BY <2>2, <2>3, GroupedLine
  <2>. QED
    BY <2>2, <2>4
<1>4. ASSUME NEW p \in VisibleParts PROVE \E l : l \in Grouped(Looks(p))
  <2>1. PICK n \in In(p) : TRUE
    BY <1>1
  <2>2. n \in DOMAIN Looks(p)
    BY <2>1 DEF Looks
  <2>. QED
    BY <2>2, GroupedHas
<1>5. {l.columns.part : l \in NodesDataGlobal} = VisibleParts
  BY <1>2, <1>3, <1>4
<1>. QED
  BY <1>1, <1>2, <1>3, <1>5

\* However the nodes of a partition are grouped, those in a state are counted once.
LEMMA BucketCount ==
  ASSUME NEW p \in VisibleParts, NEW b \in Buckets
  PROVE  sumMap(ParseNodesMetricsGlobal(NodesDataGlobal)[p][b])
           = Cardinality({n \in In(p) : Bucket(StateLong(n)) = b})
<1>1. PICK G, Gb, Classes :
        /\ G = {l \in NodesDataGlobal : l.columns.part = p}
        /\ Gb = {l \in G : Bucket(l.columns.state) = b}
        /\ Classes = {normalizeFeatureSet(l.columns.features) : l \in G}
  OBVIOUS
<1>2. PICK count, of, key :
        /\ count = [l \in Gb |-> l.nodes]
        /\ of = [fs \in Classes |-> {l \in Gb : normalizeFeatureSet(l.columns.features) = fs}]
        /\ key = [l \in Gb |-> normalizeFeatureSet(l.columns.features)]
  OBVIOUS
<1>3. PICK m : m = ParseNodesMetricsGlobal(NodesDataGlobal)[p][b]
  OBVIOUS
<1>4. /\ DOMAIN m = Classes
      /\ \A fs \in Classes : m[fs] = SumFunctionOnSet([l \in of[fs] |-> l.nodes], of[fs])
  <2>1. p \in {l.columns.part : l \in NodesDataGlobal}
    BY PartitionLines
  <2>2. m = [fs \in Classes |->
               SumFunction([l \in {l \in G : /\ Bucket(l.columns.state) = b
                                             /\ normalizeFeatureSet(l.columns.features) = fs} |-> l.nodes])]
    BY <1>1, <1>3, <2>1 DEF ParseNodesMetricsGlobal
  <2>3. \A fs \in Classes :
          {l \in G : /\ Bucket(l.columns.state) = b
                     /\ normalizeFeatureSet(l.columns.features) = fs} = of[fs]
    BY <1>1, <1>2
  <2>4. m = [fs \in Classes |-> SumFunction([l \in of[fs] |-> l.nodes])]
    BY <2>2, <2>3
  <2>. QED
    BY <2>4 DEF SumFunction
<1>5. PICK D, columns : D = In(p) /\ columns = Looks(p)
  OBVIOUS
<1>6. /\ IsFiniteSet(D) /\ DOMAIN columns = D /\ G = Grouped(columns)
      /\ \A n \in D : columns[n].state = StateLong(n)
  BY <1>1, <1>5, PartitionLines DEF Looks
<1>7. PICK C, w, T, one :
        /\ C = {c \in Range(columns) : Bucket(c.state) = b}
        /\ w = [c \in Range(columns) |-> 1]
        /\ T = {n \in D : columns[n] \in C}
        /\ one = [n \in D |-> 1]
  OBVIOUS
<1>8. /\ Gb = {l \in Grouped(columns) : l.columns \in C}
      /\ \A l \in Gb : l.nodes \in Nat
      /\ \A l \in Gb : l.columns \in Range(columns)
  <2>1. \A l \in Grouped(columns) : l.nodes \in Nat /\ \E n \in D : l.columns = columns[n]
    BY <1>6, GroupedLine
  <2>2. \A l \in Grouped(columns) : l.columns \in Range(columns)
    BY <1>6, <2>1 DEF Range
  <2>. QED
    BY <1>1, <1>6, <1>7, <2>1, <2>2
<1>9. SomeSay(count, columns, C, w)
  <2> SUFFICES ASSUME NEW l \in Gb PROVE count[l] = l.nodes * w[l.columns]
    BY <1>8 DEF SomeSay
  <2>1. count[l] = l.nodes /\ w[l.columns] = 1 /\ l.nodes \in Nat
    BY <1>2, <1>7, <1>8
  <2>. QED
    BY <2>1
<1>10. SumFunctionOnSet(count, Gb) = SumFunctionOnSet(one, T) /\ IsFiniteSet(Gb)
  <2>1. \A n \in D : columns[n] \in C => w[columns[n]] \in Int
    BY <1>7
  <2>2. \A n \in D : columns[n] \in C => one[n] = w[columns[n]]
    BY <1>7
  <2>3. /\ Gb = {l \in Grouped(columns) : l.columns \in C}
        /\ T = {n \in D : columns[n] \in C}
        /\ IsFiniteSet(D) /\ DOMAIN columns = D
    BY <1>6, <1>7, <1>8
  <2>4. SumFunctionOnSet(count, Gb) = SumFunctionOnSet(one, T)
    BY <1>9, <2>1, <2>2, <2>3, GroupedWhere
  <2>5. IsFiniteSet(Gb)
    BY <1>1, <1>6, GroupedFinite, FS_Subset
  <2>. QED
    BY <2>4, <2>5
<1>11. SumFunctionOnSet(one, T) = Cardinality(T)
  <2>1. IsFiniteSet(T) /\ \A n \in T : one[n] = 1
    BY <1>6, <1>7, FS_Subset
  <2>. QED
    BY <2>1, SumOnes
<1>12. T = {n \in In(p) : Bucket(StateLong(n)) = b}
  BY <1>5, <1>6, <1>7 DEF Range
<1>13. IsFiniteSet(Classes)
  <2>1. IsFiniteSet(G)
    BY <1>6, GroupedFinite
  <2>2. PICK label : label = [l \in G |-> normalizeFeatureSet(l.columns.features)]
    OBVIOUS
  <2>3. \A y \in Classes : \E l \in G : y = label[l]
    BY <1>1, <2>2
  <2>. QED
    BY <2>1, <2>3, FiniteImage
<1>14. SumFunctionOnSet(m, Classes) = SumFunctionOnSet(count, Gb)
  <2>1. \A l \in Gb : key[l] \in Classes /\ count[l] \in Int
    BY <1>1, <1>2, <1>8
  <2>2. \A fs \in Classes : of[fs] = {l \in Gb : key[l] = fs}
    BY <1>2
  <2>3. ASSUME NEW fs \in Classes PROVE m[fs] = SumFunctionOnSet(count, of[fs])
    <3>1. PICK R, nodes : R = of[fs] /\ nodes = [l \in R |-> l.nodes]
      OBVIOUS
    <3>2. R \subseteq Gb
      BY <1>2, <3>1
    <3>3. IsFiniteSet(R)
      BY <1>10, <3>2, FS_Subset
    <3>4. \A l \in R : nodes[l] \in Int /\ nodes[l] = count[l]
      BY <1>2, <1>8, <3>1, <3>2
    <3>5. SumFunctionOnSet(nodes, R) = SumFunctionOnSet(count, R)
      BY <3>3, <3>4, SumSame
    <3>. QED
      BY <1>4, <3>1, <3>5
  <2>. QED
    BY <1>10, <1>13, <2>1, <2>2, <2>3, SumGroup
<1>15. sumMap(m) = SumFunctionOnSet(m, Classes)
  BY <1>4 DEF sumMap, SumFunction
<1>. QED
  BY <1>3, <1>10, <1>11, <1>12, <1>14, <1>15

\* The nodes of a partition that is listed are listed, in it.
LEMMA ShownIn ==
  ASSUME NEW p \in VisibleParts
  PROVE  /\ In(p) \in SUBSET VisibleNodes
         /\ \A n \in VisibleNodes : p \in ShownParts(n) <=> n \in In(p)
BY DEF VisibleParts, VisibleNodes, ShownParts, In

\* What the node collector has of a node.
LEMMA NodeRow ==
  ASSUME NEW n \in VisibleNodes
  PROVE  LET r == ParseNodeMetrics(NodeData)[n]
         IN  /\ r.cpus = CPUsOf(n) /\ r.nodeStatus = StateLong(n)
             /\ r.partitions = ShownParts(n)
             /\ r.gresTotal = parseGRESByType(Inventory[n].gres)
             /\ r.gresUsed = parseGRESByType(GresUsed(n))
<1>1. ParseNodeMetrics(NodeData)[n] =
        [cpus       |-> ParseCPUsMetrics(CPUsState({n})),
         nodeStatus |-> StateLong(n),
         partitions |-> ShownParts(n),
         gresTotal  |-> parseGRESByType(Inventory[n].gres),
         gresUsed   |-> parseGRESByType(GresUsed(n))]
  BY NodesListed
<1>. QED
  BY <1>1 DEF CPUsOf

\* The CPUs of some nodes, as the node collector has them.
LEMMA CPUsShown ==
  ASSUME NodesTyped, NEW ms \in SUBSET VisibleNodes, NEW field \in CPUsFields
  PROVE  SumFunction([n \in ms |-> ParseNodeMetrics(NodeData)[n].cpus[field]])
           = ParseCPUsMetrics(CPUsState(ms))[field]
<1>1. PICK f, g : /\ f = [n \in ms |-> ParseNodeMetrics(NodeData)[n].cpus[field]]
                  /\ g = [n \in ms |-> CPUsOf(n)[field]]
  OBVIOUS
<1>2. \A n \in ms : f[n] = g[n]
  BY <1>1, NodeRow
<1>3. f = g
  BY <1>1, <1>2
<1>4. SumFunction(f) = SumFunctionOnSet(f, ms)
  BY <1>1 DEF SumFunction
<1>5. ParseCPUsMetrics(CPUsState(ms))[field] = SumFunctionOnSet(g, ms)
  <2>1. ms \in SUBSET Nodes
    BY DEF VisibleNodes
  <2>. QED
    BY <1>1, <2>1, CPUsSum
<1>. QED
  BY <1>1, <1>3, <1>4, <1>5

\* ParseNodesMetricsGlobal, ParseNodeMetrics, ParseCPUsMetrics and parsePartitionCPUs:
\* four listings count the same nodes and the same CPUs.
THEOREM NodeViewsAgreeHolds == Spec => []NodeViewsAgree
<1>1. ASSUME NodesTyped PROVE NodeViewsAgree
  <2>1. PICK m : m = ParseNodesMetricsGlobal(NodesDataGlobal)
    OBVIOUS
  <2>2. PICK ns : ns = ParseNodeMetrics(NodeData)
    OBVIOUS
  <2>3. PICK cluster : cluster = ParseCPUsMetrics(CPUsData)
    OBVIOUS
  <2>4. PICK parts : parts = parsePartitionCPUs(PartitionsData)
    OBVIOUS
  <2>5. DOMAIN ns = VisibleNodes /\ VisibleNodes \in SUBSET Nodes
    BY <2>2, NodesListed DEF VisibleNodes
  <2>6. \A n \in VisibleNodes : /\ ns[n].cpus = CPUsOf(n) /\ ns[n].nodeStatus = StateLong(n)
                                /\ ns[n].partitions = ShownParts(n)
    BY <2>2, NodeRow
  <2>7. Cardinality(DOMAIN ns) = SlurmGetTotal
    <3>1. ScontrolNodes = Lines(VisibleNodes)
      BY DEF ScontrolNodes, Lines, Line
    <3>. QED
      BY <2>5, <3>1, SameCount DEF SlurmGetTotal
  <2>8. /\ DOMAIN cluster = CPUsFields
        /\ cluster.alloc + cluster.idle + cluster.other = cluster.total
    BY <1>1, <2>3, <2>5, CPUsSum, CPUsAddUp DEF CPUsData
  <2>9. ASSUME NEW field \in CPUsFields
        PROVE  /\ cluster[field] = SumFunction([n \in DOMAIN ns |-> ns[n].cpus[field]])
               /\ \A p \in VisibleParts : parts[p][field] =
                    SumFunction([n \in {n \in DOMAIN ns : p \in ns[n].partitions} |-> ns[n].cpus[field]])
    <3>1. cluster[field] = SumFunction([n \in DOMAIN ns |-> ns[n].cpus[field]])
      <4>1. VisibleNodes \in SUBSET VisibleNodes
        OBVIOUS
      <4>. QED
        BY <1>1, <2>2, <2>3, <2>5, <4>1, CPUsShown DEF CPUsData
    <3>2. ASSUME NEW p \in VisibleParts
          PROVE  parts[p][field] =
                   SumFunction([n \in {n \in DOMAIN ns : p \in ns[n].partitions} |-> ns[n].cpus[field]])
      <4>1. PICK ms : ms = In(p)
        OBVIOUS
      <4>2. ms \in SUBSET VisibleNodes /\ {n \in DOMAIN ns : p \in ns[n].partitions} = ms
        BY <2>5, <2>6, <4>1, ShownIn
      <4>3. parts[p] = ParseCPUsMetrics(CPUsState(ms))
        BY <2>4, <4>1, PartitionsRead
      <4>4. SumFunction([n \in ms |-> ns[n].cpus[field]]) = ParseCPUsMetrics(CPUsState(ms))[field]
        BY <1>1, <2>2, <4>2, CPUsShown
      <4>. QED
        BY <4>2, <4>3, <4>4
    <3>. QED
      BY <3>1, <3>2
  <2>10. \A n \in DOMAIN ns : Bucket(ns[n].nodeStatus) \in {"drain", "down"} => ns[n].cpus.idle = 0
    <3> SUFFICES ASSUME NEW n \in VisibleNodes, Bucket(StateLong(n)) \in {"drain", "down"}
                 PROVE  CPUsOf(n).idle = 0
      BY <2>5, <2>6
    <3>1. n \in Nodes
      BY <2>5
    <3>2. ~Usable(n)
      BY <1>1, <3>1, DegradedWord DEF Usable, Up, Busy
    <3>. QED
      BY <1>1, <3>1, <3>2, OneNode
  <2>11. ASSUME NEW p \in VisibleParts, NEW b \in Buckets
         PROVE  sumMap(m[p][b]) =
                  Cardinality({n \in DOMAIN ns : p \in ns[n].partitions /\ Bucket(ns[n].nodeStatus) = b})
    <3>1. {n \in DOMAIN ns : p \in ns[n].partitions /\ Bucket(ns[n].nodeStatus) = b}
            = {n \in In(p) : Bucket(StateLong(n)) = b}
      BY <2>5, <2>6, ShownIn
    <3>. QED
      BY <2>1, <3>1, BucketCount
  <2>12. DOMAIN m = VisibleParts /\ DOMAIN parts = VisibleParts
    <3>1. DOMAIN m = {l.columns.part : l \in NodesDataGlobal}
      BY <2>1 DEF ParseNodesMetricsGlobal
    <3>. QED
      BY <2>4, <3>1, PartitionLines, PartitionsRead
  <2>. QED
    BY <2>1, <2>2, <2>3, <2>4, <2>5, <2>7, <2>8, <2>9, <2>10, <2>11, <2>12 DEF NodeViewsAgree
<1>. QED
  BY <1>1, NodesTypedCorrect, PTL

-----------------------------------------------------------------------------
(* GPUs.                                                                   *)

Resource == [type : STRING, model : STRING, count : Nat]

IsGPU(spec, i) == spec[i].type = "gpu"

\* However the counts of a specification are kept by type and model, its GPUs are
\* those of its entries.
LEMMA GPUCount ==
  ASSUME NEW spec, NEW D, IsFiniteSet(D), DOMAIN spec = D, \A i \in D : spec[i].count \in Nat,
         NEW count, \A i \in D : count[i] = spec[i].count,
         NEW gpus, gpus = {i \in D : IsGPU(spec, i)}
  PROVE  /\ parseGPUCount(spec) = SumFunctionOnSet(count, gpus)
         /\ parseGPUCount(spec) \in Nat
<1>1. PICK counts, K, key, of :
        /\ counts = parseGRESByType(spec)
        /\ K = {k \in DOMAIN counts : k[1] = "gpu"}
        /\ key = [i \in gpus |-> Key(spec[i])]
        /\ of = [k \in K |-> {i \in gpus : key[i] = k}]
  OBVIOUS
<1>2. parseGPUCount(spec) = SumFunctionOnSet(counts, K)
  BY <1>1 DEF parseGPUCount
<1>3. /\ DOMAIN counts = {Key(spec[i]) : i \in D}
      /\ \A k \in DOMAIN counts :
           counts[k] = SumFunction([i \in {i \in D : Key(spec[i]) = k} |-> spec[i].count])
  BY <1>1 DEF parseGRESByType
<1>4. \A i \in D : Key(spec[i])[1] = spec[i].type
  BY DEF Key
<1>5. IsFiniteSet(gpus) /\ IsFiniteSet(K)
  <2>1. PICK all : all = [i \in D |-> Key(spec[i])]
    OBVIOUS
  <2>2. \A k \in K : \E i \in D : k = all[i]
    BY <1>1, <1>3, <2>1
  <2>3. IsFiniteSet(K)
    BY <2>2, FiniteImage
  <2>. QED
    BY <2>3, FS_Subset
<1>6. \A i \in gpus : key[i] \in K /\ count[i] \in Int
  BY <1>1, <1>3, <1>4 DEF IsGPU
<1>7. ASSUME NEW k \in K PROVE counts[k] = SumFunctionOnSet(count, of[k])
  <2>1. PICK R, f : R = of[k] /\ f = [i \in R |-> spec[i].count]
    OBVIOUS
  <2>2. R = {i \in D : Key(spec[i]) = k} /\ R \subseteq gpus
    BY <1>1, <1>4, <2>1 DEF IsGPU
  <2>3. counts[k] = SumFunction(f)
    BY <1>1, <1>3, <2>1, <2>2
  <2>4. SumFunction(f) = SumFunctionOnSet(f, R)
    BY <2>1 DEF SumFunction
  <2>5. IsFiniteSet(R)
    BY <1>5, <2>2, FS_Subset
  <2>6. \A i \in R : f[i] \in Int /\ f[i] = count[i]
    BY <2>1, <2>2
  <2>7. SumFunctionOnSet(f, R) = SumFunctionOnSet(count, R)
    BY <2>5, <2>6, SumSame
  <2>. QED
    BY <2>1, <2>3, <2>4, <2>7
<1>8. SumFunctionOnSet(counts, K) = SumFunctionOnSet(count, gpus)
  <2>1. \A k \in K : of[k] = {i \in gpus : key[i] = k}
    BY <1>1
  <2>2. \A i \in gpus : key[i] \in K
    BY <1>6
  <2>3. \A i \in gpus : count[i] \in Int
    BY <1>6
  <2>. QED
    BY <1>5, <1>7, <2>1, <2>2, <2>3, SumGroup, SMTT(60)
<1>9. SumFunctionOnSet(count, gpus) \in Nat
  <2>1. \A i \in gpus : count[i] \in Nat
    OBVIOUS
  <2>. QED
    BY <1>5, <2>1, SumNat
<1>. QED
  BY <1>2, <1>8, <1>9

\* The GPUs of a gres specification are a number.
LEMMA SpecificationCount ==
  ASSUME NEW spec \in Seq(Resource)
  PROVE  parseGPUCount(spec) \in Nat
<1>1. PICK D, count, gpus :
        D = DOMAIN spec /\ count = [i \in D |-> spec[i].count] /\ gpus = {i \in D : IsGPU(spec, i)}
  OBVIOUS
<1>2. IsFiniteSet(D)
  <2>1. PICK k \in Nat : D = 1 .. k
    BY <1>1
  <2>. QED
    BY <2>1, FS_Interval
<1>3. \A i \in D : spec[i] \in Resource
  BY <1>1
<1>4. \A i \in D : spec[i].count \in Nat
  BY <1>3 DEF Resource
<1>5. \A i \in D : count[i] = spec[i].count
  BY <1>1
<1>. QED
  BY <1>1, <1>2, <1>4, <1>5, GPUCount

GPUs(n)     == parseGPUCount(Inventory[n].gres)
GPUsUsed(n) == parseGPUCount(GresUsed(n))

\* slurmctld does not use more of a resource than a node has.
LEMMA UsedFits ==
  ASSUME NEW spec \in Seq(Resource), NEW i \in DOMAIN spec, NEW used \in Int
  PROVE  UsedOf(spec, i, used) \in 0 .. spec[i].count
<1>1. PICK head : head = SubSeq(spec, 1, i - 1)
  OBVIOUS
<1>2. head \in Seq(Resource)
  BY <1>1
<1>3. PICK before : before = parseGPUCount(head)
  OBVIOUS
<1>4. before \in Nat
  BY <1>2, <1>3, SpecificationCount
<1>5. PICK c : c = spec[i].count
  OBVIOUS
<1>6. c \in Nat
  <2>1. spec[i] \in Resource
    OBVIOUS
  <2>. QED
    BY <1>5, <2>1 DEF Resource
<1>7. \A d \in Nat : Min({d, c}) \in 0 .. c
  <2> SUFFICES ASSUME NEW d \in Nat PROVE Min({d, c}) \in 0 .. c
    OBVIOUS
  <2>1. \E x \in {d, c} : \A y \in {d, c} : x <= y
    BY <1>6
  <2>2. Min({d, c}) \in {d, c} /\ \A y \in {d, c} : Min({d, c}) <= y
    BY <2>1 DEF Min
  <2>. QED
    BY <1>6, <2>2
<1>8. used > before => used - before \in Nat
  BY <1>4
<1>9. UsedOf(spec, i, used) = IF spec[i].type = "gpu" /\ used > before THEN Min({used - before, c}) ELSE 0
  BY <1>1, <1>3, <1>5 DEF UsedOf
<1>. QED
  BY <1>5, <1>6, <1>7, <1>8, <1>9

\* A node uses no more GPUs than it has.
LEMMA NodeGPUs ==
  ASSUME NodesTyped, NEW n \in Nodes
  PROVE  GPUs(n) \in Nat /\ GPUsUsed(n) \in Nat /\ GPUsUsed(n) <= GPUs(n)
<1>1. PICK spec : spec = Inventory[n].gres
  OBVIOUS
<1>2. spec \in Seq(Resource)
  BY <1>1, InventoryAssumption DEF Resource
<1>3. PICK D : D = DOMAIN spec
  OBVIOUS
<1>4. IsFiniteSet(D)
  <2>1. PICK k \in Nat : D = 1 .. k
    BY <1>2, <1>3
  <2>. QED
    BY <2>1, FS_Interval
<1>5. PICK used : used = GresUsed(n)
  OBVIOUS
<1>6. /\ DOMAIN used = D
      /\ \A i \in D : /\ used[i].type = spec[i].type
                      /\ used[i].count = UsedOf(spec, i, node[n].used)
  <2>1. used = [i \in D |-> [spec[i] EXCEPT !.count = UsedOf(spec, i, node[n].used)]]
    BY <1>1, <1>3, <1>5 DEF GresUsed
  <2>2. \A i \in D : spec[i] \in Resource
    BY <1>2, <1>3
  <2>3. \A i \in D : /\ [spec[i] EXCEPT !.count = UsedOf(spec, i, node[n].used)].type = spec[i].type
                     /\ [spec[i] EXCEPT !.count = UsedOf(spec, i, node[n].used)].count
                          = UsedOf(spec, i, node[n].used)
    BY <2>2 DEF Resource
  <2>. QED
    BY <2>1, <2>3
<1>7. \A i \in D : spec[i].count \in Nat /\ used[i].count \in 0 .. spec[i].count
  <2>1. node[n].used \in Int
    BY DEF NodesTyped, NodeType
  <2>2. \A i \in D : spec[i] \in Resource
    BY <1>2, <1>3
  <2>3. \A i \in D : spec[i].count \in Nat
    BY <2>2 DEF Resource
  <2>4. \A i \in D : UsedOf(spec, i, node[n].used) \in 0 .. spec[i].count
    BY <1>2, <1>3, <2>1, UsedFits
  <2>. QED
    BY <1>6, <2>3, <2>4
<1>8. PICK all, some, gpus :
        /\ all = [i \in D |-> spec[i].count] /\ some = [i \in D |-> used[i].count]
        /\ gpus = {i \in D : spec[i].type = "gpu"}
  OBVIOUS
<1>9. gpus = {i \in D : IsGPU(spec, i)} /\ gpus = {i \in D : IsGPU(used, i)}
  BY <1>6, <1>8 DEF IsGPU
<1>10. /\ parseGPUCount(spec) = SumFunctionOnSet(all, gpus)
       /\ parseGPUCount(spec) \in Nat
  <2>1. \A i \in D : spec[i].count \in Nat
    BY <1>7
  <2>2. \A i \in D : all[i] = spec[i].count
    BY <1>8
  <2>3. parseGPUCount(spec) = SumFunctionOnSet(all, gpus)
    BY <1>3, <1>4, <1>9, <2>1, <2>2, GPUCount
  <2>. QED
    BY <1>2, <2>3, SpecificationCount
<1>11. /\ parseGPUCount(used) = SumFunctionOnSet(some, gpus)
       /\ parseGPUCount(used) \in Nat
  <2>1. \A i \in D : used[i].count \in Nat
    BY <1>7
  <2>2. \A i \in D : some[i] = used[i].count
    BY <1>8
  <2>3. DOMAIN used = D
    BY <1>6
  <2>4. parseGPUCount(used) = SumFunctionOnSet(some, gpus)
    BY <1>4, <1>9, <2>1, <2>2, <2>3, GPUCount
  <2>5. parseGPUCount(used) \in Nat
    BY <1>4, <1>9, <2>1, <2>2, <2>3, GPUCount
  <2>. QED
    BY <2>4, <2>5
<1>12. SumFunctionOnSet(some, gpus) <= SumFunctionOnSet(all, gpus)
  <2>1. IsFiniteSet(gpus)
    BY <1>4, <1>8, FS_Subset
  <2>2. \A i \in gpus : some[i] \in Int /\ all[i] \in Int /\ some[i] <= all[i]
    BY <1>7, <1>8
  <2>. QED
    BY <2>1, <2>2, SumLeq
<1>. QED
  BY <1>1, <1>5, <1>10, <1>11, <1>12 DEF GPUs, GPUsUsed

Available(n) == Word(node[n]) \in {"idle", "allocated", "mixed"}

LooksAll == [n \in Nodes |-> [state |-> StateLong(n), gres |-> Inventory[n].gres,
                              gresUsed |-> GresUsed(n)]]

\* What a view of the snapshot adds up to, from its columns.
LEMMA SnapshotSum ==
  ASSUME NEW C,
         NEW w, \A n \in Nodes : LooksAll[n] \in C => w[LooksAll[n]] \in Int,
         NEW f, SomeSay(f, LooksAll, C, w),
         NEW g, \A n \in Nodes : LooksAll[n] \in C => g[n] = w[LooksAll[n]],
         NEW L, L = {l \in GPUsSnapshotData : l.columns \in C},
         NEW T, T = {n \in Nodes : LooksAll[n] \in C}
  PROVE  SumFunctionOnSet(f, L) = SumFunctionOnSet(g, T)
<1>1. PICK columns : columns = LooksAll
  OBVIOUS
<1>2. IsFiniteSet(Nodes) /\ DOMAIN columns = Nodes
  BY <1>1, InventoryAssumption DEF LooksAll
<1>3. GPUsSnapshotData = Grouped(columns)
  BY <1>1 DEF GPUsSnapshotData, LooksAll
<1>4. \A n \in Nodes : columns[n] \in C => w[columns[n]] \in Int
  BY <1>1
<1>5. \A n \in Nodes : columns[n] \in C => g[n] = w[columns[n]]
  BY <1>1
<1>6. L = {l \in Grouped(columns) : l.columns \in C}
  BY <1>3
<1>7. T = {n \in Nodes : columns[n] \in C}
  BY <1>1
<1>8. SomeSay(f, columns, C, w)
  BY <1>1
<1>. QED
  BY <1>2, <1>4, <1>5, <1>6, <1>7, <1>8, GroupedWhere

\* Each line of the snapshot has the look of a node.
LEMMA SnapshotLine ==
  ASSUME NEW l \in GPUsSnapshotData
  PROVE  /\ l.nodes \in Nat
         /\ \E n \in Nodes : /\ l.columns = LooksAll[n]
                             /\ l.columns.state = StateLong(n)
                             /\ l.columns["gres"] = Inventory[n].gres
                             /\ l.columns["gresUsed"] = GresUsed(n)
<1>1. PICK columns : columns = LooksAll
  OBVIOUS
<1>2. IsFiniteSet(Nodes) /\ DOMAIN columns = Nodes /\ l \in Grouped(columns)
  BY <1>1, InventoryAssumption DEF LooksAll, GPUsSnapshotData
<1>3. l.nodes \in Nat /\ \E n \in Nodes : l.columns = columns[n]
  BY <1>2, GroupedLine
<1>4. \A n \in Nodes : /\ columns[n].state = StateLong(n)
                       /\ columns[n]["gres"] = Inventory[n].gres
                       /\ columns[n]["gresUsed"] = GresUsed(n)
  BY <1>1 DEF LooksAll
<1>. QED
  BY <1>1, <1>3, <1>4

\* The lines with the columns C, what they say of a node (all, used, free) and of
\* all of theirs (f, g, h).
View(C, L, all, used, free, f, g, h) ==
  /\ L = {l \in GPUsSnapshotData : l.columns \in C}
  /\ \A c \in C : /\ all[c] = parseGPUCount(c["gres"])
                  /\ used[c] = parseGPUCount(c["gresUsed"])
                  /\ free[c] = all[c] - used[c]
  /\ \A l \in L : /\ f[l] = InColumn(l, "gres")
                  /\ g[l] = InColumn(l, "gresUsed")
                  /\ h[l] = InColumn(l, "gres") - InColumn(l, "gresUsed")

\* A line has as many GPUs as its nodes.
LEMMA ColumnsSay ==
  ASSUME NodesTyped, NEW C, NEW L, NEW all, NEW used, NEW free, NEW f, NEW g, NEW h,
         View(C, L, all, used, free, f, g, h)
  PROVE  SomeSay(f, LooksAll, C, all) /\ SomeSay(g, LooksAll, C, used) /\ SomeSay(h, LooksAll, C, free)
<1>. USE DEF View
<1>1. GPUsSnapshotData = Grouped(LooksAll)
  BY DEF GPUsSnapshotData, LooksAll
<1>2. ASSUME NEW l \in L
      PROVE  /\ f[l] = l.nodes * all[l.columns] /\ g[l] = l.nodes * used[l.columns]
             /\ h[l] = l.nodes * free[l.columns]
  <2>1. PICK n \in Nodes : /\ l.columns["gres"] = Inventory[n].gres
                           /\ l.columns["gresUsed"] = GresUsed(n)
    BY SnapshotLine
  <2>2. l.columns \in C
    OBVIOUS
  <2>3. PICK k, a, u \in Nat : k = l.nodes /\ a = all[l.columns] /\ u = used[l.columns]
    BY <2>1, <2>2, NodeGPUs, SnapshotLine DEF GPUs, GPUsUsed
  <2>4. InColumn(l, "gres") = k * a /\ InColumn(l, "gresUsed") = k * u
    BY <2>2, <2>3 DEF InColumn
  <2>5. free[l.columns] = a - u
    BY <2>2, <2>3
  <2>6. k * a - k * u = k * (a - u)
    OBVIOUS
  <2>7. h[l] = k * a - k * u
    BY <2>4
  <2>. QED
    BY <2>3, <2>4, <2>5, <2>6, <2>7
<1>. QED
  BY <1>1, <1>2 DEF SomeSay

\* The GPUs of the cluster are those of its nodes.
LEMMA SnapshotCounts ==
  ASSUME NodesTyped,
         NEW all, NEW used, NEW free, NEW A,
         \A n \in Nodes : all[n] = GPUs(n) /\ used[n] = GPUsUsed(n) /\ free[n] = GPUs(n) - GPUsUsed(n),
         A = {n \in Nodes : Available(n)}
  PROVE  LET g == computeGPUsFromSnapshot(GPUsSnapshotData)
         IN  /\ g.total = SumFunctionOnSet(all, Nodes)
             /\ g.alloc = SumFunctionOnSet(used, A)
             /\ g.idle = SumFunctionOnSet(free, A)
             /\ g.other = g.total - g.alloc - g.idle
<1>1. PICK G, av, columns :
        /\ G = GPUsSnapshotData /\ columns = LooksAll
        /\ av = {l \in G : isAvailableGPUState(l.columns.state)}
  OBVIOUS
<1>2. PICK C, Ca : C = Range(columns) /\ Ca = {c \in C : isAvailableGPUState(c.state)}
  OBVIOUS
<1>3. /\ DOMAIN columns = Nodes
      /\ \A n \in Nodes : /\ columns[n] \in C /\ columns[n].state = StateLong(n)
                          /\ columns[n]["gres"] = Inventory[n].gres
                          /\ columns[n]["gresUsed"] = GresUsed(n)
  BY <1>1, <1>2 DEF LooksAll, Range
<1>4. \A n \in Nodes : columns[n] \in Ca <=> Available(n)
  <2>1. \A n \in Nodes : StateLong(n).word = Word(node[n])
    BY DEF StateLong
  <2>2. \A n \in Nodes : isAvailableGPUState(StateLong(n)) <=> Available(n)
    BY <2>1 DEF isAvailableGPUState, Available
  <2>. QED
    BY <1>2, <1>3, <2>2
<1>5. /\ Nodes = {n \in Nodes : columns[n] \in C}
      /\ A = {n \in Nodes : columns[n] \in Ca}
  BY <1>3, <1>4
<1>6. /\ G = {l \in G : l.columns \in C}
      /\ av = {l \in G : l.columns \in Ca}
  BY <1>1, <1>2, <1>3, SnapshotLine
<1>7. PICK ca, cu, cf : /\ ca = [c \in C |-> parseGPUCount(c["gres"])]
                        /\ cu = [c \in C |-> parseGPUCount(c["gresUsed"])]
                        /\ cf = [c \in C |-> ca[c] - cu[c]]
  OBVIOUS
<1>8. \A n \in Nodes : /\ ca[columns[n]] \in Int /\ cu[columns[n]] \in Int /\ cf[columns[n]] \in Int
                       /\ ca[columns[n]] = all[n] /\ cu[columns[n]] = used[n] /\ cf[columns[n]] = free[n]
  BY <1>3, <1>7, NodeGPUs DEF GPUs, GPUsUsed
<1>9. PICK ft, fa, fi : /\ ft = [l \in G |-> InColumn(l, "gres")]
                        /\ fa = [l \in av |-> InColumn(l, "gresUsed")]
                        /\ fi = [l \in av |-> InColumn(l, "gres") - InColumn(l, "gresUsed")]
  OBVIOUS
<1>10. SomeSay(ft, columns, C, ca)
  <2>1. PICK gt, ht : /\ gt = [l \in G |-> InColumn(l, "gresUsed")]
                      /\ ht = [l \in G |-> InColumn(l, "gres") - InColumn(l, "gresUsed")]
    OBVIOUS
  <2>2. View(C, G, ca, cu, cf, ft, gt, ht)
    BY <1>1, <1>6, <1>7, <1>9, <2>1 DEF View
  <2>. QED
    BY <1>1, <2>2, ColumnsSay
<1>11. SomeSay(fa, columns, Ca, cu) /\ SomeSay(fi, columns, Ca, cf)
  <2>1. PICK ga : ga = [l \in av |-> InColumn(l, "gres")]
    OBVIOUS
  <2>2. View(Ca, av, ca, cu, cf, ga, fa, fi)
    BY <1>1, <1>2, <1>6, <1>7, <1>9, <2>1 DEF View
  <2>. QED
    BY <1>1, <2>2, ColumnsSay
<1>12. SumFunctionOnSet(ft, G) = SumFunctionOnSet(all, Nodes)
  BY <1>1, <1>2, <1>5, <1>6, <1>8, <1>10, SnapshotSum
<1>13. SumFunctionOnSet(fa, av) = SumFunctionOnSet(used, A)
  BY <1>1, <1>2, <1>5, <1>6, <1>8, <1>11, SnapshotSum
<1>14. SumFunctionOnSet(fi, av) = SumFunctionOnSet(free, A)
  BY <1>1, <1>2, <1>5, <1>6, <1>8, <1>11, SnapshotSum
<1>15. /\ ParseTotalGPUs(G) = SumFunctionOnSet(ft, G)
       /\ ParseAllocatedGPUs(av) = SumFunctionOnSet(fa, av)
       /\ ParseIdleGPUs(av) = SumFunctionOnSet(fi, av)
  BY <1>9 DEF ParseTotalGPUs, ParseAllocatedGPUs, ParseIdleGPUs, SumFunction
<1>16. PICK t, a, i : t = ParseTotalGPUs(G) /\ a = ParseAllocatedGPUs(av) /\ i = ParseIdleGPUs(av)
  OBVIOUS
<1>17. computeGPUsFromSnapshot(G) = [total |-> t, alloc |-> a, idle |-> i, other |-> t - a - i]
  BY <1>1, <1>16 DEF computeGPUsFromSnapshot, splitGPUViews
<1>. QED
  BY <1>1, <1>12, <1>13, <1>14, <1>15, <1>16, <1>17

AvailableIn(p) == {n \in In(p) : Available(n)}

LooksIn(p) == [n \in AvailableIn(p) |-> [part |-> Marked(p), gres |-> Inventory[n].gres,
                                         gresUsed |-> GresUsed(n)]]

\* A node whose specification names no GPU has none.
LEMMA NoGPUs ==
  ASSUME NodesTyped, NEW n \in Nodes, \A i \in DOMAIN Inventory[n].gres : Inventory[n].gres[i].type # "gpu"
  PROVE  GPUs(n) = 0 /\ GPUsUsed(n) = 0
<1>1. PICK spec, D, count, gpus :
        /\ spec = Inventory[n].gres /\ D = DOMAIN spec
        /\ count = [i \in D |-> spec[i].count] /\ gpus = {i \in D : IsGPU(spec, i)}
  OBVIOUS
<1>2. spec \in Seq(Resource)
  BY <1>1, InventoryAssumption DEF Resource
<1>3. IsFiniteSet(D)
  <2>1. PICK k \in Nat : D = 1 .. k
    BY <1>1, <1>2
  <2>. QED
    BY <2>1, FS_Interval
<1>4. \A i \in D : spec[i].count \in Nat /\ count[i] = spec[i].count
  <2>1. \A i \in D : spec[i] \in Resource
    BY <1>1, <1>2
  <2>. QED
    BY <1>1, <2>1 DEF Resource
<1>5. gpus = {}
  BY <1>1 DEF IsGPU
<1>6. parseGPUCount(spec) = SumFunctionOnSet(count, gpus)
  BY <1>1, <1>3, <1>4, GPUCount
<1>7. GPUs(n) = 0
  BY <1>1, <1>5, <1>6, SumEmpty DEF GPUs
<1>. QED
  BY <1>7, NodeGPUs

\* The lines of a partition that name a GPU, and which partitions have any.
GPULines(p) == {l \in PartitionsGpuData : NamesGPU(l) /\ TrimRight(l.columns.part) = p}

LEMMA PartitionGPULines ==
  /\ \A p \in VisibleParts : GPULines(p) = {l \in Grouped(LooksIn(p)) : NamesGPU(l)}
  /\ \A p : GPULines(p) # {} => p \in VisibleParts
<1>1. PartitionsGpuData = UNION {Grouped(LooksIn(q)) : q \in VisibleParts}
  BY DEF PartitionsGpuData, LooksIn, AvailableIn, Available
<1>2. \A q : IsFiniteSet(AvailableIn(q))
  <2>1. \A q : AvailableIn(q) \in SUBSET Nodes
    BY DEF AvailableIn, In
  <2>. QED
    BY <2>1, SameCount
<1>3. ASSUME NEW q \in VisibleParts, NEW l \in Grouped(LooksIn(q)) PROVE TrimRight(l.columns.part) = q
  <2>1. PICK D, columns : D = AvailableIn(q) /\ columns = LooksIn(q)
    OBVIOUS
  <2>2. /\ IsFiniteSet(D) /\ DOMAIN columns = D
        /\ \A n \in D : columns[n].part = Marked(q)
    BY <1>2, <2>1 DEF LooksIn
  <2>3. l \in Grouped(columns)
    BY <2>1
  <2>4. \E n \in D : l.columns = columns[n]
    BY <2>2, <2>3, GroupedLine
  <2>5. l.columns.part = Marked(q)
    BY <2>2, <2>4
  <2>6. q \in Parts
    BY DEF VisibleParts
  <2>. QED
    BY <2>5, <2>6, MarkerStripped
<1>. QED
  BY <1>1, <1>3 DEF GPULines

\* The GPUs of a partition are those of its available nodes; it has no line if they
\* have none.
LEMMA PartitionGPUs ==
  ASSUME NodesTyped, NEW p \in VisibleParts, NEW used, NEW free,
         \A n \in Nodes : used[n] = GPUsUsed(n) /\ free[n] = GPUs(n) - GPUsUsed(n)
  PROVE  LET parts == parsePartitionGPUs(PartitionsGpuData)
             share == IF p \in DOMAIN parts THEN parts[p] ELSE [gpuIdle |-> 0, gpuAllocated |-> 0]
         IN  /\ share.gpuIdle = SumFunctionOnSet(free, AvailableIn(p))
             /\ share.gpuAllocated = SumFunctionOnSet(used, AvailableIn(p))
<1>1. PICK D, columns, G : D = AvailableIn(p) /\ columns = LooksIn(p) /\ G = GPULines(p)
  OBVIOUS
<1>2. D \in SUBSET Nodes /\ IsFiniteSet(D)
  <2>1. AvailableIn(p) \in SUBSET Nodes
    BY DEF AvailableIn, In
  <2>. QED
    BY <1>1, <2>1, SameCount
<1>3. /\ DOMAIN columns = D
      /\ \A n \in D : columns[n].gres = Inventory[n].gres /\ columns[n].gresUsed = GresUsed(n)
  BY <1>1 DEF LooksIn
<1>4. PICK C, T : /\ C = {c \in Range(columns) : \E i \in DOMAIN c.gres : c.gres[i].type = "gpu"}
                  /\ T = {n \in D : columns[n] \in C}
  OBVIOUS
<1>5. G = {l \in Grouped(columns) : l.columns \in C}
  <2>1. \A l \in Grouped(columns) : l.columns \in Range(columns)
    <3>1. \A l \in Grouped(columns) : \E n \in D : l.columns = columns[n]
      BY <1>2, <1>3, GroupedLine
    <3>. QED
      BY <1>3, <3>1 DEF Range
  <2>2. G = {l \in Grouped(columns) : NamesGPU(l)}
    BY <1>1, PartitionGPULines
  <2>. QED
    BY <1>4, <2>1, <2>2 DEF NamesGPU
<1>6. PICK fi, fa : /\ fi = [l \in G |-> l.nodes * (parseGPUCount(l.columns.gres)
                                                     - parseGPUCount(l.columns.gresUsed))]
                    /\ fa = [l \in G |-> l.nodes * parseGPUCount(l.columns.gresUsed)]
  OBVIOUS
<1>7. PICK cf, cu : /\ cf = [c \in Range(columns) |-> parseGPUCount(c.gres) - parseGPUCount(c.gresUsed)]
                    /\ cu = [c \in Range(columns) |-> parseGPUCount(c.gresUsed)]
  OBVIOUS
<1>8. \A n \in D : /\ columns[n] \in Range(columns)
                   /\ cf[columns[n]] = free[n] /\ cu[columns[n]] = used[n]
                   /\ cf[columns[n]] \in Int /\ cu[columns[n]] \in Int
                   /\ free[n] \in Int /\ used[n] \in Int
  BY <1>2, <1>3, <1>7, NodeGPUs DEF Range, GPUs, GPUsUsed
<1>9. SomeSay(fi, columns, C, cf) /\ SomeSay(fa, columns, C, cu)
  BY <1>4, <1>5, <1>6, <1>7 DEF SomeSay
<1>10. SumFunctionOnSet(fi, G) = SumFunctionOnSet(free, T)
  <2>1. \A n \in D : columns[n] \in C => cf[columns[n]] \in Int
    BY <1>8
  <2>2. \A n \in D : columns[n] \in C => free[n] = cf[columns[n]]
    BY <1>8
  <2>. QED
    BY <1>2, <1>3, <1>4, <1>5, <1>9, <2>1, <2>2, GroupedWhere
<1>11. SumFunctionOnSet(fa, G) = SumFunctionOnSet(used, T)
  <2>1. \A n \in D : columns[n] \in C => cu[columns[n]] \in Int
    BY <1>8
  <2>2. \A n \in D : columns[n] \in C => used[n] = cu[columns[n]]
    BY <1>8
  <2>. QED
    BY <1>2, <1>3, <1>4, <1>5, <1>9, <2>1, <2>2, GroupedWhere
<1>12. \A n \in D \ T : free[n] = 0 /\ used[n] = 0
  <2> SUFFICES ASSUME NEW n \in D \ T PROVE free[n] = 0 /\ used[n] = 0
    OBVIOUS
  <2>1. \A i \in DOMAIN Inventory[n].gres : Inventory[n].gres[i].type # "gpu"
    BY <1>3, <1>4, <1>8
  <2>2. n \in Nodes
    BY <1>2
  <2>. QED
    BY <2>1, <2>2, NoGPUs
<1>13. /\ SumFunctionOnSet(free, D) = SumFunctionOnSet(free, T)
       /\ SumFunctionOnSet(used, D) = SumFunctionOnSet(used, T)
  <2>1. T \in SUBSET D
    BY <1>4
  <2>2. \A n \in T : free[n] \in Int /\ used[n] \in Int
    BY <1>8, <2>1
  <2>3. SumFunctionOnSet(free, D) = SumFunctionOnSet(free, T)
    BY <1>2, <1>12, <2>1, <2>2, SumFilter
  <2>4. SumFunctionOnSet(used, D) = SumFunctionOnSet(used, T)
    BY <1>2, <1>12, <2>1, <2>2, SumFilter
  <2>. QED
    BY <2>3, <2>4
<1>14. SumFunction(fi) = SumFunctionOnSet(fi, G) /\ SumFunction(fa) = SumFunctionOnSet(fa, G)
  BY <1>6 DEF SumFunction
<1>15. PICK parts : parts = parsePartitionGPUs(PartitionsGpuData)
  OBVIOUS
<1>16. p \in DOMAIN parts <=> G # {}
  BY <1>1, <1>15 DEF parsePartitionGPUs, GPULines
<1>17. CASE p \in DOMAIN parts
  <2>1. parts[p] = [gpuIdle |-> SumFunction(fi), gpuAllocated |-> SumFunction(fa)]
    BY <1>1, <1>6, <1>15, <1>17 DEF parsePartitionGPUs, GPULines
  <2>. QED
    BY <1>1, <1>10, <1>11, <1>13, <1>14, <1>15, <1>17, <2>1
<1>18. CASE p \notin DOMAIN parts
  <2>1. SumFunctionOnSet(fi, G) = 0 /\ SumFunctionOnSet(fa, G) = 0
    BY <1>16, <1>18, SumEmpty
  <2>. QED
    BY <1>1, <1>10, <1>11, <1>13, <1>15, <1>18, <2>1
<1>. QED
  BY <1>17, <1>18

\* What GPUViewsAgree says of three collectors' figures, the nodes that are available
\* among those that the second shows and among the rest, and the rest.
GPUsAgree(g, ns, parts, av, others, rest) ==
  LET gpus(m) == SumFunctionOnSet(m, {k \in DOMAIN m : k[1] = "gpu"})
  IN  /\ {g.alloc, g.idle, g.other} \subseteq 0 .. g.total
      /\ g.total = SumFunction([n \in DOMAIN ns |-> gpus(ns[n]["gresTotal"])])
                     + SumFunction([n \in rest |-> parseGPUCount(Inventory[n].gres)])
      /\ g.alloc = SumFunction([n \in av |-> gpus(ns[n]["gresUsed"])])
                     + SumFunction([n \in others |-> parseGPUCount(GresUsed(n))])
      /\ g.alloc + g.idle = SumFunction([n \in av |-> gpus(ns[n]["gresTotal"])])
                              + SumFunction([n \in others |-> parseGPUCount(Inventory[n].gres)])
      /\ DOMAIN parts \subseteq VisibleParts
      /\ \A p \in VisibleParts :
           LET share == IF p \in DOMAIN parts THEN parts[p] ELSE [gpuIdle |-> 0, gpuAllocated |-> 0]
               in == {n \in av : p \in ns[n].partitions}
           IN  /\ share.gpuAllocated = SumFunction([n \in in |-> gpus(ns[n]["gresUsed"])])
               /\ share.gpuIdle + share.gpuAllocated = SumFunction([n \in in |-> gpus(ns[n]["gresTotal"])])

LEMMA GPUsAgreement ==
  ASSUME NEW g, g = computeGPUsFromSnapshot(GPUsSnapshotData),
         NEW ns, ns = ParseNodeMetrics(NodeData),
         NEW parts, parts = parsePartitionGPUs(PartitionsGpuData),
         NEW av, av = {n \in DOMAIN ns : isAvailableGPUState(ns[n].nodeStatus)},
         NEW rest, rest = Nodes \ DOMAIN ns,
         NEW others, others = {n \in rest : isAvailableGPUState(StateLong(n))},
         GPUsAgree(g, ns, parts, av, others, rest)
  PROVE  GPUViewsAgree
<1>. DEFINE R(m)  == Nodes \ DOMAIN m
            AV(m) == {n \in DOMAIN m : isAvailableGPUState(m[n].nodeStatus)}
            O(m)  == {n \in R(m) : isAvailableGPUState(StateLong(n))}
            H(x, m, q) == GPUsAgree(x, m, q, AV(m), O(m), R(m))
<1>1. rest = R(ns) /\ av = AV(ns) /\ others = O(ns)
  OBVIOUS
<1>2. H(g, ns, parts)
  BY <1>1
<1>3. H(computeGPUsFromSnapshot(GPUsSnapshotData), ParseNodeMetrics(NodeData),
        parsePartitionGPUs(PartitionsGpuData))
  <2>. HIDE DEF H
  <2>. QED
    BY <1>2
<1>. QED
  BY <1>3, Zenon DEF GPUsAgree, GPUViewsAgree

\* splitGPUViews, parsePartitionGPUs and ParseNodeMetrics: the partitions' GPUs are
\* those of the nodes that the node collector shows in them, the cluster's are those of
\* its nodes and of the nodes in hidden partitions, and each is in one state.
THEOREM GPUViewsAgreeHolds == Spec => []GPUViewsAgree
<1>1. ASSUME NodesTyped PROVE GPUViewsAgree
  <2>1. PICK all, used, free, A :
          /\ all = [n \in Nodes |-> GPUs(n)] /\ used = [n \in Nodes |-> GPUsUsed(n)]
          /\ free = [n \in Nodes |-> GPUs(n) - GPUsUsed(n)]
          /\ A = {n \in Nodes : Available(n)}
    OBVIOUS
  <2>2. \A n \in Nodes : /\ all[n] = GPUs(n) /\ used[n] = GPUsUsed(n)
                         /\ free[n] = GPUs(n) - GPUsUsed(n)
    BY <2>1
  <2>3. PICK g : g = computeGPUsFromSnapshot(GPUsSnapshotData)
    OBVIOUS
  <2>4. /\ g.total = SumFunctionOnSet(all, Nodes)
        /\ g.alloc = SumFunctionOnSet(used, A)
        /\ g.idle = SumFunctionOnSet(free, A)
        /\ g.other = g.total - g.alloc - g.idle
    BY <1>1, <2>1, <2>2, <2>3, SnapshotCounts
  <2>5. \A n \in Nodes : /\ all[n] \in Nat /\ used[n] \in Nat /\ free[n] \in Nat
                         /\ used[n] <= all[n] /\ all[n] = used[n] + free[n]
    <3>1. \A n \in Nodes : GPUs(n) \in Nat /\ GPUsUsed(n) \in Nat /\ GPUsUsed(n) <= GPUs(n)
      BY <1>1, NodeGPUs
    <3>. QED
      BY <2>2, <3>1
  <2>6. /\ IsFiniteSet(Nodes) /\ A \in SUBSET Nodes /\ IsFiniteSet(A)
    BY <2>1, InventoryAssumption, FS_Subset
  <2>7. PICK t, u, i, a \in Nat :
          /\ t = SumFunctionOnSet(all, Nodes) /\ a = SumFunctionOnSet(all, A)
          /\ u = SumFunctionOnSet(used, A) /\ i = SumFunctionOnSet(free, A)
    <3>1. SumFunctionOnSet(all, Nodes) \in Nat
      BY <2>5, <2>6, SumNat
    <3>2. (\A n \in A : all[n] \in Nat) /\ (\A n \in A : used[n] \in Nat) /\ (\A n \in A : free[n] \in Nat)
      BY <2>5, <2>6
    <3>3. SumFunctionOnSet(all, A) \in Nat /\ SumFunctionOnSet(used, A) \in Nat
          /\ SumFunctionOnSet(free, A) \in Nat
      BY <2>6, <3>2, SumNat
    <3>. QED
      BY <3>1, <3>3
  <2>8. a <= t
    <3>1. \A n \in Nodes : all[n] \in Nat
      BY <2>5
    <3>. QED
      BY <2>6, <2>7, <3>1, SumSubset
  <2>9. a = u + i
    <3>1. \A n \in A : used[n] \in Int
      BY <2>5, <2>6
    <3>2. \A n \in A : free[n] \in Int
      BY <2>5, <2>6
    <3>3. \A n \in A : all[n] = used[n] + free[n]
      BY <2>5, <2>6
    <3>. QED
      BY <2>6, <2>7, <3>1, <3>2, <3>3, SumPlus
  <2>10. {g.alloc, g.idle, g.other} \subseteq 0 .. g.total
    BY <2>4, <2>7, <2>8, <2>9
  <2>11. PICK ns : ns = ParseNodeMetrics(NodeData)
    OBVIOUS
  <2>. DEFINE gpus(m) == SumFunctionOnSet(m, {k \in DOMAIN m : k[1] = "gpu"})
  <2>12. /\ DOMAIN ns = VisibleNodes
         /\ \A n \in VisibleNodes : /\ ns[n].nodeStatus = StateLong(n) /\ ns[n].partitions = ShownParts(n)
                                    /\ gpus(ns[n]["gresTotal"]) = GPUs(n)
                                    /\ gpus(ns[n]["gresUsed"]) = GPUsUsed(n)
    <3>1. \A n \in VisibleNodes : /\ ns[n]["gresTotal"] = parseGRESByType(Inventory[n].gres)
                                  /\ ns[n]["gresUsed"] = parseGRESByType(GresUsed(n))
      BY <2>11, NodeRow
    <3>2. \A spec : parseGPUCount(spec) = gpus(parseGRESByType(spec))
      BY DEF parseGPUCount
    <3>. HIDE DEF gpus
    <3>3. \A n \in VisibleNodes : gpus(ns[n]["gresTotal"]) = GPUs(n) /\ gpus(ns[n]["gresUsed"]) = GPUsUsed(n)
      BY <3>1, <3>2 DEF GPUs, GPUsUsed
    <3>4. \A n \in VisibleNodes : ns[n].nodeStatus = StateLong(n) /\ ns[n].partitions = ShownParts(n)
      BY <2>11, NodeRow
    <3>. QED
      BY <2>11, <3>3, <3>4, NodesListed
  <2>. HIDE DEF gpus
  <2>13. PICK V, X : V = VisibleNodes /\ X = Nodes \ VisibleNodes
    OBVIOUS
  <2>14. /\ V \in SUBSET Nodes /\ X = Nodes \ V
         /\ \A n \in V : gpus(ns[n]["gresTotal"]) = all[n] /\ gpus(ns[n]["gresUsed"]) = used[n]
    BY <2>2, <2>12, <2>13 DEF VisibleNodes
  <2>15. PICK av, others : /\ av = {n \in DOMAIN ns : isAvailableGPUState(ns[n].nodeStatus)}
                           /\ others = {n \in X : isAvailableGPUState(StateLong(n))}
    OBVIOUS
  <2>16. av \in SUBSET V /\ others \in SUBSET X /\ av \in SUBSET A /\ others = A \ av
    <3>1. \A n \in Nodes : isAvailableGPUState(StateLong(n)) <=> Available(n)
      BY DEF StateLong, isAvailableGPUState, Available
    <3>2. \A n \in V : isAvailableGPUState(ns[n].nodeStatus) <=> Available(n)
      BY <2>12, <2>13, <2>14, <3>1
    <3>. QED
      BY <2>1, <2>12, <2>13, <2>14, <2>15, <3>1, <3>2
  <2>17. ASSUME NEW T \in SUBSET V
         PROVE  /\ SumFunction([n \in T |-> gpus(ns[n]["gresTotal"])]) = SumFunctionOnSet(all, T)
                /\ SumFunction([n \in T |-> gpus(ns[n]["gresUsed"])]) = SumFunctionOnSet(used, T)
    <3>1. PICK f, h : /\ f = [n \in T |-> gpus(ns[n]["gresTotal"])]
                      /\ h = [n \in T |-> gpus(ns[n]["gresUsed"])]
      OBVIOUS
    <3>2. IsFiniteSet(T) /\ T \in SUBSET Nodes
      BY <2>6, <2>14, FS_Subset
    <3>3. (\A n \in T : f[n] \in Int) /\ (\A n \in T : f[n] = all[n])
          /\ (\A n \in T : h[n] \in Int) /\ (\A n \in T : h[n] = used[n])
      BY <2>5, <2>14, <3>1, <3>2
    <3>4. SumFunctionOnSet(f, T) = SumFunctionOnSet(all, T)
          /\ SumFunctionOnSet(h, T) = SumFunctionOnSet(used, T)
      BY <3>2, <3>3, SumSame
    <3>5. SumFunction(f) = SumFunctionOnSet(f, T) /\ SumFunction(h) = SumFunctionOnSet(h, T)
      BY <3>1 DEF SumFunction
    <3>. QED
      BY <3>1, <3>4, <3>5
  <2>18. ASSUME NEW T \in SUBSET Nodes
         PROVE  /\ SumFunction([n \in T |-> parseGPUCount(Inventory[n].gres)]) = SumFunctionOnSet(all, T)
                /\ SumFunction([n \in T |-> parseGPUCount(GresUsed(n))]) = SumFunctionOnSet(used, T)
    <3>1. PICK f, h : /\ f = [n \in T |-> parseGPUCount(Inventory[n].gres)]
                      /\ h = [n \in T |-> parseGPUCount(GresUsed(n))]
      OBVIOUS
    <3>2. IsFiniteSet(T)
      BY <2>6, FS_Subset
    <3>3. (\A n \in T : f[n] \in Int) /\ (\A n \in T : f[n] = all[n])
          /\ (\A n \in T : h[n] \in Int) /\ (\A n \in T : h[n] = used[n])
      BY <2>2, <2>5, <3>1 DEF GPUs, GPUsUsed
    <3>4. SumFunctionOnSet(f, T) = SumFunctionOnSet(all, T)
          /\ SumFunctionOnSet(h, T) = SumFunctionOnSet(used, T)
      BY <3>2, <3>3, SumSame
    <3>5. SumFunction(f) = SumFunctionOnSet(f, T) /\ SumFunction(h) = SumFunctionOnSet(h, T)
      BY <3>1 DEF SumFunction
    <3>. QED
      BY <3>1, <3>4, <3>5
  <2>19. /\ g.total = SumFunctionOnSet(all, V) + SumFunctionOnSet(all, X)
         /\ g.alloc = SumFunctionOnSet(used, av) + SumFunctionOnSet(used, others)
         /\ g.alloc + g.idle = SumFunctionOnSet(all, av) + SumFunctionOnSet(all, others)
    <3>1. (\A n \in Nodes : all[n] \in Int) /\ (\A n \in A : all[n] \in Int) /\ (\A n \in A : used[n] \in Int)
      BY <2>5, <2>6
    <3>2. SumFunctionOnSet(all, Nodes) = SumFunctionOnSet(all, V) + SumFunctionOnSet(all, X)
      BY <2>6, <2>14, <3>1, SumSplit
    <3>3. SumFunctionOnSet(all, A) = SumFunctionOnSet(all, av) + SumFunctionOnSet(all, others)
      BY <2>6, <2>16, <3>1, SumSplit
    <3>4. SumFunctionOnSet(used, A) = SumFunctionOnSet(used, av) + SumFunctionOnSet(used, others)
      BY <2>6, <2>16, <3>1, SumSplit
    <3>. QED
      BY <2>4, <2>7, <2>9, <3>2, <3>3, <3>4
  <2>20. /\ g.total = SumFunction([n \in DOMAIN ns |-> gpus(ns[n]["gresTotal"])])
                        + SumFunction([n \in X |-> parseGPUCount(Inventory[n].gres)])
         /\ g.alloc = SumFunction([n \in av |-> gpus(ns[n]["gresUsed"])])
                        + SumFunction([n \in others |-> parseGPUCount(GresUsed(n))])
         /\ g.alloc + g.idle = SumFunction([n \in av |-> gpus(ns[n]["gresTotal"])])
                                 + SumFunction([n \in others |-> parseGPUCount(Inventory[n].gres)])
    <3>1. DOMAIN ns = V /\ V \in SUBSET V /\ X \in SUBSET Nodes /\ others \in SUBSET Nodes
      BY <2>12, <2>13, <2>14, <2>16
    <3>2. /\ SumFunction([n \in DOMAIN ns |-> gpus(ns[n]["gresTotal"])]) = SumFunctionOnSet(all, V)
          /\ SumFunction([n \in av |-> gpus(ns[n]["gresTotal"])]) = SumFunctionOnSet(all, av)
          /\ SumFunction([n \in av |-> gpus(ns[n]["gresUsed"])]) = SumFunctionOnSet(used, av)
      BY <2>16, <2>17, <3>1
    <3>3. /\ SumFunction([n \in X |-> parseGPUCount(Inventory[n].gres)]) = SumFunctionOnSet(all, X)
          /\ SumFunction([n \in others |-> parseGPUCount(Inventory[n].gres)]) = SumFunctionOnSet(all, others)
          /\ SumFunction([n \in others |-> parseGPUCount(GresUsed(n))]) = SumFunctionOnSet(used, others)
      BY <2>18, <3>1
    <3>. QED
      BY <2>19, <3>2, <3>3
  <2>21. PICK parts : parts = parsePartitionGPUs(PartitionsGpuData)
    OBVIOUS
  <2>22. DOMAIN parts \subseteq VisibleParts
    <3>1. \A p \in DOMAIN parts : GPULines(p) # {}
      BY <2>21 DEF parsePartitionGPUs, GPULines
    <3>. QED
      BY <3>1, PartitionGPULines
  <2>23. ASSUME NEW p \in VisibleParts, NEW share,
                share = IF p \in DOMAIN parts THEN parts[p] ELSE [gpuIdle |-> 0, gpuAllocated |-> 0],
                NEW in, in = {n \in av : p \in ns[n].partitions}
         PROVE  /\ share.gpuAllocated = SumFunction([n \in in |-> gpus(ns[n]["gresUsed"])])
                /\ share.gpuIdle + share.gpuAllocated = SumFunction([n \in in |-> gpus(ns[n]["gresTotal"])])
    <3>1. in = AvailableIn(p) /\ in \in SUBSET V /\ in \in SUBSET A
      <4>1. In(p) \in SUBSET V /\ \A n \in V : p \in ns[n].partitions <=> n \in In(p)
        BY <2>12, <2>13, ShownIn
      <4>2. \A n \in V : n \in av <=> Available(n)
        <5>0. \A n : StateLong(n).word = Word(node[n])
          BY DEF StateLong
        <5>1. \A n \in V : ns[n].nodeStatus.word = Word(node[n])
          BY <2>12, <2>13, <5>0
        <5>. QED
          BY <2>12, <2>13, <2>15, <5>1 DEF isAvailableGPUState, Available
      <4>. QED
        BY <2>16, <2>23, <4>1, <4>2 DEF AvailableIn
    <3>2. /\ share.gpuIdle = SumFunctionOnSet(free, in)
          /\ share.gpuAllocated = SumFunctionOnSet(used, in)
      BY <1>1, <2>2, <2>21, <2>23, <3>1, PartitionGPUs
    <3>3. SumFunctionOnSet(all, in) = SumFunctionOnSet(used, in) + SumFunctionOnSet(free, in)
      <4>1. IsFiniteSet(in) /\ in \in SUBSET Nodes
        BY <2>6, <3>1, FS_Subset
      <4>2. (\A n \in in : used[n] \in Int) /\ (\A n \in in : free[n] \in Int)
            /\ (\A n \in in : all[n] = used[n] + free[n])
        BY <2>5, <4>1
      <4>. QED
        BY <4>1, <4>2, SumPlus
    <3>4. SumFunctionOnSet(used, in) \in Int /\ SumFunctionOnSet(free, in) \in Int
      <4>1. IsFiniteSet(in) /\ in \in SUBSET Nodes
        BY <2>6, <3>1, FS_Subset
      <4>2. (\A n \in in : used[n] \in Int) /\ (\A n \in in : free[n] \in Int)
        BY <2>5, <4>1
      <4>. QED
        BY <4>1, <4>2, SumInt
    <3>5. /\ SumFunction([n \in in |-> gpus(ns[n]["gresTotal"])]) = SumFunctionOnSet(all, in)
          /\ SumFunction([n \in in |-> gpus(ns[n]["gresUsed"])]) = SumFunctionOnSet(used, in)
      BY <2>17, <3>1
    <3>. QED
      BY <3>2, <3>3, <3>4, <3>5
  <2>24. X = Nodes \ DOMAIN ns
    BY <2>12, <2>13
  <2>25. \A p \in VisibleParts :
           LET share == IF p \in DOMAIN parts THEN parts[p] ELSE [gpuIdle |-> 0, gpuAllocated |-> 0]
               in == {n \in av : p \in ns[n].partitions}
           IN  /\ share.gpuAllocated = SumFunction([n \in in |-> gpus(ns[n]["gresUsed"])])
               /\ share.gpuIdle + share.gpuAllocated = SumFunction([n \in in |-> gpus(ns[n]["gresTotal"])])
    BY <2>23, Zenon
  <2>26. GPUsAgree(g, ns, parts, av, others, X)
    BY <2>10, <2>20, <2>22, <2>25, Zenon DEF GPUsAgree, gpus
  <2>. QED
    BY <2>3, <2>11, <2>15, <2>21, <2>24, <2>26, GPUsAgreement
<1>. QED
  BY <1>1, NodesTypedCorrect, PTL

-----------------------------------------------------------------------------
(* The associations of FairShare.                                          *)

Association == [shares : {parent, 1}, usage : Nat]

ShareInv == /\ IsFiniteSet(DOMAIN associations)
            /\ DOMAIN associations \subseteq Keys
            /\ \A k \in DOMAIN associations : associations[k] \in Association
            /\ accountShares \in [ToSet(Accounts) -> {parent, 1}]

\* There are finitely many associations, each of a user with an account.
THEOREM AssociationsCorrect == ShareSpec => []ShareInv
<1>1. ShareInit => ShareInv
  <2>1. ASSUME ShareInit
        PROVE  DOMAIN associations = {} /\ accountShares \in [ToSet(Accounts) -> {parent, 1}]
    BY <2>1 DEF ShareInit
  <2>. QED
    BY <2>1, FS_EmptySet DEF ShareInv
<1>2. ASSUME ShareInv, [ShareNext]_shareVars PROVE ShareInv'
  <2>0. PICK D : D = DOMAIN associations
    OBVIOUS
  <2>1. CASE UNCHANGED shareVars
    BY <1>2, <2>1 DEF ShareInv, shareVars
  <2>2. ASSUME NEW k \in Keys, Associate(k) PROVE ShareInv'
    <3>1. PICK new : new = [shares |-> 1, usage |-> 0]
      OBVIOUS
    <3>2. new \in Association
      BY <3>1 DEF Association
    <3>3. /\ associations' = [l \in D \cup {k} |-> IF l = k THEN new ELSE associations[l]]
          /\ UNCHANGED accountShares
      BY <2>0, <2>2, <3>1 DEF Associate
    <3>4. IsFiniteSet(D \cup {k})
      BY <1>2, <2>0, FS_AddElement DEF ShareInv
    <3>. QED
      BY <1>2, <2>0, <3>2, <3>3, <3>4 DEF ShareInv
  <2>3. ASSUME NEW k \in Keys, Dissociate(k) PROVE ShareInv'
    <3>1. /\ associations' = [l \in D \ {k} |-> associations[l]]
          /\ UNCHANGED accountShares
      BY <2>0, <2>3 DEF Dissociate
    <3>2. IsFiniteSet(D \ {k})
      BY <1>2, <2>0, FS_RemoveElement DEF ShareInv
    <3>. QED
      BY <1>2, <2>0, <3>1, <3>2 DEF ShareInv
  <2>4. ASSUME NEW k \in Keys, UsesCPU(k) PROVE ShareInv'
    <3>1. /\ k \in D
          /\ associations' = [associations EXCEPT ![k].usage = @ + 1]
          /\ UNCHANGED accountShares
      BY <2>0, <2>4 DEF UsesCPU
    <3>2. /\ DOMAIN associations' = D
          /\ \A l \in D : associations'[l] \in Association
      BY <1>2, <2>0, <3>1 DEF ShareInv, Association
    <3>. QED
      BY <1>2, <2>0, <3>1, <3>2 DEF ShareInv
  <2>5. ASSUME NEW k \in Keys, NEW shares \in {parent, 1}, SetShares(k, shares) PROVE ShareInv'
    <3>1. /\ k \in D
          /\ associations' = [associations EXCEPT ![k].shares = shares]
          /\ UNCHANGED accountShares
      BY <2>0, <2>5 DEF SetShares
    <3>2. /\ DOMAIN associations' = D
          /\ \A l \in D : associations'[l] \in Association
      BY <1>2, <2>0, <3>1 DEF ShareInv, Association
    <3>. QED
      BY <1>2, <2>0, <3>1, <3>2 DEF ShareInv
  <2>6. ASSUME NEW a \in ToSet(Accounts), NEW shares \in {parent, 1}, SetAccountShares(a, shares)
        PROVE  ShareInv'
    <3>1. accountShares' \in [ToSet(Accounts) -> {parent, 1}]
      BY <1>2, <2>6 DEF SetAccountShares, ShareInv
    <3>. QED
      BY <1>2, <2>6, <3>1 DEF SetAccountShares, ShareInv
  <2>. QED
    BY <1>2, <2>1, <2>2, <2>3, <2>4, <2>5, <2>6 DEF ShareNext
<1>. QED
  BY <1>1, <1>2, PTL DEF ShareSpec

-----------------------------------------------------------------------------
(* sshare's listing.                                                       *)

\* The lines that there can be.
ShareLines == {AccountLine(a) : a \in ToSet(Accounts)}
              \cup {UserLine(k) : k \in {l \in DOMAIN associations : l.user \in ToSet(ShareUsers)}}

\* The lines of an account's users.
LEMMA UserLinesHave ==
  ASSUME ShareInv, NEW a \in ToSet(Accounts)
  PROVE  /\ UserLines(a) \in Seq(ShareLines)
         /\ \A m : Occurs(m, UserLines(a)) <=>
                     \E k \in OfAccount(a) : k.user \in ToSet(ShareUsers) /\ m = UserLine(k)
<1>. DEFINE Ks(u) == {k \in OfAccount(a) : k.user = u}
            Of(u) == SetToSeq(Ks(u))
<1>1. PICK n \in Nat : n = Len(ShareUsers) /\ DOMAIN ShareUsers = 1 .. n
  BY FairShareAssumption
<1>2. ASSUME NEW u
      PROVE  /\ DOMAIN Of(u) = 1 .. Cardinality(Ks(u)) /\ Cardinality(Ks(u)) \in Nat
             /\ \A j \in DOMAIN Of(u) : Of(u)[j] \in Ks(u)
             /\ \A k \in Ks(u) : \E j \in DOMAIN Of(u) : Of(u)[j] = k
  <2>1. PICK K : K = Ks(u)
    OBVIOUS
  <2>2. K \in SUBSET DOMAIN associations
    BY <2>1 DEF OfAccount
  <2>3. IsFiniteSet(K)
    BY <2>2, FS_Subset DEF ShareInv
  <2>4. /\ SetToSeq(K) \in Seq(K)
        /\ DOMAIN SetToSeq(K) = 1 .. Cardinality(K)
        /\ \A x \in K : \E i \in DOMAIN SetToSeq(K) : SetToSeq(K)[i] = x
    BY <2>3, Listed
  <2>5. Cardinality(K) \in Nat
    BY <2>3, FS_CardinalityType
  <2>6. \A j \in DOMAIN SetToSeq(K) : SetToSeq(K)[j] \in K
    <3>1. PICK s : s = SetToSeq(K)
      OBVIOUS
    <3>2. s \in Seq(K)
      BY <2>4, <3>1
    <3>3. \A j \in DOMAIN s : s[j] \in K
      BY <3>2
    <3>. QED
      BY <3>1, <3>3
  <2>. HIDE DEF Ks
  <2>. QED
    BY <2>1, <2>4, <2>5, <2>6
<1>3. PICK seqs : seqs = [i \in DOMAIN ShareUsers |->
                            [j \in DOMAIN Of(ShareUsers[i]) |-> UserLine(Of(ShareUsers[i])[j])]]
  OBVIOUS
<1>4. UserLines(a) = FlattenSeq(seqs)
  BY <1>3 DEF UserLines
<1>5. ASSUME NEW i \in 1 .. n
      PROVE  /\ seqs[i] \in Seq(ShareLines)
             /\ \A m : Occurs(m, seqs[i]) <=> \E k \in Ks(ShareUsers[i]) : m = UserLine(k)
  <2>1. PICK u, s : u = ShareUsers[i] /\ s = Of(u)
    OBVIOUS
  <2>2. u \in ToSet(ShareUsers)
    BY <1>1, <2>1 DEF ToSet
  <2>3. PICK c \in Nat : /\ DOMAIN s = 1 .. c
                         /\ \A j \in DOMAIN s : s[j] \in Ks(u)
                         /\ \A k \in Ks(u) : \E j \in DOMAIN s : s[j] = k
    <3>. HIDE DEF Of, Ks
    <3>. QED
      BY <1>2, <2>1
  <2>4. seqs[i] = [j \in 1 .. c |-> UserLine(s[j])]
    BY <1>1, <1>3, <2>1, <2>3
  <2>. HIDE DEF Of
  <2>5. \A k \in Ks(u) : UserLine(k) \in ShareLines
    BY <2>2 DEF ShareLines, OfAccount
  <2>6. \A j \in 1 .. c : UserLine(s[j]) \in ShareLines
    <3>. HIDE DEF Ks
    <3>. QED
      BY <2>3, <2>5
  <2>7. seqs[i] \in Seq(ShareLines)
    BY <2>4, <2>6
  <2>8. \A m : Occurs(m, seqs[i]) <=> \E k \in Ks(u) : m = UserLine(k)
    <3>. HIDE DEF Ks
    <3>1. DOMAIN seqs[i] = 1 .. c /\ \A j \in 1 .. c : seqs[i][j] = UserLine(s[j])
      BY <2>4
    <3>. QED
      BY <2>3, <3>1 DEF Occurs
  <2>. QED
    BY <2>1, <2>7, <2>8
<1>6. seqs \in Seq(Seq(ShareLines))
  <2>1. seqs = [i \in 1 .. n |-> seqs[i]]
    BY <1>1, <1>3
  <2>. QED
    BY <1>5, <2>1
<1>7. /\ FlattenSeq(seqs) \in Seq(ShareLines)
      /\ \A m : Occurs(m, FlattenSeq(seqs)) <=> \E i \in DOMAIN seqs : Occurs(m, seqs[i])
  BY <1>6, FlattenHas
<1>8. DOMAIN seqs = 1 .. n
  BY <1>1, <1>3
<1>9. \A m : (\E i \in 1 .. n : Occurs(m, seqs[i])) <=>
                \E k \in OfAccount(a) : k.user \in ToSet(ShareUsers) /\ m = UserLine(k)
  <2>1. \A u : u \in ToSet(ShareUsers) <=> \E i \in 1 .. n : u = ShareUsers[i]
    BY <1>1 DEF ToSet
  <2>2. \A k, u : k \in Ks(u) <=> k \in OfAccount(a) /\ k.user = u
    OBVIOUS
  <2>. HIDE DEF Ks, Of
  <2>3. ASSUME NEW m, NEW i \in 1 .. n, Occurs(m, seqs[i])
        PROVE  \E k \in OfAccount(a) : k.user \in ToSet(ShareUsers) /\ m = UserLine(k)
    <3>1. PICK k \in Ks(ShareUsers[i]) : m = UserLine(k)
      BY <1>5, <2>3
    <3>2. k \in OfAccount(a) /\ k.user = ShareUsers[i]
      BY <2>2
    <3>. QED
      BY <2>1, <3>1, <3>2
  <2>4. ASSUME NEW m, NEW k \in OfAccount(a), k.user \in ToSet(ShareUsers), m = UserLine(k)
        PROVE  \E i \in 1 .. n : Occurs(m, seqs[i])
    <3>1. PICK i \in 1 .. n : k.user = ShareUsers[i]
      BY <2>1, <2>4
    <3>2. k \in Ks(ShareUsers[i])
      BY <2>2, <3>1
    <3>. QED
      BY <1>5, <2>4, <3>2
  <2>. QED
    BY <2>3, <2>4
<1>. QED
  BY <1>4, <1>7, <1>8, <1>9

\* All lines.
LEMMA ShareDataHas ==
  ASSUME ShareInv
  PROVE  /\ FairShareData \in Seq(ShareLines)
         /\ \A m \in ShareLines : Occurs(m, FairShareData)
<1>1. PICK n \in Nat : n = Len(Accounts) /\ DOMAIN Accounts = 1 .. n
  BY FairShareAssumption
<1>2. PICK seqs : seqs = [i \in DOMAIN Accounts |-> <<AccountLine(Accounts[i])>> \o UserLines(Accounts[i])]
  OBVIOUS
<1>3. FairShareData = FlattenSeq(seqs)
  BY <1>2 DEF FairShareData
<1>4. \A a : a \in ToSet(Accounts) <=> \E i \in 1 .. n : a = Accounts[i]
  BY <1>1 DEF ToSet
<1>5. ASSUME NEW i \in 1 .. n
      PROVE  /\ seqs[i] \in Seq(ShareLines)
             /\ Occurs(AccountLine(Accounts[i]), seqs[i])
             /\ \A m : Occurs(m, UserLines(Accounts[i])) => Occurs(m, seqs[i])
  <2>1. PICK a, l, us, one : /\ a = Accounts[i] /\ l = AccountLine(a) /\ us = UserLines(a)
                             /\ one = <<l>>
    OBVIOUS
  <2>2. a \in ToSet(Accounts) /\ l \in ShareLines
    BY <1>4, <2>1 DEF ShareLines
  <2>3. one \in Seq(ShareLines) /\ Occurs(l, one)
    BY <2>1, <2>2 DEF Occurs
  <2>4. us \in Seq(ShareLines)
    BY <2>1, <2>2, UserLinesHave
  <2>5. /\ one \o us \in Seq(ShareLines)
        /\ \A m : Occurs(m, one \o us) <=> Occurs(m, one) \/ Occurs(m, us)
    BY <2>3, <2>4, ConcatHas
  <2>6. seqs[i] = one \o us
    BY <1>1, <1>2, <2>1
  <2>. QED
    BY <2>1, <2>3, <2>5, <2>6
<1>6. seqs \in Seq(Seq(ShareLines))
  <2>1. seqs = [i \in 1 .. n |-> seqs[i]]
    BY <1>1, <1>2
  <2>. QED
    BY <1>5, <2>1
<1>7. /\ FlattenSeq(seqs) \in Seq(ShareLines)
      /\ \A m : Occurs(m, FlattenSeq(seqs)) <=> \E i \in DOMAIN seqs : Occurs(m, seqs[i])
  BY <1>6, FlattenHas
<1>8. DOMAIN seqs = 1 .. n
  BY <1>1, <1>2
<1>9. ASSUME NEW m \in ShareLines PROVE \E i \in 1 .. n : Occurs(m, seqs[i])
  <2>1. CASE \E a \in ToSet(Accounts) : m = AccountLine(a)
    BY <1>4, <1>5, <2>1
  <2>2. ASSUME NEW k \in DOMAIN associations, k.user \in ToSet(ShareUsers), m = UserLine(k)
        PROVE  \E i \in 1 .. n : Occurs(m, seqs[i])
    <3>1. k.account \in ToSet(Accounts)
      BY DEF ShareInv, Keys
    <3>2. k \in OfAccount(k.account)
      BY DEF OfAccount
    <3>3. Occurs(m, UserLines(k.account))
      BY <2>2, <3>1, <3>2, UserLinesHave
    <3>4. PICK i \in 1 .. n : k.account = Accounts[i]
      BY <1>4, <3>1
    <3>. QED
      BY <1>5, <3>3, <3>4
  <2>. QED
    BY <2>1, <2>2 DEF ShareLines
<1>. QED
  BY <1>3, <1>7, <1>8, <1>9

-----------------------------------------------------------------------------
(* The exporter's loops.                                                   *)

\* The lines that are not skipped.
HasShares(m) == m.account # Blank /\ m.shares # parent

ShareRead == INSTANCE FoldProofs WITH Step <- AddMetric

\* The parser keeps the lines that have shares.
LEMMA SharesParsed ==
  ASSUME NEW S, NEW lines \in Seq(S)
  PROVE  /\ ParseFairShareMetrics(lines) \in Seq(S)
         /\ \A m : Occurs(m, ParseFairShareMetrics(lines)) <=> Occurs(m, lines) /\ HasShares(m)
<1>1. PICK none : none = << >>
  OBVIOUS
<1>2. PICK n \in Nat : n = Len(lines) /\ DOMAIN lines = 1 .. n
  OBVIOUS
<1>3. ParseFairShareMetrics(lines) = ShareRead!Folded(none, lines)
  BY <1>1 DEF ParseFairShareMetrics, ShareRead!Folded, FoldLeft, MapThenFoldSet, ShareRead!MapThenFoldSet, Max, ShareRead!Greatest
<1>4. PICK g : /\ g[0] = none
               /\ \A i \in 1 .. n : g[i] = AddMetric(g[i - 1], lines[i])
               /\ ShareRead!Folded(none, lines) = g[n]
  BY <1>2, ShareRead!Trace
<1>. DEFINE Good(k) == /\ g[k] \in Seq(S)
                       /\ \A m : Occurs(m, g[k]) <=> HasShares(m) /\ \E i \in 1 .. k : lines[i] = m
            U == {k \in Nat : k <= n => Good(k)}
<1>5. 0 \in U
  <2>1. none \in Seq(S) /\ DOMAIN none = {}
    BY <1>1
  <2>2. Good(0)
    BY <1>4, <2>1 DEF Occurs
  <2>. HIDE DEF Good
  <2>. QED
    BY <2>2
<1>6. ASSUME NEW k \in Nat, k \in U PROVE k + 1 \in U
  <2>1. CASE k + 1 <= n
    <3>1. PICK s, l, t : s = g[k] /\ l = lines[k + 1] /\ t = g[k + 1]
      OBVIOUS
    <3>2. k + 1 \in 1 .. n /\ (k + 1) - 1 = k /\ k <= n
      BY <1>2, <2>1
    <3>3. l \in S
      BY <1>2, <3>1, <3>2
    <3>4. t = AddMetric(s, l)
      BY <1>4, <3>1, <3>2
    <3>5. Good(k)
      <4>. HIDE DEF Good
      <4>. QED
        BY <1>6, <3>2
    <3>6. s \in Seq(S)
      BY <3>1, <3>5
    <3>7. \A m : Occurs(m, s) <=> HasShares(m) /\ \E i \in 1 .. k : lines[i] = m
      BY <3>1, <3>5
    <3>8. \A m : (\E i \in 1 .. k + 1 : lines[i] = m) <=> (\E i \in 1 .. k : lines[i] = m) \/ m = l
      <4>1. 1 .. k + 1 = (1 .. k) \cup {k + 1}
        OBVIOUS
      <4>. QED
        BY <3>1, <4>1
    <3>9. ASSUME HasShares(l) PROVE Good(k + 1)
      <4>1. t = Append(s, l)
        BY <3>4, <3>9 DEF AddMetric, HasShares
      <4>2. /\ t \in Seq(S)
            /\ DOMAIN t = DOMAIN s \cup {Len(s) + 1}
            /\ \A i \in DOMAIN s : t[i] = s[i]
            /\ t[Len(s) + 1] = l
        BY <3>3, <3>6, <4>1
      <4>3. \A m : Occurs(m, t) <=> Occurs(m, s) \/ m = l
        BY <4>2 DEF Occurs
      <4>. QED
        BY <3>1, <3>7, <3>8, <3>9, <4>2, <4>3
    <3>10. ASSUME ~HasShares(l) PROVE Good(k + 1)
      <4>1. t = s
        BY <3>4, <3>10 DEF AddMetric, HasShares
      <4>. QED
        BY <3>1, <3>6, <3>7, <3>8, <3>10, <4>1
    <3>. HIDE DEF Good
    <3>. QED
      BY <3>9, <3>10
  <2>2. CASE ~(k + 1 <= n)
    BY <2>2
  <2>. QED
    BY <2>1, <2>2
<1>7. Nat \subseteq U
  <2>. HIDE DEF U
  <2>. QED
    BY <1>5, <1>6, NatInd
<1>8. Good(n)
  <2>1. n \in U
    BY <1>7
  <2>. HIDE DEF Good
  <2>. QED
    BY <2>1
<1>9. \A m : Occurs(m, lines) <=> \E i \in 1 .. n : lines[i] = m
  BY <1>2 DEF Occurs
<1>. QED
  BY <1>3, <1>4, <1>8, <1>9

EmitOfAll      == INSTANCE FoldProofs WITH Step <- Emit
EmitOfAccounts == INSTANCE FoldProofs WITH Step <- EmitAccount

\* What has been emitted of the first k lines if those in W are wanted.
Emitted(e, W, lines, k) ==
  /\ e \in Seq(W)
  /\ LabelsAreUnique(e)
  /\ \A i \in DOMAIN e : \E j \in 1 .. k : e[i] = lines[j]
  /\ \A j \in 1 .. k : lines[j] \in W => Seen(e, lines[j])

\* The first line of a label set is emitted.
LEMMA EmitOne ==
  ASSUME NEW e, NEW W, NEW lines, NEW k \in Nat, Emitted(e, W, lines, k),
         NEW l, l = lines[k + 1], NEW f, f = IF l \in W THEN Emit(e, l) ELSE e
  PROVE  Emitted(f, W, lines, k + 1)
<1>0. 1 .. k + 1 = (1 .. k) \cup {k + 1}
  OBVIOUS
<1>1. /\ e \in Seq(W)
      /\ \A i \in DOMAIN e : \E j \in 1 .. k : e[i] = lines[j]
      /\ \A j \in 1 .. k : lines[j] \in W => Seen(e, lines[j])
  BY DEF Emitted
<1>2. LabelsAreUnique(e)
  BY DEF Emitted
<1>3. ASSUME l \in W, ~Seen(e, l) PROVE Emitted(f, W, lines, k + 1)
  <2>1. f = Append(e, l)
    BY <1>3 DEF Emit
  <2>2. PICK n \in Nat : n = Len(e) /\ DOMAIN e = 1 .. n
    BY <1>1
  <2>3. /\ f \in Seq(W)
        /\ DOMAIN f = 1 .. n + 1
        /\ \A i \in 1 .. n : f[i] = e[i]
        /\ f[n + 1] = l
    <3>1. e \in Seq(W) /\ l \in W
      BY <1>1, <1>3
    <3>2. f \in Seq(W)
      BY <2>1, <3>1
    <3>3. Len(f) = n + 1 /\ DOMAIN f = 1 .. Len(f)
      BY <2>1, <2>2, <3>1
    <3>4. \A i \in 1 .. n : f[i] = e[i]
      BY <2>1, <2>2, <3>1
    <3>5. f[n + 1] = l
      BY <2>1, <2>2, <3>1
    <3>. QED
      BY <3>2, <3>3, <3>4, <3>5
  <2>4. 1 .. n + 1 = (1 .. n) \cup {n + 1}
    OBVIOUS
  <2>5. \A i \in 1 .. n : ~(e[i].user = l.user /\ e[i].account = l.account)
    BY <1>3, <2>2 DEF Seen
  <2>6. \A i, j \in 1 .. n : e[i].account = e[j].account /\ e[i].user = e[j].user => i = j
    BY <1>2, <2>2 DEF LabelsAreUnique
  <2>7. \A i, j \in 1 .. n + 1 : f[i].account = f[j].account /\ f[i].user = f[j].user => i = j
    BY <2>3, <2>4, <2>5, <2>6
  <2>8. LabelsAreUnique(f)
    BY <2>3, <2>7 DEF LabelsAreUnique
  <2>9. \A i \in DOMAIN f : \E j \in 1 .. k + 1 : f[i] = lines[j]
    <3>1. \A i \in 1 .. n : \E j \in 1 .. k + 1 : f[i] = lines[j]
      BY <1>0, <1>1, <2>2, <2>3
    <3>2. f[n + 1] = lines[k + 1] /\ k + 1 \in 1 .. k + 1
      BY <2>3
    <3>. QED
      BY <2>3, <2>4, <3>1, <3>2
  <2>10. \A m : Seen(e, m) \/ m = l => Seen(f, m)
    <3>1. ASSUME NEW m, Seen(e, m) PROVE Seen(f, m)
      <4>1. PICK i \in 1 .. n : e[i].user = m.user /\ e[i].account = m.account
        BY <2>2, <3>1 DEF Seen
      <4>2. f[i] = e[i] /\ i \in DOMAIN f
        BY <2>3, <2>4
      <4>. QED
        BY <4>1, <4>2 DEF Seen
    <3>2. Seen(f, l)
      BY <2>3, <2>4 DEF Seen
    <3>. QED
      BY <3>1, <3>2
  <2>11. \A j \in 1 .. k + 1 : lines[j] \in W => Seen(f, lines[j])
    BY <1>0, <1>1, <2>10
  <2>. QED
    BY <2>3, <2>8, <2>9, <2>11 DEF Emitted
<1>4. ASSUME ~(l \in W /\ ~Seen(e, l)) PROVE Emitted(f, W, lines, k + 1)
  <2>1. f = e
    BY <1>4 DEF Emit
  <2>2. \A i \in DOMAIN f : \E j \in 1 .. k + 1 : f[i] = lines[j]
    BY <1>0, <1>1, <2>1
  <2>3. \A j \in 1 .. k + 1 : lines[j] \in W => Seen(f, lines[j])
    BY <1>0, <1>1, <1>4, <2>1
  <2>. QED
    BY <1>1, <1>2, <2>1, <2>2, <2>3 DEF Emitted
<1>. QED
  BY <1>3, <1>4

\* Nothing has been emitted before the first line.
LEMMA EmitNothing ==
  ASSUME NEW W, NEW lines
  PROVE  Emitted(<< >>, W, lines, 0)
BY DEF Emitted, LabelsAreUnique

\* The lines that are parsed.
ParsedLines == ParseFairShareMetrics(FairShareData)

\* g is what has been emitted after each of the lines.
EmittedAlong(g, s, n) == /\ g[0] = << >>
                         /\ \A i \in 1 .. n : g[i] = Emit(g[i - 1], s[i])
                         /\ FoldLeft(Emit, << >>, s) = g[n]

\* Such a trace there is.
LEMMA EmitTrace ==
  ASSUME NEW s, NEW n \in Nat, DOMAIN s = 1 .. n
  PROVE  \E g : EmittedAlong(g, s, n)
<1>1. PICK none : none = << >>
  OBVIOUS
<1>2. FoldLeft(Emit, none, s) = EmitOfAll!Folded(none, s)
  BY DEF EmitOfAll!Folded, FoldLeft, MapThenFoldSet, EmitOfAll!MapThenFoldSet, Max,
     EmitOfAll!Greatest
<1>3. \E g : /\ g[0] = none
             /\ \A i \in 1 .. n : g[i] = Emit(g[i - 1], s[i])
             /\ EmitOfAll!Folded(none, s) = g[n]
  BY EmitOfAll!Trace
<1>. QED
  BY <1>1, <1>2, <1>3 DEF EmittedAlong

\* The series stand for all wanted lines.
LEMMA AllEmitted ==
  ASSUME ShareInv
  PROVE  \E n \in Nat : DOMAIN ParsedLines = 1 .. n /\ Emitted(tryCollect(TRUE), ShareLines, ParsedLines, n)
<1>1. PICK none : none = << >>
  OBVIOUS
<1>2. ParsedLines \in Seq(ShareLines)
  BY ShareDataHas, SharesParsed DEF ParsedLines
<1>3. PICK s \in Seq(ShareLines) : s = ParsedLines
  BY <1>2
<1>4. PICK n \in Nat : n = Len(s) /\ DOMAIN s = 1 .. n
  OBVIOUS
<1>5. PICK g : EmittedAlong(g, s, n)
  BY <1>4, EmitTrace
<1>6. /\ g[0] = none
      /\ \A i \in 1 .. n : g[i] = Emit(g[i - 1], s[i])
      /\ tryCollect(TRUE) = g[n]
  BY <1>1, <1>3, <1>5 DEF EmittedAlong, tryCollect, ParsedLines
<1>. DEFINE W == ShareLines
            Good(k) == Emitted(g[k], W, s, k)
            U == {k \in Nat : k <= n => Good(k)}
<1>7. 0 \in U
  BY <1>1, <1>6, EmitNothing
<1>8. ASSUME NEW k \in Nat, k \in U PROVE k + 1 \in U
  <2>1. CASE k + 1 <= n
    <3>1. PICK e, l, f : e = g[k] /\ l = s[k + 1] /\ f = g[k + 1]
      OBVIOUS
    <3>2. k + 1 \in 1 .. n /\ (k + 1) - 1 = k /\ k <= n
      BY <1>4, <2>1
    <3>3. l \in W
      BY <1>4, <3>1, <3>2
    <3>4. f = Emit(e, l)
      BY <1>6, <3>1, <3>2
    <3>5. Emitted(e, W, s, k)
      <4>. HIDE DEF W
      <4>. QED
        BY <1>8, <3>1, <3>2
    <3>. HIDE DEF W
    <3>6. Emitted(f, W, s, k + 1)
      BY <3>1, <3>3, <3>4, <3>5, EmitOne
    <3>. QED
      BY <3>1, <3>6
  <2>2. CASE ~(k + 1 <= n)
    BY <2>2
  <2>. QED
    BY <2>1, <2>2
<1>9. Nat \subseteq U
  <2>. HIDE DEF U
  <2>. QED
    BY <1>7, <1>8, NatInd
<1>10. Good(n)
  <2>1. n \in U
    BY <1>9
  <2>. HIDE DEF Good
  <2>. QED
    BY <2>1
<1>. QED
  BY <1>3, <1>4, <1>5, <1>6, <1>10

\* g is what has been emitted of the accounts after each of the lines.
AccountsAlong(g, s, n) == /\ g[0] = << >>
                          /\ \A i \in 1 .. n : g[i] = EmitAccount(g[i - 1], s[i])
                          /\ FoldLeft(EmitAccount, << >>, s) = g[n]

\* Such a trace there is.
LEMMA AccountsTrace ==
  ASSUME NEW s, NEW n \in Nat, DOMAIN s = 1 .. n
  PROVE  \E g : AccountsAlong(g, s, n)
<1>1. PICK none : none = << >>
  OBVIOUS
<1>2. FoldLeft(EmitAccount, none, s) = EmitOfAccounts!Folded(none, s)
  BY DEF EmitOfAccounts!Folded, FoldLeft, MapThenFoldSet, EmitOfAccounts!MapThenFoldSet, Max,
     EmitOfAccounts!Greatest
<1>3. \E g : /\ g[0] = none
             /\ \A i \in 1 .. n : g[i] = EmitAccount(g[i - 1], s[i])
             /\ EmitOfAccounts!Folded(none, s) = g[n]
  BY EmitOfAccounts!Trace
<1>. QED
  BY <1>1, <1>2, <1>3 DEF AccountsAlong

\* Without user metrics they stand for the lines of the accounts.
LEMMA AccountsEmitted ==
  ASSUME ShareInv
  PROVE  \E n \in Nat : /\ DOMAIN ParsedLines = 1 .. n
                        /\ Emitted(tryCollect(FALSE), {m \in ShareLines : m.user = Blank}, ParsedLines, n)
<1>1. PICK none : none = << >>
  OBVIOUS
<1>2. ParsedLines \in Seq(ShareLines)
  BY ShareDataHas, SharesParsed DEF ParsedLines
<1>3. PICK s \in Seq(ShareLines) : s = ParsedLines
  BY <1>2
<1>4. PICK n \in Nat : n = Len(s) /\ DOMAIN s = 1 .. n
  OBVIOUS
<1>5. PICK g : AccountsAlong(g, s, n)
  BY <1>4, AccountsTrace
<1>6. /\ g[0] = none
      /\ \A i \in 1 .. n : g[i] = EmitAccount(g[i - 1], s[i])
      /\ tryCollect(FALSE) = g[n]
  BY <1>1, <1>3, <1>5 DEF AccountsAlong, tryCollect, ParsedLines
<1>. DEFINE W == {m \in ShareLines : m.user = Blank}
            Good(k) == Emitted(g[k], W, s, k)
            U == {k \in Nat : k <= n => Good(k)}
<1>7. 0 \in U
  BY <1>1, <1>6, EmitNothing
<1>8. ASSUME NEW k \in Nat, k \in U PROVE k + 1 \in U
  <2>1. CASE k + 1 <= n
    <3>1. PICK e, l, f : e = g[k] /\ l = s[k + 1] /\ f = g[k + 1]
      OBVIOUS
    <3>2. k + 1 \in 1 .. n /\ (k + 1) - 1 = k /\ k <= n
      BY <1>4, <2>1
    <3>3. l \in ShareLines
      BY <1>4, <3>1, <3>2
    <3>4. f = IF l \in W THEN Emit(e, l) ELSE e
      BY <1>6, <3>1, <3>2, <3>3 DEF EmitAccount
    <3>5. Emitted(e, W, s, k)
      <4>. HIDE DEF W
      <4>. QED
        BY <1>8, <3>1, <3>2
    <3>. HIDE DEF W
    <3>6. Emitted(f, W, s, k + 1)
      BY <3>1, <3>4, <3>5, EmitOne
    <3>. QED
      BY <3>1, <3>6
  <2>2. CASE ~(k + 1 <= n)
    BY <2>2
  <2>. QED
    BY <2>1, <2>2
<1>9. Nat \subseteq U
  <2>. HIDE DEF U
  <2>. QED
    BY <1>7, <1>8, NatInd
<1>10. Good(n)
  <2>1. n \in U
    BY <1>9
  <2>. HIDE DEF Good
  <2>. QED
    BY <2>1
<1>. QED
  BY <1>3, <1>4, <1>5, <1>6, <1>10

\* A line is an account's or a user's.
LEMMA LinesAreOf ==
  ASSUME ShareInv
  PROVE  /\ \A a \in ToSet(Accounts) :
              /\ AccountLine(a) \in ShareLines
              /\ AccountLine(a).account = a /\ AccountLine(a).user = Blank
              /\ HasShares(AccountLine(a)) <=> accountShares[a] # parent
         /\ \A k \in DOMAIN associations :
              /\ UserLine(k).account = k.account /\ UserLine(k).user = k.user
              /\ UserLine(k).shares = associations[k].shares
              /\ UserLine(k).usage = associations[k].usage
              /\ k.user \in ToSet(ShareUsers) /\ k.user # Blank
              /\ k.account \in ToSet(Accounts) /\ k.account # Blank
              /\ UserLine(k) \in ShareLines
              /\ HasShares(UserLine(k)) <=> associations[k].shares # parent
         /\ \A m \in ShareLines : \/ m.user = Blank /\ m = AccountLine(m.account)
                                  \/ m.user # Blank /\ \E k \in DOMAIN associations : m = UserLine(k)
<1>1. ASSUME NEW a \in ToSet(Accounts)
      PROVE  /\ AccountLine(a) \in ShareLines
             /\ AccountLine(a).account = a /\ AccountLine(a).user = Blank
             /\ HasShares(AccountLine(a)) <=> accountShares[a] # parent
  <2>1. a # Blank
    BY FairShareAssumption
  <2>2. /\ AccountLine(a).account = a /\ AccountLine(a).user = Blank
        /\ AccountLine(a).shares = accountShares[a]
    BY DEF AccountLine
  <2>3. HasShares(AccountLine(a)) <=> accountShares[a] # parent
    BY <2>1, <2>2 DEF HasShares
  <2>4. AccountLine(a) \in ShareLines
    BY DEF ShareLines
  <2>. QED
    BY <2>2, <2>3, <2>4
<1>2. ASSUME NEW k \in DOMAIN associations
      PROVE  /\ UserLine(k).account = k.account /\ UserLine(k).user = k.user
             /\ UserLine(k).shares = associations[k].shares
             /\ UserLine(k).usage = associations[k].usage
             /\ k.user \in ToSet(ShareUsers) /\ k.user # Blank
             /\ k.account \in ToSet(Accounts) /\ k.account # Blank
             /\ UserLine(k) \in ShareLines
             /\ HasShares(UserLine(k)) <=> associations[k].shares # parent
  <2>1. k.user \in ToSet(ShareUsers) /\ k.account \in ToSet(Accounts)
    BY DEF ShareInv, Keys
  <2>2. k.user # Blank /\ k.account # Blank
    BY <2>1, FairShareAssumption
  <2>3. /\ UserLine(k).account = k.account /\ UserLine(k).user = k.user
        /\ UserLine(k).shares = associations[k].shares
        /\ UserLine(k).usage = associations[k].usage
    BY DEF UserLine
  <2>4. HasShares(UserLine(k)) <=> associations[k].shares # parent
    BY <2>2, <2>3 DEF HasShares
  <2>5. UserLine(k) \in ShareLines
    BY <2>1 DEF ShareLines
  <2>. QED
    BY <2>1, <2>2, <2>3, <2>4, <2>5
<1>3. ASSUME NEW m \in ShareLines
      PROVE  \/ m.user = Blank /\ m = AccountLine(m.account)
             \/ m.user # Blank /\ \E k \in DOMAIN associations : m = UserLine(k)
  <2>1. ASSUME NEW a \in ToSet(Accounts), m = AccountLine(a)
        PROVE  m.user = Blank /\ m = AccountLine(m.account)
    BY <1>1, <2>1
  <2>2. ASSUME NEW k \in DOMAIN associations, m = UserLine(k)
        PROVE  m.user # Blank /\ \E l \in DOMAIN associations : m = UserLine(l)
    BY <1>2, <2>2
  <2>. QED
    BY <2>1, <2>2 DEF ShareLines
<1>. QED
  BY <1>1, <1>2, <1>3

\* One series for each label set that is wanted, of a line that has it.
Stands(all, W) ==
  /\ \A m \in all : m \in W /\ HasShares(m)
  /\ \A m \in W : HasShares(m) => \E x \in all : x.account = m.account /\ x.user = m.user
  /\ \A x, y \in all : x.account = y.account /\ x.user = y.user => x = y

\* The series stand for the wanted lines.
LEMMA SeriesStand ==
  ASSUME ShareInv, NEW W \in SUBSET ShareLines, NEW n \in Nat, DOMAIN ParsedLines = 1 .. n,
         NEW e, Emitted(e, W, ParsedLines, n)
  PROVE  LabelsAreUnique(e) /\ Stands(ToSet(e), W)
<1>1. \A m : Occurs(m, ParsedLines) <=> Occurs(m, FairShareData) /\ HasShares(m)
  BY ShareDataHas, SharesParsed DEF ParsedLines
<1>2. \A m : Occurs(m, ParsedLines) <=> \E j \in 1 .. n : ParsedLines[j] = m
  BY DEF Occurs
<1>3. \A m \in ShareLines : Occurs(m, FairShareData)
  BY ShareDataHas
<1>4. \A m : m \in ToSet(e) <=> \E i \in DOMAIN e : e[i] = m
  BY DEF ToSet
<1>5. /\ e \in Seq(W)
      /\ \A i \in DOMAIN e : \E j \in 1 .. n : e[i] = ParsedLines[j]
      /\ \A j \in 1 .. n : ParsedLines[j] \in W => Seen(e, ParsedLines[j])
  BY DEF Emitted
<1>6. LabelsAreUnique(e)
  BY DEF Emitted
<1>7. ASSUME NEW m \in ToSet(e) PROVE m \in W /\ HasShares(m)
  <2>1. PICK i \in DOMAIN e : e[i] = m
    BY <1>4
  <2>2. m \in W
    BY <1>5, <2>1
  <2>3. Occurs(m, ParsedLines)
    BY <1>2, <1>5, <2>1
  <2>. QED
    BY <1>1, <2>2, <2>3
<1>8. ASSUME NEW m \in W, HasShares(m)
      PROVE  \E x \in ToSet(e) : x.account = m.account /\ x.user = m.user
  <2>1. Occurs(m, ParsedLines)
    BY <1>1, <1>3, <1>8
  <2>2. Seen(e, m)
    BY <1>2, <1>5, <2>1
  <2>. QED
    BY <1>4, <2>2 DEF Seen
<1>9. ASSUME NEW x \in ToSet(e), NEW y \in ToSet(e), x.account = y.account, x.user = y.user
      PROVE  x = y
  <2>1. PICK i \in DOMAIN e : e[i] = x
    BY <1>4
  <2>2. PICK j \in DOMAIN e : e[j] = y
    BY <1>4
  <2>3. i = j
    BY <1>6, <1>9, <2>1, <2>2 DEF LabelsAreUnique
  <2>. QED
    BY <2>1, <2>2, <2>3
<1>. QED
  BY <1>6, <1>7, <1>8, <1>9 DEF Stands

\* An account's series is its line, if that has shares.
LEMMA AccountsAreShown ==
  ASSUME ShareInv, NEW all, NEW W \in SUBSET ShareLines, Stands(all, W),
         NEW a \in ToSet(Accounts), AccountLine(a) \in W
  PROVE  AccountIsShown(all, a)
<1>1. /\ AccountLine(a).account = a /\ AccountLine(a).user = Blank
      /\ HasShares(AccountLine(a)) <=> accountShares[a] # parent
  BY LinesAreOf
<1>2. ASSUME NEW x \in all, x.account = a, x.user = Blank
      PROVE  x = AccountLine(a) /\ accountShares[a] # parent
  <2>1. x \in ShareLines /\ HasShares(x)
    BY DEF Stands
  <2>2. x = AccountLine(x.account)
    BY <1>2, <2>1, LinesAreOf
  <2>. QED
    BY <1>1, <1>2, <2>1, <2>2
<1>3. ASSUME accountShares[a] # parent
      PROVE  AccountLine(a) \in all
  <2>1. PICK x \in all : x.account = a /\ x.user = Blank
    BY <1>1, <1>3 DEF Stands
  <2>. QED
    BY <1>2, <2>1
<1>. QED
  BY <1>1, <1>2, <1>3 DEF AccountIsShown

\* A user's series is of an association that has shares.
LEMMA UserSeries ==
  ASSUME ShareInv, NEW all, Stands(all, ShareLines),
         NEW m \in all, m.user # Blank
  PROVE  \E k \in OfAccount(m.account) :
           /\ m = UserLine(k) /\ k.user = m.user /\ associations[k].shares # parent
           /\ m.usage = associations[k].usage /\ m.shares = associations[k].shares
<1>1. m \in ShareLines /\ HasShares(m)
  BY DEF Stands
<1>2. PICK k \in DOMAIN associations : m = UserLine(k)
  BY <1>1, LinesAreOf
<1>3. /\ m.account = k.account /\ m.user = k.user /\ associations[k].shares # parent
      /\ m.usage = associations[k].usage /\ m.shares = associations[k].shares
  BY <1>1, <1>2, LinesAreOf
<1>4. k \in OfAccount(m.account)
  BY <1>3 DEF OfAccount
<1>. QED
  BY <1>2, <1>3, <1>4

\* An association that has shares has a series.
LEMMA SharersSeries ==
  ASSUME ShareInv, NEW all, Stands(all, ShareLines),
         NEW a, NEW k \in OfAccount(a), associations[k].shares # parent
  PROVE  \E m \in all : m.account = a /\ m.user = k.user
<1>1. k \in DOMAIN associations /\ k.account = a
  BY DEF OfAccount
<1>2. /\ UserLine(k) \in ShareLines /\ HasShares(UserLine(k))
      /\ UserLine(k).account = a /\ UserLine(k).user = k.user
  BY <1>1, LinesAreOf
<1>. QED
  BY <1>2 DEF Stands

\* What the users' series say of an account's usage.
LEMMA UsersAddUp ==
  ASSUME ShareInv, NEW all, Stands(all, ShareLines), NEW a \in ToSet(Accounts)
  PROVE  UsageAddsUp(all, a)
<1>1. PICK A : A = OfAccount(a)
  OBVIOUS
<1>2. PICK members : members = {m \in all : m.account = a /\ m.user # Blank}
  OBVIOUS
<1>3. PICK f, g : f = [m \in members |-> m.usage] /\ g = [k \in A |-> associations[k].usage]
  OBVIOUS
<1>4. A \in SUBSET DOMAIN associations /\ \A k \in A : k.account = a
  BY <1>1 DEF OfAccount
<1>5. IsFiniteSet(A)
  BY <1>4, FS_Subset DEF ShareInv
<1>6. \A k \in A : g[k] \in Nat
  BY <1>3, <1>4 DEF ShareInv, Association
<1>. DEFINE pick(m) == CHOOSE k \in A : m = UserLine(k) /\ associations[k].shares # parent
                                        /\ m.usage = associations[k].usage /\ k.user = m.user
            T == {pick(m) : m \in members}
            h == [k \in T |-> UserLine(k)]
<1>7. ASSUME NEW m \in members
      PROVE  /\ pick(m) \in A /\ m = UserLine(pick(m)) /\ m.usage = associations[pick(m)].usage
             /\ pick(m).user = m.user
  <2>1. m \in all /\ m.account = a /\ m.user # Blank
    BY <1>2
  <2>2. \E k \in A : m = UserLine(k) /\ associations[k].shares # parent
                     /\ m.usage = associations[k].usage /\ k.user = m.user
    BY <1>1, <2>1, UserSeries
  <2>. QED
    BY <2>2
<1>8. T \in SUBSET A
  BY <1>7
<1>9. OneToOne(h, T, members)
  <2>1. \A k \in T : \E m \in members : k = pick(m) /\ m = h[k]
    <3>1. ASSUME NEW m \in members PROVE pick(m) \in T /\ h[pick(m)] = m
      BY <1>7
    <3>. HIDE DEF h, pick
    <3>. QED
      BY <3>1
  <2>2. \A m \in members : pick(m) \in T /\ m = h[pick(m)]
    BY <1>7
  <2>. HIDE DEF h, pick, T
  <2>. QED
    BY <2>1, <2>2 DEF OneToOne
<1>10. \A m \in members : f[m] \in Int
  BY <1>3, <1>6, <1>7
<1>11. \A k \in T : g[k] = f[h[k]]
  <2>1. ASSUME NEW m \in members PROVE g[pick(m)] = f[h[pick(m)]]
    <3>1. h[pick(m)] = m
      BY <1>7
    <3>2. g[pick(m)] = associations[pick(m)].usage
      BY <1>3, <1>7
    <3>. HIDE DEF h, pick
    <3>. QED
      BY <1>3, <1>7, <3>1, <3>2
  <2>. HIDE DEF h, pick
  <2>. QED
    BY <2>1
<1>12. SumFunctionOnSet(g, T) = SumFunctionOnSet(f, members)
  <2>1. IsFiniteSet(T)
    BY <1>5, <1>8, FS_Subset
  <2>. HIDE DEF T, h
  <2>. QED
    BY <1>9, <1>10, <1>11, <2>1, SumReindex
<1>13. SumFunctionOnSet(g, T) <= SumFunctionOnSet(g, A)
  <2>. HIDE DEF T
  <2>. QED
    BY <1>5, <1>6, <1>8, SumSubset
<1>14. SumFunction(f) = SumFunctionOnSet(f, members) /\ UsageOf(OfAccount(a)) = SumFunctionOnSet(g, A)
  BY <1>1, <1>3 DEF SumFunction, UsageOf
<1>15. ASSUME \A k \in OfAccount(a) : associations[k].shares # parent /\ k.partition = Clusterwide
       PROVE  A \subseteq T
  <2> SUFFICES ASSUME NEW k \in A PROVE k \in T
    OBVIOUS
  <2>1. associations[k].shares # parent /\ k.partition = Clusterwide
    BY <1>1, <1>15
  <2>2. PICK m \in all : m.account = a /\ m.user = k.user
    BY <1>1, <2>1, SharersSeries
  <2>3. m \in members
    BY <1>2, <1>4, <2>2, LinesAreOf
  <2>4. PICK l : l = pick(m)
    OBVIOUS
  <2>5. l \in A /\ l.user = k.user
    BY <1>7, <2>2, <2>3, <2>4
  <2>6. l.partition = Clusterwide
    BY <1>1, <1>15, <2>5
  <2>7. l \in Keys /\ k \in Keys /\ l.account = k.account
    BY <1>4, <2>5 DEF ShareInv
  <2>8. l = k
    BY <2>1, <2>5, <2>6, <2>7 DEF Keys
  <2>. HIDE DEF pick
  <2>. QED
    BY <2>3, <2>4, <2>8
<1>16. ASSUME \A k \in OfAccount(a) : associations[k].shares # parent /\ k.partition = Clusterwide
       PROVE  T = A
  <2>. HIDE DEF T
  <2>. QED
    BY <1>8, <1>15, <1>16
<1>. HIDE DEF T, h, pick
<1>17. UsageAddsUp(all, a)
  BY <1>2, <1>3, <1>12, <1>13, <1>14, <1>16 DEF UsageAddsUp
<1>. QED
  BY <1>17

\* Which users have a series, and what it shows.
LEMMA UsersHaveSeries ==
  ASSUME ShareInv, NEW all, Stands(all, ShareLines), NEW a \in ToSet(Accounts)
  PROVE  UsersAreShown(all, a)
<1> SUFFICES ASSUME NEW u \in ToSet(ShareUsers), NEW shown,
                    shown = {[shares |-> m.shares, usage |-> m.usage] :
                               m \in {n \in all : n.account = a /\ n.user = u}}
             PROVE  IF OwnShares(a, u) = {} THEN shown = {}
                    ELSE \E k \in OwnShares(a, u) : shown = {associations[k]}
  BY DEF UsersAreShown
<1>1. u # Blank
  BY FairShareAssumption
<1>2. ASSUME NEW m \in all, m.account = a, m.user = u
      PROVE  \E k \in OwnShares(a, u) : [shares |-> m.shares, usage |-> m.usage] = associations[k]
  <2>1. PICK k \in OfAccount(a) :
           /\ m = UserLine(k) /\ k.user = m.user /\ associations[k].shares # parent
           /\ m.usage = associations[k].usage /\ m.shares = associations[k].shares
    BY <1>1, <1>2, UserSeries
  <2>2. k \in OwnShares(a, u)
    BY <1>2, <2>1 DEF OwnShares
  <2>3. associations[k] \in Association
    BY <2>1 DEF OfAccount, ShareInv
  <2>4. [shares |-> m.shares, usage |-> m.usage] = associations[k]
    BY <2>1, <2>3 DEF Association
  <2>. QED
    BY <2>2, <2>4
<1>3. CASE OwnShares(a, u) = {}
  BY <1>2, <1>3
<1>4. CASE OwnShares(a, u) # {}
  <2>1. PICK k0 \in OfAccount(a) : k0.user = u /\ associations[k0].shares # parent
    BY <1>4 DEF OwnShares
  <2>2. PICK m \in all : m.account = a /\ m.user = u
    BY <2>1, SharersSeries
  <2>3. \A n \in all : n.account = a /\ n.user = u => n = m
    BY <2>2 DEF Stands
  <2>4. shown = {[shares |-> m.shares, usage |-> m.usage]}
    BY <2>2, <2>3
  <2>. QED
    BY <1>2, <1>4, <2>2, <2>4
<1>. QED
  BY <1>3, <1>4

\* The fairshare series are consistent in every state.
THEOREM SharesAreConsistentHolds == ShareSpec => []SharesAreConsistent
<1>1. ASSUME ShareInv PROVE SharesAreConsistent
  <2>1. PICK s : s = tryCollect(TRUE)
    OBVIOUS
  <2>2. PICK t : t = tryCollect(FALSE)
    OBVIOUS
  <2>3. LabelsAreUnique(s) /\ Stands(ToSet(s), ShareLines)
    BY <1>1, <2>1, AllEmitted, SeriesStand
  <2>4. PICK W : W = {m \in ShareLines : m.user = Blank}
    OBVIOUS
  <2>5. LabelsAreUnique(t) /\ Stands(ToSet(t), W)
    BY <1>1, <2>2, <2>4, AccountsEmitted, SeriesStand
  <2>6. ASSUME NEW a \in ToSet(Accounts)
        PROVE  /\ AccountIsShown(ToSet(s), a) /\ AccountIsShown(ToSet(t), a)
               /\ UsageAddsUp(ToSet(s), a) /\ UsersAreShown(ToSet(s), a)
    <3>1. AccountLine(a) \in ShareLines /\ AccountLine(a) \in W
      BY <1>1, <2>4, LinesAreOf
    <3>2. AccountIsShown(ToSet(s), a)
      BY <1>1, <2>3, <3>1, AccountsAreShown
    <3>3. AccountIsShown(ToSet(t), a)
      BY <1>1, <2>4, <2>5, <3>1, AccountsAreShown
    <3>4. UsageAddsUp(ToSet(s), a)
      BY <1>1, <2>3, UsersAddUp
    <3>5. UsersAreShown(ToSet(s), a)
      BY <1>1, <2>3, UsersHaveSeries
    <3>. QED
      BY <3>2, <3>3, <3>4, <3>5
  <2>. QED
    BY <2>1, <2>2, <2>3, <2>5, <2>6 DEF SharesAreConsistent
<1>. QED
  BY <1>1, AssociationsCorrect, PTL

=============================================================================
