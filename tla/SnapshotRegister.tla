-------------------------- MODULE SnapshotRegister --------------------------
(***************************************************************************)
(* What timedCache promises its callers, with no lock and no second look:  *)
(* a register that holds one snapshot.  Each call takes effect at a single *)
(* instant between its invocation and its reply: it is served the snapshot *)
(* while that is fresh, otherwise it replaces it or fails.                 *)
(***************************************************************************)
EXTENDS Integers

CONSTANTS Procs, TTL, Timeout, MaxTime

VARIABLES
  now,        \* the clock
  snapshot,   \* the instant the held snapshot was taken
  storedAt,   \* the instant it was stored, Never before the first
  status,     \* of each caller: "idle", "pending" or "replied"
  asked,      \* when each call was invoked
  reply       \* the reply each caller is being given

regVars == <<now, snapshot, storedAt, status, asked, reply>>

Never == -1

NoReply == [ok |-> FALSE, data |-> Never, at |-> 0]

Init ==
  /\ now = 0
  /\ snapshot = Never
  /\ storedAt = Never
  /\ status = [p \in Procs |-> "idle"]
  /\ asked = [p \in Procs |-> 0]
  /\ reply = [p \in Procs |-> NoReply]

\* Mutant: a TTL that is too short.
Fresh_short == storedAt # Never /\ now - storedAt < TTL - 1

Fresh == storedAt # Never /\ now - storedAt < TTL

Become(p, from, to) == status[p] = from /\ status' = [status EXCEPT ![p] = to]

Invoke(p) ==
  /\ Become(p, "idle", "pending")
  /\ asked' = [asked EXCEPT ![p] = now]
  /\ UNCHANGED <<now, snapshot, storedAt, reply>>

Serve(p) ==
  /\ Fresh
  /\ Become(p, "pending", "replied")
  /\ reply' = [reply EXCEPT ![p] = [ok |-> TRUE, data |-> snapshot, at |-> now]]
  /\ UNCHANGED <<now, snapshot, storedAt, asked>>

\* Mutant: no lock around the command and no second look, so that a snapshot may
\* replace one that was taken after it.
Refresh_overtaken(p) ==
  /\ Become(p, "pending", "replied")
  /\ \E t \in asked[p] .. now :
       /\ now - t <= Timeout
       /\ snapshot' = t
       /\ reply' = [reply EXCEPT ![p] = [ok |-> TRUE, data |-> t, at |-> now]]
  /\ storedAt' = now
  /\ UNCHANGED <<now, asked>>

\* The new snapshot was taken during the call, after the previous refresh, and
\* is at most one command old.
Refresh(p) ==
  /\ ~Fresh
  /\ Become(p, "pending", "replied")
  /\ \E t \in 0 .. now :
       /\ t >= asked[p]
       /\ t >= storedAt
       /\ now - t <= Timeout
       /\ snapshot' = t
       /\ reply' = [reply EXCEPT ![p] = [ok |-> TRUE, data |-> t, at |-> now]]
  /\ storedAt' = now
  /\ UNCHANGED <<now, asked>>

Fail(p) ==
  /\ ~Fresh
  /\ Become(p, "pending", "replied")
  /\ reply' = [reply EXCEPT ![p] = [ok |-> FALSE, data |-> Never, at |-> now]]
  /\ UNCHANGED <<now, snapshot, storedAt, asked>>

Finish(p) ==
  /\ Become(p, "replied", "idle")
  /\ reply' = [reply EXCEPT ![p] = NoReply]
  /\ asked' = [asked EXCEPT ![p] = 0]
  /\ UNCHANGED <<now, snapshot, storedAt>>

Pass ==
  /\ now < MaxTime
  /\ now' = now + 1
  /\ UNCHANGED <<snapshot, storedAt, status, asked, reply>>

Respond(p) == Serve(p) \/ Refresh(p) \/ Fail(p)

Next ==
  \/ \E p \in Procs : Invoke(p) \/ Respond(p) \/ Finish(p)
  \/ Pass

Spec == Init /\ [][Next]_regVars

LiveSpec == Spec /\ \A p \in Procs : WF_regVars(Respond(p)) /\ WF_regVars(Finish(p))
=============================================================================
