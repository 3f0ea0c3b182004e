------------------------------- MODULE RWMutex -------------------------------
(***************************************************************************)
(* Go's sync.RWMutex, as the repository uses it: the value of one lock and *)
(* the effect of each of its four operations.  A lock is a record so that  *)
(* a component keeps it in a variable of its own.                          *)
(*                                                                         *)
(* The mutex prefers writers: from the moment a writer announces itself a  *)
(* new reader parks, the writer waits for the readers already inside, and  *)
(* Unlock lets every parked reader in before another writer can be served. *)
(***************************************************************************)
CONSTANTS Procs,   \* the goroutines that use the lock
          NoOne    \* "no goroutine"

ASSUME NoOneAssumption == NoOne \notin Procs

RWMutexes == [readers : SUBSET Procs,
              parked  : SUBSET Procs,
              writer  : Procs \cup {NoOne}]

Unlocked == [readers |-> {}, parked |-> {}, writer |-> NoOne]

\* The goroutine's RLock call has returned.
HoldsRead(m, p) == p \in m.readers

\* The goroutine's Lock call has returned: it announced itself and the
\* readers it found inside have left.
HoldsWrite(m, p) == m.writer = p /\ m.readers = {}

RLock(m, p) == IF m.writer = NoOne
               THEN [m EXCEPT !.readers = @ \cup {p}]
               ELSE [m EXCEPT !.parked = @ \cup {p}]

RUnlock(m, p) == [m EXCEPT !.readers = @ \ {p}]

\* Only one writer at a time may be past the announcement.
CanAnnounce(m) == m.writer = NoOne

Announce(m, p) == [m EXCEPT !.writer = p]

Unlock(m) == [m EXCEPT !.writer  = NoOne,
                       !.readers = m.readers \cup m.parked,
                       !.parked  = {}]
=============================================================================
