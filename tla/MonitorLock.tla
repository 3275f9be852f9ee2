---------------------------- MODULE MonitorLock ----------------------------
(* What a user of a lock and its condition variable may rely on             *)
(* (lib/core/locks.nim): one owner, a try that fails only while the lock is  *)
(* taken, a wait that gives the lock up as it begins to wait and has it back *)
(* when it returns.  A wait may return without a signal.                     *)
CONSTANTS Threads, NoThread

VARIABLES
  owner,     \* the thread that has the lock
  waiting,   \* the threads inside wait that do not have the lock
  tried      \* thread -> what its last tryAcquire returned

vars == <<owner, waiting, tried>>

Init ==
  /\ owner = NoThread
  /\ waiting = {}
  /\ tried = [t \in Threads |-> FALSE]

Acquire(t) ==
  /\ owner = NoThread /\ t \notin waiting
  /\ owner' = t
  /\ UNCHANGED <<waiting, tried>>

TryAcquire(t) ==
  /\ owner = NoThread /\ t \notin waiting
  /\ owner' = t
  /\ tried' = [tried EXCEPT ![t] = TRUE]
  /\ UNCHANGED waiting

TryFails(t) ==
  /\ owner \notin {t, NoThread}
  /\ tried' = [tried EXCEPT ![t] = FALSE]
  /\ UNCHANGED <<owner, waiting>>

Release(t) ==
  /\ owner = t
  /\ owner' = NoThread
  /\ UNCHANGED <<waiting, tried>>

Wait(t) ==
  /\ owner = t
  /\ owner' = NoThread
  /\ waiting' = waiting \cup {t}
  /\ UNCHANGED tried

Return(t) ==
  /\ owner = NoThread /\ t \in waiting
  /\ owner' = t
  /\ waiting' = waiting \ {t}
  /\ UNCHANGED tried

Next ==
  \E t \in Threads :
    Acquire(t) \/ TryAcquire(t) \/ TryFails(t) \/ Release(t) \/ Wait(t) \/ Return(t)

Spec == Init /\ [][Next]_vars
=============================================================================
