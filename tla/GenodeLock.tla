----------------------------- MODULE GenodeLock -----------------------------
(* Locks and condition variables on Genode (lib/genode_cpp/syslocks.h): a    *)
(* SysLock is made of two mutexes and a flag, a SysCond of a semaphore.  A    *)
(* step is what a thread does between two accesses to what threads share.    *)
EXTENDS Integers, Sequences

CONSTANTS
  Threads,
  NoThread,
  MaxTokens     \* bound: signals that the semaphore remembers

ASSUME GenodeAssumption == NoThread \notin Threads /\ MaxTokens \in Nat

VARIABLES
  mutex_a,      \* the thread inside a section that a Guard of _mutex_a protects
  mutex_b,      \* the thread that has acquired _mutex_b: the owner of the lock
  locked,       \* _locked
  tokens,       \* the count of _semaphore when it is positive
  sleepers,     \* the threads blocked in _semaphore.down, first come first served
  inWait,       \* the threads inside waitSysCond
  tried,        \* thread -> what its last tryAcquireSys returns, once that is decided
  pc

sysLock == <<mutex_a, mutex_b, locked>>
sysCond == <<tokens, sleepers>>
vars == <<sysLock, sysCond, inWait, tried, pc>>

\* Where a thread can be.  In "acqInner" it has the guard and waits for _mutex_b.
Guarded == {"acqMark", "acqInner", "acqLeave", "tryCheck", "tryInner", "tryWon", "tryLost",
            "relMark", "relInner", "relLeave"}
Owning == {"acqLeave", "tryWon", "owns", "relGuard", "relMark", "relInner"}
Places == Guarded \cup Owning \cup {"out", "acqGuard", "tryGuard", "down", "asleep"}

\* A lock in static storage: nothing else sets _locked to false before its first use.
Init ==
  /\ mutex_a = NoThread /\ mutex_b = NoThread /\ locked = FALSE
  /\ tokens = 0 /\ sleepers = <<>>
  /\ inWait = {} /\ tried = [t \in Threads |-> FALSE]
  /\ pc = [t \in Threads |-> "out"]

Goto(t, from, to) == pc[t] = from /\ pc' = [pc EXCEPT ![t] = to]

\* Guard guard(_mutex_a) and its destructor.
EnterGuard(t) == mutex_a = NoThread /\ mutex_a' = t
LeaveGuard(t) == mutex_a' = NoThread

----------------------------------------------------------------------------
\* acquireSys
CallAcquire(t) == Goto(t, "out", "acqGuard") /\ UNCHANGED <<sysLock, sysCond, inWait, tried>>

AcquireGuard(t) ==
  /\ Goto(t, "acqGuard", "acqMark")
  /\ EnterGuard(t)
  /\ UNCHANGED <<mutex_b, locked, sysCond, inWait, tried>>

\* A plausible mistake: the flag is set after the inner mutex.
MarkForgotten(t) ==
  /\ Goto(t, "acqMark", "acqInner")
  /\ UNCHANGED <<sysLock, sysCond, inWait, tried>>

AcquireMark(t) ==
  /\ Goto(t, "acqMark", "acqInner")
  /\ locked' = TRUE
  /\ UNCHANGED <<mutex_a, mutex_b, sysCond, inWait, tried>>

AcquireInner(t) ==
  /\ Goto(t, "acqInner", "acqLeave")
  /\ mutex_b = NoThread /\ mutex_b' = t
  /\ UNCHANGED <<mutex_a, locked, sysCond, inWait, tried>>

AcquireLeave(t) ==
  /\ Goto(t, "acqLeave", "owns")
  /\ LeaveGuard(t)
  /\ inWait' = inWait \ {t}
  /\ UNCHANGED <<mutex_b, locked, sysCond, tried>>

----------------------------------------------------------------------------
\* tryAcquireSys: a look at _locked without the guard, then a second one under it.
\* The unguarded look is a race on a bool, which a processor reads as a whole.
CallTry(t) ==
  /\ IF locked
     THEN pc[t] = "out" /\ tried' = [tried EXCEPT ![t] = FALSE] /\ UNCHANGED pc
     ELSE Goto(t, "out", "tryGuard") /\ UNCHANGED tried
  /\ UNCHANGED <<sysLock, sysCond, inWait>>

TryGuard(t) ==
  /\ Goto(t, "tryGuard", "tryCheck")
  /\ EnterGuard(t)
  /\ UNCHANGED <<mutex_b, locked, sysCond, inWait, tried>>

\* A plausible mistake: the first look is trusted.
TrustsFirstLook(t) ==
  /\ Goto(t, "tryCheck", "tryInner")
  /\ locked' = TRUE
  /\ tried' = [tried EXCEPT ![t] = TRUE]
  /\ UNCHANGED <<mutex_a, mutex_b, sysCond, inWait>>

TryCheck(t) ==
  /\ IF locked
     THEN Goto(t, "tryCheck", "tryLost") /\ tried' = [tried EXCEPT ![t] = FALSE] /\ UNCHANGED locked
     ELSE Goto(t, "tryCheck", "tryInner") /\ tried' = [tried EXCEPT ![t] = TRUE] /\ locked' = TRUE
  /\ UNCHANGED <<mutex_a, mutex_b, sysCond, inWait>>

TryInner(t) ==
  /\ Goto(t, "tryInner", "tryWon")
  /\ mutex_b = NoThread /\ mutex_b' = t
  /\ UNCHANGED <<mutex_a, locked, sysCond, inWait, tried>>

TryLeave(t) ==
  /\ Goto(t, "tryWon", "owns") \/ Goto(t, "tryLost", "out")
  /\ LeaveGuard(t)
  /\ UNCHANGED <<mutex_b, locked, sysCond, inWait, tried>>

----------------------------------------------------------------------------
\* releaseSys
CallRelease(t) == Goto(t, "owns", "relGuard") /\ UNCHANGED <<sysLock, sysCond, inWait, tried>>

ReleaseGuard(t) ==
  /\ Goto(t, "relGuard", "relMark")
  /\ EnterGuard(t)
  /\ UNCHANGED <<mutex_b, locked, sysCond, inWait, tried>>

\* A plausible mistake: the flag stays set.
FlagStays(t) ==
  /\ Goto(t, "relMark", "relInner")
  /\ UNCHANGED <<sysLock, sysCond, inWait, tried>>

ReleaseMark(t) ==
  /\ Goto(t, "relMark", "relInner")
  /\ locked' = FALSE
  /\ UNCHANGED <<mutex_a, mutex_b, sysCond, inWait, tried>>

ReleaseInner(t) ==
  /\ Goto(t, "relInner", "relLeave")
  /\ mutex_b' = NoThread
  /\ UNCHANGED <<mutex_a, locked, sysCond, inWait, tried>>

ReleaseLeave(t) ==
  /\ Goto(t, "relLeave", IF t \in inWait THEN "down" ELSE "out")
  /\ LeaveGuard(t)
  /\ UNCHANGED <<mutex_b, locked, sysCond, inWait, tried>>

----------------------------------------------------------------------------
\* waitSysCond: releaseSys, _semaphore.down, acquireSys.
CallWait(t) ==
  /\ Goto(t, "owns", "relGuard")
  /\ inWait' = inWait \cup {t}
  /\ UNCHANGED <<sysLock, sysCond, tried>>

Down(t) ==
  /\ IF tokens > 0
     THEN Goto(t, "down", "acqGuard") /\ tokens' = tokens - 1 /\ UNCHANGED sleepers
     ELSE Goto(t, "down", "asleep") /\ sleepers' = Append(sleepers, t) /\ UNCHANGED tokens
  /\ UNCHANGED <<sysLock, inWait, tried>>

\* _semaphore.up wakes the first sleeper or is remembered.
Up ==
  IF sleepers = <<>>
  THEN tokens < MaxTokens /\ tokens' = tokens + 1 /\ UNCHANGED <<sleepers, pc>>
  ELSE /\ sleepers' = Tail(sleepers)
       /\ pc' = [pc EXCEPT ![Head(sleepers)] = "acqGuard"]
       /\ UNCHANGED tokens

signalSysCond(t) == pc[t] \in {"out", "owns"} /\ Up /\ UNCHANGED <<sysLock, inWait, tried>>

broadcastSysCond(t) == pc[t] \in {"out", "owns"} /\ Up /\ UNCHANGED <<sysLock, inWait, tried>>

----------------------------------------------------------------------------
\* What a thread does inside a call.
Inside(t) ==
  \/ AcquireMark(t) \/ AcquireLeave(t)
  \/ TryCheck(t) \/ TryLeave(t)
  \/ ReleaseMark(t) \/ ReleaseInner(t) \/ ReleaseLeave(t)
  \/ Down(t)

\* Where a mutex makes it wait.
AtMutex(t) == AcquireGuard(t) \/ AcquireInner(t) \/ TryGuard(t) \/ TryInner(t) \/ ReleaseGuard(t)

Calls(t) ==
  \/ CallAcquire(t) \/ CallTry(t) \/ CallRelease(t) \/ CallWait(t)
  \/ signalSysCond(t) \/ broadcastSysCond(t)

Next == \E t \in Threads : Calls(t) \/ Inside(t) \/ AtMutex(t)

Spec == Init /\ [][Next]_vars

\* A thread goes on inside a call, and at a mutex that is free again and again it gets
\* its turn; nobody need call anything.
FairSpec == Spec /\ \A t \in Threads : WF_vars(Inside(t)) /\ SF_vars(AtMutex(t))

----------------------------------------------------------------------------
TypeOK ==
  /\ mutex_a \in Threads \cup {NoThread} /\ mutex_b \in Threads \cup {NoThread}
  /\ locked \in BOOLEAN
  /\ tokens \in 0 .. MaxTokens /\ sleepers \in Seq(Threads)
  /\ inWait \in SUBSET Threads /\ tried \in [Threads -> BOOLEAN]
  /\ pc \in [Threads -> Places]

\* When no thread is in a guarded section, _locked says whether the lock has an
\* owner; tryAcquireSys decides by it (syslocks.h 37-44).
LockedTruthful == mutex_a = NoThread => (locked <=> mutex_b # NoThread)

\* Once its second look has found the lock free, tryAcquireSys takes it at once: the
\* flag was not cleared by one who still has _mutex_b (42-46, 53-55).  Before that it may
\* wait for the guard like everybody else, and longer than anybody wants: see TryReturns.
TryTakesAtOnce == \A t \in Threads : pc[t] = "tryInner" => mutex_b = NoThread

\* What the documentation of release and tryAcquire says of them (lib/core/locks.nim
\* 44-45, 53-54), and what a lock is for: who has it can give it up, and who only tries
\* for it gets an answer, whatever other threads call.
ReleaseReturns == \A t \in Threads : pc[t] = "relGuard" ~> pc[t] # "relGuard"
TryReturns == \A t \in Threads : pc[t] = "tryGuard" ~> pc[t] # "tryGuard"
NobodyStuckAtGuard == ReleaseReturns /\ TryReturns

\* The lock of locks.nim: the thread that has _mutex_b or is sure to get it owns it.
Heirs == {t \in Threads : pc[t] \in {"acqInner", "tryInner"}}
Owner ==
  IF mutex_b # NoThread THEN mutex_b
  ELSE IF Heirs # {} THEN CHOOSE t \in Heirs : TRUE ELSE NoThread

Abstract == INSTANCE MonitorLock WITH owner <- Owner, waiting <- {t \in inWait : t # Owner}

\* SysLock and SysCond are a lock and a condition variable as locks.nim describes them,
\* as far as the order of what they grant is concerned.
RefinesMonitor == Abstract!Spec
=============================================================================
