-------------------------- MODULE GenodeLockProofs --------------------------
(* Theorems about GenodeLock, for any set of threads: what _locked says, and *)
(* that the two mutexes and the flag implement MonitorLock.  The argument:   *)
(* the guard orders every change of the flag, and a thread that waits for    *)
(* _mutex_b inside the guard keeps out whoever could change the flag again.  *)
EXTENDS GenodeLock, TLAPS

\* The types that the proofs need; the condition variable's queue is not among them.
Types ==
  /\ mutex_a \in Threads \cup {NoThread} /\ mutex_b \in Threads \cup {NoThread}
  /\ locked \in BOOLEAN
  /\ inWait \in SUBSET Threads /\ tried \in [Threads -> BOOLEAN]
  /\ pc \in [Threads -> Places]

\* The sleepers are threads, each in its place once, so that waking one moves it, and
\* nobody sleeps beside a count.
QueueOK ==
  /\ sleepers # <<>> => tokens = 0
  /\ \A t \in Threads : pc[t] = "asleep" <=> \E i \in DOMAIN sleepers : sleepers[i] = t
  /\ \A i, j \in DOMAIN sleepers : sleepers[i] = sleepers[j] => i = j

SleepersOK == sleepers \in Seq(Threads) /\ tokens \in 0 .. MaxTokens /\ QueueOK

\* Who is between which two lines has which mutex.
MutexesOK ==
  \A t \in Threads :
    /\ mutex_a = t <=> pc[t] \in Guarded
    /\ mutex_b = t <=> pc[t] \in Owning

\* What _locked is at each line of a guarded section, and while a thread owns the lock.
FlagOK ==
  \A t \in Threads :
    /\ pc[t] \in {"acqInner", "acqLeave", "tryInner", "tryWon", "tryLost"} => locked
    /\ pc[t] = "relInner" => ~locked
    /\ pc[t] \in Owning /\ pc[t] # "relInner" => locked

\* The flag is set for an owner, or for a thread that waits inside the guard to be one;
\* a try that has looked under the guard finds _mutex_b free.
FlagHasReason ==
  /\ locked => mutex_b # NoThread \/ \E t \in Threads : pc[t] \in {"acqInner", "tryInner"}
  /\ \A t \in Threads : pc[t] = "tryInner" => mutex_b = NoThread

\* Who waits on the condition variable is on its way there or back.
WaitersOK ==
  \A t \in Threads :
    /\ pc[t] \in {"down", "asleep"} => t \in inWait
    /\ t \in inWait => pc[t] \notin {"out", "owns", "tryGuard", "tryCheck", "tryInner", "tryWon", "tryLost"}

IInv == Types /\ SleepersOK /\ MutexesOK /\ FlagOK /\ FlagHasReason /\ WaitersOK

----------------------------------------------------------------------------
USE GenodeAssumption

LEMMA InitEstablishes == Init => IInv
<1> SUFFICES ASSUME Init PROVE IInv
  OBVIOUS
<1>1. Types /\ MutexesOK /\ FlagOK /\ FlagHasReason /\ WaitersOK
  BY DEF Init, Types, MutexesOK, FlagOK, FlagHasReason, WaitersOK, Guarded, Owning, Places
<1>2. SleepersOK
  BY DEF Init, SleepersOK, QueueOK
<1> QED
  BY <1>1, <1>2 DEF IInv

\* A step that moves one thread and leaves the condition variable alone.
LEMMA QuietKeepsSleepers ==
  ASSUME Types, SleepersOK, NEW t \in Threads, NEW p \in Places, pc[t] # "asleep", p # "asleep",
         pc' = [pc EXCEPT ![t] = p] \/ UNCHANGED pc, UNCHANGED sysCond
  PROVE  SleepersOK'
<1>1. \A u \in Threads : pc'[u] = "asleep" <=> pc[u] = "asleep"
  BY DEF Types
<1> QED
  BY <1>1 DEF SleepersOK, QueueOK, sysCond

\* acquireSys, call to return.
LEMMA AcquireKeeps ==
  ASSUME IInv, NEW t \in Threads,
         CallAcquire(t) \/ AcquireGuard(t) \/ AcquireMark(t) \/ AcquireInner(t) \/ AcquireLeave(t)
  PROVE  IInv'
<1> USE DEF IInv, EnterGuard, LeaveGuard, Goto, sysLock, sysCond,
        CallAcquire, AcquireGuard, AcquireMark, AcquireInner, AcquireLeave
<1>1. Types'
  BY DEF Types, Guarded, Owning, Places
<1>2. MutexesOK'
  BY DEF Types, MutexesOK, Guarded, Owning, Places
<1>3. FlagOK'
  BY DEF Types, MutexesOK, FlagOK, Guarded, Owning, Places
<1>4. FlagHasReason'
  BY DEF Types, MutexesOK, FlagOK, FlagHasReason, Guarded, Owning, Places
<1>5. WaitersOK'
  BY DEF Types, WaitersOK, Guarded, Owning, Places
<1>6. SleepersOK'
  BY QuietKeepsSleepers DEF Types, Places, Guarded, Owning
<1> QED
  BY <1>1, <1>2, <1>3, <1>4, <1>5, <1>6

\* tryAcquireSys.
LEMMA TryKeeps ==
  ASSUME IInv, NEW t \in Threads,
         CallTry(t) \/ TryGuard(t) \/ TryCheck(t) \/ TryInner(t) \/ TryLeave(t)
  PROVE  IInv'
<1> USE DEF IInv, EnterGuard, LeaveGuard, Goto, sysLock, sysCond,
        CallTry, TryGuard, TryCheck, TryInner, TryLeave
<1>1. Types'
  BY DEF Types, Guarded, Owning, Places
<1>2. MutexesOK'
  BY DEF Types, MutexesOK, Guarded, Owning, Places
<1>3. FlagOK'
  BY DEF Types, MutexesOK, FlagOK, Guarded, Owning, Places
<1>4. FlagHasReason'
  BY DEF Types, MutexesOK, FlagOK, FlagHasReason, Guarded, Owning, Places
<1>5. WaitersOK'
  BY DEF Types, WaitersOK, Guarded, Owning, Places
<1>6. SleepersOK'
  BY QuietKeepsSleepers DEF Types, Places, Guarded, Owning
<1> QED
  BY <1>1, <1>2, <1>3, <1>4, <1>5, <1>6

\* releaseSys, called on its own or by waitSysCond.
LEMMA ReleaseKeeps ==
  ASSUME IInv, NEW t \in Threads,
         CallRelease(t) \/ CallWait(t) \/ ReleaseGuard(t) \/ ReleaseMark(t) \/ ReleaseInner(t) \/ ReleaseLeave(t)
  PROVE  IInv'
<1> USE DEF IInv, EnterGuard, LeaveGuard, Goto, sysLock, sysCond,
        CallRelease, CallWait, ReleaseGuard, ReleaseMark, ReleaseInner, ReleaseLeave
<1>1. Types'
  BY DEF Types, Guarded, Owning, Places
<1>2. MutexesOK'
  BY DEF Types, MutexesOK, Guarded, Owning, Places
<1>3. FlagOK'
  BY DEF Types, MutexesOK, FlagOK, Guarded, Owning, Places
<1>4. FlagHasReason'
  BY DEF Types, MutexesOK, FlagOK, FlagHasReason, Guarded, Owning, Places
<1>5. WaitersOK'
  BY DEF Types, WaitersOK, Guarded, Owning, Places
<1>6. SleepersOK'
  BY QuietKeepsSleepers DEF Types, Places, Guarded, Owning
<1> QED
  BY <1>1, <1>2, <1>3, <1>4, <1>5, <1>6

\* down takes a token, or queues the thread when there is none.
LEMMA DownKeeps == ASSUME IInv, NEW t \in Threads, Down(t) PROVE IInv'
<1> USE DEF IInv, Goto, sysLock, Down
<1>1. Types'
  BY DEF Types, Places
<1>2. MutexesOK' /\ FlagOK'
  BY DEF Types, MutexesOK, FlagOK, Guarded, Owning
<1>3. FlagHasReason' /\ WaitersOK'
  BY DEF Types, FlagHasReason, WaitersOK, SleepersOK, QueueOK
<1>4. SleepersOK'
  <2>1. CASE tokens > 0
    BY <2>1 DEF Types, SleepersOK, QueueOK
  <2>2. CASE ~ tokens > 0
    <3>1. /\ sleepers' = Append(sleepers, t) /\ sleepers' \in Seq(Threads)
          /\ tokens = 0 /\ tokens' = 0 /\ pc' = [pc EXCEPT ![t] = "asleep"]
      BY <2>2 DEF SleepersOK
    <3>2. \A i \in DOMAIN sleepers : sleepers[i] # t
      BY DEF SleepersOK, QueueOK
    <3>3. DOMAIN sleepers = 1 .. Len(sleepers) /\ DOMAIN sleepers' = 1 .. Len(sleepers) + 1
      BY <3>1 DEF SleepersOK
    <3>4. /\ sleepers'[Len(sleepers) + 1] = t
          /\ \A i \in DOMAIN sleepers : i \in DOMAIN sleepers' /\ sleepers'[i] = sleepers[i]
      BY <3>1, <3>3 DEF SleepersOK
    <3>5. \A i \in DOMAIN sleepers' : i \in DOMAIN sleepers \/ i = Len(sleepers) + 1
      BY <3>3 DEF SleepersOK
    <3>6. \A i, j \in DOMAIN sleepers' : sleepers'[i] = sleepers'[j] => i = j
      BY <3>2, <3>4, <3>5 DEF SleepersOK, QueueOK
    <3>7. \A u \in Threads : pc'[u] = "asleep" <=> \E i \in DOMAIN sleepers' : sleepers'[i] = u
      BY <3>1, <3>3, <3>4, <3>5 DEF SleepersOK, QueueOK, Types
    <3> QED
      BY <3>1, <3>6, <3>7 DEF SleepersOK, QueueOK
  <2> QED
    BY <2>1, <2>2
<1> QED
  BY <1>1, <1>2, <1>3, <1>4

\* up wakes the first sleeper, who was asleep and nowhere else, or leaves a token.
LEMMA UpKeeps == ASSUME IInv, Up, UNCHANGED <<sysLock, inWait, tried>> PROVE IInv'
<1> USE DEF IInv, sysLock
<1>1. CASE sleepers = <<>>
  <2>1. SleepersOK'
    BY <1>1 DEF Up, SleepersOK, QueueOK
  <2> QED
    BY <1>1, <2>1 DEF Up, Types, MutexesOK, FlagOK, FlagHasReason, WaitersOK
<1>2. CASE sleepers # <<>>
  <2> DEFINE w == Head(sleepers)
  <2>1. /\ w \in Threads /\ w = sleepers[1] /\ 1 \in DOMAIN sleepers
        /\ sleepers' = Tail(sleepers) /\ tokens' = tokens
        /\ pc' = [pc EXCEPT ![w] = "acqGuard"]
    BY <1>2 DEF Up, SleepersOK
  <2>2. pc[w] = "asleep"
    BY <2>1 DEF SleepersOK, QueueOK
  <2>3. Types'
    BY <2>1 DEF Types, Places
  <2>4. MutexesOK' /\ FlagOK'
    BY <2>1, <2>2 DEF Types, MutexesOK, FlagOK, Guarded, Owning
  <2>5. FlagHasReason' /\ WaitersOK'
    BY <2>1, <2>2 DEF Types, FlagHasReason, WaitersOK
  <2>6. SleepersOK'
    <3>1. \A i \in DOMAIN sleepers' : i + 1 \in DOMAIN sleepers /\ sleepers'[i] = sleepers[i + 1]
      BY <1>2, <2>1 DEF SleepersOK
    <3>2. \A j \in DOMAIN sleepers : j = 1 \/ (j - 1 \in DOMAIN sleepers' /\ sleepers'[j - 1] = sleepers[j])
      BY <1>2, <2>1 DEF SleepersOK
    <3>3. sleepers' \in Seq(Threads) /\ tokens' = 0
      BY <1>2, <2>1 DEF SleepersOK, QueueOK
    <3>4. \A u \in Threads : pc'[u] = "asleep" => \E i \in DOMAIN sleepers' : sleepers'[i] = u
      <4> SUFFICES ASSUME NEW u \in Threads, pc'[u] = "asleep"
                   PROVE  \E i \in DOMAIN sleepers' : sleepers'[i] = u
        OBVIOUS
      <4>1. u # w /\ pc[u] = "asleep"
        BY <2>1 DEF Types
      <4>2. PICK j \in DOMAIN sleepers : sleepers[j] = u
        BY <4>1 DEF SleepersOK, QueueOK
      <4> QED
        BY <4>1, <4>2, <2>1, <3>2
    <3>5. \A i \in DOMAIN sleepers' : pc'[sleepers'[i]] = "asleep"
      <4> SUFFICES ASSUME NEW i \in DOMAIN sleepers' PROVE pc'[sleepers'[i]] = "asleep"
        OBVIOUS
      <4>1. i \in Nat \ {0} /\ i + 1 \in DOMAIN sleepers /\ sleepers'[i] = sleepers[i + 1]
        BY <3>1, <3>3
      <4>2. sleepers[i + 1] # w /\ sleepers[i + 1] \in Threads
        BY <4>1, <2>1 DEF SleepersOK, QueueOK
      <4> QED
        BY <4>1, <4>2, <2>1 DEF SleepersOK, QueueOK, Types
    <3>6. \A i, j \in DOMAIN sleepers' : sleepers'[i] = sleepers'[j] => i = j
      BY <3>1, <3>3 DEF SleepersOK, QueueOK
    <3> QED
      BY <3>3, <3>4, <3>5, <3>6, <2>1 DEF SleepersOK, QueueOK
  <2> QED
    BY <2>3, <2>4, <2>5, <2>6
<1> QED
  BY <1>1, <1>2

LEMMA StepKeeps == IInv /\ [Next]_vars => IInv'
<1> SUFFICES ASSUME IInv, [Next]_vars PROVE IInv'
  OBVIOUS
<1>1. CASE UNCHANGED vars
  BY <1>1 DEF vars, sysLock, sysCond, IInv, Types, SleepersOK, QueueOK, MutexesOK,
              FlagOK, FlagHasReason, WaitersOK
<1>2. ASSUME NEW t \in Threads, Calls(t) \/ Inside(t) \/ AtMutex(t) PROVE IInv'
  BY <1>2, AcquireKeeps, TryKeeps, ReleaseKeeps, DownKeeps, UpKeeps
     DEF Calls, Inside, AtMutex, signalSysCond, broadcastSysCond
<1> QED
  BY <1>1, <1>2 DEF Next

THEOREM InvariantHolds == Spec => []IInv
  BY InitEstablishes, StepKeeps, PTL DEF Spec

LEMMA InvariantSuffices ==
  ASSUME IInv PROVE LockedTruthful /\ TryTakesAtOnce
<1>1. LockedTruthful
  BY DEF IInv, Types, MutexesOK, FlagOK, FlagHasReason, LockedTruthful, Guarded, Owning
<1> QED
  BY <1>1 DEF IInv, FlagHasReason, TryTakesAtOnce

\* The variables keep their types, the queue of the sleepers and the count included.
THEOREM TypesHold == Spec => []TypeOK
<1>1. ASSUME IInv PROVE TypeOK
  BY <1>1 DEF IInv, Types, SleepersOK, TypeOK
<1> QED
  BY <1>1, InvariantHolds, PTL

\* While nobody is in a guarded section, _locked says whether the lock has an owner
\* (syslocks.h 30-32, 42-45, 53-55).
THEOREM LockedTruthfulHolds == Spec => []LockedTruthful
  BY InvariantHolds, InvariantSuffices, PTL

\* After its second look tryAcquireSys never finds _mutex_b taken (syslocks.h 42-46).  It
\* may wait for the guard before that look, and behind a thread that waits for the owner
\* it waits for ever (WaitForOwnerNeverEnds).
THEOREM TryTakesAtOnceHolds == Spec => []TryTakesAtOnce
  BY InvariantHolds, InvariantSuffices, PTL

\* t is in acquireSys and waits, under the guard, for a lock that u has.
Contended(t, u) == pc[t] = "acqInner" /\ mutex_b = u /\ u # NoThread

\* Such a wait never ends, for t and for everybody else: u cannot release without the
\* guard (syslocks.h 30-32, 53), and every call but signal and broadcast wants it.  This is
\* why ReleaseReturns and TryReturns fail, for any number of threads and any scheduler.
THEOREM WaitForOwnerNeverEnds ==
  Spec => [][\A t, u \in Threads : Contended(t, u) => Contended(t, u)']_vars
<1>1. ASSUME IInv, NEW t \in Threads, NEW u \in Threads, Contended(t, u), [Next]_vars
      PROVE  Contended(t, u)'
  <2> USE <1>1 DEF IInv, Contended
  <2>1. mutex_a = t /\ mutex_b = u /\ t # u /\ pc[u] \in Owning \ Guarded
    BY DEF Types, MutexesOK, Guarded, Owning
  <2>2. CASE UNCHANGED vars
    BY <2>2 DEF vars, sysLock
  <2>3. ASSUME NEW v \in Threads, Inside(v) \/ AtMutex(v) PROVE Contended(t, u)'
    BY <2>1, <2>3 DEF Types, MutexesOK, Guarded, Owning, Inside, AtMutex, AcquireMark, AcquireLeave,
       TryCheck, TryLeave, ReleaseMark, ReleaseInner, ReleaseLeave, Down, AcquireGuard, AcquireInner,
       TryGuard, TryInner, ReleaseGuard, EnterGuard, LeaveGuard, Goto, sysLock
  <2>4. ASSUME NEW v \in Threads, Calls(v) PROVE Contended(t, u)'
    <3>1. CASE Up /\ UNCHANGED sysLock
      <4>1. sleepers # <<>> => Head(sleepers) \in Threads /\ pc[Head(sleepers)] = "asleep"
        BY DEF SleepersOK, QueueOK
      <4> QED
        BY <2>1, <3>1, <4>1 DEF Up, Types, sysLock
    <3> QED
      BY <2>1, <2>4, <3>1 DEF Types, Calls, CallAcquire, CallTry, CallRelease, CallWait,
         signalSysCond, broadcastSysCond, Goto, sysLock
  <2> QED
    BY <2>2, <2>3, <2>4 DEF Next
<1>2. IInv /\ [Next]_vars => [\A t, u \in Threads : Contended(t, u) => Contended(t, u)']_vars
  BY <1>1
<1> QED
  BY <1>2, InvariantHolds, PTL DEF Spec

----------------------------------------------------------------------------
\* At most one thread waits for _mutex_b inside the guard, so Owner is no matter of choice.
LEMMA OwnerIs ==
  ASSUME IInv, NEW t \in Threads
  PROVE  Owner = t <=> mutex_b = t \/ (mutex_b = NoThread /\ pc[t] \in {"acqInner", "tryInner"})
<1>1. \A u, v \in Heirs : u = v
  BY DEF IInv, MutexesOK, Heirs, Guarded
<1> QED
  BY <1>1 DEF Owner, Heirs, IInv, Types

LEMMA OwnerType == IInv => Owner \in Threads \cup {NoThread}
  BY DEF Owner, Heirs, IInv, Types

LEMMA OwnerIsPrimed ==
  ASSUME IInv', NEW t \in Threads
  PROVE  Owner' = t <=> mutex_b' = t \/ (mutex_b' = NoThread /\ pc'[t] \in {"acqInner", "tryInner"})
<1>1. \A u, v \in Heirs' : u = v
  BY DEF IInv, MutexesOK, Heirs, Guarded
<1> QED
  BY <1>1 DEF Owner, Heirs, IInv, Types

LEMMA OwnerTypePrimed == IInv' => Owner' \in Threads \cup {NoThread}
  BY DEF Owner, Heirs, IInv, Types

\* The steps that show: the lock is taken when the flag is set beside a free _mutex_b,
\* given up when _mutex_b is; every other step changes nothing for a user.
LEMMA StepRefines == IInv /\ IInv' /\ [Next]_vars => [Abstract!Next]_(Abstract!vars)
<1> SUFFICES ASSUME IInv, IInv', [Next]_vars PROVE [Abstract!Next]_(Abstract!vars)
  OBVIOUS
<1> DEFINE Waits == {t \in inWait : t # Owner}
           Quiet == Owner' = Owner /\ Waits' = Waits /\ tried' = tried
<1>0. Quiet => [Abstract!Next]_(Abstract!vars)
  BY DEF Abstract!vars
<1> USE OwnerIs, OwnerIsPrimed, OwnerType, OwnerTypePrimed DEF IInv, Types
<1>1. CASE UNCHANGED vars
  <2>1. Quiet
    BY <1>1 DEF vars, sysLock, sysCond, Owner, Heirs
  <2> QED
    BY <2>1, <1>0
<1>2. ASSUME NEW t \in Threads, AcquireMark(t) PROVE [Abstract!Next]_(Abstract!vars)
  <2> USE <1>2 DEF AcquireMark, Goto, sysCond
  <2>1. CASE mutex_b = NoThread
    <3>1. Owner = NoThread /\ Owner' = t
      BY <2>1 DEF MutexesOK, Guarded
    <3>2. CASE t \in inWait
      BY <3>1, <3>2 DEF Abstract!Next, Abstract!Return
    <3>3. CASE t \notin inWait
      BY <3>1, <3>3 DEF Abstract!Next, Abstract!Acquire
    <3> QED
      BY <3>2, <3>3
  <2>2. CASE mutex_b # NoThread
    BY <2>2, <1>0
  <2> QED
    BY <2>1, <2>2
<1>3. ASSUME NEW t \in Threads, TryCheck(t) PROVE [Abstract!Next]_(Abstract!vars)
  <2> USE <1>3 DEF TryCheck, Goto, sysCond
  <2>1. CASE locked
    <3>1. Owner # NoThread /\ Owner # t /\ Owner' = Owner
      BY <2>1 DEF MutexesOK, FlagHasReason, Guarded, Owning
    <3> QED
      BY <2>1, <3>1 DEF Abstract!Next, Abstract!TryFails
  <2>2. CASE ~locked
    <3>1. Owner = NoThread /\ Owner' = t /\ t \notin inWait
      BY <2>2 DEF MutexesOK, FlagHasReason, FlagOK, WaitersOK, Guarded, Owning
    <3> QED
      BY <2>2, <3>1 DEF Abstract!Next, Abstract!TryAcquire
  <2> QED
    BY <2>1, <2>2
<1>4. ASSUME NEW t \in Threads, CallTry(t) PROVE [Abstract!Next]_(Abstract!vars)
  <2> USE <1>4 DEF CallTry, Goto, sysLock, sysCond
  <2>1. CASE locked
    <3>1. Owner # NoThread /\ Owner # t /\ Owner' = Owner
      BY <2>1 DEF MutexesOK, FlagHasReason, Guarded, Owning
    <3> QED
      BY <2>1, <3>1 DEF Abstract!Next, Abstract!TryFails
  <2>2. CASE ~locked
    <3>1. Owner' = Owner
      BY <2>2
    <3> QED
      BY <2>2, <3>1, <1>0
  <2> QED
    BY <2>1, <2>2
<1>5. ASSUME NEW t \in Threads, ReleaseInner(t) PROVE [Abstract!Next]_(Abstract!vars)
  <2> USE <1>5 DEF ReleaseInner, Goto, sysCond
  <2>1. Owner = t /\ Owner' = NoThread
    BY DEF MutexesOK, Guarded, Owning
  <2>2. CASE t \in inWait
    BY <2>1, <2>2 DEF Abstract!Next, Abstract!Wait
  <2>3. CASE t \notin inWait
    BY <2>1, <2>3 DEF Abstract!Next, Abstract!Release
  <2> QED
    BY <2>2, <2>3
<1>6. ASSUME NEW t \in Threads, AcquireLeave(t) \/ CallWait(t) PROVE [Abstract!Next]_(Abstract!vars)
  <2>1. Owner = t /\ Owner' = t
    BY <1>6 DEF AcquireLeave, CallWait, LeaveGuard, Goto, sysLock, sysCond, MutexesOK, Owning
  <2> QED
    BY <1>6, <2>1, <1>0 DEF AcquireLeave, CallWait, Goto, sysLock, sysCond
<1>7. ASSUME NEW t \in Threads, UNCHANGED <<inWait, tried>>,
             \/ CallAcquire(t) \/ AcquireGuard(t) \/ AcquireInner(t)
             \/ TryGuard(t) \/ TryInner(t) \/ TryLeave(t)
             \/ CallRelease(t) \/ ReleaseGuard(t) \/ ReleaseMark(t) \/ ReleaseLeave(t) \/ Down(t)
      PROVE  [Abstract!Next]_(Abstract!vars)
  <2>1. Owner' = Owner
    BY <1>7 DEF CallAcquire, AcquireGuard, AcquireInner, TryGuard, TryInner, TryLeave, CallRelease,
       ReleaseGuard, ReleaseMark, ReleaseLeave, Down, EnterGuard, LeaveGuard, Goto, sysLock, sysCond
  <2> QED
    BY <1>7, <2>1, <1>0
<1>8. ASSUME Up, UNCHANGED <<sysLock, inWait, tried>> PROVE [Abstract!Next]_(Abstract!vars)
  <2>1. sleepers # <<>> => Head(sleepers) \in Threads /\ pc[Head(sleepers)] = "asleep"
    BY DEF SleepersOK, QueueOK
  <2>2. Owner' = Owner
    BY <1>8, <2>1 DEF Up, sysLock
  <2> QED
    BY <1>8, <2>2, <1>0
<1> QED
  BY <1>1, <1>2, <1>3, <1>4, <1>5, <1>6, <1>7, <1>8
     DEF Next, Calls, Inside, AtMutex, signalSysCond, broadcastSysCond, CallAcquire, AcquireGuard,
         AcquireInner, TryGuard, TryInner, TryLeave, CallRelease, ReleaseGuard, ReleaseMark,
         ReleaseLeave, Down

\* SysLock and SysCond are a lock and a condition variable in the order of what they
\* grant: one owner, an honest try, a wait that gives the lock up and has it back.
THEOREM ImplementsMonitor == Spec => RefinesMonitor
<1>1. Init => Abstract!Init
  BY DEF Init, Abstract!Init, Owner, Heirs
<1> QED
  BY <1>1, StepRefines, InvariantHolds, PTL DEF Spec, RefinesMonitor, Abstract!Spec
=============================================================================
