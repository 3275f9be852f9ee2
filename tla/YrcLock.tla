------------------------------ MODULE YrcLock ------------------------------
(* The mutator/collector lock of --mm:yrc (lib/system/seqs_v2.nim 14-90,    *)
(* lib/system/rwlocks.nim): an array of read-write locks, one stripe per     *)
(* group of threads.  A mutator takes its own stripe for reading, a         *)
(* collector takes all stripes for writing.  lockState is a thread local    *)
(* note of what the thread holds; scopes nest, and an inner scope looks at   *)
(* the note to see whether there is anything to acquire or to release.      *)
EXTENDS Integers, Sequences, SequencesExt

CONSTANTS
  Threads,
  NumLockStripes,
  StripeOf,        \* getYrcStripe: thread -> stripe
  MaxDepth,        \* bound: scopes a thread may nest
  Nesters,         \* threads of which a mutator scope may start inside a mutator body
                   \* (an assignment inside a seq operation), and so may a collection
                   \* (a full toDec queue)
  Copiers,         \* threads of which the =copy of a seq may return at its test for
                   \* self-assignment
  NoThread

ASSUME LockAssumption ==
  /\ NumLockStripes \in Nat \ {0}
  /\ StripeOf \in [Threads -> 0 .. NumLockStripes - 1]
  /\ NoThread \notin Threads
  /\ MaxDepth \in Nat /\ Nesters \subseteq Threads /\ Copiers \subseteq Threads

Stripes == 0 .. NumLockStripes - 1

\* YrcLockState
HasNoLock == 0
HasMutatorLock == 1
HasCollectorLock == 2
Collecting == 3
LockStates == HasNoLock .. Collecting

VARIABLES
  lockState,   \* thread local
  readers,     \* stripe -> threads that hold it for reading
  writer,      \* stripe -> the thread that holds it for writing
  pc,          \* "run", or what the thread is doing with the locks
  stripe,      \* the index of the loop over all stripes
  frames       \* the lock scopes the thread is in, innermost last

vars == <<lockState, readers, writer, pc, stripe, frames>>

\* A scope: that of yrcMutatorLock, or that of yrcCollectorLock with its two
\* local variables.
Frames == [kind : {"mutator", "collector"}, prevState : LockStates, hadToAcquire : BOOLEAN]

Mutator == [kind |-> "mutator", prevState |-> HasNoLock, hadToAcquire |-> FALSE]
Collector(prev, had) == [kind |-> "collector", prevState |-> prev, hadToAcquire |-> had]

Init ==
  /\ lockState = [t \in Threads |-> HasNoLock]
  /\ readers = [s \in Stripes |-> {}]
  /\ writer = [s \in Stripes |-> NoThread]
  /\ pc = [t \in Threads |-> "run"]
  /\ stripe = [t \in Threads |-> 0]
  /\ frames = [t \in Threads |-> <<>>]

Innermost(t) == Last(frames[t])
InScope(t, kind) == frames[t] # <<>> /\ Innermost(t).kind = kind
MayEnter(t) ==
  /\ pc[t] = "run" /\ Len(frames[t]) < MaxDepth
  /\ t \in Nesters \/ ~InScope(t, "mutator")

Enter(t, frame) == frames' = [frames EXCEPT ![t] = Append(@, frame)]
Leave(t) == frames' = [frames EXCEPT ![t] = Front(@)]

----------------------------------------------------------------------------
\* The read-write lock, from how rwlocks.nim configures it.

\* A plausible mistake: the lock is left at glibc's default kind.
PrefersReaders(s) == writer[s] = NoThread

\* PTHREAD_RWLOCK_PREFER_WRITER_NONRECURSIVE_NP: no new reader while a writer waits.
MayRead(s) ==
  /\ writer[s] = NoThread
  /\ \A t \in Threads : ~(pc[t] = "write" /\ stripe[t] = s)

MayWrite(s) == writer[s] = NoThread /\ readers[s] = {}

----------------------------------------------------------------------------
MustAcquire(t) == lockState[t] = HasNoLock

\* acquireMutatorLock
EnterMutator(t) ==
  /\ MayEnter(t)
  /\ IF MustAcquire(t)
     THEN pc' = [pc EXCEPT ![t] = "read"] /\ UNCHANGED frames
     ELSE Enter(t, Mutator) /\ UNCHANGED pc
  /\ UNCHANGED <<lockState, readers, writer, stripe>>

AcquireRead(t) ==
  /\ pc[t] = "read" /\ MayRead(StripeOf[t])
  /\ readers' = [readers EXCEPT ![StripeOf[t]] = @ \cup {t}]
  /\ lockState' = [lockState EXCEPT ![t] = HasMutatorLock]
  /\ pc' = [pc EXCEPT ![t] = "run"]
  /\ Enter(t, Mutator)
  /\ UNCHANGED <<writer, stripe>>

\* Plausible mistakes: the note is not updated; nothing is released.
ReleaseKeepsNote(t) ==
  /\ readers' = [readers EXCEPT ![StripeOf[t]] = @ \ {t}]
  /\ UNCHANGED lockState
ReleaseNothing(t) == UNCHANGED <<lockState, readers>>

\* releaseMutatorLock; true to its code it knows of no nesting.
ReleaseMutatorLock(t) ==
  IF lockState[t] = HasMutatorLock
  THEN /\ lockState' = [lockState EXCEPT ![t] = HasNoLock]
       /\ readers' = [readers EXCEPT ![StripeOf[t]] = @ \ {t}]
  ELSE UNCHANGED <<lockState, readers>>

LeaveMutator(t) ==
  /\ pc[t] = "run" /\ InScope(t, "mutator")
  /\ ReleaseMutatorLock(t)
  /\ Leave(t)
  /\ UNCHANGED <<writer, pc, stripe>>

\* =copy of a seq returns between its acquireMutatorLock and its
\* releaseMutatorLock when both sides share their payload.
ReturnEarly(t) ==
  /\ t \in Copiers
  /\ pc[t] = "run" /\ InScope(t, "mutator")
  /\ Leave(t)
  /\ UNCHANGED <<lockState, readers, writer, pc, stripe>>

----------------------------------------------------------------------------
\* A plausible mistake: the last stripe is forgotten.
LastButOne == NumLockStripes - 2

LastStripe == NumLockStripes - 1

\* yrcCollectorLock up to its test of hadToAcquire.
EnterCollector(t) ==
  /\ MayEnter(t)
  /\ ReleaseMutatorLock(t)
  /\ IF lockState'[t] < HasCollectorLock
     THEN /\ pc' = [pc EXCEPT ![t] = "write"]
          /\ stripe' = [stripe EXCEPT ![t] = 0]
          /\ UNCHANGED frames
     ELSE /\ Enter(t, Collector(lockState[t], FALSE))
          /\ UNCHANGED <<pc, stripe>>
  /\ UNCHANGED writer

\* One turn of the acquiring loop; after the last one the body begins.
AcquireWrite(t) ==
  /\ pc[t] = "write" /\ MayWrite(stripe[t])
  /\ writer' = [writer EXCEPT ![stripe[t]] = t]
  /\ IF stripe[t] < LastStripe
     THEN /\ stripe' = [stripe EXCEPT ![t] = @ + 1]
          /\ UNCHANGED <<lockState, pc, frames>>
     ELSE /\ lockState' = [lockState EXCEPT ![t] = HasCollectorLock]
          /\ pc' = [pc EXCEPT ![t] = "run"]
          /\ stripe' = [stripe EXCEPT ![t] = 0]
          /\ Enter(t, Collector(HasNoLock, TRUE))
  /\ UNCHANGED readers

\* collectCyclesBacon marks that the passes run (yrc.nim 370-372).
BeginCollecting(t) ==
  /\ pc[t] = "run" /\ InScope(t, "collector") /\ lockState[t] = HasCollectorLock
  /\ lockState' = [lockState EXCEPT ![t] = Collecting]
  /\ UNCHANGED <<readers, writer, pc, stripe, frames>>

\* The body of yrcCollectorLock ends.
LeaveCollector(t) ==
  /\ pc[t] = "run" /\ InScope(t, "collector")
  /\ IF Innermost(t).hadToAcquire
     THEN pc' = [pc EXCEPT ![t] = "release"] /\ UNCHANGED <<lockState, frames>>
     ELSE /\ lockState' = [lockState EXCEPT ![t] = Innermost(t).prevState]
          /\ Leave(t)
          /\ UNCHANGED pc
  /\ UNCHANGED <<readers, writer, stripe>>

\* One turn of the releasing loop; after the last one lockState = prevState.
ReleaseWrite(t) ==
  /\ pc[t] = "release"
  /\ writer' = [writer EXCEPT ![stripe[t]] = NoThread]
  /\ IF stripe[t] < LastStripe
     THEN /\ stripe' = [stripe EXCEPT ![t] = @ + 1]
          /\ UNCHANGED <<lockState, pc, frames>>
     ELSE /\ lockState' = [lockState EXCEPT ![t] = Innermost(t).prevState]
          /\ pc' = [pc EXCEPT ![t] = "run"]
          /\ stripe' = [stripe EXCEPT ![t] = 0]
          /\ Leave(t)
  /\ UNCHANGED readers

Work(t) ==
  \/ AcquireRead(t) \/ LeaveMutator(t)
  \/ AcquireWrite(t) \/ LeaveCollector(t) \/ ReleaseWrite(t)

Step(t) == EnterMutator(t) \/ EnterCollector(t) \/ ReturnEarly(t) \/ BeginCollecting(t) \/ Work(t)

Next == \E t \in Threads : Step(t)

Spec == Init /\ [][Next]_vars

\* Bodies end and free locks are granted; a thread need not begin an operation.
FairSpec == Spec /\ \A t \in Threads : WF_vars(Work(t))

----------------------------------------------------------------------------
TypeOK ==
  /\ lockState \in [Threads -> LockStates]
  /\ readers \in [Stripes -> SUBSET Threads]
  /\ writer \in [Stripes -> Threads \cup {NoThread}]
  /\ pc \in [Threads -> {"run", "read", "write", "release"}]
  /\ stripe \in [Threads -> Stripes]
  /\ frames \in [Threads -> Seq(Frames)]

\* t is in the body of yrcCollectorLock.
InCollector(t) == pc[t] = "run" /\ lockState[t] \in {HasCollectorLock, Collecting}

\* While one thread is in the body of yrcCollectorLock no other is, and no other
\* holds the mutator lock, whatever stripes the threads map to and however scopes
\* nest (yrc.nim 14-18: the topology is frozen during collection).
FrozenTopology ==
  \A t, u \in Threads :
    t # u /\ InCollector(t) => ~InCollector(u) /\ lockState[u] # HasMutatorLock

\* lockState tells the truth about the read lock.  It would not after an unpaired
\* release, and the next release would unlock a stripe the thread does not hold.
LockStateTruthful ==
  \A t \in Threads, s \in Stripes :
    t \in readers[s] <=> s = StripeOf[t] /\ lockState[t] = HasMutatorLock

\* Every mutator body runs under some lock from its first step to its last, whatever
\* scopes and collections run inside it (yrc.nim 9-12: all topology-changing
\* operations hold the mutator read lock).  seqs_v2.nim does not keep this.
AllBodiesAreLocked ==
  \A t \in Threads : pc[t] = "run" /\ InScope(t, "mutator") => lockState[t] # HasNoLock

\* A thread that is in no scope holds no lock, unless a =copy has leaked it.
Idle(t) == pc[t] = "run" /\ frames[t] = <<>>
IdleHoldsNothing == \A t \in Threads \ Copiers : Idle(t) => lockState[t] = HasNoLock

\* A waiting collector is not kept out by mutators for ever, as long as no =copy
\* leaks its lock.
Leaked == \E t \in Copiers : Idle(t) /\ lockState[t] = HasMutatorLock
CollectionHappens ==
  (\E t \in Threads : pc[t] = "write") ~> Leaked \/ \E t \in Threads : InCollector(t)
=============================================================================
