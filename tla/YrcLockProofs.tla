--------------------------- MODULE YrcLockProofs ---------------------------
(* Safety of the striped lock, for any number of threads and stripes, any    *)
(* assignment of threads to stripes and any nesting of scopes, with or       *)
(* without the early return of the =copy of a seq.                           *)
EXTENDS YrcLock, SequenceTheorems, TLAPS

Holding == {HasCollectorLock, Collecting}

\* A reader and a writer never share a stripe.
Exclusive == \A s \in Stripes : writer[s] # NoThread => readers[s] = {}

\* A thread that waits for a lock has noted that it holds none.
WaitersHoldNone == \A t \in Threads : pc[t] \in {"read", "write"} => lockState[t] = HasNoLock

\* How far a collector has come with the stripes, in its acquiring loop, in its
\* body and in its releasing loop.
StripesHeld ==
  \A t \in Threads, s \in Stripes :
    \/ InCollector(t)
    \/ pc[t] = "write" /\ s < stripe[t]
    \/ pc[t] = "release" /\ s >= stripe[t]
    => writer[s] = t

\* A collector scope is entered holding all stripes and only the outermost one
\* gave them to the thread.
ScopesHeld ==
  \A t \in Threads : \A k \in DOMAIN frames[t] :
    frames[t][k].kind = "collector" =>
      /\ lockState[t] \in Holding
      /\ frames[t][k].hadToAcquire =>
           /\ frames[t][k].prevState = HasNoLock
           /\ \A j \in 1 .. k - 1 : frames[t][j].kind # "collector"
      /\ ~frames[t][k].hadToAcquire => frames[t][k].prevState \in Holding

\* The releasing loop belongs to such an outermost scope.
ReleaseIsOutermost ==
  \A t \in Threads : pc[t] = "release" =>
    InScope(t, "collector") /\ Innermost(t).hadToAcquire

LockInv ==
  /\ TypeOK /\ Exclusive /\ LockStateTruthful /\ WaitersHoldNone
  /\ StripesHeld /\ ScopesHeld /\ ReleaseIsOutermost

----------------------------------------------------------------------------
LEMMA StripeFacts ==
  /\ LastStripe \in Stripes
  /\ \A s \in Stripes : s \in Int /\ 0 <= s /\ s <= LastStripe
  /\ \A s \in Stripes : s < LastStripe => s + 1 \in Stripes
  /\ 0 \in Stripes
  /\ \A t \in Threads : StripeOf[t] \in Stripes
  BY LockAssumption DEF Stripes, LastStripe

LEMMA StateFacts ==
  /\ HasNoLock \in LockStates /\ HasMutatorLock \in LockStates
  /\ Holding \subseteq LockStates
  /\ HasNoLock # HasMutatorLock /\ HasNoLock \notin Holding /\ HasMutatorLock \notin Holding
  /\ HasCollectorLock \in Holding /\ Collecting \in Holding
  /\ \A x \in LockStates : x < HasCollectorLock <=> x \notin Holding
  /\ \A x \in LockStates : x = HasNoLock \/ x = HasMutatorLock \/ x \in Holding
  BY DEF LockStates, HasNoLock, HasMutatorLock, HasCollectorLock, Collecting, Holding

\* The innermost frame and the frames around it.
LEMMA FrontFacts ==
  ASSUME NEW S, NEW q \in Seq(S), q # <<>>
  PROVE  /\ Front(q) \in Seq(S) /\ Last(q) \in S /\ Last(q) = q[Len(q)]
         /\ Len(q) \in DOMAIN q
         /\ DOMAIN Front(q) \subseteq DOMAIN q
         /\ \A k \in DOMAIN Front(q) : Front(q)[k] = q[k] /\ k \in 1 .. Len(q) - 1
         /\ \A k \in DOMAIN Front(q) : k \in Nat /\ 1 .. k - 1 \subseteq DOMAIN Front(q)
<1>1. Len(q) \in Nat /\ Len(q) >= 1 /\ DOMAIN q = 1 .. Len(q)
  BY EmptySeq, LenProperties
<1>2. /\ SubSeq(q, 1, Len(q) - 1) \in Seq(S)
      /\ Len(SubSeq(q, 1, Len(q) - 1)) = Len(q) - 1
      /\ \A k \in 1 .. Len(q) - 1 : SubSeq(q, 1, Len(q) - 1)[k] = q[k]
  BY <1>1, SubSeqProperties
<1>3. q[Len(q)] \in S
  BY <1>1, ElementOfSeq
<1>4. DOMAIN SubSeq(q, 1, Len(q) - 1) = 1 .. Len(q) - 1
  BY <1>2, LenProperties
<1> QED
  BY <1>1, <1>2, <1>3, <1>4 DEF Front, Last

\* The same for the frames of a thread.
LEMMA FrameFacts ==
  \A q \in Seq(Frames) : q # <<>> =>
    /\ Front(q) \in Seq(Frames) /\ Last(q) \in Frames /\ Last(q) = q[Len(q)]
    /\ Len(q) \in DOMAIN q
    /\ DOMAIN Front(q) \subseteq DOMAIN q
    /\ \A k \in DOMAIN Front(q) :
         /\ Front(q)[k] = q[k] /\ k \in 1 .. Len(q) - 1
         /\ k \in Nat /\ 1 .. k - 1 \subseteq DOMAIN Front(q)
  BY FrontFacts

LEMMA PushFacts ==
  ASSUME NEW S, NEW q \in Seq(S), NEW x \in S
  PROVE  /\ Append(q, x) \in Seq(S) /\ Append(q, x) # <<>>
         /\ Last(Append(q, x)) = x
         /\ DOMAIN Append(q, x) = DOMAIN q \cup {Len(q) + 1}
         /\ Append(q, x)[Len(q) + 1] = x
         /\ \A k \in DOMAIN q : Append(q, x)[k] = q[k] /\ k \in Nat /\ 1 .. k - 1 \subseteq DOMAIN q
         /\ 1 .. Len(q) = DOMAIN q /\ Len(q) \in Nat
<1>1. Len(q) \in Nat /\ DOMAIN q = 1 .. Len(q)
  BY LenProperties
<1>2. /\ Append(q, x) \in Seq(S) /\ Len(Append(q, x)) = Len(q) + 1
      /\ \A k \in 1 .. Len(q) : Append(q, x)[k] = q[k]
      /\ Append(q, x)[Len(q) + 1] = x
  BY AppendProperties
<1>3. DOMAIN Append(q, x) = 1 .. Len(q) + 1
  BY <1>2, LenProperties
<1>4. Append(q, x) # <<>>
  BY <1>1, <1>2
<1> QED
  BY <1>1, <1>2, <1>3, <1>4 DEF Last

----------------------------------------------------------------------------
LEMMA LockInvInit == Init => LockInv
<1> SUFFICES ASSUME Init PROVE LockInv
  OBVIOUS
<1> USE StripeFacts, StateFacts, LockAssumption
<1>1. TypeOK
  BY DEF Init, TypeOK
<1>2. Exclusive /\ LockStateTruthful /\ WaitersHoldNone
  BY DEF Init, Exclusive, LockStateTruthful, WaitersHoldNone
<1>3. StripesHeld /\ ReleaseIsOutermost
  BY DEF Init, StripesHeld, ReleaseIsOutermost, InCollector, Holding
<1>4. ScopesHeld
  BY DEF Init, ScopesHeld
<1> QED
  BY <1>1, <1>2, <1>3, <1>4 DEF LockInv

\* releaseMutatorLock leaves the thread without the read lock and the note in order.
LEMMA ReleaseFacts ==
  ASSUME TypeOK, LockStateTruthful, NEW t \in Threads, ReleaseMutatorLock(t)
  PROVE  /\ lockState' \in [Threads -> LockStates]
         /\ readers' \in [Stripes -> SUBSET Threads]
         /\ \A s \in Stripes : readers'[s] \subseteq readers[s]
         /\ \A u \in Threads, s \in Stripes :
              u \in readers'[s] <=> s = StripeOf[u] /\ lockState'[u] = HasMutatorLock
         /\ \A u \in Threads : u # t => lockState'[u] = lockState[u]
         /\ lockState[t] \in Holding => lockState'[t] = lockState[t]
         /\ lockState[t] \notin Holding => lockState'[t] = HasNoLock
<1> USE StripeFacts, StateFacts
<1>1. CASE lockState[t] = HasMutatorLock
  <2>1. /\ lockState' = [lockState EXCEPT ![t] = HasNoLock]
        /\ readers' = [readers EXCEPT ![StripeOf[t]] = @ \ {t}]
    BY <1>1 DEF ReleaseMutatorLock
  <2>2. StripeOf[t] \in Stripes
    OBVIOUS
  <2> QED
    BY <1>1, <2>1, <2>2 DEF TypeOK, LockStateTruthful
<1>2. CASE lockState[t] # HasMutatorLock
  <2>1. lockState' = lockState /\ readers' = readers
    BY <1>2 DEF ReleaseMutatorLock
  <2> QED
    BY <1>2, <2>1 DEF TypeOK, LockStateTruthful
<1> QED
  BY <1>1, <1>2

LEMMA EnterMutatorStep ==
  ASSUME LockInv, NEW t \in Threads, EnterMutator(t)
  PROVE  LockInv'
<1> USE StripeFacts, StateFacts, LockAssumption DEF LockInv
<1>p. /\ frames[t] \in Seq(Frames) /\ Mutator \in Frames
  BY DEF TypeOK, Mutator, Frames
<1>1. TypeOK'
  <2>1. Append(frames[t], Mutator) \in Seq(Frames)
    BY <1>p, PushFacts
  <2> QED
    <3>1. \/ pc' = [pc EXCEPT ![t] = "read"] /\ UNCHANGED frames
          \/ frames' = [frames EXCEPT ![t] = Append(@, Mutator)] /\ UNCHANGED pc
      BY DEF EnterMutator, Enter
    <3>2. UNCHANGED <<lockState, readers, writer, stripe>>
      BY DEF EnterMutator
    <3>3. pc' \in [Threads -> {"run", "read", "write", "release"}]
      BY <3>1 DEF TypeOK
    <3>4. frames' \in [Threads -> Seq(Frames)]
      BY <2>1, <3>1 DEF TypeOK
    <3> QED
      BY <3>2, <3>3, <3>4 DEF TypeOK
<1>2. Exclusive'
  BY DEF Exclusive, EnterMutator, Enter, MustAcquire
<1>3. LockStateTruthful'
  BY DEF LockStateTruthful, TypeOK, EnterMutator, Enter, MustAcquire
<1>4. WaitersHoldNone'
  BY DEF WaitersHoldNone, TypeOK, EnterMutator, Enter, MustAcquire
<1>5. StripesHeld'
  BY DEF StripesHeld, TypeOK, InCollector, MayEnter, EnterMutator, Enter, MustAcquire
<1>6. ScopesHeld'
  <2>1. CASE MustAcquire(t)
    BY <2>1 DEF ScopesHeld, EnterMutator
  <2>2. CASE ~MustAcquire(t)
    <3> DEFINE q == Append(frames[t], Mutator)
    <3>1. /\ q[Len(frames[t]) + 1] = Mutator
          /\ DOMAIN q = DOMAIN frames[t] \cup {Len(frames[t]) + 1}
          /\ \A k \in DOMAIN frames[t] :
               q[k] = frames[t][k] /\ k \in Nat /\ 1 .. k - 1 \subseteq DOMAIN frames[t]
      BY <1>p, PushFacts
    <3>2. frames' = [frames EXCEPT ![t] = q] /\ UNCHANGED lockState
      BY <2>2 DEF EnterMutator, Enter
    <3>3. Mutator.kind # "collector"
      BY DEF Mutator
    <3> HIDE DEF q
    <3> QED
      BY <3>1, <3>2, <3>3 DEF ScopesHeld, TypeOK
  <2> QED
    BY <2>1, <2>2
<1>7. ReleaseIsOutermost'
  BY DEF ReleaseIsOutermost, TypeOK, MayEnter, InScope, Innermost, EnterMutator, Enter, MustAcquire
<1> QED
  BY <1>1, <1>2, <1>3, <1>4, <1>5, <1>6, <1>7

LEMMA AcquireReadStep ==
  ASSUME LockInv, NEW t \in Threads, AcquireRead(t)
  PROVE  LockInv'
<1> USE StripeFacts, StateFacts, LockAssumption DEF LockInv
<1>p. /\ frames[t] \in Seq(Frames) /\ Mutator \in Frames
  BY DEF TypeOK, Mutator, Frames
<1>1. TypeOK'
  BY <1>p, PushFacts DEF TypeOK, AcquireRead, Enter, MayRead
<1>2. Exclusive'
  BY DEF Exclusive, TypeOK, AcquireRead, Enter, MayRead
<1>3. LockStateTruthful'
  BY DEF LockStateTruthful, TypeOK, AcquireRead, Enter, MayRead
<1>4. WaitersHoldNone'
  BY DEF WaitersHoldNone, TypeOK, AcquireRead, Enter, MayRead
<1>5. StripesHeld'
  BY DEF StripesHeld, TypeOK, InCollector, Holding, AcquireRead, Enter, MayRead
<1>6. ScopesHeld'
  BY <1>p, PushFacts DEF ScopesHeld, TypeOK, Mutator, WaitersHoldNone, AcquireRead, Enter
<1>7. ReleaseIsOutermost'
  BY DEF ReleaseIsOutermost, TypeOK, InScope, Innermost, AcquireRead, Enter, MayRead
<1> QED
  BY <1>1, <1>2, <1>3, <1>4, <1>5, <1>6, <1>7

LEMMA LeaveMutatorStep ==
  ASSUME LockInv, NEW t \in Threads, LeaveMutator(t)
  PROVE  LockInv'
<1> USE StripeFacts, StateFacts, LockAssumption DEF LockInv
<1>f. frames[t] \in Seq(Frames) /\ frames[t] # <<>>
  BY DEF TypeOK, InScope, LeaveMutator
<1>r. /\ lockState' \in [Threads -> LockStates]
      /\ readers' \in [Stripes -> SUBSET Threads]
      /\ \A s \in Stripes : readers'[s] \subseteq readers[s]
      /\ \A u \in Threads, s \in Stripes :
           u \in readers'[s] <=> s = StripeOf[u] /\ lockState'[u] = HasMutatorLock
      /\ \A u \in Threads : u # t => lockState'[u] = lockState[u]
      /\ lockState[t] \in Holding => lockState'[t] = lockState[t]
      /\ lockState[t] \notin Holding => lockState'[t] = HasNoLock
  BY ReleaseFacts DEF LeaveMutator
<1>g. /\ frames' = [frames EXCEPT ![t] = Front(@)]
      /\ pc[t] = "run" /\ UNCHANGED <<writer, pc, stripe>>
  BY DEF LeaveMutator, Leave
<1>1. TypeOK'
  <2>1. Front(frames[t]) \in Seq(Frames)
    BY <1>f, FrameFacts
  <2> QED
    BY <2>1, <1>r, <1>g DEF TypeOK
<1>2. Exclusive'
  BY <1>r, <1>g DEF Exclusive
<1>3. LockStateTruthful'
  BY <1>r DEF LockStateTruthful
<1>4. WaitersHoldNone'
  BY <1>r, <1>g DEF WaitersHoldNone, TypeOK
<1>5. StripesHeld'
  BY <1>r, <1>g DEF StripesHeld, InCollector, Holding, HasNoLock, HasCollectorLock, Collecting
<1>6. ScopesHeld'
  <2>1. /\ DOMAIN Front(frames[t]) \subseteq DOMAIN frames[t]
        /\ \A k \in DOMAIN Front(frames[t]) :
             /\ Front(frames[t])[k] = frames[t][k]
             /\ k \in Nat /\ 1 .. k - 1 \subseteq DOMAIN Front(frames[t])
    BY <1>f, FrameFacts
  <2>2. \A u \in Threads : u # t => frames'[u] = frames[u]
    BY <1>g DEF TypeOK
  <2>3. frames'[t] = Front(frames[t])
    BY <1>g DEF TypeOK
  <2> SUFFICES ASSUME NEW u \in Threads, NEW k \in DOMAIN frames'[u],
                      frames'[u][k].kind = "collector"
               PROVE  /\ lockState'[u] \in Holding
                      /\ frames'[u][k].hadToAcquire =>
                           /\ frames'[u][k].prevState = HasNoLock
                           /\ \A j \in 1 .. k - 1 : frames'[u][j].kind # "collector"
                      /\ ~frames'[u][k].hadToAcquire => frames'[u][k].prevState \in Holding
    BY DEF ScopesHeld
  <2>4. CASE u # t
    BY <2>2, <2>4, <1>r DEF ScopesHeld
  <2>5. CASE u = t
    BY <2>1, <2>3, <2>5, <1>r DEF ScopesHeld
  <2> QED
    BY <2>4, <2>5
<1>7. ReleaseIsOutermost'
  BY <1>g DEF ReleaseIsOutermost, TypeOK, InScope, Innermost
<1> QED
  BY <1>1, <1>2, <1>3, <1>4, <1>5, <1>6, <1>7

LEMMA ReturnEarlyStep ==
  ASSUME LockInv, NEW t \in Threads, ReturnEarly(t)
  PROVE  LockInv'
<1> USE StripeFacts, StateFacts, LockAssumption DEF LockInv
<1>f. frames[t] \in Seq(Frames) /\ frames[t] # <<>>
  BY DEF TypeOK, InScope, ReturnEarly
<1>g. frames' = [frames EXCEPT ![t] = Front(@)] /\ UNCHANGED lockState
  BY DEF ReturnEarly, Leave
<1>1. TypeOK'
  BY <1>f, FrontFacts DEF TypeOK, ReturnEarly, Leave
<1>2. Exclusive'
  BY DEF Exclusive, TypeOK, ReturnEarly, Leave
<1>3. LockStateTruthful'
  BY DEF LockStateTruthful, TypeOK, ReturnEarly, Leave
<1>4. WaitersHoldNone'
  BY DEF WaitersHoldNone, TypeOK, ReturnEarly, Leave
<1>5. StripesHeld'
  BY DEF StripesHeld, TypeOK, InCollector, Holding, ReturnEarly, Leave
<1>6. ScopesHeld'
  <2>1. /\ DOMAIN Front(frames[t]) \subseteq DOMAIN frames[t]
        /\ \A k \in DOMAIN Front(frames[t]) :
             /\ Front(frames[t])[k] = frames[t][k]
             /\ k \in Nat /\ 1 .. k - 1 \subseteq DOMAIN Front(frames[t])
    BY <1>f, FrameFacts
  <2>2. \A u \in Threads : u # t => frames'[u] = frames[u]
    BY <1>g DEF TypeOK
  <2>3. frames'[t] = Front(frames[t])
    BY <1>g DEF TypeOK
  <2> SUFFICES ASSUME NEW u \in Threads, NEW k \in DOMAIN frames'[u],
                      frames'[u][k].kind = "collector"
               PROVE  /\ lockState'[u] \in Holding
                      /\ frames'[u][k].hadToAcquire =>
                           /\ frames'[u][k].prevState = HasNoLock
                           /\ \A j \in 1 .. k - 1 : frames'[u][j].kind # "collector"
                      /\ ~frames'[u][k].hadToAcquire => frames'[u][k].prevState \in Holding
    BY DEF ScopesHeld
  <2>4. CASE u # t
    BY <2>2, <2>4, <1>g DEF ScopesHeld
  <2>5. CASE u = t
    BY <2>1, <2>3, <2>5, <1>g DEF ScopesHeld
  <2> QED
    BY <2>4, <2>5
<1>7. ReleaseIsOutermost'
  BY DEF ReleaseIsOutermost, TypeOK, InScope, Innermost, ReturnEarly, Leave
<1> QED
  BY <1>1, <1>2, <1>3, <1>4, <1>5, <1>6, <1>7

LEMMA BeginCollectingStep ==
  ASSUME LockInv, NEW t \in Threads, BeginCollecting(t)
  PROVE  LockInv'
<1> USE StripeFacts, StateFacts, LockAssumption DEF LockInv
<1>1. TypeOK'
  BY DEF TypeOK, BeginCollecting
<1>2. Exclusive'
  BY DEF Exclusive, BeginCollecting
<1>3. LockStateTruthful'
  BY DEF LockStateTruthful, TypeOK, BeginCollecting
<1>4. WaitersHoldNone'
  BY DEF WaitersHoldNone, TypeOK, BeginCollecting
<1>5. StripesHeld'
  BY DEF StripesHeld, TypeOK, InCollector, Holding, BeginCollecting
<1>6. ScopesHeld'
  BY DEF ScopesHeld, TypeOK, BeginCollecting
<1>7. ReleaseIsOutermost'
  BY DEF ReleaseIsOutermost, InScope, Innermost, TypeOK, BeginCollecting
<1> QED
  BY <1>1, <1>2, <1>3, <1>4, <1>5, <1>6, <1>7

LEMMA LeaveCollectorStep ==
  ASSUME LockInv, NEW t \in Threads, LeaveCollector(t)
  PROVE  LockInv'
<1> USE StripeFacts, StateFacts, LockAssumption DEF LockInv
<1>f. frames[t] \in Seq(Frames) /\ frames[t] # <<>>
  BY DEF TypeOK, InScope, LeaveCollector
<1>k. LET f == Innermost(t) IN
        /\ f \in Frames /\ f = frames[t][Len(frames[t])] /\ Len(frames[t]) \in DOMAIN frames[t]
        /\ f.kind = "collector" /\ lockState[t] \in Holding
        /\ ~f.hadToAcquire => f.prevState \in Holding
  <2>1. /\ Last(frames[t]) \in Frames /\ Last(frames[t]) = frames[t][Len(frames[t])]
        /\ Len(frames[t]) \in DOMAIN frames[t]
    BY <1>f, FrameFacts
  <2>2. Last(frames[t]).kind = "collector"
    BY DEF LeaveCollector, InScope, Innermost
  <2> QED
    BY <2>1, <2>2 DEF ScopesHeld, Innermost
<1>c. \/ /\ Innermost(t).hadToAcquire
         /\ pc' = [pc EXCEPT ![t] = "release"] /\ UNCHANGED <<lockState, frames>>
      \/ /\ ~Innermost(t).hadToAcquire
         /\ lockState' = [lockState EXCEPT ![t] = Innermost(t).prevState]
         /\ frames' = [frames EXCEPT ![t] = Front(@)]
         /\ UNCHANGED pc
  BY DEF LeaveCollector, Leave
<1>g. pc[t] = "run" /\ UNCHANGED <<readers, writer, stripe>>
  BY DEF LeaveCollector
<1>h. /\ lockState' \in [Threads -> LockStates] /\ lockState'[t] \in Holding
      /\ \A u \in Threads : u # t => lockState'[u] = lockState[u]
  BY <1>k, <1>c DEF TypeOK, Frames
<1>1. TypeOK'
  <2>1. Front(frames[t]) \in Seq(Frames)
    BY <1>f, FrameFacts
  <2> QED
    <3>1. frames' \in [Threads -> Seq(Frames)]
      BY <2>1, <1>c DEF TypeOK
    <3>2. pc' \in [Threads -> {"run", "read", "write", "release"}]
      BY <1>c DEF TypeOK
    <3> QED
      BY <3>1, <3>2, <1>g, <1>h DEF TypeOK
<1>2. Exclusive'
  BY <1>g DEF Exclusive
<1>3. LockStateTruthful'
  BY <1>g, <1>h, <1>k DEF LockStateTruthful, TypeOK
<1>4. WaitersHoldNone'
  BY <1>c, <1>g, <1>h, <1>k DEF WaitersHoldNone, TypeOK
<1>5. StripesHeld'
  <2>1. \A s \in Stripes : writer[s] = t
    BY <1>g, <1>k DEF StripesHeld, InCollector, Holding
  <2> QED
    BY <2>1, <1>c, <1>g, <1>h DEF StripesHeld, InCollector, TypeOK
<1>6. ScopesHeld'
  <2>1. /\ DOMAIN Front(frames[t]) \subseteq DOMAIN frames[t]
        /\ \A k \in DOMAIN Front(frames[t]) :
             /\ Front(frames[t])[k] = frames[t][k]
             /\ k \in Nat /\ 1 .. k - 1 \subseteq DOMAIN Front(frames[t])
    BY <1>f, FrameFacts
  <2>2. \A u \in Threads : u # t => frames'[u] = frames[u]
    BY <1>c DEF TypeOK
  <2>3. frames'[t] = Front(frames[t]) \/ frames'[t] = frames[t]
    BY <1>c DEF TypeOK
  <2> SUFFICES ASSUME NEW u \in Threads, NEW k \in DOMAIN frames'[u],
                      frames'[u][k].kind = "collector"
               PROVE  /\ lockState'[u] \in Holding
                      /\ frames'[u][k].hadToAcquire =>
                           /\ frames'[u][k].prevState = HasNoLock
                           /\ \A j \in 1 .. k - 1 : frames'[u][j].kind # "collector"
                      /\ ~frames'[u][k].hadToAcquire => frames'[u][k].prevState \in Holding
    BY DEF ScopesHeld
  <2>4. CASE u # t
    BY <2>2, <2>4, <1>h DEF ScopesHeld
  <2>5. CASE u = t
    BY <2>1, <2>3, <2>5, <1>h DEF ScopesHeld
  <2> QED
    BY <2>4, <2>5
<1>7. ReleaseIsOutermost'
  BY <1>c, <1>f, <1>g, <1>k DEF ReleaseIsOutermost, InScope, Innermost, TypeOK
<1> QED
  BY <1>1, <1>2, <1>3, <1>4, <1>5, <1>6, <1>7

LEMMA EnterCollectorStep ==
  ASSUME LockInv, NEW t \in Threads, EnterCollector(t)
  PROVE  LockInv'
<1> USE StripeFacts, StateFacts, LockAssumption DEF LockInv
<1>r. /\ lockState' \in [Threads -> LockStates]
      /\ readers' \in [Stripes -> SUBSET Threads]
      /\ \A s \in Stripes : readers'[s] \subseteq readers[s]
      /\ \A u \in Threads, s \in Stripes :
           u \in readers'[s] <=> s = StripeOf[u] /\ lockState'[u] = HasMutatorLock
      /\ \A u \in Threads : u # t => lockState'[u] = lockState[u]
      /\ lockState[t] \in Holding => lockState'[t] = lockState[t]
      /\ lockState[t] \notin Holding => lockState'[t] = HasNoLock
  BY ReleaseFacts DEF EnterCollector
<1>g. pc[t] = "run" /\ UNCHANGED writer /\ lockState[t] \in LockStates
  BY DEF EnterCollector, MayEnter, TypeOK
<1> DEFINE F == Collector(lockState[t], FALSE)
<1>f. /\ frames[t] \in Seq(Frames) /\ F \in Frames
      /\ F.kind = "collector" /\ ~F.hadToAcquire /\ F.prevState = lockState[t]
  BY <1>g DEF TypeOK, Frames, Collector
<1>c. \/ /\ lockState[t] \notin Holding
         /\ pc' = [pc EXCEPT ![t] = "write"] /\ stripe' = [stripe EXCEPT ![t] = 0]
         /\ UNCHANGED frames
      \/ /\ lockState[t] \in Holding
         /\ frames' = [frames EXCEPT ![t] = Append(@, F)]
         /\ UNCHANGED <<pc, stripe>>
  <2>1. lockState'[t] \in LockStates /\ (lockState'[t] \in Holding <=> lockState[t] \in Holding)
    BY <1>r, <1>g
  <2>2. lockState'[t] < HasCollectorLock <=> lockState[t] \notin Holding
    BY <2>1
  <2>3. CASE lockState[t] \notin Holding
    <3>1. lockState'[t] < HasCollectorLock
      BY <2>2, <2>3
    <3> QED
      BY <3>1, <2>3 DEF EnterCollector
  <2>4. CASE lockState[t] \in Holding
    <3>1. ~(lockState'[t] < HasCollectorLock)
      BY <2>2, <2>4
    <3>2. Enter(t, F) /\ UNCHANGED <<pc, stripe>>
      BY <3>1 DEF EnterCollector
    <3> QED
      BY <3>2, <2>4 DEF Enter
  <2> QED
    BY <2>3, <2>4
<1> HIDE DEF F
<1>1. TypeOK'
  <2>1. Append(frames[t], F) \in Seq(Frames)
    BY <1>f, PushFacts
  <2>2. frames' \in [Threads -> Seq(Frames)]
    BY <2>1, <1>c DEF TypeOK
  <2>3. pc' \in [Threads -> {"run", "read", "write", "release"}]
    <3>1. pc' = pc \/ pc' = [pc EXCEPT ![t] = "write"]
      BY <1>c
    <3> QED
      BY <3>1 DEF TypeOK
  <2>4. stripe' \in [Threads -> Stripes]
    <3>1. stripe' = stripe \/ stripe' = [stripe EXCEPT ![t] = 0]
      BY <1>c
    <3> QED
      BY <3>1 DEF TypeOK
  <2> QED
    BY <2>2, <2>3, <2>4, <1>r, <1>g DEF TypeOK
<1>2. Exclusive'
  BY <1>r, <1>g DEF Exclusive
<1>3. LockStateTruthful'
  BY <1>r DEF LockStateTruthful
<1>4. WaitersHoldNone'
  <2> SUFFICES ASSUME NEW u \in Threads, pc'[u] \in {"read", "write"}
               PROVE  lockState'[u] = HasNoLock
    BY DEF WaitersHoldNone
  <2>1. CASE u # t
    <3>1. pc'[u] = pc[u]
      BY <2>1, <1>c DEF TypeOK
    <3> QED
      BY <2>1, <3>1, <1>r DEF WaitersHoldNone
  <2>2. CASE u = t
    <3>1. lockState[t] \notin Holding
      BY <2>2, <1>c, <1>g
    <3> QED
      BY <2>2, <3>1, <1>r
  <2> QED
    BY <2>1, <2>2
<1>5. StripesHeld'
  BY <1>r, <1>c, <1>g DEF StripesHeld, InCollector, Holding, TypeOK, HasNoLock, HasCollectorLock, Collecting
<1>6. ScopesHeld'
  <2> DEFINE q == Append(frames[t], F)
  <2>1. /\ q[Len(frames[t]) + 1] = F
        /\ DOMAIN q = DOMAIN frames[t] \cup {Len(frames[t]) + 1}
        /\ \A k \in DOMAIN frames[t] :
             q[k] = frames[t][k] /\ k \in Nat /\ 1 .. k - 1 \subseteq DOMAIN frames[t]
        /\ 1 .. Len(frames[t]) = DOMAIN frames[t] /\ Len(frames[t]) \in Nat
    BY <1>f, PushFacts
  <2>2. frames' \in {frames, [frames EXCEPT ![t] = q]}
    BY <1>c
  <2> HIDE DEF q
  <2>3. \A u \in Threads : u # t => frames'[u] = frames[u]
    BY <2>2 DEF TypeOK
  <2>4. frames'[t] \in {frames[t], q}
    BY <2>2 DEF TypeOK
  <2> SUFFICES ASSUME NEW u \in Threads, NEW k \in DOMAIN frames'[u],
                      frames'[u][k].kind = "collector"
               PROVE  /\ lockState'[u] \in Holding
                      /\ frames'[u][k].hadToAcquire =>
                           /\ frames'[u][k].prevState = HasNoLock
                           /\ \A j \in 1 .. k - 1 : frames'[u][j].kind # "collector"
                      /\ ~frames'[u][k].hadToAcquire => frames'[u][k].prevState \in Holding
    BY DEF ScopesHeld
  <2>5. CASE u # t
    BY <2>3, <2>5, <1>r DEF ScopesHeld
  <2>6. CASE u = t /\ lockState[t] \in Holding
    <3>1. CASE k \in DOMAIN frames[t]
      <4>1. frames'[t][k] = frames[t][k] /\ \A j \in 1 .. k - 1 : frames'[t][j] = frames[t][j]
        BY <2>1, <2>4, <3>1
      <4> QED
        BY <4>1, <2>6, <3>1, <1>r DEF ScopesHeld
    <3>2. CASE k \notin DOMAIN frames[t]
      <4>1. frames'[t][k] = F
        BY <2>1, <2>4, <2>6, <3>2
      <4> QED
        BY <4>1, <2>6, <1>r, <1>f
    <3> QED
      BY <3>1, <3>2
  <2>7. CASE u = t /\ lockState[t] \notin Holding
    BY <2>7, <1>c DEF ScopesHeld
  <2> QED
    BY <2>5, <2>6, <2>7
<1>7. ReleaseIsOutermost'
  BY <1>c, <1>g DEF ReleaseIsOutermost, InScope, Innermost, TypeOK
<1> QED
  BY <1>1, <1>2, <1>3, <1>4, <1>5, <1>6, <1>7

LEMMA AcquireWriteStep ==
  ASSUME LockInv, NEW t \in Threads, AcquireWrite(t)
  PROVE  LockInv'
<1> USE StripeFacts, StateFacts, LockAssumption DEF LockInv
<1>g. /\ pc[t] = "write" /\ writer[stripe[t]] = NoThread /\ readers[stripe[t]] = {}
      /\ writer' = [writer EXCEPT ![stripe[t]] = t]
      /\ UNCHANGED readers /\ lockState[t] = HasNoLock
      /\ stripe[t] \in Stripes
  BY DEF AcquireWrite, MayWrite, WaitersHoldNone, TypeOK
<1> DEFINE F == Collector(HasNoLock, TRUE)
<1>f. /\ frames[t] \in Seq(Frames) /\ F \in Frames
      /\ F.kind = "collector" /\ F.hadToAcquire /\ F.prevState = HasNoLock
  BY DEF TypeOK, Frames, Collector
<1>c. \/ /\ stripe[t] < LastStripe
         /\ stripe' = [stripe EXCEPT ![t] = @ + 1]
         /\ UNCHANGED <<lockState, pc, frames>>
      \/ /\ stripe[t] = LastStripe
         /\ lockState' = [lockState EXCEPT ![t] = HasCollectorLock]
         /\ pc' = [pc EXCEPT ![t] = "run"] /\ stripe' = [stripe EXCEPT ![t] = 0]
         /\ frames' = [frames EXCEPT ![t] = Append(@, F)]
  <2>1. stripe[t] < LastStripe \/ (~(stripe[t] < LastStripe) /\ stripe[t] = LastStripe)
    BY <1>g
  <2> QED
    BY <2>1 DEF AcquireWrite, Enter
<1> HIDE DEF F
<1>h. \A u \in Threads : u # t => lockState'[u] = lockState[u] /\ pc'[u] = pc[u] /\ stripe'[u] = stripe[u]
  BY <1>c DEF TypeOK
<1>1. TypeOK'
  <2>1. Append(frames[t], F) \in Seq(Frames)
    BY <1>f, PushFacts
  <2>2. frames' \in [Threads -> Seq(Frames)]
    BY <2>1, <1>c, ZenonT(30) DEF TypeOK
  <2>3. pc' \in [Threads -> {"run", "read", "write", "release"}]
    <3>1. pc' = pc \/ pc' = [pc EXCEPT ![t] = "run"]
      BY <1>c
    <3> QED
      BY <3>1 DEF TypeOK
  <2>4. stripe' \in [Threads -> Stripes]
    <3>1. \/ stripe[t] + 1 \in Stripes /\ stripe' = [stripe EXCEPT ![t] = @ + 1]
          \/ stripe' = [stripe EXCEPT ![t] = 0]
      BY <1>c, <1>g
    <3> QED
      BY <3>1 DEF TypeOK
  <2>5. lockState' \in [Threads -> LockStates]
    <3>1. lockState' = lockState \/ lockState' = [lockState EXCEPT ![t] = HasCollectorLock]
      BY <1>c
    <3> QED
      BY <3>1 DEF TypeOK
  <2>6. writer' \in [Stripes -> Threads \cup {NoThread}] /\ readers' \in [Stripes -> SUBSET Threads]
    BY <1>g DEF TypeOK
  <2> QED
    BY <2>2, <2>3, <2>4, <2>5, <2>6 DEF TypeOK
<1>2. Exclusive'
  BY <1>g DEF Exclusive, TypeOK
<1>3. LockStateTruthful'
  BY <1>g, <1>c DEF LockStateTruthful, TypeOK
<1>4. WaitersHoldNone'
  BY <1>c, <1>g DEF WaitersHoldNone, TypeOK
<1>5. StripesHeld'
  <2> SUFFICES ASSUME NEW u \in Threads, NEW s \in Stripes,
                      \/ InCollector(u)'
                      \/ pc'[u] = "write" /\ s < stripe'[u]
                      \/ pc'[u] = "release" /\ s >= stripe'[u]
               PROVE  writer'[s] = u
    BY DEF StripesHeld
  <2>1. CASE u # t
    <3>1. writer[s] = u
      BY <2>1, <1>h DEF StripesHeld, InCollector
    <3>2. s # stripe[t]
      BY <3>1, <1>g
    <3> QED
      BY <3>1, <3>2, <1>g DEF TypeOK
  <2>2. CASE u = t /\ s = stripe[t]
    BY <2>2, <1>g DEF TypeOK
  <2>3. CASE u = t /\ s # stripe[t]
    <3>1. s < stripe[t]
      BY <2>3, <1>c, <1>g DEF TypeOK, InCollector, Holding, HasNoLock, HasCollectorLock, Collecting
    <3>2. writer[s] = t
      BY <3>1, <1>g DEF StripesHeld
    <3> QED
      BY <2>3, <3>2, <1>g DEF TypeOK
  <2> QED
    BY <2>1, <2>2, <2>3
<1>6. ScopesHeld'
  <2> DEFINE q == Append(frames[t], F)
  <2>1. /\ q[Len(frames[t]) + 1] = F
        /\ DOMAIN q = DOMAIN frames[t] \cup {Len(frames[t]) + 1}
        /\ \A k \in DOMAIN frames[t] :
             q[k] = frames[t][k] /\ k \in Nat /\ 1 .. k - 1 \subseteq DOMAIN frames[t]
        /\ 1 .. Len(frames[t]) = DOMAIN frames[t] /\ Len(frames[t]) \in Nat
    BY <1>f, PushFacts
  <2>2. frames' \in {frames, [frames EXCEPT ![t] = q]}
    BY <1>c
  <2> HIDE DEF q
  <2>3. \A u \in Threads : u # t => frames'[u] = frames[u]
    BY <2>2 DEF TypeOK
  <2>4. frames'[t] \in {frames[t], q}
    BY <2>2 DEF TypeOK
  <2> SUFFICES ASSUME NEW u \in Threads, NEW k \in DOMAIN frames'[u],
                      frames'[u][k].kind = "collector"
               PROVE  /\ lockState'[u] \in Holding
                      /\ frames'[u][k].hadToAcquire =>
                           /\ frames'[u][k].prevState = HasNoLock
                           /\ \A j \in 1 .. k - 1 : frames'[u][j].kind # "collector"
                      /\ ~frames'[u][k].hadToAcquire => frames'[u][k].prevState \in Holding
    BY DEF ScopesHeld
  <2>5. CASE u # t
    BY <2>3, <2>5, <1>h DEF ScopesHeld
  <2>6. \A m \in DOMAIN frames[t] : frames[t][m].kind # "collector"
    BY <1>g DEF ScopesHeld
  <2>7. CASE u = t /\ frames'[t] = frames[t]
    BY <2>6, <2>7
  <2>8. CASE u = t /\ frames'[t] = q /\ frames'[t] # frames[t]
    <3>1. lockState'[t] = HasCollectorLock
      BY <2>8, <1>c DEF TypeOK
    <3>2. k = Len(frames[t]) + 1
      BY <2>1, <2>6, <2>8
    <3>3. \A j \in 1 .. k - 1 : q[j].kind # "collector"
      BY <2>1, <2>6, <3>2
    <3> QED
      BY <2>1, <2>8, <3>1, <3>2, <3>3, <1>f
  <2> QED
    BY <2>4, <2>5, <2>7, <2>8
<1>7. ReleaseIsOutermost'
  BY <1>c, <1>g DEF ReleaseIsOutermost, InScope, Innermost, TypeOK
<1> QED
  BY <1>1, <1>2, <1>3, <1>4, <1>5, <1>6, <1>7

LEMMA ReleaseWriteStep ==
  ASSUME LockInv, NEW t \in Threads, ReleaseWrite(t)
  PROVE  LockInv'
<1> USE StripeFacts, StateFacts, LockAssumption DEF LockInv
<1>g. /\ pc[t] = "release" /\ stripe[t] \in Stripes
      /\ writer' = [writer EXCEPT ![stripe[t]] = NoThread]
      /\ UNCHANGED readers
  BY DEF ReleaseWrite, TypeOK
<1>f. frames[t] \in Seq(Frames) /\ frames[t] # <<>>
  BY <1>g DEF TypeOK, ReleaseIsOutermost, InScope
<1>k. /\ Len(frames[t]) \in DOMAIN frames[t] /\ lockState[t] \in Holding
      /\ Innermost(t).prevState = HasNoLock
      /\ \A j \in DOMAIN Front(frames[t]) : Front(frames[t])[j].kind # "collector"
  <2>1. /\ Last(frames[t]) = frames[t][Len(frames[t])] /\ Len(frames[t]) \in DOMAIN frames[t]
        /\ \A j \in DOMAIN Front(frames[t]) :
             /\ Front(frames[t])[j] = frames[t][j]
             /\ j \in 1 .. Len(frames[t]) - 1
    BY <1>f, FrameFacts
  <2>2. Last(frames[t]).kind = "collector" /\ Last(frames[t]).hadToAcquire
    BY <1>g DEF ReleaseIsOutermost, InScope, Innermost
  <2> QED
    BY <2>1, <2>2 DEF ScopesHeld, Innermost
<1>c. \/ /\ stripe[t] < LastStripe
         /\ stripe' = [stripe EXCEPT ![t] = @ + 1]
         /\ UNCHANGED <<lockState, pc, frames>>
      \/ /\ lockState' = [lockState EXCEPT ![t] = HasNoLock]
         /\ pc' = [pc EXCEPT ![t] = "run"] /\ stripe' = [stripe EXCEPT ![t] = 0]
         /\ frames' = [frames EXCEPT ![t] = Front(@)]
  BY <1>k DEF ReleaseWrite, Leave
<1>h. \A u \in Threads : u # t =>
        /\ lockState'[u] = lockState[u] /\ pc'[u] = pc[u]
        /\ stripe'[u] = stripe[u] /\ frames'[u] = frames[u]
  BY <1>c DEF TypeOK
<1>1. TypeOK'
  <2>1. Front(frames[t]) \in Seq(Frames)
    BY <1>f, FrameFacts
  <2>2. frames' \in [Threads -> Seq(Frames)]
    BY <2>1, <1>c, ZenonT(30) DEF TypeOK
  <2>3. pc' \in [Threads -> {"run", "read", "write", "release"}]
    <3>1. pc' = pc \/ pc' = [pc EXCEPT ![t] = "run"]
      BY <1>c
    <3> QED
      BY <3>1 DEF TypeOK
  <2>4. stripe' \in [Threads -> Stripes]
    <3>1. \/ stripe[t] + 1 \in Stripes /\ stripe' = [stripe EXCEPT ![t] = @ + 1]
          \/ stripe' = [stripe EXCEPT ![t] = 0]
      BY <1>c, <1>g
    <3> QED
      BY <3>1 DEF TypeOK
  <2>5. lockState' \in [Threads -> LockStates]
    <3>1. lockState' = lockState \/ lockState' = [lockState EXCEPT ![t] = HasNoLock]
      BY <1>c
    <3> QED
      BY <3>1 DEF TypeOK
  <2>6. writer' \in [Stripes -> Threads \cup {NoThread}] /\ readers' \in [Stripes -> SUBSET Threads]
    BY <1>g DEF TypeOK
  <2> QED
    BY <2>2, <2>3, <2>4, <2>5, <2>6 DEF TypeOK
<1>2. Exclusive'
  BY <1>g DEF Exclusive, TypeOK
<1>3. LockStateTruthful'
  BY <1>g, <1>c, <1>k DEF LockStateTruthful, TypeOK
<1>4. WaitersHoldNone'
  BY <1>c, <1>g DEF WaitersHoldNone, TypeOK
<1>5. StripesHeld'
  <2> SUFFICES ASSUME NEW u \in Threads, NEW s \in Stripes,
                      \/ InCollector(u)'
                      \/ pc'[u] = "write" /\ s < stripe'[u]
                      \/ pc'[u] = "release" /\ s >= stripe'[u]
               PROVE  writer'[s] = u
    BY DEF StripesHeld
  <2>0. writer[stripe[t]] = t
    BY <1>g DEF StripesHeld
  <2>1. CASE u # t
    <3>1. writer[s] = u
      BY <2>1, <1>h DEF StripesHeld, InCollector
    <3>2. s # stripe[t]
      BY <2>0, <2>1, <3>1
    <3> QED
      BY <3>1, <3>2, <1>g DEF TypeOK
  <2>2. CASE u = t
    <3>1. pc'[t] = "release" /\ s > stripe[t]
      BY <2>2, <1>c, <1>g DEF TypeOK, InCollector, Holding, HasNoLock, HasCollectorLock, Collecting
    <3>2. writer[s] = t
      BY <3>1, <1>g DEF StripesHeld
    <3> QED
      BY <2>2, <3>1, <3>2, <1>g DEF TypeOK
  <2> QED
    BY <2>1, <2>2
<1>6. ScopesHeld'
  <2> SUFFICES ASSUME NEW u \in Threads, NEW k \in DOMAIN frames'[u],
                      frames'[u][k].kind = "collector"
               PROVE  /\ lockState'[u] \in Holding
                      /\ frames'[u][k].hadToAcquire =>
                           /\ frames'[u][k].prevState = HasNoLock
                           /\ \A j \in 1 .. k - 1 : frames'[u][j].kind # "collector"
                      /\ ~frames'[u][k].hadToAcquire => frames'[u][k].prevState \in Holding
    BY DEF ScopesHeld
  <2>1. CASE u # t
    BY <2>1, <1>h DEF ScopesHeld
  <2>2. CASE u = t /\ UNCHANGED <<lockState, frames>>
    BY <2>2 DEF ScopesHeld
  <2>3. CASE u = t /\ frames'[t] = Front(frames[t])
    BY <2>3, <1>k
  <2> QED
    BY <2>1, <2>2, <2>3, <1>c DEF TypeOK
<1>7. ReleaseIsOutermost'
  BY <1>c, <1>g DEF ReleaseIsOutermost, InScope, Innermost, TypeOK
<1> QED
  BY <1>1, <1>2, <1>3, <1>4, <1>5, <1>6, <1>7

----------------------------------------------------------------------------
\* No step of a thread, and no stuttering step, breaks the invariant.
LEMMA LockInvStep == LockInv /\ [Next]_vars => LockInv'
<1> SUFFICES ASSUME LockInv, [Next]_vars PROVE LockInv'
  OBVIOUS
<1>1. CASE UNCHANGED vars
  BY <1>1 DEF vars, LockInv, TypeOK, Exclusive, LockStateTruthful, WaitersHoldNone, StripesHeld,
              ScopesHeld, ReleaseIsOutermost, InCollector, InScope, Innermost
<1>2. ASSUME NEW t \in Threads, Step(t) PROVE LockInv'
  <2>1. CASE EnterMutator(t)
    BY <2>1, EnterMutatorStep
  <2>2. CASE EnterCollector(t)
    BY <2>2, EnterCollectorStep
  <2>3. CASE ReturnEarly(t)
    BY <2>3, ReturnEarlyStep
  <2>4. CASE BeginCollecting(t)
    BY <2>4, BeginCollectingStep
  <2>5. CASE AcquireRead(t)
    BY <2>5, AcquireReadStep
  <2>6. CASE LeaveMutator(t)
    BY <2>6, LeaveMutatorStep
  <2>7. CASE AcquireWrite(t)
    BY <2>7, AcquireWriteStep
  <2>8. CASE LeaveCollector(t)
    BY <2>8, LeaveCollectorStep
  <2>9. CASE ReleaseWrite(t)
    BY <2>9, ReleaseWriteStep
  <2> QED
    BY <1>2, <2>1, <2>2, <2>3, <2>4, <2>5, <2>6, <2>7, <2>8, <2>9 DEF Step, Work
<1> QED
  BY <1>1, <1>2 DEF Next

\* All stripes are held by a thread in its collector body: another one there would
\* hold them too, and a mutator's own stripe would have a reader beside its writer.
LEMMA LockInvFreezes == LockInv => FrozenTopology
<1> SUFFICES ASSUME LockInv, NEW t \in Threads, NEW u \in Threads, t # u, InCollector(t)
             PROVE  ~InCollector(u) /\ lockState[u] # HasMutatorLock
  BY DEF FrozenTopology
<1>1. \A s \in Stripes : writer[s] = t
  BY DEF LockInv, StripesHeld
<1>2. ~InCollector(u)
  BY <1>1, StripeFacts DEF LockInv, StripesHeld
<1>3. t # NoThread
  BY LockAssumption
<1>4. readers[StripeOf[u]] = {}
  BY <1>1, <1>3, StripeFacts DEF LockInv, Exclusive
<1>5. lockState[u] # HasMutatorLock
  BY <1>4, StripeFacts DEF LockInv, LockStateTruthful
<1> QED
  BY <1>2, <1>5

\* The topology is frozen during a collection (yrc.nim 14-18), for any number of
\* threads and stripes and any nesting of scopes.
THEOREM FrozenTopologyHolds == Spec => []FrozenTopology
<1>1. Init => LockInv
  BY LockInvInit
<1>2. LockInv /\ [Next]_vars => LockInv'
  BY LockInvStep
<1>3. LockInv => FrozenTopology
  BY LockInvFreezes
<1> QED
  BY <1>1, <1>2, <1>3, PTL DEF Spec

\* lockState is at all times a true note of the read lock (seqs_v2.nim 44-52), so no
\* release unlocks a stripe its thread does not hold.
THEOREM LockStateTruthfulHolds == Spec => []LockStateTruthful
<1>1. Init => LockInv
  BY LockInvInit
<1>2. LockInv /\ [Next]_vars => LockInv'
  BY LockInvStep
<1>3. LockInv => LockStateTruthful
  BY DEF LockInv
<1> QED
  BY <1>1, <1>2, <1>3, PTL DEF Spec

----------------------------------------------------------------------------
Quiet(t) == \A u \in Threads : u # t =>
  frames'[u] = frames[u] /\ pc'[u] = pc[u] /\ lockState'[u] = lockState[u]

\* A thread's step leaves the scopes and notes of the others alone.
LEMMA QuietStep ==
  ASSUME LockInv, NEW t \in Threads, Step(t)
  PROVE  Quiet(t)
<1> USE DEF LockInv, TypeOK, Quiet
<1>1. CASE EnterMutator(t)
  BY <1>1 DEF EnterMutator, Enter
<1>2. CASE AcquireRead(t)
  BY <1>2 DEF AcquireRead, Enter
<1>3. CASE LeaveMutator(t) \/ ReturnEarly(t)
  BY <1>3, ReleaseFacts DEF LeaveMutator, ReturnEarly, Leave
<1>4. CASE EnterCollector(t)
  <2>1. \A u \in Threads : u # t => lockState'[u] = lockState[u]
    BY <1>4, ReleaseFacts DEF EnterCollector
  <2>2. /\ pc' = pc \/ pc' = [pc EXCEPT ![t] = "write"]
        /\ \/ frames' = frames
           \/ frames' = [frames EXCEPT ![t] = Append(@, Collector(lockState[t], FALSE))]
    BY <1>4 DEF EnterCollector, Enter
  <2> QED
    BY <2>1, <2>2
<1>5. CASE AcquireWrite(t)
  BY <1>5 DEF AcquireWrite, Enter
<1>6. CASE BeginCollecting(t) \/ LeaveCollector(t) \/ ReleaseWrite(t)
  BY <1>6 DEF BeginCollecting, LeaveCollector, ReleaseWrite, Leave
<1> QED
  BY <1>1, <1>2, <1>3, <1>4, <1>5, <1>6 DEF Step, Work

\* Of a thread whose =copy does not return early, a noted read lock belongs to its
\* innermost scope, and noted write locks to a collector scope that acquired them.
Acquired(q) == \E k \in DOMAIN q : q[k].kind = "collector" /\ q[k].hadToAcquire

NotesOwned ==
  \A t \in Threads \ Copiers :
    /\ lockState[t] = HasMutatorLock => InScope(t, "mutator")
    /\ lockState[t] \in Holding => Acquired(frames[t])

\* Opening a scope, and closing one that acquired nothing.
LEMMA AcquiredFacts ==
  ASSUME NEW q \in Seq(Frames)
  PROVE  /\ \A x \in Frames : Acquired(q) => Acquired(Append(q, x))
         /\ \A x \in Frames : x.kind = "collector" /\ x.hadToAcquire => Acquired(Append(q, x))
         /\ q # <<>> /\ Acquired(q) /\ ~(Last(q).kind = "collector" /\ Last(q).hadToAcquire)
              => Acquired(Front(q))
<1>1. ASSUME NEW x \in Frames
      PROVE  /\ Acquired(q) => Acquired(Append(q, x))
             /\ x.kind = "collector" /\ x.hadToAcquire => Acquired(Append(q, x))
  <2>1. /\ DOMAIN Append(q, x) = DOMAIN q \cup {Len(q) + 1}
        /\ Append(q, x)[Len(q) + 1] = x
        /\ \A k \in DOMAIN q : Append(q, x)[k] = q[k]
    BY PushFacts
  <2> QED
    BY <2>1 DEF Acquired
<1>2. ASSUME q # <<>>, Acquired(q), ~(Last(q).kind = "collector" /\ Last(q).hadToAcquire)
      PROVE  Acquired(Front(q))
  <2>1. /\ Last(q) = q[Len(q)] /\ Len(q) \in Nat /\ DOMAIN q = 1 .. Len(q)
        /\ \A k \in DOMAIN Front(q) : Front(q)[k] = q[k]
    BY <1>2, FrameFacts, LenProperties
  <2>2. DOMAIN Front(q) = 1 .. Len(q) - 1
    <3>1. Len(q) >= 1
      BY <1>2, <2>1, EmptySeq
    <3>2. SubSeq(q, 1, Len(q) - 1) \in Seq(Frames) /\ Len(SubSeq(q, 1, Len(q) - 1)) = Len(q) - 1
      BY <2>1, <3>1, SubSeqProperties
    <3> QED
      BY <3>2, LenProperties DEF Front
  <2>3. PICK k \in DOMAIN q : q[k].kind = "collector" /\ q[k].hadToAcquire
    BY <1>2 DEF Acquired
  <2>4. k \in DOMAIN Front(q)
    BY <1>2, <2>1, <2>2, <2>3
  <2> QED
    BY <2>1, <2>3, <2>4 DEF Acquired
<1> QED
  BY <1>1, <1>2

LEMMA NotesOwnedStep ==
  ASSUME LockInv, NotesOwned, NEW t \in Threads \ Copiers, Step(t)
  PROVE  /\ lockState'[t] = HasMutatorLock => InScope(t, "mutator")'
         /\ lockState'[t] \in Holding => Acquired(frames'[t])
<1> USE StateFacts DEF LockInv, TypeOK
<1>q. frames[t] \in Seq(Frames) /\ lockState[t] \in LockStates
  OBVIOUS
<1>m. /\ lockState[t] = HasMutatorLock => InScope(t, "mutator")
      /\ lockState[t] \in Holding => Acquired(frames[t])
  BY DEF NotesOwned
<1>f. /\ Mutator \in Frames /\ Mutator.kind = "mutator"
      /\ \A p \in LockStates, h \in BOOLEAN :
           /\ Collector(p, h) \in Frames
           /\ Collector(p, h).kind = "collector" /\ Collector(p, h).hadToAcquire = h
  BY DEF Frames, Mutator, Collector
<1>i. (frames' = frames => InScope(t, "mutator")' = InScope(t, "mutator"))
      /\ (frames'[t] = Append(frames[t], Mutator) => InScope(t, "mutator")')
  <2>1. Append(frames[t], Mutator) # <<>> /\ Last(Append(frames[t], Mutator)) = Mutator
    BY <1>q, <1>f, PushFacts
  <2> QED
    BY <1>f, <2>1 DEF InScope, Innermost
<1>1. CASE EnterMutator(t)
  <2>1. lockState' = lockState /\ (frames' = frames \/ frames'[t] = Append(frames[t], Mutator))
    BY <1>1 DEF EnterMutator, Enter
  <2> QED
    BY <2>1, <1>q, <1>m, <1>f, <1>i, AcquiredFacts, ZenonT(30)
<1>2. CASE AcquireRead(t)
  <2>1. lockState'[t] = HasMutatorLock /\ frames'[t] = Append(frames[t], Mutator)
    BY <1>2 DEF AcquireRead, Enter
  <2> QED
    BY <2>1, <1>i
<1>3. CASE LeaveMutator(t)
  <2>1. /\ lockState[t] \in Holding => lockState'[t] = lockState[t]
        /\ lockState[t] \notin Holding => lockState'[t] = HasNoLock
    BY <1>3, ReleaseFacts DEF LeaveMutator
  <2>2. frames'[t] = Front(frames[t]) /\ frames[t] # <<>> /\ Last(frames[t]).kind = "mutator"
    BY <1>3 DEF LeaveMutator, Leave, InScope, Innermost
  <2>3. Acquired(frames[t]) => Acquired(Front(frames[t]))
    BY <1>q, <2>2, AcquiredFacts
  <2> QED
    BY <2>1, <2>2, <2>3, <1>m
<1>4. CASE EnterCollector(t)
  <2>1. /\ lockState[t] \in Holding => lockState'[t] = lockState[t]
        /\ lockState[t] \notin Holding => lockState'[t] = HasNoLock
    BY <1>4, ReleaseFacts DEF EnterCollector
  <2>2. \/ frames'[t] = frames[t]
        \/ frames'[t] = Append(frames[t], Collector(lockState[t], FALSE))
    BY <1>4 DEF EnterCollector, Enter
  <2> QED
    BY <2>1, <2>2, <1>q, <1>m, <1>f, AcquiredFacts
<1>5. CASE AcquireWrite(t)
  <2>1. \/ lockState' = lockState /\ frames' = frames
        \/ lockState'[t] = HasCollectorLock /\ frames'[t] = Append(frames[t], Collector(HasNoLock, TRUE))
    BY <1>5 DEF AcquireWrite, Enter
  <2>2. Acquired(Append(frames[t], Collector(HasNoLock, TRUE)))
    BY <1>q, <1>f, AcquiredFacts
  <2> QED
    BY <2>1, <2>2, <1>m, <1>i
<1>6. CASE BeginCollecting(t)
  <2>1. lockState'[t] \in Holding /\ lockState[t] \in Holding /\ frames' = frames
    BY <1>6 DEF BeginCollecting
  <2> QED
    BY <2>1, <1>m
<1>7. CASE LeaveCollector(t)
  <2>1. frames[t] # <<>> /\ Last(frames[t]).kind = "collector" /\ Innermost(t) = Last(frames[t])
    BY <1>7 DEF LeaveCollector, InScope, Innermost
  <2>2. CASE Innermost(t).hadToAcquire
    BY <1>7, <2>2, <1>m, <1>i DEF LeaveCollector
  <2>3. CASE ~Innermost(t).hadToAcquire
    <3>1. lockState'[t] = Last(frames[t]).prevState /\ frames'[t] = Front(frames[t])
      BY <1>7, <2>1, <2>3 DEF LeaveCollector, Leave
    <3>2. Last(frames[t]) = frames[t][Len(frames[t])] /\ Len(frames[t]) \in DOMAIN frames[t]
      BY <1>q, <2>1, FrameFacts
    <3>3. lockState[t] \in Holding /\ Last(frames[t]).prevState \in Holding
      BY <2>1, <2>3, <3>2 DEF ScopesHeld
    <3>4. Acquired(Front(frames[t]))
      BY <1>q, <1>m, <2>1, <2>3, <3>3, AcquiredFacts
    <3> QED
      BY <3>1, <3>3, <3>4
  <2> QED
    BY <2>2, <2>3
<1>8. CASE ReleaseWrite(t)
  <2>1. InScope(t, "collector") /\ Innermost(t).hadToAcquire
    BY <1>8 DEF ReleaseWrite, ReleaseIsOutermost
  <2>2. Innermost(t).prevState = HasNoLock
    <3>1. frames[t] # <<>> /\ Last(frames[t]).kind = "collector"
      BY <2>1 DEF InScope, Innermost
    <3>2. Last(frames[t]) = frames[t][Len(frames[t])] /\ Len(frames[t]) \in DOMAIN frames[t]
      BY <1>q, <3>1, FrameFacts
    <3> QED
      BY <2>1, <3>1, <3>2 DEF ScopesHeld, Innermost
  <2>3. (lockState' = lockState /\ frames' = frames) \/ lockState'[t] = HasNoLock
    BY <1>8, <2>2 DEF ReleaseWrite
  <2> QED
    BY <2>3, <1>m, <1>i
<1> QED
  BY <1>1, <1>2, <1>3, <1>4, <1>5, <1>6, <1>7, <1>8 DEF Step, Work, ReturnEarly

\* The variables keep their types, and a thread that is in no scope holds no lock
\* (seqs_v2.nim 44-90), unless its =copy returns early: for any nesting of scopes.
THEOREM IdleHoldsNothingHolds == Spec => [](TypeOK /\ IdleHoldsNothing)
<1>1. Init => LockInv /\ NotesOwned
  <2>1. Init => LockInv
    BY LockInvInit
  <2>2. Init => NotesOwned
    BY StateFacts DEF Init, NotesOwned
  <2> QED
    BY <2>1, <2>2
<1>2. LockInv /\ NotesOwned /\ [Next]_vars => (LockInv /\ NotesOwned)'
  <2> SUFFICES ASSUME LockInv, NotesOwned, [Next]_vars PROVE NotesOwned'
    BY LockInvStep
  <2>1. CASE UNCHANGED vars
    BY <2>1 DEF vars, NotesOwned, InScope, Innermost
  <2>2. CASE Next
    <3>1. PICK t \in Threads : Step(t)
      BY <2>2 DEF Next
    <3>2. Quiet(t)
      BY <3>1, QuietStep
    <3>3. t \notin Copiers =>
            /\ lockState'[t] = HasMutatorLock => InScope(t, "mutator")'
            /\ lockState'[t] \in Holding => Acquired(frames'[t])
      BY <3>1, NotesOwnedStep
    <3> QED
      BY <3>2, <3>3 DEF NotesOwned, Quiet, InScope, Innermost
  <2> QED
    BY <2>1, <2>2
<1>3. LockInv /\ NotesOwned => TypeOK /\ IdleHoldsNothing
  <2> SUFFICES ASSUME LockInv, NotesOwned, NEW t \in Threads \ Copiers, Idle(t)
               PROVE  lockState[t] = HasNoLock
    BY DEF IdleHoldsNothing, LockInv
  <2>1. frames[t] = <<>> /\ lockState[t] \in LockStates
    BY DEF LockInv, TypeOK, Idle
  <2>2. ~InScope(t, "mutator") /\ ~Acquired(frames[t])
    BY <2>1, EmptySeq DEF InScope, Acquired
  <2> QED
    BY <2>1, <2>2, StateFacts DEF NotesOwned
<1> QED
  BY <1>1, <1>2, <1>3, PTL DEF Spec

\* The variables keep their types, the loop index among them (seqs_v2.nim 74-90).
THEOREM TypesHold == Spec => []TypeOK
  BY IdleHoldsNothingHolds, PTL
=============================================================================
