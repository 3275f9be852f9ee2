--------------------------- MODULE ChannelProofs ---------------------------
(***************************************************************************)
(* Theorems about Channel, for any set of threads, any maxItems and any    *)
(* number of messages, with their proofs.                                  *)
(***************************************************************************)
EXTENDS Channel, SequenceTheorems, TLAPS

(***************************************************************************)
(* The lock.  A thread's position tells whether it is inside a critical    *)
(* section; the owner of the lock is the only one that is.                 *)
(***************************************************************************)
Locked == {Section[p] : p \in DOMAIN Section}

\* At most one thread is in a critical section, and it owns the lock.
MutualExclusion == \A t \in Threads : pc[t] \in Locked => lock = t

Sound ==
    /\ pc \in [Threads -> PCs]
    /\ lock \in Threads \cup {NoThread, Closer}
    /\ mask \in Int /\ mask >= -2
    /\ mask = -2 => lock = Closer
    /\ maxItems \in Limits

LockInv == Sound /\ MutualExclusion

LEMMA SectionFacts ==
    /\ DOMAIN Section = {"send", "sendWoken", "trySend", "recv", "recvWoken",
                         "tryRecv", "peek"}
    /\ Locked = {"sendLocked", "trySendLocked", "recvLocked", "llRecv",
                 "tryRecvLocked", "peekLocked"}
    /\ PCs = {"idle", "raised", "sendWait", "recvWait", "send", "sendWoken",
              "trySend", "recv", "recvWoken", "tryRecv", "peek", "sendLocked",
              "trySendLocked", "recvLocked", "llRecv", "tryRecvLocked",
              "peekLocked"}
    /\ \A p \in DOMAIN Section : Section[p] \in Locked
<1>1. DOMAIN Section = {"send", "sendWoken", "trySend", "recv", "recvWoken",
                        "tryRecv", "peek"}
  BY DEF Section
<1>2. Locked = {"sendLocked", "trySendLocked", "recvLocked", "llRecv",
                 "tryRecvLocked", "peekLocked"}
  BY DEF Section, Locked
<1> QED  BY <1>1, <1>2 DEF PCs, Locked

\* Whatever a signal does, it moves one waiter to a place outside the lock.
LEMMA SignalFacts ==
    ASSUME NEW np \in [Threads -> PCs], pc \in [Threads -> PCs], Signal(np)
    PROVE  /\ pc' \in [Threads -> PCs]
           /\ \A t \in Threads : pc'[t] \in Locked => pc'[t] = np[t]
BY SectionFacts DEF Signal, Waiting, Woken

LEMMA LockInvInit == Init => LockInv
<1> SUFFICES ASSUME Init PROVE Sound /\ \A t \in Threads : pc[t] \notin Locked
  BY DEF LockInv, MutualExclusion, Locked
<1> QED  BY SectionFacts DEF Init, Sound

LEMMA LockInvStep == LockInv /\ [Next]_vars => LockInv'
<1> SUFFICES ASSUME LockInv, [Next]_vars PROVE LockInv'
  OBVIOUS
<1> USE SectionFacts, ConstantsAssumption
    DEF LockInv, Sound, MutualExclusion, ChannelDeadMask, ring
<1>0. \A t \in Threads : pc[t] \in Locked => lock = t
  BY DEF Locked
<1>1. SUFFICES ASSUME [Next]_vars
               PROVE  Sound' /\ \A t \in Threads : pc'[t] \in Locked => lock' = t
  BY DEF Locked
<1>2. CASE UNCHANGED vars
  BY <1>0, <1>2 DEF vars
<1>3. ASSUME NEW s \in Senders, SenderStep(s)
      PROVE  Sound' /\ \A t \in Threads : pc'[t] \in Locked => lock' = t
  <2> s \in Threads
    BY DEF Threads
  <2>1. CASE CallSend(s)
    BY <1>0, <2>1 DEF CallSend
  <2>2. CASE CallSendDead(s)
    BY <1>0, <2>2 DEF CallSendDead
  <2>3. CASE TrySendFull(s)
    BY <1>0, <2>3 DEF TrySendFull
  <2>4. CASE SendWait(s)
    BY <1>0, <2>4 DEF SendWait
  <2>5. CASE SendPut(s)
    <3>1. [pc EXCEPT ![s] = "idle"] \in [Threads -> PCs]
      OBVIOUS
    <3>2. pc' \in [Threads -> PCs] /\ lock' = NoThread
      BY <2>5, <3>1, SignalFacts DEF SendPut, SignalArrival
    <3>3. mask # -2
      BY <2>5 DEF SendPut
    <3>4. mask' \in Int /\ mask' >= -1 /\ maxItems' = maxItems
      BY <2>5, <3>3 DEF SendPut, RawSend, Cap
    <3>5. Sound'
      BY <3>2, <3>4
    <3> QED  BY <1>0, <2>5, <3>1, <3>5, SignalFacts DEF SendPut, SignalArrival
  <2> QED  BY <1>3, <2>1, <2>2, <2>3, <2>4, <2>5 DEF SenderStep, InSend
<1>4. ASSUME NEW r \in Receivers, ReceiverStep(r)
      PROVE  Sound' /\ \A t \in Threads : pc'[t] \in Locked => lock' = t
  <2> r \in Threads
    BY DEF Threads
  <2>1. CASE CallRecv(r)
    BY <1>0, <2>1 DEF CallRecv
  <2>2. CASE CallTry(r)
    BY <1>0, <2>2 DEF CallTry
  <2>3. CASE TryRecvContended(r)
    BY <1>0, <2>3 DEF TryRecvContended
  <2>0. CASE EnterLlRecv(r)
    BY <1>0, <2>0 DEF EnterLlRecv
  <2>4. CASE RecvWait(r)
    BY <1>0, <2>4 DEF RecvWait
  <2>5. CASE RecvTake(r)
    <3>1. [pc EXCEPT ![r] = "idle"] \in [Threads -> PCs]
      OBVIOUS
    <3>2. CASE Signal([pc EXCEPT ![r] = "idle"])
      BY <1>0, <2>5, <3>1, <3>2, SignalFacts, ZenonT(30) DEF RecvTake, RawRecv
    <3>3. CASE pc' = [pc EXCEPT ![r] = "idle"]
      BY <1>0, <2>5, <3>1, <3>3 DEF RecvTake, RawRecv
    <3> QED  BY <2>5, <3>2, <3>3 DEF RecvTake
  <2>6. CASE TryRecvEmpty(r)
    BY <1>0, <2>6 DEF TryRecvEmpty
  <2>7. CASE Peek(r)
    BY <1>0, <2>7 DEF Peek
  <2> QED
    BY <1>4, <2>0, <2>1, <2>2, <2>3, <2>4, <2>5, <2>6, <2>7 DEF ReceiverStep, InReceive
<1>5. ASSUME NEW t \in Threads, Acquire(t)
      PROVE  Sound' /\ \A u \in Threads : pc'[u] \in Locked => lock' = u
  BY <1>0, <1>5 DEF Acquire
<1>6. ASSUME NEW t \in Threads, SpuriousWakeup(t)
      PROVE  Sound' /\ \A u \in Threads : pc'[u] \in Locked => lock' = u
  BY <1>0, <1>6 DEF SpuriousWakeup, Woken
<1>7. CASE Close
  BY <1>0, <1>7 DEF Close
<1>8. CASE Open
  BY <1>0, <1>8 DEF Open
<1> QED  BY <1>2, <1>3, <1>4, <1>5, <1>6, <1>7, <1>8 DEF Next

----------------------------------------------------------------------------
(***************************************************************************)
(* The ring.  Its indices delimit exactly count messages, before and after  *)
(* every growth, as long as no channel is opened again that had a ring.    *)
(***************************************************************************)
FreshOpenings == ReopenUsed = FALSE

\* Nothing reads, writes or frees the ring once it is freed.
RingNotMisused == memory # "misused"

MemoryOK ==
    /\ mask = -1 => memory = "none"
    /\ mask >= 0 => memory = "owned"
    /\ mask = -2 => memory \in {"none", "freed"}
    /\ memory = "none" => rd = 0 /\ wr = 0 /\ count = 0

RingInv ==
    /\ count \in Nat
    /\ MemoryOK
    /\ mask >= 0 => /\ rd \in 0 .. mask
                    /\ count <= mask + 1
                    /\ wr = Slot(count)
                    /\ data = [i \in 0 .. mask |-> data[i]]

\* A message is appended behind the count messages of the ring, which growth
\* moves to the front of a larger one.
LEMMA RawSendFacts ==
    ASSUME mask \in Int, mask >= -1, RingInv, NEW m, RawSend(m)
    PROVE  /\ mask' \in Int /\ mask' >= 0
           /\ count' = count + 1
           /\ rd' \in 0 .. mask'
           /\ count' <= mask' + 1
           /\ wr' = Slot(count)'
           /\ data' = [i \in 0 .. mask' |-> data'[i]]
           /\ memory' = "owned"
           /\ \A k \in 0 .. count :
                data'[Slot(k)'] = IF k < count THEN data[Slot(k)] ELSE m
<1>m. memory' = "owned"
  BY DEF RawSend, RingInv, MemoryOK, Touched
<1>n. mask = -1 => rd = 0 /\ wr = 0 /\ count = 0
  BY DEF RingInv, MemoryOK
<1> USE DEF RawSend, RingInv, Slot, Cap, Succ
<1>1. CASE count >= Cap
  <2> DEFINE newMask == IF Cap = 0 THEN 1 ELSE 2 * Cap - 1
             copied  == [i \in 0 .. newMask |->
                           IF i < count THEN Unread(i) ELSE Zeroed]
  <2>n. mask \in Int /\ mask >= -1 /\ count \in Nat /\ (mask = -1 => count = 0)
           /\ (mask >= 0 => rd \in 0 .. mask /\ count <= mask + 1)
    BY <1>n
  <2>1. /\ newMask \in Int /\ newMask >= 1 /\ count < newMask + 1
        /\ mask' = newMask /\ rd' = 0 /\ count' = count + 1
        /\ data' = [copied EXCEPT ![count] = m]
        /\ wr' = IF count = newMask THEN 0 ELSE count + 1
    BY <1>1, <2>n
  <2>2. /\ data' = [i \in 0 .. newMask |-> data'[i]]
        /\ data'[count] = m
        /\ \A k \in 0 .. count - 1 : data'[k] = Unread(k)
    <3>1. copied = [i \in 0 .. newMask |-> copied[i]] /\ count \in 0 .. newMask
      BY <2>1
    <3>2. \A k \in 0 .. count - 1 : copied[k] = Unread(k)
      <4>1. \A k \in 0 .. count - 1 : k \in 0 .. newMask /\ k < count
        BY <2>1, <2>n
      <4> HIDE DEF newMask, RawSend, RingInv, Slot, Cap, Succ
      <4> QED  BY <4>1
    <3>3. newMask \in Int /\ count \in Nat
      BY <2>1
    <3> HIDE DEF copied, newMask, RawSend, RingInv, Slot, Cap, Succ
    <3>4. data' = [i \in 0 .. newMask |-> IF i = count THEN m ELSE copied[i]]
      BY <2>1, <3>1
    <3>5. data'[count] = m
      BY <3>1, <3>4
    <3>6. \A k \in 0 .. count - 1 : data'[k] = copied[k]
      BY <3>1, <3>3, <3>4
    <3>7. data' = [i \in 0 .. newMask |-> data'[i]]
      BY <3>4
    <3> QED  BY <3>2, <3>5, <3>6, <3>7
  <2>3. \A k \in 0 .. count : Slot(k)' = k
    BY <2>1
  <2>4. wr' = Slot(count)'
    BY <2>1
  <2>5. count \in Nat
    OBVIOUS
  <2> HIDE DEF RawSend, RingInv, Slot, Cap, Succ, newMask, copied
  <2>6. \A k \in 0 .. count : data'[Slot(k)'] = IF k < count THEN data[Slot(k)] ELSE m
    BY <2>2, <2>3, <2>5 DEF Unread
  <2> QED  BY <2>1, <2>2, <2>4, <2>5, <2>6, <1>m
<1>2. CASE ~(count >= Cap)
  <2>1. /\ mask >= 0 /\ mask' = mask /\ rd' = rd /\ count' = count + 1
        /\ data' = [data EXCEPT ![wr] = m]
        /\ wr' = IF wr = mask THEN 0 ELSE wr + 1
    BY <1>2
  <2>2. wr \in 0 .. mask /\ \A k \in 0 .. count - 1 : Slot(k) \in 0 .. mask /\ Slot(k) # wr
    BY <1>2, <2>1
  <2>3. /\ data' = [i \in 0 .. mask |-> data'[i]]
        /\ data'[wr] = m
        /\ \A k \in 0 .. count - 1 : data'[Slot(k)] = data[Slot(k)]
    <3> HIDE DEF Slot
    <3> QED  BY <2>1, <2>2
  <2> rd \in 0 .. mask /\ count \in Nat /\ wr = Slot(count)
    BY <2>1
  <2> HIDE DEF RawSend, RingInv
  <2>4. \A k \in 0 .. count : Slot(k)' = IF k < count THEN Slot(k) ELSE wr
    <3> SUFFICES ASSUME NEW k \in 0 .. count
                 PROVE  Slot(k)' = IF k < count THEN Slot(k) ELSE wr
      OBVIOUS
    <3>1. Slot(k)' = Slot(k)
      BY <2>1
    <3>2. k = count => Slot(k) = wr
      BY <2>1
    <3> HIDE DEF Slot
    <3> QED  BY <3>1, <3>2
  <2>5. wr' = Slot(count)' /\ count' <= mask' + 1
    BY <1>2, <2>1
  <2> HIDE DEF Slot
  <2> QED  BY <1>2, <2>1, <2>3, <2>4, <2>5, <1>m
<1> QED  BY <1>1, <1>2, <1>m

\* A receive moves rd over the oldest message.
LEMMA RawRecvFacts ==
    ASSUME mask \in Int, mask >= 0, RingInv, count > 0, RawRecv
    PROVE  /\ mask' = mask /\ data' = data /\ count' = count - 1
           /\ rd' \in 0 .. mask
           /\ wr' = Slot(count)'
           /\ memory' = "owned"
           /\ \A k \in 0 .. count - 2 : Slot(k)' = Slot(k + 1)
<1>m. memory' = "owned"
  BY DEF RawRecv, RingInv, MemoryOK, Touched
<1>1. /\ mask' = mask /\ data' = data /\ count' = count - 1 /\ wr' = wr
      /\ rd' = IF rd = mask THEN 0 ELSE rd + 1
      /\ rd \in 0 .. mask /\ count \in 1 .. mask + 1 /\ wr = Slot(count)
  BY DEF RawRecv, RingInv, Succ
<1>2. \A k \in 0 .. count - 1 : Slot(k)' = Slot(k + 1)
  BY <1>1 DEF Slot, Cap
<1>3. wr' = Slot(count)'
  BY <1>1 DEF Slot, Cap
<1> QED  BY <1>1, <1>2, <1>3, <1>m

\* Every other step leaves the ring alone.
LEMMA RingSteps ==
    ASSUME LockInv, [Next]_vars
    PROVE  \/ UNCHANGED <<mask, rd, wr, count, data, memory>>
           \/ \E s \in Senders : SendPut(s)
           \/ \E r \in Receivers : RecvTake(r)
           \/ Close \/ Open
BY DEF Next, vars, ring, SenderStep, InSend, ReceiverStep, InReceive, CallSend,
       CallSendDead, TrySendFull, SendWait, CallRecv, CallTry, TryRecvContended,
       EnterLlRecv, RecvWait, TryRecvEmpty, Peek, Acquire, SpuriousWakeup

LEMMA RingInvInit == Init => RingInv
BY DEF Init, RingInv, MemoryOK

LEMMA RingInvStep ==
    ASSUME LockInv, RingInv, FreshOpenings, [Next]_vars
    PROVE  RingInv'
<1>1. CASE UNCHANGED <<mask, rd, wr, count, data, memory>>
  BY <1>1 DEF RingInv, MemoryOK, Slot, Cap
<1>2. ASSUME NEW s \in Senders, SendPut(s) PROVE RingInv'
  <2>1. mask \in Int /\ mask >= -1
    BY <1>2, ConstantsAssumption DEF SendPut, LockInv, Sound, Threads
  <2> QED
    BY <1>2, <2>1, RawSendFacts DEF SendPut, RingInv, MemoryOK
<1>3. ASSUME NEW r \in Receivers, RecvTake(r) PROVE RingInv'
  <2>1. mask \in Int /\ mask >= 0
    BY <1>3, ConstantsAssumption DEF RecvTake, LockInv, Sound, Threads, RingInv, MemoryOK
  <2> QED
    BY <1>3, <2>1, RawRecvFacts DEF RecvTake, RingInv, MemoryOK
<1>4. CASE Close
  <2>1. mask \in Int /\ mask >= -1
    BY <1>4 DEF Close, LockInv, Sound, ChannelDeadMask
  <2> QED
    BY <1>4, <2>1 DEF Close, RingInv, MemoryOK, Touched, ChannelDeadMask
<1>5. CASE Open
  BY <1>5 DEF Open, FreshOpenings, RingInv, MemoryOK
<1> QED  BY <1>1, <1>2, <1>3, <1>4, <1>5, RingSteps

LEMMA RingInvHolds == ASSUME FreshOpenings PROVE Spec => [](LockInv /\ RingInv)
<1>1. Init => LockInv /\ RingInv
  BY LockInvInit, RingInvInit
<1>2. LockInv /\ RingInv /\ [Next]_vars => (LockInv /\ RingInv)'
  BY LockInvStep, RingInvStep
<1> QED  BY <1>1, <1>2, PTL DEF Spec

\* A receiver that is inside llRecv, asleep there or not.
InRecv(p) == p \in {"recvWait", "recvWoken", "llRecv"}

LEMMA ReadyStep ==
    ASSUME LockInv, ReadyMeansReceiver, [Next]_vars
    PROVE  ReadyMeansReceiver'
<1> USE SectionFacts DEF ReadyMeansReceiver, InRecv
<1>t. pc \in [Threads -> PCs] /\ Receivers \subseteq Threads /\ Senders \subseteq Threads
  BY DEF LockInv, Sound, Threads
<1>r. SUFFICES ASSUME ready'
               PROVE  \E r \in Receivers : InRecv(pc'[r])
  OBVIOUS
<1>1. ASSUME ready' = ready, NEW t \in Threads, ~InRecv(pc[t]),
             \A u \in Threads : u # t => pc'[u] = pc[u] \/ InRecv(pc'[u])
      PROVE  \E r \in Receivers : InRecv(pc'[r])
  BY <1>1, <1>r, <1>t
<1>2. ASSUME ready' = ready, \A u \in Threads : InRecv(pc[u]) => InRecv(pc'[u])
      PROVE  \E r \in Receivers : InRecv(pc'[r])
  BY <1>2, <1>r, <1>t
<1>s. ASSUME NEW np \in [Threads -> PCs], Signal(np), NEW u \in Threads
      PROVE  pc'[u] = np[u] \/ (pc'[u] = Woken(pc[u]) /\ u \in Waiting)
  <2>1. CASE pc' = np
    BY <2>1
  <2>2. ASSUME NEW w \in Waiting, pc' = [np EXCEPT ![w] = Woken(pc[w])]
        PROVE  pc'[u] = np[u] \/ (pc'[u] = Woken(pc[u]) /\ u \in Waiting)
    <3>1. CASE w = u
      BY <1>s, <2>2, <3>1
    <3>2. CASE w # u
      BY <1>s, <2>2, <3>2
    <3> QED
      BY <3>1, <3>2
  <2> QED
    BY <1>s, <2>1, <2>2 DEF Signal
<1>3. CASE UNCHANGED vars
  BY <1>2, <1>3 DEF vars
<1>4. ASSUME NEW s \in Senders, SenderStep(s)
      PROVE  \E r \in Receivers : InRecv(pc'[r])
  <2>1. CASE SendPut(s)
    <3>1. [pc EXCEPT ![s] = "idle"] \in [Threads -> PCs]
      BY <1>t
    <3>2. Signal([pc EXCEPT ![s] = "idle"]) /\ ready' = ready /\ ~InRecv(pc[s])
      BY <2>1 DEF SendPut, SignalArrival
    <3>3. ASSUME NEW u \in Threads, InRecv(pc[u]) PROVE InRecv(pc'[u])
      <4>1. u # s
        BY <3>2, <3>3
      <4>2. [pc EXCEPT ![s] = "idle"][u] = pc[u]
        BY <4>1, <1>t
      <4>3. pc'[u] = pc[u] \/ (pc'[u] = Woken(pc[u]) /\ u \in Waiting)
        BY <3>1, <3>2, <4>2, <1>s
      <4> QED
        BY <4>3, <3>3 DEF Woken
    <3> QED
      BY <3>2, <3>3, <1>2
  <2>2. CASE CallSend(s) \/ CallSendDead(s) \/ TrySendFull(s) \/ SendWait(s)
    <3>1. ready' = ready /\ ~InRecv(pc[s])
      BY <2>2 DEF CallSend, CallSendDead, TrySendFull, SendWait
    <3>2. \A u \in Threads : u # s => pc'[u] = pc[u]
      BY <2>2, <1>t DEF CallSend, CallSendDead, TrySendFull, SendWait
    <3> QED
      BY <3>1, <3>2, <1>1, <1>t
  <2> QED
    BY <1>4, <2>1, <2>2 DEF SenderStep, InSend
<1>5. ASSUME NEW r \in Receivers, ReceiverStep(r)
      PROVE  \E q \in Receivers : InRecv(pc'[q])
  <2>1. CASE EnterLlRecv(r) \/ RecvWait(r)
    BY <2>1, <1>t DEF EnterLlRecv, RecvWait
  <2>2. CASE RecvTake(r)
    BY <2>2, <1>r DEF RecvTake, ClearReady
  <2>3. CASE CallRecv(r) \/ CallTry(r) \/ TryRecvContended(r) \/ TryRecvEmpty(r) \/ Peek(r)
    <3>1. ready' = ready /\ ~InRecv(pc[r])
      BY <2>3 DEF CallRecv, CallTry, TryRecvContended, TryRecvEmpty, Peek
    <3>2. \A u \in Threads : u # r => pc'[u] = pc[u]
      BY <2>3, <1>t DEF CallRecv, CallTry, TryRecvContended, TryRecvEmpty, Peek
    <3> QED
      BY <3>1, <3>2, <1>1, <1>t
  <2> QED
    BY <1>5, <2>1, <2>2, <2>3 DEF ReceiverStep, InReceive
<1>6. ASSUME NEW t \in Threads, Acquire(t) \/ SpuriousWakeup(t)
      PROVE  \E r \in Receivers : InRecv(pc'[r])
  <2>1. ready' = ready /\ \A u \in Threads : u # t => pc'[u] = pc[u]
    BY <1>6, <1>t DEF Acquire, SpuriousWakeup
  <2>2. InRecv(pc[t]) => InRecv(pc'[t])
    BY <1>6, <1>t DEF Acquire, SpuriousWakeup, Woken, Waiting, Section
  <2> QED
    BY <2>1, <2>2, <1>2
<1>7. CASE Close \/ Open
  BY <1>7, <1>2 DEF Close, Open
<1> QED
  BY <1>3, <1>4, <1>5, <1>6, <1>7 DEF Next

(***************************************************************************)
(* The ready flag does not stay behind: while it is set some receiver is   *)
(* inside llRecv, because no receiver leaves llRecv without clearing it,   *)
(* and only entering llRecv sets it.                                       *)
(***************************************************************************)
THEOREM ReadyMeansReceiverHolds == Spec => []ReadyMeansReceiver
<1>1. Init => ReadyMeansReceiver
  BY DEF Init, ReadyMeansReceiver
<1>2. LockInv /\ ReadyMeansReceiver /\ [Next]_vars => ReadyMeansReceiver'
  BY ReadyStep
<1>3. Spec => []LockInv
  BY LockInvInit, LockInvStep, PTL DEF Spec
<1> QED
  BY <1>1, <1>2, <1>3, PTL DEF Spec

(***************************************************************************)
(* The types.  A sender that is in a call has a message left to send.      *)
(***************************************************************************)
Numbers ==
    /\ rd \in Nat /\ wr \in Nat /\ count \in Nat
    /\ memory \in {"none", "owned", "freed", "misused"}
    /\ ready \in BOOLEAN
    /\ sent \in [Senders -> 0 .. MaxSends]
    /\ \A s \in Senders : pc[s] \notin {"idle", "raised"} => sent[s] < MaxSends

LEMMA NumbersStep == LockInv /\ Numbers /\ [Next]_vars => Numbers'
<1> SUFFICES ASSUME LockInv, Numbers, [Next]_vars PROVE Numbers'
  OBVIOUS
<1> USE SectionFacts, ConstantsAssumption DEF LockInv, Sound, Numbers, ring
<1>t. pc \in [Threads -> PCs] /\ Senders \subseteq Threads /\ Receivers \subseteq Threads
  BY DEF Threads
<1>1. CASE UNCHANGED vars
  BY <1>1 DEF vars
<1>3. ASSUME NEW s \in Senders, SenderStep(s) PROVE Numbers'
  <2>1. CASE CallSend(s) \/ CallSendDead(s) \/ SendWait(s)
    BY <1>t, <2>1 DEF CallSend, CallSendDead, SendWait
  <2>2. CASE TrySendFull(s)
    BY <1>t, <2>2 DEF TrySendFull
  <2>3. CASE SendPut(s)
    <3>1. [pc EXCEPT ![s] = "idle"] \in [Threads -> PCs]
      BY <1>t
    <3>2. rd' \in Nat /\ wr' \in Nat /\ count' \in Nat /\ ready' = ready
          /\ memory' \in {"none", "owned", "freed", "misused"}
      BY <2>3 DEF SendPut, RawSend, Succ, Touched
    <3>3. sent' = [sent EXCEPT ![s] = @ + 1] /\ sent[s] < MaxSends
      BY <2>3, <1>t DEF SendPut
    <3>4. pc'[s] = "idle"
      BY <2>3, <3>1, <1>t DEF SendPut, SignalArrival, Signal, Waiting
    <3>5. ASSUME NEW u \in Senders, pc'[u] \notin {"idle", "raised"} PROVE sent'[u] < MaxSends
      <4>1. u # s
        BY <3>4, <3>5
      <4>2. pc[u] \notin {"idle", "raised"}
        BY <2>3, <3>1, <3>5, <4>1, <1>t DEF SendPut, SignalArrival, Signal, Waiting
      <4> QED
        BY <3>3, <4>1, <4>2
    <3> QED
      BY <3>2, <3>3, <3>5
  <2> QED
    BY <1>3, <2>1, <2>2, <2>3 DEF SenderStep, InSend
<1>4. ASSUME NEW r \in Receivers, ReceiverStep(r) PROVE Numbers'
  <2> r \notin Senders /\ r \in Threads
    BY <1>t
  <2>1. CASE EnterLlRecv(r) \/ RecvWait(r)
    <3>1. ready' \in BOOLEAN
      BY <2>1 DEF EnterLlRecv, RecvWait
    <3> QED
      BY <1>t, <2>1, <3>1 DEF EnterLlRecv, RecvWait
  <2>2. CASE RecvTake(r)
    <3>1. [pc EXCEPT ![r] = "idle"] \in [Threads -> PCs]
      BY <1>t
    <3>2. rd' \in Nat /\ wr' = wr /\ count' \in Nat /\ ready' = FALSE /\ sent' = sent
          /\ memory' \in {"none", "owned", "freed", "misused"}
      BY <2>2 DEF RecvTake, RawRecv, Succ, ClearReady, Touched
    <3>3. ASSUME NEW u \in Senders, pc'[u] \notin {"idle", "raised"} PROVE pc[u] \notin {"idle", "raised"}
      BY <2>2, <3>1, <3>3, <1>t DEF RecvTake, Signal, Waiting
    <3> QED
      BY <3>2, <3>3
  <2>3. CASE CallRecv(r) \/ CallTry(r) \/ TryRecvContended(r) \/ TryRecvEmpty(r) \/ Peek(r)
    BY <1>t, <2>3 DEF CallRecv, CallTry, TryRecvContended, TryRecvEmpty, Peek
  <2> QED
    BY <1>4, <2>1, <2>2, <2>3 DEF ReceiverStep, InReceive
<1>5. ASSUME NEW t \in Threads, Acquire(t) \/ SpuriousWakeup(t) PROVE Numbers'
  BY <1>5, <1>t DEF Acquire, SpuriousWakeup, Waiting
<1>6. CASE Close \/ Open
  BY <1>6, <1>t DEF Close, Open, Touched
<1> QED
  BY <1>1, <1>3, <1>4, <1>5, <1>6 DEF Next

(***************************************************************************)
(* The variables keep their types: rawRecv never takes count below zero.   *)
(***************************************************************************)
THEOREM TypesHold == Spec => []TypeOK
<1>1. Init => Numbers
  <2> SUFFICES ASSUME Init PROVE Numbers
    OBVIOUS
  <2>1. sent \in [Senders -> 0 .. MaxSends]
    BY ConstantsAssumption DEF Init
  <2>2. \A s \in Senders : pc[s] = "idle"
    BY DEF Init, Threads
  <2>3. rd \in Nat /\ wr \in Nat /\ count \in Nat /\ memory = "none"
    BY DEF Init
  <2>4. ready \in BOOLEAN
    BY DEF Init
  <2> QED
    BY <2>1, <2>2, <2>3, <2>4 DEF Numbers
<1>2. LockInv /\ Numbers /\ [Next]_vars => Numbers'
  BY NumbersStep
<1>3. LockInv /\ Numbers => TypeOK
  BY DEF LockInv, Sound, Numbers, TypeOK
<1> QED
  BY LockInvInit, LockInvStep, <1>1, <1>2, <1>3, PTL DEF Spec

(***************************************************************************)
(* rawSend and rawRecv keep the indices of the ring consistent, however    *)
(* often it wraps around and grows.                                        *)
(***************************************************************************)
THEOREM RingIndicesHold == ASSUME FreshOpenings PROVE Spec => []RingIndices
<1>1. LockInv /\ RingInv => RingIndices
  BY DEF LockInv, Sound, RingInv, RingIndices, Slots, Slot, Cap
<1> QED  BY <1>1, RingInvHolds, PTL

(***************************************************************************)
(* A program that does not open a channel again that had a ring never has  *)
(* it touch or free a ring that close has freed: deinitRawChannel leaves   *)
(* the pointer, but nobody comes by it.                                    *)
(***************************************************************************)
THEOREM RingNotMisusedHolds == ASSUME FreshOpenings PROVE Spec => []RingNotMisused
<1>1. LockInv /\ RingInv => RingNotMisused
  BY DEF LockInv, Sound, RingInv, MemoryOK, RingNotMisused
<1> QED  BY <1>1, RingInvHolds, PTL

(***************************************************************************)
(* A channel opened with maxItems never holds more than that.              *)
(***************************************************************************)
THEOREM WithinCapacityHolds == Spec => []WithinCapacity
<1> DEFINE Inv == count \in Int /\ maxItems \in Limits /\ WithinCapacity
<1>1. Init => Inv
  BY ConstantsAssumption DEF Init, WithinCapacity
<1>2. Inv /\ [Next]_vars => Inv'
  <2> SUFFICES ASSUME Inv, [Next]_vars PROVE Inv'
    OBVIOUS
  <2>1. ASSUME NEW s \in Senders, SendPut(s) PROVE Inv'
    BY <2>1, ConstantsAssumption DEF SendPut, RawSend, Full, WithinCapacity
  <2>2. ASSUME NEW r \in Receivers, RecvTake(r) PROVE Inv'
    BY <2>2, ConstantsAssumption DEF RecvTake, RawRecv, WithinCapacity
  <2>3. CASE UNCHANGED <<count, maxItems>>
    BY <2>3 DEF WithinCapacity
  <2>4. \/ UNCHANGED <<count, maxItems>>
        \/ \E s \in Senders : SendPut(s)
        \/ \E r \in Receivers : RecvTake(r)
    BY DEF Next, vars, ring, SenderStep, InSend, ReceiverStep, InReceive, CallSend, CallSendDead,
           TrySendFull, SendWait, CallRecv, CallTry, TryRecvContended, EnterLlRecv,
           RecvWait, TryRecvEmpty, Peek, Acquire, SpuriousWakeup, Close, Open
  <2> QED  BY <2>1, <2>2, <2>3, <2>4
<1> QED  BY <1>1, <1>2, PTL DEF Spec

----------------------------------------------------------------------------
(***************************************************************************)
(* The channel implements the FIFO queue of ChannelFifo.                   *)
(***************************************************************************)
LEMMA AppendIs ==
    ASSUME NEW n \in Nat, NEW f, NEW g, NEW e,
           f = [i \in 1 .. n |-> f[i]],
           g = [i \in 1 .. n + 1 |-> IF i <= n THEN f[i] ELSE e]
    PROVE  g = Append(f, e)
<1> DEFINE S == {f[i] : i \in 1 .. n} \cup {e}
<1>1. f \in Seq(S) /\ Len(f) = n
  <2>1. f \in [1 .. n -> S]
    OBVIOUS
  <2> QED  BY <2>1
<1>2. e \in S
  OBVIOUS
<1> HIDE DEF S
<1> QED  BY <1>1, <1>2

LEMMA TailIs ==
    ASSUME NEW n \in Nat, n > 0, NEW f, NEW g,
           f = [i \in 1 .. n |-> f[i]],
           g = [i \in 1 .. n - 1 |-> f[i + 1]]
    PROVE  f # <<>> /\ Head(f) = f[1] /\ Tail(f) = g
<1> DEFINE S == {f[i] : i \in 1 .. n}
<1>1. f \in Seq(S) /\ Len(f) = n
  <2>1. f \in [1 .. n -> S]
    OBVIOUS
  <2> QED  BY <2>1
<1> HIDE DEF S
<1> QED  BY <1>1

LEMMA LenIs ==
    ASSUME NEW n \in Nat, NEW f, f = [i \in 1 .. n |-> f[i]]
    PROVE  Len(f) = n
OBVIOUS

\* The queue a user sees has count messages.
LEMMA ContentsFacts ==
    ASSUME LockInv, RingInv, mask # -2
    PROVE  /\ count \in Nat
           /\ Contents = [k \in 1 .. count |-> data[Slot(k - 1)]]
           /\ Len(Contents) = count
<1>1. count \in Nat /\ mask \in Int /\ mask >= -1 /\ (mask = -1 => count = 0)
  BY DEF LockInv, Sound, RingInv, MemoryOK
<1>2. Contents = [k \in 1 .. count |-> data[Slot(k - 1)]]
  <2>1. CASE mask = -1
    <3>1. [k \in 1 .. 0 |-> data[Slot(k - 1)]] = <<>>
      OBVIOUS
    <3> QED  BY <1>1, <2>1, <3>1 DEF Contents
  <2>2. CASE mask >= 0
    BY <1>1, <2>2 DEF Contents
  <2> QED  BY <1>1, <2>1, <2>2
<1> QED  BY <1>1, <1>2, LenIs

LEMMA SendRefines ==
    ASSUME LockInv, RingInv, NEW s \in Senders, SendPut(s)
    PROVE  Fifo!Send(s)
<1>1. mask \in Int /\ mask >= -1
  BY ConstantsAssumption DEF SendPut, LockInv, Sound, Threads
<1> DEFINE m == <<s, sent[s] + 1>>
<1>2. RawSend(m)
  BY DEF SendPut
<1>3. /\ mask' \in Int /\ mask' >= 0 /\ count' = count + 1
      /\ \A k \in 0 .. count : data'[Slot(k)'] = IF k < count THEN data[Slot(k)] ELSE m
  BY <1>1, <1>2, RawSendFacts
<1>4. /\ count \in Nat /\ Len(Contents) = count
      /\ Contents = [k \in 1 .. count |-> data[Slot(k - 1)]]
  BY <1>1, ContentsFacts
<1>5. Contents' = [k \in 1 .. count + 1 |-> data'[Slot(k - 1)']]
  BY <1>3 DEF Contents
<1>6. Contents' = Append(Contents, m)
  <2> HIDE DEF m
  <2>1. Contents' = [k \in 1 .. count + 1 |-> IF k <= count THEN Contents[k] ELSE m]
    BY <1>3, <1>4, <1>5
  <2> QED  BY <1>4, <2>1, AppendIs
<1>7. (maxItems > 0 => Len(Contents) < maxItems) /\ maxItems' = maxItems
  BY <1>4, ConstantsAssumption DEF SendPut, RawSend, Full, LockInv, Sound
<1> QED
  BY <1>1, <1>3, <1>6, <1>7
  DEF SendPut, Return, Fifo!Send, Fifo!HasRoom, Fifo!Answer, ChannelDeadMask

LEMMA RecvRefines ==
    ASSUME LockInv, RingInv, NEW r \in Receivers, RecvTake(r)
    PROVE  Fifo!Recv(r)
<1>1. mask \in Int /\ mask >= 0 /\ count > 0
  BY ConstantsAssumption DEF RecvTake, LockInv, Sound, Threads, RingInv, MemoryOK
<1>2. RawRecv /\ rd \in Nat
  BY <1>1 DEF RecvTake, RingInv
<1>3. /\ mask' = mask /\ data' = data /\ count' = count - 1
      /\ \A k \in 0 .. count - 2 : Slot(k)' = Slot(k + 1)
  BY <1>1, <1>2, RawRecvFacts
<1>4. /\ count \in Nat
      /\ Contents = [k \in 1 .. count |-> data[Slot(k - 1)]]
  BY <1>1, ContentsFacts
<1>5. Contents' = [k \in 1 .. count - 1 |-> data[Slot(k - 1)']]
  BY <1>1, <1>3 DEF Contents
<1>6. Contents' = [k \in 1 .. count - 1 |-> Contents[k + 1]]
  <2>1. \A k \in 1 .. count - 1 : data[Slot(k - 1)'] = Contents[k + 1]
    BY <1>1, <1>3, <1>4
  <2> QED  BY <1>5, <2>1
<1>7. Contents[1] = data[rd]
  <2>1. Slot(0) = rd
    BY <1>1 DEF Slot, RingInv
  <2> QED  BY <1>1, <1>4, <2>1
<1>8. Contents # <<>> /\ Head(Contents) = data[rd] /\ Contents' = Tail(Contents)
  BY <1>1, <1>4, <1>6, <1>7, TailIs
<1>9. /\ result' = [result EXCEPT ![r] = <<"got", data[rd]>>]
      /\ sent' = sent /\ mask # ChannelDeadMask /\ mask' # ChannelDeadMask
      /\ maxItems' = maxItems
  BY <1>1, <1>3 DEF RecvTake, RawRecv, Return, ChannelDeadMask
<1> QED  BY <1>8, <1>9 DEF Fifo!Recv, Fifo!Answer

(***************************************************************************)
(* A channel is a FIFO queue of at most maxItems messages: none is lost,   *)
(* duplicated or overtaken, whatever the interleaving of sends and         *)
(* receives, growth of the ring included, and however often a channel that *)
(* had no ring is closed and opened.                                       *)
(***************************************************************************)
THEOREM ChannelRefinesFifo == ASSUME FreshOpenings PROVE Spec => RefinesFifo
<1>1. Init => Fifo!Init
  BY DEF Init, Fifo!Init, Contents, ChannelDeadMask, Threads
<1>2. LockInv /\ RingInv /\ [Next]_vars => [Fifo!Next]_(Fifo!fifoVars)
  <2> SUFFICES ASSUME LockInv, RingInv, [Next]_vars
               PROVE  Fifo!Next \/ UNCHANGED Fifo!fifoVars
    OBVIOUS
  <2>0. /\ UNCHANGED <<mask, rd, count, data>> => UNCHANGED <<Contents, mask>>
        /\ mask # -2 => Len(Contents) = count
    BY ContentsFacts DEF Contents, Slot, Cap
  <2>1. CASE UNCHANGED vars
    BY <2>0, <2>1 DEF vars, Fifo!fifoVars
  <2>2. ASSUME NEW s \in Senders, SenderStep(s)
        PROVE  Fifo!Next \/ UNCHANGED Fifo!fifoVars
    <3>1. CASE SendPut(s)
      BY <3>1, SendRefines DEF Fifo!Next
    <3>2. CASE TrySendFull(s)
      <4>1. Fifo!TrySendRefused(s)
        BY <3>2, <2>0, ConstantsAssumption
        DEF TrySendFull, Full, ring, Return, Fifo!TrySendRefused, Fifo!HasRoom,
            Fifo!Answer, LockInv, Sound, Threads, ChannelDeadMask
      <4> QED  BY <4>1 DEF Fifo!Next
    <3>3. CASE CallSend(s) \/ CallSendDead(s) \/ SendWait(s)
      BY <3>3, <2>0 DEF CallSend, CallSendDead, SendWait, ring, Fifo!fifoVars
    <3> QED  BY <2>2, <3>1, <3>2, <3>3 DEF SenderStep, InSend
  <2>3. ASSUME NEW r \in Receivers, ReceiverStep(r)
        PROVE  Fifo!Next \/ UNCHANGED Fifo!fifoVars
    <3>1. CASE RecvTake(r)
      BY <3>1, RecvRefines DEF Fifo!Next
    <3>2. CASE CallTry(r)
      <4>1. \/ UNCHANGED Fifo!fifoVars
            \/ Fifo!TryRecvFails(r)
            \/ Fifo!Peek(r)
        BY <3>2, <2>0
        DEF CallTry, ring, Return, Fifo!fifoVars, Fifo!TryRecvFails, Fifo!Peek, Fifo!Answer
      <4> QED  BY <4>1 DEF Fifo!Next
    <3>3. CASE TryRecvContended(r) \/ TryRecvEmpty(r)
      <4>1. Fifo!TryRecvFails(r)
        BY <3>3, <2>0
        DEF TryRecvContended, TryRecvEmpty, ring, Return, Fifo!TryRecvFails, Fifo!Answer
      <4> QED  BY <4>1 DEF Fifo!Next
    <3>4. CASE Peek(r)
      <4>1. Fifo!Peek(r)
        BY <3>4, <2>0, ConstantsAssumption
        DEF Peek, ring, Return, Fifo!Peek, Fifo!Answer, LockInv, Sound, Threads,
            ChannelDeadMask
      <4> QED  BY <4>1 DEF Fifo!Next
    <3>5. CASE CallRecv(r) \/ EnterLlRecv(r) \/ RecvWait(r)
      BY <3>5, <2>0 DEF CallRecv, EnterLlRecv, RecvWait, ring, Fifo!fifoVars
    <3> QED  BY <2>3, <3>1, <3>2, <3>3, <3>4, <3>5 DEF ReceiverStep, InReceive
  <2>4. ASSUME NEW t \in Threads, Acquire(t) \/ SpuriousWakeup(t)
        PROVE  Fifo!Next \/ UNCHANGED Fifo!fifoVars
    BY <2>4, <2>0 DEF Acquire, SpuriousWakeup, ring, Fifo!fifoVars
  <2>5. CASE Close
    <3>1. Fifo!Close
      BY <2>5 DEF Close, Fifo!Close, Contents, ChannelDeadMask
    <3> QED  BY <3>1 DEF Fifo!Next
  <2>6. CASE Open
    <3>1. Fifo!Open
      BY <2>6 DEF Open, Fifo!Open, Contents, ChannelDeadMask
    <3> QED  BY <3>1 DEF Fifo!Next
  <2> QED  BY <2>1, <2>2, <2>3, <2>4, <2>5, <2>6 DEF Next
<1> QED
  BY <1>1, <1>2, RingInvHolds, PTL DEF Spec, RefinesFifo, Fifo!Spec
=============================================================================
