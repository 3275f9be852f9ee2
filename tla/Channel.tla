------------------------------ MODULE Channel ------------------------------
(***************************************************************************)
(* The message channel of lib/system/channels_builtin.nim: a growing ring  *)
(* buffer under one lock, with ONE condition variable on which blocked     *)
(* senders and blocked receivers wait together.                            *)
(*                                                                         *)
(* An action is a stretch of code between two points where another thread  *)
(* can look: taking the lock is a step, and so is a critical section up to *)
(* its release or its wait.  A message is <<sender, number>>.              *)
(***************************************************************************)
EXTENDS Integers, Sequences, FiniteSets

CONSTANTS Senders,      \* threads that call send and trySend
          Receivers,    \* threads that call recv, tryRecv and peek
          Limits,       \* arguments of open; 0 means "unlimited"
          MaxSends,     \* bound: messages each sender tries to send
          ReopenUsed,   \* the program opens a channel again that had a ring
          Triers,       \* threads that call trySend, tryRecv and peek as well
          NoThread,     \* the lock's owner when it is free
          Closer        \* its owner for ever, once close has destroyed it

Threads == Senders \cup Receivers

ASSUME ConstantsAssumption ==
    /\ Limits \subseteq Nat /\ MaxSends \in Nat
    /\ Triers \subseteq Threads
    /\ NoThread \notin Threads /\ Closer \notin Threads /\ NoThread # Closer
    /\ Senders \cap Receivers = {}
    /\ ReopenUsed \in BOOLEAN

VARIABLES mask,    \* capacity - 1; -1: nothing allocated, -2: closed
          rd, wr, count,
          data,    \* the ring: slot -> message
          memory,  \* of the ring: none, owned, freed, or misused after that
          maxItems,
          lock,    \* the thread inside the critical section
          ready,   \* the unlocked "some thread is waiting" hint
          pc,      \* where each thread is
          sent,    \* number of messages each sender is done with
          result   \* what the last call of each thread returned

ring == <<mask, rd, wr, count, data, memory, maxItems>>
vars == <<mask, rd, wr, count, data, memory, maxItems, lock, ready, pc, sent, result>>

ChannelDeadMask == -2

Zeroed == <<>>                        \* the bytes of a slot nobody has written

----------------------------------------------------------------------------
(* Faulty variants of the definitions below: each property must notice one *)

SuccWrapsEarly(i, m) == IF i + 1 = m THEN 0 ELSE i + 1
UnreadIgnoresRd(k) == data[k]
ReadyNotCleared == UNCHANGED ready
SignalLost(newpc) == pc' = newpc

----------------------------------------------------------------------------
(* The ring, the condition variable, and what a call returns               *)

Cap == mask + 1

\* (i + 1) and m, for a mask m that is a power of two minus one and i <= m
Succ(i, m) == IF i = m THEN 0 ELSE i + 1

\* where the message lies that k others are ahead of
Slot(k) == IF rd + k <= mask THEN rd + k ELSE rd + k - Cap

Unread(k) == data[Slot(k)]

Full == maxItems > 0 /\ count >= maxItems

\* llRecv takes it that a sender waits when this is the first free place
FirstFreePlace == maxItems > 0 /\ count' = maxItems - 1

ClearReady == ready' = FALSE

\* freed memory that is read, written or freed again: what follows stands for nothing
Touched(m) == IF m = "freed" THEN "misused" ELSE m

Return(t, v) == result' = [result EXCEPT ![t] = v]

Waiting == {t \in Threads : pc[t] \in {"sendWait", "recvWait"}}

Woken(p) == IF p = "sendWait" THEN "sendWoken" ELSE "recvWoken"

\* signalSysCond by a thread that moves on to newpc: any one waiter wakes up
Signal(newpc) ==
    \/ Waiting = {} /\ pc' = newpc
    \/ \E w \in Waiting : pc' = [newpc EXCEPT ![w] = Woken(pc[w])]

\* sendImpl signals whatever the count was
SignalArrival(newpc) == Signal(newpc)

\* rawSend: double the ring when it is full, then append
RawSend(m) ==
    LET grow    == count >= Cap
        newMask == IF Cap = 0 THEN 1 ELSE 2 * Cap - 1
        copied  == [i \in 0 .. newMask |-> IF i < count THEN Unread(i) ELSE Zeroed]
        w       == IF grow THEN count ELSE wr
        mk      == IF grow THEN newMask ELSE mask
    IN  /\ mask' = mk
        /\ rd' = IF grow THEN 0 ELSE rd
        /\ data' = [(IF grow THEN copied ELSE data) EXCEPT ![w] = m]
        /\ count' = count + 1
        /\ wr' = Succ(w, mk)
        /\ memory' = IF memory = "none" THEN "owned" ELSE Touched(memory)
        /\ UNCHANGED maxItems

\* rawRecv: the oldest message leaves the ring, its bytes stay in the slot
RawRecv ==
    /\ count' = count - 1
    /\ rd' = Succ(rd, mask)
    /\ memory' = Touched(memory)
    /\ UNCHANGED <<mask, wr, data, maxItems>>

----------------------------------------------------------------------------
(* A call begins with a look at the mask, outside the lock                 *)

Init ==
    /\ mask = -1 /\ rd = 0 /\ wr = 0 /\ count = 0 /\ data = <<>> /\ memory = "none"
    /\ maxItems \in Limits
    /\ lock = NoThread /\ ready = FALSE
    /\ pc = [t \in Threads |-> "idle"]
    /\ sent = [s \in Senders |-> 0]
    /\ result = [t \in Threads |-> <<>>]

CallSend(s) ==
    /\ pc[s] = "idle" /\ sent[s] < MaxSends /\ mask # ChannelDeadMask
    /\ \/ pc' = [pc EXCEPT ![s] = "send"]
       \/ s \in Triers /\ pc' = [pc EXCEPT ![s] = "trySend"]
    /\ UNCHANGED <<ring, lock, ready, sent, result>>

\* a send on a closed channel raises DeadThreadDefect, which ends the thread
CallSendDead(s) ==
    /\ pc[s] = "idle" /\ sent[s] < MaxSends /\ mask = ChannelDeadMask
    /\ pc' = [pc EXCEPT ![s] = "raised"]
    /\ UNCHANGED <<ring, lock, ready, sent, result>>

\* recv does not look at the mask: a program may only call it on an open channel
CallRecv(r) ==
    /\ pc[r] = "idle" /\ mask # ChannelDeadMask
    /\ pc' = [pc EXCEPT ![r] = "recv"]
    /\ UNCHANGED <<ring, lock, ready, sent, result>>

CallTry(r) ==
    /\ r \in Triers /\ pc[r] = "idle"
    /\ \/ /\ mask # ChannelDeadMask
          /\ \E p \in {"tryRecv", "peek"} : pc' = [pc EXCEPT ![r] = p]
          /\ UNCHANGED result
       \/ /\ mask = ChannelDeadMask
          /\ \E v \in {<<"none">>, <<"count", -1>>} : Return(r, v)
          /\ UNCHANGED pc
    /\ UNCHANGED <<ring, lock, ready, sent>>

----------------------------------------------------------------------------
(* The lock                                                                *)

\* the critical section that each wish for the lock leads to
Section ==
    [send     |-> "sendLocked",    sendWoken |-> "sendLocked",
     trySend  |-> "trySendLocked", recv      |-> "recvLocked",
     recvWoken |-> "llRecv",     tryRecv   |-> "tryRecvLocked",
     peek     |-> "peekLocked"]

Acquire(t) ==
    /\ lock = NoThread /\ pc[t] \in DOMAIN Section
    /\ lock' = t
    /\ pc' = [pc EXCEPT ![t] = Section[pc[t]]]
    /\ UNCHANGED <<ring, ready, sent, result>>

\* tryAcquireSys found the lock taken
TryRecvContended(r) ==
    /\ lock # NoThread /\ pc[r] = "tryRecv"
    /\ pc' = [pc EXCEPT ![r] = "idle"]
    /\ Return(r, <<"none">>)
    /\ UNCHANGED <<ring, lock, ready, sent>>

\* a condition variable may wake a thread that nobody signalled
SpuriousWakeup(t) ==
    /\ t \in Waiting
    /\ pc' = [pc EXCEPT ![t] = Woken(pc[t])]
    /\ UNCHANGED <<ring, lock, ready, sent, result>>

----------------------------------------------------------------------------
(* send and trySend                                                        *)

TrySendFull(s) ==
    /\ lock = s /\ pc[s] = "trySendLocked" /\ Full
    /\ lock' = NoThread
    /\ pc' = [pc EXCEPT ![s] = "idle"]
    /\ sent' = [sent EXCEPT ![s] = @ + 1]
    /\ Return(s, <<"full">>)
    /\ UNCHANGED <<ring, ready>>

SendWait(s) ==
    /\ lock = s /\ pc[s] = "sendLocked" /\ Full
    /\ lock' = NoThread
    /\ pc' = [pc EXCEPT ![s] = "sendWait"]
    /\ UNCHANGED <<ring, ready, sent, result>>

SendPut(s) ==
    /\ lock = s /\ pc[s] \in {"sendLocked", "trySendLocked"} /\ ~Full
    /\ RawSend(<<s, sent[s] + 1>>)
    /\ SignalArrival([pc EXCEPT ![s] = "idle"])
    /\ lock' = NoThread
    /\ sent' = [sent EXCEPT ![s] = @ + 1]
    /\ Return(s, <<"sent">>)
    /\ UNCHANGED ready

----------------------------------------------------------------------------
(* recv, tryRecv and peek                                                  *)

\* llRecv sets ready before it looks at the count, also with a message there
EnterLlRecv(r) ==
    /\ lock = r
    /\ \/ pc[r] = "recvLocked"
       \/ pc[r] = "tryRecvLocked" /\ count > 0
    /\ ready' = TRUE
    /\ pc' = [pc EXCEPT ![r] = "llRecv"]
    /\ UNCHANGED <<ring, lock, sent, result>>

RecvWait(r) ==
    /\ lock = r /\ pc[r] = "llRecv" /\ count <= 0
    /\ lock' = NoThread
    /\ pc' = [pc EXCEPT ![r] = "recvWait"]
    /\ UNCHANGED <<ring, ready, sent, result>>

\* the rest of llRecv: only a receive that leaves maxItems - 1 messages signals
RecvTake(r) ==
    /\ lock = r /\ pc[r] = "llRecv" /\ count > 0
    /\ ClearReady
    /\ Return(r, <<"got", data[rd]>>)
    /\ RawRecv
    /\ IF FirstFreePlace
         THEN Signal([pc EXCEPT ![r] = "idle"])
         ELSE pc' = [pc EXCEPT ![r] = "idle"]
    /\ lock' = NoThread
    /\ UNCHANGED sent

TryRecvEmpty(r) ==
    /\ lock = r /\ pc[r] = "tryRecvLocked" /\ count <= 0
    /\ lock' = NoThread
    /\ pc' = [pc EXCEPT ![r] = "idle"]
    /\ Return(r, <<"none">>)
    /\ UNCHANGED <<ring, ready, sent>>

Peek(r) ==
    /\ lock = r /\ pc[r] = "peekLocked"
    /\ lock' = NoThread
    /\ pc' = [pc EXCEPT ![r] = "idle"]
    /\ Return(r, <<"count", count>>)
    /\ UNCHANGED <<ring, ready, sent>>

----------------------------------------------------------------------------
(* close and open, by the owner of the channel                             *)

\* deinitRawChannel frees the ring and destroys the lock while it holds it, so
\* that on a POSIX build nobody gets the lock again; the pointer to the ring, rd,
\* wr and count keep their values.  A careful program has joined the other users.
Close ==
    /\ mask # ChannelDeadMask /\ lock = NoThread
    /\ \A t \in Threads : pc[t] \in {"idle", "raised"}
    /\ mask' = ChannelDeadMask
    /\ lock' = Closer
    /\ memory' = IF memory = "owned" THEN "freed" ELSE Touched(memory)
    /\ UNCHANGED <<rd, wr, count, data, maxItems, ready, pc, sent, result>>

\* initRawChannel: a new lock, mask and maxItems (here the one it had), and nothing
\* else: a channel that had a ring grows from the freed one.  ReopenUsed = FALSE
\* is a program that does not open such a channel again.
Open ==
    /\ mask = ChannelDeadMask
    /\ ReopenUsed \/ memory = "none"
    /\ mask' = -1
    /\ lock' = NoThread
    /\ UNCHANGED <<rd, wr, count, data, memory, maxItems, ready, pc, sent, result>>

----------------------------------------------------------------------------
InSend(s) == TrySendFull(s) \/ SendWait(s) \/ SendPut(s)

InReceive(r) ==
    \/ TryRecvContended(r) \/ EnterLlRecv(r) \/ RecvWait(r) \/ RecvTake(r)
    \/ TryRecvEmpty(r) \/ Peek(r)

SenderStep(s) == CallSend(s) \/ CallSendDead(s) \/ InSend(s)

ReceiverStep(r) == CallRecv(r) \/ CallTry(r) \/ InReceive(r)

Next ==
    \/ \E s \in Senders : SenderStep(s)
    \/ \E r \in Receivers : ReceiverStep(r)
    \/ \E t \in Threads : Acquire(t) \/ SpuriousWakeup(t)
    \/ Close \/ Open

Spec == Init /\ [][Next]_vars

(* A thread inside a call goes on, and none waits for ever for a lock that  *)
(* is free again and again.  Nobody has to call anything again.            *)
FairSpec ==
    /\ Spec
    /\ \A s \in Senders : WF_vars(InSend(s))
    /\ \A r \in Receivers : WF_vars(InReceive(r))
    /\ \A t \in Threads : SF_vars(Acquire(t))

----------------------------------------------------------------------------
(* Properties                                                              *)

Slots == 0 .. mask

PCs == {"idle", "raised", "sendWait", "recvWait"}
         \cup DOMAIN Section \cup {Section[p] : p \in DOMAIN Section}

\* The types of the variables, the shape of the ring included.
TypeOK ==
    /\ mask \in Int /\ rd \in Nat /\ wr \in Nat /\ count \in Nat /\ maxItems \in Limits
    /\ lock \in Threads \cup {NoThread, Closer}
    /\ ready \in BOOLEAN
    /\ pc \in [Threads -> PCs]
    /\ sent \in [Senders -> 0 .. MaxSends]
    /\ memory \in {"none", "owned", "freed", "misused"}

\* The ring's indices (rawSend, rawRecv): what lies between rd and wr is count
\* messages, through every growth and wrap around.
RingIndices ==
    mask >= 0 => /\ rd \in Slots /\ wr \in Slots
                 /\ count <= Cap
                 /\ wr = Slot(count)

\* No more than maxItems messages are ever queued, whatever the mix of blocked
\* senders, trySend and wakeups (sendImpl tests the count once it has the lock).
WithinCapacity == maxItems > 0 => count <= maxItems

\* q.ready is not left behind: while it is set, some receiver is in llRecv, or
\* asleep or waking up in it (also with several receivers that share the flag).
\* A reader without the lock may see it set by a receive that finds a message, and
\* find it clear while a second receiver sleeps on.
ReadyMeansReceiver ==
    ready => \E r \in Receivers : pc[r] \in {"llRecv", "recvWait", "recvWoken"}

\* The queue a user sees, oldest message first.
Contents ==
    IF mask < 0 THEN <<>> ELSE [k \in 1 .. count |-> data[Slot(k - 1)]]

Fifo == INSTANCE ChannelFifo WITH queue <- Contents, isOpen <- (mask # ChannelDeadMask)

\* The channel is a bounded FIFO queue: nothing lost, duplicated or reordered.
RefinesFifo == Fifo!Spec

\* No sender sleeps for ever beside a channel with room ("will block until number
\* of unprocessed items is less than maxItems").
SenderNotForgotten ==
    []<>~(count < maxItems /\ \E s \in Senders : pc[s] = "sendWait")

\* No receiver sleeps for ever beside a message ("blocks until a message has
\* arrived").
ReceiverNotForgotten ==
    []<>~(count > 0 /\ \E r \in Receivers : pc[r] = "recvWait")

\* Senders and receivers asleep together: one signal may wake the wrong kind.
Mixed ==
    /\ \E s \in Senders : pc[s] = "sendWait"
    /\ \E r \in Receivers : pc[r] = "recvWait"

\* What open and recv say of blocking calls, for any threads.
NobodyForgotten == SenderNotForgotten /\ ReceiverNotForgotten

\* The signals of lines 364 and 407 are enough as long as those asleep are all of one
\* kind: always on a channel without a limit, and with one sender and one receiver.
OneKindNotForgotten == ([]~Mixed) => NobodyForgotten
=============================================================================
