---------------------------- MODULE ChannelFifo ----------------------------
(***************************************************************************)
(* What a channel promises its users: a FIFO queue of at most maxItems     *)
(* messages (0: no limit), each operation in one step.                     *)
(***************************************************************************)
EXTENDS Integers, Sequences

CONSTANTS Senders, Receivers, Limits

VARIABLES maxItems,
          queue,   \* the messages sent and not yet received
          isOpen,
          sent,    \* how many messages each sender is done with
          result   \* what the last call of each thread returned

fifoVars == <<maxItems, queue, isOpen, sent, result>>

HasRoom == maxItems > 0 => Len(queue) < maxItems

Answer(t, v) == result' = [result EXCEPT ![t] = v]

Init ==
    /\ maxItems \in Limits /\ queue = <<>> /\ isOpen = TRUE
    /\ sent = [s \in Senders |-> 0]
    /\ result = [t \in Senders \cup Receivers |-> <<>>]

Send(s) ==
    /\ isOpen /\ HasRoom
    /\ queue' = Append(queue, <<s, sent[s] + 1>>)
    /\ sent' = [sent EXCEPT ![s] = @ + 1]
    /\ Answer(s, <<"sent">>)
    /\ UNCHANGED <<maxItems, isOpen>>

TrySendRefused(s) ==
    /\ isOpen /\ ~HasRoom
    /\ sent' = [sent EXCEPT ![s] = @ + 1]
    /\ Answer(s, <<"full">>)
    /\ UNCHANGED <<maxItems, queue, isOpen>>

Recv(r) ==
    /\ isOpen /\ queue # <<>>
    /\ queue' = Tail(queue)
    /\ Answer(r, <<"got", Head(queue)>>)
    /\ UNCHANGED <<maxItems, isOpen, sent>>

\* tryRecv "can fail for all sort of reasons"
TryRecvFails(r) ==
    /\ Answer(r, <<"none">>)
    /\ UNCHANGED <<maxItems, queue, isOpen, sent>>

Peek(r) ==
    /\ Answer(r, <<"count", IF isOpen THEN Len(queue) ELSE -1>>)
    /\ UNCHANGED <<maxItems, queue, isOpen, sent>>

Close ==
    /\ isOpen /\ isOpen' = FALSE /\ queue' = <<>>
    /\ UNCHANGED <<maxItems, sent, result>>

Open ==
    /\ ~isOpen /\ isOpen' = TRUE
    /\ UNCHANGED <<maxItems, queue, sent, result>>

Next ==
    \/ \E s \in Senders : Send(s) \/ TrySendRefused(s)
    \/ \E r \in Receivers : Recv(r) \/ TryRecvFails(r) \/ Peek(r)
    \/ Close \/ Open

Spec == Init /\ [][Next]_fifoVars
=============================================================================
