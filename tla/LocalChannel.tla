---------------------------- MODULE LocalChannel ----------------------------
(***************************************************************************)
(* The local channel (sync/channels/local.rs).  It keeps the promise of the *)
(* shared one, FifoChannel, with other means: there is no lock, and the     *)
(* partner of an operation is executed inside the operation's poll.         *)
(*                                                                          *)
(* pc: "idle", "send" and "recv" (waiting), "ok" (WokenToReturnReady) and   *)
(* "closed" (WokenByClose).                                                 *)
(***************************************************************************)
EXTENDS LocalExecutor

CONSTANTS
    Capacities,
    MaxSends      \* bound: sends; a value is the number of its send

VARIABLES
    storage, is_closed, capacity,
    senders, receivers,    \* the waiting tasks
    sent,                  \* the sends made so far
    carried,               \* the value of each waiting sender, otherwise 0
    received               \* the values written to each task's slots

channelVars == <<storage, is_closed, capacity, senders, receivers, sent, carried, received>>

ChannelInit ==
    /\ storage = <<>> /\ is_closed = FALSE
    /\ senders = <<>> /\ receivers = <<>>
    /\ sent = 0
    /\ carried = [t \in Tasks |-> 0]
    /\ received = [t \in Tasks |-> <<>>]

Calls(t) == Running(t) /\ pc[t] = "idle"

\* A partner is woken with its operation done.
WakeOk(t) ==
    /\ GoTo(t, "ok")
    /\ carried' = [carried EXCEPT ![t] = 0]
    /\ ExecTask(t)

\* The value is stored.
SendStores(t) ==
    /\ storage' = Append(storage, sent')
    /\ Stay /\ UNCHANGED <<pc, senders, receivers, carried, received>>

\* WaitLocalSend::poll and try_send on an open channel; only the first waits.
Send(t, waits) ==
    \/ /\ receivers # <<>>
       /\ receivers' = Tail(receivers)
       /\ received' = [received EXCEPT ![Head(receivers)] = Append(@, sent')]
       /\ WakeOk(Head(receivers))
       /\ UNCHANGED <<storage, senders>>
    \/ /\ receivers = <<>> /\ Len(storage) >= capacity
       /\ IF waits
          THEN /\ senders' = Append(senders, t)
               /\ carried' = [carried EXCEPT ![t] = sent']
               /\ GoTo(t, "send") /\ Return
          ELSE Stay /\ UNCHANGED <<pc, senders, carried>>
       /\ UNCHANGED <<storage, receivers, received>>
    \/ receivers = <<>> /\ Len(storage) < capacity /\ SendStores(t)

LocalSend(t) ==
    /\ Calls(t) /\ ~is_closed
    /\ sent < MaxSends /\ sent' = sent + 1
    /\ \E waits \in BOOLEAN : Send(t, waits)
    /\ UNCHANGED <<left, loop, is_closed, capacity>>

\* Slip: a waiting sender is served before what is stored.
ReceiveYoungest(t, waits) ==
    LET s == Head(senders)
    IN \/ /\ senders # <<>>
          /\ received' = [received EXCEPT ![t] = Append(@, carried[s])]
          /\ senders' = Tail(senders)
          /\ WakeOk(s)
          /\ UNCHANGED <<storage, receivers>>
       \/ /\ senders = <<>> /\ storage # <<>>
          /\ received' = [received EXCEPT ![t] = Append(@, Head(storage))]
          /\ storage' = Tail(storage)
          /\ Stay /\ UNCHANGED <<pc, senders, receivers, carried>>
       \/ /\ senders = <<>> /\ storage = <<>> /\ waits
          /\ receivers' = Append(receivers, t)
          /\ GoTo(t, "recv") /\ Return
          /\ UNCHANGED <<storage, senders, carried, received>>

\* WaitLocalRecv::poll and try_recv_in_ptr on an open channel.  A sender that waits
\* is executed when its value is in the slot, or in the storage in place of the
\* value received.
Receive(t, waits) ==
    LET s == Head(senders)
    IN \/ /\ storage = <<>> /\ senders # <<>>
          /\ received' = [received EXCEPT ![t] = Append(@, carried[s])]
          /\ senders' = Tail(senders)
          /\ WakeOk(s)
          /\ UNCHANGED <<storage, receivers>>
       \/ /\ storage = <<>> /\ senders = <<>> /\ waits
          /\ receivers' = Append(receivers, t)
          /\ GoTo(t, "recv") /\ Return
          /\ UNCHANGED <<storage, senders, carried, received>>
       \/ /\ storage # <<>>
          /\ received' = [received EXCEPT ![t] = Append(@, Head(storage))]
          /\ IF senders = <<>>
             THEN storage' = Tail(storage) /\ Stay /\ UNCHANGED <<pc, senders, carried>>
             ELSE /\ storage' = Append(Tail(storage), carried[s])
                  /\ senders' = Tail(senders)
                  /\ WakeOk(s)
          /\ UNCHANGED receivers

LocalRecv(t) ==
    /\ Calls(t) /\ ~is_closed
    /\ \E waits \in BOOLEAN : Receive(t, waits)
    /\ UNCHANGED <<left, loop, is_closed, capacity, sent>>

\* The second poll of an operation that had to wait.
ChannelReturns(t) ==
    /\ Running(t) /\ pc[t] \in {"ok", "closed"}
    /\ GoTo(t, "idle") /\ Stay
    /\ UNCHANGED <<left, loop, channelVars>>

\* close(): the senders are drained, then the receivers.
LocalClose(t) ==
    /\ Calls(t)
    /\ is_closed' = TRUE
    /\ senders' = <<>>
    /\ loop' = [loop EXCEPT ![t] = <<"senders", senders>>]
    /\ Stay /\ UNCHANGED <<left, pc, storage, capacity, receivers, sent, carried, received>>

CloseNext(t) ==
    /\ Looping(t)
    /\ LET rest == loop[t][2]
       IN \/ /\ rest # <<>>
             /\ loop' = [loop EXCEPT ![t] = <<@[1], Tail(rest)>>]
             /\ GoTo(Head(rest), "closed")
             /\ ExecTask(Head(rest))
             /\ UNCHANGED receivers
          \/ /\ rest = <<>>
             /\ loop' = [loop EXCEPT ![t] = IF @[1] = "senders" THEN <<"receivers", receivers>> ELSE <<>>]
             /\ receivers' = IF loop[t][1] = "senders" THEN <<>> ELSE receivers
             /\ Stay /\ UNCHANGED pc
    /\ UNCHANGED <<left, storage, is_closed, capacity, senders, sent, carried, received>>

ChannelYield(t) ==
    /\ pc[t] = "idle"
    /\ YieldNow(t)
    /\ UNCHANGED <<pc, channelVars>>

ChannelNext ==
    \/ (NewRound \/ RunNext) /\ UNCHANGED channelVars
    \/ \E t \in Tasks :
          \/ LocalSend(t) \/ LocalRecv(t) \/ ChannelReturns(t)
          \/ LocalClose(t) \/ CloseNext(t) \/ ChannelYield(t)

-----------------------------------------------------------------------------
Fifo == INSTANCE FifoChannel WITH
           Values <- 1 .. MaxSends,
           Receivers <- Tasks,
           queue <- storage \o [i \in DOMAIN senders |-> carried[senders[i]]],
           given <- received,
           closed <- is_closed

\* The local channel implements FifoChannel: every value is received once and in
\* the order in which it was accepted, whatever runs inside an operation.
LocalImplementsFifo == Fifo!Spec

\* The tasks that a close() in progress has drained and not yet woken.
Draining(t) == {s \in Tasks : loop[s] # <<>> /\ Occurs(t, loop[s][2]) > 0}

\* Nobody waits for what is there: senders wait only at a full storage and without
\* receivers, receivers only at an empty one, and nobody at a closed channel; a
\* waiting task is queued once, or ahead of one close().
LocalNobodyWaitsInVain ==
    kind = "channel" =>
       /\ senders # <<>> => receivers = <<>> /\ Len(storage) = capacity
       /\ receivers # <<>> => storage = <<>>
       /\ is_closed => senders = <<>>
       /\ is_closed /\ (\A t \in Tasks : loop[t] = <<>>) => receivers = <<>>
       /\ \A t \in Tasks :
             Occurs(t, stack) + Occurs(t, local_tasks) + Occurs(t, senders)
               + Occurs(t, receivers) + Cardinality(Draining(t)) = Exists(t)

=============================================================================
