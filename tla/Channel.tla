------------------------------ MODULE Channel ------------------------------
(***************************************************************************)
(* The shared `Channel` of sync/channels/shared.rs.                         *)
(*                                                                          *)
(* The whole state is behind a NaiveMutex.  A poll that has to wait pushes  *)
(* its task to a deque and leaves the mutex locked; the executor releases   *)
(* it once the poll has returned Pending (Call::ReleaseAtomicBool).  A poll *)
(* that finds a partner waiting pops it, drops the lock, and only then      *)
(* writes the value and the partner's call state and wakes it.  What a poll *)
(* does between taking and dropping the lock is one step: no other task     *)
(* sees the state meanwhile.                                                *)
(***************************************************************************)
EXTENDS Integers, Sequences, Functions

CONSTANTS
    Senders,    \* the tasks that send
    Receivers,  \* the tasks that receive
    Capacities, \* the capacities a channel may be made with
    MaxOps      \* bound: operations each task makes

ASSUME CapacitiesNat == Capacities \subseteq Nat
ASSUME MaxOpsNat == MaxOps \in Nat
ASSUME Disjoint == Senders \cap Receivers = {}

Tasks == Senders \cup Receivers

\* A value is named after its sender and the number of its send.
Values == Senders \X (1 .. MaxOps)

NoTask == <<>>

ASSUME NoTaskIsNone == NoTask \notin Tasks

VARIABLES
    storage,    \* Inner::storage
    is_closed,  \* Inner::is_closed
    capacity,   \* Inner::capacity, never changed
    senders,    \* Inner::deques.senders
    receivers,  \* Inner::deques.receivers
    lock,       \* who keeps the NaiveMutex locked from one step to the next
    state,      \* where each task is in its current operation
    partner,    \* the task that a poll has popped and has still to wake
    op,         \* the number of the current or last operation of each task
    received    \* the values written to each receiver's slot

vars == <<storage, is_closed, capacity, senders, receivers, lock, state, partner, op,
          received>>

State == {"idle", "release", "parked", "waking", "ok", "closed"}

TypeOK ==
    /\ storage \in Seq(Values)
    /\ is_closed \in BOOLEAN
    /\ capacity \in Capacities
    /\ senders \in Seq(Senders)
    /\ receivers \in Seq(Receivers)
    /\ lock \in Tasks \cup {NoTask}
    /\ state \in [Tasks -> State]
    /\ partner \in [Tasks -> Tasks \cup {NoTask}]
    /\ op \in [Tasks -> 0 .. MaxOps]
    /\ received \in [Receivers -> Seq(Values)]

Init ==
    /\ storage = <<>>
    /\ is_closed = FALSE
    /\ capacity \in Capacities
    /\ senders = <<>>
    /\ receivers = <<>>
    /\ lock = NoTask
    /\ state = [t \in Tasks |-> "idle"]
    /\ partner = [t \in Tasks |-> NoTask]
    /\ op = [t \in Tasks |-> 0]
    /\ received = [r \in Receivers |-> <<>>]

\* The value of the current send of s.
Value(s) == <<s, op[s]>>

\* Task t begins an operation: it is idle and gets the lock.  When it does not,
\* the task is put at the end of the executor's queue and polled again.
Begin(t) ==
    /\ state[t] = "idle"
    /\ op[t] < MaxOps
    /\ lock = NoTask
    /\ op' = [op EXCEPT ![t] = @ + 1]
    /\ UNCHANGED capacity

-----------------------------------------------------------------------------
(* Sending *)

\* Closed: the value goes back to the caller.
SendClosed(s) ==
    /\ Begin(s)
    /\ is_closed
    /\ UNCHANGED <<storage, is_closed, senders, receivers, lock, state, partner, received>>

\* Slip: the receiver is looked at and left in its deque.
SendToReceiverPeeks(s) ==
    /\ Begin(s)
    /\ ~is_closed
    /\ receivers # <<>>
    /\ partner' = [partner EXCEPT ![s] = Head(receivers)]
    /\ state' = [state EXCEPT ![s] = "waking"]
    /\ UNCHANGED <<storage, is_closed, senders, receivers, lock, received>>

\* A receiver waits: it is popped and the lock is dropped.
SendToReceiver(s) ==
    /\ Begin(s)
    /\ ~is_closed
    /\ receivers # <<>>
    /\ receivers' = Tail(receivers)
    /\ partner' = [partner EXCEPT ![s] = Head(receivers)]
    /\ state' = [state EXCEPT ![s] = "waking"]
    /\ UNCHANGED <<storage, is_closed, senders, lock, received>>

\* The value and the call state are written and the receiver is executed.
WakeReceiver(s) ==
    /\ s \in Senders
    /\ state[s] = "waking"
    /\ received' = [received EXCEPT ![partner[s]] = Append(@, Value(s))]
    /\ state' = [state EXCEPT ![s] = "idle", ![partner[s]] = "ok"]
    /\ partner' = [partner EXCEPT ![s] = NoTask]
    /\ UNCHANGED <<capacity, storage, is_closed, senders, receivers, lock, op>>

\* Slip: the value is put at the wrong end of the storage.
SendStoreInFront(s) ==
    /\ Begin(s)
    /\ ~is_closed
    /\ receivers = <<>>
    /\ Len(storage) < capacity
    /\ storage' = <<Value(s)'>> \o storage
    /\ UNCHANGED <<is_closed, senders, receivers, lock, state, partner, received>>

\* There is room: the value is stored.
SendStore(s) ==
    /\ Begin(s)
    /\ ~is_closed
    /\ receivers = <<>>
    /\ Len(storage) < capacity
    /\ storage' = Append(storage, Value(s)')
    /\ UNCHANGED <<is_closed, senders, receivers, lock, state, partner, received>>

\* send() to a full channel: the sender waits, with the mutex locked until the
\* executor releases it.
SendPark(s) ==
    /\ Begin(s)
    /\ ~is_closed
    /\ receivers = <<>>
    /\ Len(storage) >= capacity
    /\ senders' = Append(senders, s)
    /\ state' = [state EXCEPT ![s] = "release"]
    /\ lock' = s
    /\ UNCHANGED <<storage, is_closed, receivers, partner, received>>

\* try_send() to a full or, as far as the weak exchange can tell, locked channel.
TrySendFails(s) ==
    /\ state[s] = "idle"
    /\ op[s] < MaxOps
    /\ op' = [op EXCEPT ![s] = @ + 1]
    /\ UNCHANGED <<capacity, storage, is_closed, senders, receivers, lock, state, partner, received>>

Send(s) == SendClosed(s) \/ SendToReceiver(s) \/ SendStore(s) \/ SendPark(s)

-----------------------------------------------------------------------------
(* Receiving *)

RecvClosed(r) ==
    /\ Begin(r)
    /\ is_closed
    /\ UNCHANGED <<storage, is_closed, senders, receivers, lock, state, partner, received>>

\* A stored value is taken; no sender waits for the room.
RecvStored(r) ==
    /\ Begin(r)
    /\ ~is_closed
    /\ storage # <<>>
    /\ senders = <<>>
    /\ received' = [received EXCEPT ![r] = Append(@, Head(storage))]
    /\ storage' = Tail(storage)
    /\ UNCHANGED <<is_closed, senders, receivers, lock, state, partner>>

\* Slip: the waiting sender is left in its deque.
RecvStoredForgetsSender(r) ==
    /\ Begin(r)
    /\ ~is_closed
    /\ storage # <<>>
    /\ senders # <<>>
    /\ received' = [received EXCEPT ![r] = Append(@, Head(storage))]
    /\ storage' = Tail(storage)
    /\ UNCHANGED <<is_closed, senders, receivers, lock, state, partner>>

\* A stored value is taken and the value of the first waiting sender is stored
\* in its place; the lock is dropped before the sender is woken.
RecvStoredFromSender(r) ==
    /\ Begin(r)
    /\ ~is_closed
    /\ storage # <<>>
    /\ senders # <<>>
    /\ received' = [received EXCEPT ![r] = Append(@, Head(storage))]
    /\ storage' = Append(Tail(storage), Value(Head(senders)))
    /\ senders' = Tail(senders)
    /\ partner' = [partner EXCEPT ![r] = Head(senders)]
    /\ state' = [state EXCEPT ![r] = "waking"]
    /\ UNCHANGED <<is_closed, receivers, lock>>

\* Nothing is stored and a sender waits, which takes a capacity of 0: its value
\* is copied after the lock is dropped.
RecvFromSender(r) ==
    /\ Begin(r)
    /\ ~is_closed
    /\ storage = <<>>
    /\ senders # <<>>
    /\ senders' = Tail(senders)
    /\ partner' = [partner EXCEPT ![r] = Head(senders)]
    /\ state' = [state EXCEPT ![r] = "waking"]
    /\ received' = [received EXCEPT ![r] = Append(@, Value(Head(senders)))]
    /\ UNCHANGED <<storage, is_closed, receivers, lock>>

\* ... the sender's call state is written and it is executed.
WakeSender(r) ==
    /\ r \in Receivers
    /\ state[r] = "waking"
    /\ state' = [state EXCEPT ![r] = "idle", ![partner[r]] = "ok"]
    /\ partner' = [partner EXCEPT ![r] = NoTask]
    /\ UNCHANGED <<capacity, storage, is_closed, senders, receivers, lock, op, received>>

\* recv() from an empty channel.
RecvPark(r) ==
    /\ Begin(r)
    /\ ~is_closed
    /\ storage = <<>>
    /\ senders = <<>>
    /\ receivers' = Append(receivers, r)
    /\ state' = [state EXCEPT ![r] = "release"]
    /\ lock' = r
    /\ UNCHANGED <<storage, is_closed, senders, partner, received>>

\* try_recv() from an empty or locked channel.
TryRecvFails(r) ==
    /\ state[r] = "idle"
    /\ op[r] < MaxOps
    /\ op' = [op EXCEPT ![r] = @ + 1]
    /\ UNCHANGED <<capacity, storage, is_closed, senders, receivers, lock, state, partner, received>>

Recv(r) ==
    \/ RecvClosed(r) \/ RecvStored(r) \/ RecvStoredFromSender(r)
    \/ RecvFromSender(r) \/ RecvPark(r)

-----------------------------------------------------------------------------
(* The executor and close() *)

\* handle_call, ReleaseAtomicBool: the poll has returned Pending.
Release(t) ==
    /\ state[t] = "release"
    /\ lock' = NoTask
    /\ state' = [state EXCEPT ![t] = "parked"]
    /\ UNCHANGED <<capacity, storage, is_closed, senders, receivers, partner, op, received>>

\* A woken task is polled again and its operation returns.
Resume(t) ==
    /\ state[t] \in {"ok", "closed"}
    /\ state' = [state EXCEPT ![t] = "idle"]
    /\ UNCHANGED <<capacity, storage, is_closed, senders, receivers, lock, partner, op, received>>

\* Slip: only the receivers are woken.
CloseForgetsSenders ==
    /\ lock = NoTask
    /\ is_closed' = TRUE
    /\ receivers' = <<>>
    /\ state' = [t \in Tasks |->
                   IF t \in Range(receivers) THEN "closed" ELSE state[t]]
    /\ UNCHANGED <<capacity, storage, senders, lock, partner, op, received>>

\* close(): under the lock, every waiting task is taken out and spawned.
Close ==
    /\ lock = NoTask
    /\ is_closed' = TRUE
    /\ senders' = <<>>
    /\ receivers' = <<>>
    /\ state' = [t \in Tasks |->
                   IF t \in Range(senders) \cup Range(receivers)
                   THEN "closed" ELSE state[t]]
    /\ UNCHANGED <<capacity, storage, lock, partner, op, received>>

Next ==
    \/ \E s \in Senders : Send(s) \/ TrySendFails(s) \/ WakeReceiver(s)
    \/ \E r \in Receivers : Recv(r) \/ TryRecvFails(r) \/ WakeSender(r)
    \/ \E t \in Tasks : Release(t) \/ Resume(t)
    \/ Close

Spec == Init /\ [][Next]_vars

\* A poll that has popped a task goes on to wake it, executors handle their
\* calls and poll the tasks they were given.
Fairness ==
    /\ \A s \in Senders : WF_vars(WakeReceiver(s))
    /\ \A r \in Receivers : WF_vars(WakeSender(r))
    /\ \A t \in Tasks : WF_vars(Release(t)) /\ WF_vars(Resume(t))

FairSpec == Spec /\ Fairness

-----------------------------------------------------------------------------
(* Properties *)

\* Nobody waits for what is there: a receiver waits only while nothing is stored
\* and no sender waits, a sender only while the storage is full, and the storage
\* never grows beyond the capacity.
NobodyWaitsInVain ==
    /\ receivers # <<>> => storage = <<>> /\ senders = <<>>
    /\ senders # <<>> => Len(storage) = capacity
    /\ Len(storage) <= capacity
    /\ is_closed => senders = <<>> /\ receivers = <<>>

\* A task whose address is in a deque, or has been popped from one, is suspended
\* inside that very operation until it is woken, once: the pointers to its slot
\* and call state that the partner writes after dropping the lock are live, and
\* two partners never wake the same task.
PartnersAreSuspended ==
    /\ TypeOK
    /\ \A t \in Tasks :
          partner[t] # NoTask =>
            /\ state[t] = "waking"
            /\ state[partner[t]] = "parked"
            /\ partner[t] \notin Range(senders) \cup Range(receivers)
            /\ \A u \in Tasks : partner[u] = partner[t] => u = t
    /\ \A t \in Range(senders) \cup Range(receivers) :
          state[t] \in {"release", "parked"}
    /\ \A t \in Tasks : (state[t] = "release") <=> (lock = t)

\* The values given to a receiver: those in its slots and the one that a sender
\* which has popped it is about to write.
Given(r) ==
    LET writers == {s \in Senders : partner[s] = r}
    IN received[r] \o (IF writers = {} THEN <<>>
                       ELSE <<Value(CHOOSE s \in writers : TRUE)>>)

Abstract ==
    INSTANCE FifoChannel WITH
        queue <- storage \o [i \in DOMAIN senders |-> Value(senders[i])],
        given <- [r \in Receivers |-> Given(r)],
        closed <- is_closed

\* The channel is a FIFO queue of everything that was accepted: no value is
\* lost, duplicated or overtaken on its way through the storage, the deque of
\* waiting senders and the direct hand-over after the lock is dropped.
ImplementsFifo == Abstract!Spec

\* close() lets nobody sleep: every operation that was parked, or about to be
\* woken by a partner, when the channel was closed returns.
CloseWakesEverybody == \A t \in Tasks : is_closed ~> (state[t] = "idle")

=============================================================================
