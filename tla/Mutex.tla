------------------------------- MODULE Mutex -------------------------------
(***************************************************************************)
(* The shared `Mutex` of sync/mutexes/smart_shared.rs.                      *)
(*                                                                          *)
(* `counter` is 0 when the mutex is free; otherwise it is the number of     *)
(* lock() calls that have arrived since it was last free.  A task that      *)
(* finds it taken adds itself to the counter and is put into `wait_queue`   *)
(* by the executor after its poll has returned Pending (the executor's      *)
(* `Call::PushCurrentTaskTo`).  unlock() compares the counter with          *)
(* `expected_count`, the number of arrivals that have already been served;  *)
(* when they differ it hands the mutex over to a task popped from the queue.*)
(*                                                                          *)
(* Every atomic access and every access to the unsynchronised               *)
(* `expected_count` cell is a step of its own: tasks of different executors *)
(* run on different threads.  `exec_task(next)`, the last thing unlock()    *)
(* does, either polls `next` inside the unlocker's frame or spawns it; the  *)
(* unlocker takes no further step on the mutex, so the model lets the two   *)
(* tasks go on independently, which covers both.                            *)
(***************************************************************************)
EXTENDS Integers, Sequences, FiniteSets

CONSTANTS
    Tasks,      \* the shared tasks that use the mutex
    MaxCalls    \* bound: lock() and try_lock() calls made by one task

ASSUME TasksFinite == IsFiniteSet(Tasks)
ASSUME MaxCallsNat == MaxCalls \in Nat

VARIABLES
    counter,         \* Mutex::counter (AtomicUsize)
    expected_count,  \* Mutex::expected_count (Cell<usize>)
    wait_queue,      \* Mutex::wait_queue (SyncTaskList)
    pc,              \* where each task is in lock(), try_lock() or unlock()
    reg,             \* the value of expected_count a running unlock() has read
    calls,           \* lock calls a task may still make
    early            \* history: the tasks whose unlock() read expected_count
                     \* before an earlier unlock() had written its reset

vars == <<counter, expected_count, wait_queue, pc, reg, calls, early>>

PC == {"idle", "slow", "pending", "parked", "woken", "holding",
       "cas", "miss", "pop", "spin", "reset"}

TypeOK ==
    /\ counter \in Nat
    /\ expected_count \in Nat
    /\ wait_queue \in Seq(Tasks)
    /\ pc \in [Tasks -> PC]
    /\ reg \in [Tasks -> Nat]
    /\ calls \in [Tasks -> Nat]
    /\ early \subseteq Tasks

Init ==
    /\ counter = 0
    /\ expected_count = 1
    /\ wait_queue = <<>>
    /\ pc = [t \in Tasks |-> "idle"]
    /\ reg = [t \in Tasks |-> 0]
    /\ calls = [t \in Tasks |-> MaxCalls]
    /\ early = {}

-----------------------------------------------------------------------------
(* lock() and try_lock() *)

\* First poll of MutexWait: try_lock_with_spinning.  A failed exchange that is
\* repeated changes nothing, so one successful or one last failed attempt
\* stands for the at most seven the loop makes.
LockSpin(t) ==
    /\ pc[t] = "idle"
    /\ calls[t] > 0
    /\ calls' = [calls EXCEPT ![t] = @ - 1]
    /\ \/ /\ counter = 0
          /\ counter' = 1
          /\ pc' = [pc EXCEPT ![t] = "holding"]
       \/ /\ counter # 0
          /\ pc' = [pc EXCEPT ![t] = "slow"]
          /\ UNCHANGED counter
    /\ UNCHANGED <<expected_count, wait_queue, reg, early>>

\* ... then fetch_add(1): the previous value 0 means the mutex became free.
LockAdd(t) ==
    /\ pc[t] = "slow"
    /\ counter' = counter + 1
    /\ pc' = [pc EXCEPT ![t] = IF counter = 0 THEN "holding" ELSE "pending"]
    /\ UNCHANGED <<expected_count, wait_queue, reg, calls, early>>

\* The executor handles Call::PushCurrentTaskTo once poll has returned Pending.
Park(t) ==
    /\ pc[t] = "pending"
    /\ wait_queue' = Append(wait_queue, t)
    /\ pc' = [pc EXCEPT ![t] = "parked"]
    /\ UNCHANGED <<counter, expected_count, reg, calls, early>>

\* Second poll of MutexWait: was_called is set, so it returns the guard.
LockReady(t) ==
    /\ pc[t] = "woken"
    /\ pc' = [pc EXCEPT ![t] = "holding"]
    /\ UNCHANGED <<counter, expected_count, wait_queue, reg, calls, early>>

TryLock(t) ==
    /\ pc[t] = "idle"
    /\ calls[t] > 0
    /\ calls' = [calls EXCEPT ![t] = @ - 1]
    /\ \/ /\ counter = 0
          /\ counter' = 1
          /\ pc' = [pc EXCEPT ![t] = "holding"]
       \/ /\ counter # 0
          /\ UNCHANGED <<counter, pc>>
    /\ UNCHANGED <<expected_count, wait_queue, reg, early>>

-----------------------------------------------------------------------------
(* unlock(), called when a guard is dropped *)

\* expected_count.get(), the comparand of the exchange.
UnlockLoad(t) ==
    /\ pc[t] = "holding"
    /\ reg' = [reg EXCEPT ![t] = expected_count]
    /\ early' = IF \E u \in Tasks : pc[u] = "reset" THEN early \cup {t} ELSE early
    /\ pc' = [pc EXCEPT ![t] = "cas"]
    /\ UNCHANGED <<counter, expected_count, wait_queue, calls>>

\* Slip: a swap, which stores 0 also when the counter is not the expected one.
UnlockCasSwaps(t) ==
    /\ pc[t] = "cas"
    /\ counter' = 0
    /\ pc' = [pc EXCEPT ![t] = IF counter = reg[t] THEN "reset" ELSE "miss"]
    /\ UNCHANGED <<expected_count, wait_queue, reg, calls, early>>

UnlockCas(t) ==
    /\ pc[t] = "cas"
    /\ \/ /\ counter = reg[t]
          /\ counter' = 0
          /\ pc' = [pc EXCEPT ![t] = "reset"]
       \/ /\ counter # reg[t]
          /\ pc' = [pc EXCEPT ![t] = "miss"]
          /\ UNCHANGED counter
    /\ UNCHANGED <<expected_count, wait_queue, reg, calls, early>>

\* Slip: the reset is forgotten.
UnlockResetForgotten(t) ==
    /\ pc[t] = "reset"
    /\ pc' = [pc EXCEPT ![t] = "idle"]
    /\ UNCHANGED <<counter, expected_count, wait_queue, reg, calls, early>>

\* expected_count.set(1) comes after the mutex has already been freed.
UnlockReset(t) ==
    /\ pc[t] = "reset"
    /\ expected_count' = 1
    /\ pc' = [pc EXCEPT ![t] = "idle"]
    /\ UNCHANGED <<counter, wait_queue, reg, calls, early>>

\* expected_count.set(expected_count.get() + 1).  The cell is not atomic: the
\* value added to is the one in memory or the one read before the exchange.
UnlockCount(t) ==
    /\ pc[t] = "miss"
    /\ \E v \in {reg[t], expected_count} : expected_count' = v + 1
    /\ pc' = [pc EXCEPT ![t] = "pop"]
    /\ UNCHANGED <<counter, wait_queue, reg, calls, early>>

\* Slip: the task is looked at and left in the queue.
UnlockPopPeeks(t) ==
    /\ pc[t] \in {"pop", "spin"}
    /\ wait_queue # <<>>
    /\ pc' = [pc EXCEPT ![t] = "idle", ![wait_queue[Len(wait_queue)]] = "woken"]
    /\ UNCHANGED <<counter, expected_count, wait_queue, reg, calls, early>>

\* Slip: unlock() gives up when the queue is empty.
UnlockPopGivesUp(t) ==
    /\ pc[t] \in {"pop", "spin"}
    /\ \/ /\ wait_queue = <<>>
          /\ pc' = [pc EXCEPT ![t] = "idle"]
          /\ UNCHANGED wait_queue
       \/ /\ wait_queue # <<>>
          /\ LET n == Len(wait_queue)
             IN /\ pc' = [pc EXCEPT ![t] = "idle", ![wait_queue[n]] = "woken"]
                /\ wait_queue' = SubSeq(wait_queue, 1, n - 1)
    /\ UNCHANGED <<counter, expected_count, reg, calls, early>>

\* wait_queue.pop() takes the task pushed last; with nothing to pop the
\* unlocker spins until there is.
UnlockPop(t) ==
    /\ pc[t] \in {"pop", "spin"}
    /\ \/ /\ wait_queue = <<>>
          /\ pc' = [pc EXCEPT ![t] = "spin"]
          /\ UNCHANGED wait_queue
       \/ /\ wait_queue # <<>>
          /\ LET n == Len(wait_queue)
             IN /\ pc' = [pc EXCEPT ![t] = "idle", ![wait_queue[n]] = "woken"]
                /\ wait_queue' = SubSeq(wait_queue, 1, n - 1)
    /\ UNCHANGED <<counter, expected_count, reg, calls, early>>

-----------------------------------------------------------------------------

Lock(t) == LockSpin(t) \/ LockAdd(t) \/ Park(t) \/ LockReady(t)

Unlock(t) == \/ UnlockLoad(t) \/ UnlockCas(t) \/ UnlockReset(t)
             \/ UnlockCount(t) \/ UnlockPop(t)

Next == \E t \in Tasks : Lock(t) \/ TryLock(t) \/ Unlock(t)

Spec == Init /\ [][Next]_vars

\* A thread that is inside lock() or unlock() keeps running, an executor polls
\* the tasks it was given, and a guard is eventually dropped.  Nothing obliges a
\* task to call lock() again.
Fairness ==
    \A t \in Tasks :
        /\ WF_vars(LockAdd(t) \/ Park(t) \/ LockReady(t))
        /\ WF_vars(Unlock(t))

FairSpec == Spec /\ Fairness

-----------------------------------------------------------------------------
(* Properties *)

\* The tasks that own the mutex: a guard, a hand-over on its way, or an unlock()
\* that has not yet freed or passed it on.
Owners == {t \in Tasks : pc[t] \in {"woken", "holding", "cas", "miss", "pop", "spin"}}

\* The tasks that have been counted but have not been given the mutex.
Waiting == {t \in Tasks : pc[t] \in {"pending", "parked"}}

\* Two tasks never own the mutex at once, however the unsynchronised accesses
\* to expected_count interleave with other tasks' locks (smart_shared.rs
\* lock/unlock), and the counter is 0 exactly when nobody owns it, so
\* is_locked() and the debug assertion of unlock() agree with the guards.
MutualExclusion ==
    /\ \A t, u \in Owners : t = u
    /\ (counter = 0) <=> (Owners = {})

\* The bookkeeping of unlock(): as long as no unlock() has read expected_count
\* before the previous one reset it, a free mutex has nobody waiting for it and
\* a taken one has counted, beyond the arrivals already served, exactly the
\* tasks that still wait.  An unlock() that goes on to hand the mutex over has
\* already counted the task it will serve.
Accounting ==
    early = {} =>
        /\ Owners = {} => Waiting = {}
        /\ \A t \in Owners :
              LET served == IF \E u \in Tasks : pc[u] = "reset"
                            THEN 1 ELSE expected_count
                  handing == IF pc[t] \in {"pop", "spin"} THEN 1 ELSE 0
              IN counter = served + Cardinality(Waiting) - handing

\* The queue holds every parked task exactly once, so a hand-over never wakes a
\* task twice and none is dropped from the queue.
QueueIsParked ==
    /\ \A t \in Tasks :
          (pc[t] = "parked") <=> (\E i \in DOMAIN wait_queue : wait_queue[i] = t)
    /\ \A i, j \in DOMAIN wait_queue : wait_queue[i] = wait_queue[j] => i = j

\* As long as no unlock() has read expected_count too early, every task that is
\* counted as waiting is eventually handed the mutex.
WaitersAreServed ==
    [](early = {}) => \A t \in Tasks : (t \in Waiting) ~> (pc[t] = "holding")

=============================================================================
