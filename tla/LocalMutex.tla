----------------------------- MODULE LocalMutex -----------------------------
(***************************************************************************)
(* The local mutex and the local condition variable                         *)
(* (sync/mutexes/local.rs, sync/cond_vars/local.rs).                        *)
(*                                                                          *)
(* pc: "idle", "lock" (in the mutex's queue), "held", "notified" (held, and *)
(* has notified), "sleep" (wait() has dropped the guard, the task is not    *)
(* queued yet), "asleep", "woken", and "spent": about to yield.             *)
(***************************************************************************)
EXTENDS LocalExecutor

VARIABLES is_locked, mutex_queue, cond_queue

mutexVars == <<is_locked, mutex_queue, cond_queue>>

MutexInit ==
    /\ is_locked = FALSE
    /\ mutex_queue = <<>>
    /\ cond_queue = <<>>

\* lock(): at once, or LocalMutexWait queues the task.
LocalLock(t) ==
    /\ Running(t) /\ pc[t] = "idle"
    /\ IF is_locked
       THEN mutex_queue' = Append(mutex_queue, t) /\ GoTo(t, "lock") /\ Return /\ UNCHANGED is_locked
       ELSE is_locked' = TRUE /\ GoTo(t, "held") /\ Stay /\ UNCHANGED mutex_queue
    /\ UNCHANGED <<left, loop, cond_queue>>

LocalTryLock(t) ==
    /\ Running(t) /\ pc[t] = "idle"
    /\ is_locked' = TRUE
    /\ GoTo(t, IF is_locked THEN "spent" ELSE "held")
    /\ Stay /\ UNCHANGED <<left, loop, mutex_queue, cond_queue>>

\* unlock(): the mutex is handed to the youngest waiter, which runs at once and
\* finds itself the owner; t goes on at q when that poll has returned.
UnlockThen(t, q) ==
    IF mutex_queue # <<>>
    THEN /\ mutex_queue' = Front(mutex_queue)
         /\ pc' = [pc EXCEPT ![t] = q, ![Last(mutex_queue)] = "held"]
         /\ ExecTask(Last(mutex_queue))
         /\ UNCHANGED is_locked
    ELSE is_locked' = FALSE /\ GoTo(t, q) /\ Stay /\ UNCHANGED mutex_queue

LocalUnlock(t) ==
    /\ Running(t) /\ pc[t] \in {"held", "notified"}
    /\ UnlockThen(t, "spent")
    /\ UNCHANGED <<left, loop, cond_queue>>

\* wait(): the guard is dropped when the future is made, before it is polled.
CvWait(t) ==
    /\ Running(t) /\ pc[t] = "held"
    /\ UnlockThen(t, "sleep")
    /\ UNCHANGED <<left, loop, cond_queue>>

\* The first poll of the future.
CvSleep(t) ==
    /\ Running(t) /\ pc[t] = "sleep"
    /\ cond_queue' = Append(cond_queue, t)
    /\ GoTo(t, "asleep") /\ Return
    /\ UNCHANGED <<left, loop, is_locked, mutex_queue>>

\* The second poll: try_lock, else low_level_subscribe.
CvWake(t) ==
    /\ Running(t) /\ pc[t] = "woken"
    /\ IF is_locked
       THEN mutex_queue' = Append(mutex_queue, t) /\ GoTo(t, "lock") /\ Return /\ UNCHANGED is_locked
       ELSE is_locked' = TRUE /\ GoTo(t, "held") /\ Stay /\ UNCHANGED mutex_queue
    /\ UNCHANGED <<left, loop, cond_queue>>

\* The pc of a task that has notified: with or without the mutex.
Notified(t) == IF pc[t] = "held" THEN "notified" ELSE "spent"

\* Slip: the sleeper stays in the queue.
WakeSleeperKeeping(t, q) ==
    /\ pc' = [pc EXCEPT ![t] = q, ![Last(cond_queue)] = "woken"]
    /\ ExecTask(Last(cond_queue))
    /\ UNCHANGED cond_queue

\* The youngest sleeper is woken.
WakeSleeper(t, q) ==
    /\ cond_queue' = Front(cond_queue)
    /\ pc' = [pc EXCEPT ![t] = q, ![Last(cond_queue)] = "woken"]
    /\ ExecTask(Last(cond_queue))

NotifyOne(t) ==
    /\ Running(t) /\ pc[t] \in {"idle", "held"}
    /\ \/ cond_queue # <<>> /\ WakeSleeper(t, Notified(t))
       \/ cond_queue = <<>> /\ GoTo(t, Notified(t)) /\ Stay /\ UNCHANGED cond_queue
    /\ UNCHANGED <<left, loop, is_locked, mutex_queue>>

\* notify_all() begins, and goes on while there is a sleeper: those that sleep
\* again meanwhile are woken again.
NotifyAll(t) ==
    /\ Running(t) /\ pc[t] \in {"idle", "held"}
    /\ loop' = [loop EXCEPT ![t] = <<"notify">>]
    /\ GoTo(t, Notified(t)) /\ Stay
    /\ UNCHANGED <<left, mutexVars>>

NotifyNext(t) ==
    /\ Looping(t)
    /\ \/ cond_queue # <<>> /\ WakeSleeper(t, pc[t]) /\ UNCHANGED loop
       \/ /\ cond_queue = <<>>
          /\ loop' = [loop EXCEPT ![t] = <<>>]
          /\ Stay /\ UNCHANGED <<pc, cond_queue>>
    /\ UNCHANGED <<left, is_locked, mutex_queue>>

MutexYield(t) ==
    /\ pc[t] \in {"idle", "spent", "held", "notified"}
    /\ YieldNow(t)
    /\ GoTo(t, IF pc[t] = "spent" THEN "idle" ELSE pc[t])
    /\ UNCHANGED mutexVars

MutexNext ==
    \/ (NewRound \/ RunNext \/ \E t, u \in Tasks : ExecFuture(t, u)) /\ UNCHANGED mutexVars
    \/ \E t \in Tasks :
          \/ LocalLock(t) \/ LocalTryLock(t) \/ LocalUnlock(t) \/ MutexYield(t)
          \/ CvWait(t) \/ CvSleep(t) \/ CvWake(t) \/ NotifyOne(t) \/ NotifyAll(t) \/ NotifyNext(t)

-----------------------------------------------------------------------------
Owners == {t \in Tasks : pc[t] \in {"held", "notified"}}

\* The mutex is locked exactly while one task owns it, be it polled, yielding, or
\* queued by exec_task after the mutex was handed to it; and nobody is queued at a
\* free mutex, woken sleepers included (LocalMutex::unlock, WaitLocalCondVar::poll).
LocalMutexIsOwned ==
    kind = "mutex" =>
       /\ Cardinality(Owners) = IF is_locked THEN 1 ELSE 0
       /\ mutex_queue # <<>> => is_locked

\* A task is in one place: polled (once, however the polls nest), in the deque, in
\* the mutex's queue or asleep, whichever its pc says.
MutexTasksInOnePlace ==
    kind = "mutex" => \A t \in Tasks :
       /\ Occurs(t, stack) + Occurs(t, local_tasks) + Occurs(t, mutex_queue) + Occurs(t, cond_queue) = Exists(t)
       /\ pc[t] = "lock" <=> Occurs(t, mutex_queue) = 1
       /\ pc[t] = "asleep" <=> Occurs(t, cond_queue) = 1

=============================================================================
