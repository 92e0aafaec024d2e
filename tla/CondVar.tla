------------------------------ MODULE CondVar ------------------------------
(***************************************************************************)
(* The shared `CondVar` of sync/cond_vars/shared.rs over the shared Mutex.  *)
(*                                                                          *)
(* Waiters lock the mutex and call wait_while(!ready); notifiers lock it,   *)
(* set `ready`, drop the guard and call notify_all(); pokers call           *)
(* notify_one() without the lock, as a spurious notification.               *)
(*                                                                          *)
(* wait() drops the guard when it returns, that is before its future is     *)
(* polled; the poll asks the executor to push the task to the CondVar's     *)
(* queue.  A notified task takes the mutex with try_lock() or, when that    *)
(* fails, with low_level_subscribe(), which takes 1 from `expected_count`   *)
(* instead of adding 1 to `counter`.  The steps of the mutex are those of   *)
(* module Mutex; `expected_count` may fall below 0, as an integer congruent *)
(* to the usize it stands for.                                              *)
(***************************************************************************)
EXTENDS Mutex

CONSTANTS
    Waiters,    \* the tasks that call wait_while
    Notifiers,  \* the tasks that set the flag and call notify_all
    Pokers      \* the tasks that call notify_one

ASSUME RolesOfTasks ==
    /\ Tasks = Waiters \cup Notifiers \cup Pokers
    /\ Waiters \cap Notifiers = {}
    /\ Pokers \cap (Waiters \cup Notifiers) = {}

VARIABLES
    cv_queue,  \* CondVar::wait_queue (SyncTaskList)
    cv,        \* where each task is in wait(), notify_one() or notify_all()
    ready,     \* the data behind the mutex, that the predicate reads
    missed     \* history: the tasks that had unlocked the mutex in wait() and
               \* were not in the queue when a notify_all() ended

mutexVars == vars
cvVars == <<vars, cv_queue, cv, ready, missed>>

CV == {"out", "unlocking", "sleep", "asleep", "notified", "subscribe",
       "subtract", "push", "relock", "notify"}

CVTypeOK ==
    /\ counter \in Nat
    /\ expected_count \in Int
    /\ wait_queue \in Seq(Tasks)
    /\ pc \in [Tasks -> PC]
    /\ reg \in [Tasks -> Int]
    /\ cv_queue \in Seq(Waiters)
    /\ cv \in [Tasks -> CV]
    /\ ready \in BOOLEAN
    /\ missed \subseteq Waiters

CVInit ==
    /\ Init
    /\ cv_queue = <<>>
    /\ cv = [t \in Tasks |-> "out"]
    /\ ready = FALSE
    /\ missed = {}

-----------------------------------------------------------------------------
(* Steps of the mutex alone *)

\* lock() by a task that is outside of the CondVar.
CVLock(t) ==
    /\ t \in Waiters \cup Notifiers
    /\ \/ cv[t] = "out" /\ LockSpin(t)
       \/ LockAdd(t) \/ Park(t)
       \/ cv[t] = "out" /\ LockReady(t)
    /\ UNCHANGED <<cv_queue, cv, ready, missed>>

\* The rest of the unlock() that a dropped guard has begun.
CVUnlock(t) ==
    /\ UnlockCas(t) \/ UnlockReset(t) \/ UnlockCount(t) \/ UnlockPop(t)
    /\ UNCHANGED <<cv_queue, cv, ready, missed>>

\* wait_while returns its guard, which is dropped.
Leave(t) ==
    /\ t \in Waiters
    /\ cv[t] = "out"
    /\ ready
    /\ UnlockLoad(t)
    /\ UNCHANGED <<cv_queue, cv, ready, missed>>

-----------------------------------------------------------------------------
(* wait() *)

\* The predicate holds the task back: wait(guard) drops the guard ...
CallWait(t) ==
    /\ t \in Waiters
    /\ cv[t] = "out"
    /\ ~ready
    /\ UnlockLoad(t)
    /\ cv' = [cv EXCEPT ![t] = "unlocking"]
    /\ UNCHANGED <<cv_queue, ready, missed>>

\* ... and the future is polled, in state Sleep ...
PollSleep(t) ==
    /\ cv[t] = "unlocking"
    /\ pc[t] = "idle"
    /\ cv' = [cv EXCEPT ![t] = "sleep"]
    /\ UNCHANGED <<mutexVars, cv_queue, ready, missed>>

\* ... after which the executor pushes the task to the queue.
PushAsleep(t) ==
    /\ cv[t] = "sleep"
    /\ cv_queue' = Append(cv_queue, t)
    /\ cv' = [cv EXCEPT ![t] = "asleep"]
    /\ UNCHANGED <<mutexVars, ready, missed>>

\* Polled in state Wake: try_lock(), and low_level_subscribe() if it fails.
PollWake(t) ==
    /\ cv[t] = "notified"
    /\ \/ /\ counter = 0
          /\ counter' = 1
          /\ pc' = [pc EXCEPT ![t] = "holding"]
          /\ cv' = [cv EXCEPT ![t] = "out"]
       \/ /\ counter # 0
          /\ cv' = [cv EXCEPT ![t] = "subscribe"]
          /\ UNCHANGED <<counter, pc>>
    /\ UNCHANGED <<expected_count, wait_queue, reg, calls, early>>
    /\ UNCHANGED <<cv_queue, ready, missed>>

\* low_level_subscribe: expected_count.get() ...
SubscribeLoad(t) ==
    /\ cv[t] = "subscribe"
    /\ reg' = [reg EXCEPT ![t] = expected_count]
    /\ cv' = [cv EXCEPT ![t] = "subtract"]
    /\ UNCHANGED <<counter, expected_count, wait_queue, pc, calls, early>>
    /\ UNCHANGED <<cv_queue, ready, missed>>

\* ... expected_count.set(... - 1) ...
SubscribeStore(t) ==
    /\ cv[t] = "subtract"
    /\ expected_count' = reg[t] - 1
    /\ cv' = [cv EXCEPT ![t] = "push"]
    /\ UNCHANGED <<counter, wait_queue, pc, reg, calls, early>>
    /\ UNCHANGED <<cv_queue, ready, missed>>

\* Slip: the task is pushed to the queue twice.
SubscribePushTwice(t) ==
    /\ cv[t] = "push"
    /\ wait_queue' = Append(Append(wait_queue, t), t)
    /\ pc' = [pc EXCEPT ![t] = "parked"]
    /\ cv' = [cv EXCEPT ![t] = "relock"]
    /\ UNCHANGED <<counter, expected_count, reg, calls, early>>
    /\ UNCHANGED <<cv_queue, ready, missed>>

\* ... and the push of the task, by the task itself.
SubscribePush(t) ==
    /\ cv[t] = "push"
    /\ wait_queue' = Append(wait_queue, t)
    /\ pc' = [pc EXCEPT ![t] = "parked"]
    /\ cv' = [cv EXCEPT ![t] = "relock"]
    /\ UNCHANGED <<counter, expected_count, reg, calls, early>>
    /\ UNCHANGED <<cv_queue, ready, missed>>

\* Polled in state Lock: get_locked().
PollLock(t) ==
    /\ cv[t] = "relock"
    /\ LockReady(t)
    /\ cv' = [cv EXCEPT ![t] = "out"]
    /\ UNCHANGED <<cv_queue, ready, missed>>

-----------------------------------------------------------------------------
(* Notifications *)

\* A notifier sets the flag and drops its guard.
SetReady(t) ==
    /\ t \in Notifiers
    /\ UnlockLoad(t)
    /\ ready' = TRUE
    /\ cv' = [cv EXCEPT ![t] = "notify"]
    /\ UNCHANGED <<cv_queue, missed>>

\* The task pushed last is taken out of the queue and spawned.
PopAsleep(t, then) ==
    /\ cv_queue # <<>>
    /\ LET n == Len(cv_queue)
       IN /\ cv' = [cv EXCEPT ![t] = then, ![cv_queue[n]] = "notified"]
          /\ cv_queue' = SubSeq(cv_queue, 1, n - 1)
    /\ UNCHANGED missed

\* Slip: notify_all() stops after one task.
NotifyAllStopsEarly(t) ==
    /\ cv[t] = "notify"
    /\ pc[t] = "idle"
    /\ \/ PopAsleep(t, "out")
       \/ /\ cv_queue = <<>>
          /\ cv' = [cv EXCEPT ![t] = "out"]
          /\ missed' = missed \cup {u \in Waiters : cv[u] \in {"unlocking", "sleep"}}
          /\ UNCHANGED cv_queue
    /\ UNCHANGED <<mutexVars, ready>>

\* One round of the loop of notify_all().
NotifyAll(t) ==
    /\ cv[t] = "notify"
    /\ pc[t] = "idle"
    /\ \/ PopAsleep(t, "notify")
       \/ /\ cv_queue = <<>>
          /\ cv' = [cv EXCEPT ![t] = "out"]
          /\ missed' = missed \cup {u \in Waiters : cv[u] \in {"unlocking", "sleep"}}
          /\ UNCHANGED cv_queue
    /\ UNCHANGED <<mutexVars, ready>>

NotifyOne(t) ==
    /\ t \in Pokers
    /\ calls[t] > 0
    /\ calls' = [calls EXCEPT ![t] = @ - 1]
    /\ \/ PopAsleep(t, "out")
       \/ /\ cv_queue = <<>>
          /\ UNCHANGED <<cv_queue, cv, missed>>
    /\ UNCHANGED <<counter, expected_count, wait_queue, pc, reg, early, ready>>

-----------------------------------------------------------------------------

WaitStep(t) ==
    \/ PollSleep(t) \/ PushAsleep(t) \/ PollWake(t) \/ PollLock(t)
    \/ SubscribeLoad(t) \/ SubscribeStore(t) \/ SubscribePush(t)

CVNext ==
    \E t \in Tasks :
        \/ CVLock(t) \/ CVUnlock(t) \/ Leave(t) \/ CallWait(t) \/ WaitStep(t)
        \/ SetReady(t) \/ NotifyAll(t) \/ NotifyOne(t)

CVSpec == CVInit /\ [][CVNext]_cvVars

-----------------------------------------------------------------------------
(* Properties *)

\* Mutual exclusion of module Mutex holds of the composition as well, although
\* tasks that come back from the CondVar are not counted in `counter` and write
\* `expected_count` without holding the mutex.

\* A task is in at most one of the two queues, at most once: it is never run
\* twice for one wait().
OneQueue ==
    /\ QueueIsParked
    /\ \A t \in Waiters :
          (cv[t] = "asleep") <=> (\E i \in DOMAIN cv_queue : cv_queue[i] = t)
    /\ \A i, j \in DOMAIN cv_queue : cv_queue[i] = cv_queue[j] => i = j
    /\ \A t \in Tasks : cv[t] = "asleep" => pc[t] = "idle"

\* The only tasks left asleep after the flag is set and every notify_all() has
\* ended are the ones that were on their way to the queue at that moment.
AsleepWereMissed ==
    ready /\ (\A n \in Notifiers : cv[n] # "notify") =>
        \A t \in Waiters : cv[t] = "asleep" => t \in missed

\* The mutex under a CondVar stays a mutex: one guard, and every task in one queue at
\* most, although notified tasks enter its queue by low_level_subscribe() and change
\* expected_count without a lock.
MutexStaysSound == CVTypeOK /\ MutualExclusion /\ OneQueue

=============================================================================
