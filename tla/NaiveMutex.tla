----------------------------- MODULE NaiveMutex -----------------------------
(***************************************************************************)
(* The locks that are one atomic flag: NaiveMutex (sync/mutexes/            *)
(* naive_shared.rs), whose lock() tries a few times and yields to the other *)
(* tasks of its executor, and SpinLock and NeverWaitLock (utils/), whose    *)
(* lock() keeps the thread and whose try_lock() does not wait at all.  The  *)
(* flag is exchanged by a weak exchange, which may fail for no reason.      *)
(***************************************************************************)
EXTENDS FiniteSets, Naturals

CONSTANTS
    LockTasks,       \* the tasks
    LockThreads,     \* the executors they run on
    MaxLocks         \* bound: calls of each task

ASSUME MaxLocksNat == MaxLocks \in Nat

VARIABLES
    lock_kind,       \* "naive" or "spin"
    is_locked,       \* the flag
    on,              \* the executor of each task
    running,         \* the tasks that are being polled, at most one on each executor
    at_lock,         \* where each task is
    left_locks       \* calls that each task may still make

lockVars == <<lock_kind, is_locked, on, running, at_lock, left_locks>>

LockTypeOK ==
    /\ lock_kind \in {"naive", "spin"}
    /\ is_locked \in BOOLEAN
    /\ on \in [LockTasks -> LockThreads]
    /\ running \subseteq LockTasks
    /\ at_lock \in [LockTasks -> {"idle", "trying", "holding"}]
    /\ left_locks \in [LockTasks -> 0..MaxLocks]

LockInit ==
    /\ lock_kind \in {"naive", "spin"}
    /\ is_locked = FALSE
    /\ on \in [LockTasks -> LockThreads]
    /\ running = {}
    /\ at_lock = [t \in LockTasks |-> "idle"]
    /\ left_locks = [t \in LockTasks |-> MaxLocks]

-----------------------------------------------------------------------------
\* An executor that polls no task polls this one.
PollTask(t) ==
    /\ \A u \in running : on[u] # on[t]
    /\ running' = running \union {t}
    /\ UNCHANGED <<lock_kind, is_locked, on, at_lock, left_locks>>

\* The task's poll ends, with or without a NaiveMutexGuard in its future; a
\* SpinLockGuard is for short locks and is dropped before.
EndPoll(t) ==
    /\ t \in running
    /\ at_lock[t] = "idle" \/ (at_lock[t] = "holding" /\ lock_kind = "naive")
    /\ running' = running \ {t}
    /\ UNCHANGED <<lock_kind, is_locked, on, at_lock, left_locks>>

\* compare_exchange_weak(false, true).
Exchange(t, taken) ==
    /\ taken => ~is_locked
    /\ is_locked' = (is_locked \/ taken)
    /\ at_lock' = [at_lock EXCEPT ![t] = IF taken THEN "holding" ELSE at_lock[t]]

\* try_lock(): one exchange.
TryLockFlag(t) ==
    /\ t \in running /\ at_lock[t] = "idle" /\ left_locks[t] > 0
    /\ \E taken \in BOOLEAN : Exchange(t, taken)
    /\ left_locks' = [left_locks EXCEPT ![t] = @ - 1]
    /\ UNCHANGED <<lock_kind, on, running>>

\* lock() begins.
LockFlag(t) ==
    /\ t \in running /\ at_lock[t] = "idle" /\ left_locks[t] > 0
    /\ at_lock' = [at_lock EXCEPT ![t] = "trying"]
    /\ left_locks' = [left_locks EXCEPT ![t] = @ - 1]
    /\ UNCHANGED <<lock_kind, is_locked, on, running>>

\* A try in the loop of lock().
TryAgain(t, taken) ==
    /\ t \in running /\ at_lock[t] = "trying"
    /\ Exchange(t, taken)
    /\ UNCHANGED <<lock_kind, on, running, left_locks>>

\* Slip: NaiveMutex::lock() does not yield.
YieldInLockNever(t) ==
    /\ FALSE
    /\ UNCHANGED lockVars

\* NaiveMutex::lock(): after the tries of one round yield_now() lets others run.
YieldInLock(t) ==
    /\ lock_kind = "naive"
    /\ t \in running /\ at_lock[t] = "trying"
    /\ running' = running \ {t}
    /\ UNCHANGED <<lock_kind, is_locked, on, at_lock, left_locks>>

\* unlock(), when the guard is dropped.
UnlockFlag(t) ==
    /\ t \in running /\ at_lock[t] = "holding"
    /\ is_locked' = FALSE
    /\ at_lock' = [at_lock EXCEPT ![t] = "idle"]
    /\ UNCHANGED <<lock_kind, on, running, left_locks>>

LockNext ==
    \E t \in LockTasks :
       \/ PollTask(t) \/ EndPoll(t) \/ TryLockFlag(t) \/ LockFlag(t)
       \/ \E taken \in BOOLEAN : TryAgain(t, taken)
       \/ YieldInLock(t) \/ UnlockFlag(t)

-----------------------------------------------------------------------------
\* One guard at most, and the flag says whether there is one: unlock()'s assertion.
FlagIsGuard ==
    Cardinality({t \in LockTasks : at_lock[t] = "holding"}) = (IF is_locked THEN 1 ELSE 0)

\* No lock() waits for ever.  The owner of a NaiveMutex may be suspended on the very executor
\* on which another task tries: the yield in lock() is what lets it run.  The owner of a
\* SpinLock is being polled on another thread.
LockFlagReturns == []<>(\A t \in LockTasks : at_lock[t] # "trying")

=============================================================================
