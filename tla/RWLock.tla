------------------------------- MODULE RWLock -------------------------------
(***************************************************************************)
(* The shared RWLock of sync/rw_locks/naive_shared.rs: one atomic word,     *)
(* `number_of_readers`, which is -1 for a writer, otherwise the number of   *)
(* read guards.  Nobody is parked: read() and write() try and yield until   *)
(* they succeed.  try_write() is one exchange; try_read() loads the word    *)
(* and exchanges it in a second step, in between other threads run.         *)
(***************************************************************************)
EXTENDS Integers, FiniteSets

CONSTANTS
    Tasks,      \* the tasks, each on some executor's thread
    MaxCalls    \* bound: lock operations one task begins

ASSUME TasksFinite == IsFiniteSet(Tasks)
ASSUME MaxCallsNat == MaxCalls \in Nat

VARIABLES
    number_of_readers,  \* RWLock::number_of_readers (AtomicIsize)
    pc,                 \* where each task is
    loaded,             \* the value try_read() has loaded
    awaits,             \* TRUE in read() and write(), FALSE in try_read()
    calls               \* operations a task may still begin

vars == <<number_of_readers, pc, loaded, awaits, calls>>

PC == {"idle", "load", "exchange", "reading", "write", "writing"}

TypeOK ==
    /\ number_of_readers \in Int
    /\ pc \in [Tasks -> PC]
    /\ loaded \in [Tasks -> Nat]
    /\ awaits \in [Tasks -> BOOLEAN]
    /\ calls \in [Tasks -> Nat]

Init ==
    /\ number_of_readers = 0
    /\ pc = [t \in Tasks |-> "idle"]
    /\ loaded = [t \in Tasks |-> 0]
    /\ awaits = [t \in Tasks |-> FALSE]
    /\ calls = [t \in Tasks |-> MaxCalls]

\* The tasks that hold a ReadLockGuard, and those that hold a WriteLockGuard.
Readers == {t \in Tasks : pc[t] = "reading"}
Writers == {t \in Tasks : pc[t] = "writing"}

-----------------------------------------------------------------------------
(* read() and try_read() *)

\* read() and try_read() begin alike; only read() tries again.
Read(t, mayWait) ==
    /\ pc[t] = "idle" /\ calls[t] > 0
    /\ pc' = [pc EXCEPT ![t] = "load"]
    /\ awaits' = [awaits EXCEPT ![t] = mayWait]
    /\ calls' = [calls EXCEPT ![t] = @ - 1]
    /\ UNCHANGED <<number_of_readers, loaded>>

\* try_read(), the load: without a writer the exchange follows; with one read()
\* yields and loads again, try_read() returns None.
ReadLoad(t) ==
    /\ pc[t] = "load"
    /\ \/ /\ number_of_readers >= 0
          /\ loaded' = [loaded EXCEPT ![t] = number_of_readers]
          /\ pc' = [pc EXCEPT ![t] = "exchange"]
       \/ /\ number_of_readers < 0
          /\ pc' = [pc EXCEPT ![t] = IF awaits[t] THEN "load" ELSE "idle"]
          /\ UNCHANGED loaded
    /\ UNCHANGED <<number_of_readers, awaits, calls>>

\* try_read(), the exchange: it fails when the word has changed, and the loop
\* of try_read() loads again.
ReadExchange(t) ==
    /\ pc[t] = "exchange"
    /\ \/ /\ number_of_readers = loaded[t]
          /\ number_of_readers' = loaded[t] + 1
          /\ pc' = [pc EXCEPT ![t] = "reading"]
       \/ /\ number_of_readers # loaded[t]
          /\ pc' = [pc EXCEPT ![t] = "load"]
          /\ UNCHANGED number_of_readers
    /\ UNCHANGED <<loaded, awaits, calls>>

\* read_unlock(), when the ReadLockGuard is dropped.
ReadUnlock(t) ==
    /\ pc[t] = "reading"
    /\ number_of_readers' = number_of_readers - 1
    /\ pc' = [pc EXCEPT ![t] = "idle"]
    /\ UNCHANGED <<loaded, awaits, calls>>

-----------------------------------------------------------------------------
(* write() and try_write() *)

\* Slip: a lock with one reader is taken for free.
TryWritePastReader(t) ==
    /\ \/ pc[t] = "write" /\ UNCHANGED calls
       \/ pc[t] = "idle" /\ calls[t] > 0 /\ calls' = [calls EXCEPT ![t] = @ - 1]
    /\ \/ /\ number_of_readers \in {0, 1}
          /\ number_of_readers' = -1
          /\ pc' = [pc EXCEPT ![t] = "writing"]
       \/ /\ number_of_readers \notin {0, 1}
          /\ pc' \in {pc, [pc EXCEPT ![t] = "write"]}
          /\ UNCHANGED number_of_readers
    /\ UNCHANGED <<loaded, awaits>>

\* try_write(), alone or in the loop of write(): the exchange of 0 for -1.  After
\* a failure write() yields and tries again, try_write() returns None.
TryWrite(t) ==
    /\ \/ pc[t] = "write" /\ UNCHANGED calls
       \/ pc[t] = "idle" /\ calls[t] > 0 /\ calls' = [calls EXCEPT ![t] = @ - 1]
    /\ \/ /\ number_of_readers = 0
          /\ number_of_readers' = -1
          /\ pc' = [pc EXCEPT ![t] = "writing"]
       \/ /\ number_of_readers # 0
          /\ pc' \in {pc, [pc EXCEPT ![t] = "write"]}
          /\ UNCHANGED number_of_readers
    /\ UNCHANGED <<loaded, awaits>>

\* Slip: the unlock of a reader is used for a writer.
WriteUnlockSubtracts(t) ==
    /\ pc[t] = "writing"
    /\ number_of_readers' = number_of_readers - 1
    /\ pc' = [pc EXCEPT ![t] = "idle"]
    /\ UNCHANGED <<loaded, awaits, calls>>

\* write_unlock(), when the WriteLockGuard is dropped.
WriteUnlock(t) ==
    /\ pc[t] = "writing"
    /\ number_of_readers' = 0
    /\ pc' = [pc EXCEPT ![t] = "idle"]
    /\ UNCHANGED <<loaded, awaits, calls>>

-----------------------------------------------------------------------------

\* The steps a task takes by itself once it has begun.
Step(t) ==
    \/ ReadLoad(t) \/ ReadExchange(t) \/ ReadUnlock(t)
    \/ pc[t] = "write" /\ TryWrite(t)
    \/ WriteUnlock(t)

Next ==
    \E t \in Tasks :
        \/ \E mayWait \in BOOLEAN : Read(t, mayWait)
        \/ TryWrite(t)
        \/ Step(t)

Spec == Init /\ [][Next]_vars

\* An executor runs a task that has yielded again, and guards are dropped.
Fairness == \A t \in Tasks : WF_vars(Step(t))

FairSpec == Spec /\ Fairness

-----------------------------------------------------------------------------
(* Properties *)

\* The word is the state of the lock: -1 with exactly one writer and no reader,
\* otherwise the number of read guards and no writer.  It is what read_unlock()
\* and write_unlock() assert, and what get_lock_status() reports.
WordIsGuards ==
    \/ /\ number_of_readers = -1
       /\ Readers = {}
       /\ \E w \in Tasks : Writers = {w}
    \/ /\ number_of_readers = Cardinality(Readers)
       /\ Writers = {}

\* A write guard excludes every other guard, however loads and exchanges of
\* readers fall around the writer's.
WriteExclusion ==
    \A t, u \in Tasks : pc[t] = "writing" /\ u # t => pc[u] \notin {"reading", "writing"}

\* No read() and no write() waits for ever: from every state on there comes one in
\* which nobody waits, when the others stop beginning new operations, as the bound on
\* calls makes them.
LockReturns ==
    []<>(\A t \in Tasks : pc[t] # "write" /\ ~(pc[t] \in {"load", "exchange"} /\ awaits[t]))

=============================================================================
