---------------------------- MODULE LocalRWLock ----------------------------
(***************************************************************************)
(* The local read-write lock (sync/rw_locks/local.rs).                      *)
(*                                                                          *)
(* pc: "idle", "read queue", "write queue", "reader", "writer", and "spent":*)
(* about to yield.                                                          *)
(***************************************************************************)
EXTENDS LocalExecutor

VARIABLES
    number_of_readers,    \* -1 when locked for writing
    wait_queue_read,
    wait_queue_write

rwVars == <<number_of_readers, wait_queue_read, wait_queue_write>>

RWInit ==
    /\ number_of_readers = 0
    /\ wait_queue_read = <<>>
    /\ wait_queue_write = <<>>

LocalWrite(t) ==
    /\ Running(t) /\ pc[t] = "idle"
    /\ IF number_of_readers = 0
       THEN number_of_readers' = -1 /\ GoTo(t, "writer") /\ Stay /\ UNCHANGED wait_queue_write
       ELSE /\ wait_queue_write' = Append(wait_queue_write, t)
            /\ GoTo(t, "write queue") /\ Return /\ UNCHANGED number_of_readers
    /\ UNCHANGED <<left, loop, wait_queue_read>>

\* Slip: a reader waits for readers too.
LocalReadAlone(t) ==
    /\ Running(t) /\ pc[t] = "idle"
    /\ IF number_of_readers = 0
       THEN number_of_readers' = number_of_readers + 1 /\ GoTo(t, "reader") /\ Stay /\ UNCHANGED wait_queue_read
       ELSE /\ wait_queue_read' = Append(wait_queue_read, t)
            /\ GoTo(t, "read queue") /\ Return /\ UNCHANGED number_of_readers
    /\ UNCHANGED <<left, loop, wait_queue_write>>

LocalRead(t) ==
    /\ Running(t) /\ pc[t] = "idle"
    /\ IF number_of_readers > -1
       THEN number_of_readers' = number_of_readers + 1 /\ GoTo(t, "reader") /\ Stay /\ UNCHANGED wait_queue_read
       ELSE /\ wait_queue_read' = Append(wait_queue_read, t)
            /\ GoTo(t, "read queue") /\ Return /\ UNCHANGED number_of_readers
    /\ UNCHANGED <<left, loop, wait_queue_write>>

LocalTryWrite(t) ==
    /\ Running(t) /\ pc[t] = "idle" /\ number_of_readers # 0
    /\ GoTo(t, "spent") /\ Stay
    /\ UNCHANGED <<left, loop, rwVars>>

LocalTryRead(t) ==
    /\ Running(t) /\ pc[t] = "idle" /\ number_of_readers = -1
    /\ GoTo(t, "spent") /\ Stay
    /\ UNCHANGED <<left, loop, rwVars>>

\* read_unlock(): the last reader hands the lock to the youngest waiting writer.
LocalReadUnlock(t) ==
    /\ Running(t) /\ pc[t] = "reader"
    /\ IF number_of_readers = 1 /\ wait_queue_write # <<>>
       THEN /\ number_of_readers' = -1
            /\ wait_queue_write' = Front(wait_queue_write)
            /\ pc' = [pc EXCEPT ![t] = "spent", ![Last(wait_queue_write)] = "writer"]
            /\ ExecTask(Last(wait_queue_write))
       ELSE /\ number_of_readers' = number_of_readers - 1
            /\ GoTo(t, "spent") /\ Stay /\ UNCHANGED wait_queue_write
    /\ UNCHANGED <<left, loop, wait_queue_read>>

\* write_unlock(): to a waiting writer, else to all the readers that wait now,
\* which are counted before the first of them runs.
LocalWriteUnlock(t) ==
    /\ Running(t) /\ pc[t] = "writer"
    /\ IF wait_queue_write # <<>>
       THEN /\ wait_queue_write' = Front(wait_queue_write)
            /\ pc' = [pc EXCEPT ![t] = "spent", ![Last(wait_queue_write)] = "writer"]
            /\ ExecTask(Last(wait_queue_write))
            /\ UNCHANGED <<number_of_readers, loop>>
       ELSE /\ number_of_readers' = Len(wait_queue_read)
            /\ loop' = [loop EXCEPT ![t] = <<"readers", Len(wait_queue_read)>>]
            /\ GoTo(t, "spent") /\ Stay /\ UNCHANGED wait_queue_write
    /\ UNCHANGED <<left, wait_queue_read>>

\* The loop of write_unlock(): readers_count more readers are popped and executed.
WakeReaders(t) ==
    /\ Looping(t)
    /\ LET readers_count == loop[t][2]
           r == Last(wait_queue_read)
       IN \/ /\ readers_count > 0
             /\ wait_queue_read' = Front(wait_queue_read)
             /\ GoTo(r, "reader")
             /\ loop' = [loop EXCEPT ![t] = <<"readers", readers_count - 1>>]
             /\ ExecTask(r)
          \/ /\ readers_count = 0
             /\ loop' = [loop EXCEPT ![t] = <<>>]
             /\ Stay /\ UNCHANGED <<pc, wait_queue_read>>
    /\ UNCHANGED <<left, number_of_readers, wait_queue_write>>

RWYield(t) ==
    /\ pc[t] \in {"idle", "spent", "reader", "writer"}
    /\ YieldNow(t)
    /\ GoTo(t, IF pc[t] = "spent" THEN "idle" ELSE pc[t])
    /\ UNCHANGED rwVars

RWNext ==
    \/ (NewRound \/ RunNext \/ \E t, u \in Tasks : ExecFuture(t, u)) /\ UNCHANGED rwVars
    \/ \E t \in Tasks :
          \/ LocalWrite(t) \/ LocalRead(t) \/ LocalTryWrite(t) \/ LocalTryRead(t)
          \/ LocalReadUnlock(t) \/ LocalWriteUnlock(t) \/ WakeReaders(t) \/ RWYield(t)

-----------------------------------------------------------------------------
\* The readers that a write_unlock() in progress has counted and not yet woken.
Promised(t) == IF loop[t] = <<>> THEN 0 ELSE loop[t][2]

\* number_of_readers is -1 exactly when one writer owns the lock and nobody reads,
\* and otherwise the readers, those that are still to be woken included.
LocalWordIsGuards ==
    LET readers == {t \in Tasks : pc[t] = "reader"}
        writers == {t \in Tasks : pc[t] = "writer"}
        promised == {t \in Tasks : Promised(t) > 0}
    IN kind = "rw_lock" =>
          IF number_of_readers = -1
          THEN Cardinality(writers) = 1 /\ readers = {} /\ promised = {}
          ELSE /\ writers = {}
               /\ number_of_readers = Cardinality(readers)
                    + (IF promised = {} THEN 0 ELSE Len(wait_queue_read))

\* write_unlock() pops a reader (unwrap_unchecked) for everyone it has counted,
\* though those it has woken already run inside its loop; a free lock has nobody
\* waiting (debug_assert in write, try_write and read_unlock); and a task is polled,
\* queued or waiting in one place.
ReadersAreThere ==
    kind = "rw_lock" =>
       /\ \A t \in Tasks : Promised(t) \in {0, Len(wait_queue_read)}
       /\ number_of_readers = 0 => wait_queue_read = <<>> /\ wait_queue_write = <<>>
       /\ \A t \in Tasks :
             Occurs(t, stack) + Occurs(t, local_tasks)
               + Occurs(t, wait_queue_read) + Occurs(t, wait_queue_write) = Exists(t)

=============================================================================
