----------------------------- MODULE IoWorkers ------------------------------
(***************************************************************************)
(* Executors, tasks and one kind of I/O worker, chosen in Init as the build *)
(* chooses it: io_uring, the fallback, or the fallback with a thread pool.  *)
(* All executors of a program have the same kind.                           *)
(***************************************************************************)
EXTENDS IoUring, IoPool

CONSTANT MaxOps      \* bound: the requests the tasks make together

VARIABLE sys

workerVars == <<ringVars, pollVars, poolVars>>
vars == <<ioVars, workerVars, sys>>

Init ==
    /\ sys \in {"io_uring", "fallback", "thread pool"}
    /\ ops = MaxOps
    /\ IoInit /\ UringInit /\ FallbackInit /\ PoolInit

\* Bound: the executors that take part.  Tasks move between executors with
\* io_uring; a fallback worker is taken by itself.
Taking == IF sys = "io_uring" THEN Executors ELSE {Home}

\* The task being polled makes a request.
Request(e, t, op, d) ==
    \/ sys = "io_uring" /\ UringRequest(e, t, op, d) /\ UNCHANGED <<pollVars, poolVars>>
    \/ sys = "fallback" /\ FallbackRequest(e, t, op, d) /\ UNCHANGED <<ringVars, poolVars>>
    \/ sys = "thread pool" /\ PoolRequest(e, t, op, d) /\ UNCHANGED ringVars

\* The executor polls its worker, or goes on with the answers.
Polls(e) ==
    /\ fault = "none" /\ UNCHANGED sys
    /\ \/ sys = "io_uring" /\ UringPolls(e) /\ UNCHANGED <<pollVars, poolVars>>
       \/ sys = "fallback" /\ FallbackPolls(e) /\ UNCHANGED <<ringVars, poolVars>>
       \/ sys = "thread pool" /\ PoolPolls(e) /\ UNCHANGED ringVars

\* The executor polls a task, or the task being polled takes its result, makes a
\* request or awaits something else.
TaskStep(e) ==
    /\ fault = "none" /\ UNCHANGED sys
    /\ \/ ((\E t \in Tasks : Exec(e, t)) \/ Yield(e) \/ TakeResult(e)) /\ UNCHANGED workerVars
       \/ \E t \in Tasks, op \in Ops, d \in Deadlines \cup {Never} : Request(e, t, op, d)

\* The clock and the threads of the pools.
Time == fault = "none" /\ Tick /\ UNCHANGED <<workerVars, sys>>
Threads == /\ fault = "none"
           /\ \E e \in Executors, t \in Tasks : ThreadWorks(e, t)
           /\ UNCHANGED <<ringVars, sys>>

\* Nothing is said about what follows a panic or a stray call.
Next == Time \/ Threads \/ \E e \in Taking : TaskStep(e) \/ Polls(e)

Spec == Init /\ [][Next]_vars

\* A poll of a task returns.
Returns(e) == fault = "none" /\ (Yield(e) \/ TakeResult(e)) /\ UNCHANGED <<workerVars, sys>>

\* The polls of tasks return, and between them every executor comes back to its
\* worker in each round; time passes and the threads of the pools work.  Nothing is
\* assumed of the kernel and the peers but that a cancellation is carried out.
FairSpec ==
    /\ Spec
    /\ WF_vars(Time \/ Threads)
    /\ \A e \in Executors : SF_vars(Polls(e)) /\ WF_vars(Returns(e))

-----------------------------------------------------------------------------
(* Properties *)

TypeOK == IoTypeOK /\ UringTypeOK /\ FallbackTypeOK

\* The sequences and sets of worker e that hold requests.
InSequences(e) == IF sys = "io_uring" THEN UringHolds(e) ELSE batch[e] \o completions[e]
InSets(e) == poller[e] \cup threads[e]

\* How many times the workers, the queues and the polls hold the task t.
Copies(t) ==
    MapThenSumSet(LAMBDA e : Len(SelectSeq(InSequences(e), LAMBDA x : x.task = t))
                             + Cardinality({t} \cap poller[e]) + Cardinality({t} \cap threads[e])
                             + Cardinality({t} \cap {current[e]}), Executors)
    + Cardinality({t} \cap queued)

\* A task with a request is in exactly one place: in the worker that holds its
\* request, in a queue, or being polled; and no worker holds a request of a task
\* that has none, whose memory would be gone.  It is what keeps every answer
\* from being lost or given twice, through backlog, cancellation, retries and
\* the tasks that run inside the workers' loops (io/sys/).
HeldOnce ==
    /\ TypeOK
    /\ fault = "none" =>
          \A t \in Tasks : IF request[t].ret = "idle" THEN Copies(t) <= 1 ELSE Copies(t) = 1

\* An operation times out only when it has a deadline and the deadline has come.
\* The exception is a task that has left a deadline behind, by taking a result
\* on another executor than the one that has made the request, or by taking the
\* kernel's ETIMEDOUT, which is not deregistered: io_uring then cancels a later
\* request of the task (poll_for_time_bounded_io_request).
TimesOutInTime ==
    \A t \in Tasks : request[t].ret = "timeout" =>
       \/ request[t].asked # Never /\ request[t].asked <= now
       \/ t \in stale /\ sys = "io_uring"

\* The deadline of a request that the kernel or the poller has is in the queue of
\* the same worker, or io_uring has a cancellation on its way: nothing else than
\* another task's deregistration, which is by value, loses it.  A task that has left a
\* deadline behind is left out: the next cancellation need not be of its request.
DeadlineIsWatched ==
    \A e \in Executors, t \in Tasks :
       /\ request[t].ret = "none" /\ request[t].due # Never
       /\ t \in poller[e] \cup flying[e] /\ t \notin stolen \cup stale
       => \/ \E x \in deadlines[e] : x.task = t /\ x.at = request[t].due
          \/ Entry(t, "cancel") \in Range(sq[e] \o backlog[e])

\* In the fallback worker no deadline of the queue is behind the last look at the
\* clock, except while check_deadlines goes through them.  The branch of
\* poll_and_process for a deadline that has already passed is never taken.
NoPassedDeadline ==
    sys = "fallback" =>
       \A e \in Executors : phase[e] # "deadlines" => \A x \in deadlines[e] : x.at > seen[e]

\* number_of_active_tasks, on which the executor decides whether to poll at all:
\* exact with io_uring, cancellations included; exact in the fallback worker
\* until its poller reports an error; never too small with a thread pool, where
\* each retry leaves one behind.
ActiveCounts ==
    \A e \in Executors :
       CASE sys = "io_uring" -> active[e] = UringCounted(e)
         [] sys = "fallback" ->
               e \notin miscounted => active[e] = Cardinality(poller[e]) + polled[e]
         [] sys = "thread pool" ->
               active[e] >= Cardinality(InSets(e)) + Len(completions[e])
                            + IF phase[e] = "handle" THEN Len(batch[e]) ELSE 0

\* The workers' assertions: the deadline of a request with an event is missing
\* only when another task has removed it, and a request that expires is always
\* registered (worker.rs, assert! in poll_and_process, unwrap in check_deadlines).
PanicsOnlyWhenStolen ==
    /\ fault = "deadline missing" => stolen # {}
    /\ fault # "socket missing"

\* An operation with a deadline returns, whatever the peer does, unless its
\* deadline is removed by another task, the task has left one behind, the fallback
\* worker has miscounted or made a stray call, or a worker has panicked.
BoundedReturns ==
    \A t \in Tasks :
       (request[t].asked # Never /\ request[t].ret = "none")
          ~> \/ request[t].ret # "none"
             \/ t \in stolen \cup stale \/ miscounted # {} \/ fault # "none"

\* Deadlines, across tasks that move between executors and entries that are removed by
\* value: an operation times out in time, its deadline is watched as long as it can be
\* needed, no passed deadline is left in the queue, and the workers' assertions about
\* the entries hold, all up to the entries that another task has removed.
DeadlinesAreKept ==
    TimesOutInTime /\ DeadlineIsWatched /\ NoPassedDeadline /\ PanicsOnlyWhenStolen

=============================================================================
