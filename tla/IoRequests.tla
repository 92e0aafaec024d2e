----------------------------- MODULE IoRequests -----------------------------
(***************************************************************************)
(* What the three I/O workers (io/sys/) have in common: tasks that await    *)
(* I/O futures, the requests those futures make, the executors that poll    *)
(* the tasks, and the queue of deadlines of each executor's worker.         *)
(*                                                                          *)
(* A future is polled twice.  The first poll makes the request, which lives *)
(* in the future, and returns Pending; the second takes the result.  A      *)
(* future with a deadline then takes its deadline out of the worker's       *)
(* queue, by its value, and on the worker of the executor that polls it.    *)
(* The queue is keyed by the instant: a deadline that is taken is moved by  *)
(* one nanosecond until it is free.                                         *)
(*                                                                          *)
(* A request is known by its task: a task awaits one request at a time, and *)
(* the request of its next future may have the same address.                *)
(***************************************************************************)
EXTENDS Integers, Sequences, SequencesExt, FiniteSets, FiniteSetsExt

CONSTANTS
    Executors,
    Home,          \* the executor of the local tasks
    LocalTasks,
    SharedTasks,
    NoTask,
    Never,         \* the deadline of a request without one
    Deadlines,     \* the deadlines callers ask for
    MaxTime        \* bound: the last instant of the clock

Tasks == LocalTasks \cup SharedTasks

VARIABLES
    now,         \* Instant::now()
    seen,        \* the instant each executor goes by: start_round_time with
                 \* io_uring, last_gotten_time of the worker otherwise
    current,     \* the task each executor is polling
    phase,       \* the part of its round each executor is in
    queued,      \* the tasks in the executors' queues
    request,     \* the request of the future each task awaits
    ops,         \* requests that may still be made
    active,      \* number_of_active_tasks of each worker
    deadlines,   \* time_bounded_io_task_queue of each worker
    batch,       \* results the worker has fetched and not yet handled
    stolen,      \* history: tasks whose deadline another task has removed
    stale,       \* history: tasks that have left a deadline behind
    fault        \* the assertion or the rule that the worker has broken

taskVars == <<current, queued, request, ops>>
histVars == <<stolen, stale, fault>>
ioVars == <<now, seen, phase, active, deadlines, batch, taskVars, histVars>>

-----------------------------------------------------------------------------
(* The operations, by what tells them apart: `how` the fallback workers do   *)
(* them and whether they have a form with a deadline.  "retried" is tried,   *)
(* polled when it would block and tried again; "once" is tried, and polled   *)
(* when it is in progress; "poll" is only polled; "direct" never blocks.     *)

Socket == [how |-> "socket", bounded |-> FALSE]
Accept == [how |-> "retried", bounded |-> TRUE]
Connect == [how |-> "once", bounded |-> TRUE]
PollFd == [how |-> "poll", bounded |-> TRUE]
Recv == [how |-> "retried", bounded |-> TRUE]
RecvFrom == [how |-> "retried", bounded |-> TRUE]
Peek == [how |-> "retried", bounded |-> TRUE]
PeekFrom == [how |-> "retried", bounded |-> TRUE]
Send == [how |-> "retried", bounded |-> TRUE]
SendTo == [how |-> "retried", bounded |-> TRUE]
Shutdown == [how |-> "direct", bounded |-> FALSE]
Close == [how |-> "direct", bounded |-> FALSE]
Open == [how |-> "direct", bounded |-> FALSE]
Read == [how |-> "direct", bounded |-> FALSE]
Write == [how |-> "direct", bounded |-> FALSE]
Fallocate == [how |-> "direct", bounded |-> FALSE]
SyncAll == [how |-> "direct", bounded |-> FALSE]
SyncData == [how |-> "direct", bounded |-> FALSE]
Rename == [how |-> "direct", bounded |-> FALSE]
CreateDir == [how |-> "direct", bounded |-> FALSE]
RemoveFile == [how |-> "direct", bounded |-> FALSE]
RemoveDir == [how |-> "direct", bounded |-> FALSE]

Ops == {Socket, Accept, Connect, PollFd, Recv, RecvFrom, Peek, PeekFrom, Send,
        SendTo, Shutdown, Close, Open, Read, Write, Fallocate, SyncAll, SyncData,
        Rename, CreateDir, RemoveFile, RemoveDir}

\* What the poller's event leads to: the operation is tried again, or is done.
\* Nothing else of the operation matters once the request is made.
AfterEvent(op) ==
    CASE op.how = "retried" -> "retry"
      [] op.how \in {"once", "poll"} -> "ready"
      [] OTHER -> "none"

Idle == [then |-> "none", asked |-> Never, due |-> Never, ret |-> "idle"]

\* An answer: the operation is done, with a result or an error; the system's own error
\* ETIMEDOUT (a peer that does not respond), which has the kind TimedOut; or the
\* worker's TimedOut.
Results == {"done", "ETIMEDOUT", "timeout"}

\* What the system may say of a request with the deadline d (or Never): the errors are
\* told apart only where a deadline is to be deregistered.
Outcomes(d) == IF d = Never THEN {"done"} ELSE {"done", "ETIMEDOUT"}

IoTypeOK ==
    /\ now \in 0 .. MaxTime
    /\ seen \in [Executors -> 0 .. MaxTime]
    /\ current \in [Executors -> Tasks \cup {NoTask}]
    /\ phase \in [Executors -> {"tasks", "handle", "deadlines", "results"}]
    /\ queued \subseteq Tasks
    /\ \A t \in Tasks :
          /\ request[t].then \in {"none", "retry", "ready"}
          /\ request[t].asked \in Deadlines \cup {Never}
          /\ request[t].due = Never <=> request[t].asked = Never
          /\ request[t].ret \in Results \cup {"idle", "none"}
    /\ \A e \in Executors : \A x \in deadlines[e] : x.at \in Nat /\ x.task \in Tasks
    /\ stolen \subseteq Tasks /\ stale \subseteq Tasks

IoInit ==
    /\ now = 0
    /\ seen = [e \in Executors |-> 0]
    /\ current = [e \in Executors |-> NoTask]
    /\ phase = [e \in Executors |-> "tasks"]
    /\ queued = Tasks
    /\ request = [t \in Tasks |-> Idle]
    /\ active = [e \in Executors |-> 0]
    /\ deadlines = [e \in Executors |-> {}]
    /\ batch = [e \in Executors |-> <<>>]
    /\ stolen = {} /\ stale = {} /\ fault = "none"

-----------------------------------------------------------------------------
(* The executor *)

\* The clock.
Tick ==
    /\ now < MaxTime
    /\ now' = now + 1
    /\ UNCHANGED <<seen, phase, active, deadlines, batch, taskVars, histVars>>

\* Executor e polls a task of its queues; a shared task may have come from
\* another executor.
Exec(e, t) ==
    /\ phase[e] = "tasks" /\ current[e] = NoTask
    /\ t \in queued /\ (t \in LocalTasks => e = Home)
    /\ current' = [current EXCEPT ![e] = t]
    /\ queued' = queued \ {t}
    /\ UNCHANGED <<now, seen, phase, request, ops, active, deadlines, batch, histVars>>

\* The task being polled awaits something that is not I/O, and is queued again: it
\* may go on at another executor.  A task that ends is one that stays in the queue.
Yield(e) ==
    /\ current[e] # NoTask /\ request[current[e]].ret = "idle"
    /\ current' = [current EXCEPT ![e] = NoTask]
    /\ queued' = queued \cup {current[e]}
    /\ UNCHANGED <<now, seen, phase, request, ops, active, deadlines, batch, histVars>>

\* What a worker does with the task of an answered request: a local task is
\* executed at once, unless exec_task() has reached its limit, a shared one is
\* spawned.
Resume(e, t) ==
    \/ /\ t \in LocalTasks
       /\ current' = [current EXCEPT ![e] = t]
       /\ UNCHANGED queued
    \/ /\ queued' = queued \cup {t}
       /\ UNCHANGED current

\* The answer r is written into the request of t.
Answer(t, r) == request' = [request EXCEPT ![t].ret = r, ![t].then = "none"]

-----------------------------------------------------------------------------
(* The queue of deadlines *)

\* The instant at which a deadline d is put into the queue of e.
FreeAt(e, d) == Min({i \in d .. (d + Cardinality(deadlines[e])) :
                        \A x \in deadlines[e] : x.at # i})

\* The request of t is put into the queue of e at the instant d.
EnterDeadline(e, t, d) ==
    deadlines' = [deadlines EXCEPT ![e] = @ \cup {[at |-> d, task |-> t]}]

\* deregister_time_bounded_io_task: whatever is in the queue at that instant.
Leave(e, at) == {x \in deadlines[e] : x.at # at}

\* The second poll of a future (poll_for_io_request and, with a deadline,
\* poll_for_time_bounded_io_request): it returns the result.  Unless the result is
\* an error of the kind TimedOut, the future with a deadline deregisters it first.
\* ETIMEDOUT is of that kind, so that the deadline of such a request stays behind.
TakeResult(e) ==
    LET t == current[e]
        removes == request[t].due # Never /\ request[t].ret = "done"
    IN /\ t # NoTask /\ request[t].ret \in Results
       /\ request' = [request EXCEPT ![t] = Idle]
       /\ deadlines' = IF removes
                       THEN [deadlines EXCEPT ![e] = Leave(e, request[t].due)]
                       ELSE deadlines
       /\ stolen' = stolen \cup ({x.task : x \in deadlines[e] \ deadlines'[e]} \ {t})
       /\ stale' = IF \E f \in Executors : \E x \in deadlines'[f] : x.task = t
                   THEN stale \cup {t} ELSE stale
       /\ UNCHANGED <<now, seen, phase, queued, current, ops, active, batch, fault>>

\* The first poll: the task being polled makes a request, with a deadline d only
\* if the operation has such a form.
Asks(e, t, op, d) ==
    /\ current[e] = t /\ request[t].ret = "idle" /\ ops > 0
    /\ d # Never => op.bounded
    /\ ops' = ops - 1
    /\ current' = [current EXCEPT ![e] = NoTask]

Asked(t, then, d, due, ret) ==
    request' = [request EXCEPT ![t] = [then |-> then, asked |-> d, due |-> due, ret |-> ret]]

=============================================================================
