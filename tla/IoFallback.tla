----------------------------- MODULE IoFallback -----------------------------
(***************************************************************************)
(* The worker for systems without io_uring (io/sys/fallback/worker.rs and   *)
(* mio_poller.rs).  An operation is tried while its task is being polled; a *)
(* socket that would block is registered with the poller, and its deadline  *)
(* with the queue.  The sockets' readiness is external.                     *)
(***************************************************************************)
EXTENDS IoRequests

CONSTANT UsizeRange      \* usize is counted modulo this (2^64 in the code)

VARIABLES
    poller,        \* the requests registered with each executor's poller
    polled,        \* polled_requests_len of the round of polling under way
    miscounted     \* history: executors whose poller has reported an error

pollVars == <<poller, polled, miscounted>>

Plus(n, k) == (n + k) % UsizeRange
Minus(n, k) == (n - k) % UsizeRange

FallbackTypeOK ==
    /\ active \in [Executors -> 0 .. (UsizeRange - 1)]
    /\ poller \in [Executors -> SUBSET Tasks]
    /\ polled \in [Executors -> 0 .. Cardinality(Tasks)]

FallbackInit ==
    /\ poller = [e \in Executors |-> {}]
    /\ polled = [e \in Executors |-> 0]
    /\ miscounted = {}

-----------------------------------------------------------------------------
(* Requests *)

\* check_deadline_and!: the deadline is compared with the last time the worker
\* looked at the clock.
Passed(e, d) == d # Never /\ d <= seen[e]

\* Slip: the deadline is not registered.
RegisterWithoutDeadline(e, t, then, asked, d) ==
    /\ active' = [active EXCEPT ![e] = Plus(@, 1)]
    /\ poller' = [poller EXCEPT ![e] = @ \cup {t}]
    /\ Asked(t, then, asked, d, "none")
    /\ UNCHANGED deadlines

\* register_io_call_to_poller_with_considering_deadline: the request of t, which
\* has been asked for with the deadline d or has already been moved to d.
Register(e, t, then, asked, d) ==
    /\ active' = [active EXCEPT ![e] = Plus(@, 1)]
    /\ poller' = [poller EXCEPT ![e] = @ \cup {t}]
    /\ IF d = Never
       THEN Asked(t, then, asked, Never, "none") /\ UNCHANGED deadlines
       ELSE Asked(t, then, asked, FreeAt(e, d), "none") /\ EnterDeadline(e, t, FreeAt(e, d))

\* The answer to the task being polled: a local task is spawned, a shared one
\* is pushed by the executor when its poll has returned Pending.
AnswerNow(t, d, r) ==
    /\ Asked(t, "none", d, d, r)
    /\ queued' = queued \cup {t}

\* MioPoller::register, if a socket is being registered: the error for a socket that
\* another request has registered is unwrapped.  Whether the sockets of two requests
\* are the same is a choice.
Registers(e) ==
    \/ UNCHANGED fault
    \/ poller[e] # {} /\ ~(poller'[e] \subseteq poller[e]) /\ fault' = "socket taken"

\* handle_io_operation: an operation that does not block.
HandleIoOperation(t) ==
    /\ AnswerNow(t, Never, "done")
    /\ UNCHANGED <<active, deadlines, poller>>

\* handle_io_call in the poll of the task: the operation has a result, or its
\* socket is registered.
HandleIoCall(e, t, op, d) ==
    \/ /\ \E r \in Outcomes(d) : AnswerNow(t, d, r)
       /\ UNCHANGED <<active, deadlines, poller>>
    \/ Register(e, t, AfterEvent(op), d, d) /\ UNCHANGED queued

\* An operation whose deadline has passed.
RefusePassed(t, d) ==
    /\ AnswerNow(t, d, "timeout")
    /\ UNCHANGED <<active, deadlines, poller>>

\* Files, directories, shutdown and close.
FallbackDirect(t) == HandleIoOperation(t)

\* What may have to wait for a peer.
FallbackTransfer(e, t, op, d) ==
    \/ Passed(e, d) /\ RefusePassed(t, d)
    \/ ~Passed(e, d) /\ HandleIoCall(e, t, op, d)

\* poll_socket_read, poll_socket_write.
FallbackPoll(e, t, op, d) ==
    \/ Passed(e, d) /\ RefusePassed(t, d)
    \/ ~Passed(e, d) /\ Register(e, t, AfterEvent(op), d, d) /\ UNCHANGED queued

FallbackRequest(e, t, op, d) ==
    /\ Asks(e, t, op, d)
    /\ \/ op.how = "direct" /\ FallbackDirect(t)
       \/ op = Socket /\ HandleIoOperation(t)
       \/ op.how \in {"retried", "once"} /\ FallbackTransfer(e, t, op, d)
       \/ op.how = "poll" /\ FallbackPoll(e, t, op, d)
    /\ Registers(e)
    /\ UNCHANGED <<now, seen, phase, batch, stolen, stale, polled, miscounted>>

-----------------------------------------------------------------------------
(* must_poll *)

\* MioPoller::poll: the sockets with an event are deregistered; an event is an
\* error or readiness.
PollEvents(e) ==
    /\ phase[e] = "tasks" /\ current[e] = NoTask /\ active[e] > 0
    /\ \E order \in SetToAllKPermutations(poller[e]) : \E errors \in SUBSET Range(order) :
          /\ batch' = [batch EXCEPT ![e] = [i \in DOMAIN order |->
                                              [task |-> order[i], ok |-> order[i] \notin errors]]]
          /\ poller' = [poller EXCEPT ![e] = @ \ Range(order)]
          /\ polled' = [polled EXCEPT ![e] = Len(order)]
    /\ phase' = [phase EXCEPT ![e] = "handle"]
    /\ UNCHANGED <<now, seen, active, deadlines, taskVars, histVars, miscounted>>

\* The assertion that the deadline of a request with an event is in the queue.
DeadlineFound(e, t) ==
    request[t].due # Never => \E x \in deadlines[e] : x.at = request[t].due

\* The deadlines without that one, and the tasks that have lost theirs by it.
Removed(e, t) == [deadlines EXCEPT ![e] = Leave(e, request[t].due)]
RobbedBy(e, t) == {x.task : x \in deadlines[e] \ Leave(e, request[t].due)} \ {t}

\* An answer given by what is written for a task that is being polled, but from
\* the loop over the events: invoke_call is not followed by the end of a poll.
AnswerInLoop(t, r) ==
    /\ Answer(t, r)
    /\ IF t \in LocalTasks
       THEN queued' = queued \cup {t} /\ UNCHANGED fault
       ELSE fault' = "stray call" /\ UNCHANGED queued

\* schedule_io_call_that_not_retriable: connected, or ready.
ScheduleReady(e, t) == Answer(t, "done") /\ Resume(e, t) /\ UNCHANGED fault

\* handle_io_call once more, after the event.
RetryIoCall(e, t) ==
    \/ /\ \E r \in Outcomes(request[t].due) : AnswerInLoop(t, r)
       /\ deadlines' = Removed(e, t)
       /\ UNCHANGED <<active, poller, current>>
    \/ LET due == request[t].due
           left == Leave(e, due)
           at == IF due = Never THEN Never
                 ELSE Min({i \in due .. (due + Cardinality(left)) :
                              \A x \in left : x.at # i})
       IN /\ active' = [active EXCEPT ![e] = Plus(@, 1)]
          /\ poller' = [poller EXCEPT ![e] = @ \cup {t}]
          /\ deadlines' = IF due = Never THEN deadlines
                          ELSE [deadlines EXCEPT ![e] = left \cup {[at |-> at, task |-> t]}]
          /\ request' = [request EXCEPT ![t].due = at]
          /\ Registers(e)
          /\ UNCHANGED <<queued, current>>

\* The next event: readiness.
FallbackReady(e) ==
    LET t == Head(batch[e]).task
    IN /\ Head(batch[e]).ok
       /\ \/ /\ Passed(e, request[t].due)
             /\ AnswerInLoop(t, "timeout") /\ deadlines' = Removed(e, t)
             /\ UNCHANGED <<active, poller, current>>
          \/ /\ ~Passed(e, request[t].due) /\ request[t].then = "retry"
             /\ RetryIoCall(e, t)
          \/ /\ ~Passed(e, request[t].due) /\ request[t].then = "ready"
             /\ ScheduleReady(e, t) /\ deadlines' = Removed(e, t)
             /\ UNCHANGED <<active, poller>>
       /\ UNCHANGED miscounted

\* The next event: an error.  The request is taken off the counter here and once
\* more with all the polled ones.
FallbackError(e) ==
    LET t == Head(batch[e]).task
    IN /\ ~Head(batch[e]).ok
       /\ active' = [active EXCEPT ![e] = Minus(@, 1)]
       /\ miscounted' = miscounted \cup {e}
       /\ deadlines' = Removed(e, t)
       /\ Answer(t, "done") /\ Resume(e, t)
       /\ UNCHANGED <<poller, fault>>

\* poll_and_process: one event; the worker panics when its deadline is missing.
FallbackHandle(e) ==
    /\ phase[e] = "handle" /\ current[e] = NoTask /\ batch[e] # <<>>
    /\ batch' = [batch EXCEPT ![e] = Tail(@)]
    /\ IF DeadlineFound(e, Head(batch[e]).task)
       THEN FallbackReady(e) \/ FallbackError(e)
       ELSE /\ fault' = "deadline missing"
            /\ UNCHANGED <<active, deadlines, request, queued, current, poller, miscounted>>
    /\ stolen' = stolen \cup RobbedBy(e, Head(batch[e]).task)
    /\ UNCHANGED <<now, seen, phase, ops, polled, stale>>

\* Slip: check_deadlines does not look at the clock.
FallbackPolledBlind(e) ==
    /\ phase[e] = "handle" /\ current[e] = NoTask /\ batch[e] = <<>>
    /\ active' = [active EXCEPT ![e] = Minus(@, polled[e])]
    /\ polled' = [polled EXCEPT ![e] = 0]
    /\ phase' = [phase EXCEPT ![e] = "deadlines"]
    /\ UNCHANGED <<now, seen, deadlines, batch, taskVars, histVars, poller, miscounted>>

\* poll_and_process ends, and check_deadlines looks at the clock.
FallbackPolled(e) ==
    /\ phase[e] = "handle" /\ current[e] = NoTask /\ batch[e] = <<>>
    /\ active' = [active EXCEPT ![e] = Minus(@, polled[e])]
    /\ polled' = [polled EXCEPT ![e] = 0]
    /\ seen' = [seen EXCEPT ![e] = now]
    /\ phase' = [phase EXCEPT ![e] = "deadlines"]
    /\ UNCHANGED <<now, deadlines, batch, taskVars, histVars, poller, miscounted>>

\* The first deadline of the queue.
Earliest(e) == CHOOSE x \in deadlines[e] : \A y \in deadlines[e] : x.at <= y.at

\* check_deadlines: the first deadline has passed.
Expire(e) ==
    LET x == Earliest(e)
    IN /\ phase[e] = "deadlines" /\ current[e] = NoTask
       /\ deadlines[e] # {} /\ x.at <= seen[e]
       /\ deadlines' = [deadlines EXCEPT ![e] = @ \ {x}]
       /\ IF x.task \in poller[e]
          THEN /\ poller' = [poller EXCEPT ![e] = @ \ {x.task}]
               /\ Answer(x.task, "timeout") /\ Resume(e, x.task)
               /\ active' = [active EXCEPT ![e] = Minus(@, 1)]
               /\ UNCHANGED fault
          ELSE /\ fault' = "socket missing"
               /\ UNCHANGED <<poller, request, queued, current, active>>
       /\ UNCHANGED <<now, seen, phase, ops, batch, stolen, stale, polled, miscounted>>

\* check_deadlines: none is left that has passed.
FallbackChecked(e) ==
    /\ phase[e] = "deadlines" /\ current[e] = NoTask
    /\ \A x \in deadlines[e] : x.at > seen[e]
    /\ phase' = [phase EXCEPT ![e] = "tasks"]
    /\ UNCHANGED <<now, seen, active, deadlines, batch, taskVars, histVars, pollVars>>

FallbackPolls(e) ==
    \/ PollEvents(e) \/ FallbackHandle(e) \/ FallbackPolled(e) \/ Expire(e) \/ FallbackChecked(e)

=============================================================================
