------------------------------- MODULE IoPool -------------------------------
(***************************************************************************)
(* The fallback worker with a pool of threads                               *)
(* (io/sys/fallback/with_thread_pool/).  Every operation but a poll goes to *)
(* a thread, which answers it or says that it would block.                  *)
(***************************************************************************)
EXTENDS IoFallback

CONSTANT MaxRetries     \* bound: the retries after which operations do not block

VARIABLES
    threads,         \* requests at the threads of each executor's pool
    completions      \* what the threads have to say: "done" or "must poll"

poolVars == <<threads, completions>>

PoolInit ==
    /\ threads = [e \in Executors |-> {}]
    /\ completions = [e \in Executors |-> <<>>]

\* push_to_worker_pool
Push(e, t) ==
    /\ threads' = [threads EXCEPT ![e] = @ \cup {t}]
    /\ active' = [active EXCEPT ![e] = Plus(@, 1)]

\* Files, directories, shutdown and close.
PoolDirect(e, t, op) ==
    /\ Push(e, t) /\ Asked(t, AfterEvent(op), Never, Never, "none")
    /\ UNCHANGED <<deadlines, queued, poller>>

\* What may have to wait for a peer: its deadline is registered when the thread has
\* said that it would block.
PoolTransfer(e, t, op, d) ==
    \/ Passed(e, d) /\ RefusePassed(t, d) /\ UNCHANGED threads
    \/ /\ ~Passed(e, d)
       /\ Push(e, t) /\ Asked(t, AfterEvent(op), d, d, "none")
       /\ UNCHANGED <<deadlines, queued, poller>>

PoolRequest(e, t, op, d) ==
    /\ Asks(e, t, op, d)
    /\ \/ op.how \in {"direct", "socket"} /\ PoolDirect(e, t, op)
       \/ op.how \in {"retried", "once"} /\ PoolTransfer(e, t, op, d)
       \/ op.how = "poll" /\ FallbackPoll(e, t, op, d) /\ UNCHANGED threads
    /\ Registers(e)
    /\ UNCHANGED <<now, seen, phase, batch, stolen, stale, polled, miscounted, completions>>

\* The retries of executor e, each of which has left one in the counter.
Retries(e) == active[e] - Cardinality(poller[e]) - Cardinality(threads[e]) - Len(completions[e])

\* ThreadWorker::run: a thread does the operation and reports.
ThreadWorks(e, t) ==
    /\ t \in threads[e]
    /\ threads' = [threads EXCEPT ![e] = @ \ {t}]
    /\ \/ /\ \E r \in Outcomes(request[t].due) : Answer(t, r)
          /\ completions' = [completions EXCEPT ![e] = Append(@, [task |-> t, what |-> "done"])]
       \/ /\ request[t].then # "none" /\ Retries(e) <= MaxRetries
          /\ completions' = [completions EXCEPT ![e] = Append(@, [task |-> t, what |-> "must poll"])]
          /\ UNCHANGED request
    /\ UNCHANGED <<now, seen, phase, active, deadlines, batch, current, queued, ops,
                   histVars, pollVars>>

\* The next event: readiness.  A request that is retried goes to a thread, and
\* is counted a second time.
PoolReady(e) ==
    LET t == Head(batch[e]).task
    IN /\ Head(batch[e]).ok
       /\ deadlines' = Removed(e, t)
       /\ \/ /\ Passed(e, request[t].due) /\ AnswerInLoop(t, "timeout")
             /\ UNCHANGED <<active, current, threads>>
          \/ /\ ~Passed(e, request[t].due) /\ request[t].then = "retry"
             /\ Push(e, t) /\ UNCHANGED <<request, current, queued, fault>>
          \/ /\ ~Passed(e, request[t].due) /\ request[t].then = "ready"
             /\ ScheduleReady(e, t)
             /\ active' = [active EXCEPT ![e] = Minus(@, 1)]
             /\ UNCHANGED threads

PoolError(e) ==
    LET t == Head(batch[e]).task
    IN /\ ~Head(batch[e]).ok
       /\ active' = [active EXCEPT ![e] = Minus(@, 1)]
       /\ deadlines' = Removed(e, t)
       /\ Answer(t, "done") /\ Resume(e, t)
       /\ UNCHANGED <<threads, fault>>

\* poll_and_process: one event.
PoolHandle(e) ==
    /\ phase[e] = "handle" /\ current[e] = NoTask /\ batch[e] # <<>>
    /\ batch' = [batch EXCEPT ![e] = Tail(@)]
    /\ IF DeadlineFound(e, Head(batch[e]).task)
       THEN PoolReady(e) \/ PoolError(e)
       ELSE /\ fault' = "deadline missing"
            /\ UNCHANGED <<active, deadlines, request, queued, current, threads>>
    /\ stolen' = stolen \cup RobbedBy(e, Head(batch[e]).task)
    /\ UNCHANGED <<now, seen, phase, ops, poller, polled, miscounted, stale, completions>>

\* poll_and_process ends, and check_deadlines looks at the clock.
PoolPolled(e) ==
    /\ phase[e] = "handle" /\ current[e] = NoTask /\ batch[e] = <<>>
    /\ seen' = [seen EXCEPT ![e] = now]
    /\ polled' = [polled EXCEPT ![e] = 0]
    /\ phase' = [phase EXCEPT ![e] = "deadlines"]
    /\ UNCHANGED <<now, active, deadlines, batch, taskVars, histVars, poller, miscounted,
                   poolVars>>

\* check_deadlines ends; the completions are fetched and taken off the counter.
FetchCompletions(e) ==
    /\ phase[e] = "deadlines" /\ current[e] = NoTask
    /\ \A x \in deadlines[e] : x.at > seen[e]
    /\ batch' = [batch EXCEPT ![e] = completions[e]]
    /\ completions' = [completions EXCEPT ![e] = <<>>]
    /\ active' = [active EXCEPT ![e] = Minus(@, Len(completions[e]))]
    /\ phase' = [phase EXCEPT ![e] = "results"]
    /\ UNCHANGED <<now, seen, deadlines, taskVars, histVars, pollVars, threads>>

\* must_poll_: the next completion.
HandleCompletion(e) ==
    LET x == Head(batch[e])
        q == request[x.task]
    IN /\ phase[e] = "results" /\ current[e] = NoTask /\ batch[e] # <<>>
       /\ batch' = [batch EXCEPT ![e] = Tail(@)]
       /\ \/ /\ x.what = "done" /\ Resume(e, x.task)
             /\ UNCHANGED <<request, deadlines, active, poller>>
          \/ /\ x.what = "must poll" /\ Register(e, x.task, q.then, q.asked, q.due)
             /\ UNCHANGED <<queued, current>>
       /\ Registers(e)
       /\ UNCHANGED <<now, seen, phase, ops, stolen, stale, polled, miscounted, poolVars>>

\* must_poll returns.
PoolChecked(e) ==
    /\ phase[e] = "results" /\ current[e] = NoTask /\ batch[e] = <<>>
    /\ phase' = [phase EXCEPT ![e] = "tasks"]
    /\ UNCHANGED <<now, seen, active, deadlines, batch, taskVars, histVars, pollVars, poolVars>>

PoolPolls(e) ==
    \/ (PollEvents(e) \/ Expire(e)) /\ UNCHANGED poolVars
    \/ PoolHandle(e) \/ PoolPolled(e) \/ FetchCompletions(e) \/ HandleCompletion(e) \/ PoolChecked(e)

=============================================================================
