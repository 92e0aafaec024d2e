------------------------------ MODULE IoUring -------------------------------
(***************************************************************************)
(* The io_uring worker (io/sys/linux/io_uring.rs).  Requests and            *)
(* cancellations are entries of the submission queue, or of the backlog     *)
(* when it is full; the kernel takes entries in order and answers them in   *)
(* the completion queue.  The kernel is external.                           *)
(***************************************************************************)
EXTENDS IoRequests

CONSTANT Entries     \* number_of_entries of the submission queue

VARIABLES
    sq, backlog,     \* entries not yet taken by the kernel
    flying           \* requests the kernel is working on

ringVars == <<sq, backlog, flying>>

\* An entry and a completion; "cancel" completions carry ASYNC_CLOSE_DATA.
Entry(t, what) == [task |-> t, what |-> what]

UringTypeOK ==
    \A e \in Executors :
       /\ Len(sq[e]) <= Entries
       /\ \A x \in Range(sq[e] \o backlog[e]) : x.what \in {"request", "cancel"}
       /\ flying[e] \subseteq Tasks

UringInit ==
    /\ sq = [e \in Executors |-> <<>>] /\ backlog = [e \in Executors |-> <<>>]
    /\ flying = [e \in Executors |-> {}]

\* Slip: an entry that finds the submission queue full is dropped.
AddSqeDropping(e, x) ==
    /\ active' = [active EXCEPT ![e] = @ + 1]
    /\ sq' = IF Len(sq[e]) < Entries THEN [sq EXCEPT ![e] = Append(@, x)] ELSE sq
    /\ UNCHANGED backlog

\* add_sqe
AddSqe(e, x) ==
    /\ active' = [active EXCEPT ![e] = @ + 1]
    /\ IF Len(sq[e]) < Entries
       THEN sq' = [sq EXCEPT ![e] = Append(@, x)] /\ UNCHANGED backlog
       ELSE backlog' = [backlog EXCEPT ![e] = Append(@, x)] /\ UNCHANGED sq

\* An operation that has no form with a deadline: its entry is registered.
UringPlain(e, t) ==
    /\ Asked(t, "none", Never, Never, "none")
    /\ AddSqe(e, Entry(t, "request"))
    /\ UNCHANGED <<deadlines, queued>>

\* An operation with a deadline: register_time_bounded_io_task, then its entry.
UringBounded(e, t, d) ==
    /\ Asked(t, "none", d, FreeAt(e, d), "none")
    /\ EnterDeadline(e, t, FreeAt(e, d))
    /\ AddSqe(e, Entry(t, "request"))
    /\ UNCHANGED queued

\* socket() on a kernel without that opcode: the system call is made at once and
\* the task is spawned.
UringSocketCall(e, t) ==
    /\ Asked(t, "none", Never, Never, "done")
    /\ queued' = queued \cup {t}
    /\ UNCHANGED <<active, deadlines, sq, backlog>>

\* Files, directories, shutdown and close: always one entry.
UringDirect(e, t) == UringPlain(e, t)

\* What may have to wait for a peer: one entry, with or without a deadline.
UringTransfer(e, t, d) ==
    \/ d = Never /\ UringPlain(e, t)
    \/ d # Never /\ UringBounded(e, t, d)

UringRequest(e, t, op, d) ==
    /\ Asks(e, t, op, d)
    /\ \/ op.how = "direct" /\ UringDirect(e, t)
       \/ op.how \in {"retried", "once", "poll"} /\ UringTransfer(e, t, d)
       \/ op = Socket /\ (UringPlain(e, t) \/ UringSocketCall(e, t))
    /\ UNCHANGED <<now, seen, phase, batch, histVars, flying>>

\* prepare_to_new_round after a round without work for the worker: the executor
\* looks at the clock.
UringNewRound(e) ==
    /\ phase[e] = "tasks" /\ current[e] = NoTask /\ active[e] = 0
    /\ seen' = [seen EXCEPT ![e] = now]
    /\ UNCHANGED <<now, phase, active, deadlines, batch, taskVars, histVars, ringVars>>

\* How the kernel takes one entry, and the completions it leads to.  A
\* cancellation finds a request by its address, which a later request of the same
\* task may have too.
Take(kernel, x, reused) ==
    CASE x.what = "request" -> [kernel EXCEPT !.flying = @ \cup {x.task}]
      [] x.what = "cancel" /\ x.task \in kernel.flying /\ (x.task \in stale => reused) ->
            [flying |-> kernel.flying \ {x.task},
             cq |-> kernel.cq \o <<Entry(x.task, "timeout"), Entry(x.task, "cancel")>>]
      [] OTHER -> [kernel EXCEPT !.cq = Append(@, Entry(x.task, "cancel"))]

\* How the kernel may complete some of its requests, in some order.
Completed(kernel) ==
    {[flying |-> kernel.flying \ Range(order),
      cq |-> kernel.cq \o [i \in DOMAIN order |->
                             Entry(order[i], IF order[i] \in lost THEN "ETIMEDOUT" ELSE "done")]] :
        order \in SetToAllKPermutations(kernel.flying),
        lost \in SUBSET {t \in kernel.flying : request[t].due # Never}}

\* check_deadlines: the deadlines that have passed, each with its cancellation.
Expired(e) == {x \in deadlines[e] : x.at <= seen[e]}

Cancellations(e) ==
    LET inOrder == SetToSortSeq(Expired(e), LAMBDA x, y : x.at < y.at)
    IN [i \in DOMAIN inOrder |-> Entry(inOrder[i].task, "cancel")]

\* Slip: the completions of cancellations are not counted.
ReapRequests(e, kernel) ==
    /\ flying' = [flying EXCEPT ![e] = kernel.flying]
    /\ batch' = [batch EXCEPT ![e] = kernel.cq]
    /\ active' = [active EXCEPT ![e] = @ + Cardinality(Expired(e))
                                       - Len(SelectSeq(kernel.cq, LAMBDA x : x.what # "cancel"))]

\* must_poll: the completions that are there are counted and fetched.
Reap(e, kernel) ==
    /\ flying' = [flying EXCEPT ![e] = kernel.flying]
    /\ batch' = [batch EXCEPT ![e] = kernel.cq]
    /\ active' = [active EXCEPT ![e] = @ + Cardinality(Expired(e)) - Len(kernel.cq)]

\* must_poll up to the loop over the completions: check_deadlines, submission, and
\* what the kernel has completed before it and completes during it.  The kernel
\* takes all the entries, the submission queue being filled again from the
\* backlog whenever it was full; or it says EBUSY to one of the submissions, as it
\* does while completions overflow, and the submission queue stays as it is.
UringSubmit(e) ==
    LET entries == sq[e] \o backlog[e] \o Cancellations(e)
        busy == {n \in 0 .. (Len(entries) - 1) : n % Entries = 0}
    IN /\ phase[e] = "tasks" /\ current[e] = NoTask /\ active[e] > 0
       /\ deadlines' = [deadlines EXCEPT ![e] = @ \ Expired(e)]
       /\ phase' = [phase EXCEPT ![e] = "handle"]
       /\ \E before \in Completed([flying |-> flying[e], cq |-> <<>>]),
             n \in busy \cup {Len(entries)}, reused \in BOOLEAN :
             LET taken == FoldLeft(LAMBDA k, x : Take(k, x, reused), before, SubSeq(entries, 1, n))
                 kept == Min({n + Entries, Len(entries)})
             IN \E after \in Completed(taken) :
                   /\ n \in busy => after.cq # <<>>
                   /\ Reap(e, after)
                   /\ sq' = [sq EXCEPT ![e] = SubSeq(entries, n + 1, kept)]
                   /\ backlog' = [backlog EXCEPT ![e] = SubSeq(entries, kept + 1, Len(entries))]
       /\ UNCHANGED <<now, seen, taskVars, histVars>>

\* must_poll: a submission fails with another error than EBUSY and ETIME (a signal, no
\* memory), and expect() panics.
UringSubmitFails(e) ==
    /\ phase[e] = "tasks" /\ current[e] = NoTask /\ active[e] > 0
    /\ fault' = "submit failed"
    /\ UNCHANGED <<now, seen, phase, active, deadlines, batch, taskVars, stolen, stale, ringVars>>

\* must_poll: the next completion.  A local task runs inside the loop.
UringHandle(e) ==
    LET x == Head(batch[e])
    IN /\ phase[e] = "handle" /\ current[e] = NoTask /\ batch[e] # <<>>
       /\ batch' = [batch EXCEPT ![e] = Tail(@)]
       /\ IF x.what = "cancel"
          THEN UNCHANGED <<request, queued, current>>
          ELSE Answer(x.task, x.what) /\ Resume(e, x.task)
       /\ UNCHANGED <<now, seen, phase, ops, active, deadlines, histVars, ringVars>>

\* The loop is over; the round goes on, and the next one looks at the clock.
UringPolled(e) ==
    /\ phase[e] = "handle" /\ current[e] = NoTask /\ batch[e] = <<>>
    /\ phase' = [phase EXCEPT ![e] = "tasks"]
    /\ seen' = [seen EXCEPT ![e] = now]
    /\ UNCHANGED <<now, active, deadlines, batch, taskVars, histVars, ringVars>>

UringPolls(e) ==
    \/ UringNewRound(e) \/ UringSubmit(e) \/ UringSubmitFails(e)
    \/ UringHandle(e) \/ UringPolled(e)

-----------------------------------------------------------------------------
(* The places a request can be in, and what the counter should count *)

UringHolds(e) ==
    LET requests(s) == SelectSeq(s, LAMBDA x : x.what # "cancel")
    IN requests(sq[e]) \o requests(backlog[e]) \o requests(batch[e])
          \o SetToSeq({Entry(t, "request") : t \in flying[e]})

UringCounted(e) == Len(sq[e]) + Len(backlog[e]) + Cardinality(flying[e])

=============================================================================
