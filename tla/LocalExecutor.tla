--------------------------- MODULE LocalExecutor ---------------------------
(***************************************************************************)
(* How one executor runs its local tasks (runtime/executor/executor.rs).    *)
(* Whoever wakes a local task executes it at once, inside its own poll:     *)
(* polls nest, and what a primitive does after waking a task it does in a   *)
(* state that the task may have changed.  When exec_task has executed a     *)
(* series of ExecLimit tasks it queues the next one instead.                *)
(***************************************************************************)
EXTENDS Integers, Sequences, SequencesExt, FiniteSets

CONSTANTS
    Tasks,
    ExecLimit        \* 63 in the code

VARIABLES
    local_tasks,     \* the deque of local tasks; the executor pops at the back
    stack,           \* the tasks being polled, the innermost last
    exec_series,
    left,            \* what exec_cpu_tasks still has to pop in this round
    pc,              \* where each task is in the operation of a primitive
    loop,            \* the loop over woken tasks that each task is in, or <<>>
    kind             \* what the tasks use: one of the primitives; never changes

execVars == <<local_tasks, stack, exec_series>>
localVars == <<execVars, left, pc, loop>>

LocalTypeOK ==
    /\ local_tasks \in Seq(Tasks)
    /\ stack \in Seq(Tasks)
    /\ exec_series \in 0 .. ExecLimit
    /\ left \in Nat
    /\ DOMAIN pc = Tasks /\ DOMAIN loop = Tasks

\* The executor begins with the tasks of ts; the others are not made yet.
LocalInit(ts) ==
    /\ local_tasks = SetToSeq(ts)
    /\ pc = [t \in Tasks |-> IF t \in ts THEN "idle" ELSE "unborn"]
    /\ stack = <<>>
    /\ exec_series = 0
    /\ left = 0
    /\ loop = [t \in Tasks |-> <<>>]

\* Task t is the one whose code runs: it is polled innermost and is not in a loop.
Running(t) == stack # <<>> /\ Last(stack) = t /\ loop[t] = <<>>

\* It is polled innermost and its loop goes on.
Looping(t) == stack # <<>> /\ Last(stack) = t /\ loop[t] # <<>>

\* Slip: exec_task has no limit.
ExecTaskAlways(t) ==
    /\ stack' = Append(stack, t)
    /\ UNCHANGED <<local_tasks, exec_series>>

\* exec_task and exec_task_now, up to the poll of the task.
ExecTask(t) ==
    \/ /\ exec_series < ExecLimit
       /\ exec_series' = exec_series + 1
       /\ stack' = Append(stack, t)
       /\ UNCHANGED local_tasks
    \/ /\ exec_series = ExecLimit
       /\ exec_series' = 0
       /\ local_tasks' = Append(local_tasks, t)
       /\ UNCHANGED stack

\* The innermost poll returns; what it was executed by goes on.
Return ==
    /\ stack' = Front(stack)
    /\ UNCHANGED <<local_tasks, exec_series>>

Stay == UNCHANGED execVars

\* The running task goes on at q.
GoTo(t, q) == pc' = [pc EXCEPT ![t] = q]

\* prepare_to_new_round, and the number of tasks of the round.
NewRound ==
    /\ stack = <<>> /\ left = 0
    /\ exec_series' = 0
    /\ left' = Len(local_tasks)
    /\ UNCHANGED <<local_tasks, stack, pc, loop>>

\* exec_cpu_tasks: the next task.  At the limit it is put back.
RunNext ==
    LET t == Last(local_tasks)
    IN /\ stack = <<>> /\ left > 0
       /\ left' = left - 1
       /\ IF exec_series < ExecLimit
          THEN /\ exec_series' = exec_series + 1
               /\ stack' = <<t>>
               /\ local_tasks' = Front(local_tasks)
          ELSE /\ exec_series' = 0
               /\ UNCHANGED <<stack, local_tasks>>
       /\ UNCHANGED <<pc, loop>>

\* yield_now: the task goes to the front of the deque, the last to be popped.
YieldNow(t) ==
    /\ Running(t)
    /\ local_tasks' = <<t>> \o local_tasks
    /\ stack' = Front(stack)
    /\ UNCHANGED <<exec_series, left, loop>>

\* exec_local_future by a running task: the new task runs inside its maker's poll.
ExecFuture(t, u) ==
    /\ Running(t) /\ pc[t] = "idle" /\ pc[u] = "unborn"
    /\ GoTo(u, "idle")
    /\ ExecTask(u)
    /\ UNCHANGED <<left, loop>>

-----------------------------------------------------------------------------
(* Properties of every system of local tasks *)

\* How often t is in the sequence s.
Occurs(t, s) == Cardinality({i \in DOMAIN s : s[i] = t})

\* In how many places a task should be.
Exists(t) == IF pc[t] \in {"unborn", "ended", "over"} THEN 0 ELSE 1

\* exec_cpu_tasks finds a task for every pop it has counted (assert_hint), though
\* the tasks it executes queue and yield others.
RoundIsCovered == left <= Len(local_tasks)

=============================================================================
