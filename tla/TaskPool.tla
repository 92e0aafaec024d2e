------------------------------ MODULE TaskPool ------------------------------
(***************************************************************************)
(* The pool in which an executor keeps the allocations of finished tasks    *)
(* (runtime/task/task_pool.rs, task.rs, task_data.rs).  A task is a tagged  *)
(* fat pointer: the memory of a future, the table of functions by which it  *)
(* is polled, and the bit that says whether the task is local.              *)
(***************************************************************************)
EXTENDS FiniteSets, Naturals

CONSTANTS
    Kinds,        \* the types of futures
    Size,         \* the size of each
    MaxTasks      \* bound: allocations

VARIABLES
    tasks,        \* the allocations: what each pointer says, and the future in the memory
    live,         \* the allocations that are tasks now
    storage       \* TaskPool::storage: for each size, the allocations it keeps

vars == <<tasks, live, storage>>

Sizes == {Size[k] : k \in Kinds}
Localities == {"local", "shared"}

Init ==
    /\ tasks = [i \in {} |-> {}]
    /\ live = {}
    /\ storage = [s \in Sizes |-> {}]

\* acquire: a task of the same size is taken out of the pool and the future is
\* written to its memory, or a new task is made.
Acquire(future, locality) ==
    LET pool == storage[Size[future]]
    IN \/ \E i \in pool :
             /\ tasks' = [tasks EXCEPT ![i].future = future, ![i].asked = locality]
             /\ live' = live \union {i}
             /\ storage' = [storage EXCEPT ![Size[future]] = @ \ {i}]
       \/ /\ pool = {} /\ Cardinality(DOMAIN tasks) < MaxTasks
          /\ LET i == Cardinality(DOMAIN tasks) + 1
                 task == [table |-> future, locality |-> locality, future |-> future, asked |-> locality]
             IN /\ tasks' = [j \in DOMAIN tasks \union {i} |-> IF j = i THEN task ELSE tasks[j]]
                /\ live' = live \union {i}
          /\ UNCHANGED storage

\* A task that is ready is released: put, under the size that its table says.
Put(i) ==
    /\ i \in live
    /\ live' = live \ {i}
    /\ storage' = [storage EXCEPT ![Size[tasks[i].table]] = @ \union {i}]
    /\ UNCHANGED tasks

Next ==
    \/ \E f \in Kinds, l \in Localities : Acquire(f, l)
    \/ \E i \in live : Put(i)

Spec == Init /\ [][Next]_vars

-----------------------------------------------------------------------------
\* A task is polled by the functions of the future it was made from and has the
\* locality it was made with (Task::from_future: "Returns a Task with the given
\* future").
TaskIsTheGivenFuture ==
    \A i \in live :
       /\ tasks[i].table = tasks[i].future
       /\ tasks[i].locality = tasks[i].asked

=============================================================================
