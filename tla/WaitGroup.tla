----------------------------- MODULE WaitGroup -----------------------------
(***************************************************************************)
(* The shared `WaitGroup` of sync/wait_groups/shared.rs, with the executor  *)
(* call it parks its waiters by (Executor::handle_call).                    *)
(*                                                                          *)
(* `counter` is the number of pieces of work that were added and are not    *)
(* done.  A wait() future always parks: the executor pushes the task to     *)
(* `waited_tasks` and only then looks at the counter; when it is 0 the      *)
(* executor pops a task again and runs it.  The done() that brings the      *)
(* counter to 0 pops all the tasks and spawns them.  The push, the look and *)
(* the pop are three steps of the executor's thread, and the decrement and  *)
(* the pop two steps of the worker's thread: as soon as a task is in the    *)
(* list, another thread may take it out and run it.                         *)
(***************************************************************************)
EXTENDS Integers, Sequences, FiniteSets

CONSTANTS
    Waits,      \* the wait() futures, each awaited by one task
    Workers,    \* the tasks that take work and call done()
    MaxAdds     \* bound: pieces of work one worker is given

ASSUME WaitsFinite == IsFiniteSet(Waits)
ASSUME WorkersFinite == IsFiniteSet(Workers)
ASSUME MaxAddsNat == MaxAdds \in Nat

VARIABLES
    counter,       \* WaitGroup::counter (AtomicUsize)
    waited_tasks,  \* WaitGroup::waited_tasks (SyncTaskList)
    wait,          \* the state of the task that awaits each wait() future
    handler,       \* the handle_call of each wait(), on its executor's thread
    work,          \* the state of each worker
    adds,          \* pieces of work a worker may still be given
    owed,          \* history: the workers at work when each wait() was called
                   \* that have not finished that work
    early          \* history: the workers given work while an earlier wake-up
                   \* had seen the counter at 0 and had not yet popped

vars == <<counter, waited_tasks, wait, handler, work, adds, owed, early>>

TypeOK ==
    /\ counter \in Nat
    /\ waited_tasks \in Seq(Waits)
    /\ wait \in [Waits -> {"new", "pending", "parked", "woken", "returned"}]
    /\ handler \in [Waits -> {"none", "check", "pop"}]
    /\ work \in [Workers -> {"idle", "working", "last"}]
    /\ adds \in [Workers -> Nat]
    /\ owed \in [Waits -> SUBSET Workers]
    /\ early \subseteq Workers

Init ==
    /\ counter = 0
    /\ waited_tasks = <<>>
    /\ wait = [f \in Waits |-> "new"]
    /\ handler = [f \in Waits |-> "none"]
    /\ work = [w \in Workers |-> "idle"]
    /\ adds = [w \in Workers |-> MaxAdds]
    /\ owed = [f \in Waits |-> {}]
    /\ early = {}

\* The workers whose work is counted.
Working == {w \in Workers : work[w] = "working"}

\* The wake-ups that have seen the counter at 0 and will pop tasks because of it.
Drainers == {w \in Workers : work[w] = "last"}
Poppers == {f \in Waits : handler[f] = "pop"}

-----------------------------------------------------------------------------
(* wait() *)

\* The first poll of WaitSharedWaitGroup asks for the call and returns Pending.
Wait(f) ==
    /\ wait[f] = "new"
    /\ wait' = [wait EXCEPT ![f] = "pending"]
    /\ owed' = [owed EXCEPT ![f] = Working]
    /\ UNCHANGED <<counter, waited_tasks, handler, work, adds, early>>

\* handle_call, PushCurrentTaskToAndRemoveItIfCounterIsZero: the push ...
Push(f) ==
    /\ wait[f] = "pending"
    /\ waited_tasks' = Append(waited_tasks, f)
    /\ wait' = [wait EXCEPT ![f] = "parked"]
    /\ handler' = [handler EXCEPT ![f] = "check"]
    /\ UNCHANGED <<counter, work, adds, owed, early>>

\* Slip: the counter is not looked at again after the push.
CheckOmitted(f) ==
    /\ handler[f] = "check"
    /\ handler' = [handler EXCEPT ![f] = "none"]
    /\ UNCHANGED <<counter, waited_tasks, wait, work, adds, owed, early>>

\* ... the load of the counter ...
Check(f) ==
    /\ handler[f] = "check"
    /\ handler' = [handler EXCEPT ![f] = IF counter = 0 THEN "pop" ELSE "none"]
    /\ UNCHANGED <<counter, waited_tasks, wait, work, adds, owed, early>>

\* Slip: the task is run without being taken out of the list.
PopPeeks(f) ==
    /\ handler[f] = "pop"
    /\ handler' = [handler EXCEPT ![f] = "none"]
    /\ waited_tasks # <<>>
    /\ wait' = [wait EXCEPT ![waited_tasks[Len(waited_tasks)]] = "woken"]
    /\ UNCHANGED <<counter, waited_tasks, work, adds, owed, early>>

\* ... and the pop of the task pushed last, whichever it is, which is executed.
Pop(f) ==
    /\ handler[f] = "pop"
    /\ handler' = [handler EXCEPT ![f] = "none"]
    /\ \/ /\ waited_tasks = <<>>
          /\ UNCHANGED <<waited_tasks, wait>>
       \/ /\ waited_tasks # <<>>
          /\ LET n == Len(waited_tasks)
             IN /\ wait' = [wait EXCEPT ![waited_tasks[n]] = "woken"]
                /\ waited_tasks' = SubSeq(waited_tasks, 1, n - 1)
    /\ UNCHANGED <<counter, work, adds, owed, early>>

\* The second poll: was_called is set, so the future is ready.
Return(f) ==
    /\ wait[f] = "woken"
    /\ wait' = [wait EXCEPT ![f] = "returned"]
    /\ UNCHANGED <<counter, waited_tasks, handler, work, adds, owed, early>>

-----------------------------------------------------------------------------
(* add() and done() *)

\* add(count), for the workers S that are given the work; inc() is add(1).
Add(S) ==
    /\ S # {}
    /\ \A w \in S : work[w] = "idle" /\ adds[w] > 0
    /\ counter' = counter + Cardinality(S)
    /\ work' = [w \in Workers |-> IF w \in S THEN "working" ELSE work[w]]
    /\ adds' = [w \in Workers |-> IF w \in S THEN adds[w] - 1 ELSE adds[w]]
    /\ early' = IF Drainers \cup Poppers # {} THEN early \cup S ELSE early
    /\ UNCHANGED <<waited_tasks, wait, handler, owed>>

\* Slip: the test is on the value after the decrement being 1.
DoneOffByOne(w) ==
    /\ work[w] = "working"
    /\ counter' = counter - 1
    /\ work' = [work EXCEPT ![w] = IF counter = 2 THEN "last" ELSE "idle"]
    /\ owed' = [f \in Waits |-> owed[f] \ {w}]
    /\ UNCHANGED <<waited_tasks, wait, handler, adds, early>>

\* done(): fetch_sub(1), whose result tells the last worker ...
Done(w) ==
    /\ work[w] = "working"
    /\ counter' = counter - 1
    /\ work' = [work EXCEPT ![w] = IF counter = 1 THEN "last" ELSE "idle"]
    /\ owed' = [f \in Waits |-> owed[f] \ {w}]
    /\ UNCHANGED <<waited_tasks, wait, handler, adds, early>>

\* ... which pops all the waiting tasks at once and spawns them.
WakeAll(w) ==
    /\ work[w] = "last"
    /\ work' = [work EXCEPT ![w] = "idle"]
    /\ waited_tasks' = <<>>
    /\ wait' = [f \in Waits |->
                  IF \E i \in DOMAIN waited_tasks : waited_tasks[i] = f
                  THEN "woken" ELSE wait[f]]
    /\ UNCHANGED <<counter, handler, adds, owed, early>>

-----------------------------------------------------------------------------

HandleCall(f) == Push(f) \/ Check(f) \/ Pop(f)

Next ==
    \/ \E f \in Waits : Wait(f) \/ HandleCall(f) \/ Return(f)
    \/ \E S \in SUBSET Workers : Add(S)
    \/ \E w \in Workers : Done(w) \/ WakeAll(w)

Spec == Init /\ [][Next]_vars

\* A thread inside handle_call or done() keeps running, an executor polls the
\* tasks it was given, and work that was added is eventually done.
Fairness ==
    /\ \A f \in Waits : WF_vars(HandleCall(f)) /\ WF_vars(Return(f))
    /\ \A w \in Workers : WF_vars(Done(w)) /\ WF_vars(WakeAll(w))

FairSpec == Spec /\ Fairness

-----------------------------------------------------------------------------
(* Properties *)

\* A parked task is in the list exactly once, and only parked tasks are: the
\* three places that pop (done(), handle_call of its own wait() and handle_call
\* of another) never run a task twice.
ListIsParked ==
    /\ \A f \in Waits :
          (wait[f] = "parked")
            <=> (\E i \in DOMAIN waited_tasks : waited_tasks[i] = f)
    /\ \A i, j \in DOMAIN waited_tasks : waited_tasks[i] = waited_tasks[j] => i = j

\* The counter is the number of workers at work, so done() never finds it at 0
\* (the debug assertion of done()).
CounterIsWork == counter = Cardinality(Working)

\* No wake-up is lost between the push and the look at the counter: while the
\* counter is 0, either a done() is about to pop every task or each task in the
\* list is matched by a handle_call that has still to look or to pop.
NoLostWaiter ==
    counter = 0 =>
        \/ Drainers # {}
        \/ Len(waited_tasks) <= Cardinality({f \in Waits : handler[f] # "none"})

\* A wait() is woken only when all the work it was called for is done, provided
\* no work was added while a wake-up for an earlier zero was under way.
WaitsForWork ==
    early = {} =>
        \A f \in Waits : wait[f] \in {"woken", "returned"} => owed[f] = {}

\* Every wait() returns, also when the group is used again meanwhile.
WaitReturns == \A f \in Waits : (wait[f] = "pending") ~> (wait[f] = "returned")

\* The group's fields agree with its users: the list holds each parked task once and
\* nothing else, and the counter is the number of workers that have not been done(),
\* although handle_call and done() pop each other's tasks.
GroupIsConsistent == TypeOK /\ ListIsParked /\ CounterIsWork

=============================================================================
