---------------------------- MODULE WorkSharing ----------------------------
(***************************************************************************)
(* Shared tasks on their way between executors: the shared_tasks deque and  *)
(* the ExecutorSharedTaskList of each executor, over the registry.          *)
(*                                                                          *)
(* An executor whose deque has grown beyond `work_sharing_level` moves more *)
(* than half of it, the oldest tasks, to its list when it spawns another    *)
(* one; an executor whose deque is below the level takes tasks back from    *)
(* its own list or else from the lists of its neighbours, as its copy of    *)
(* the registry names them; an executor that stops leaves its tasks to the  *)
(* first neighbour.  Each list is behind a NeverWaitLock: any attempt to    *)
(* lock it may fail, and what is done under the lock is one step.           *)
(*                                                                          *)
(* The last element of a deque or of a list is the one that is popped.  A   *)
(* round executes some tasks, which may spawn others, and ends with         *)
(* take_work_if_needed.                                                     *)
(***************************************************************************)
EXTENDS GlobalState

CONSTANTS
    MaxTasks,       \* bound: shared tasks that are spawned
    Level,          \* Config::work_sharing_level
    MaxTaken,       \* MAX_NUMBER_OF_TASKS_TAKEN
    MaxYields       \* bound: how often tasks yield before they finish

ASSUME MaxTasksNat == MaxTasks \in Nat
ASSUME LevelPositive == Level \in Nat \ {0}
ASSUME MaxTakenNat == MaxTaken \in Nat
ASSUME MaxYieldsNat == MaxYields \in Nat

\* The tasks, in the order in which they are spawned.
TaskIds == 1 .. MaxTasks

VARIABLES
    shared_tasks,       \* Executor::shared_tasks
    shared_tasks_list,  \* Executor::shared_tasks_list
    scan,               \* the neighbours that take_work_if_needed still tries, or
                        \* the one that graceful_stop hands its tasks to
    moved,              \* the tasks graceful_stop has drained from its own list
    task,               \* the state of each task
    yields,             \* how often tasks may still yield
    dropped             \* history: the tasks dropped with a stopped executor

work == <<shared_tasks, shared_tasks_list, scan, moved, task, yields, dropped>>
wvars == <<registry, work>>

WTypeOK ==
    /\ TypeOK
    /\ shared_tasks \in [Executors -> Seq(TaskIds)]
    /\ shared_tasks_list \in [Executors -> Seq(TaskIds)]
    /\ scan \in [Executors -> Seq(Executors)]
    /\ \A e \in Executors : scan[e] # <<>> => loop[e] \in {"round", "stopped"}
    /\ moved \in [Executors -> Seq(TaskIds)]
    /\ task \in [TaskIds -> {"new", "live", "done"}]
    /\ yields \in Nat
    /\ dropped \subseteq TaskIds

WInit ==
    /\ Init
    /\ shared_tasks = [e \in Executors |-> <<>>]
    /\ shared_tasks_list = [e \in Executors |-> <<>>]
    /\ scan = [e \in Executors |-> <<>>]
    /\ moved = [e \in Executors |-> <<>>]
    /\ task = [t \in TaskIds |-> "new"]
    /\ yields = MaxYields
    /\ dropped = {}

Smaller(m, n) == IF m < n THEN m ELSE n

\* The first and the last n elements of a deque or a list, and the rest.
FirstOf(q, n) == SubSeq(q, 1, n)
AfterFirst(q, n) == SubSeq(q, n + 1, Len(q))
LastOf(q, n) == SubSeq(q, Len(q) - n + 1, Len(q))
BeforeLast(q, n) == SubSeq(q, 1, Len(q) - n)

\* The last n elements in the order in which they are popped.
Popped(q, n) == [i \in 1 .. n |-> q[Len(q) - i + 1]]

\* Executor e is in the part of its round where it has no scan under way.
AtWork(e) == loop[e] = "round" /\ scan[e] = <<>>
Scanning(e) == loop[e] = "round" /\ scan[e] # <<>>

-----------------------------------------------------------------------------
(* Spawning and executing *)

\* t is the next task to be spawned.
IsNext(t) == task[t] = "new" /\ \A u \in 1 .. t - 1 : task[u] # "new"

\* spawn_shared_task without a flush: the deque has not grown beyond the level
\* or its list is locked.
Spawn(e, t) ==
    /\ AtWork(e)
    /\ IsNext(t)
    /\ shared_tasks' = [shared_tasks EXCEPT ![e] = Append(@, t)]
    /\ task' = [task EXCEPT ![t] = "live"]
    /\ UNCHANGED <<registry, shared_tasks_list, scan, moved, yields, dropped>>

\* spawn_shared_task with try_flush.
SpawnFlush(e, t) ==
    /\ AtWork(e)
    /\ IsNext(t)
    /\ Len(shared_tasks[e]) > Level
    /\ LET n == Len(shared_tasks[e]) \div 2 + 1
       IN /\ shared_tasks_list' =
               [shared_tasks_list EXCEPT ![e] = @ \o FirstOf(shared_tasks[e], n)]
          /\ shared_tasks' =
               [shared_tasks EXCEPT ![e] = Append(AfterFirst(@, n), t)]
    /\ task' = [task EXCEPT ![t] = "live"]
    /\ UNCHANGED <<registry, scan, moved, yields, dropped>>

\* exec_cpu_tasks pops the task spawned last; it finishes or yields, and a task
\* that yields is put where it is popped last.
Exec(e) ==
    /\ AtWork(e)
    /\ shared_tasks[e] # <<>>
    /\ LET t == shared_tasks[e][Len(shared_tasks[e])]
       IN \/ /\ task' = [task EXCEPT ![t] = "done"]
             /\ shared_tasks' = [shared_tasks EXCEPT ![e] = BeforeLast(@, 1)]
             /\ UNCHANGED yields
          \/ /\ yields > 0
             /\ yields' = yields - 1
             /\ UNCHANGED task
             /\ shared_tasks' = [shared_tasks EXCEPT ![e] = <<t>> \o BeforeLast(@, 1)]
    /\ UNCHANGED <<registry, shared_tasks_list, scan, moved, dropped>>

-----------------------------------------------------------------------------
(* take_work_if_needed, which ends the round *)

\* The deque is long enough, or there is nobody to take tasks from and the
\* executor's own list is empty or locked.
TakeNothing(e) ==
    /\ AtWork(e)
    /\ Len(shared_tasks[e]) >= Level \/ tasks_lists[e] = <<>>
    /\ Round(e)
    /\ UNCHANGED work

\* Slip: the limit is one too small.
TakeOwnOffByOne(e) ==
    /\ AtWork(e)
    /\ Len(shared_tasks[e]) < Level
    /\ shared_tasks_list[e] # <<>>
    /\ LET l == shared_tasks_list[e]
           n == Smaller(Level - Len(shared_tasks[e]) - 1, Len(l))
       IN /\ shared_tasks' = [shared_tasks EXCEPT ![e] = @ \o Popped(l, n)]
          /\ shared_tasks_list' = [shared_tasks_list EXCEPT ![e] = BeforeLast(l, n)]
    /\ Round(e)
    /\ UNCHANGED <<scan, moved, task, yields, dropped>>

\* The executor's own list has tasks: it pops them until it reaches the level.
TakeOwn(e) ==
    /\ AtWork(e)
    /\ Len(shared_tasks[e]) < Level
    /\ shared_tasks_list[e] # <<>>
    /\ LET l == shared_tasks_list[e]
           n == Smaller(Level - Len(shared_tasks[e]), Len(l))
       IN /\ shared_tasks' = [shared_tasks EXCEPT ![e] = @ \o Popped(l, n)]
          /\ shared_tasks_list' = [shared_tasks_list EXCEPT ![e] = BeforeLast(l, n)]
    /\ Round(e)
    /\ UNCHANGED <<scan, moved, task, yields, dropped>>

\* It is empty or locked: a random number of neighbours is tried.
ScanBegin(e) ==
    /\ AtWork(e)
    /\ Len(shared_tasks[e]) < Level
    /\ \E n \in DOMAIN tasks_lists[e] :
          scan' = [scan EXCEPT ![e] = FirstOf(tasks_lists[e], n)]
    /\ UNCHANGED <<registry, shared_tasks, shared_tasks_list, moved, task, yields, dropped>>

\* The round is over with the scan.
AfterScan(e) == IF scan'[e] = <<>> THEN Round(e) ELSE UNCHANGED registry

\* MAX_NUMBER_OF_TASKS_TAKEN - self.shared_tasks.len(), or all of the list l if
\* that is less or the subtraction wraps around.
Limit(e, l) ==
    IF Len(shared_tasks[e]) <= MaxTaken
    THEN Smaller(MaxTaken - Len(shared_tasks[e]), Len(l)) ELSE Len(l)

\* take_batch from the next neighbour ...
TakeBatch(e) ==
    /\ Scanning(e)
    /\ Len(shared_tasks[e]) # MaxTaken
    /\ LET d == Head(scan[e])
           l == shared_tasks_list[d]
       IN /\ shared_tasks' = [shared_tasks EXCEPT ![e] = @ \o LastOf(l, Limit(e, l))]
          /\ shared_tasks_list' =
               [shared_tasks_list EXCEPT ![d] = BeforeLast(l, Limit(e, l))]
    /\ scan' = [scan EXCEPT ![e] = Tail(@)]
    /\ AfterScan(e)
    /\ UNCHANGED <<moved, task, yields, dropped>>

\* ... whose list may be locked; when the limit is 0 no more are tried.
SkipBatch(e) ==
    /\ Scanning(e)
    /\ scan' = [scan EXCEPT ![e] =
                  IF Len(shared_tasks[e]) = MaxTaken THEN <<>> ELSE Tail(@)]
    /\ AfterScan(e)
    /\ UNCHANGED <<shared_tasks, shared_tasks_list, moved, task, yields, dropped>>

-----------------------------------------------------------------------------
(* The registry *)

WRegistry(e) ==
    /\ Register(e) \/ CheckVersion(e) \/ Update(e)
    /\ UNCHANGED work

WStop ==
    /\ StopExecutor \/ StopAllExecutors
    /\ UNCHANGED work

\* graceful_stop without a neighbour: the deque goes with the executor.
StopAlone(e) ==
    /\ GracefulStop(e)
    /\ tasks_lists[e] = <<>>
    /\ dropped' = dropped \cup Range(shared_tasks[e])
    /\ shared_tasks' = [shared_tasks EXCEPT ![e] = <<>>]
    /\ UNCHANGED <<shared_tasks_list, scan, moved, task, yields>>

\* graceful_stop with one, the first of the last copy of the registry: the
\* executor drains its own list ...
StopDrain(e) ==
    /\ loop[e] = "stopped"
    /\ scan[e] = <<>>
    /\ tasks_lists[e] # <<>>
    /\ scan' = [scan EXCEPT ![e] = <<Head(tasks_lists[e])>>]
    /\ moved' = [moved EXCEPT ![e] = shared_tasks_list[e]]
    /\ shared_tasks_list' = [shared_tasks_list EXCEPT ![e] = <<>>]
    /\ UNCHANGED <<registry, shared_tasks, task, yields, dropped>>

\* Slip: the tasks of the deque are not handed over.
StopHandOverForgetsDeque(e) ==
    /\ scan[e] # <<>>
    /\ GracefulStop(e)
    /\ LET d == Head(scan[e])
       IN shared_tasks_list' = [shared_tasks_list EXCEPT ![d] = @ \o moved[e]]
    /\ shared_tasks' = [shared_tasks EXCEPT ![e] = <<>>]
    /\ scan' = [scan EXCEPT ![e] = <<>>]
    /\ moved' = [moved EXCEPT ![e] = <<>>]
    /\ UNCHANGED <<task, yields, dropped>>

\* ... and then, under the lock of the neighbour's list, hands everything over.
StopHandOver(e) ==
    /\ scan[e] # <<>>
    /\ GracefulStop(e)
    /\ LET d == Head(scan[e])
       IN shared_tasks_list' =
            [shared_tasks_list EXCEPT ![d] = @ \o shared_tasks[e] \o moved[e]]
    /\ shared_tasks' = [shared_tasks EXCEPT ![e] = <<>>]
    /\ scan' = [scan EXCEPT ![e] = <<>>]
    /\ moved' = [moved EXCEPT ![e] = <<>>]
    /\ UNCHANGED <<task, yields, dropped>>

WGracefulStop(e) == StopAlone(e) \/ StopDrain(e) \/ StopHandOver(e)

Take(e) ==
    TakeNothing(e) \/ TakeOwn(e) \/ ScanBegin(e) \/ TakeBatch(e) \/ SkipBatch(e)

WNext ==
    \/ \E e \in Executors :
          \/ WRegistry(e) \/ WGracefulStop(e) \/ Exec(e) \/ Take(e)
          \/ \E t \in TaskIds : Spawn(e, t) \/ SpawnFlush(e, t)
    \/ WStop

WSpec == WInit /\ [][WNext]_wvars

\* The thread of an executor keeps running.  Every round executes as many tasks
\* as are in the deque when it begins, and the lock of the executor's own list is
\* not busy each time it is tried.
WFairness ==
    \A e \in Executors :
        /\ WF_wvars(loop[e] # "new" /\ (WRegistry(e) \/ Take(e) \/ WGracefulStop(e)))
        /\ SF_wvars(Exec(e))
        /\ SF_wvars(TakeOwn(e))

WFairSpec == WSpec /\ WFairness

-----------------------------------------------------------------------------
(* Properties *)

\* The places of task t in a family of deques or lists, and in all of them.
PlacesIn(t, name, family) ==
    UNION {{<<name, e, i>> : i \in {k \in DOMAIN family[e] : family[e][k] = t}} : e \in Executors}

Copies(t) ==
    PlacesIn(t, "deque", shared_tasks) \cup PlacesIn(t, "list", shared_tasks_list)
      \cup PlacesIn(t, "moved", moved)

\* No task is lost or runs twice on its way between executors: a task that was
\* spawned and has not finished is in exactly one place, through every flush,
\* take and hand-over, unless it went with an executor that had no neighbour.
Conservation ==
    \A t \in TaskIds :
        IF task[t] \in {"new", "done"} \/ t \in dropped THEN Copies(t) = {}
        ELSE \E p \in Copies(t) : Copies(t) = {p}

\* `MAX_NUMBER_OF_TASKS_TAKEN - self.shared_tasks.len()` does not underflow when
\* work_sharing_level is at most the maximum: an executor that scans its neighbours
\* then never holds more tasks than the maximum.  With a greater level, which
\* set_work_sharing_level lets through, the subtraction underflows (Limit).
ScanWithinLimit ==
    Level <= MaxTaken =>
        \A e \in Executors : Scanning(e) => Len(shared_tasks[e]) <= MaxTaken

\* Every task that is spawned is finished, wherever work sharing moves it, when
\* nobody stops an executor.
SpawnedTasksFinish ==
    [](stops = MaxStops) => \A t \in TaskIds : (task[t] # "new") ~> (task[t] = "done")

\* Spawning, flushing, taking back, taking from others and graceful_stop move tasks and
\* never lose or copy one; with a level up to the maximum, the scan for others' work
\* never asks for a negative number of tasks.
WorkIsKept == WTypeOK /\ Conservation /\ ScanWithinLimit

=============================================================================
