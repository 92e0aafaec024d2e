---------------------------- MODULE LocalRound ----------------------------
(***************************************************************************)
(* The round of an executor with sleeping tasks and the pool of threads     *)
(* that runs blocking functions (runtime/executor/executor.rs, sleep.rs,    *)
(* runtime/local_thread_pool/, runtime/asyncify/): run the local tasks,     *)
(* collect what the threads have finished, wake the sleepers, begin anew.   *)
(*                                                                          *)
(* Time is counted in units; Slack stands for the 100 microseconds that     *)
(* prepare_to_new_round adds, and one unit for the nanosecond by which      *)
(* Sleep::poll moves on from an instant that is taken.                      *)
(***************************************************************************)
EXTENDS LocalExecutor

CONSTANTS
    Slack,
    Durations,
    MaxTime       \* bound: the last instant

VARIABLES
    now,
    start_round_time,
    for_deadlines,    \* start_round_time_for_deadlines
    sleeping,         \* local_sleeping_tasks: pairs of an instant and a task
    phase,            \* "cpu" (exec_cpu_tasks), "sleepers" (check_sleeping_tasks)
    jobs,             \* the tasks whose functions the threads have still to run
    result_list,
    wait,             \* how many tasks the pool counts
    began,            \* history: when the round began
    asked,            \* history: the instant that each sleeper was told it would sleep until
    late              \* history: the tasks that called it when Slack was used up

roundVars == <<now, start_round_time, for_deadlines, sleeping, phase, jobs, result_list, wait, began, asked, late>>

RoundInit ==
    /\ now = 0 /\ start_round_time = 0
    /\ for_deadlines = Slack
    /\ sleeping = {} /\ phase = "cpu"
    /\ jobs = {} /\ result_list = <<>> /\ wait = 0
    /\ began = 0
    /\ asked = [t \in Tasks |-> 0]
    /\ late = {}

Tick ==
    /\ now < MaxTime
    /\ now' = now + 1
    /\ UNCHANGED <<localVars, start_round_time, for_deadlines, sleeping, phase, jobs, result_list, wait, began, asked, late>>

\* The first instant from at on that no task sleeps until.
Vacant(at) ==
    CHOOSE i \in at .. at + Cardinality(sleeping) :
       /\ \A s \in sleeping : s.at # i
       /\ \A j \in at .. i - 1 : \E s \in sleeping : s.at = j

\* Sleep::poll
InsertSleeper(t, at) ==
    sleeping' = sleeping \union {[at |-> Vacant(at), task |-> t]}

\* sleep(d).await
Sleep(t, d) ==
    /\ Running(t) /\ pc[t] = "idle"
    /\ for_deadlines + d + Cardinality(sleeping) <= MaxTime
    /\ InsertSleeper(t, for_deadlines + d)
    /\ asked' = [asked EXCEPT ![t] = now + d]
    /\ late' = IF now > began + Slack THEN late \union {t} ELSE late
    /\ Return
    /\ UNCHANGED <<left, pc, loop, now, start_round_time, for_deadlines, phase, jobs, result_list, wait, began>>

\* asyncify!(f).await: the call that pushes f to a thread.
Asyncify(t) ==
    /\ Running(t) /\ pc[t] = "idle"
    /\ jobs' = jobs \union {t}
    /\ wait' = wait + 1
    /\ Return
    /\ UNCHANGED <<left, pc, loop, now, start_round_time, for_deadlines, sleeping, phase, result_list, began, asked, late>>

\* ThreadWorker::run
ThreadRuns(t) ==
    /\ t \in jobs
    /\ jobs' = jobs \ {t}
    /\ result_list' = Append(result_list, t)
    /\ UNCHANGED <<localVars, now, start_round_time, for_deadlines, sleeping, phase, wait, began, asked, late>>

\* LocalThreadWorkerPool::poll
PollPool ==
    IF wait = 0
    THEN UNCHANGED <<local_tasks, result_list, wait>>
    ELSE /\ local_tasks' = local_tasks \o result_list
         /\ result_list' = <<>>
         /\ wait' = wait - Len(result_list)

\* The local tasks of the round are executed: the pool is polled, and
\* check_sleeping_tasks reads the clock if anyone sleeps.
EndOfCpuTasks ==
    /\ phase = "cpu" /\ stack = <<>> /\ left = 0
    /\ PollPool
    /\ start_round_time' = IF sleeping = {} THEN start_round_time ELSE now
    /\ phase' = "sleepers"
    /\ UNCHANGED <<stack, exec_series, left, pc, loop, now, for_deadlines, sleeping, jobs, began, asked, late>>

\* check_sleeping_tasks: the first sleeper, if its time has come.
WakeSleepers ==
    /\ phase = "sleepers" /\ stack = <<>>
    /\ \E s \in sleeping :
          /\ \A o \in sleeping : s.at <= o.at
          /\ s.at <= start_round_time
          /\ sleeping' = sleeping \ {s}
          /\ asked' = [asked EXCEPT ![s.task] = 0]
          /\ late' = late \ {s.task}
          /\ ExecTask(s.task)
    /\ UNCHANGED <<left, pc, loop, now, start_round_time, for_deadlines, phase, jobs, result_list, wait, began>>

\* Slip: deadlines count from the beginning of the round.
NextRoundTight ==
    /\ phase = "sleepers" /\ stack = <<>>
    /\ \A s \in sleeping : s.at > start_round_time
    /\ phase' = "cpu"
    /\ exec_series' = 0
    /\ left' = Len(local_tasks)
    /\ start_round_time' = now /\ began' = now
    /\ for_deadlines' = now
    /\ UNCHANGED <<local_tasks, stack, pc, loop, now, sleeping, jobs, result_list, wait, asked, late>>

\* Nobody else is to be woken: prepare_to_new_round.
NextRound ==
    /\ phase = "sleepers" /\ stack = <<>>
    /\ \A s \in sleeping : s.at > start_round_time
    /\ phase' = "cpu"
    /\ exec_series' = 0
    /\ left' = Len(local_tasks)
    /\ start_round_time' = now /\ began' = now
    /\ for_deadlines' = now + Slack
    /\ UNCHANGED <<local_tasks, stack, pc, loop, now, sleeping, jobs, result_list, wait, asked, late>>

RoundYield(t) == pc[t] = "idle" /\ YieldNow(t) /\ UNCHANGED <<pc, roundVars>>

ExecutorStep ==
    \/ phase = "cpu" /\ RunNext /\ UNCHANGED roundVars
    \/ EndOfCpuTasks \/ WakeSleepers \/ NextRound
    \/ \E t \in Tasks :
          \/ Asyncify(t) \/ RoundYield(t)
          \/ \E d \in Durations : Sleep(t, d)

RoundNext ==
    \/ Tick
    \/ \E t \in Tasks : ThreadRuns(t)
    \/ ExecutorStep

-----------------------------------------------------------------------------
\* No sleeper is woken before the time that sleep() promises, unless it was called
\* more than Slack after the round began: deadlines count from the round's start.
SleepsLongEnough ==
    [][\A s \in sleeping \ sleeping' : now >= asked[s.task] \/ s.task \in late]_sleeping

\* A task is polled, queued, asleep (each at an instant of its own), or with the
\* threads, and the pool counts those it has (its poll returns early at 0).
RoundTasksInOnePlace ==
    kind = "round" =>
       /\ \A t \in Tasks :
             Occurs(t, stack) + Occurs(t, local_tasks) + Occurs(t, result_list)
               + Cardinality({s \in sleeping : s.task = t}) + Cardinality(jobs \cap {t}) = Exists(t)
       /\ \A s, o \in sleeping : s.at = o.at => s = o
       /\ wait = Cardinality(jobs) + Len(result_list)

=============================================================================
