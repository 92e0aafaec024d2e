------------------------------- MODULE Local -------------------------------
(***************************************************************************)
(* One executor with local tasks that use one of the local primitives, or   *)
(* that sleep and run blocking functions, as `kind` says.                   *)
(***************************************************************************)
EXTENDS LocalMutex, LocalRWLock, LocalWaitGroup, LocalChannel, LocalRound

CONSTANTS
    First,       \* the tasks that exist from the beginning
    Sleepers     \* those among them that sleep and run blocking functions

Kinds == {"mutex", "rw_lock", "wait_group", "scope", "channel", "round"}

\* The tasks that the executor begins with.
Started ==
    [k \in Kinds |-> CASE k = "scope" -> {Owner}
                       [] k = "round" -> Sleepers
                       [] OTHER -> First]

vars == <<localVars, mutexVars, rwVars, groupVars, channelVars, roundVars, kind>>

Places ==
    [mutex |-> {"idle", "lock", "held", "notified", "sleep", "asleep", "woken", "spent"},
     rw_lock |-> {"idle", "read queue", "write queue", "reader", "writer", "spent"},
     wait_group |-> {"idle", "waiting"},
     scope |-> {"idle", "waiting", "after", "yielded", "over", "ending", "ended"},
     channel |-> {"idle", "send", "recv", "ok", "closed"},
     round |-> {"idle"}]

\* The state of the executor, of its tasks and of the primitives is well formed.
TypeOK ==
    /\ LocalTypeOK
    /\ pc \in [Tasks -> Places[kind] \union {"unborn"}]
    /\ is_locked \in BOOLEAN
    /\ number_of_readers \in -1 .. Cardinality(Tasks)
    /\ count \in 0 .. MaxCount + Cardinality(Tasks)
    /\ len \in 0 .. Cardinality(Tasks)
    /\ Len(storage) <= capacity
    /\ now \in 0 .. MaxTime /\ wait \in 0 .. Cardinality(Tasks)

Init ==
    /\ kind \in Kinds
    /\ LocalInit(Started[kind])
    /\ capacity \in (IF kind = "channel" THEN Capacities ELSE {0})
    /\ MutexInit /\ RWInit /\ GroupInit /\ ChannelInit /\ RoundInit

Next ==
    /\ UNCHANGED kind
    /\ \/ /\ kind = "mutex" /\ MutexNext
          /\ UNCHANGED <<rwVars, groupVars, channelVars, roundVars>>
       \/ /\ kind = "rw_lock" /\ RWNext
          /\ UNCHANGED <<mutexVars, groupVars, channelVars, roundVars>>
       \/ /\ kind = "wait_group" /\ GroupNext
          /\ UNCHANGED <<mutexVars, rwVars, channelVars, roundVars>>
       \/ /\ kind = "scope" /\ ScopeNext
          /\ UNCHANGED <<mutexVars, rwVars, channelVars, roundVars>>
       \/ /\ kind = "channel" /\ ChannelNext
          /\ UNCHANGED <<mutexVars, rwVars, groupVars, roundVars>>
       \/ /\ kind = "round" /\ RoundNext
          /\ UNCHANGED <<mutexVars, rwVars, groupVars, channelVars>>

Spec == Init /\ [][Next]_vars

\* The executor's thread goes on.
FairSpec == Spec /\ WF_vars(Next)

-----------------------------------------------------------------------------
\* Every round ends, whatever the tasks do in it, as long as each of their polls
\* makes finitely many calls of its own: tasks that notify_all() wakes and that
\* sleep again at once, sleepers that sleep again until an instant that has passed,
\* tasks that hand a lock to and fro inside each other's polls.  The limit of
\* exec_task is what ends them.
RoundsEnd ==
    []<>(kind \in {"mutex", "rw_lock", "round"} => stack = <<>> /\ left = 0 /\ phase = "cpu")

\* A task of the executor is in one place, whatever runs inside whatever: being polled, in
\* the deque, in the queue of a primitive, asleep or in a blocking thread; and the
\* deque never runs dry within a round, as exec_cpu_tasks asserts.
TasksInOnePlace == TypeOK /\ RoundIsCovered /\ MutexTasksInOnePlace /\ RoundTasksInOnePlace

\* The local mutex and read-write lock say who owns them, although an unlock runs the
\* next owners inside itself and they unlock and lock again before it returns.
LocalLocksAreOwned == LocalMutexIsOwned /\ ReadersAreThere /\ LocalWordIsGuards

\* Nobody is left behind by the local wait group, scope and channel: waiters are woken
\* by the done() that reaches 0 (those that wait during its drain excepted), a scope
\* ends after its children, and no sender or receiver waits for what is there.
NobodyIsForgotten == NobodyIsLost /\ ScopeOutlivesChildren /\ LocalNobodyWaitsInVain

\* Nobody goes on too early: a wait ends at zero, a sleep after its duration.
NobodyWakesEarly == WaitEndsAtZero /\ SleepsLongEnough

=============================================================================
