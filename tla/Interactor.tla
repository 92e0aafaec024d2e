----------------------------- MODULE Interactor -----------------------------
(***************************************************************************)
(* Sending tasks to a chosen executor: the Interactor of                    *)
(* runtime/interaction_between_executors, over the registry of executors.   *)
(*                                                                          *)
(* A sent task is first put into the sender's batch for the target.  Once a *)
(* round, and not more than every 64 microseconds, do_work takes what has   *)
(* arrived and appends the batches to the targets' queues, each behind a    *)
(* lock that is tried and never waited for.  When the registry has changed, *)
(* the update of the registry's copy rebuilds the map that holds the        *)
(* batches.  Local and shared tasks travel in separate batches in the same  *)
(* way; one batch stands for both.  An executor that stops is dropped with  *)
(* the batches it has not appended and the tasks it has not executed.       *)
(***************************************************************************)
EXTENDS GlobalState

CONSTANTS Tasks    \* the tasks that are sent

VARIABLES
    all,       \* Interactor::all, the executors an executor can send to
    batch,     \* the batches, by sender and target
    inbox,     \* Interactor::shared_task_list of each executor
    arrived,   \* the tasks each executor has taken over and not yet executed
    left,      \* the tasks that were executed, or given to work sharing
    accepted,  \* history: the tasks whose sending returned Ok
    route,     \* history: who sent each of them to whom, at which version
    cleared    \* history: the tasks that were in a batch when it was dropped

traffic == <<all, batch, inbox, arrived, left, accepted, route, cleared>>
ivars == <<registry, traffic>>

Empty == [d \in Executors |-> <<>>]
Route == [from : Executors, to : Executors, at : Int]

\* The tasks in the batches of executor e.
Batched(e) == UNION {Range(batch[e][d]) : d \in Executors}

ITypeOK ==
    /\ TypeOK
    /\ all \in [Executors -> SUBSET Executors]
    /\ batch \in [Executors -> [Executors -> Seq(Tasks)]]
    /\ \A e, d \in Executors : batch[e][d] # <<>> => d \in all[e]
    /\ inbox \in [Executors -> Seq(Tasks)]
    /\ arrived \in [Executors -> SUBSET Tasks]
    /\ left \subseteq Tasks
    /\ accepted \subseteq Tasks
    /\ \A t \in accepted : route[t] \in Route
    /\ cleared \subseteq Tasks

IInit ==
    /\ Init
    /\ all = [e \in Executors |-> {}]
    /\ batch = [e \in Executors |-> Empty]
    /\ inbox = Empty
    /\ arrived = [e \in Executors |-> {}]
    /\ left = {}
    /\ accepted = {}
    /\ route = [t \in Tasks |-> <<>>]
    /\ cleared = {}

-----------------------------------------------------------------------------

\* The sending of t by e to d has returned Ok.
Accepts(e, d, t) ==
    /\ t \notin accepted
    /\ accepted' = accepted \cup {t}
    /\ route' = [route EXCEPT ![t] = [from |-> e, to |-> d, at |-> processed_version[e]]]

\* Slip: the task stays with the sender as well.
SendTwice(e, d, t) ==
    /\ loop[e] = "round"
    /\ d # e
    /\ d \in all[e]
    /\ batch' = [batch EXCEPT ![e][d] = Append(@, t)]
    /\ arrived' = [arrived EXCEPT ![e] = @ \cup {t}]
    /\ Accepts(e, d, t)
    /\ UNCHANGED <<registry, all, inbox, left, cleared>>

\* send_task_to_executor, by a task that runs on e.  A target that is not in the
\* map is refused and the task is dropped by the caller.
Send(e, d, t) ==
    /\ loop[e] = "round"
    /\ d # e
    /\ d \in all[e]
    /\ batch' = [batch EXCEPT ![e][d] = Append(@, t)]
    /\ Accepts(e, d, t)
    /\ UNCHANGED <<registry, all, inbox, arrived, left, cleared>>

\* A task that is sent to the executor it runs on is spawned there.
SendToSelf(e, t) ==
    /\ loop[e] = "round"
    /\ arrived' = [arrived EXCEPT ![e] = @ \cup {t}]
    /\ Accepts(e, e, t)
    /\ UNCHANGED <<registry, all, batch, inbox, left, cleared>>

\* do_work: e takes its inbox unless both attempts to lock it fail, and appends
\* its batches to the inboxes F that flush or retry_flush could lock.
DoWork(e, F, take) ==
    /\ loop[e] = "round"
    /\ F \subseteq all[e]
    /\ arrived' = IF take THEN [arrived EXCEPT ![e] = @ \cup Range(inbox[e])]
                  ELSE arrived
    /\ inbox' = [d \in Executors |->
                   (IF d = e /\ take THEN <<>> ELSE inbox[d])
                     \o (IF d \in F THEN batch[e][d] ELSE <<>>)]
    /\ batch' = [batch EXCEPT ![e] = [d \in Executors |->
                                        IF d \in F THEN <<>> ELSE @[d]]]
    /\ UNCHANGED <<registry, all, left, accepted, route, cleared>>

\* exec_cpu_tasks executes a task that was taken over, or the executor shares it with
\* those that have no work, from where WorkSharing follows it.
Leaves(e, t) ==
    /\ loop[e] = "round"
    /\ t \in arrived[e]
    /\ arrived' = [arrived EXCEPT ![e] = @ \ {t}]
    /\ left' = left \cup {t}
    /\ UNCHANGED <<registry, all, batch, inbox, accepted, route, cleared>>

\* check_version_and_update_if_needed clears the map, with the batches in it,
\* and fills it with the executors that are registered now.
IUpdate(e) ==
    /\ Update(e)
    /\ IF e \in alive
       THEN /\ all' = [all EXCEPT ![e] = alive]
            /\ batch' = [batch EXCEPT ![e] = Empty]
            /\ cleared' = cleared \cup Batched(e)
       ELSE UNCHANGED <<all, batch, cleared>>
    /\ UNCHANGED <<inbox, arrived, left, accepted, route>>

\* graceful_stop: with work sharing the shared tasks of the executor go to its first
\* neighbour, if it knows one; then the executor is dropped, and with it its
\* interactor and its tasks.  Nobody takes what is in its inbox, or is still put
\* there by those who have not yet seen that it is gone.
IGracefulStop(e) ==
    /\ GracefulStop(e)
    /\ \E shared \in SUBSET arrived[e] :
          /\ shared # {} => tasks_lists[e] # <<>>
          /\ left' = left \cup shared
    /\ arrived' = [arrived EXCEPT ![e] = {}]
    /\ all' = [all EXCEPT ![e] = {}]
    /\ batch' = [batch EXCEPT ![e] = Empty]
    /\ cleared' = cleared \cup Batched(e)
    /\ UNCHANGED <<inbox, accepted, route>>

\* What the executor does with the registry alone.
IRegistry(e) ==
    /\ Register(e) \/ CheckVersion(e) \/ Round(e)
    /\ UNCHANGED traffic

IStop ==
    /\ StopExecutor \/ StopAllExecutors
    /\ UNCHANGED traffic

INext ==
    \/ \E e \in Executors :
          \/ IRegistry(e)
          \/ IUpdate(e)
          \/ IGracefulStop(e)
          \/ \E t \in Tasks : \/ SendToSelf(e, t) \/ Leaves(e, t)
                             \/ \E d \in Executors : Send(e, d, t)
          \/ \E F \in SUBSET Executors, take \in BOOLEAN : DoWork(e, F, take)
    \/ IStop

ISpec == IInit /\ [][INext]_ivars

-----------------------------------------------------------------------------
(* Properties *)

\* The places where task t is: a batch, an inbox, an executor, or past them.
Places(t) ==
    {p \in Executors \X Executors : t \in Range(batch[p[1]][p[2]])}
    \cup {<<"inbox", e>> : e \in {x \in Executors : t \in Range(inbox[x])}}
    \cup {<<"arrived", e>> : e \in {x \in Executors : t \in arrived[x]}}
    \cup {<<"left", "left">> : x \in {t} \cap left}

\* A task that was sent is never in two places: appending, retrying and taking
\* move it, whichever locks cannot be had.
NeverDuplicated == \A t \in Tasks : \A p, q \in Places(t) : p = q

\* A task that was sent disappears in two ways only: with a batch that its sender drops,
\* or at the receiver, which has stopped.
LostByDropping ==
    \A t \in accepted : Places(t) = {} => t \in cleared \/ loop[route[t].to] = "off"

\* A batch is dropped only by a sender that has seen a later version of the registry
\* than the one at which it sent the task: while nobody registers or stops, every
\* task that was sent arrives.
DroppedOnChange ==
    \A t \in cleared : processed_version[route[t].from] > route[t].at

\* A task gets no further than the receiver: who holds it is who was asked to.
ArrivesThere ==
    \A t \in accepted, e \in Executors :
        t \in arrived[e] \cup Range(inbox[e]) => e = route[t].to

\* An executor that has processed the latest version can send to exactly the
\* registered executors, so Ok is not returned for one that was stopped.
SendsToRegistered ==
    \A e \in alive :
        loop[e] = "round" /\ processed_version[e] = version => all[e] = alive

\* A task that was sent is in one place on its way to the executor it was sent to,
\* whichever try_locks of flush and retry_flush fail, and is lost only when its sender
\* drops its batch after a change of the registry or its receiver has stopped.
TasksAreKept ==
    ITypeOK /\ NeverDuplicated /\ LostByDropping /\ DroppedOnChange /\ ArrivesThere

\* What an executor at the latest version believes is right: its neighbours, where it
\* looks first for work, and whom it can send to.
ViewsAreExact == UpToDateViews /\ FirstNeighboursDiffer /\ SendsToRegistered

=============================================================================
