---------------------------- MODULE GlobalState ----------------------------
(***************************************************************************)
(* The registry of running executors: GlobalState and SubscribedState of    *)
(* runtime/global_state, as Executor::run uses them.                        *)
(*                                                                          *)
(* The global state is behind a spin lock and carries a version.  Whoever   *)
(* changes it stores the new version into the `current_version` of every    *)
(* registered executor.  At the start of each round an executor compares    *)
(* that number with the version it processed last, without the lock; when   *)
(* they differ it takes the lock and copies the state, or finds that it is  *)
(* no longer registered and stops.  The comparison and the copy are two     *)
(* steps: the state may change again between them.                          *)
(***************************************************************************)
EXTENDS Integers, Sequences, FiniteSets, Functions

CONSTANTS
    Executors,   \* every executor of the process, each registered at most once
    MaxStops     \* bound: calls of stop_executor and stop_all_executors

ASSUME ExecutorsFinite == IsFiniteSet(Executors)
ASSUME MaxStopsNat == MaxStops \in Nat

VARIABLES
    version,            \* GlobalState::version
    alive,              \* GlobalState::states_of_alive_executors
    lists,              \* GlobalState::lists, by the executor that owns each
    current_version,    \* SubscribedState::current_version
    processed_version,  \* SubscribedState::processed_version, -1 for usize::MAX
    tasks_lists,        \* SubscribedState::tasks_lists
    loop,               \* where each executor is in run()
    stops               \* calls of stop_* that may still be made

registry == <<version, alive, lists, current_version, processed_version,
              tasks_lists, loop, stops>>

Loop == {"new", "check", "update", "round", "stopped", "off"}

TypeOK ==
    /\ version \in Nat
    /\ alive \subseteq Executors
    /\ lists \in Seq(Executors)
    /\ current_version \in [Executors -> Nat]
    /\ processed_version \in [Executors -> Nat \cup {-1}]
    /\ tasks_lists \in [Executors -> Seq(Executors)]
    /\ \A e \in Executors : e \notin Range(tasks_lists[e])
    /\ loop \in [Executors -> Loop]
    /\ stops \in Nat

Init ==
    /\ version = 0
    /\ alive = {}
    /\ lists = <<>>
    /\ current_version = [e \in Executors |-> 1]
    /\ processed_version = [e \in Executors |-> -1]
    /\ tasks_lists = [e \in Executors |-> <<>>]
    /\ loop = [e \in Executors |-> "new"]
    /\ stops = MaxStops

\* validate_tasks_lists: the list without its owner, rotated to begin with the
\* executor registered after it.
Validated(l, e) ==
    LET i == CHOOSE k \in DOMAIN l : l[k] = e
    IN SubSeq(l, i + 1, Len(l)) \o SubSeq(l, 1, i - 1)

\* lists.retain: the list without executor e, which is in it at most once.
Without(l, e) ==
    IF e \in Range(l)
    THEN LET i == CHOOSE k \in DOMAIN l : l[k] = e
         IN SubSeq(l, 1, i - 1) \o SubSeq(l, i + 1, Len(l))
    ELSE l

\* set_version for every executor of S.
SetVersion(S, v) == [e \in Executors |-> IF e \in S THEN v ELSE current_version[e]]

-----------------------------------------------------------------------------

\* Slip: only the new executor is told of the new version.
RegisterTellsNobody(e) ==
    /\ loop[e] = "new"
    /\ version' = version + 1
    /\ lists' = Append(lists, e)
    /\ tasks_lists' = [tasks_lists EXCEPT ![e] = Validated(lists', e)]
    /\ alive' = alive \cup {e}
    /\ current_version' = SetVersion({e}, version')
    /\ loop' = [loop EXCEPT ![e] = "check"]
    /\ UNCHANGED <<processed_version, stops>>

\* register_local_executor, the beginning of run().
Register(e) ==
    /\ loop[e] = "new"
    /\ version' = version + 1
    /\ lists' = Append(lists, e)
    /\ tasks_lists' = [tasks_lists EXCEPT ![e] = Validated(lists', e)]
    /\ alive' = alive \cup {e}
    /\ current_version' = SetVersion(alive', version')
    /\ loop' = [loop EXCEPT ![e] = "check"]
    /\ UNCHANGED <<processed_version, stops>>

\* check_version_and_update_if_needed: the unlocked comparison ...
CheckVersion(e) ==
    /\ loop[e] = "check"
    /\ \/ /\ processed_version[e] = current_version[e]
          /\ loop' = [loop EXCEPT ![e] = "round"]
          /\ UNCHANGED processed_version
       \/ /\ processed_version[e] # current_version[e]
          /\ processed_version' = [processed_version EXCEPT ![e] = current_version[e]]
          /\ loop' = [loop EXCEPT ![e] = "update"]
    /\ UNCHANGED <<version, alive, lists, current_version, tasks_lists, stops>>

\* Slip: only the registration is looked up again, the copy is kept.
UpdateKeepsCopy(e) ==
    /\ loop[e] = "update"
    /\ loop' = [loop EXCEPT ![e] = IF e \in alive THEN "round" ELSE "stopped"]
    /\ UNCHANGED <<version, alive, lists, current_version, processed_version,
                   tasks_lists, stops>>

\* ... and, under the lock, the copy.
Update(e) ==
    /\ loop[e] = "update"
    /\ \/ /\ e \notin alive
          /\ loop' = [loop EXCEPT ![e] = "stopped"]
          /\ UNCHANGED tasks_lists
       \/ /\ e \in alive
          /\ tasks_lists' = [tasks_lists EXCEPT ![e] = Validated(lists, e)]
          /\ loop' = [loop EXCEPT ![e] = "round"]
    /\ UNCHANGED <<version, alive, lists, current_version, processed_version, stops>>

\* The rest of a round of run(): none of it touches the registry.
Round(e) ==
    /\ loop[e] = "round"
    /\ loop' = [loop EXCEPT ![e] = "check"]
    /\ UNCHANGED <<version, alive, lists, current_version, processed_version,
                   tasks_lists, stops>>

\* graceful_stop, after which run() returns.
GracefulStop(e) ==
    /\ loop[e] = "stopped"
    /\ loop' = [loop EXCEPT ![e] = "off"]
    /\ UNCHANGED <<version, alive, lists, current_version, processed_version,
                   tasks_lists, stops>>

\* Slip: the executor is removed before the versions are stored, so it is not
\* told that it is stopped.
StopNotTold(S, rest) ==
    /\ stops > 0
    /\ stops' = stops - 1
    /\ version' = version + 1
    /\ alive' = alive \ S
    /\ lists' = rest
    /\ current_version' = SetVersion(alive', version')
    /\ UNCHANGED <<processed_version, tasks_lists, loop>>

\* What stop_executor does for one executor and stop_all_executors for all of
\* them: the lists left are rest, and every executor that was registered is told
\* the new version, the stopped ones included.
Stop(S, rest) ==
    /\ stops > 0
    /\ stops' = stops - 1
    /\ version' = version + 1
    /\ alive' = alive \ S
    /\ lists' = rest
    /\ current_version' = SetVersion(alive, version')
    /\ UNCHANGED <<processed_version, tasks_lists, loop>>

StopExecutor == \E e \in Executors : Stop({e}, Without(lists, e))
StopAllExecutors == Stop(Executors, <<>>)

Next ==
    \/ \E e \in Executors :
          \/ Register(e) \/ CheckVersion(e) \/ Update(e)
          \/ Round(e) \/ GracefulStop(e)
    \/ StopExecutor
    \/ StopAllExecutors

Spec == Init /\ [][Next]_registry

\* The thread of an executor that has been started keeps running.
Fairness ==
    \A e \in Executors :
        WF_registry(CheckVersion(e) \/ Update(e) \/ Round(e) \/ GracefulStop(e))

FairSpec == Spec /\ Fairness

-----------------------------------------------------------------------------
(* Properties *)

Running(e) == loop[e] \in {"check", "update", "round"}

\* An executor between two looks at the version, or about to do nothing at the
\* next one, has a copy of the state as it was at the version it processed: if
\* that is the latest version, its copy is exact, although it reads the version
\* before it takes the lock.
UpToDateViews ==
    \A e \in alive :
        loop[e] \in {"check", "round"} /\ processed_version[e] = version =>
            tasks_lists[e] = Validated(lists, e)

\* Nobody misses a change: an executor whose copy is out of date, or that was
\* removed and has not stopped, finds a version it has not processed when it
\* looks next.
ChangesAreSeen ==
    \A e \in Executors :
        loop[e] \in {"check", "round"} =>
            \/ processed_version[e] # current_version[e]
            \/ e \in alive /\ processed_version[e] = version

\* Executors of one registry look for work in different places first: no two
\* up-to-date executors have the same first neighbour.
FirstNeighboursDiffer ==
    \A d, e \in alive :
        /\ d # e
        /\ tasks_lists[d] = Validated(lists, d) /\ tasks_lists[e] = Validated(lists, e)
        /\ Len(lists) > 2
        => Head(tasks_lists[d]) # Head(tasks_lists[e])

\* An executor that was removed from the registry returns from run().
StoppedExecutorsStop ==
    \A e \in Executors : (Running(e) /\ e \notin alive) ~> (loop[e] = "off")

=============================================================================
