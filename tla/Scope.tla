------------------------------- MODULE Scope -------------------------------
(***************************************************************************)
(* `shared_scope` of sync/scopes/shared.rs: the body of the scope and the   *)
(* children already running spawn children, each of which counts in the     *)
(* scope's WaitGroup until its future is ready; at the end of the body the  *)
(* owner awaits the group, yields once and drops the scope, group included. *)
(*                                                                          *)
(* A child that is executed at once (Scope::exec) takes the same steps as a *)
(* spawned one, with the body suspended meanwhile.                          *)
(***************************************************************************)
EXTENDS Integers, Sequences, FiniteSets

CONSTANTS
    Owner,      \* the task that runs shared_scope
    Children    \* the scoped tasks

ASSUME ChildrenFinite == IsFiniteSet(Children)

VARIABLES scope, counter, waited_tasks, wait, handler, work, adds, owed, early

group == <<counter, waited_tasks, wait, handler, work, adds, owed, early>>
vars == <<scope, group>>

WG == INSTANCE WaitGroup WITH Waits <- {Owner}, Workers <- Children, MaxAdds <- 1

TypeOK ==
    /\ scope \in {"body", "waiting", "yield", "dropped"}
    /\ WG!TypeOK

Init ==
    /\ scope = "body"
    /\ WG!Init

\* Slip: the child is handed over before it is counted.
SpawnUncounted(c) ==
    /\ scope = "body" \/ WG!Working # {}
    /\ work[c] = "idle" /\ adds[c] > 0
    /\ work' = [work EXCEPT ![c] = "working"]
    /\ adds' = [adds EXCEPT ![c] = @ - 1]
    /\ UNCHANGED <<scope, counter, waited_tasks, wait, handler, owed, early>>

\* Scope::spawn and Scope::exec: inc() and the hand-over of a ScopedHandle.
Spawn(c) ==
    /\ scope = "body" \/ WG!Working # {}
    /\ WG!Add({c})
    /\ UNCHANGED scope

\* f(static_scope).await is over; scope.wg.wait() is polled.
Await ==
    /\ scope = "body"
    /\ scope' = "waiting"
    /\ WG!Wait(Owner)

\* ScopedHandle::poll, once the child's future is ready.
ChildReady(c) ==
    /\ WG!Done(c) \/ WG!WakeAll(c)
    /\ UNCHANGED scope

HandleCall ==
    /\ WG!HandleCall(Owner)
    /\ UNCHANGED scope

\* The owner is polled again: wait() is ready and yield_now() returns Pending.
WaitReady ==
    /\ scope = "waiting"
    /\ WG!Return(Owner)
    /\ scope' = "yield"

\* Slip: the scope does not wait when it has no children yet to wait for.
DropWithoutWaiting ==
    /\ scope \in {"body", "yield"}
    /\ scope' = "dropped"
    /\ UNCHANGED group

\* The owner is polled once more and leaves shared_scope, dropping the scope.
Drop ==
    /\ scope = "yield"
    /\ scope' = "dropped"
    /\ UNCHANGED group

Next ==
    \/ \E c \in Children : Spawn(c) \/ ChildReady(c)
    \/ Await \/ HandleCall \/ WaitReady \/ Drop

Spec == Init /\ [][Next]_vars

\* Executors poll what they were given; a child's future becomes ready, and so
\* does the body's.
Fairness ==
    /\ \A c \in Children : WF_vars(ChildReady(c))
    /\ WF_vars(Await) /\ WF_vars(HandleCall) /\ WF_vars(WaitReady) /\ WF_vars(Drop)

FairSpec == Spec /\ Fairness

-----------------------------------------------------------------------------
(* Properties *)

\* Every step of a scope is a step of its WaitGroup or leaves it alone, so what
\* holds of the group for every use holds of the scope's.
UsesWaitGroup == WG!Spec

\* All the children are done when shared_scope returns, provided none was
\* spawned while the done() of an earlier one was still waking tasks up.
ChildrenDone ==
    early = {} /\ scope = "dropped" => WG!Working = {}

\* A scope whose children and body come to an end comes to an end.
ScopeEnds == <>(scope = "dropped")

=============================================================================
