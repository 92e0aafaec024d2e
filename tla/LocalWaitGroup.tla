--------------------------- MODULE LocalWaitGroup ---------------------------
(***************************************************************************)
(* The local wait group and the local scope (sync/wait_groups/local.rs,     *)
(* sync/scopes/local.rs).                                                   *)
(*                                                                          *)
(* done() executes the waiters out of a drain of the vector that holds      *)
(* them.  The drain sets the length to 0 and reads the slots one by one, so *)
(* a task that it executes and that waits again writes into slots from the  *)
(* first one on.                                                            *)
(***************************************************************************)
EXTENDS LocalExecutor

CONSTANTS
    Owner,       \* the task that calls local_scope; the other tasks are children
    MaxCount     \* bound: work added to the group

VARIABLES
    count,
    slots,          \* the memory of waited_tasks
    len,            \* its length
    overwritten,    \* history: the tasks whose slot was written over, or freed,
                    \* before a drain had read it
    added           \* bound: how much work was added

groupVars == <<count, slots, len, overwritten, added>>

Children == Tasks \ {Owner}

GroupInit ==
    /\ count = 0
    /\ slots = [i \in 1 .. Cardinality(Tasks) |-> Owner]
    /\ len = 0
    /\ overwritten = {}
    /\ added = 0

\* The slots that the drains in progress have still to read.
Undrained == UNION {loop[t][2] .. loop[t][3] : t \in {u \in Tasks : loop[u] # <<>>}}

\* waited_tasks.push
PushWaiter(t) ==
    /\ len < Cardinality(Tasks)
    /\ slots' = [slots EXCEPT ![len + 1] = t]
    /\ len' = len + 1
    /\ overwritten' = IF len + 1 \in Undrained THEN overwritten \union {slots[len + 1]} ELSE overwritten

\* add(): when the capacity is below the new count, reserve() moves the vector and frees
\* the slots that the drains in progress go on reading.  Whether it is below is a
\* choice: the vector comes from a pool, and add() takes any number.
AddWork ==
    /\ count' = count + 1
    /\ overwritten' \in {overwritten, overwritten \union {slots[i] : i \in Undrained}}

Add(t) ==
    /\ Running(t) /\ pc[t] = "idle" /\ added < MaxCount
    /\ AddWork /\ added' = added + 1
    /\ Stay /\ UNCHANGED <<left, pc, loop, slots, len>>

\* Every poll of wait() looks at the count; at 0 the task goes on at q.
GroupWait(t, q) ==
    /\ Running(t) /\ pc[t] \in {"idle", "waiting"}
    /\ IF count # 0
       THEN PushWaiter(t) /\ GoTo(t, "waiting") /\ Return
       ELSE GoTo(t, q) /\ Stay /\ UNCHANGED <<slots, len, overwritten>>
    /\ UNCHANGED <<left, loop, count, added>>

\* Slip: only the first waiter is woken.
CountDownWakesOne(t) ==
    /\ count > 0
    /\ count' = count - 1
    /\ IF count = 1 /\ len > 0
       THEN loop' = [loop EXCEPT ![t] = <<"drain", 1, 1>>] /\ len' = 0
       ELSE UNCHANGED <<loop, len>>
    /\ UNCHANGED <<slots, overwritten, added>>

\* done(): at 0 the drain begins.
CountDown(t) ==
    /\ count > 0
    /\ count' = count - 1
    /\ IF count = 1 /\ len > 0
       THEN loop' = [loop EXCEPT ![t] = <<"drain", 1, len>>] /\ len' = 0
       ELSE UNCHANGED <<loop, len>>
    /\ UNCHANGED <<slots, overwritten, added>>

GroupDone(t) ==
    /\ Running(t) /\ pc[t] = "idle"
    /\ CountDown(t)
    /\ Stay /\ UNCHANGED <<left, pc>>

\* The drain reads the next slot and executes what it finds.
Drain(t) ==
    /\ Looping(t)
    /\ LET next == loop[t][2]
           end == loop[t][3]
       IN /\ loop' = [loop EXCEPT ![t] = IF next = end THEN <<>> ELSE <<"drain", next + 1, end>>]
          /\ ExecTask(slots[next])
    /\ UNCHANGED <<left, pc, groupVars>>

GroupYield(t) ==
    /\ pc[t] = "idle"
    /\ YieldNow(t)
    /\ UNCHANGED <<pc, groupVars>>

\* A task that was lost and another that is run in its place are the end of what
\* the model describes.
GroupNext ==
    /\ overwritten = {}
    /\ \/ (NewRound \/ RunNext \/ \E t, u \in Tasks : ExecFuture(t, u)) /\ UNCHANGED groupVars
       \/ \E t \in Tasks : Add(t) \/ GroupWait(t, "idle") \/ GroupDone(t) \/ Drain(t) \/ GroupYield(t)

-----------------------------------------------------------------------------
(* The local scope: the body, then wait(), then one yield_now, then the end *)

\* exec() and spawn(), by the body or by a child.
ScopeExec(t, c) ==
    /\ Running(t) /\ pc[t] = "idle" /\ pc[c] = "unborn"
    /\ AddWork
    /\ GoTo(c, "idle")
    /\ \/ ExecTask(c)
       \/ local_tasks' = Append(local_tasks, c) /\ UNCHANGED <<stack, exec_series>>
    /\ UNCHANGED <<left, loop, slots, len, added>>

\* LocalScopedHandle::poll: the child is ready and done() is called inside its poll.
ChildEnds(c) ==
    /\ Running(c) /\ c # Owner /\ pc[c] = "idle"
    /\ CountDown(c)
    /\ GoTo(c, "ending")
    /\ Stay /\ UNCHANGED left

ChildReturns(c) ==
    /\ Running(c) /\ pc[c] = "ending"
    /\ GoTo(c, "ended") /\ Return
    /\ UNCHANGED <<left, loop, groupVars>>

\* yield_now().await after the wait.
OwnerAfterWait ==
    /\ pc[Owner] = "after"
    /\ YieldNow(Owner)
    /\ GoTo(Owner, "yielded")
    /\ UNCHANGED groupVars

OwnerEnds ==
    /\ Running(Owner) /\ pc[Owner] = "yielded"
    /\ GoTo(Owner, "over") /\ Return
    /\ UNCHANGED <<left, loop, groupVars>>

ScopeNext ==
    \/ (NewRound \/ RunNext) /\ UNCHANGED groupVars
    \/ \E t \in Tasks, c \in Children : ScopeExec(t, c)
    \/ \E c \in Children : ChildEnds(c) \/ ChildReturns(c)
    \/ \E t \in Tasks : GroupYield(t) \/ Drain(t)
    \/ GroupWait(Owner, "after") \/ OwnerAfterWait \/ OwnerEnds

-----------------------------------------------------------------------------
\* How often t is in a slot that the vector holds or that a drain has still to read.
InSlots(t) == Cardinality({i \in (1 .. len) \union Undrained : slots[i] = t})

\* A waiter is in the vector or ahead of a drain until it is executed, once, unless
\* tasks that a drain has executed have waited again and written over it, or have
\* added work and made the vector move; when the count is 0 and no done() is under
\* way, nobody waits.
NobodyIsLost ==
    kind \in {"wait_group", "scope"} /\ overwritten = {} =>
       /\ \A t \in Tasks : Occurs(t, stack) + Occurs(t, local_tasks) + InSlots(t) = Exists(t)
       /\ count = 0 /\ Undrained = {} => len = 0

\* A task leaves wait() in a step that finds the count at 0, whatever happened
\* between its wake-up and its poll (WaitLocalWaitGroup::poll).
WaitEndsAtZero ==
    [][\A t \in Tasks : pc[t] = "waiting" /\ pc'[t] # "waiting" => count = 0]_pc

\* When a local scope ends, all its children have ended, and none is still inside
\* the done() that executed the owner and that goes on using the scope's wait group.
ScopeOutlivesChildren ==
    pc[Owner] = "over" => \A c \in Children : pc[c] \in {"unborn", "ended"}

=============================================================================
