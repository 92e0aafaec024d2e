-------------------------------- MODULE Once --------------------------------
(***************************************************************************)
(* Once and LocalOnce (sync/onces): the first call_once() or call_once_sync *)
(* marks the Once as called and then runs its function; the others return   *)
(* at once and do not wait for it.                                          *)
(***************************************************************************)
EXTENDS FiniteSets, Naturals

CONSTANT Callers

VARIABLES
    once_state,     \* Once::state
    at_once,        \* where each caller is
    ran             \* history: the callers whose function was run

onceVars == <<once_state, at_once, ran>>

OnceTypeOK ==
    /\ once_state \in {"NotCalled", "Called"}
    /\ at_once \in [Callers -> {"idle", "in f", "Called", "WasAlreadyCompleted"}]
    /\ ran \subseteq Callers

OnceInit ==
    /\ once_state = "NotCalled"
    /\ at_once = [c \in Callers |-> "idle"]
    /\ ran = {}

\* call_once, call_once_sync: the exchange of NotCalled for Called (in LocalOnce the
\* look and the replacement, with no await in between).
CallOnce(c) ==
    /\ at_once[c] = "idle"
    /\ \/ /\ once_state = "NotCalled" /\ once_state' = "Called"
          /\ at_once' = [at_once EXCEPT ![c] = "in f"]
          /\ ran' = ran \union {c}
       \/ /\ once_state = "Called"
          /\ at_once' = [at_once EXCEPT ![c] = "WasAlreadyCompleted"]
          /\ UNCHANGED <<once_state, ran>>

\* f.await is over.
FunctionEnds(c) ==
    /\ at_once[c] = "in f"
    /\ at_once' = [at_once EXCEPT ![c] = "Called"]
    /\ UNCHANGED <<once_state, ran>>

OnceNext == \E c \in Callers : CallOnce(c) \/ FunctionEnds(c)

-----------------------------------------------------------------------------
\* Of all calls at most one runs its function, and a call that is turned away finds
\* that one begun (not ended: WasAlreadyCompleted may come while it still runs).
RunsOnce ==
    /\ Cardinality(ran) <= 1
    /\ (\E c \in Callers : at_once[c] = "WasAlreadyCompleted") => ran # {}

=============================================================================
