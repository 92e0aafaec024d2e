----------------------------- MODULE AtomicLocks -----------------------------
(***************************************************************************)
(* The primitives that are one atomic word and keep no queue: the RWLock,   *)
(* the NaiveMutex with the SpinLock, and the Once.  They do not share       *)
(* state; a behaviour is one of one of them, which the initial state says.  *)
(***************************************************************************)
EXTENDS RWLock, NaiveMutex, Once

VARIABLE word

atomicVars == <<word, vars, lockVars, onceVars>>

AtomicTypeOK == TypeOK /\ LockTypeOK /\ OnceTypeOK /\ word \in {"rwlock", "flag", "once"}

\* What the flag's initial state leaves open is chosen only if the flag is in use.
AtomicInit ==
    /\ word \in {"rwlock", "flag", "once"}
    /\ Init /\ LockInit /\ OnceInit
    /\ word # "flag" => lock_kind = "naive" /\ on = [t \in LockTasks |-> CHOOSE e \in LockThreads : TRUE]

OnRWLock(A) == word = "rwlock" /\ A /\ UNCHANGED <<word, lockVars, onceVars>>
OnFlag(A) == word = "flag" /\ A /\ UNCHANGED <<word, vars, onceVars>>
OnOnce(A) == word = "once" /\ A /\ UNCHANGED <<word, vars, lockVars>>

AtomicNext == OnRWLock(Next) \/ OnFlag(LockNext) \/ OnOnce(OnceNext)

AtomicSpec == AtomicInit /\ [][AtomicNext]_atomicVars

\* An executor polls its tasks again and again and a poll goes on until it ends; guards
\* are dropped; a weak exchange does not fail each time.
AtomicFairSpec ==
    /\ AtomicSpec
    /\ \A t \in Tasks : WF_atomicVars(OnRWLock(Step(t)))
    /\ \A t \in LockTasks :
          /\ SF_atomicVars(OnFlag(PollTask(t)))
          /\ SF_atomicVars(OnFlag(TryAgain(t, TRUE)))
          /\ SF_atomicVars(OnFlag(UnlockFlag(t)))
          /\ WF_atomicVars(OnFlag(EndPoll(t) \/ YieldInLock(t)))

-----------------------------------------------------------------------------
(* Properties *)

\* What each of the words is for: a write guard excludes every other guard, the flag of
\* the naive mutex and of the SpinLock has one guard at most, and one function of a
\* Once runs.
GuardsExclude == AtomicTypeOK /\ WriteExclusion /\ FlagIsGuard /\ RunsOnce

\* No read(), write() or lock() of a word without a queue waits for ever, although it
\* only tries again and again: on one executor its yield lets the owner run.
LocksReturn == LockReturns /\ LockFlagReturns

=============================================================================
