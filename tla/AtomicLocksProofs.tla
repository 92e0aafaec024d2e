-------------------------- MODULE AtomicLocksProofs --------------------------
(***************************************************************************)
(* Proofs about the primitives that are one atomic word, for any number of  *)
(* tasks, executors and calls.                                              *)
(*                                                                          *)
(* The RWLock's invariant says that the word counts the guards; exclusion   *)
(* is a consequence.  What makes it inductive although a reader's loaded    *)
(* value may be stale: the exchange succeeds only on the value that was     *)
(* loaded, which is not negative, so there is no writer at that moment.     *)
(*                                                                          *)
(* A behaviour of AtomicLocks is one of the    *)
(* RWLock as far as the RWLock's variables go, so that lock's theorems hold *)
(* of it; the flag and the Once need an invariant of their own.             *)
(***************************************************************************)
EXTENDS AtomicLocks, FiniteSetTheorems, TLAPS

IInv == TypeOK /\ WordIsGuards

\* The initial state satisfies the invariant.
LEMMA InitIInv == Init => IInv
<1> SUFFICES ASSUME Init PROVE IInv
  OBVIOUS
<1>1. TypeOK
  BY MaxCallsNat DEF Init, TypeOK, PC
<1>2. Readers = {} /\ Writers = {}
  BY DEF Init, Readers, Writers
<1>3. WordIsGuards
  BY <1>2, FS_EmptySet DEF Init, WordIsGuards
<1> QED
  BY <1>1, <1>3 DEF IInv

\* The sets of guards are finite.
LEMMA GuardsFinite == IsFiniteSet(Readers) /\ Cardinality(Readers) \in Nat
  BY TasksFinite, FS_Subset, FS_CardinalityType DEF Readers

\* Every field keeps its type in every step of read(), write() and the unlocks.
LEMMA TypeStep == TypeOK /\ [Next]_vars => TypeOK'
<1> SUFFICES ASSUME TypeOK, [Next]_vars PROVE TypeOK'
  OBVIOUS
<1> USE DEF TypeOK, PC
<1>1. CASE UNCHANGED vars
  BY <1>1 DEF vars
<1>2. ASSUME NEW t \in Tasks, NEW w \in BOOLEAN, Read(t, w) PROVE TypeOK'
  BY <1>2 DEF Read
<1>3. ASSUME NEW t \in Tasks, ReadLoad(t) PROVE TypeOK'
  BY <1>3 DEF ReadLoad
<1>4. ASSUME NEW t \in Tasks, ReadExchange(t) PROVE TypeOK'
  BY <1>4 DEF ReadExchange
<1>5. ASSUME NEW t \in Tasks, ReadUnlock(t) PROVE TypeOK'
  BY <1>5 DEF ReadUnlock
<1>6. ASSUME NEW t \in Tasks, TryWrite(t) PROVE TypeOK'
  BY <1>6 DEF TryWrite
<1>7. ASSUME NEW t \in Tasks, WriteUnlock(t) PROVE TypeOK'
  BY <1>7 DEF WriteUnlock
<1> QED
  BY <1>1, <1>2, <1>3, <1>4, <1>5, <1>6, <1>7 DEF Next, Step

\* A step that changes neither the word nor the guards keeps the word right.
LEMMA SameGuards ==
    ASSUME WordIsGuards, number_of_readers' = number_of_readers,
           Readers' = Readers, Writers' = Writers
    PROVE  WordIsGuards'
  BY DEF WordIsGuards

\* The word counts the guards after every step of read(), write() and the unlocks.
LEMMA WordStep == TypeOK /\ WordIsGuards /\ [Next]_vars => WordIsGuards'
<1> SUFFICES ASSUME TypeOK, WordIsGuards, [Next]_vars PROVE WordIsGuards'
  OBVIOUS
<1> USE DEF TypeOK
<1>0. IsFiniteSet(Readers) /\ Cardinality(Readers) \in Nat
  BY GuardsFinite
<1>1. CASE UNCHANGED vars
  <2>1. Readers' = Readers /\ Writers' = Writers
    BY <1>1 DEF vars, Readers, Writers
  <2> QED BY <1>1, <2>1, SameGuards DEF vars
<1>2. ASSUME NEW t \in Tasks, NEW w \in BOOLEAN, Read(t, w) PROVE WordIsGuards'
  <2>1. Readers' = Readers /\ Writers' = Writers
    BY <1>2 DEF Read, Readers, Writers
  <2> QED BY <1>2, <2>1, SameGuards DEF Read
<1>3. ASSUME NEW t \in Tasks, ReadLoad(t) PROVE WordIsGuards'
  <2>1. Readers' = Readers /\ Writers' = Writers
    BY <1>3 DEF ReadLoad, Readers, Writers
  <2> QED BY <1>3, <2>1, SameGuards DEF ReadLoad
<1>4. ASSUME NEW t \in Tasks, ReadExchange(t) PROVE WordIsGuards'
  <2>1. CASE number_of_readers # loaded[t]
    <3>1. Readers' = Readers /\ Writers' = Writers
      BY <1>4, <2>1 DEF ReadExchange, Readers, Writers
    <3> QED BY <1>4, <2>1, <3>1, SameGuards DEF ReadExchange
  <2>2. CASE number_of_readers = loaded[t]
    <3>1. number_of_readers = Cardinality(Readers) /\ Writers = {}
      BY <2>2 DEF WordIsGuards
    <3>2. t \notin Readers /\ Readers' = Readers \union {t} /\ Writers' = Writers
      BY <1>4, <2>2 DEF ReadExchange, Readers, Writers
    <3>3. Cardinality(Readers \union {t}) = Cardinality(Readers) + 1
      BY <1>0, <3>2, FS_AddElement
    <3> QED BY <1>4, <2>2, <3>1, <3>2, <3>3 DEF ReadExchange, WordIsGuards
  <2> QED BY <2>1, <2>2
<1>5. ASSUME NEW t \in Tasks, ReadUnlock(t) PROVE WordIsGuards'
  <2>1. t \in Readers
    BY <1>5 DEF ReadUnlock, Readers
  <2>2. number_of_readers = Cardinality(Readers) /\ Writers = {}
    BY <2>1 DEF WordIsGuards
  <2>3. Readers' = Readers \ {t} /\ Writers' = Writers
    BY <1>5 DEF ReadUnlock, Readers, Writers
  <2>4. Cardinality(Readers \ {t}) = Cardinality(Readers) - 1
    BY <1>0, <2>1, FS_RemoveElement
  <2> QED BY <1>5, <2>2, <2>3, <2>4 DEF ReadUnlock, WordIsGuards
<1>6. ASSUME NEW t \in Tasks, TryWrite(t) PROVE WordIsGuards'
  <2>1. CASE number_of_readers # 0
    <3>1. Readers' = Readers /\ Writers' = Writers
      BY <1>6, <2>1 DEF TryWrite, Readers, Writers
    <3> QED BY <1>6, <2>1, <3>1, SameGuards DEF TryWrite
  <2>2. CASE number_of_readers = 0
    <3>1. Cardinality(Readers) = 0 /\ Writers = {}
      BY <2>2 DEF WordIsGuards
    <3>2. Readers = {}
      BY <1>0, <3>1, FS_EmptySet
    <3>3. Readers' = {} /\ Writers' = {t}
      BY <1>6, <2>2, <3>1, <3>2 DEF TryWrite, Readers, Writers
    <3> QED BY <1>6, <2>2, <3>3 DEF TryWrite, WordIsGuards
  <2> QED BY <2>1, <2>2
<1>7. ASSUME NEW t \in Tasks, WriteUnlock(t) PROVE WordIsGuards'
  <2>1. t \in Writers
    BY <1>7 DEF WriteUnlock, Writers
  <2>2. Readers = {} /\ Writers = {t}
    BY <2>1 DEF WordIsGuards
  <2>3. Readers' = {} /\ Writers' = {}
    BY <1>7, <2>2 DEF WriteUnlock, Readers, Writers
  <2> QED BY <1>7, <2>3, FS_EmptySet DEF WriteUnlock, WordIsGuards
<1> QED
  BY <1>1, <1>2, <1>3, <1>4, <1>5, <1>6, <1>7 DEF Next, Step

\* In every state of the RWLock the word is -1 with one write guard, else the
\* number of read guards.
THEOREM WordCorrect == Spec => []WordIsGuards
<1>1. IInv /\ [Next]_vars => IInv'
  BY TypeStep, WordStep DEF IInv
<1>2. IInv => WordIsGuards
  BY DEF IInv
<1> QED
  BY InitIInv, <1>1, <1>2, PTL DEF Spec

\* A write guard of the RWLock excludes every other guard.
THEOREM WritersExclude == Spec => []WriteExclusion
<1>1. WordIsGuards => WriteExclusion
  <2> SUFFICES ASSUME WordIsGuards, NEW t \in Tasks, NEW u \in Tasks,
                      pc[t] = "writing", u # t
               PROVE  pc[u] \notin {"reading", "writing"}
    BY DEF WriteExclusion
  <2>1. t \in Writers
    BY DEF Writers
  <2>2. Readers = {} /\ Writers = {t}
    BY <2>1 DEF WordIsGuards
  <2> QED BY <2>2 DEF Readers, Writers
<1> QED
  BY WordCorrect, <1>1, PTL

-----------------------------------------------------------------------------
(* The flag and the Once *)

Holders == {t \in LockTasks : at_lock[t] = "holding"}

\* FlagIsGuard without a cardinality: nobody holds a free flag, one task a taken one.
OneHolder ==
    /\ ~is_locked => Holders = {}
    /\ is_locked => \E t \in LockTasks : Holders = {t}

\* A Once that is not called has run nothing and turned nobody away; one that is
\* called has run one function.
OneRun ==
    /\ once_state = "NotCalled" => ran = {} /\ \A c \in Callers : at_once[c] = "idle"
    /\ once_state = "Called" => \E c \in Callers : ran = {c}

FlagInv == LockTypeOK /\ OneHolder
OnceInv == OnceTypeOK /\ OneRun

\* The flag's invariant holds at first: the lock is free.
LEMMA FlagInit == LockInit => FlagInv
<1> SUFFICES ASSUME LockInit PROVE FlagInv
  OBVIOUS
<1>1. LockTypeOK
  <2>1. MaxLocks \in 0..MaxLocks
    BY MaxLocksNat
  <2>2. left_locks \in [LockTasks -> 0..MaxLocks]
    BY <2>1 DEF LockInit
  <2>3. at_lock \in [LockTasks -> {"idle", "trying", "holding"}]
    BY DEF LockInit
  <2> QED
    BY <2>2, <2>3, Zenon DEF LockInit, LockTypeOK
<1>2. Holders = {} /\ ~is_locked
  BY DEF LockInit, Holders
<1> QED
  BY <1>1, <1>2 DEF FlagInv, OneHolder

\* An exchange that takes the flag makes its task the only holder, and one that fails
\* changes nothing.
LEMMA ExchangeStep ==
    ASSUME FlagInv, NEW t \in LockTasks, at_lock[t] # "holding",
           NEW taken \in BOOLEAN, Exchange(t, taken)
    PROVE  /\ is_locked' \in BOOLEAN
           /\ at_lock' \in [LockTasks -> {"idle", "trying", "holding"}]
           /\ OneHolder'
<1>1. CASE taken
  <2>1. /\ Holders = {} /\ is_locked' = TRUE
        /\ at_lock' = [at_lock EXCEPT ![t] = "holding"]
    BY <1>1 DEF FlagInv, LockTypeOK, OneHolder, Exchange
  <2>2. Holders' = {t}
    BY <2>1 DEF FlagInv, LockTypeOK, Holders
  <2> QED
    BY <2>1, <2>2 DEF FlagInv, LockTypeOK, OneHolder
<1>2. CASE ~taken
  <2>1. is_locked' = is_locked /\ at_lock' = at_lock
    BY <1>2 DEF FlagInv, LockTypeOK, Exchange
  <2> QED
    BY <2>1 DEF FlagInv, LockTypeOK, OneHolder, Holders
<1> QED
  BY <1>1, <1>2

\* Every step of a task, and of no task, keeps the flag's invariant: unlock() is
\* called by the one holder, so that nobody holds the flag it clears.
LEMMA FlagStep == FlagInv /\ [LockNext]_lockVars => FlagInv'
<1> SUFFICES ASSUME FlagInv, [LockNext]_lockVars PROVE FlagInv'
  OBVIOUS
<1>1. CASE UNCHANGED lockVars
  BY <1>1 DEF lockVars, FlagInv, LockTypeOK, OneHolder, Holders
<1>2. ASSUME NEW t \in LockTasks, PollTask(t) \/ EndPoll(t) \/ YieldInLock(t)
      PROVE  FlagInv'
  BY <1>2 DEF PollTask, EndPoll, YieldInLock, FlagInv, LockTypeOK, OneHolder, Holders
<1>3. ASSUME NEW t \in LockTasks, TryLockFlag(t) PROVE FlagInv'
  <2>1. PICK taken \in BOOLEAN : Exchange(t, taken)
    BY <1>3 DEF TryLockFlag
  <2>2. at_lock[t] # "holding"
    BY <1>3 DEF TryLockFlag
  <2>3. left_locks' \in [LockTasks -> 0..MaxLocks]
    BY <1>3, MaxLocksNat DEF TryLockFlag, FlagInv, LockTypeOK
  <2> QED
    BY <1>3, <2>1, <2>2, <2>3, ExchangeStep DEF TryLockFlag, FlagInv, LockTypeOK
<1>4. ASSUME NEW t \in LockTasks, LockFlag(t) PROVE FlagInv'
  <2>1. left_locks' \in [LockTasks -> 0..MaxLocks]
    BY <1>4, MaxLocksNat DEF LockFlag, FlagInv, LockTypeOK
  <2>2. Holders' = Holders
    BY <1>4 DEF LockFlag, FlagInv, LockTypeOK, Holders
  <2> QED
    BY <1>4, <2>1, <2>2 DEF LockFlag, FlagInv, LockTypeOK, OneHolder
<1>5. ASSUME NEW t \in LockTasks, NEW taken \in BOOLEAN, TryAgain(t, taken) PROVE FlagInv'
  <2>1. at_lock[t] # "holding"
    BY <1>5 DEF TryAgain
  <2> QED
    BY <1>5, <2>1, ExchangeStep DEF TryAgain, FlagInv, LockTypeOK
<1>6. ASSUME NEW t \in LockTasks, UnlockFlag(t) PROVE FlagInv'
  <2>1. Holders = {t}
    BY <1>6 DEF UnlockFlag, FlagInv, LockTypeOK, OneHolder, Holders
  <2>2. Holders' = {}
    BY <1>6, <2>1 DEF UnlockFlag, FlagInv, LockTypeOK, Holders
  <2> QED
    BY <1>6, <2>2 DEF UnlockFlag, FlagInv, LockTypeOK, OneHolder
<1> QED
  BY <1>1, <1>2, <1>3, <1>4, <1>5, <1>6 DEF LockNext

\* The Once's invariant holds at first: nothing was called.
LEMMA OnceInitially == OnceInit => OnceInv
  BY DEF OnceInit, OnceInv, OnceTypeOK, OneRun

\* A call changes the state of the Once only from NotCalled, when nothing has run.
LEMMA OnceStep == OnceInv /\ [OnceNext]_onceVars => OnceInv'
<1> SUFFICES ASSUME OnceInv, [OnceNext]_onceVars PROVE OnceInv'
  OBVIOUS
<1>1. CASE UNCHANGED onceVars
  BY <1>1 DEF onceVars, OnceInv, OnceTypeOK, OneRun
<1>2. ASSUME NEW c \in Callers, CallOnce(c) PROVE OnceInv'
  <2>1. OnceTypeOK'
    BY <1>2 DEF CallOnce, OnceInv, OnceTypeOK
  <2>2. CASE once_state = "NotCalled"
    <3>1. once_state' = "Called" /\ ran' = {c}
      BY <1>2, <2>2 DEF CallOnce, OnceInv, OneRun
    <3> QED
      BY <2>1, <3>1 DEF OnceInv, OneRun
  <2>3. CASE once_state = "Called"
    <3>1. once_state' = "Called" /\ ran' = ran
      BY <1>2, <2>3 DEF CallOnce
    <3> QED
      BY <2>1, <2>3, <3>1 DEF OnceInv, OneRun
  <2> QED
    BY <2>2, <2>3 DEF OnceInv, OnceTypeOK
<1>3. ASSUME NEW c \in Callers, FunctionEnds(c) PROVE OnceInv'
  BY <1>3 DEF FunctionEnds, OnceInv, OnceTypeOK, OneRun
<1> QED
  BY <1>1, <1>2, <1>3 DEF OnceNext

\* A step of AtomicLocks is a step of each word or leaves it alone.
LEMMA StepOfEach ==
    [AtomicNext]_atomicVars => /\ [Next]_vars /\ [LockNext]_lockVars /\ [OnceNext]_onceVars
                               /\ word' = word
  BY DEF AtomicNext, OnRWLock, OnFlag, OnOnce, atomicVars

\* Whichever of the words is used, the RWLock is used as its own specification says.
THEOREM IsRWLock == AtomicSpec => Spec
<1>1. AtomicInit => Init
  BY DEF AtomicInit
<1>2. [AtomicNext]_atomicVars => [Next]_vars
  BY StepOfEach
<1> QED
  BY <1>1, <1>2, PTL DEF AtomicSpec, Spec

\* number_of_readers counts the read guards, or is -1 with one write guard: in the
\* composition with the other words too.
THEOREM WordIsCorrect == AtomicSpec => []WordIsGuards
  BY IsRWLock, WordCorrect, PTL

\* The cardinalities of the properties follow from the invariants.
LEMMA InvGuards == FlagInv /\ OnceInv => FlagIsGuard /\ RunsOnce
<1> SUFFICES ASSUME FlagInv, OnceInv PROVE FlagIsGuard /\ RunsOnce
  OBVIOUS
<1>1. FlagIsGuard
  <2>1. CASE is_locked
    <3>1. PICK t \in LockTasks : Holders = {t}
      BY <2>1 DEF FlagInv, OneHolder
    <3>2. Cardinality(Holders) = 1
      BY <3>1, FS_Singleton
    <3> QED
      BY <2>1, <3>2 DEF FlagIsGuard, Holders
  <2>2. CASE ~is_locked
    <3>1. Cardinality(Holders) = 0
      BY <2>2, FS_EmptySet DEF FlagInv, OneHolder
    <3> QED
      BY <2>2, <3>1 DEF FlagIsGuard, Holders
  <2> QED
    BY <2>1, <2>2
<1>2. Cardinality(ran) <= 1
  <2>1. CASE once_state = "NotCalled"
    <3>1. Cardinality(ran) = 0
      BY <2>1, FS_EmptySet DEF OnceInv, OneRun
    <3> QED
      BY <3>1
  <2>2. CASE once_state = "Called"
    <3>1. PICK c \in Callers : ran = {c}
      BY <2>2 DEF OnceInv, OneRun
    <3>2. Cardinality(ran) = 1
      BY <3>1, FS_Singleton
    <3> QED
      BY <3>2
  <2> QED
    BY <2>1, <2>2 DEF OnceInv, OnceTypeOK
<1>3. (\E c \in Callers : at_once[c] = "WasAlreadyCompleted") => ran # {}
  BY DEF OnceInv, OnceTypeOK, OneRun
<1> QED
  BY <1>1, <1>2, <1>3 DEF RunsOnce

\* Guards exclude one another and a Once runs one function, for any number of tasks:
\* a read guard is given in two steps, an exchange may fail for no reason, a holder of
\* the flag may be suspended.
THEOREM GuardsAreExclusive == AtomicSpec => []GuardsExclude
<1> DEFINE Words == FlagInv /\ OnceInv /\ word \in {"rwlock", "flag", "once"}
<1>1. AtomicInit => Words
  BY FlagInit, OnceInitially DEF AtomicInit
<1>2. Words /\ [AtomicNext]_atomicVars => Words'
  BY StepOfEach, FlagStep, OnceStep
<1>3. AtomicSpec => []Words
  BY <1>1, <1>2, PTL DEF AtomicSpec
<1>4. Spec => []TypeOK
  <2>1. TypeOK /\ [Next]_vars => TypeOK'
    BY TypeStep
  <2>2. Init => TypeOK
    BY InitIInv DEF IInv
  <2> QED
    BY <2>1, <2>2, PTL DEF Spec
<1>5. Words /\ TypeOK /\ WriteExclusion => GuardsExclude
  BY InvGuards DEF FlagInv, OnceInv, GuardsExclude, AtomicTypeOK
<1> HIDE DEF Words
<1> QED
  BY <1>3, <1>4, <1>5, IsRWLock, WritersExclude, PTL

=============================================================================
