---------------------------- MODULE MutexProofs ----------------------------
(***************************************************************************)
(* Proofs about the shared Mutex for any finite set of tasks and any number *)
(* of calls.  Mutual exclusion is proved from an invariant that treats the  *)
(* mutex as a token: the counter is 0 exactly when no task owns the token,  *)
(* at most one task owns it, and only parked tasks are in the queue, each   *)
(* once.  expected_count does not occur in it, which is why the races on    *)
(* that cell cannot break exclusion.                                        *)
(*                                                                          *)
(* Then about the CondVar over it, for any number of waiters, notifiers and *)
(* pokers.  The steps of the mutex keep the token; the rest of the          *)
(* invariant says where a task can be in the mutex while it is inside of    *)
(* the CondVar.                                                             *)
(***************************************************************************)
EXTENDS CondVar, Queues, FiniteSetTheorems, TLAPS

\* What exclusion rests on, apart from the counting: CondVar, which lets
\* expected_count fall below 0, keeps it as well.
Token ==
    /\ counter \in Nat
    /\ wait_queue \in Seq(Tasks)
    /\ pc \in [Tasks -> PC]
    /\ MutualExclusion
    /\ QueueIsParked

IInv == TypeOK /\ MutualExclusion /\ QueueIsParked

\* The initial state satisfies the invariant.
LEMMA InitIInv == Init => IInv
<1> SUFFICES ASSUME Init PROVE IInv
  OBVIOUS
<1>1. TypeOK
  BY MaxCallsNat DEF Init, TypeOK, PC
<1>2. MutualExclusion
  BY DEF Init, MutualExclusion, Owners
<1>3. QueueIsParked
  BY DEF Init, QueueIsParked
<1> QED
  BY <1>1, <1>2, <1>3 DEF IInv

\* A stuttering step leaves every variable as it is.
LEMMA Stutter ==
    UNCHANGED vars =>
        /\ UNCHANGED <<counter, expected_count, wait_queue, pc>>
        /\ UNCHANGED <<reg, calls, early>>
  BY DEF vars

\* Every field keeps its type in every step of lock(), try_lock() and unlock().
LEMMA TypeStep == TypeOK /\ [Next]_vars => TypeOK'
<1> SUFFICES ASSUME TypeOK, [Next]_vars PROVE TypeOK'
  OBVIOUS
<1> USE DEF TypeOK, PC
<1>1. CASE UNCHANGED vars
  BY <1>1, Stutter
<1>2. ASSUME NEW t \in Tasks, LockSpin(t) PROVE TypeOK'
  <2>1. counter' \in Nat
    BY <1>2 DEF LockSpin
  <2>2. pc' \in [Tasks -> PC]
    BY <1>2, Zenon DEF LockSpin
  <2>3. calls' \in [Tasks -> Nat]
    BY <1>2 DEF LockSpin
  <2> QED BY <1>2, <2>1, <2>2, <2>3 DEF LockSpin
<1>3. ASSUME NEW t \in Tasks, LockAdd(t) PROVE TypeOK'
  BY <1>3 DEF LockAdd
<1>4. ASSUME NEW t \in Tasks, Park(t) PROVE TypeOK'
  BY <1>4 DEF Park
<1>5. ASSUME NEW t \in Tasks, LockReady(t) PROVE TypeOK'
  BY <1>5 DEF LockReady
<1>6. ASSUME NEW t \in Tasks, TryLock(t) PROVE TypeOK'
  <2>1. counter' \in Nat
    BY <1>6 DEF TryLock
  <2>2. pc' \in [Tasks -> PC]
    BY <1>6, Zenon DEF TryLock
  <2>3. calls' \in [Tasks -> Nat]
    BY <1>6 DEF TryLock
  <2> QED BY <1>6, <2>1, <2>2, <2>3 DEF TryLock
<1>7. ASSUME NEW t \in Tasks, UnlockLoad(t) PROVE TypeOK'
  BY <1>7 DEF UnlockLoad
<1>8. ASSUME NEW t \in Tasks, UnlockCas(t) PROVE TypeOK'
  <2>1. counter' \in Nat
    BY <1>8 DEF UnlockCas
  <2>2. pc' \in [Tasks -> PC]
    BY <1>8 DEF UnlockCas
  <2> QED BY <1>8, <2>1, <2>2 DEF UnlockCas
<1>9. ASSUME NEW t \in Tasks, UnlockReset(t) PROVE TypeOK'
  BY <1>9 DEF UnlockReset
<1>10. ASSUME NEW t \in Tasks, UnlockCount(t) PROVE TypeOK'
  BY <1>10 DEF UnlockCount
<1>11. ASSUME NEW t \in Tasks, UnlockPop(t) PROVE TypeOK'
  <2>1. CASE wait_queue = <<>>
    BY <1>11, <2>1 DEF UnlockPop
  <2>2. CASE wait_queue # <<>>
    <3> DEFINE n == Len(wait_queue)
    <3>1. n \in Nat /\ n > 0 /\ wait_queue[n] \in Tasks
      BY <2>2
    <3>2. SubSeq(wait_queue, 1, n - 1) \in Seq(Tasks)
      BY <3>1
    <3>3. /\ pc' = [pc EXCEPT ![t] = "idle", ![wait_queue[n]] = "woken"]
          /\ wait_queue' = SubSeq(wait_queue, 1, n - 1)
          /\ UNCHANGED <<counter, expected_count, reg, calls, early>>
      BY <1>11, <2>2 DEF UnlockPop
    <3> QED BY <3>1, <3>2, <3>3, Zenon
  <2> QED BY <2>1, <2>2, Zenon
<1> QED
  BY <1>1, <1>2, <1>3, <1>4, <1>5, <1>6, <1>7, <1>8, <1>9, <1>10, <1>11
     DEF Next, Lock, Unlock

Parked == {t \in Tasks : pc[t] = "parked"}

\* The queue is a queue of the parked tasks.
LEMMA QueueIsOnce ==
    ASSUME wait_queue \in Seq(Tasks)
    PROVE  QueueIsParked <=> Once(wait_queue, Parked)
<1>1. \A i \in DOMAIN wait_queue : wait_queue[i] \in Tasks
  OBVIOUS
<1>2. ASSUME QueueIsParked PROVE Once(wait_queue, Parked)
  BY <1>1, <1>2, Zenon DEF QueueIsParked, Once, Parked
<1>3. ASSUME Once(wait_queue, Parked) PROVE QueueIsParked
  BY <1>1, <1>3, Zenon DEF QueueIsParked, Once, Parked
<1> QED BY <1>2, <1>3

\* A step that moves no task in or out of ownership or of the queue.
LEMMA TokenSame ==
    ASSUME Token, pc' \in [Tasks -> PC], wait_queue' = wait_queue, Owners' = Owners,
           Parked' = Parked, counter' \in Nat, (counter' = 0) <=> (counter = 0)
    PROVE  Token'
<1>1. MutualExclusion'
  BY DEF Token, MutualExclusion
<1>2. QueueIsParked'
  <2>1. wait_queue' \in Seq(Tasks) /\ Once(wait_queue', Parked')
    BY QueueIsOnce DEF Token
  <2>2. \A t \in Tasks : (pc'[t] = "parked") <=> (pc[t] = "parked")
    BY Zenon DEF Parked
  <2> QED BY <2>2, Zenon DEF Token, QueueIsParked
<1> QED BY <1>1, <1>2 DEF Token

\* A task that changes the counter from 0 to 1 becomes the only owner.
LEMMA TokenTaken ==
    ASSUME Token, NEW t \in Tasks, pc[t] \in {"idle", "slow"}, counter = 0, counter' = 1,
           pc' = [pc EXCEPT ![t] = "holding"], wait_queue' = wait_queue
    PROVE  Token'
<1>1. Owners = {} /\ pc \in [Tasks -> PC]
  BY DEF Token, MutualExclusion
<1>2. pc' \in [Tasks -> PC] /\ pc'[t] = "holding" /\ \A u \in Tasks \ {t} : pc'[u] = pc[u]
  BY <1>1 DEF PC
<1>3. Owners' = {t}
  BY <1>1, <1>2 DEF Owners
<1>4. MutualExclusion'
  BY <1>3 DEF MutualExclusion
<1>5. \A u \in Tasks : (pc'[u] = "parked") <=> (pc[u] = "parked")
  BY <1>2
<1>6. QueueIsParked'
  BY <1>5, Zenon DEF Token, QueueIsParked
<1> QED BY <1>2, <1>4, <1>6 DEF Token

\* A task that neither owns the mutex nor is parked is pushed to the queue.
LEMMA TokenParked ==
    ASSUME Token, NEW t \in Tasks, pc[t] \in {"idle", "pending"}, counter' = counter,
           pc' = [pc EXCEPT ![t] = "parked"], wait_queue' = Append(wait_queue, t)
    PROVE  Token'
<1>1. wait_queue \in Seq(Tasks) /\ pc \in [Tasks -> PC]
  BY DEF Token
<1>2. pc' \in [Tasks -> PC] /\ pc'[t] = "parked" /\ \A u \in Tasks \ {t} : pc'[u] = pc[u]
  BY <1>1 DEF PC
<1>3. t \notin Parked /\ Parked' = Parked \cup {t}
  BY <1>2 DEF Parked
<1>4. Once(wait_queue, Parked)
  BY <1>1, QueueIsOnce DEF Token
<1>5. wait_queue' \in Seq(Tasks) /\ Once(wait_queue', Parked')
  BY <1>1, <1>3, <1>4, OnceAppend
<1>6. QueueIsParked'
  <2>1. \A i \in DOMAIN wait_queue' : wait_queue'[i] \in Tasks
    BY <1>5
  <2> QED BY <1>5, <2>1, Zenon DEF Once, Parked, QueueIsParked
<1>7. Owners' = Owners
  BY <1>2 DEF Owners
<1>8. MutualExclusion'
  BY <1>7 DEF Token, MutualExclusion
<1> QED BY <1>2, <1>5, <1>6, <1>8 DEF Token

\* A task popped from the queue is parked.
LEMMA PopFacts ==
    ASSUME Token, NEW t \in Tasks, UnlockPop(t), wait_queue # <<>>
    PROVE  LET n == Len(wait_queue)
               u == wait_queue[n]
           IN /\ u \in Tasks /\ u # t /\ pc[u] = "parked" /\ t \in Owners
              /\ pc' = [pc EXCEPT ![t] = "idle", ![u] = "woken"]
              /\ wait_queue' = SubSeq(wait_queue, 1, n - 1)
              /\ wait_queue' \in Seq(Tasks)
              /\ Once(wait_queue', Parked \ {u})
              /\ counter' = counter
<1> DEFINE n == Len(wait_queue)
           u == wait_queue[n]
<1>1. wait_queue \in Seq(Tasks) /\ Once(wait_queue, Parked)
  BY QueueIsOnce DEF Token
<1>2. /\ u \in Parked /\ u \in Tasks /\ SubSeq(wait_queue, 1, n - 1) \in Seq(Tasks)
      /\ Once(SubSeq(wait_queue, 1, n - 1), Parked \ {u})
  BY <1>1, OncePop
<1>3. pc[t] \in {"pop", "spin"} /\ pc[u] = "parked"
  BY <1>2, Zenon DEF UnlockPop, Parked
<1>4. /\ pc' = [pc EXCEPT ![t] = "idle", ![u] = "woken"]
      /\ wait_queue' = SubSeq(wait_queue, 1, n - 1)
      /\ counter' = counter
  BY DEF UnlockPop
<1> HIDE DEF u, n
<1>5. u # t /\ t \in Owners
  BY <1>3 DEF Owners
<1> QED BY <1>2, <1>3, <1>4, <1>5, Zenon DEF u, n

\* Ownership is handed from one task to the next: an arrival that changes the
\* counter from 0 becomes the only owner, unlock() either sets the counter to 0
\* and gives ownership up, or passes it to the task it pops.  Only the executor's
\* push and unlock()'s pop change the queue, and each moves one task in or out of
\* the parked state along with it.
LEMMA TokenStep == Token /\ [Next]_vars => Token'
<1> SUFFICES ASSUME Token, [Next]_vars PROVE Token'
  OBVIOUS
<1>0. counter \in Nat /\ wait_queue \in Seq(Tasks) /\ pc \in [Tasks -> PC]
  BY DEF Token
<1>1. CASE UNCHANGED vars
  BY <1>1, Stutter, <1>0, TokenSame DEF Owners, Parked
<1>2. ASSUME NEW t \in Tasks, LockSpin(t) PROVE Token'
  <2>1. CASE counter = 0
    BY <1>2, <2>1, TokenTaken DEF LockSpin
  <2>2. CASE counter # 0
    <3>1. /\ pc[t] = "idle" /\ pc' = [pc EXCEPT ![t] = "slow"]
          /\ wait_queue' = wait_queue /\ counter' = counter
      BY <1>2, <2>2 DEF LockSpin
    <3>2. pc' \in [Tasks -> PC] /\ Owners' = Owners /\ Parked' = Parked
      BY <1>0, <3>1 DEF Owners, Parked, PC
    <3> QED BY <1>0, <3>1, <3>2, TokenSame
  <2> QED BY <2>1, <2>2
<1>3. ASSUME NEW t \in Tasks, LockAdd(t) PROVE Token'
  <2>1. CASE counter = 0
    <3>1. /\ pc[t] = "slow" /\ pc' = [pc EXCEPT ![t] = "holding"]
          /\ wait_queue' = wait_queue /\ counter' = 1
      BY <1>3, <2>1 DEF LockAdd
    <3> QED BY <2>1, <3>1, TokenTaken, Zenon
  <2>2. CASE counter # 0
    <3>1. /\ pc[t] = "slow" /\ pc' = [pc EXCEPT ![t] = "pending"]
          /\ wait_queue' = wait_queue /\ counter' = counter + 1
      BY <1>3, <2>2 DEF LockAdd
    <3>2. pc' \in [Tasks -> PC] /\ Owners' = Owners /\ Parked' = Parked
      BY <1>0, <3>1 DEF Owners, Parked, PC
    <3>3. counter' \in Nat /\ counter' # 0
      BY <1>0, <3>1
    <3> QED BY <2>2, <3>1, <3>2, <3>3, TokenSame
  <2> QED BY <2>1, <2>2
<1>4. ASSUME NEW t \in Tasks, Park(t) PROVE Token'
  BY <1>4, TokenParked, Zenon DEF Park
<1>5. ASSUME NEW t \in Tasks, LockReady(t) PROVE Token'
  <2>1. /\ pc[t] = "woken" /\ pc' = [pc EXCEPT ![t] = "holding"]
        /\ wait_queue' = wait_queue /\ counter' = counter
    BY <1>5 DEF LockReady
  <2>2. pc' \in [Tasks -> PC] /\ Owners' = Owners /\ Parked' = Parked
    BY <1>0, <2>1 DEF Owners, Parked, PC
  <2> QED BY <1>0, <2>1, <2>2, TokenSame
<1>6. ASSUME NEW t \in Tasks, TryLock(t) PROVE Token'
  <2>1. CASE counter = 0
    BY <1>6, <2>1, TokenTaken DEF TryLock
  <2>2. CASE counter # 0
    BY <1>0, <1>6, <2>2, TokenSame DEF TryLock, Owners, Parked
  <2> QED BY <2>1, <2>2
<1>7. ASSUME NEW t \in Tasks, UnlockLoad(t) PROVE Token'
  <2>1. /\ pc[t] = "holding" /\ pc' = [pc EXCEPT ![t] = "cas"]
        /\ wait_queue' = wait_queue /\ counter' = counter
    BY <1>7 DEF UnlockLoad
  <2>2. pc' \in [Tasks -> PC] /\ Owners' = Owners /\ Parked' = Parked
    BY <1>0, <2>1 DEF Owners, Parked, PC
  <2> QED BY <1>0, <2>1, <2>2, TokenSame
<1>8. ASSUME NEW t \in Tasks, UnlockCas(t) PROVE Token'
  <2>1. t \in Owners /\ Owners = {t}
    BY <1>8 DEF UnlockCas, Owners, Token, MutualExclusion
  <2>2. CASE counter = reg[t]
    <3>1. /\ pc[t] = "cas" /\ pc' = [pc EXCEPT ![t] = "reset"]
          /\ wait_queue' = wait_queue /\ counter' = 0
      BY <1>8, <2>2 DEF UnlockCas
    <3>2. /\ pc' \in [Tasks -> PC] /\ Owners' = {}
          /\ \A u \in Tasks : (pc'[u] = "parked") <=> (pc[u] = "parked")
      BY <1>0, <2>1, <3>1 DEF Owners, PC
    <3>3. MutualExclusion'
      BY <3>1, <3>2 DEF MutualExclusion
    <3>4. QueueIsParked'
      BY <3>1, <3>2, Zenon DEF Token, QueueIsParked
    <3> QED BY <1>0, <3>1, <3>2, <3>3, <3>4 DEF Token
  <2>3. CASE counter # reg[t]
    <3>1. /\ pc[t] = "cas" /\ pc' = [pc EXCEPT ![t] = "miss"]
          /\ wait_queue' = wait_queue /\ counter' = counter
      BY <1>8, <2>3 DEF UnlockCas
    <3>2. pc' \in [Tasks -> PC] /\ Owners' = Owners /\ Parked' = Parked
      BY <1>0, <3>1 DEF Owners, Parked, PC
    <3> QED BY <1>0, <3>1, <3>2, TokenSame
  <2> QED BY <2>2, <2>3
<1>9. ASSUME NEW t \in Tasks, UnlockReset(t) PROVE Token'
  <2>1. /\ pc[t] = "reset" /\ pc' = [pc EXCEPT ![t] = "idle"]
        /\ wait_queue' = wait_queue /\ counter' = counter
    BY <1>9 DEF UnlockReset
  <2>2. pc' \in [Tasks -> PC] /\ Owners' = Owners /\ Parked' = Parked
    BY <1>0, <2>1 DEF Owners, Parked, PC
  <2> QED BY <1>0, <2>1, <2>2, TokenSame
<1>10. ASSUME NEW t \in Tasks, UnlockCount(t) PROVE Token'
  <2>1. /\ pc[t] = "miss" /\ pc' = [pc EXCEPT ![t] = "pop"]
        /\ wait_queue' = wait_queue /\ counter' = counter
    BY <1>10 DEF UnlockCount
  <2>2. pc' \in [Tasks -> PC] /\ Owners' = Owners /\ Parked' = Parked
    BY <1>0, <2>1 DEF Owners, Parked, PC
  <2> QED BY <1>0, <2>1, <2>2, TokenSame
<1>11. ASSUME NEW t \in Tasks, UnlockPop(t) PROVE Token'
  <2>1. CASE wait_queue = <<>>
    <3>1. /\ pc[t] \in {"pop", "spin"} /\ pc' = [pc EXCEPT ![t] = "spin"]
          /\ wait_queue' = wait_queue /\ counter' = counter
      BY <1>11, <2>1 DEF UnlockPop
    <3>2. pc' \in [Tasks -> PC] /\ Owners' = Owners /\ Parked' = Parked
      BY <1>0, <3>1 DEF Owners, Parked, PC
    <3> QED BY <1>0, <3>1, <3>2, TokenSame
  <2>2. CASE wait_queue # <<>>
    <3>1. PICK u \in Tasks :
             /\ u # t /\ pc[u] = "parked" /\ t \in Owners /\ counter' = counter
             /\ pc' = [pc EXCEPT ![t] = "idle", ![u] = "woken"]
             /\ wait_queue' \in Seq(Tasks) /\ Once(wait_queue', Parked \ {u})
      BY <1>11, <2>2, PopFacts, Zenon
    <3>2. Owners = {t} /\ counter # 0
      BY <3>1 DEF Token, MutualExclusion
    <3>3. /\ pc' \in [Tasks -> PC] /\ pc'[u] = "woken" /\ pc'[t] = "idle"
          /\ \A v \in Tasks \ {t, u} : pc'[v] = pc[v]
      BY <1>0, <3>1 DEF PC
    <3>4. pc[t] # "parked"
      BY <1>11 DEF UnlockPop
    <3>5. Parked' = Parked \ {u}
      BY <3>1, <3>3, <3>4 DEF Parked
    <3>6. \A v \in Tasks \ {t} : v \notin Owners
      BY <3>2
    <3>7. Owners' = {u}
      BY <3>1, <3>3, <3>6 DEF Owners
    <3>8. MutualExclusion'
      BY <3>1, <3>2, <3>7 DEF MutualExclusion
    <3>9. QueueIsParked'
      <4>1. Once(wait_queue', Parked')
        BY <3>1, <3>5
      <4>2. \A i \in DOMAIN wait_queue' : wait_queue'[i] \in Tasks
        BY <3>1
      <4> QED BY <4>1, <4>2, Zenon DEF Once, Parked, QueueIsParked
    <3> QED BY <1>0, <3>1, <3>3, <3>8, <3>9 DEF Token
  <2> QED BY <2>1, <2>2
<1> QED
  BY <1>1, <1>2, <1>3, <1>4, <1>5, <1>6, <1>7, <1>8, <1>9, <1>10, <1>11, Zenon
     DEF Next, Lock, Unlock

\* The invariant of the mutex includes the token.
LEMMA HasToken == IInv => Token
  BY DEF IInv, Token, TypeOK

\* The invariant is inductive.
LEMMA Inductive == Spec => []IInv
<1>1. IInv /\ [Next]_vars => IInv'
  BY TypeStep, TokenStep, HasToken DEF IInv, Token
<1> QED
  BY InitIInv, <1>1, PTL DEF Spec

\* The fields of the mutex and the tasks' positions always have their types.
THEOREM TypeCorrect == Spec => []TypeOK
<1>1. IInv => TypeOK
  BY DEF IInv
<1> QED
  BY Inductive, <1>1, PTL

\* Guards of the shared mutex are exclusive, and its counter is 0 exactly when
\* nobody owns it, for any number of tasks and calls and whatever values the
\* unsynchronised expected_count takes.
THEOREM Exclusion == Spec => []MutualExclusion
<1>1. IInv => MutualExclusion
  BY DEF IInv
<1> QED
  BY Inductive, <1>1, PTL

\* The wait queue of the mutex holds each parked task once and nothing else.
THEOREM QueueCorrect == Spec => []QueueIsParked
<1>1. IInv => QueueIsParked
  BY DEF IInv
<1> QED
  BY Inductive, <1>1, PTL

-----------------------------------------------------------------------------
(* The bookkeeping of unlock().  Accounting is not inductive: it says nothing  *)
(* of a free mutex' expected_count, nor of what a running unlock() has read.   *)

Resetting == {u \in Tasks : pc[u] = "reset"}
Served == IF Resetting # {} THEN 1 ELSE expected_count
Handing(t) == IF pc[t] \in {"pop", "spin"} THEN 1 ELSE 0

\* A free mutex has served its owner only; an unlock() that was not early goes on
\* while no reset is pending, so that what it has read is still there.
Book ==
    /\ Owners = {} => Waiting = {} /\ Served = 1
    /\ \A t \in Owners : counter = Served + Cardinality(Waiting) - Handing(t)
    /\ \A t \in Tasks : pc[t] \in {"cas", "miss", "pop", "spin"} => Resetting = {}
    /\ \A t \in Tasks : pc[t] \in {"cas", "miss"} => reg[t] = expected_count

Bookkept == early = {} => Book

\* Nobody has called lock() at first.
LEMMA BookInit == Init => Bookkept
  BY FS_EmptySet DEF Init, Bookkept, Book, Owners, Waiting, Resetting, Served

\* The waiting tasks can be counted.
LEMMA WaitingCounted == IsFiniteSet(Waiting) /\ Cardinality(Waiting) \in Nat
<1>1. Waiting \in SUBSET Tasks
  BY DEF Waiting
<1> QED
  BY <1>1, TasksFinite, FS_Subset, FS_CardinalityType

\* A step that changes neither the counters nor who owns, waits, resets or hands over
\* keeps the books.
LEMMA SameBook ==
    ASSUME Book, Owners' = Owners, Waiting' = Waiting, Resetting' = Resetting,
           counter' = counter, expected_count' = expected_count,
           \A x \in Tasks : pc'[x] \in {"cas", "miss", "pop", "spin"} =>
               pc[x] \in {"cas", "miss", "pop", "spin"},
           \A x \in Tasks : pc'[x] \in {"cas", "miss"} =>
               pc[x] \in {"cas", "miss"} /\ reg'[x] = reg[x],
           \A x \in Owners : (pc'[x] \in {"pop", "spin"}) <=> (pc[x] \in {"pop", "spin"})
    PROVE  Book'
<1>1. Served' = Served
  BY DEF Served
<1>2. \A x \in Owners : Handing(x)' = Handing(x)
  BY DEF Handing
<1>3. Owners' = {} => Waiting' = {} /\ Served' = 1
  BY <1>1 DEF Book
<1>4. \A x \in Owners' : counter' = Served' + Cardinality(Waiting') - Handing(x)'
  BY <1>1, <1>2 DEF Book
<1>5. \A x \in Tasks : pc'[x] \in {"cas", "miss", "pop", "spin"} => Resetting' = {}
  BY DEF Book
<1>6. \A x \in Tasks : pc'[x] \in {"cas", "miss"} => reg'[x] = expected_count'
  BY DEF Book
<1> QED
  BY <1>3, <1>4, <1>5, <1>6 DEF Book

\* An arrival at a free mutex takes it: it is the one arrival that is counted.
LEMMA FirstArrival ==
    ASSUME IInv, Book, counter = 0, NEW t \in Tasks, counter' = 1,
           pc[t] \in {"idle", "slow"}, pc' = [pc EXCEPT ![t] = "holding"],
           expected_count' = expected_count
    PROVE  Book'
<1>1. Owners = {} /\ Waiting = {} /\ Served = 1
  BY DEF IInv, MutualExclusion, Book
<1>2. Waiting' = {} /\ Resetting' = Resetting
  BY <1>1 DEF Waiting, Resetting, IInv, TypeOK
<1>3. Owners' = {t} /\ pc'[t] = "holding"
  BY <1>1 DEF Owners, IInv, TypeOK
<1>4. Served' = 1 /\ Handing(t)' = 0 /\ Cardinality(Waiting') = 0
  BY <1>1, <1>2, <1>3, FS_EmptySet DEF Served, Handing
<1>5. \A x \in Tasks : pc'[x] \notin {"cas", "miss", "pop", "spin"}
  BY <1>3 DEF Owners
<1> QED
  BY <1>2, <1>3, <1>4, <1>5 DEF Book

\* Every step keeps the books as long as no unlock() was early.
LEMMA BookStep == IInv /\ Bookkept /\ [Next]_vars => Bookkept'
<1> SUFFICES ASSUME IInv, Bookkept, [Next]_vars, early' = {} PROVE Book'
  BY DEF Bookkept
<1>0. Book /\ TypeOK /\ MutualExclusion
  <2>1. early = {}
    BY DEF Next, Lock, Unlock, vars, LockSpin, LockAdd, Park, LockReady, TryLock, UnlockLoad,
           UnlockCas, UnlockReset, UnlockCount, UnlockPop
  <2> QED BY <2>1 DEF Bookkept, IInv
<1>w. IsFiniteSet(Waiting) /\ Cardinality(Waiting) \in Nat
  BY WaitingCounted
<1>1. CASE UNCHANGED vars
  BY <1>0, <1>1, Stutter, SameBook DEF Owners, Waiting, Resetting
<1>2. ASSUME NEW t \in Tasks, LockSpin(t) PROVE Book'
  <2>1. CASE counter = 0
    BY <1>0, <1>2, <2>1, FirstArrival DEF LockSpin
  <2>2. CASE counter # 0
    <3>1. /\ pc' = [pc EXCEPT ![t] = "slow"] /\ pc[t] = "idle"
          /\ UNCHANGED <<counter, expected_count, reg>>
      BY <1>2, <2>2 DEF LockSpin
    <3>2. Owners' = Owners /\ Waiting' = Waiting /\ Resetting' = Resetting
      BY <1>0, <3>1 DEF TypeOK, Owners, Waiting, Resetting
    <3> QED BY <1>0, <3>1, <3>2, SameBook DEF TypeOK
  <2> QED BY <2>1, <2>2
<1>3. ASSUME NEW t \in Tasks, LockAdd(t) PROVE Book'
  <2>1. CASE counter = 0
    <3>1. /\ pc' = [pc EXCEPT ![t] = "holding"] /\ pc[t] = "slow"
          /\ counter' = 1 /\ expected_count' = expected_count
      BY <1>3, <2>1 DEF LockAdd
    <3> QED BY <1>0, <2>1, <3>1, FirstArrival, Zenon
  <2>2. CASE counter # 0
    <3>1. /\ pc' = [pc EXCEPT ![t] = "pending"] /\ pc[t] = "slow"
          /\ counter' = counter + 1 /\ UNCHANGED <<expected_count, reg>>
      BY <1>3, <2>2 DEF LockAdd
    <3>2. Owners' = Owners /\ Owners # {}
      BY <1>0, <2>2, <3>1 DEF TypeOK, Owners, MutualExclusion
    <3>3. Resetting' = Resetting /\ Waiting' = Waiting \cup {t} /\ t \notin Waiting
      BY <1>0, <3>1 DEF TypeOK, Resetting, Waiting
    <3>4. Cardinality(Waiting') = Cardinality(Waiting) + 1
      BY <1>w, <3>3, FS_AddElement, Zenon
    <3>5. Served' = Served /\ Served \in Nat
      BY <1>0, <3>1, <3>3 DEF Served, TypeOK
    <3>6. \A x \in Owners : Handing(x)' = Handing(x) /\ Handing(x) \in Nat
      BY <1>0, <3>1 DEF Handing, Owners, TypeOK
    <3>7. \A x \in Owners' : counter' = Served' + Cardinality(Waiting') - Handing(x)'
      <4> TAKE x \in Owners'
      <4>1. x \in Owners /\ counter = Served + Cardinality(Waiting) - Handing(x)
        BY <1>0, <3>2 DEF Book
      <4> HIDE DEF Served, Handing
      <4> QED BY <1>0, <1>w, <3>1, <3>4, <3>5, <3>6, <4>1 DEF TypeOK
    <3>8. \A x \in Tasks : pc'[x] \in {"cas", "miss", "pop", "spin"} => pc[x] = pc'[x]
      BY <1>0, <3>1 DEF TypeOK
    <3> QED BY <1>0, <3>1, <3>2, <3>3, <3>7, <3>8 DEF Book
  <2> QED BY <2>1, <2>2
<1>4. ASSUME NEW t \in Tasks, Park(t) PROVE Book'
  <2>1. Owners' = Owners /\ Waiting' = Waiting /\ Resetting' = Resetting
    BY <1>0, <1>4 DEF Park, TypeOK, Owners, Waiting, Resetting
  <2> QED BY <1>0, <1>4, <2>1, SameBook DEF Park, TypeOK
<1>5. ASSUME NEW t \in Tasks, LockReady(t) PROVE Book'
  <2>1. Owners' = Owners /\ Waiting' = Waiting /\ Resetting' = Resetting
    BY <1>0, <1>5 DEF LockReady, TypeOK, Owners, Waiting, Resetting
  <2> QED BY <1>0, <1>5, <2>1, SameBook DEF LockReady, TypeOK
<1>6. ASSUME NEW t \in Tasks, TryLock(t) PROVE Book'
  <2>1. CASE counter = 0
    BY <1>0, <1>6, <2>1, FirstArrival DEF TryLock
  <2>2. CASE counter # 0
    BY <1>0, <1>6, <2>2, SameBook DEF TryLock, Owners, Waiting, Resetting
  <2> QED BY <2>1, <2>2
<1>7. ASSUME NEW t \in Tasks, UnlockLoad(t) PROVE Book'
  <2>1. Resetting = {}
    BY <1>7 DEF UnlockLoad, Resetting
  <2>2. /\ pc' = [pc EXCEPT ![t] = "cas"] /\ pc[t] = "holding" /\ reg' = [reg EXCEPT ![t] = expected_count]
        /\ UNCHANGED <<counter, expected_count>>
    BY <1>7 DEF UnlockLoad
  <2>3. Owners' = Owners /\ Waiting' = Waiting /\ Resetting' = Resetting
    BY <1>0, <2>2 DEF TypeOK, Owners, Waiting, Resetting
  <2>4. Served' = Served /\ \A x \in Owners : Handing(x)' = Handing(x)
    BY <1>0, <2>2, <2>3 DEF Served, Handing, TypeOK
  <2>5. \A x \in Tasks : pc'[x] \in {"cas", "miss"} => reg'[x] = expected_count'
    BY <1>0, <2>2 DEF Book, TypeOK
  <2> QED BY <1>0, <2>1, <2>2, <2>3, <2>4, <2>5 DEF Book
<1>8. ASSUME NEW t \in Tasks, UnlockCas(t) PROVE Book'
  <2>1. t \in Owners /\ Owners = {t} /\ Resetting = {} /\ reg[t] = expected_count
    BY <1>0, <1>8 DEF UnlockCas, Owners, MutualExclusion, Book
  <2>2. counter = expected_count + Cardinality(Waiting)
    BY <1>0, <1>8, <2>1, <1>w DEF UnlockCas, Book, Served, Handing, TypeOK
  <2>3. CASE counter = reg[t]
    <3>1. /\ pc' = [pc EXCEPT ![t] = "reset"] /\ pc[t] = "cas"
          /\ UNCHANGED <<expected_count, reg>>
      BY <1>0, <1>8, <2>3 DEF UnlockCas, TypeOK
    <3>2. Cardinality(Waiting) = 0
      BY <1>0, <1>w, <2>1, <2>2, <2>3 DEF TypeOK
    <3>3. Waiting = {}
      BY <1>w, <3>2, FS_EmptySet
    <3>4. Waiting' = {}
      BY <1>0, <3>1, <3>3 DEF Waiting, TypeOK
    <3>5. Owners' = {}
      BY <1>0, <2>1, <3>1 DEF Owners, TypeOK
    <3>6. Served' = 1
      BY <1>0, <3>1 DEF Served, Resetting, TypeOK
    <3>7. \A x \in Tasks : pc'[x] \notin {"cas", "miss", "pop", "spin"}
      BY <3>5 DEF Owners
    <3> QED BY <3>4, <3>5, <3>6, <3>7 DEF Book
  <2>4. CASE counter # reg[t]
    <3>1. /\ pc' = [pc EXCEPT ![t] = "miss"] /\ pc[t] = "cas"
          /\ UNCHANGED <<counter, expected_count, reg>>
      BY <1>8, <2>4 DEF UnlockCas
    <3>2. Owners' = Owners /\ Waiting' = Waiting /\ Resetting' = Resetting
      BY <1>0, <3>1 DEF TypeOK, Owners, Waiting, Resetting
    <3> QED BY <1>0, <3>1, <3>2, SameBook DEF TypeOK
  <2> QED BY <2>3, <2>4
<1>9. ASSUME NEW t \in Tasks, UnlockReset(t) PROVE Book'
  <2>1. /\ pc' = [pc EXCEPT ![t] = "idle"] /\ pc[t] = "reset" /\ expected_count' = 1
        /\ UNCHANGED <<counter, reg>>
    BY <1>9 DEF UnlockReset
  <2>2. Owners' = Owners /\ Waiting' = Waiting /\ t \in Resetting
    BY <1>0, <2>1 DEF TypeOK, Owners, Waiting, Resetting
  <2>3. Served = 1 /\ Served' = 1
    BY <2>1, <2>2 DEF Served
  <2>4. \A x \in Tasks : pc[x] \notin {"cas", "miss", "pop", "spin"}
    BY <1>0, <2>2 DEF Book
  <2>5. \A x \in Tasks : pc'[x] \notin {"cas", "miss", "pop", "spin"}
    BY <1>0, <2>1, <2>4 DEF TypeOK
  <2>6. \A x \in Owners : Handing(x)' = Handing(x)
    BY <2>4, <2>5 DEF Handing, Owners
  <2> QED BY <1>0, <2>1, <2>2, <2>3, <2>5, <2>6 DEF Book
<1>10. ASSUME NEW t \in Tasks, UnlockCount(t) PROVE Book'
  <2>1. t \in Owners /\ Owners = {t} /\ Resetting = {} /\ reg[t] = expected_count
    BY <1>0, <1>10 DEF UnlockCount, Owners, MutualExclusion, Book
  <2>2. /\ pc' = [pc EXCEPT ![t] = "pop"] /\ pc[t] = "miss" /\ expected_count' = expected_count + 1
        /\ UNCHANGED <<counter, reg>>
    BY <1>10, <2>1 DEF UnlockCount
  <2>3. Owners' = {t} /\ Waiting' = Waiting /\ Resetting' = {}
    BY <1>0, <2>1, <2>2 DEF TypeOK, Owners, Waiting, Resetting
  <2>4. counter = expected_count + Cardinality(Waiting)
    BY <1>0, <1>w, <2>1, <2>2 DEF Book, Served, Handing, TypeOK
  <2>5. Served' = expected_count + 1 /\ Handing(t)' = 1
    BY <1>0, <2>2, <2>3 DEF Served, Handing, TypeOK
  <2>6. counter' = Served' + Cardinality(Waiting') - Handing(t)'
    BY <1>0, <1>w, <2>2, <2>3, <2>4, <2>5 DEF TypeOK
  <2>7. \A x \in Tasks : pc'[x] \notin {"cas", "miss"}
    BY <1>0, <2>2, <2>3 DEF Owners, TypeOK
  <2> QED BY <2>3, <2>6, <2>7 DEF Book
<1>11. ASSUME NEW t \in Tasks, UnlockPop(t) PROVE Book'
  <2>1. t \in Owners /\ Owners = {t} /\ Resetting = {} /\ pc[t] \in {"pop", "spin"}
    BY <1>0, <1>11 DEF UnlockPop, Owners, MutualExclusion, Book
  <2>2. CASE wait_queue = <<>>
    <3>1. /\ pc' = [pc EXCEPT ![t] = "spin"]
          /\ UNCHANGED <<counter, expected_count, reg>>
      BY <1>11, <2>2 DEF UnlockPop
    <3>2. Owners' = Owners /\ Waiting' = Waiting /\ Resetting' = Resetting
      BY <1>0, <2>1, <3>1 DEF TypeOK, Owners, Waiting, Resetting
    <3> QED BY <1>0, <2>1, <3>1, <3>2, SameBook DEF TypeOK
  <2>3. CASE wait_queue # <<>>
    <3>1. PICK u \in Tasks :
             /\ u # t /\ pc[u] = "parked" /\ counter' = counter
             /\ pc' = [pc EXCEPT ![t] = "idle", ![u] = "woken"]
      BY <1>11, <2>3, PopFacts, HasToken
    <3>2. UNCHANGED <<expected_count, reg>>
      BY <1>11 DEF UnlockPop
    <3>3. pc'[u] = "woken" /\ pc'[t] = "idle" /\ \A x \in Tasks \ {t, u} : pc'[x] = pc[x]
      BY <1>0, <3>1 DEF TypeOK
    <3>4. \A x \in Tasks \ {t} : x \notin Owners
      BY <2>1
    <3>5. Owners' = {u}
      BY <3>1, <3>3, <3>4, Zenon DEF Owners
    <3>6. Resetting' = {} /\ Waiting' = Waiting \ {u} /\ u \in Waiting
      BY <2>1, <3>1, <3>3, Zenon DEF Resetting, Waiting
    <3>7. Cardinality(Waiting') = Cardinality(Waiting) - 1
      BY <1>w, <3>6, FS_RemoveElement
    <3>8. counter = expected_count + Cardinality(Waiting) - 1
      BY <1>0, <1>w, <2>1 DEF Book, Served, Handing, TypeOK
    <3>9. Served' = expected_count /\ Handing(u)' = 0
      BY <3>2, <3>3, <3>6 DEF Served, Handing
    <3>10. counter' = Served' + Cardinality(Waiting') - Handing(u)'
      BY <1>0, <1>w, <3>1, <3>7, <3>8, <3>9 DEF TypeOK
    <3>11. \A x \in Tasks : pc'[x] \notin {"cas", "miss", "pop", "spin"}
      BY <3>3, <3>5 DEF Owners
    <3> QED BY <3>5, <3>10, <3>11 DEF Book
  <2> QED BY <2>2, <2>3
<1> QED
  BY <1>1, <1>2, <1>3, <1>4, <1>5, <1>6, <1>7, <1>8, <1>9, <1>10, <1>11, Zenon
     DEF Next, Lock, Unlock

\* As long as no unlock() has read expected_count before an earlier one's reset, nobody
\* waits for a free mutex, and the counter of a taken one says how many wait: the
\* exchange of unlock() then succeeds exactly when there is nobody to hand over to.
THEOREM AccountingCorrect == Spec => []Accounting
<1>1. IInv /\ Bookkept /\ [Next]_vars => Bookkept'
  BY BookStep
<1>2. Bookkept => Accounting
  BY DEF Bookkept, Book, Accounting, Served, Handing, Resetting
<1> QED
  BY Inductive, BookInit, <1>1, <1>2, PTL DEF Spec

-----------------------------------------------------------------------------
(* The CondVar over the mutex *)

Asleep == {t \in Waiters : cv[t] = "asleep"}

\* The states of the mutex a task passes through after its guard is dropped.
Dropping == {"cas", "miss", "pop", "spin", "reset", "idle"}

\* Where a task inside of the CondVar is in the mutex.
Positions ==
    \A t \in Tasks :
        /\ cv[t] \in {"sleep", "asleep", "notified", "subscribe", "subtract", "push"} =>
               pc[t] = "idle"
        /\ cv[t] \in {"unlocking", "notify"} => pc[t] \in Dropping
        /\ cv[t] = "relock" => pc[t] \in {"parked", "woken"}
        /\ cv[t] = "notify" => t \in Notifiers
        /\ cv[t] \notin {"out", "notify"} => t \in Waiters
        /\ t \in Pokers => cv[t] = "out" /\ pc[t] = "idle"

CVInv ==
    /\ CVTypeOK
    /\ Token
    /\ Positions
    /\ Once(cv_queue, Asleep)

\* Once the flag is set and no notify_all() runs, every waiter that is asleep or on
\* its way there was missed: nobody goes to sleep any more.
Missed ==
    ready /\ (\A n \in Notifiers : cv[n] # "notify") =>
        \A t \in Waiters : cv[t] \in {"unlocking", "sleep", "asleep"} => t \in missed

\* At first nobody is in the CondVar.
LEMMA CVInitInv == CVInit => CVInv /\ Missed
<1> SUFFICES ASSUME CVInit PROVE CVInv /\ Missed
  OBVIOUS
<1>1. Init /\ cv_queue = <<>> /\ cv = [t \in Tasks |-> "out"] /\ missed = {}
  BY DEF CVInit
<1>2. Token
  BY <1>1, InitIInv, HasToken
<1>3. ready \in BOOLEAN /\ ~ready
  BY Zenon DEF CVInit
<1>4. expected_count \in Int /\ reg \in [Tasks -> Int]
  BY <1>1 DEF Init
<1>5. cv_queue \in Seq(Waiters) /\ cv \in [Tasks -> CV] /\ missed \subseteq Waiters
  BY <1>1 DEF CV
<1>6. CVTypeOK
  BY <1>2, <1>3, <1>4, <1>5, Zenon DEF CVTypeOK, Token
<1>7. Positions
  BY <1>1 DEF Positions, Init
<1>8. Asleep = {}
  BY <1>1, RolesOfTasks DEF Asleep
<1>9. Once(cv_queue, Asleep)
  BY <1>1, <1>8, OnceEmpty
<1>10. Missed
  BY <1>3, Zenon DEF Missed
<1> QED BY <1>2, <1>6, <1>7, <1>9, <1>10, Zenon DEF CVInv

\* A stuttering step leaves the variables of the CondVar and of the mutex as they are.
LEMMA CVStutter ==
    UNCHANGED cvVars => UNCHANGED vars /\ UNCHANGED <<cv_queue, cv, ready, missed>>
  BY DEF cvVars

\* The types that the invariant gives to the variables.
LEMMA CVTypes ==
    CVInv => /\ counter \in Nat /\ expected_count \in Int /\ wait_queue \in Seq(Tasks)
             /\ pc \in [Tasks -> PC] /\ reg \in [Tasks -> Int]
             /\ cv_queue \in Seq(Waiters) /\ cv \in [Tasks -> CV] /\ missed \subseteq Waiters
  BY Zenon DEF CVInv, CVTypeOK

\* What notify_one() and a round of notify_all() take from the queue of the CondVar.
LEMMA PopAsleepFacts ==
    ASSUME CVInv, NEW t \in Tasks \ Waiters, NEW then \in CV, PopAsleep(t, then)
    PROVE  \E u \in Waiters :
             /\ u \in Tasks /\ u # t /\ cv[u] = "asleep"
             /\ cv' = [cv EXCEPT ![t] = then, ![u] = "notified"]
             /\ cv_queue' \in Seq(Waiters) /\ Once(cv_queue', Asleep \ {u})
             /\ missed' = missed
<1> DEFINE n == Len(cv_queue)
           u == cv_queue[n]
<1>1. cv_queue \in Seq(Waiters) /\ Once(cv_queue, Asleep) /\ cv_queue # <<>>
  BY CVTypes, Zenon DEF CVInv, PopAsleep
<1>2. /\ u \in Asleep /\ u \in Waiters /\ SubSeq(cv_queue, 1, n - 1) \in Seq(Waiters)
      /\ Once(SubSeq(cv_queue, 1, n - 1), Asleep \ {u})
  BY <1>1, OncePop
<1>3. /\ cv' = [cv EXCEPT ![t] = then, ![u] = "notified"]
      /\ cv_queue' = SubSeq(cv_queue, 1, n - 1)
      /\ missed' = missed
  BY DEF PopAsleep
<1> HIDE DEF u, n
<1>4. u \in Tasks /\ u # t /\ cv[u] = "asleep"
  BY <1>2, RolesOfTasks DEF Asleep
<1> QED BY <1>2, <1>3, <1>4, Zenon

\* A task that leaves the queue asleep to be notified was asleep; the one that takes
\* it out is a notifier or a poker.
LEMMA Poppers ==
    ASSUME CVInv, NEW t \in Tasks
    PROVE  cv[t] = "notify" \/ t \in Pokers => t \notin Waiters
  BY RolesOfTasks, Zenon DEF CVInv, Positions

-----------------------------------------------------------------------------
(* The mutex under the CondVar *)

\* Every step keeps the token: notified tasks take the mutex by try_lock(), or enter
\* its queue by low_level_subscribe().
LEMMA CVTokenStep == CVInv /\ [CVNext]_cvVars => Token'
<1> SUFFICES ASSUME CVInv, [CVNext]_cvVars PROVE Token'
  OBVIOUS
<1>0. Token
  BY DEF CVInv
<1>s. ASSUME UNCHANGED <<counter, wait_queue, pc>> PROVE Token'
  BY <1>0, <1>s, TokenSame DEF Token, Owners, Parked
<1>n. ASSUME Next PROVE Token'
  BY <1>0, <1>n, TokenStep
<1>1. CASE UNCHANGED cvVars
  BY <1>1, <1>s, CVStutter, Stutter
<1>2. ASSUME NEW t \in Tasks, CVLock(t) PROVE Token'
  BY <1>2, <1>n, Zenon DEF CVLock, Next, Lock
<1>3. ASSUME NEW t \in Tasks, CVUnlock(t) PROVE Token'
  BY <1>3, <1>n, Zenon DEF CVUnlock, Next, Unlock
<1>4. ASSUME NEW t \in Tasks, Leave(t) \/ CallWait(t) \/ SetReady(t) PROVE Token'
  BY <1>4, <1>n, Zenon DEF Leave, CallWait, SetReady, Next, Unlock
<1>5. ASSUME NEW t \in Tasks, PollLock(t) PROVE Token'
  BY <1>5, <1>n, Zenon DEF PollLock, Next, Lock
<1>6. ASSUME NEW t \in Tasks, PollSleep(t) \/ PushAsleep(t) \/ NotifyAll(t) PROVE Token'
  <2>1. UNCHANGED vars
    BY <1>6, Zenon DEF PollSleep, PushAsleep, NotifyAll, mutexVars
  <2> QED BY <2>1, <1>s, Stutter
<1>7. ASSUME NEW t \in Tasks, SubscribeLoad(t) \/ SubscribeStore(t) \/ NotifyOne(t) PROVE Token'
  <2>1. UNCHANGED <<counter, wait_queue, pc>>
    BY <1>7 DEF SubscribeLoad, SubscribeStore, NotifyOne
  <2> QED BY <2>1, <1>s
<1>8. ASSUME NEW t \in Tasks, PollWake(t) PROVE Token'
  <2>1. pc[t] = "idle" /\ wait_queue' = wait_queue
    BY <1>8 DEF PollWake, CVInv, Positions
  <2>2. CASE counter = 0
    BY <1>0, <1>8, <2>1, <2>2, TokenTaken DEF PollWake
  <2>3. CASE counter # 0
    BY <1>8, <1>s, <2>3 DEF PollWake
  <2> QED BY <2>2, <2>3
<1>9. ASSUME NEW t \in Tasks, SubscribePush(t) PROVE Token'
  <2>1. pc[t] = "idle"
    BY <1>9 DEF SubscribePush, CVInv, Positions
  <2> QED BY <1>0, <1>9, <2>1, TokenParked, Zenon DEF SubscribePush
<1> QED
  BY <1>1, <1>2, <1>3, <1>4, <1>5, <1>6, <1>7, <1>8, <1>9, Zenon DEF CVNext, WaitStep

\* The types of what the mutex counts and of the variables of the CondVar, but for its
\* queue.
LEMMA CVTypeStep ==
    CVInv /\ [CVNext]_cvVars => /\ expected_count' \in Int /\ reg' \in [Tasks -> Int]
                                /\ cv' \in [Tasks -> CV] /\ missed' \subseteq Waiters
<1> SUFFICES ASSUME CVInv, [CVNext]_cvVars
             PROVE  /\ expected_count' \in Int /\ reg' \in [Tasks -> Int]
                    /\ cv' \in [Tasks -> CV] /\ missed' \subseteq Waiters
  OBVIOUS
<1> DEFINE Goal == /\ expected_count' \in Int /\ reg' \in [Tasks -> Int]
                   /\ cv' \in [Tasks -> CV] /\ missed' \subseteq Waiters
<1>0. /\ expected_count \in Int /\ reg \in [Tasks -> Int]
      /\ cv \in [Tasks -> CV] /\ missed \subseteq Waiters
  BY CVTypes
<1>1. CASE UNCHANGED cvVars
  BY <1>0, <1>1, CVStutter, Stutter
<1>2. ASSUME NEW t \in Tasks, CVLock(t) PROVE Goal
  <2>1. UNCHANGED <<cv, missed>> /\ UNCHANGED <<expected_count, reg>>
    BY <1>2 DEF CVLock, LockSpin, LockAdd, Park, LockReady
  <2> QED BY <1>0, <2>1
<1>3. ASSUME NEW t \in Tasks, CVUnlock(t) PROVE Goal
  <2>1. UNCHANGED <<cv, missed>> /\ reg' = reg
    BY <1>3 DEF CVUnlock, UnlockCas, UnlockReset, UnlockCount, UnlockPop
  <2>2. expected_count' \in {expected_count, 1, reg[t] + 1, expected_count + 1}
    BY <1>3 DEF CVUnlock, UnlockCas, UnlockReset, UnlockCount, UnlockPop
  <2>3. reg[t] + 1 \in Int /\ expected_count + 1 \in Int
    BY <1>0
  <2> QED BY <1>0, <2>1, <2>2, <2>3
<1>4. ASSUME NEW t \in Tasks, UnlockLoad(t) PROVE expected_count' \in Int /\ reg' \in [Tasks -> Int]
  BY <1>0, <1>4 DEF UnlockLoad
<1>5. ASSUME NEW t \in Tasks, Leave(t) PROVE Goal
  BY <1>0, <1>4, <1>5 DEF Leave
<1>6. ASSUME NEW t \in Tasks, CallWait(t) PROVE Goal
  <2>1. cv' = [cv EXCEPT ![t] = "unlocking"] /\ missed' = missed /\ UnlockLoad(t)
    BY <1>6 DEF CallWait
  <2> QED BY <1>0, <1>4, <2>1 DEF CV
<1>7. ASSUME NEW t \in Tasks, SetReady(t) PROVE Goal
  <2>1. cv' = [cv EXCEPT ![t] = "notify"] /\ missed' = missed /\ UnlockLoad(t)
    BY <1>7 DEF SetReady
  <2> QED BY <1>0, <1>4, <2>1 DEF CV
<1>8. ASSUME NEW t \in Tasks, PollSleep(t) PROVE Goal
  BY <1>0, <1>8, Stutter DEF PollSleep, mutexVars, CV
<1>9. ASSUME NEW t \in Tasks, PushAsleep(t) PROVE Goal
  BY <1>0, <1>9, Stutter DEF PushAsleep, mutexVars, CV
<1>10. ASSUME NEW t \in Tasks, PollWake(t) PROVE Goal
  <2>1. cv' \in [Tasks -> CV]
    BY <1>0, <1>10 DEF PollWake, CV
  <2> QED BY <1>0, <1>10, <2>1 DEF PollWake
<1>11. ASSUME NEW t \in Tasks, PollLock(t) PROVE Goal
  BY <1>0, <1>11 DEF PollLock, LockReady, CV
<1>12. ASSUME NEW t \in Tasks, SubscribeLoad(t) PROVE Goal
  BY <1>0, <1>12 DEF SubscribeLoad, CV
<1>13. ASSUME NEW t \in Tasks, SubscribeStore(t) PROVE Goal
  BY <1>0, <1>13 DEF SubscribeStore, CV
<1>14. ASSUME NEW t \in Tasks, SubscribePush(t) PROVE Goal
  BY <1>0, <1>14 DEF SubscribePush, CV
<1>15. ASSUME NEW t \in Tasks \ Waiters, NEW then \in CV, PopAsleep(t, then)
       PROVE  cv' \in [Tasks -> CV] /\ missed' \subseteq Waiters
  <2>1. PICK u \in Waiters :
           u \in Tasks /\ cv' = [cv EXCEPT ![t] = then, ![u] = "notified"] /\ missed' = missed
    BY <1>15, PopAsleepFacts, Zenon
  <2>2. "notified" \in CV
    BY DEF CV
  <2> QED BY <1>0, <2>1, <2>2
<1>16. ASSUME NEW t \in Tasks, NotifyAll(t) PROVE Goal
  <2>1. expected_count' = expected_count /\ reg' = reg
    BY <1>16, Stutter, Zenon DEF NotifyAll, mutexVars
  <2>2. "notify" \in CV /\ "out" \in CV /\ t \in Tasks \ Waiters
    BY <1>16, Poppers DEF NotifyAll, CV
  <2>3. CASE PopAsleep(t, "notify")
    BY <1>0, <1>15, <2>1, <2>2, <2>3
  <2>4. CASE ~PopAsleep(t, "notify")
    <3>1. /\ cv' = [cv EXCEPT ![t] = "out"]
          /\ missed' = missed \cup {u \in Waiters : cv[u] \in {"unlocking", "sleep"}}
      BY <1>16, <2>4, Zenon DEF NotifyAll
    <3> QED BY <1>0, <2>1, <2>2, <3>1
  <2> QED BY <2>3, <2>4
<1>17. ASSUME NEW t \in Tasks, NotifyOne(t) PROVE Goal
  <2>1. expected_count' = expected_count /\ reg' = reg
    BY <1>17 DEF NotifyOne
  <2>2. "out" \in CV /\ t \in Tasks \ Waiters
    BY <1>17, Poppers DEF NotifyOne, CV
  <2>3. CASE PopAsleep(t, "out")
    BY <1>0, <1>15, <2>1, <2>2, <2>3
  <2>4. CASE ~PopAsleep(t, "out")
    BY <1>0, <1>17, <2>1, <2>4 DEF NotifyOne
  <2> QED BY <2>3, <2>4
<1> QED
  BY <1>1, <1>2, <1>3, <1>5, <1>6, <1>7, <1>8, <1>9, <1>10, <1>11, <1>12, <1>13, <1>14,
     <1>16, <1>17, Zenon DEF CVNext, WaitStep

-----------------------------------------------------------------------------
(* Inside of the CondVar *)

\* What a step of the mutex does to the places of tasks: t moves on, and a task that is
\* popped from the queue of the mutex is woken.
LEMMA MutexMoves ==
    ASSUME CVInv, NEW t \in Tasks, CVUnlock(t)
    PROVE  /\ pc[t] \in Dropping \ {"idle"} /\ pc'[t] \in Dropping
           /\ \A v \in Tasks \ {t} : pc'[v] = pc[v] \/ (pc[v] = "parked" /\ pc'[v] = "woken")
<1>0. pc \in [Tasks -> PC] /\ Token
  BY CVTypes DEF CVInv
<1>1. CASE UnlockCas(t) \/ UnlockReset(t) \/ UnlockCount(t)
  <2>1. PICK p \in {"reset", "miss", "idle", "pop"} : pc' = [pc EXCEPT ![t] = p]
    BY <1>1 DEF UnlockCas, UnlockReset, UnlockCount
  <2>2. pc[t] \in {"cas", "reset", "miss"}
    BY <1>1 DEF UnlockCas, UnlockReset, UnlockCount
  <2> QED BY <1>0, <2>1, <2>2 DEF Dropping
<1>2. CASE UnlockPop(t)
  <2>1. pc[t] \in {"pop", "spin"}
    BY <1>2 DEF UnlockPop
  <2>2. CASE wait_queue = <<>>
    <3>1. pc' = [pc EXCEPT ![t] = "spin"]
      BY <1>2, <2>2 DEF UnlockPop
    <3> QED BY <1>0, <2>1, <3>1 DEF Dropping
  <2>3. CASE wait_queue # <<>>
    <3>1. PICK u \in Tasks : /\ u # t /\ pc[u] = "parked"
                             /\ pc' = [pc EXCEPT ![t] = "idle", ![u] = "woken"]
      BY <1>0, <1>2, <2>3, PopFacts
    <3> QED BY <1>0, <2>1, <3>1 DEF Dropping
  <2> QED BY <2>2, <2>3
<1> QED BY <1>1, <1>2, Zenon DEF CVUnlock

\* A task goes through wait(), notify_one() and notify_all() in the order of the code,
\* and is in the mutex only where that order has it there.
LEMMA PositionsStep == CVInv /\ [CVNext]_cvVars => Positions'
<1> SUFFICES ASSUME CVInv, [CVNext]_cvVars PROVE Positions'
  OBVIOUS
<1>0. pc \in [Tasks -> PC] /\ cv \in [Tasks -> CV] /\ Positions
  BY CVTypes DEF CVInv
<1> DEFINE At(t, c, p) ==
        /\ c \in {"sleep", "asleep", "notified", "subscribe", "subtract", "push"} =>
               p = "idle"
        /\ c \in {"unlocking", "notify"} => p \in Dropping
        /\ c = "relock" => p \in {"parked", "woken"}
        /\ c = "notify" => t \in Notifiers
        /\ c \notin {"out", "notify"} => t \in Waiters
        /\ t \in Pokers => c = "out" /\ p = "idle"
<1>a. \A v \in Tasks : At(v, cv[v], pc[v])
  BY <1>0, Zenon DEF Positions
<1>b. ASSUME \A v \in Tasks : At(v, cv'[v], pc'[v]) PROVE Positions'
  BY <1>b, Zenon DEF Positions
<1>c. ASSUME NEW t \in Tasks, At(t, cv'[t], pc'[t]),
             \A v \in Tasks \ {t} : cv'[v] = cv[v] /\ pc'[v] = pc[v]
      PROVE  Positions'
  <2> HIDE DEF At
  <2>1. \A v \in Tasks : At(v, cv'[v], pc'[v])
    BY <1>a, <1>c
  <2> QED BY <1>b, <2>1
<1>r. /\ Tasks = Waiters \cup Notifiers \cup Pokers /\ Waiters \cap Notifiers = {}
      /\ Pokers \cap (Waiters \cup Notifiers) = {}
  BY RolesOfTasks
<1> HIDE DEF CVInv
<1>1. CASE UNCHANGED cvVars
  BY <1>0, <1>1, CVStutter, Stutter, Zenon DEF Positions
<1>2. ASSUME NEW t \in Tasks, CVLock(t) PROVE Positions'
  <2>1. CASE cv[t] = "out" /\ (LockSpin(t) \/ LockReady(t))
    <3>1. /\ t \notin Pokers /\ cv' = cv
          /\ pc' = [pc EXCEPT ![t] = "holding"] \/ pc' = [pc EXCEPT ![t] = "slow"]
      BY <1>2, <2>1, <1>r DEF CVLock, LockSpin, LockReady
    <3>2. At(t, cv'[t], pc'[t])
      BY <2>1, <3>1
    <3>3. \A v \in Tasks \ {t} : cv'[v] = cv[v] /\ pc'[v] = pc[v]
      BY <1>0, <3>1
    <3> QED BY <1>c, <3>2, <3>3
  <2>2. CASE LockAdd(t) \/ Park(t)
    <3>1. /\ t \notin Pokers /\ cv' = cv /\ pc[t] \in {"slow", "pending"}
          /\ \E p \in {"holding", "pending", "parked"} : pc' = [pc EXCEPT ![t] = p]
      BY <1>2, <2>2, <1>r DEF CVLock, LockAdd, Park
    <3>2. cv[t] = "out"
      BY <1>0, <1>a, <3>1 DEF CV, Dropping
    <3>3. At(t, cv'[t], pc'[t])
      BY <3>1, <3>2
    <3>4. \A v \in Tasks \ {t} : cv'[v] = cv[v] /\ pc'[v] = pc[v]
      BY <1>0, <3>1
    <3> QED BY <1>c, <3>3, <3>4
  <2> QED BY <1>2, <2>1, <2>2, Zenon DEF CVLock
<1>3. ASSUME NEW t \in Tasks, CVUnlock(t) PROVE Positions'
  <2>1. /\ pc[t] \in Dropping \ {"idle"} /\ pc'[t] \in Dropping
        /\ \A v \in Tasks \ {t} : pc'[v] = pc[v] \/ (pc[v] = "parked" /\ pc'[v] = "woken")
    BY <1>3, MutexMoves
  <2>2. cv' = cv
    BY <1>3 DEF CVUnlock
  <2>3. cv[t] \in {"out", "unlocking", "notify"}
    BY <1>0, <1>a, <2>1 DEF CV, Dropping
  <2>4. At(t, cv'[t], pc'[t])
    BY <1>a, <2>1, <2>2, <2>3 DEF Dropping
  <2>5. ASSUME NEW v \in Tasks \ {t} PROVE At(v, cv'[v], pc'[v])
    <3>1. CASE pc'[v] = pc[v]
      BY <1>a, <2>2, <3>1
    <3>2. CASE pc[v] = "parked" /\ pc'[v] = "woken"
      <4>1. cv[v] \in {"out", "relock"}
        BY <1>0, <1>a, <3>2 DEF CV, Dropping
      <4> QED BY <1>a, <2>2, <3>2, <4>1
    <3> QED BY <2>1, <3>1, <3>2
  <2> QED BY <1>b, <2>4, <2>5
<1>4. ASSUME NEW t \in Tasks, UnlockLoad(t),
             \/ cv[t] = "out" /\ cv' = cv /\ t \in Waiters
             \/ cv' = [cv EXCEPT ![t] = "unlocking"] /\ t \in Waiters
             \/ cv' = [cv EXCEPT ![t] = "notify"] /\ t \in Notifiers
      PROVE  Positions'
  <2>1. pc' = [pc EXCEPT ![t] = "cas"] /\ t \notin Pokers
    BY <1>4, <1>r DEF UnlockLoad
  <2>2. At(t, cv'[t], pc'[t])
    BY <1>0, <1>4, <2>1 DEF Dropping
  <2>3. \A v \in Tasks \ {t} : cv'[v] = cv[v] /\ pc'[v] = pc[v]
    BY <1>0, <1>4, <2>1
  <2> QED BY <1>c, <2>2, <2>3
<1>5. ASSUME NEW t \in Tasks, Leave(t) \/ CallWait(t) \/ SetReady(t) PROVE Positions'
  BY <1>4, <1>5, Zenon DEF Leave, CallWait, SetReady
<1>6. ASSUME NEW t \in Tasks, pc' = pc, pc[t] = "idle", t \in Waiters,
             NEW c \in {"sleep", "asleep", "notified", "subscribe", "subtract", "push"},
             cv' = [cv EXCEPT ![t] = c]
      PROVE  Positions'
  <2>1. At(t, cv'[t], pc'[t])
    BY <1>0, <1>6, <1>r
  <2>2. \A v \in Tasks \ {t} : cv'[v] = cv[v] /\ pc'[v] = pc[v]
    BY <1>0, <1>6
  <2> QED BY <1>c, <2>1, <2>2
<1>7. ASSUME NEW t \in Tasks,
             PollSleep(t) \/ PushAsleep(t) \/ SubscribeLoad(t) \/ SubscribeStore(t)
      PROVE  Positions'
  <2>1. pc' = pc
    BY <1>7, Stutter, Zenon DEF PollSleep, PushAsleep, SubscribeLoad, SubscribeStore, mutexVars
  <2>2. cv[t] \in {"unlocking", "sleep", "subscribe", "subtract"} /\ pc[t] = "idle"
    BY <1>7, <1>a DEF PollSleep, PushAsleep, SubscribeLoad, SubscribeStore
  <2>3. \E c \in {"sleep", "asleep", "subtract", "push"} : cv' = [cv EXCEPT ![t] = c]
    BY <1>7 DEF PollSleep, PushAsleep, SubscribeLoad, SubscribeStore
  <2> QED BY <1>6, <1>a, <2>1, <2>2, <2>3, Zenon
<1>8. ASSUME NEW t \in Tasks, PollWake(t) PROVE Positions'
  <2>1. cv[t] = "notified" /\ pc[t] = "idle" /\ t \in Waiters
    BY <1>8, <1>a DEF PollWake
  <2>2. CASE counter = 0
    <3>1. pc' = [pc EXCEPT ![t] = "holding"] /\ cv' = [cv EXCEPT ![t] = "out"]
      BY <1>8, <2>2 DEF PollWake
    <3>2. At(t, cv'[t], pc'[t])
      BY <1>0, <1>r, <2>1, <3>1
    <3>3. \A v \in Tasks \ {t} : cv'[v] = cv[v] /\ pc'[v] = pc[v]
      BY <1>0, <3>1
    <3> QED BY <1>c, <3>2, <3>3
  <2>3. CASE counter # 0
    BY <1>6, <1>8, <2>1, <2>3 DEF PollWake
  <2> QED BY <2>2, <2>3
<1>9. ASSUME NEW t \in Tasks, SubscribePush(t) PROVE Positions'
  <2>1. /\ cv[t] = "push" /\ pc' = [pc EXCEPT ![t] = "parked"]
        /\ cv' = [cv EXCEPT ![t] = "relock"]
    BY <1>9 DEF SubscribePush
  <2>2. t \in Waiters
    BY <1>a, <2>1
  <2>3. At(t, cv'[t], pc'[t])
    BY <1>0, <1>r, <2>1, <2>2
  <2>4. \A v \in Tasks \ {t} : cv'[v] = cv[v] /\ pc'[v] = pc[v]
    BY <1>0, <2>1
  <2> QED BY <1>c, <2>3, <2>4
<1>10. ASSUME NEW t \in Tasks, PollLock(t) PROVE Positions'
  <2>1. /\ cv[t] = "relock" /\ pc' = [pc EXCEPT ![t] = "holding"]
        /\ cv' = [cv EXCEPT ![t] = "out"]
    BY <1>10 DEF PollLock, LockReady
  <2>2. t \in Waiters
    BY <1>a, <2>1
  <2>3. At(t, cv'[t], pc'[t])
    BY <1>0, <1>r, <2>1, <2>2
  <2>4. \A v \in Tasks \ {t} : cv'[v] = cv[v] /\ pc'[v] = pc[v]
    BY <1>0, <2>1
  <2> QED BY <1>c, <2>3, <2>4
<1>11. ASSUME NEW t \in Tasks \ Waiters, NEW then \in {"out", "notify"}, pc' = pc,
              then = "notify" => cv[t] = "notify", PopAsleep(t, then)
       PROVE  Positions'
  <2>0. then \in CV
    BY DEF CV
  <2>1. PICK u \in Waiters : /\ u \in Tasks /\ u # t /\ cv[u] = "asleep"
                             /\ cv' = [cv EXCEPT ![t] = then, ![u] = "notified"]
    BY <1>11, <2>0, PopAsleepFacts, Zenon
  <2>2. /\ cv'[t] = then /\ cv'[u] = "notified"
        /\ \A v \in Tasks \ {t, u} : cv'[v] = cv[v]
    BY <1>0, <2>1
  <2>3. At(u, cv'[u], pc'[u])
    BY <1>11, <1>a, <2>1, <2>2
  <2>4. At(t, cv'[t], pc'[t])
    BY <1>11, <1>a, <2>2
  <2>5. ASSUME NEW v \in Tasks \ {t, u} PROVE At(v, cv'[v], pc'[v])
    <3>1. cv'[v] = cv[v] /\ pc'[v] = pc[v]
      BY <1>11, <2>2
    <3> QED BY <1>a, <3>1
  <2> QED BY <1>b, <2>3, <2>4, <2>5
<1>12. ASSUME NEW t \in Tasks, NotifyAll(t) PROVE Positions'
  <2>1. pc' = pc /\ cv[t] = "notify" /\ t \in Tasks \ Waiters
    BY <1>12, Poppers, Stutter, Zenon DEF NotifyAll, mutexVars
  <2>2. CASE PopAsleep(t, "notify")
    BY <1>11, <2>1, <2>2
  <2>3. CASE ~PopAsleep(t, "notify")
    <3>1. cv' = [cv EXCEPT ![t] = "out"]
      BY <1>12, <2>3, Zenon DEF NotifyAll
    <3>2. At(t, cv'[t], pc'[t])
      BY <1>0, <1>a, <2>1, <3>1
    <3>3. \A v \in Tasks \ {t} : cv'[v] = cv[v] /\ pc'[v] = pc[v]
      BY <1>0, <2>1, <3>1
    <3> QED BY <1>c, <3>2, <3>3
  <2> QED BY <2>2, <2>3
<1>13. ASSUME NEW t \in Tasks, NotifyOne(t) PROVE Positions'
  <2>1. pc' = pc /\ t \in Pokers /\ t \in Tasks \ Waiters
    BY <1>13, <1>r DEF NotifyOne
  <2>2. CASE PopAsleep(t, "out")
    BY <1>11, <2>1, <2>2
  <2>3. CASE ~PopAsleep(t, "out")
    <3>1. cv' = cv
      BY <1>13, <2>3 DEF NotifyOne
    <3> QED BY <1>0, <2>1, <3>1, Zenon DEF Positions
  <2> QED BY <2>2, <2>3
<1> QED
  BY <1>1, <1>2, <1>3, <1>5, <1>7, <1>8, <1>9, <1>10, <1>12, <1>13, Zenon
     DEF CVNext, WaitStep

\* What a step does to the place of the tasks in the CondVar: a step of one task moves
\* that task on, and leaves the queue of the CondVar alone.
LEMMA OneMoves ==
    ASSUME CVInv, NEW t \in Tasks,
           \/ CVLock(t) \/ CVUnlock(t) \/ Leave(t) \/ CallWait(t) \/ PollSleep(t) \/ PollWake(t)
           \/ SubscribeLoad(t) \/ SubscribeStore(t) \/ SubscribePush(t) \/ PollLock(t)
           \/ SetReady(t)
    PROVE  /\ cv_queue' = cv_queue /\ missed' = missed
           /\ \/ cv' = cv
              \/ \E c \in CV \ {"asleep"} : /\ cv' = [cv EXCEPT ![t] = c]
                                            /\ cv[t] # "asleep" \/ t \notin Waiters
                                            /\ c = "unlocking" => ~ready
                                            /\ c = "sleep" => cv[t] = "unlocking"
<1>1. CASE CVLock(t) \/ CVUnlock(t) \/ Leave(t)
  BY <1>1, Zenon DEF CVLock, CVUnlock, Leave
<1>2. CASE CallWait(t)
  <2>1. /\ cv_queue' = cv_queue /\ missed' = missed /\ cv' = [cv EXCEPT ![t] = "unlocking"]
        /\ cv[t] = "out" /\ ~ready
    BY <1>2, Zenon DEF CallWait
  <2>2. "unlocking" \in CV \ {"asleep"} /\ "out" # "asleep" /\ "unlocking" # "sleep"
    BY DEF CV
  <2> QED BY <2>1, <2>2, Zenon
<1>3. CASE SetReady(t)
  <2>1. /\ cv_queue' = cv_queue /\ missed' = missed /\ cv' = [cv EXCEPT ![t] = "notify"]
        /\ t \notin Waiters
    BY <1>3, RolesOfTasks DEF SetReady
  <2>2. "notify" \in CV \ {"asleep"} /\ "notify" # "unlocking" /\ "notify" # "sleep"
    BY DEF CV
  <2> QED BY <2>1, <2>2, Zenon
<1>4. CASE PollSleep(t)
  BY <1>4, Zenon DEF PollSleep, CV
<1>5. CASE PollWake(t)
  BY <1>5 DEF PollWake, CV
<1>6. CASE SubscribeLoad(t) \/ SubscribeStore(t) \/ SubscribePush(t) \/ PollLock(t)
  BY <1>6 DEF SubscribeLoad, SubscribeStore, SubscribePush, PollLock, CV
<1> QED BY <1>1, <1>2, <1>3, <1>4, <1>5, <1>6

\* The queue of the CondVar holds the tasks that are asleep, each of them once.
LEMMA AsleepStep ==
    CVInv /\ [CVNext]_cvVars => cv_queue' \in Seq(Waiters) /\ Once(cv_queue', Asleep')
<1> SUFFICES ASSUME CVInv, [CVNext]_cvVars
             PROVE  cv_queue' \in Seq(Waiters) /\ Once(cv_queue', Asleep')
  OBVIOUS
<1> DEFINE Goal == cv_queue' \in Seq(Waiters) /\ Once(cv_queue', Asleep')
<1>0. /\ cv_queue \in Seq(Waiters) /\ cv \in [Tasks -> CV] /\ Once(cv_queue, Asleep)
      /\ Waiters \subseteq Tasks
  BY CVTypes, RolesOfTasks DEF CVInv
<1>1. CASE UNCHANGED cvVars
  BY <1>0, <1>1, CVStutter DEF Asleep
<1>2. ASSUME NEW t \in Tasks,
             \/ CVLock(t) \/ CVUnlock(t) \/ Leave(t) \/ CallWait(t) \/ PollSleep(t)
             \/ PollWake(t) \/ SubscribeLoad(t) \/ SubscribeStore(t) \/ SubscribePush(t)
             \/ PollLock(t) \/ SetReady(t)
      PROVE  Goal
  <2>1. /\ cv_queue' = cv_queue
        /\ \/ cv' = cv
           \/ \E c \in CV \ {"asleep"} : /\ cv' = [cv EXCEPT ![t] = c]
                                         /\ cv[t] # "asleep" \/ t \notin Waiters
    BY <1>2, OneMoves
  <2>2. Asleep' = Asleep
    BY <1>0, <2>1 DEF Asleep
  <2> QED BY <1>0, <2>1, <2>2
<1>3. ASSUME NEW t \in Tasks, PushAsleep(t) PROVE Goal
  <2>1. /\ cv[t] = "sleep" /\ cv_queue' = Append(cv_queue, t)
        /\ cv' = [cv EXCEPT ![t] = "asleep"]
    BY <1>3 DEF PushAsleep
  <2>2. t \in Waiters
    BY <2>1 DEF CVInv, Positions
  <2>3. t \notin Asleep /\ Asleep' = Asleep \cup {t}
    BY <1>0, <2>1, <2>2 DEF Asleep
  <2> QED BY <1>0, <2>1, <2>2, <2>3, OnceAppend
<1>4. ASSUME NEW t \in Tasks \ Waiters, NEW then \in CV, PopAsleep(t, then) PROVE Goal
  <2>1. PICK u \in Waiters :
           /\ u \in Tasks /\ u # t /\ cv[u] = "asleep"
           /\ cv' = [cv EXCEPT ![t] = then, ![u] = "notified"]
           /\ cv_queue' \in Seq(Waiters) /\ Once(cv_queue', Asleep \ {u})
    BY <1>4, PopAsleepFacts, Zenon
  <2>2. cv'[u] = "notified" /\ \A v \in Waiters \ {u} : cv'[v] = cv[v]
    BY <1>0, <2>1
  <2>3. Asleep' = Asleep \ {u}
    BY <2>2 DEF Asleep
  <2> QED BY <2>1, <2>3
<1>5. ASSUME NEW t \in Tasks \ Waiters, cv' = [cv EXCEPT ![t] = "out"] \/ cv' = cv,
             cv_queue' = cv_queue
      PROVE  Goal
  <2>1. Asleep' = Asleep
    BY <1>0, <1>5 DEF Asleep
  <2> QED BY <1>0, <1>5, <2>1
<1>6. ASSUME NEW t \in Tasks, NotifyAll(t) PROVE Goal
  <2>1. t \in Tasks \ Waiters /\ "notify" \in CV
    BY <1>6, Poppers DEF NotifyAll, CV
  <2>2. CASE PopAsleep(t, "notify")
    BY <1>4, <2>1, <2>2
  <2>3. CASE ~PopAsleep(t, "notify")
    BY <1>5, <1>6, <2>1, <2>3, Zenon DEF NotifyAll
  <2> QED BY <2>2, <2>3
<1>7. ASSUME NEW t \in Tasks, NotifyOne(t) PROVE Goal
  <2>1. t \in Tasks \ Waiters /\ "out" \in CV
    BY <1>7, Poppers DEF NotifyOne, CV
  <2>2. CASE PopAsleep(t, "out")
    BY <1>4, <2>1, <2>2
  <2>3. CASE ~PopAsleep(t, "out")
    <3>1. cv' = cv /\ cv_queue' = cv_queue
      BY <1>7, <2>3 DEF NotifyOne
    <3> QED BY <1>5, <2>1, <3>1
  <2> QED BY <2>2, <2>3
<1> QED
  BY <1>1, <1>2, <1>3, <1>6, <1>7, Zenon DEF CVNext, WaitStep

\* The flag is a Boolean, and is never taken back.
LEMMA ReadyStep == ready \in BOOLEAN /\ [CVNext]_cvVars => ready' \in BOOLEAN /\ (ready => ready')
<1> SUFFICES ASSUME ready \in BOOLEAN, [CVNext]_cvVars
             PROVE  ready' \in BOOLEAN /\ (ready => ready')
  OBVIOUS
<1>1. ready' = ready \/ ready' = TRUE
  <2>1. CASE UNCHANGED cvVars
    BY <2>1, CVStutter
  <2>2. ASSUME NEW t \in Tasks, CVLock(t) \/ CVUnlock(t) \/ Leave(t) \/ CallWait(t) PROVE ready' = ready
    BY <2>2, Zenon DEF CVLock, CVUnlock, Leave, CallWait
  <2>3. ASSUME NEW t \in Tasks, WaitStep(t) PROVE ready' = ready
    BY <2>3, Zenon DEF WaitStep, PollSleep, PushAsleep, PollWake, PollLock, SubscribeLoad,
                       SubscribeStore, SubscribePush
  <2>4. ASSUME NEW t \in Tasks, NotifyAll(t) \/ NotifyOne(t) PROVE ready' = ready
    BY <2>4, Zenon DEF NotifyAll, NotifyOne
  <2>5. ASSUME NEW t \in Tasks, SetReady(t) PROVE ready' = TRUE
    BY <2>5, Zenon DEF SetReady
  <2> QED BY <2>1, <2>2, <2>3, <2>4, <2>5, Zenon DEF CVNext
<1> QED BY <1>1, Zenon

\* Nobody falls asleep unnoticed: once the flag is set no task begins to wait, and the
\* end of a notify_all() has seen everybody who was on the way.
LEMMA MissedStep == CVInv /\ Missed /\ [CVNext]_cvVars => Missed'
<1> DEFINE Away == {"unlocking", "sleep", "asleep"}
<1> SUFFICES ASSUME CVInv, Missed, [CVNext]_cvVars, ready', NEW w \in Waiters,
                    \A n \in Notifiers : cv'[n] # "notify", cv'[w] \in Away
             PROVE  w \in missed'
  BY Zenon DEF Missed
<1>0. /\ cv \in [Tasks -> CV] /\ Waiters \subseteq Tasks /\ Notifiers \subseteq Tasks
      /\ Waiters \cap Notifiers = {}
  BY CVTypes, RolesOfTasks
<1>r. ready \in BOOLEAN
  BY Zenon DEF CVInv, CVTypeOK
\* Unless a notifier moves, the waiters that are away were so before.
<1>m. ASSUME ready, missed' = missed, cv[w] \in Away,
             \A n \in Notifiers : cv[n] # "notify"
      PROVE  w \in missed'
  BY <1>m, Zenon DEF Missed
<1>1. CASE UNCHANGED cvVars
  BY <1>1, <1>m, CVStutter, Zenon
<1>2. ASSUME NEW t \in Tasks,
             \/ CVLock(t) \/ CVUnlock(t) \/ Leave(t) \/ CallWait(t) \/ PollSleep(t)
             \/ PollWake(t) \/ SubscribeLoad(t) \/ SubscribeStore(t) \/ SubscribePush(t)
             \/ PollLock(t)
      PROVE  w \in missed'
  <2>1. ready' = ready
    BY <1>2, Zenon DEF CVLock, CVUnlock, Leave, CallWait, PollSleep, PollWake, SubscribeLoad,
                       SubscribeStore, SubscribePush, PollLock
  <2>2. ready
    BY <2>1, Zenon
  <2>3. /\ missed' = missed
        /\ \/ cv' = cv
           \/ \E c \in CV \ {"asleep"} : /\ cv' = [cv EXCEPT ![t] = c]
                                         /\ c = "unlocking" => ~ready
                                         /\ c = "sleep" => cv[t] = "unlocking"
    BY <1>2, OneMoves, Zenon
  <2>4. CASE cv' = cv
    BY <1>m, <2>2, <2>3, <2>4, Zenon
  <2>5. CASE cv' # cv
    <3>1. PICK c \in CV \ {"asleep"} : /\ cv' = [cv EXCEPT ![t] = c]
                                       /\ c # "unlocking"
                                       /\ c = "sleep" => cv[t] = "unlocking"
      BY <2>2, <2>3, <2>5, Zenon
    <3>2. cv[w] \in Away
      BY <1>0, <3>1
    <3>3. t \in Waiters \/ cv' = cv \/ cv[t] = "out"
      BY <1>2, Zenon DEF CVLock, CVUnlock, Leave, CallWait, PollSleep, PollWake, SubscribeLoad,
                       SubscribeStore, SubscribePush, PollLock, CVInv, Positions
    <3>4. \A n \in Notifiers : cv[n] # "notify"
      BY <1>0, <2>5, <3>1, <3>3
    <3> QED BY <1>m, <2>2, <2>3, <3>2, <3>4, Zenon
  <2> QED BY <2>4, <2>5
<1>3. ASSUME NEW t \in Tasks, SetReady(t) PROVE FALSE
  <2>1. cv' = [cv EXCEPT ![t] = "notify"] /\ t \in Notifiers
    BY <1>3, Zenon DEF SetReady
  <2> QED BY <1>0, <2>1
<1>4. ASSUME NEW t \in Tasks, PushAsleep(t) PROVE w \in missed'
  <2>1. /\ cv[t] = "sleep" /\ cv' = [cv EXCEPT ![t] = "asleep"]
        /\ missed' = missed
    BY <1>4 DEF PushAsleep
  <2>2. ready' = ready
    BY <1>4, Zenon DEF PushAsleep
  <2>3. cv[w] \in Away /\ \A n \in Notifiers : cv[n] # "notify"
    BY <1>0, <2>1
  <2> QED BY <1>m, <2>1, <2>2, <2>3, Zenon
<1>5. ASSUME NEW t \in Tasks \ Waiters, NEW then \in CV, PopAsleep(t, then), ready' = ready,
             then = "notify" \/ t \in Pokers, then = "notify" => t \in Notifiers
      PROVE  w \in missed'
  <2>1. PICK u \in Waiters : /\ u \in Tasks /\ u # t /\ cv[u] = "asleep" /\ missed' = missed
                             /\ cv' = [cv EXCEPT ![t] = then, ![u] = "notified"]
    BY <1>5, PopAsleepFacts, Zenon
  <2>2. then # "notify" /\ t \in Pokers
    BY <1>0, <1>5, <2>1
  <2>3. t \notin Notifiers
    BY <2>2, RolesOfTasks
  <2>4. \A n \in Notifiers : cv[n] # "notify"
    <3> TAKE n \in Notifiers
    <3>1. n \in Tasks /\ n # t /\ n # u
      BY <1>0, <2>3
    <3>2. cv'[n] = cv[n]
      BY <1>0, <2>1, <3>1
    <3> QED BY <3>2
  <2>5. cv[w] \in Away
    BY <1>0, <2>1
  <2> QED BY <1>m, <1>5, <2>1, <2>4, <2>5, Zenon
<1>6. ASSUME NEW t \in Tasks, NotifyAll(t) PROVE w \in missed'
  <2>1. t \in Tasks \ Waiters /\ "notify" \in CV /\ cv[t] = "notify" /\ t \in Notifiers
    BY <1>6, Poppers DEF NotifyAll, CV, CVInv, Positions
  <2>2. CASE PopAsleep(t, "notify")
    <3>1. ready' = ready
      BY <1>6, Zenon DEF NotifyAll
    <3> QED BY <1>5, <2>1, <2>2, <3>1, Zenon
  <2>3. CASE ~PopAsleep(t, "notify")
    <3>1. /\ cv_queue = <<>> /\ cv' = [cv EXCEPT ![t] = "out"]
          /\ missed' = missed \cup {u \in Waiters : cv[u] \in {"unlocking", "sleep"}}
      BY <1>6, <2>3, Zenon DEF NotifyAll
    <3>2. Asleep = {}
      BY <3>1, OnceEmpty DEF CVInv
    <3>3. cv[w] # "asleep"
      BY <3>2 DEF Asleep
    <3>4. cv[w] = cv'[w]
      BY <1>0, <2>1, <3>1
    <3> QED BY <3>1, <3>3, <3>4
  <2> QED BY <2>2, <2>3
<1>7. ASSUME NEW t \in Tasks, NotifyOne(t) PROVE w \in missed'
  <2>1. t \in Tasks \ Waiters /\ "out" \in CV /\ t \in Pokers
    BY <1>7, Poppers DEF NotifyOne, CV
  <2>2. ready' = ready
    BY <1>7, Zenon DEF NotifyOne
  <2>3. CASE PopAsleep(t, "out")
    BY <1>5, <2>1, <2>2, <2>3, Zenon
  <2>4. CASE ~PopAsleep(t, "out")
    <3>1. cv' = cv /\ missed' = missed
      BY <1>7, <2>4 DEF NotifyOne
    <3> QED BY <1>m, <2>2, <3>1, Zenon
  <2> QED BY <2>3, <2>4
<1> QED
  BY <1>1, <1>2, <1>3, <1>4, <1>6, <1>7, Zenon DEF CVNext, WaitStep

-----------------------------------------------------------------------------
(* The invariant and what follows from it *)

\* The invariant is inductive.
LEMMA CVInductive == CVSpec => [](CVInv /\ Missed)
<1>1. ASSUME CVInv, [CVNext]_cvVars PROVE CVInv'
  <2>1. Token' /\ Positions'
    BY <1>1, CVTokenStep, PositionsStep
  <2>2. /\ expected_count' \in Int /\ reg' \in [Tasks -> Int]
        /\ cv' \in [Tasks -> CV] /\ missed' \subseteq Waiters
    BY <1>1, CVTypeStep
  <2>3. cv_queue' \in Seq(Waiters) /\ Once(cv_queue', Asleep')
    BY <1>1, AsleepStep
  <2>4. ready' \in BOOLEAN
    BY <1>1, ReadyStep, Zenon DEF CVInv, CVTypeOK
  <2>5. CVTypeOK'
    BY <2>1, <2>2, <2>3, <2>4, Zenon DEF CVTypeOK, Token
  <2> QED BY <2>1, <2>3, <2>5, Zenon DEF CVInv
<1>2. CVInv /\ Missed /\ [CVNext]_cvVars => (CVInv /\ Missed)'
  BY <1>1, MissedStep, Zenon
<1> QED BY CVInitInv, <1>2, PTL DEF CVSpec

\* The mutex under a CondVar stays a mutex, for any number of waiters, notifiers and
\* pokers: one guard at most, and every task in one queue at most, although notified
\* tasks enter its queue without being counted and write expected_count without a lock.
THEOREM MutexUnderCondVar == CVSpec => []MutexStaysSound
<1>1. ASSUME CVInv PROVE MutexStaysSound
  <2>1. CVTypeOK /\ MutualExclusion /\ QueueIsParked
    BY <1>1, Zenon DEF CVInv, Token
  <2>2. \A t \in Tasks : cv[t] = "asleep" => pc[t] = "idle"
    BY <1>1, Zenon DEF CVInv, Positions
  <2>3. /\ \A t \in Waiters :
              (cv[t] = "asleep") <=> (\E i \in DOMAIN cv_queue : cv_queue[i] = t)
        /\ \A i, j \in DOMAIN cv_queue : cv_queue[i] = cv_queue[j] => i = j
    BY <1>1, Zenon DEF CVInv, Once, Asleep
  <2> QED BY <2>1, <2>2, <2>3, Zenon DEF MutexStaysSound, OneQueue
<1> QED BY CVInductive, <1>1, PTL

\* A task left asleep when the flag is set and every notify_all() has ended was on its
\* way to the queue when one of them ended: the loop of notify_all() forgets nobody who
\* is in the queue.
THEOREM NotifyAllCorrect == CVSpec => []AsleepWereMissed
<1>1. Missed => AsleepWereMissed
  BY Zenon DEF Missed, AsleepWereMissed
<1> QED BY CVInductive, <1>1, PTL

=============================================================================
