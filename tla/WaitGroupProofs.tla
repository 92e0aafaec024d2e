-------------------------- MODULE WaitGroupProofs --------------------------
(***************************************************************************)
(* Proofs about the shared WaitGroup for any finite sets of waits and       *)
(* workers and any number of uses of the group.  NoLostWaiter is proved by  *)
(* counting: a task enters the list together with a handle_call that has    *)
(* still to look, and a handle_call that pops takes one task out.           *)
(* WaitsForWork is proved from what a wake-up under way says about the      *)
(* work: without early work, nobody is working.                             *)
(***************************************************************************)
EXTENDS WaitGroup, FiniteSetTheorems, SequenceTheorems, TLAPS

\* The handle_calls that have still to look at the counter or to pop.
Handlers == {f \in Waits : handler[f] # "none"}

\* A handle_call begins with the push of its task.
HandlersPushed == \A f \in Waits : handler[f] # "none" => wait[f] \notin {"new", "pending"}

\* What a wait() still waits for is being worked on.
OwedIsWork == \A f \in Waits : owed[f] \subseteq Working

\* A wake-up under way has seen the end of all work, unless work was added since.
NobodyWorks == early = {} /\ Drainers \cup Poppers # {} => Working = {}

IInv ==
    /\ TypeOK /\ ListIsParked /\ CounterIsWork
    /\ HandlersPushed /\ OwedIsWork /\ NobodyWorks
    /\ NoLostWaiter /\ WaitsForWork

\* Sets of workers and of waits are finite and can be counted.
LEMMA Counted ==
    /\ IsFiniteSet(Working) /\ Cardinality(Working) \in Nat
    /\ IsFiniteSet(Handlers) /\ Cardinality(Handlers) \in Nat
<1>1. Working \in SUBSET Workers /\ Handlers \in SUBSET Waits
  BY DEF Working, Handlers
<1>2. IsFiniteSet(Working) /\ IsFiniteSet(Handlers)
  BY <1>1, WorkersFinite, WaitsFinite, FS_Subset
<1> QED
  BY <1>2, FS_CardinalityType

\* A new group is empty and satisfies the invariant.
LEMMA InitIInv == Init => IInv
<1> SUFFICES ASSUME Init PROVE IInv
  OBVIOUS
<1>1. TypeOK
  BY MaxAddsNat DEF Init, TypeOK
<1>2. ListIsParked
  BY DEF Init, ListIsParked
<1>3. Working = {} /\ Drainers = {} /\ Poppers = {}
  BY DEF Init, Working, Drainers, Poppers
<1>4. CounterIsWork
  BY <1>3, FS_EmptySet DEF Init, CounterIsWork
<1>5. HandlersPushed /\ OwedIsWork /\ NobodyWorks
  BY <1>3 DEF Init, HandlersPushed, OwedIsWork, NobodyWorks
<1>6. NoLostWaiter
  <2>1. Len(waited_tasks) = 0
    BY DEF Init
  <2> QED BY <2>1, Counted DEF NoLostWaiter, Handlers
<1>7. WaitsForWork
  BY DEF Init, WaitsForWork
<1> QED
  BY <1>1, <1>2, <1>4, <1>5, <1>6, <1>7 DEF IInv

\* A stuttering step leaves every variable as it is.
LEMMA Stutter ==
    UNCHANGED vars => UNCHANGED <<counter, waited_tasks, wait, handler>>
                      /\ UNCHANGED <<work, adds, owed, early>>
  BY DEF vars

\* The task popped by handle_call is parked, and the rest of the list is as it was.
LEMMA PopFacts ==
    ASSUME TypeOK, ListIsParked, NEW f \in Waits, Pop(f), waited_tasks # <<>>
    PROVE  LET n == Len(waited_tasks)
               u == waited_tasks[n]
           IN /\ n \in Nat /\ n > 0 /\ u \in Waits /\ wait[u] = "parked"
              /\ wait' = [wait EXCEPT ![u] = "woken"]
              /\ waited_tasks' = SubSeq(waited_tasks, 1, n - 1)
              /\ waited_tasks' \in Seq(Waits) /\ Len(waited_tasks') = n - 1
<1> DEFINE n == Len(waited_tasks)
           u == waited_tasks[n]
<1>1. n \in Nat /\ n > 0 /\ n \in DOMAIN waited_tasks /\ u \in Waits
  BY DEF TypeOK
<1>2. wait[u] = "parked"
  BY <1>1 DEF ListIsParked
<1>3. /\ wait' = [wait EXCEPT ![u] = "woken"]
      /\ waited_tasks' = SubSeq(waited_tasks, 1, n - 1)
  BY DEF Pop
<1>4. SubSeq(waited_tasks, 1, n - 1) \in Seq(Waits)
  BY <1>1 DEF TypeOK
<1>5. Len(SubSeq(waited_tasks, 1, n - 1)) = n - 1
  <2>1. \A i \in 1 .. (n - 1) : waited_tasks[i] \in Waits
    BY <1>1 DEF TypeOK
  <2> HIDE DEF n
  <2>2. n - 1 \in Int /\ 1 \in Int /\ (1 <= n - 1 \/ n - 1 = 0)
    BY <1>1
  <2> QED BY <2>1, <2>2, SubSeqProperties
<1> QED
  BY <1>1, <1>2, <1>3, <1>4, <1>5

\* A worker that calls done() is counted, and afterwards it is not.
LEMMA DoneFacts ==
    ASSUME TypeOK, CounterIsWork, NEW w \in Workers, Done(w)
    PROVE  /\ w \in Working /\ Working' = Working \ {w}
           /\ Cardinality(Working') = Cardinality(Working) - 1
           /\ counter > 0 /\ counter' = counter - 1
<1>1. w \in Working /\ Working' = Working \ {w}
  BY DEF Done, Working, TypeOK
<1>2. Cardinality(Working') = Cardinality(Working) - 1
  BY <1>1, Counted, FS_RemoveElement
<1>3. counter > 0
  BY <1>1, Counted, FS_EmptySet DEF CounterIsWork
<1> QED
  BY <1>1, <1>2, <1>3 DEF Done

\* The workers of add() were not counted before and are counted afterwards.
LEMMA AddFacts ==
    ASSUME TypeOK, CounterIsWork, NEW S \in SUBSET Workers, Add(S)
    PROVE  /\ Working' = Working \cup S /\ Cardinality(S) \in Nat /\ Cardinality(S) > 0
           /\ Cardinality(Working') = Cardinality(Working) + Cardinality(S)
           /\ Drainers' = Drainers /\ Poppers' = Poppers
<1>1. Working' = Working \cup S /\ Working \cap S = {}
  BY DEF Add, Working, TypeOK
<1>2. IsFiniteSet(S)
  BY WorkersFinite, FS_Subset
<1>3. Cardinality(S) \in Nat /\ Cardinality(S) > 0
  BY <1>2, FS_CardinalityType, FS_EmptySet DEF Add
<1>4. Cardinality(Working') = Cardinality(Working) + Cardinality(S)
  <2>1. Cardinality(Working \cup S)
          = Cardinality(Working) + Cardinality(S) - Cardinality(Working \cap S)
    BY <1>2, Counted, FS_Union
  <2>2. Cardinality(Working') = Cardinality(Working \cup S)
    BY <1>1
  <2>3. Cardinality(Working \cap S) = 0
    BY <1>1, FS_EmptySet
  <2> QED BY <1>3, <2>1, <2>2, <2>3, Counted
<1>5. Drainers' = Drainers /\ Poppers' = Poppers
  BY DEF Add, Drainers, Poppers, TypeOK
<1> QED
  BY <1>1, <1>3, <1>4, <1>5

\* Every field keeps its type.
LEMMA TypeStep == IInv /\ [Next]_vars => TypeOK'
<1> SUFFICES ASSUME IInv, [Next]_vars PROVE TypeOK'
  OBVIOUS
<1>0. TypeOK /\ ListIsParked /\ CounterIsWork
  BY DEF IInv
<1> USE <1>0 DEF TypeOK
<1>1. CASE UNCHANGED vars
  BY <1>1, Stutter
<1>2. ASSUME NEW f \in Waits, Wait(f) PROVE TypeOK'
  BY <1>2 DEF Wait, Working
<1>3. ASSUME NEW f \in Waits, Push(f) PROVE TypeOK'
  BY <1>3 DEF Push
<1>4. ASSUME NEW f \in Waits, Check(f) PROVE TypeOK'
  <2>1. handler' \in [Waits -> {"none", "check", "pop"}]
    BY <1>4 DEF Check
  <2> QED BY <1>4, <2>1 DEF Check
<1>5. ASSUME NEW f \in Waits, Pop(f) PROVE TypeOK'
  <2>1. CASE waited_tasks = <<>>
    BY <1>5, <2>1 DEF Pop
  <2>2. CASE waited_tasks # <<>>
    <3>1. waited_tasks' \in Seq(Waits)
          /\ wait' \in [Waits -> {"new", "pending", "parked", "woken", "returned"}]
      BY <1>5, <2>2, PopFacts
    <3> QED BY <1>5, <3>1 DEF Pop
  <2> QED BY <2>1, <2>2
<1>6. ASSUME NEW f \in Waits, Return(f) PROVE TypeOK'
  BY <1>6 DEF Return
<1>7. ASSUME NEW S \in SUBSET Workers, Add(S) PROVE TypeOK'
  <2>1. counter' \in Nat
    <3>1. Cardinality(S) \in Nat
      BY <1>7, AddFacts
    <3> QED BY <1>7, <3>1 DEF Add
  <2>2. /\ work' \in [Workers -> {"idle", "working", "last"}]
        /\ adds' \in [Workers -> Nat] /\ early' \subseteq Workers
    BY <1>7 DEF Add
  <2> QED BY <1>7, <2>1, <2>2 DEF Add
<1>8. ASSUME NEW w \in Workers, Done(w) PROVE TypeOK'
  <2>1. counter' \in Nat
    <3>1. counter > 0 /\ counter' = counter - 1
      BY <1>8, DoneFacts
    <3> QED BY <3>1
  <2>2. /\ work' \in [Workers -> {"idle", "working", "last"}]
        /\ owed' \in [Waits -> SUBSET Workers]
    BY <1>8 DEF Done
  <2> QED BY <1>8, <2>1, <2>2 DEF Done
<1>9. ASSUME NEW w \in Workers, WakeAll(w) PROVE TypeOK'
  BY <1>9 DEF WakeAll
<1> QED
  BY <1>1, <1>2, <1>3, <1>4, <1>5, <1>6, <1>7, <1>8, <1>9 DEF Next, HandleCall

\* Only handle_call's push and the pops change the list, and each moves tasks in or
\* out of the parked state along with it.
LEMMA ListStep == IInv /\ [Next]_vars => ListIsParked'
<1> SUFFICES ASSUME IInv, [Next]_vars PROVE ListIsParked'
  OBVIOUS
<1>0. TypeOK /\ ListIsParked
  BY DEF IInv
<1>1. ASSUME waited_tasks' = waited_tasks,
             \A f \in Waits : (wait'[f] = "parked") <=> (wait[f] = "parked")
      PROVE  ListIsParked'
  BY <1>0, <1>1 DEF ListIsParked
<1>2. CASE UNCHANGED vars
  BY <1>1, <1>2, Stutter
<1>3. ASSUME NEW f \in Waits, Wait(f) \/ Check(f) \/ Return(f) PROVE ListIsParked'
  BY <1>0, <1>1, <1>3 DEF Wait, Check, Return, TypeOK
<1>4. ASSUME NEW f \in Waits, Push(f) PROVE ListIsParked'
  <2> DEFINE n == Len(waited_tasks)
  <2>1. /\ n \in Nat
        /\ DOMAIN waited_tasks = 1 .. n
        /\ DOMAIN waited_tasks' = 1 .. (n + 1)
        /\ waited_tasks'[n + 1] = f
        /\ \A i \in 1 .. n : waited_tasks'[i] = waited_tasks[i]
    BY <1>0, <1>4 DEF Push, TypeOK
  <2>2. /\ wait[f] # "parked" /\ wait'[f] = "parked"
        /\ \A g \in Waits \ {f} : wait'[g] = wait[g]
    BY <1>0, <1>4 DEF Push, TypeOK
  <2> HIDE DEF n
  <2>3. \A i \in 1 .. n : waited_tasks[i] # f
    BY <1>0, <2>1, <2>2 DEF ListIsParked
  <2>4. \A i \in 1 .. (n + 1) : i \in 1 .. n \/ i = n + 1
    BY <2>1
  <2>5. ASSUME NEW g \in Waits
        PROVE  (wait'[g] = "parked") <=> (\E i \in 1 .. (n + 1) : waited_tasks'[i] = g)
    <3>1. CASE g = f
      BY <2>1, <2>2, <3>1
    <3>2. CASE g # f
      <4>1. (wait[g] = "parked") <=> (\E i \in 1 .. n : waited_tasks[i] = g)
        BY <1>0, <2>1 DEF ListIsParked
      <4> QED BY <2>1, <2>2, <2>4, <3>2, <4>1
    <3> QED BY <3>1, <3>2
  <2>6. \A i, j \in 1 .. (n + 1) : waited_tasks'[i] = waited_tasks'[j] => i = j
    <3>1. \A i, j \in 1 .. n : waited_tasks[i] = waited_tasks[j] => i = j
      BY <1>0, <2>1, Zenon DEF ListIsParked
    <3> QED BY <2>1, <2>3, <2>4, <3>1, Zenon
  <2> QED BY <2>1, <2>5, <2>6 DEF ListIsParked
<1>5. ASSUME NEW f \in Waits, Pop(f) PROVE ListIsParked'
  <2>1. CASE waited_tasks = <<>>
    BY <1>1, <1>5, <2>1 DEF Pop
  <2>2. CASE waited_tasks # <<>>
    <3> DEFINE n == Len(waited_tasks)
               u == waited_tasks[n]
    <3>1. /\ n \in Nat /\ n > 0 /\ u \in Waits /\ wait[u] = "parked"
          /\ wait' = [wait EXCEPT ![u] = "woken"]
          /\ waited_tasks' = SubSeq(waited_tasks, 1, n - 1)
      BY <1>0, <1>5, <2>2, PopFacts
    <3>2. /\ DOMAIN waited_tasks = 1 .. n
          /\ DOMAIN waited_tasks' = 1 .. (n - 1)
          /\ \A i \in 1 .. (n - 1) : waited_tasks'[i] = waited_tasks[i]
      BY <1>0, <3>1 DEF TypeOK
    <3>3. wait'[u] # "parked" /\ \A g \in Waits \ {u} : wait'[g] = wait[g]
      BY <1>0, <3>1 DEF TypeOK
    <3>4. waited_tasks[n] = u
      OBVIOUS
    <3>5. /\ \A i, j \in 1 .. n : waited_tasks[i] = waited_tasks[j] => i = j
          /\ \A g \in Waits : (wait[g] = "parked") <=> (\E i \in 1 .. n : waited_tasks[i] = g)
      BY <1>0, <3>2, Zenon DEF ListIsParked
    <3> HIDE DEF n, u
    <3>6. /\ \A i \in 1 .. n : i \in 1 .. (n - 1) \/ i = n
          /\ \A i \in 1 .. (n - 1) : i \in 1 .. n /\ n \in 1 .. n /\ i # n
      BY <3>1
    <3>7. \A i \in 1 .. (n - 1) : waited_tasks[i] # u
      BY <3>4, <3>5, <3>6, Zenon
    <3>8. ASSUME NEW i \in 1 .. (n - 1), NEW j \in 1 .. (n - 1),
                 waited_tasks'[i] = waited_tasks'[j]
          PROVE  i = j
      <4>1. waited_tasks[i] = waited_tasks[j]
        BY <3>2, <3>8, Zenon
      <4>2. i \in 1 .. n /\ j \in 1 .. n
        BY <3>6, Zenon
      <4> QED BY <3>5, <4>1, <4>2, Zenon
    <3>9. ASSUME NEW g \in Waits
          PROVE  (wait'[g] = "parked") <=> (\E i \in 1 .. (n - 1) : waited_tasks'[i] = g)
      <4>1. CASE g = u
        BY <3>2, <3>3, <3>7, <4>1
      <4>2. CASE g # u
        <5>1. (wait'[g] = "parked") <=> (\E i \in 1 .. n : waited_tasks[i] = g)
          BY <3>3, <3>5, <4>2
        <5> QED BY <3>2, <3>4, <3>6, <4>2, <5>1
      <4> QED BY <4>1, <4>2
    <3> QED BY <3>2, <3>8, <3>9 DEF ListIsParked
  <2> QED BY <2>1, <2>2
<1>6. ASSUME NEW S \in SUBSET Workers, Add(S) PROVE ListIsParked'
  BY <1>1, <1>6 DEF Add
<1>7. ASSUME NEW w \in Workers, Done(w) PROVE ListIsParked'
  BY <1>1, <1>7 DEF Done
<1>8. ASSUME NEW w \in Workers, WakeAll(w) PROVE ListIsParked'
  <2>1. DOMAIN waited_tasks' = {} /\ \A f \in Waits : wait'[f] # "parked"
    BY <1>0, <1>8 DEF WakeAll, ListIsParked, TypeOK
  <2> QED BY <2>1 DEF ListIsParked
<1> QED
  BY <1>2, <1>3, <1>4, <1>5, <1>6, <1>7, <1>8 DEF Next, HandleCall

\* add() counts the workers it gives work to, done() the one that calls it, and the
\* work a wait() was called for is among the work that is counted.
LEMMA WorkStep == IInv /\ [Next]_vars => CounterIsWork' /\ OwedIsWork'
<1> SUFFICES ASSUME IInv, [Next]_vars PROVE CounterIsWork' /\ OwedIsWork'
  OBVIOUS
<1>0. TypeOK /\ CounterIsWork /\ OwedIsWork
  BY DEF IInv
<1>1. ASSUME counter' = counter, Working' = Working, owed' = owed
      PROVE  CounterIsWork' /\ OwedIsWork'
  BY <1>0, <1>1 DEF CounterIsWork, OwedIsWork
<1>2. CASE UNCHANGED vars
  BY <1>1, <1>2, Stutter DEF Working
<1>3. ASSUME NEW f \in Waits, Wait(f) PROVE CounterIsWork' /\ OwedIsWork'
  <2>1. counter' = counter /\ Working' = Working
    BY <1>3 DEF Wait, Working
  <2>2. owed' = [owed EXCEPT ![f] = Working]
    BY <1>3 DEF Wait
  <2> QED BY <1>0, <2>1, <2>2 DEF CounterIsWork, OwedIsWork, TypeOK
<1>4. ASSUME NEW f \in Waits, HandleCall(f) \/ Return(f) PROVE CounterIsWork' /\ OwedIsWork'
  BY <1>1, <1>4 DEF HandleCall, Push, Check, Pop, Return, Working
<1>5. ASSUME NEW S \in SUBSET Workers, Add(S) PROVE CounterIsWork' /\ OwedIsWork'
  <2>1. CounterIsWork'
    BY <1>0, <1>5, AddFacts DEF Add, CounterIsWork
  <2>2. OwedIsWork'
    BY <1>0, <1>5, AddFacts DEF Add, OwedIsWork
  <2> QED BY <2>1, <2>2
<1>6. ASSUME NEW w \in Workers, Done(w) PROVE CounterIsWork' /\ OwedIsWork'
  <2>1. Working' = Working \ {w} /\ CounterIsWork'
    BY <1>0, <1>6, DoneFacts DEF CounterIsWork
  <2>2. \A f \in Waits : owed'[f] = owed[f] \ {w}
    BY <1>6 DEF Done
  <2> QED BY <1>0, <2>1, <2>2 DEF OwedIsWork
<1>7. ASSUME NEW w \in Workers, WakeAll(w) PROVE CounterIsWork' /\ OwedIsWork'
  <2>1. Working' = Working
    BY <1>0, <1>7 DEF WakeAll, Working, TypeOK
  <2> QED BY <1>1, <1>7, <2>1 DEF WakeAll
<1> QED
  BY <1>2, <1>3, <1>4, <1>5, <1>6, <1>7 DEF Next

\* A wake-up begins when the counter is seen at 0, by handle_call or by done(), and
\* work that is added before it has popped is early.
LEMMA WakeUpStep == IInv /\ [Next]_vars => NobodyWorks'
<1> SUFFICES ASSUME IInv, [Next]_vars PROVE NobodyWorks'
  OBVIOUS
<1>0. TypeOK /\ CounterIsWork /\ NobodyWorks
  BY DEF IInv
<1>1. ASSUME early' = early, Working' = Working, Drainers' \subseteq Drainers, Poppers' \subseteq Poppers
      PROVE  NobodyWorks'
  BY <1>0, <1>1 DEF NobodyWorks
<1>2. CASE UNCHANGED vars
  BY <1>1, <1>2, Stutter DEF Working, Drainers, Poppers
<1>3. ASSUME NEW f \in Waits, Wait(f) \/ Push(f) \/ Pop(f) \/ Return(f) PROVE NobodyWorks'
  <2>1. early' = early /\ Working' = Working /\ Drainers' = Drainers
    BY <1>3 DEF Wait, Push, Pop, Return, Working, Drainers
  <2>2. Poppers' \subseteq Poppers
    BY <1>0, <1>3 DEF Wait, Push, Pop, Return, Poppers, TypeOK
  <2> QED BY <1>1, <2>1, <2>2
<1>4. ASSUME NEW f \in Waits, Check(f) PROVE NobodyWorks'
  <2>1. early' = early /\ Working' = Working /\ Drainers' = Drainers
    BY <1>4 DEF Check, Working, Drainers
  <2>2. CASE counter = 0
    <3>1. Working = {}
      BY <1>0, <2>2, Counted, FS_EmptySet DEF CounterIsWork
    <3> QED BY <2>1, <3>1 DEF NobodyWorks
  <2>3. CASE counter # 0
    <3>1. Poppers' \subseteq Poppers
      BY <1>0, <1>4, <2>3 DEF Check, Poppers, TypeOK
    <3> QED BY <1>1, <2>1, <3>1
  <2> QED BY <2>2, <2>3
<1>5. ASSUME NEW S \in SUBSET Workers, Add(S) PROVE NobodyWorks'
  <2>1. Drainers' = Drainers /\ Poppers' = Poppers
    BY <1>0, <1>5, AddFacts
  <2>2. S # {} /\ early' = IF Drainers \cup Poppers # {} THEN early \cup S ELSE early
    BY <1>5 DEF Add
  <2> QED BY <2>1, <2>2 DEF NobodyWorks
<1>6. ASSUME NEW w \in Workers, Done(w) PROVE NobodyWorks'
  <2>1. /\ w \in Working /\ Working' = Working \ {w} /\ counter > 0
        /\ Cardinality(Working') = Cardinality(Working) - 1
    BY <1>0, <1>6, DoneFacts
  <2>2. early' = early /\ Poppers' = Poppers
    BY <1>6 DEF Done, Poppers
  <2>3. CASE counter = 1
    <3>1. Cardinality(Working') = 0
      BY <1>0, <2>1, <2>3 DEF CounterIsWork
    <3>2. Working' = {}
      BY <2>1, <3>1, Counted, FS_RemoveElement, FS_EmptySet
    <3> QED BY <3>2 DEF NobodyWorks
  <2>4. CASE counter # 1
    <3>1. Drainers' = Drainers
      BY <1>0, <1>6, <2>4 DEF Done, Drainers, TypeOK
    <3> QED BY <1>0, <2>1, <2>2, <3>1 DEF NobodyWorks
  <2> QED BY <2>3, <2>4
<1>7. ASSUME NEW w \in Workers, WakeAll(w) PROVE NobodyWorks'
  <2>1. Working' = Working /\ Drainers' \subseteq Drainers
    BY <1>0, <1>7 DEF WakeAll, Working, Drainers, TypeOK
  <2>2. early' = early /\ Poppers' = Poppers
    BY <1>7 DEF WakeAll, Poppers
  <2> QED BY <1>1, <2>1, <2>2
<1> QED
  BY <1>2, <1>3, <1>4, <1>5, <1>6, <1>7 DEF Next, HandleCall

\* The wake-ups that wake a task have seen the counter at 0, and done() only removes
\* from what a wait() waits for.
LEMMA WaitsStep == IInv /\ [Next]_vars => WaitsForWork' /\ HandlersPushed'
<1> SUFFICES ASSUME IInv, [Next]_vars PROVE WaitsForWork' /\ HandlersPushed'
  OBVIOUS
<1>0. TypeOK /\ ListIsParked /\ OwedIsWork /\ NobodyWorks /\ WaitsForWork /\ HandlersPushed
  BY DEF IInv
<1>1. CASE UNCHANGED vars
  BY <1>0, <1>1, Stutter DEF WaitsForWork, HandlersPushed
<1>2. ASSUME NEW f \in Waits, Wait(f) PROVE WaitsForWork' /\ HandlersPushed'
  BY <1>0, <1>2 DEF Wait, WaitsForWork, HandlersPushed, TypeOK
<1>3. ASSUME NEW f \in Waits, Push(f) PROVE WaitsForWork' /\ HandlersPushed'
  BY <1>0, <1>3 DEF Push, WaitsForWork, HandlersPushed, TypeOK
<1>4. ASSUME NEW f \in Waits, Check(f) PROVE WaitsForWork' /\ HandlersPushed'
  BY <1>0, <1>4 DEF Check, WaitsForWork, HandlersPushed, TypeOK
<1>5. ASSUME NEW f \in Waits, Pop(f) PROVE WaitsForWork' /\ HandlersPushed'
  <2>1. /\ f \in Poppers /\ early' = early /\ owed' = owed
        /\ \A g \in Waits : handler'[g] # "none" => handler[g] # "none"
    BY <1>0, <1>5 DEF Pop, Poppers, TypeOK
  <2>2. CASE waited_tasks = <<>>
    <3>1. wait' = wait
      BY <1>5, <2>2 DEF Pop
    <3> QED BY <1>0, <2>1, <3>1 DEF WaitsForWork, HandlersPushed
  <2>3. CASE waited_tasks # <<>>
    <3> DEFINE u == waited_tasks[Len(waited_tasks)]
    <3>1. u \in Waits /\ wait' = [wait EXCEPT ![u] = "woken"]
      BY <1>0, <1>5, <2>3, PopFacts
    <3> HIDE DEF u
    <3>2. WaitsForWork'
      <4>1. early = {} => owed[u] = {}
        BY <1>0, <2>1, <3>1 DEF NobodyWorks, OwedIsWork
      <4> QED BY <1>0, <2>1, <3>1, <4>1 DEF WaitsForWork, TypeOK
    <3>3. HandlersPushed'
      BY <1>0, <2>1, <3>1 DEF HandlersPushed, TypeOK
    <3> QED BY <3>2, <3>3
  <2> QED BY <2>2, <2>3
<1>6. ASSUME NEW f \in Waits, Return(f) PROVE WaitsForWork' /\ HandlersPushed'
  BY <1>0, <1>6 DEF Return, WaitsForWork, HandlersPushed, TypeOK
<1>7. ASSUME NEW S \in SUBSET Workers, Add(S) PROVE WaitsForWork' /\ HandlersPushed'
  <2>1. wait' = wait /\ handler' = handler /\ owed' = owed /\ (early' = {} => early = {})
    BY <1>7 DEF Add
  <2> QED BY <1>0, <2>1 DEF WaitsForWork, HandlersPushed
<1>8. ASSUME NEW w \in Workers, Done(w) PROVE WaitsForWork' /\ HandlersPushed'
  <2>1. /\ wait' = wait /\ handler' = handler /\ early' = early
        /\ \A g \in Waits : owed'[g] \subseteq owed[g]
    BY <1>8 DEF Done
  <2> QED BY <1>0, <2>1 DEF WaitsForWork, HandlersPushed
<1>9. ASSUME NEW w \in Workers, WakeAll(w) PROVE WaitsForWork' /\ HandlersPushed'
  <2>1. /\ w \in Drainers /\ early' = early /\ owed' = owed /\ handler' = handler
        /\ \A g \in Waits : wait'[g] \in {wait[g], "woken"}
    BY <1>9 DEF WakeAll, Drainers
  <2>2. early = {} => \A g \in Waits : owed[g] = {}
    BY <1>0, <2>1 DEF NobodyWorks, OwedIsWork
  <2>3. WaitsForWork'
    BY <2>1, <2>2 DEF WaitsForWork
  <2>4. HandlersPushed'
    BY <1>0, <2>1 DEF HandlersPushed
  <2> QED BY <2>3, <2>4
<1> QED
  BY <1>1, <1>2, <1>3, <1>4, <1>5, <1>6, <1>7, <1>8, <1>9 DEF Next, HandleCall

\* While the counter is 0, the list and the handle_calls that look after it grow and
\* shrink together, until a done() empties the list.
LEMMA LostStep == IInv /\ [Next]_vars => NoLostWaiter'
<1> SUFFICES ASSUME IInv, [Next]_vars PROVE NoLostWaiter'
  OBVIOUS
<1>0. TypeOK /\ ListIsParked /\ CounterIsWork /\ HandlersPushed /\ NoLostWaiter
  BY DEF IInv
<1> DEFINE c == Cardinality(Handlers)
           l == Len(waited_tasks)
<1>1. c \in Nat /\ l \in Nat /\ IsFiniteSet(Handlers) /\ counter \in Nat
  BY <1>0, Counted DEF TypeOK
<1>2. counter = 0 => Drainers # {} \/ l <= c
  BY <1>0 DEF NoLostWaiter, Handlers
<1>3. ASSUME counter' = 0 => Drainers' # {} \/ Len(waited_tasks') <= Cardinality(Handlers')
      PROVE  NoLostWaiter'
  BY <1>3 DEF NoLostWaiter, Handlers
<1>4. ASSUME counter' = counter, Drainers' = Drainers, waited_tasks' = waited_tasks,
             Handlers' = Handlers
      PROVE  NoLostWaiter'
  BY <1>2, <1>3, <1>4
<1>5. CASE UNCHANGED vars
  BY <1>4, <1>5, Stutter DEF Drainers, Handlers
<1>6. ASSUME NEW f \in Waits, Wait(f) \/ Return(f) PROVE NoLostWaiter'
  BY <1>4, <1>6 DEF Wait, Return, Drainers, Handlers
<1>7. ASSUME NEW f \in Waits, Push(f) PROVE NoLostWaiter'
  <2>1. f \notin Handlers /\ Handlers' = Handlers \cup {f}
    BY <1>0, <1>7 DEF Push, Handlers, HandlersPushed, TypeOK
  <2>2. Cardinality(Handlers') = c + 1
    BY <1>1, <2>1, FS_AddElement
  <2>3. Len(waited_tasks') = l + 1 /\ counter' = counter /\ Drainers' = Drainers
    BY <1>0, <1>7 DEF Push, TypeOK, Drainers
  <2> HIDE DEF c, l
  <2> QED BY <1>1, <1>2, <1>3, <2>2, <2>3
<1>8. ASSUME NEW f \in Waits, Check(f) PROVE NoLostWaiter'
  <2>1. counter' = counter /\ Drainers' = Drainers /\ waited_tasks' = waited_tasks
    BY <1>8 DEF Check, Drainers
  <2>2. CASE counter = 0
    <3>1. Handlers' = Handlers
      BY <1>0, <1>8, <2>2 DEF Check, Handlers, TypeOK
    <3> QED BY <1>4, <2>1, <3>1
  <2>3. CASE counter # 0
    BY <1>3, <2>1, <2>3
  <2> QED BY <2>2, <2>3
<1>9. ASSUME NEW f \in Waits, Pop(f) PROVE NoLostWaiter'
  <2>1. f \in Handlers /\ Handlers' = Handlers \ {f}
    BY <1>0, <1>9 DEF Pop, Handlers, TypeOK
  <2>2. Cardinality(Handlers') = c - 1 /\ Cardinality(Handlers') \in Nat
    BY <1>1, <2>1, FS_RemoveElement, FS_CardinalityType
  <2>3. counter' = counter /\ Drainers' = Drainers
    BY <1>9 DEF Pop, Drainers
  <2>4. CASE waited_tasks = <<>>
    <3>1. Len(waited_tasks') = 0
      BY <1>9, <2>4 DEF Pop
    <3> HIDE DEF c, l
    <3> QED BY <1>3, <2>2, <3>1
  <2>5. CASE waited_tasks # <<>>
    <3>1. Len(waited_tasks') = l - 1
      BY <1>0, <1>9, <2>5, PopFacts
    <3> HIDE DEF c, l
    <3> QED BY <1>1, <1>2, <1>3, <2>2, <2>3, <3>1
  <2> QED BY <2>4, <2>5
<1>10. ASSUME NEW S \in SUBSET Workers, Add(S) PROVE NoLostWaiter'
  <2>1. counter' = counter + Cardinality(S) /\ Cardinality(S) \in Nat /\ Cardinality(S) > 0
    BY <1>0, <1>10, AddFacts DEF Add
  <2>2. counter' # 0
    BY <1>1, <2>1
  <2> QED BY <1>3, <2>2
<1>11. ASSUME NEW w \in Workers, Done(w) PROVE NoLostWaiter'
  <2>1. counter > 0 /\ counter' = counter - 1
    BY <1>0, <1>11, DoneFacts
  <2>2. CASE counter = 1
    <3>1. w \in Drainers'
      BY <1>0, <1>11, <2>2 DEF Done, Drainers, TypeOK
    <3> QED BY <1>3, <3>1
  <2>3. CASE counter # 1
    <3>1. counter' # 0
      BY <1>1, <2>1, <2>3
    <3> QED BY <1>3, <3>1
  <2> QED BY <2>2, <2>3
<1>12. ASSUME NEW w \in Workers, WakeAll(w) PROVE NoLostWaiter'
  <2>1. Len(waited_tasks') = 0 /\ Handlers' = Handlers
    BY <1>12 DEF WakeAll, Handlers
  <2> QED BY <1>1, <1>3, <2>1
<1> QED
  BY <1>5, <1>6, <1>7, <1>8, <1>9, <1>10, <1>11, <1>12 DEF Next, HandleCall

\* The invariant is inductive.
LEMMA Inductive == Spec => []IInv
<1>1. IInv /\ [Next]_vars => IInv'
  BY TypeStep, ListStep, WorkStep, WakeUpStep, WaitsStep, LostStep DEF IInv
<1> QED
  BY InitIInv, <1>1, PTL DEF Spec

\* The fields of the group agree with its users: each parked task is in the list once and
\* nothing else is, and the counter is the number of workers that are not done(), so
\* done() never finds it at 0.
THEOREM Consistent == Spec => []GroupIsConsistent
<1>1. IInv => GroupIsConsistent
  BY DEF IInv, GroupIsConsistent
<1> QED
  BY Inductive, <1>1, PTL

\* No wake-up is lost between handle_call's push and its look at the counter: while the
\* counter is 0 each task in the list has a handle_call or a done() that will pop.
THEOREM NobodyLost == Spec => []NoLostWaiter
<1>1. IInv => NoLostWaiter
  BY DEF IInv
<1> QED
  BY Inductive, <1>1, PTL

\* A wait() is woken only after the work it was called for, unless work was added during
\* the wake-up of an earlier zero.
THEOREM WokenAfterWork == Spec => []WaitsForWork
<1>1. IInv => WaitsForWork
  BY DEF IInv
<1> QED
  BY Inductive, <1>1, PTL

=============================================================================
