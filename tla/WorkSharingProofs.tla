------------------------- MODULE WorkSharingProofs -------------------------
(***************************************************************************)
(* Proofs about shared tasks on their way between executors, for any set of *)
(* executors, any number of tasks and any level and maximum.  The deques,   *)
(* the lists and what a stopping executor has drained are one family of     *)
(* queues; spawning puts a task into it, executing takes one out, and       *)
(* flushing, taking and handing over move tasks from one queue to another.  *)
(* The registry's invariant, under which executors find each other, is that *)
(* of module InteractorProofs.                                              *)
(***************************************************************************)
EXTENDS WorkSharing, InteractorProofs

\* The queues of all executors, as one family.
Slots == {"deque", "list", "moved"} \X Executors

Store == [p \in Slots |-> IF p[1] = "deque" THEN shared_tasks[p[2]]
                          ELSE IF p[1] = "list" THEN shared_tasks_list[p[2]]
                          ELSE moved[p[2]]]

\* The tasks that must be somewhere.
Live == {t \in TaskIds : task[t] = "live" /\ t \notin dropped}

WShape ==
    /\ shared_tasks \in [Executors -> Seq(TaskIds)]
    /\ shared_tasks_list \in [Executors -> Seq(TaskIds)]
    /\ moved \in [Executors -> Seq(TaskIds)]
    /\ scan \in [Executors -> Seq(Executors)]
    /\ task \in [TaskIds -> {"new", "live", "done"}]
    /\ yields \in Nat
    /\ dropped \subseteq TaskIds
    /\ \A t \in dropped : task[t] = "live"

\* Where an executor scans, and that only a stopping executor that has a neighbour has
\* drained its list.
Scans ==
    \A e \in Executors :
        /\ scan[e] # <<>> => loop[e] \in {"round", "stopped"}
        /\ loop[e] = "stopped" /\ scan[e] # <<>> => tasks_lists[e] # <<>>
        /\ moved[e] # <<>> => loop[e] = "stopped" /\ scan[e] # <<>>

TasksHeld == Holds(TaskIds, Slots, Store, Live)

WInv == WShape /\ Scans /\ TasksHeld /\ ScanWithinLimit

\* The family by executor.
LEMMA StoreAt ==
    \A e \in Executors :
        /\ <<"deque", e>> \in Slots /\ Store[<<"deque", e>>] = shared_tasks[e]
        /\ <<"list", e>> \in Slots /\ Store[<<"list", e>>] = shared_tasks_list[e]
        /\ <<"moved", e>> \in Slots /\ Store[<<"moved", e>>] = moved[e]
  BY DEF Store, Slots

\* The family g is f but for the deque and the drained tasks of e and the list of d.
Becomes(f, g, e, d, a, b, c) ==
    \A r \in Slots :
        g[r] = IF r = <<"deque", e>> THEN a ELSE IF r = <<"list", d>> THEN b
               ELSE IF r = <<"moved", e>> THEN c ELSE f[r]

\* What a step that changes the deque and the drained tasks of e and the list of d does to
\* the family.
LEMMA StoreStep ==
    ASSUME WShape, NEW e \in Executors, NEW d \in Executors, NEW a, NEW b, NEW c,
           shared_tasks' = [shared_tasks EXCEPT ![e] = a],
           shared_tasks_list' = [shared_tasks_list EXCEPT ![d] = b],
           moved' = [moved EXCEPT ![e] = c]
    PROVE  Becomes(Store, Store', e, d, a, b, c)
<1> SUFFICES ASSUME NEW r \in Slots
             PROVE  Store'[r] = IF r = <<"deque", e>> THEN a ELSE IF r = <<"list", d>> THEN b
                                ELSE IF r = <<"moved", e>> THEN c ELSE Store[r]
  BY DEF Becomes
<1>1. PICK k \in {"deque", "list", "moved"}, x \in Executors : r = <<k, x>>
  BY DEF Slots
<1>2. /\ shared_tasks'[x] = IF x = e THEN a ELSE shared_tasks[x]
      /\ shared_tasks_list'[x] = IF x = d THEN b ELSE shared_tasks_list[x]
      /\ moved'[x] = IF x = e THEN c ELSE moved[x]
  BY DEF WShape
<1>3. /\ Store[r] = IF k = "deque" THEN shared_tasks[x]
                    ELSE IF k = "list" THEN shared_tasks_list[x] ELSE moved[x]
      /\ Store'[r] = IF k = "deque" THEN shared_tasks'[x]
                     ELSE IF k = "list" THEN shared_tasks_list'[x] ELSE moved'[x]
  BY <1>1 DEF Store
<1> QED BY <1>1, <1>2, <1>3

\* Nothing is spawned at the beginning.
LEMMA WorkInit == WInit => WInv
<1> SUFFICES ASSUME WInit PROVE WInv
  OBVIOUS
<1>1. WShape /\ Scans /\ ScanWithinLimit
  BY MaxYieldsNat DEF WInit, Init, WShape, Scans, ScanWithinLimit, Scanning
<1>2. \A r \in Slots : Store[r] = <<>>
  BY DEF WInit, Store, Slots
<1>3. Live = {}
  BY DEF WInit, Live
<1>4. TasksHeld
  <2>1. PICK f : f = Store
    OBVIOUS
  <2>2. \A r \in Slots : f[r] \in Seq(TaskIds) /\ Distinct(f[r]) /\ Range(f[r]) = {}
    <3>1. PICK q : q = <<>>
      OBVIOUS
    <3>2. q \in Seq(TaskIds) /\ Distinct(q) /\ Range(q) = {}
      BY <3>1, RangeEmpty, DistinctEmpty
    <3>3. \A r \in Slots : f[r] = q
      BY <1>2, <2>1, <3>1
    <3> QED BY <3>2, <3>3, Zenon
  <2>3. Holds(TaskIds, Slots, f, Live)
    <3>1. PICK S : S = Live
      OBVIOUS
    <3>2. \A x : x \in S <=> \E r \in Slots : x \in Range(f[r])
      BY <1>3, <2>2, <3>1, Zenon
    <3>3. Holds(TaskIds, Slots, f, S)
      BY <2>2, <3>2, Zenon DEF Holds
    <3> QED BY <3>1, <3>3
  <2> QED BY <2>1, <2>3 DEF TasksHeld
<1> QED BY <1>1, <1>4 DEF WInv

\* A step that changes neither the queues nor the states of the tasks.
LEMMA QueuesSame ==
    ASSUME TasksHeld, UNCHANGED <<shared_tasks, shared_tasks_list, moved, task, dropped>>
    PROVE  TasksHeld'
  BY DEF TasksHeld, Store, Live

\* Spawning puts a task into the deque.
LEMMA SpawnHeld ==
    ASSUME WInv, NEW e \in Executors, NEW t \in TaskIds, Spawn(e, t)
    PROVE  TasksHeld'
<1>1. WShape /\ TasksHeld
  BY DEF WInv
<1>2. PICK f, g, a, b, c, p :
        /\ f = Store /\ g = Store' /\ p = <<"deque", e>>
        /\ a = Append(shared_tasks[e], t) /\ b = shared_tasks_list[e] /\ c = moved[e]
  BY Zenon
<1>3. /\ shared_tasks' = [shared_tasks EXCEPT ![e] = a]
      /\ shared_tasks_list' = [shared_tasks_list EXCEPT ![e] = b]
      /\ moved' = [moved EXCEPT ![e] = c]
  BY <1>1, <1>2 DEF Spawn, WShape
<1>4. Becomes(f, g, e, e, a, b, c)
  BY <1>1, <1>2, <1>3, StoreStep, Zenon
<1>5. p \in Slots /\ Changed(Slots, f, g, p, Append(f[p], t))
  BY <1>2, <1>4, StoreAt, Zenon DEF Changed, Becomes
<1>6. t \notin Live /\ Live' = Live \cup {t}
  BY <1>1 DEF Spawn, IsNext, Live, WShape
<1>7. Holds(TaskIds, Slots, f, Live)
  BY <1>1, <1>2 DEF TasksHeld
<1>8. PICK S : S = Live
  OBVIOUS
<1>9. Holds(TaskIds, Slots, g, S \cup {t})
  BY <1>5, <1>6, <1>7, <1>8, HoldsPut
<1> QED BY <1>2, <1>6, <1>8, <1>9 DEF TasksHeld

\* The parts that the code takes from a deque or a list.
LEMMA FirstParts ==
    ASSUME NEW q \in Seq(TaskIds), NEW n \in 0 .. Len(q), Distinct(q)
    PROVE  /\ FirstOf(q, n) \in Seq(TaskIds) /\ AfterFirst(q, n) \in Seq(TaskIds)
           /\ Parted(q, AfterFirst(q, n), FirstOf(q, n))
<1>1. PICK a, b : a = FirstOf(q, n) /\ b = AfterFirst(q, n)
  OBVIOUS
<1>2. SplitOf(TaskIds, q, n, a, b)
  BY <1>1, Split DEF FirstOf, AfterFirst
<1>3. Parted(q, b, a)
  BY <1>2, SplitParts
<1> QED BY <1>1, <1>2, <1>3 DEF SplitOf

\* The last n tasks of a list and the rest.
LEMMA LastParts ==
    ASSUME NEW q \in Seq(TaskIds), NEW n \in 0 .. Len(q), Distinct(q)
    PROVE  /\ LastOf(q, n) \in Seq(TaskIds) /\ BeforeLast(q, n) \in Seq(TaskIds)
           /\ Len(LastOf(q, n)) = n /\ \A k \in 1 .. n : LastOf(q, n)[k] = q[Len(q) - n + k]
           /\ Parted(q, BeforeLast(q, n), LastOf(q, n))
<1>1. PICK a, b, m : a = BeforeLast(q, n) /\ b = LastOf(q, n) /\ m = Len(q) - n
  OBVIOUS
<1>2. m \in 0 .. Len(q) /\ Len(q) - m = n
  BY <1>1
<1>3. SplitOf(TaskIds, q, m, a, b)
  BY <1>1, <1>2, Split DEF LastOf, BeforeLast
<1>4. Parted(q, a, b)
  BY <1>3, SplitParts
<1> QED BY <1>1, <1>2, <1>3, <1>4 DEF SplitOf

\* Popping takes the last tasks in the reverse order.
LEMMA PoppedParts ==
    ASSUME NEW q \in Seq(TaskIds), NEW n \in 0 .. Len(q), Distinct(q)
    PROVE  Popped(q, n) \in Seq(TaskIds) /\ Parted(q, BeforeLast(q, n), Popped(q, n))
<1>1. PICK a, b, c, m : /\ a = BeforeLast(q, n) /\ b = LastOf(q, n) /\ c = Popped(q, n)
                        /\ m = Len(q)
  OBVIOUS
<1>2. m \in Nat /\ n \in 0 .. m /\ DOMAIN q = 1 .. m
  BY <1>1
<1>3. b \in Seq(TaskIds) /\ Len(b) = n /\ Parted(q, a, b)
  BY <1>1, LastParts
<1>4. \A k \in 1 .. n : b[k] = q[m - n + k]
  BY <1>1, LastParts, Zenon
<1>5. c \in Seq(TaskIds) /\ DOMAIN c = 1 .. n /\ DOMAIN b = 1 .. n
  <2>1. c = [k \in 1 .. n |-> q[m - k + 1]]
    BY <1>1 DEF Popped
  <2>2. \A k \in 1 .. n : m - k + 1 \in 1 .. m
    BY <1>2
  <2>3. \A k \in 1 .. n : q[m - k + 1] \in TaskIds
    BY <1>2, <2>2
  <2> QED BY <1>2, <1>3, <2>1, <2>3
<1>6. \A k \in 1 .. n : (n - k + 1) \in 1 .. n /\ n - (n - k + 1) + 1 = k
  BY <1>2
<1>7. \A k \in 1 .. n : c[k] = b[n - k + 1]
  <2> TAKE k \in 1 .. n
  <2>1. c[k] = q[m - k + 1]
    BY <1>1 DEF Popped
  <2>2. m - n + (n - k + 1) = m - k + 1
    BY <1>2
  <2> QED BY <1>4, <1>6, <2>1, <2>2
<1> HIDE <1>1
<1>8. Range(c) = Range(b)
  <2>1. \A k \in 1 .. n : b[k] = c[n - k + 1]
    BY <1>6, <1>7
  <2> QED BY <1>5, <1>6, <1>7, <2>1 DEF Range
<1>9. Distinct(c)
  <2> SUFFICES ASSUME NEW i \in 1 .. n, NEW j \in 1 .. n, c[i] = c[j] PROVE i = j
    BY <1>5 DEF Distinct
  <2>1. PICK k \in 1 .. n, l \in 1 .. n : k = n - i + 1 /\ l = n - j + 1
    BY <1>6
  <2>2. b[k] = b[l]
    BY <1>7, <2>1
  <2>3. k = l
    BY <1>3, <1>5, <2>2 DEF Parted, Distinct
  <2> QED BY <1>2, <2>1, <2>3
<1>10. Parted(q, a, c)
  BY <1>3, <1>8, <1>9 DEF Parted
<1> QED BY <1>1, <1>5, <1>10

\* spawn_shared_task with a flush: the older tasks move to the list, then the new one is put.
LEMMA SpawnFlushHeld ==
    ASSUME WInv, NEW e \in Executors, NEW t \in TaskIds, SpawnFlush(e, t)
    PROVE  TasksHeld'
<1>1. WShape /\ TasksHeld
  BY DEF WInv
<1>2. PICK q, n : q = shared_tasks[e] /\ n = Len(q) \div 2 + 1
  OBVIOUS
<1>3. PICK f, g, i, j : f = Store /\ g = Store' /\ i = <<"deque", e>> /\ j = <<"list", e>>
  BY Zenon
<1>4. PICK pre, post : pre = FirstOf(q, n) /\ post = AfterFirst(q, n)
  OBVIOUS
<1>5. PICK a, b, c : a = Append(post, t) /\ b = f[j] \o pre /\ c = moved[e]
  BY Zenon
<1>6. Holds(TaskIds, Slots, f, Live)
  BY <1>1, <1>3 DEF TasksHeld
<1>7. /\ i \in Slots /\ j \in Slots /\ i # j
      /\ f[i] = q /\ f[j] = shared_tasks_list[e] /\ f[<<"moved", e>>] = c
  BY <1>2, <1>3, <1>5, StoreAt
<1>8. q \in Seq(TaskIds) /\ Distinct(q) /\ Len(q) > Level
  BY <1>1, <1>2, <1>6, <1>7 DEF WShape, Holds, SpawnFlush
<1>9. n \in 0 .. Len(q)
  <2>1. PICK m \in Nat : m = Len(q)
    BY <1>8
  <2>2. m >= 2 /\ n = m \div 2 + 1
    BY <1>2, <1>8, <2>1, LevelPositive
  <2>3. \A k \in Nat : k >= 2 => k \div 2 + 1 \in 0 .. k
    OBVIOUS
  <2> QED BY <2>1, <2>2, <2>3
<1>10. pre \in Seq(TaskIds) /\ post \in Seq(TaskIds) /\ Parted(q, post, pre)
  BY <1>4, <1>8, <1>9, FirstParts
<1>11. /\ shared_tasks' = [shared_tasks EXCEPT ![e] = a]
       /\ shared_tasks_list' = [shared_tasks_list EXCEPT ![e] = b]
       /\ moved' = [moved EXCEPT ![e] = c]
  BY <1>1, <1>2, <1>4, <1>5, <1>7 DEF SpawnFlush, WShape
<1>12. Becomes(f, g, e, e, a, b, c)
  BY <1>1, <1>3, <1>11, StoreStep, Zenon
<1>13. PICK h : h = [r \in Slots |-> IF r = i THEN post ELSE IF r = j THEN b ELSE f[r]]
  BY Zenon
<1>14. MovedTo(Slots, f, h, i, j, post, pre)
  BY <1>5, <1>7, <1>13, Zenon DEF MovedTo
<1>15. Holds(TaskIds, Slots, h, Live)
  <2>1. PICK S : S = Live
    OBVIOUS
  <2>2. Holds(TaskIds, Slots, h, S)
    BY <1>6, <1>7, <1>10, <1>14, <2>1, HoldsMove
  <2> QED BY <2>1, <2>2
<1>16. Changed(Slots, h, g, i, Append(h[i], t))
  BY <1>3, <1>5, <1>7, <1>12, <1>13, Zenon DEF Changed, Becomes
<1>17. t \notin Live /\ Live' = Live \cup {t}
  BY <1>1 DEF SpawnFlush, IsNext, Live, WShape
<1>18. PICK S : S = Live
  OBVIOUS
<1>19. Holds(TaskIds, Slots, g, S \cup {t})
  BY <1>7, <1>15, <1>16, <1>17, <1>18, HoldsPut
<1> QED BY <1>3, <1>17, <1>18, <1>19 DEF TasksHeld

\* Executing takes the last task of the deque, which finishes or goes to the other end.
LEMMA ExecHeld ==
    ASSUME WInv, NEW e \in Executors, Exec(e)
    PROVE  TasksHeld' /\ WShape'
<1>1. WShape /\ TasksHeld
  BY DEF WInv
<1>2. PICK q, t, kept : q = shared_tasks[e] /\ t = q[Len(q)] /\ kept = BeforeLast(q, 1)
  OBVIOUS
<1>3. PICK f, g, i : f = Store /\ g = Store' /\ i = <<"deque", e>>
  BY Zenon
<1>4. PICK b, c, S : b = shared_tasks_list[e] /\ c = moved[e] /\ S = Live
  OBVIOUS
<1>5. Holds(TaskIds, Slots, f, S)
  BY <1>1, <1>3, <1>4 DEF TasksHeld
<1>6. /\ i \in Slots /\ f[i] = q /\ f[<<"list", e>>] = b /\ f[<<"moved", e>>] = c
  BY <1>2, <1>3, <1>4, StoreAt
<1>7. q \in Seq(TaskIds) /\ Distinct(q) /\ q # <<>>
  BY <1>1, <1>2, <1>5, <1>6 DEF WShape, Holds, Exec
<1>8. kept \in Seq(TaskIds) /\ t \in TaskIds /\ Parted(q, kept, <<t>>)
  BY <1>2, <1>7, PopParts DEF BeforeLast
<1>9. Range(<<t>>) = {t} /\ Distinct(<<t>>)
  BY DistinctOne
<1>10. t \in S
  <2>1. t \in Range(q)
    BY <1>8, <1>9 DEF Parted
  <2> QED BY <1>5, <1>6, <2>1 DEF Holds
<1>11. /\ shared_tasks_list' = [shared_tasks_list EXCEPT ![e] = b]
       /\ moved' = [moved EXCEPT ![e] = c]
       /\ shared_tasks_list' = shared_tasks_list /\ moved' = moved /\ scan' = scan
  BY <1>1, <1>4 DEF Exec, WShape
<1>12. CASE /\ task' = [task EXCEPT ![t] = "done"]
            /\ shared_tasks' = [shared_tasks EXCEPT ![e] = kept]
            /\ UNCHANGED <<yields, dropped>>
  <2>1. Becomes(f, g, e, e, kept, b, c)
    BY <1>1, <1>3, <1>11, <1>12, StoreStep, Zenon
  <2>2. Changed(Slots, f, g, i, kept)
    BY <1>3, <1>6, <2>1 DEF Changed, Becomes
  <2>3. Holds(TaskIds, Slots, g, S \ Range(<<t>>))
    <3>1. PICK o : o = <<t>>
      BY Zenon
    <3>2. Parted(f[i], kept, o)
      BY <1>6, <1>8, <3>1
    <3>3. Holds(TaskIds, Slots, g, S \ Range(o))
      BY <1>5, <1>6, <1>8, <2>2, <3>2, HoldsDrop, Zenon
    <3> QED BY <3>1, <3>3
  <2>4. Live' = S \ {t}
    BY <1>1, <1>4, <1>8, <1>12 DEF Live, WShape
  <2>5. WShape'
    BY <1>1, <1>4, <1>8, <1>10, <1>11, <1>12 DEF WShape, Live
  <2> QED BY <1>3, <1>9, <2>3, <2>4, <2>5 DEF TasksHeld
<1>13. CASE /\ task' = task /\ yields > 0 /\ yields' = yields - 1
            /\ shared_tasks' = [shared_tasks EXCEPT ![e] = <<t>> \o kept]
            /\ UNCHANGED dropped
  <2>1. PICK o, a : o = <<t>> /\ a = <<t>> \o kept
    BY Zenon
  <2>2. o \in Seq(TaskIds) /\ a = o \o kept
    BY <1>8, <2>1
  <2>3. a \in Seq(TaskIds) /\ Distinct(a) /\ Range(a) = Range(o) \cup Range(kept)
    <3>1. Distinct(o) /\ Distinct(kept) /\ Range(o) \cap Range(kept) = {}
      BY <1>8, <2>1, DistinctOne DEF Parted
    <3> QED BY <1>8, <2>2, <3>1, DistinctCat, RangeCat
  <2>4. Range(a) = Range(f[i])
    BY <1>6, <1>8, <2>1, <2>3, Zenon DEF Parted
  <2>5. shared_tasks' = [shared_tasks EXCEPT ![e] = a]
    BY <1>13, <2>1
  <2>6. Becomes(f, g, e, e, a, b, c)
    BY <1>1, <1>3, <1>11, <2>5, StoreStep, Zenon
  <2>7. Changed(Slots, f, g, i, a)
    BY <1>3, <1>6, <2>6 DEF Changed, Becomes
  <2>8. Holds(TaskIds, Slots, g, S)
    BY <1>5, <1>6, <2>3, <2>4, <2>7, HoldsReorder
  <2>9. Live' = S
    BY <1>4, <1>13 DEF Live
  <2>10. WShape'
    <3>1. shared_tasks' \in [Executors -> Seq(TaskIds)]
      BY <1>1, <2>3, <2>5 DEF WShape
    <3>2. yields' \in Nat
      BY <1>1, <1>13 DEF WShape
    <3>3. task' = task /\ dropped' = dropped
      BY <1>13
    <3> QED BY <1>1, <1>11, <3>1, <3>2, <3>3, Zenon DEF WShape
  <2> QED BY <1>3, <2>8, <2>9, <2>10 DEF TasksHeld
<1> QED BY <1>2, <1>12, <1>13 DEF Exec

\* Taking moves tasks from a list to the end of a deque.
LEMMA TakeHeld ==
    ASSUME WShape, TasksHeld, NEW e \in Executors, NEW d \in Executors,
           NEW kept \in Seq(TaskIds), NEW mv \in Seq(TaskIds),
           Parted(shared_tasks_list[d], kept, mv),
           shared_tasks' = [shared_tasks EXCEPT ![e] = @ \o mv],
           shared_tasks_list' = [shared_tasks_list EXCEPT ![d] = kept],
           UNCHANGED <<moved, task, dropped>>
    PROVE  /\ TasksHeld'
           /\ shared_tasks' \in [Executors -> Seq(TaskIds)]
           /\ shared_tasks_list' \in [Executors -> Seq(TaskIds)]
<1>1. PICK f, g, i, j : f = Store /\ g = Store' /\ i = <<"list", d>> /\ j = <<"deque", e>>
  BY Zenon
<1>2. PICK a, c, S : a = shared_tasks[e] \o mv /\ c = moved[e] /\ S = Live
  BY Zenon
<1>3. Holds(TaskIds, Slots, f, S)
  BY <1>1, <1>2 DEF TasksHeld
<1>4. /\ i \in Slots /\ j \in Slots /\ i # j /\ f[<<"moved", e>>] = c
      /\ f[i] = shared_tasks_list[d] /\ f[j] = shared_tasks[e]
  BY <1>1, <1>2, StoreAt, Zenon
<1>5. /\ shared_tasks' = [shared_tasks EXCEPT ![e] = a]
      /\ moved' = [moved EXCEPT ![e] = c]
  BY <1>2 DEF WShape
<1>6. Becomes(f, g, e, d, a, kept, c)
  BY <1>1, <1>5, StoreStep, Zenon
<1>7. MovedTo(Slots, f, g, i, j, kept, mv)
  BY <1>1, <1>2, <1>4, <1>6, Zenon DEF MovedTo, Becomes
<1>8. Holds(TaskIds, Slots, g, S)
  BY <1>3, <1>4, <1>7, HoldsMove
<1>9. Live' = S
  BY <1>2 DEF Live
<1>10. a \in Seq(TaskIds)
  BY <1>2, ConcatProperties DEF WShape
<1>11. /\ shared_tasks' \in [Executors -> Seq(TaskIds)]
       /\ shared_tasks_list' \in [Executors -> Seq(TaskIds)]
  BY <1>5, <1>10 DEF WShape
<1> QED BY <1>1, <1>8, <1>9, <1>11 DEF TasksHeld

\* take_work_if_needed from the executor's own list.
LEMMA TakeOwnHeld ==
    ASSUME WInv, NEW e \in Executors, TakeOwn(e)
    PROVE  TasksHeld' /\ WShape'
<1>1. WShape /\ TasksHeld
  BY DEF WInv
<1>2. PICK l, n : l = shared_tasks_list[e] /\ n = Smaller(Level - Len(shared_tasks[e]), Len(l))
  OBVIOUS
<1>3. l \in Seq(TaskIds) /\ Distinct(l)
  BY <1>1, <1>2, StoreAt, Zenon DEF WShape, TasksHeld, Holds
<1>4. n \in 0 .. Len(l)
  <2>1. Len(shared_tasks[e]) \in Nat /\ Len(shared_tasks[e]) < Level /\ Len(l) \in Nat
    BY <1>1, <1>3 DEF WShape, TakeOwn
  <2> QED BY <1>2, <2>1, LevelPositive DEF Smaller
<1>5. PICK kept, mv : kept = BeforeLast(l, n) /\ mv = Popped(l, n)
  OBVIOUS
<1>6. kept \in Seq(TaskIds) /\ mv \in Seq(TaskIds) /\ Parted(l, kept, mv)
  BY <1>3, <1>4, <1>5, LastParts, PoppedParts, Zenon
<1>7. /\ shared_tasks' = [shared_tasks EXCEPT ![e] = @ \o mv]
      /\ shared_tasks_list' = [shared_tasks_list EXCEPT ![e] = kept]
      /\ UNCHANGED <<scan, moved, task, yields, dropped>>
  BY <1>2, <1>5 DEF TakeOwn
<1>8. /\ TasksHeld'
      /\ shared_tasks' \in [Executors -> Seq(TaskIds)]
      /\ shared_tasks_list' \in [Executors -> Seq(TaskIds)]
  BY <1>1, <1>2, <1>6, <1>7, TakeHeld, Zenon
<1> QED BY <1>1, <1>7, <1>8 DEF WShape

\* take_batch from a neighbour, which takes at most what is missing to the maximum.
LEMMA TakeBatchHeld ==
    ASSUME WInv, NEW e \in Executors, TakeBatch(e)
    PROVE  /\ TasksHeld' /\ WShape'
           /\ Len(shared_tasks[e]) <= MaxTaken => Len(shared_tasks'[e]) <= MaxTaken
           /\ \A x \in Executors \ {e} : shared_tasks'[x] = shared_tasks[x]
<1>1. WShape /\ TasksHeld
  BY DEF WInv
<1>2. PICK d, l, n : d = Head(scan[e]) /\ l = shared_tasks_list[d] /\ n = Limit(e, l)
  OBVIOUS
<1>3. d \in Executors /\ Tail(scan[e]) \in Seq(Executors)
  BY <1>1, <1>2, HeadTailProperties DEF WShape, TakeBatch, Scanning
<1>4. l \in Seq(TaskIds) /\ Distinct(l)
  BY <1>1, <1>2, <1>3, StoreAt, Zenon DEF WShape, TasksHeld, Holds
<1>5. Len(shared_tasks[e]) \in Nat /\ Len(l) \in Nat
  BY <1>1, <1>4 DEF WShape
<1>6. /\ n \in 0 .. Len(l)
      /\ Len(shared_tasks[e]) <= MaxTaken => Len(shared_tasks[e]) + n <= MaxTaken
  <2>1. PICK m, k : m = Len(shared_tasks[e]) /\ k = Len(l)
    BY Zenon
  <2>2. m \in Nat /\ k \in Nat
    BY <1>5, <2>1
  <2>3. n = IF m <= MaxTaken THEN (IF MaxTaken - m < k THEN MaxTaken - m ELSE k) ELSE k
    BY <1>2, <2>1 DEF Limit, Smaller
  <2>4. n \in 0 .. k /\ (m <= MaxTaken => m + n <= MaxTaken)
    BY <2>2, <2>3, MaxTakenNat
  <2> QED BY <2>1, <2>4
<1>7. PICK kept, mv : kept = BeforeLast(l, n) /\ mv = LastOf(l, n)
  OBVIOUS
<1>8. kept \in Seq(TaskIds) /\ mv \in Seq(TaskIds) /\ Len(mv) = n /\ Parted(l, kept, mv)
  BY <1>4, <1>6, <1>7, LastParts
<1>9. /\ shared_tasks' = [shared_tasks EXCEPT ![e] = @ \o mv]
      /\ shared_tasks_list' = [shared_tasks_list EXCEPT ![d] = kept]
      /\ scan' = [scan EXCEPT ![e] = Tail(@)]
      /\ UNCHANGED <<moved, task, yields, dropped>>
  BY <1>2, <1>7 DEF TakeBatch
<1>10. /\ TasksHeld'
       /\ shared_tasks' \in [Executors -> Seq(TaskIds)]
       /\ shared_tasks_list' \in [Executors -> Seq(TaskIds)]
  BY <1>1, <1>2, <1>3, <1>8, <1>9, TakeHeld, Zenon
<1>11. shared_tasks'[e] = shared_tasks[e] \o mv
       /\ \A x \in Executors \ {e} : shared_tasks'[x] = shared_tasks[x]
  BY <1>1, <1>9 DEF WShape
<1>12. Len(shared_tasks'[e]) = Len(shared_tasks[e]) + n
  <2>1. PICK q : q = shared_tasks[e]
    OBVIOUS
  <2>2. q \in Seq(TaskIds)
    BY <1>1, <2>1 DEF WShape
  <2>3. Len(q \o mv) = Len(q) + Len(mv)
    BY <1>8, <2>2, ConcatProperties, Zenon
  <2> QED BY <1>8, <1>11, <2>1, <2>3, Zenon
<1>13. scan' \in [Executors -> Seq(Executors)]
  BY <1>1, <1>3, <1>9 DEF WShape
<1>14. WShape'
  BY <1>1, <1>9, <1>10, <1>13, Zenon DEF WShape
<1> QED BY <1>6, <1>10, <1>11, <1>12, <1>14

\* A stopping executor without a neighbour drops its deque.
LEMMA StopAloneHeld ==
    ASSUME WInv, NEW e \in Executors, StopAlone(e)
    PROVE  TasksHeld' /\ WShape'
<1>1. WShape /\ TasksHeld
  BY DEF WInv
<1>2. PICK f, g, i, q : f = Store /\ g = Store' /\ i = <<"deque", e>> /\ q = shared_tasks[e]
  BY Zenon
<1>3. PICK a, b, c, S : a = <<>> /\ b = shared_tasks_list[e] /\ c = moved[e] /\ S = Live
  OBVIOUS
<1>4. Holds(TaskIds, Slots, f, S)
  BY <1>1, <1>2, <1>3 DEF TasksHeld
<1>5. i \in Slots /\ f[i] = q /\ f[<<"list", e>>] = b /\ f[<<"moved", e>>] = c
  BY <1>2, <1>3, StoreAt
<1>6. q \in Seq(TaskIds) /\ Distinct(q) /\ a \in Seq(TaskIds)
  BY <1>1, <1>2, <1>3, <1>4, <1>5 DEF WShape, Holds
<1>7. Parted(f[i], a, q)
  BY <1>3, <1>5, <1>6, WholeParts
<1>8. /\ shared_tasks' = [shared_tasks EXCEPT ![e] = a]
      /\ shared_tasks_list' = [shared_tasks_list EXCEPT ![e] = b]
      /\ moved' = [moved EXCEPT ![e] = c]
      /\ dropped' = dropped \cup Range(q)
      /\ UNCHANGED <<shared_tasks_list, scan, moved, task, yields>>
  BY <1>1, <1>2, <1>3 DEF StopAlone, WShape
<1>9. Becomes(f, g, e, e, a, b, c)
  BY <1>1, <1>2, <1>8, StoreStep, Zenon
<1>10. Changed(Slots, f, g, i, a)
  BY <1>2, <1>5, <1>9 DEF Changed, Becomes
<1>11. Holds(TaskIds, Slots, g, S \ Range(q))
  BY <1>4, <1>5, <1>6, <1>7, <1>10, HoldsDrop, Zenon
<1>12. Live' = S \ Range(q)
  BY <1>3, <1>8 DEF Live
<1>13. Range(q) \subseteq S
  BY <1>4, <1>5 DEF Holds
<1>14. WShape'
  <2>1. \A t \in Range(q) : t \in TaskIds /\ task[t] = "live"
    BY <1>3, <1>13 DEF Live
  <2>2. dropped' \subseteq TaskIds /\ \A t \in dropped' : task'[t] = "live"
    BY <1>1, <1>8, <2>1 DEF WShape
  <2>3. shared_tasks' \in [Executors -> Seq(TaskIds)]
    BY <1>1, <1>6, <1>8 DEF WShape
  <2> QED BY <1>1, <1>8, <2>2, <2>3 DEF WShape
<1> QED BY <1>2, <1>11, <1>12, <1>14 DEF TasksHeld

\* A stopping executor drains its list.
LEMMA StopDrainHeld ==
    ASSUME WInv, NEW e \in Executors, tasks_lists \in [Executors -> Seq(Executors)],
           StopDrain(e)
    PROVE  TasksHeld' /\ WShape'
<1>1. WShape /\ TasksHeld /\ Scans
  BY DEF WInv
<1>2. PICK f, g, i, j : f = Store /\ g = Store' /\ i = <<"list", e>> /\ j = <<"moved", e>>
  BY Zenon
<1>3. PICK a, b, l, S : a = shared_tasks[e] /\ b = <<>> /\ l = shared_tasks_list[e] /\ S = Live
  OBVIOUS
<1>4. Holds(TaskIds, Slots, f, S)
  BY <1>1, <1>2, <1>3 DEF TasksHeld
<1>5. i \in Slots /\ j \in Slots /\ i # j /\ f[<<"deque", e>>] = a /\ f[i] = l /\ f[j] = moved[e]
  BY <1>2, <1>3, StoreAt
<1>6. l \in Seq(TaskIds) /\ Distinct(l) /\ b \in Seq(TaskIds)
  BY <1>1, <1>3, <1>4, <1>5 DEF WShape, Holds
<1>7. Parted(f[i], b, l)
  BY <1>3, <1>5, <1>6, WholeParts
<1>8. moved[e] = <<>>
  BY <1>1 DEF Scans, StopDrain
<1>9. /\ shared_tasks' = [shared_tasks EXCEPT ![e] = a]
      /\ shared_tasks_list' = [shared_tasks_list EXCEPT ![e] = b]
      /\ moved' = [moved EXCEPT ![e] = l]
      /\ scan' = [scan EXCEPT ![e] = <<Head(tasks_lists[e])>>]
      /\ UNCHANGED <<shared_tasks, task, yields, dropped>>
  BY <1>1, <1>3 DEF StopDrain, WShape
<1>10. Becomes(f, g, e, e, a, b, l)
  BY <1>1, <1>2, <1>9, StoreStep, Zenon
<1>11. f[j] \o l = l
  BY <1>5, <1>6, <1>8, ConcatEmptySeq
<1>12. MovedTo(Slots, f, g, i, j, b, l)
  BY <1>2, <1>5, <1>10, <1>11, Zenon DEF MovedTo, Becomes
<1>13. Holds(TaskIds, Slots, g, S)
  BY <1>4, <1>5, <1>6, <1>7, <1>12, HoldsMove
<1>14. Live' = S
  BY <1>3, <1>9 DEF Live
<1>15. WShape'
  <2>1. tasks_lists[e] # <<>> /\ Head(tasks_lists[e]) \in Executors
    BY HeadTailProperties DEF StopDrain
  <2>2. scan' \in [Executors -> Seq(Executors)]
    BY <1>1, <1>9, <2>1 DEF WShape
  <2>3. /\ shared_tasks_list' \in [Executors -> Seq(TaskIds)]
        /\ moved' \in [Executors -> Seq(TaskIds)]
    BY <1>1, <1>6, <1>9 DEF WShape
  <2> QED BY <1>1, <1>9, <2>2, <2>3, Zenon DEF WShape
<1> QED BY <1>2, <1>13, <1>14, <1>15 DEF TasksHeld

\* A stopping executor hands its deque and what it has drained to its neighbour.
LEMMA StopHandOverHeld ==
    ASSUME WInv, NEW e \in Executors, StopHandOver(e)
    PROVE  TasksHeld' /\ WShape'
<1>1. WShape /\ TasksHeld
  BY DEF WInv
<1>2. PICK d, q, m, o : d = Head(scan[e]) /\ q = shared_tasks[e] /\ m = moved[e] /\ o = <<>>
  OBVIOUS
<1>3. d \in Executors
  BY <1>1, <1>2, HeadTailProperties DEF WShape, StopHandOver
<1>4. PICK f, g, i, j, k : /\ f = Store /\ g = Store'
                           /\ i = <<"deque", e>> /\ j = <<"list", d>> /\ k = <<"moved", e>>
  BY Zenon
<1>5. PICK h, b, c, S : /\ b = f[j] \o q /\ c = b \o m /\ S = Live
                        /\ h = [r \in Slots |-> IF r = i THEN o ELSE IF r = j THEN b ELSE f[r]]
  BY Zenon
<1>6. Holds(TaskIds, Slots, f, S)
  BY <1>1, <1>4, <1>5 DEF TasksHeld
<1>7. /\ i \in Slots /\ j \in Slots /\ k \in Slots /\ i # j /\ k # j /\ i # k
      /\ f[i] = q /\ f[j] = shared_tasks_list[d] /\ f[k] = m
  BY <1>2, <1>3, <1>4, StoreAt, Zenon
<1>8. /\ q \in Seq(TaskIds) /\ m \in Seq(TaskIds) /\ o \in Seq(TaskIds)
      /\ Distinct(q) /\ Distinct(m) /\ f[j] \in Seq(TaskIds)
  BY <1>1, <1>2, <1>6, <1>7 DEF WShape, Holds
<1>9. h[i] = o /\ h[j] = b /\ h[k] = m /\ \A r \in Slots \ {i, j} : h[r] = f[r]
  BY <1>5, <1>7
<1>10. MovedTo(Slots, f, h, i, j, o, q)
  BY <1>5, <1>7, <1>9, Zenon DEF MovedTo
<1>11. Parted(f[i], o, q) /\ Parted(h[k], o, m)
  BY <1>2, <1>7, <1>8, <1>9, WholeParts
<1>12. Holds(TaskIds, Slots, h, S)
  BY <1>6, <1>7, <1>8, <1>10, <1>11, HoldsMove
<1>13. /\ shared_tasks' = [shared_tasks EXCEPT ![e] = o]
       /\ shared_tasks_list' = [shared_tasks_list EXCEPT ![d] = c]
       /\ moved' = [moved EXCEPT ![e] = o]
       /\ scan' = [scan EXCEPT ![e] = <<>>]
       /\ UNCHANGED <<task, yields, dropped>>
  BY <1>1, <1>2, <1>3, <1>5, <1>7, Zenon DEF StopHandOver, WShape
<1>14. Becomes(f, g, e, d, o, c, o)
  BY <1>1, <1>3, <1>4, <1>13, StoreStep, Zenon
<1>15. MovedTo(Slots, h, g, k, j, o, m)
  <2>1. g[k] = o /\ g[j] = c /\ g[i] = o
    BY <1>4, <1>7, <1>14 DEF Becomes
  <2>2. \A r \in Slots \ {i, j, k} : g[r] = f[r]
    BY <1>4, <1>14 DEF Becomes
  <2> QED BY <1>5, <1>9, <2>1, <2>2 DEF MovedTo
<1>16. Holds(TaskIds, Slots, g, S)
  BY <1>7, <1>8, <1>11, <1>12, <1>15, HoldsMove
<1>17. Live' = S
  BY <1>5, <1>13 DEF Live
<1>18. b \in Seq(TaskIds) /\ c \in Seq(TaskIds)
  <2>1. b \in Seq(TaskIds)
    BY <1>5, <1>8, ConcatProperties
  <2> QED BY <1>5, <1>8, <2>1, ConcatProperties
<1>19. WShape'
  <2>1. /\ shared_tasks' \in [Executors -> Seq(TaskIds)]
        /\ shared_tasks_list' \in [Executors -> Seq(TaskIds)]
        /\ moved' \in [Executors -> Seq(TaskIds)]
    BY <1>1, <1>8, <1>13, <1>18, Zenon DEF WShape
  <2>2. scan' \in [Executors -> Seq(Executors)]
    BY <1>1, <1>13 DEF WShape
  <2> QED BY <1>1, <1>13, <2>1, <2>2 DEF WShape
<1> QED BY <1>4, <1>16, <1>17, <1>19 DEF TasksHeld

-----------------------------------------------------------------------------
(* Scans, limits and the invariant *)

\* A step of one executor leaves the scans of the others alone.
LEMMA OthersScan ==
    ASSUME Scans, ScanWithinLimit, NEW e \in Executors,
           \A x \in Executors \ {e} :
              /\ loop'[x] = loop[x] /\ scan'[x] = scan[x] /\ moved'[x] = moved[x]
              /\ tasks_lists'[x] = tasks_lists[x] /\ shared_tasks'[x] = shared_tasks[x],
           scan'[e] # <<>> => loop'[e] \in {"round", "stopped"},
           loop'[e] = "stopped" /\ scan'[e] # <<>> => tasks_lists'[e] # <<>>,
           moved'[e] # <<>> => loop'[e] = "stopped" /\ scan'[e] # <<>>,
           Level <= MaxTaken /\ Scanning(e)' => Len(shared_tasks'[e]) <= MaxTaken
    PROVE  Scans' /\ ScanWithinLimit'
<1>1. ASSUME NEW x \in Executors
      PROVE  /\ scan'[x] # <<>> => loop'[x] \in {"round", "stopped"}
             /\ loop'[x] = "stopped" /\ scan'[x] # <<>> => tasks_lists'[x] # <<>>
             /\ moved'[x] # <<>> => loop'[x] = "stopped" /\ scan'[x] # <<>>
  <2>1. CASE x = e
    BY <2>1
  <2>2. CASE x # e
    BY <2>2 DEF Scans
  <2> QED BY <2>1, <2>2
<1>2. ASSUME Level <= MaxTaken, NEW x \in Executors, Scanning(x)'
      PROVE  Len(shared_tasks'[x]) <= MaxTaken
  <2>1. CASE x = e
    BY <1>2, <2>1
  <2>2. CASE x # e
    BY <1>2, <2>2 DEF ScanWithinLimit, Scanning
  <2> QED BY <2>1, <2>2
<1> QED BY <1>1, <1>2 DEF Scans, ScanWithinLimit

\* The registry's own steps are taken by executors that do not scan.
LEMMA RegistrySteps ==
    ASSUME RInv, WInv, NEW e \in Executors, WRegistry(e) PROVE WInv'
<1>1. WShape /\ Scans /\ TasksHeld /\ ScanWithinLimit /\ Shape
  BY DEF WInv, RInv
<1>2. UNCHANGED <<shared_tasks, shared_tasks_list, scan, moved, task, yields, dropped>>
  BY DEF WRegistry, work
<1>3. /\ loop[e] \notin {"round", "stopped"}
      /\ \A x \in Executors \ {e} : loop'[x] = loop[x] /\ tasks_lists'[x] = tasks_lists[x]
  <2>1. CASE Register(e)
    BY <1>1, <2>1 DEF Register, Shape
  <2>2. CASE CheckVersion(e)
    BY <1>1, <2>2 DEF CheckVersion, Shape
  <2>3. CASE Update(e)
    BY <1>1, <2>3 DEF Update, Shape
  <2> QED BY <2>1, <2>2, <2>3 DEF WRegistry
<1>4. scan[e] = <<>> /\ moved[e] = <<>>
  BY <1>1, <1>3 DEF Scans
<1>5. ~Scanning(e)'
  BY <1>2, <1>4 DEF Scanning
<1>6. Scans' /\ ScanWithinLimit'
  BY <1>1, <1>2, <1>3, <1>4, <1>5, OthersScan
<1>7. WShape' /\ TasksHeld'
  BY <1>1, <1>2, QueuesSame DEF WShape
<1> QED BY <1>6, <1>7 DEF WInv

\* Stopping executors from outside, and stuttering, change nothing that is shared.
LEMMA IdleSteps ==
    ASSUME WInv, UNCHANGED <<work, loop, tasks_lists>> PROVE WInv'
<1>1. UNCHANGED <<shared_tasks, shared_tasks_list, scan, moved, task, yields, dropped>>
  BY DEF work
<1>2. TasksHeld'
  BY <1>1, QueuesSame DEF WInv
<1> QED BY <1>1, <1>2 DEF WInv, WShape, Scans, ScanWithinLimit, Scanning

\* Spawning and executing happen outside of scans.
LEMMA RunSteps ==
    ASSUME WInv, NEW e \in Executors,
           Exec(e) \/ \E t \in TaskIds : Spawn(e, t) \/ SpawnFlush(e, t)
    PROVE  WInv'
<1>1. WShape /\ Scans /\ ScanWithinLimit
  BY DEF WInv
<1>2. /\ AtWork(e) /\ UNCHANGED <<registry, scan, moved>>
      /\ \A x \in Executors \ {e} : shared_tasks'[x] = shared_tasks[x]
  BY <1>1 DEF Exec, Spawn, SpawnFlush, WShape
<1>3. loop' = loop /\ tasks_lists' = tasks_lists /\ scan' = scan /\ moved' = moved
  BY <1>2, Stutter
<1>4. scan[e] = <<>> /\ moved[e] = <<>> /\ ~Scanning(e)'
  BY <1>1, <1>2, <1>3, Zenon DEF AtWork, Scans, Scanning
<1>5. Scans' /\ ScanWithinLimit'
  BY <1>1, <1>2, <1>3, <1>4, OthersScan, Zenon
<1>6. TasksHeld' /\ WShape'
  <2>1. CASE Exec(e)
    BY <2>1, ExecHeld
  <2>2. ASSUME NEW t \in TaskIds, Spawn(e, t) PROVE TasksHeld' /\ WShape'
    <3>1. Append(shared_tasks[e], t) \in Seq(TaskIds)
      BY <1>1 DEF WShape
    <3>2. WShape'
      BY <1>1, <1>3, <2>2, <3>1 DEF Spawn, IsNext, WShape
    <3> QED BY <2>2, <3>2, SpawnHeld
  <2>3. ASSUME NEW t \in TaskIds, SpawnFlush(e, t) PROVE TasksHeld' /\ WShape'
    <3>1. TasksHeld'
      BY <2>3, SpawnFlushHeld
    <3>2. \A x \in Executors : shared_tasks'[x] \in Seq(TaskIds)
                               /\ shared_tasks_list'[x] \in Seq(TaskIds)
      <4>1. PICK g : g = Store'
        OBVIOUS
      <4>2. \A r \in Slots : g[r] \in Seq(TaskIds)
        BY <3>1, <4>1 DEF TasksHeld, Holds
      <4>3. \A x \in Executors : /\ <<"deque", x>> \in Slots /\ <<"list", x>> \in Slots
                                 /\ g[<<"deque", x>>] = shared_tasks'[x]
                                 /\ g[<<"list", x>>] = shared_tasks_list'[x]
        BY <4>1 DEF Store, Slots
      <4> QED BY <4>2, <4>3, Zenon
    <3>3. /\ shared_tasks' = [x \in Executors |-> shared_tasks'[x]]
          /\ shared_tasks_list' = [x \in Executors |-> shared_tasks_list'[x]]
      BY <1>1, <2>3, Zenon DEF SpawnFlush, WShape
    <3>4. /\ shared_tasks' \in [Executors -> Seq(TaskIds)]
          /\ shared_tasks_list' \in [Executors -> Seq(TaskIds)]
      BY <3>2, <3>3
    <3>5. /\ task' = [task EXCEPT ![t] = "live"] /\ task[t] = "new"
          /\ yields' = yields /\ dropped' = dropped
      BY <2>3 DEF SpawnFlush, IsNext
    <3>6. WShape'
      BY <1>1, <1>3, <3>4, <3>5 DEF WShape
    <3> QED BY <3>1, <3>6
  <2> QED BY <2>1, <2>2, <2>3
<1> QED BY <1>5, <1>6 DEF WInv

\* The end of a round.
LEMMA RoundSteps ==
    ASSUME WInv, NEW e \in Executors, TakeNothing(e) \/ TakeOwn(e), Shape
    PROVE  WInv'
<1>1. WShape /\ Scans /\ TasksHeld /\ ScanWithinLimit
  BY DEF WInv
<1>2. /\ AtWork(e) /\ Round(e) /\ scan' = scan /\ moved' = moved
      /\ \A x \in Executors \ {e} : shared_tasks'[x] = shared_tasks[x]
  BY <1>1, Zenon DEF TakeNothing, TakeOwn, work, WShape
<1>3. tasks_lists' = tasks_lists /\ \A x \in Executors \ {e} : loop'[x] = loop[x]
  BY <1>2 DEF Round, Shape
<1>4. scan[e] = <<>> /\ moved[e] = <<>> /\ ~Scanning(e)'
  BY <1>1, <1>2 DEF AtWork, Scans, Scanning
<1>5. Scans' /\ ScanWithinLimit'
  BY <1>1, <1>2, <1>3, <1>4, OthersScan, Zenon
<1>6. TasksHeld' /\ WShape'
  <2>1. CASE TakeOwn(e)
    BY <2>1, TakeOwnHeld
  <2>2. CASE TakeNothing(e)
    <3>1. UNCHANGED <<shared_tasks, shared_tasks_list, scan, moved, task, yields, dropped>>
      BY <2>2 DEF TakeNothing, work
    <3> QED BY <1>1, <3>1, QueuesSame DEF WShape
  <2> QED BY <2>1, <2>2
<1> QED BY <1>5, <1>6 DEF WInv

\* The scan of the neighbours begins below the level and takes up to the maximum.
LEMMA ScanSteps ==
    ASSUME RInv, WInv, NEW e \in Executors, ScanBegin(e) \/ TakeBatch(e) \/ SkipBatch(e)
    PROVE  WInv'
<1>1. WShape /\ Scans /\ TasksHeld /\ ScanWithinLimit /\ Shape
  BY DEF WInv, RInv
<1>2. loop[e] = "round" /\ moved[e] = <<>> /\ moved' = moved
  BY <1>1, Zenon DEF ScanBegin, TakeBatch, SkipBatch, AtWork, Scanning, Scans
<1>3. CASE ScanBegin(e)
  <2>1. PICK n \in DOMAIN tasks_lists[e] : scan' = [scan EXCEPT ![e] = FirstOf(tasks_lists[e], n)]
    BY <1>3, Zenon DEF ScanBegin
  <2>2. tasks_lists[e] \in Seq(Executors)
    BY DEF RInv, Lists
  <2>3. FirstOf(tasks_lists[e], n) \in Seq(Executors)
    <3>1. PICK l : l = tasks_lists[e]
      OBVIOUS
    <3>2. l \in Seq(Executors) /\ n \in 0 .. Len(l)
      BY <2>1, <2>2, <3>1
    <3>3. SplitOf(Executors, l, n, SubSeq(l, 1, n), SubSeq(l, n + 1, Len(l)))
      BY <3>2, Split
    <3> QED BY <3>1, <3>3 DEF SplitOf, FirstOf
  <2>4. scan' \in [Executors -> Seq(Executors)] /\ \A x \in Executors \ {e} : scan'[x] = scan[x]
    BY <1>1, <2>1, <2>3 DEF WShape
  <2>5. /\ UNCHANGED <<registry, shared_tasks, shared_tasks_list, moved, task, yields, dropped>>
        /\ Len(shared_tasks[e]) < Level
    BY <1>3 DEF ScanBegin
  <2>6. loop' = loop /\ tasks_lists' = tasks_lists
    BY <2>5, Stutter
  <2>7. Level <= MaxTaken => Len(shared_tasks'[e]) <= MaxTaken
    BY <1>1, <2>5, LevelPositive, MaxTakenNat DEF WShape
  <2>8. Scans' /\ ScanWithinLimit'
    BY <1>1, <1>2, <2>4, <2>5, <2>6, <2>7, OthersScan, Zenon
  <2>9. TasksHeld' /\ WShape'
    BY <1>1, <2>4, <2>5, QueuesSame DEF WShape
  <2> QED BY <2>8, <2>9 DEF WInv
<1>4. ASSUME AfterScan(e), scan' \in [Executors -> Seq(Executors)],
             \A x \in Executors \ {e} : scan'[x] = scan[x] /\ shared_tasks'[x] = shared_tasks[x],
             Len(shared_tasks[e]) <= MaxTaken => Len(shared_tasks'[e]) <= MaxTaken,
             Scanning(e)
      PROVE  Scans' /\ ScanWithinLimit'
  <2>1. /\ tasks_lists' = tasks_lists /\ \A x \in Executors \ {e} : loop'[x] = loop[x]
        /\ scan'[e] # <<>> => loop'[e] = "round"
    <3>1. CASE scan'[e] = <<>>
      BY <1>1, <1>4, <3>1, Zenon DEF AfterScan, Round, Shape
    <3>2. CASE scan'[e] # <<>>
      <4>1. UNCHANGED registry
        BY <1>4, <3>2 DEF AfterScan
      <4> QED BY <1>2, <4>1, Stutter, Zenon
    <3> QED BY <3>1, <3>2
  <2>2. Level <= MaxTaken => Len(shared_tasks'[e]) <= MaxTaken
    BY <1>1, <1>4 DEF ScanWithinLimit
  <2> QED BY <1>1, <1>2, <1>4, <2>1, <2>2, OthersScan
<1>5. CASE TakeBatch(e)
  <2>1. /\ TasksHeld' /\ WShape'
        /\ Len(shared_tasks[e]) <= MaxTaken => Len(shared_tasks'[e]) <= MaxTaken
        /\ \A x \in Executors \ {e} : shared_tasks'[x] = shared_tasks[x]
    BY <1>5, TakeBatchHeld
  <2>2. /\ AfterScan(e) /\ Scanning(e)
        /\ \A x \in Executors \ {e} : scan'[x] = scan[x]
    BY <1>1, <1>5 DEF TakeBatch, WShape
  <2>3. scan' \in [Executors -> Seq(Executors)]
    BY <2>1 DEF WShape
  <2> QED BY <1>4, <2>1, <2>2, <2>3 DEF WInv
<1>6. CASE SkipBatch(e)
  <2>1. /\ AfterScan(e) /\ Scanning(e)
        /\ UNCHANGED <<shared_tasks, shared_tasks_list, moved, task, yields, dropped>>
    BY <1>6 DEF SkipBatch
  <2>2. PICK rest : /\ scan' = [scan EXCEPT ![e] = rest]
                    /\ rest = IF Len(shared_tasks[e]) = MaxTaken THEN <<>> ELSE Tail(scan[e])
    BY <1>1, <1>6, Zenon DEF SkipBatch, WShape
  <2>3. rest \in Seq(Executors)
    <3>1. Tail(scan[e]) \in Seq(Executors)
      BY <1>1, <2>1, HeadTailProperties DEF WShape, Scanning
    <3> QED BY <2>2, <3>1
  <2>4. scan' \in [Executors -> Seq(Executors)] /\ \A x \in Executors \ {e} : scan'[x] = scan[x]
    BY <1>1, <2>2, <2>3 DEF WShape
  <2>5. Scans' /\ ScanWithinLimit'
    BY <1>4, <2>1, <2>4
  <2>6. TasksHeld' /\ WShape'
    BY <1>1, <2>1, <2>4, QueuesSame DEF WShape
  <2> QED BY <2>5, <2>6 DEF WInv
<1> QED BY <1>3, <1>5, <1>6

\* graceful_stop.
LEMMA StopSteps ==
    ASSUME RInv, WInv, NEW e \in Executors, WGracefulStop(e) PROVE WInv'
<1>1. WShape /\ Scans /\ ScanWithinLimit /\ Shape /\ tasks_lists \in [Executors -> Seq(Executors)]
  BY DEF WInv, RInv, Lists
<1>2. CASE StopAlone(e)
  <2>1. /\ tasks_lists' = tasks_lists /\ loop[e] = "stopped" /\ loop'[e] = "off"
        /\ \A x \in Executors \ {e} : loop'[x] = loop[x]
    BY <1>1, <1>2 DEF StopAlone, GracefulStop, Shape
  <2>2. scan[e] = <<>> /\ moved[e] = <<>>
    BY <1>1, <1>2, <2>1 DEF StopAlone, Scans
  <2>3. /\ scan' = scan /\ moved' = moved
        /\ \A x \in Executors \ {e} : shared_tasks'[x] = shared_tasks[x]
    BY <1>1, <1>2 DEF StopAlone, WShape
  <2>4. ~Scanning(e)'
    BY <2>1 DEF Scanning
  <2>5. Scans' /\ ScanWithinLimit'
    BY <1>1, <2>1, <2>2, <2>3, <2>4, OthersScan
  <2> QED BY <1>2, <2>5, StopAloneHeld DEF WInv
<1>3. CASE StopDrain(e)
  <2>1. /\ UNCHANGED registry /\ loop[e] = "stopped" /\ tasks_lists[e] # <<>>
        /\ shared_tasks' = shared_tasks
    BY <1>3 DEF StopDrain
  <2>2. loop' = loop /\ tasks_lists' = tasks_lists
    BY <2>1, Stutter
  <2>3. /\ scan'[e] # <<>>
        /\ \A x \in Executors \ {e} : scan'[x] = scan[x] /\ moved'[x] = moved[x]
    BY <1>1, <1>3 DEF StopDrain, WShape
  <2>4. ~Scanning(e)'
    BY <2>1, <2>2 DEF Scanning
  <2>5. Scans' /\ ScanWithinLimit'
    BY <1>1, <2>1, <2>2, <2>3, <2>4, OthersScan
  <2> QED BY <1>1, <1>3, <2>5, StopDrainHeld DEF WInv
<1>4. CASE StopHandOver(e)
  <2>1. /\ tasks_lists' = tasks_lists /\ loop'[e] = "off"
        /\ \A x \in Executors \ {e} : loop'[x] = loop[x]
    BY <1>1, <1>4 DEF StopHandOver, GracefulStop, Shape
  <2>2. /\ scan'[e] = <<>> /\ moved'[e] = <<>>
        /\ \A x \in Executors \ {e} :
              scan'[x] = scan[x] /\ moved'[x] = moved[x] /\ shared_tasks'[x] = shared_tasks[x]
    BY <1>1, <1>4 DEF StopHandOver, WShape
  <2>3. ~Scanning(e)'
    BY <2>1 DEF Scanning
  <2>4. Scans' /\ ScanWithinLimit'
    BY <1>1, <2>1, <2>2, <2>3, OthersScan
  <2> QED BY <1>4, <2>4, StopHandOverHeld DEF WInv
<1> QED BY <1>2, <1>3, <1>4 DEF WGracefulStop

-----------------------------------------------------------------------------
(* The places of a task *)

\* c is the place of task t at index i of the queue named k of executor e.
At(t, c, k, e, i) ==
    /\ c = <<k, e, i>> /\ <<k, e>> \in Slots
    /\ i \in DOMAIN Store[<<k, e>>] /\ Store[<<k, e>>][i] = t

\* The places of a task in one kind of queue.
LEMMA InPlaces ==
    ASSUME NEW t, NEW name, NEW family, NEW c
    PROVE  c \in PlacesIn(t, name, family) <=>
               \E e \in Executors : \E i \in DOMAIN family[e] :
                   family[e][i] = t /\ c = <<name, e, i>>
<1> DEFINE Here(e) == {k \in DOMAIN family[e] : family[e][k] = t}
           Spots(e) == {<<name, e, i>> : i \in Here(e)}
<1>1. c \in PlacesIn(t, name, family) <=> \E e \in Executors : c \in Spots(e)
  BY DEF PlacesIn
<1>2. \A e : c \in Spots(e) <=> \E i \in DOMAIN family[e] : family[e][i] = t /\ c = <<name, e, i>>
  OBVIOUS
<1> QED BY <1>1, <1>2

\* The copies of a task are its places in the family of queues.
LEMMA CopiesAt ==
    ASSUME NEW t
    PROVE  /\ \A c \in Copies(t) : \E k, e, i : At(t, c, k, e, i)
           /\ \A c, k, e, i : At(t, c, k, e, i) => c \in Copies(t)
<1>1. \A e \in Executors :
         /\ <<"deque", e>> \in Slots /\ Store[<<"deque", e>>] = shared_tasks[e]
         /\ <<"list", e>> \in Slots /\ Store[<<"list", e>>] = shared_tasks_list[e]
         /\ <<"moved", e>> \in Slots /\ Store[<<"moved", e>>] = moved[e]
  BY StoreAt, Zenon
<1>2. ASSUME NEW c \in Copies(t) PROVE \E k, e, i : At(t, c, k, e, i)
  <2>1. CASE c \in PlacesIn(t, "deque", shared_tasks)
    <3>1. PICK e \in Executors : \E i \in DOMAIN shared_tasks[e] : shared_tasks[e][i] = t /\ c = <<"deque", e, i>>
      BY <2>1, InPlaces
    <3>2. PICK i \in DOMAIN shared_tasks[e] : shared_tasks[e][i] = t /\ c = <<"deque", e, i>>
      BY <3>1
    <3>3. At(t, c, "deque", e, i)
      BY <1>1, <3>2, Zenon DEF At
    <3> QED BY <3>3, Zenon
  <2>2. CASE c \in PlacesIn(t, "list", shared_tasks_list)
    <3>1. PICK e \in Executors : \E i \in DOMAIN shared_tasks_list[e] : shared_tasks_list[e][i] = t /\ c = <<"list", e, i>>
      BY <2>2, InPlaces
    <3>2. PICK i \in DOMAIN shared_tasks_list[e] : shared_tasks_list[e][i] = t /\ c = <<"list", e, i>>
      BY <3>1
    <3>3. At(t, c, "list", e, i)
      BY <1>1, <3>2, Zenon DEF At
    <3> QED BY <3>3, Zenon
  <2>3. CASE c \in PlacesIn(t, "moved", moved)
    <3>1. PICK e \in Executors : \E i \in DOMAIN moved[e] : moved[e][i] = t /\ c = <<"moved", e, i>>
      BY <2>3, InPlaces
    <3>2. PICK i \in DOMAIN moved[e] : moved[e][i] = t /\ c = <<"moved", e, i>>
      BY <3>1
    <3>3. At(t, c, "moved", e, i)
      BY <1>1, <3>2, Zenon DEF At
    <3> QED BY <3>3, Zenon
  <2> QED BY <2>1, <2>2, <2>3 DEF Copies
<1>3. ASSUME NEW c, NEW k, NEW e, NEW i, At(t, c, k, e, i) PROVE c \in Copies(t)
  <2>1. k \in {"deque", "list", "moved"} /\ e \in Executors
    BY <1>3 DEF At, Slots
  <2>2. CASE k = "deque"
    <3>1. i \in DOMAIN shared_tasks[e] /\ shared_tasks[e][i] = t /\ c = <<"deque", e, i>>
      BY <1>1, <1>3, <2>1, <2>2, Zenon DEF At
    <3> QED BY <2>1, <3>1, InPlaces DEF Copies
  <2>3. CASE k = "list"
    <3>1. i \in DOMAIN shared_tasks_list[e] /\ shared_tasks_list[e][i] = t /\ c = <<"list", e, i>>
      BY <1>1, <1>3, <2>1, <2>3, Zenon DEF At
    <3> QED BY <2>1, <3>1, InPlaces DEF Copies
  <2>4. CASE k = "moved"
    <3>1. i \in DOMAIN moved[e] /\ moved[e][i] = t /\ c = <<"moved", e, i>>
      BY <1>1, <1>3, <2>1, <2>4, Zenon DEF At
    <3> QED BY <2>1, <3>1, InPlaces DEF Copies
  <2> QED BY <2>1, <2>2, <2>3, <2>4
<1> QED BY <1>2, <1>3

\* What the family of queues holds is in one place.
LEMMA HeldIsConserved == WInv => Conservation
<1> SUFFICES ASSUME WInv, NEW t \in TaskIds
             PROVE  IF task[t] \in {"new", "done"} \/ t \in dropped THEN Copies(t) = {}
                    ELSE \E p \in Copies(t) : Copies(t) = {p}
  BY Zenon DEF Conservation
<1>1. WShape /\ TasksHeld
  BY DEF WInv
<1>2. PICK f, S : f = Store /\ S = Live /\ Holds(TaskIds, Slots, f, S)
  BY <1>1 DEF TasksHeld
<1>3. t \in S <=> ~(task[t] \in {"new", "done"} \/ t \in dropped)
  BY <1>1, <1>2 DEF Live, WShape
<1>4. CASE t \notin S
  <2>1. \A r \in Slots : t \notin Range(f[r])
    BY <1>2, <1>4 DEF Holds
  <2>2. \A c, k, e, i : ~At(t, c, k, e, i)
    BY <1>2, <2>1 DEF At, Range
  <2>3. Copies(t) = {}
    BY <2>2, CopiesAt
  <2> QED BY <1>3, <1>4, <2>3
<1>5. CASE t \in S
  <2>1. PICK p \in Slots : t \in Range(f[p])
    BY <1>2, <1>5 DEF Holds
  <2>2. \A r \in Slots : t \in Range(f[r]) => r = p
    BY <1>2, <2>1, Zenon DEF Holds
  <2>3. Distinct(f[p])
    BY <1>2, <2>1 DEF Holds
  <2>4. PICK k, e : p = <<k, e>>
    BY DEF Slots
  <2>5. PICK i \in DOMAIN f[p] : f[p][i] = t
    BY <2>1 DEF Range
  <2>6. <<k, e, i>> \in Copies(t)
    BY <1>2, <2>4, <2>5, CopiesAt DEF At
  <2>7. ASSUME NEW c \in Copies(t) PROVE c = <<k, e, i>>
    <3>1. PICK l, x, j : At(t, c, l, x, j)
      BY <2>7, CopiesAt
    <3>2. <<l, x>> = p /\ j \in DOMAIN f[p] /\ f[p][j] = t
      BY <1>2, <2>2, <3>1 DEF At, Range
    <3>3. j = i
      BY <2>3, <2>5, <3>2 DEF Distinct
    <3>4. l = k /\ x = e
      BY <2>4, <3>2
    <3> QED BY <3>1, <3>3, <3>4 DEF At
  <2>8. Copies(t) = {<<k, e, i>>}
    BY <2>6, <2>7
  <2> QED BY <1>3, <1>5, <2>8, Zenon
<1> QED BY <1>4, <1>5

\* Work sharing takes the registry's steps or none.
LEMMA SharesRegistry == [WNext]_wvars => [Next]_registry
<1> SUFFICES ASSUME [WNext]_wvars PROVE [Next]_registry
  OBVIOUS
<1>1. CASE UNCHANGED wvars
  BY <1>1 DEF wvars
<1>2. ASSUME NEW e \in Executors, WRegistry(e) PROVE Next
  BY <1>2 DEF WRegistry, Next
<1>3. ASSUME NEW e \in Executors, WGracefulStop(e) PROVE [Next]_registry
  BY <1>3, Zenon DEF WGracefulStop, StopAlone, StopDrain, StopHandOver, Next
<1>4. ASSUME NEW e \in Executors, Exec(e) PROVE UNCHANGED registry
  BY <1>4 DEF Exec
<1>5. ASSUME NEW e \in Executors, Take(e) PROVE [Next]_registry
  BY <1>5, Zenon DEF Take, TakeNothing, TakeOwn, ScanBegin, TakeBatch, SkipBatch, AfterScan, Next
<1>6. ASSUME NEW e \in Executors, NEW t \in TaskIds, Spawn(e, t) \/ SpawnFlush(e, t)
      PROVE  UNCHANGED registry
  BY <1>6, Zenon DEF Spawn, SpawnFlush
<1>7. CASE WStop
  BY <1>7 DEF WStop, Next
<1> QED BY <1>1, <1>2, <1>3, <1>4, <1>5, <1>6, <1>7, Zenon DEF WNext

\* Every flush, take and hand-over moves tasks without losing or copying one, for every level
\* and maximum; when the level is at most the maximum, a scan for others' work never asks for a
\* negative number of tasks.
THEOREM WorkSharingCorrect == WSpec => []WorkIsKept
<1>1. RInv /\ WInv /\ [WNext]_wvars => WInv'
  <2> SUFFICES ASSUME RInv, WInv, [WNext]_wvars PROVE WInv'
    OBVIOUS
  <2>0. Shape
    BY DEF RInv
  <2>1. CASE UNCHANGED wvars
    <3>1. UNCHANGED <<registry, work>>
      BY <2>1 DEF wvars
    <3> QED BY <3>1, Stutter, IdleSteps
  <2>2. CASE WStop
    <3>1. UNCHANGED work /\ UNCHANGED <<loop, tasks_lists>>
      <4>1. PICK S \in SUBSET Executors : \E rest : Stop(S, rest)
        BY <2>2, Stops, Zenon DEF WStop
      <4>2. PICK rest : Stop(S, rest)
        BY <4>1
      <4> QED BY <2>2, <4>2 DEF WStop, Stop
    <3> QED BY <3>1, IdleSteps
  <2>3. ASSUME NEW e \in Executors, WRegistry(e) PROVE WInv'
    BY <2>3, RegistrySteps
  <2>4. ASSUME NEW e \in Executors, WGracefulStop(e) PROVE WInv'
    BY <2>4, StopSteps
  <2>5. ASSUME NEW e \in Executors, Exec(e) PROVE WInv'
    BY <2>5, RunSteps
  <2>6. ASSUME NEW e \in Executors, Take(e) PROVE WInv'
    BY <2>0, <2>6, RoundSteps, ScanSteps DEF Take
  <2>7. ASSUME NEW e \in Executors, NEW t \in TaskIds, Spawn(e, t) \/ SpawnFlush(e, t)
        PROVE  WInv'
    BY <2>7, RunSteps
  <2> QED BY <2>1, <2>2, <2>3, <2>4, <2>5, <2>6, <2>7, Zenon DEF WNext
<1>2. RInv /\ WInv => WorkIsKept
  <2> SUFFICES ASSUME RInv, WInv PROVE WorkIsKept
    OBVIOUS
  <2>1. WTypeOK
    BY RegistryTypes DEF WInv, WShape, Scans, WTypeOK
  <2> QED BY <2>1, HeldIsConserved DEF WInv, WorkIsKept
<1>3. WInit => RInv /\ WInv
  BY RegistryInit, WorkInit DEF WInit
<1>4. RInv /\ [WNext]_wvars => RInv'
  BY SharesRegistry, VersionsStep, SeenStep, ViewsStep, ListsStep DEF RInv
<1> QED
  BY <1>1, <1>2, <1>3, <1>4, PTL DEF WSpec

=============================================================================
