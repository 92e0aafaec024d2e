-------------------------- MODULE InteractorProofs --------------------------
(***************************************************************************)
(* Proofs about the registry of executors, the copies that executors have   *)
(* of it and the sending of tasks between them, for any set of executors    *)
(* and tasks and any number of registrations and stops.                     *)
(*                                                                          *)
(* The registry's invariant follows the versions, that a registered         *)
(* executor has been told the latest one and nobody has processed a version *)
(* that it was not told, and the lists, which name every registered         *)
(* executor once.  The interactor uses the registry as the registry allows, *)
(* so what the registry guarantees holds under it; the map of targets is    *)
(* exact when the copy of the registry is; and a task that was sent moves   *)
(* from a batch to an inbox to an executor and is in one of them only.  A   *)
(* task that is lost was in a batch of a sender that has seen a change of   *)
(* the registry since, for which the invariant ties the version at which a  *)
(* task in a batch was sent to the one its sender has processed; or it was  *)
(* at the executor it was sent to, which has stopped.                       *)
(***************************************************************************)
EXTENDS Interactor, Queues

\* The types of all variables but the lists.
Shape ==
    /\ version \in Nat
    /\ alive \subseteq Executors
    /\ current_version \in [Executors -> Nat]
    /\ processed_version \in [Executors -> Nat \cup {-1}]
    /\ tasks_lists = [e \in Executors |-> tasks_lists[e]]
    /\ loop \in [Executors -> Loop]
    /\ stops \in Nat

\* What the versions say.
Versions ==
    \A e \in Executors :
        /\ e \in alive => current_version[e] = version /\ Running(e)
        /\ loop[e] = "new" => processed_version[e] = -1
        /\ processed_version[e] <= current_version[e]

\* What the lists say: the registry's names the registered executors, each once, and a copy
\* never names its owner.
Lists ==
    /\ lists \in Seq(Executors) /\ Once(lists, alive)
    /\ tasks_lists \in [Executors -> Seq(Executors)]
    /\ \A e \in Executors : e \notin Range(tasks_lists[e])

RInv == Shape /\ Versions /\ Lists /\ ChangesAreSeen /\ UpToDateViews

\* Without registered executors there is nothing to see.
LEMMA RegistryInit == Init => RInv
<1> SUFFICES ASSUME Init PROVE RInv
  OBVIOUS
<1>1. Shape /\ Versions /\ ChangesAreSeen /\ UpToDateViews
  BY MaxStopsNat DEF Init, Shape, Versions, ChangesAreSeen, UpToDateViews, Loop
<1>2. lists = <<>> /\ alive = {} /\ tasks_lists = [e \in Executors |-> <<>>]
  BY DEF Init
<1>3. Lists
  BY <1>2, OnceEmpty, RangeEmpty DEF Lists
<1> QED BY <1>1, <1>3 DEF RInv

\* A stuttering step leaves every variable as it is.
LEMMA Stutter ==
    UNCHANGED registry => UNCHANGED <<version, alive, lists, current_version>>
                          /\ UNCHANGED <<processed_version, tasks_lists, loop, stops>>
  BY DEF registry

\* The two ways to stop executors.
LEMMA Stops ==
    StopExecutor \/ StopAllExecutors => \E S \in SUBSET Executors : \E rest : Stop(S, rest)
<1>1. StopExecutor => \E S \in SUBSET Executors : \E rest : Stop(S, rest)
  <2> SUFFICES ASSUME NEW e \in Executors, Stop({e}, Without(lists, e))
               PROVE  \E S \in SUBSET Executors : \E rest : Stop(S, rest)
    BY Zenon DEF StopExecutor
  <2>1. {e} \in SUBSET Executors
    OBVIOUS
  <2> QED BY <2>1, Zenon
<1>2. StopAllExecutors => \E S \in SUBSET Executors : \E rest : Stop(S, rest)
  <2>1. Executors \in SUBSET Executors
    OBVIOUS
  <2> QED BY <2>1, Zenon DEF StopAllExecutors
<1> QED BY <1>1, <1>2

\* Types and versions: registering and stopping tell every registered executor the new
\* version, which nobody has processed.
LEMMA VersionsStep == RInv /\ [Next]_registry => Shape' /\ Versions'
<1> SUFFICES ASSUME RInv, [Next]_registry PROVE Shape' /\ Versions'
  OBVIOUS
<1>0. Shape /\ Versions
  BY DEF RInv
<1> USE <1>0 DEF Shape, Versions, Running, Loop
<1>1. CASE UNCHANGED registry
  BY <1>1, Stutter
<1>2. ASSUME NEW e \in Executors, Register(e) PROVE Shape' /\ Versions'
  <2>1. Shape'
    <3>1. PICK view : tasks_lists' = [tasks_lists EXCEPT ![e] = view]
      BY <1>2, Zenon DEF Register
    <3>2. tasks_lists' = [d \in Executors |-> tasks_lists'[d]]
      BY <3>1
    <3>3. version' \in Nat /\ current_version' \in [Executors -> Nat]
      BY <1>2 DEF Register, SetVersion
    <3> QED BY <1>2, <3>2, <3>3, Zenon DEF Register
  <2>2. \A d \in Executors : d \in alive' => current_version'[d] = version' /\ Running(d)'
    BY <1>2 DEF Register, SetVersion
  <2>3. \A d \in Executors : loop'[d] = "new" => processed_version'[d] = -1
    BY <1>2 DEF Register
  <2>4. \A d \in Executors : processed_version'[d] <= current_version'[d]
    <3> SUFFICES ASSUME NEW d \in Executors PROVE processed_version[d] <= current_version'[d]
      BY <1>2, Zenon DEF Register
    <3>1. CASE d = e
      BY <1>2, <3>1 DEF Register, SetVersion
    <3>2. CASE d # e
      BY <1>2, <3>2 DEF Register, SetVersion
    <3> QED BY <3>1, <3>2
  <2> QED BY <2>1, <2>2, <2>3, <2>4
<1>3. ASSUME NEW e \in Executors, CheckVersion(e) PROVE Shape' /\ Versions'
  <2>1. CASE processed_version[e] = current_version[e]
    BY <1>3, <2>1 DEF CheckVersion
  <2>2. CASE processed_version[e] # current_version[e]
    BY <1>3, <2>2 DEF CheckVersion
  <2> QED BY <2>1, <2>2
<1>4. ASSUME NEW e \in Executors, Update(e) PROVE Shape' /\ Versions'
  BY <1>4 DEF Update
<1>5. ASSUME NEW e \in Executors, Round(e) PROVE Shape' /\ Versions'
  BY <1>5 DEF Round
<1>6. ASSUME NEW e \in Executors, GracefulStop(e) PROVE Shape' /\ Versions'
  BY <1>6 DEF GracefulStop
<1>7. ASSUME NEW S \in SUBSET Executors, NEW rest, Stop(S, rest) PROVE Shape' /\ Versions'
  <2>1. Shape'
    BY <1>7 DEF Stop, SetVersion
  <2>2. \A d \in Executors : d \in alive' => current_version'[d] = version' /\ Running(d)'
    BY <1>7 DEF Stop, SetVersion
  <2>3. \A d \in Executors : loop'[d] = "new" => processed_version'[d] = -1
    BY <1>7 DEF Stop
  <2>4. \A d \in Executors : processed_version'[d] <= current_version'[d]
    BY <1>7 DEF Stop, SetVersion
  <2> QED BY <2>1, <2>2, <2>3, <2>4
<1> QED
  BY <1>1, <1>2, <1>3, <1>4, <1>5, <1>6, <1>7, Stops, Zenon DEF Next

\* An executor that is removed is told a version it has not processed; from then on its
\* version does not change, so it still sees the difference when it looks.
LEMMA SeenStep == RInv /\ [Next]_registry => ChangesAreSeen'
<1> SUFFICES ASSUME RInv, [Next]_registry PROVE ChangesAreSeen'
  OBVIOUS
<1>0. Shape /\ Versions /\ ChangesAreSeen
  BY DEF RInv
<1> USE <1>0 DEF Shape, Versions, Running, Loop, ChangesAreSeen
<1>1. CASE UNCHANGED registry
  BY <1>1, Stutter
<1>2. ASSUME NEW e \in Executors, Register(e) PROVE ChangesAreSeen'
  BY <1>2 DEF Register, SetVersion
<1>3. ASSUME NEW e \in Executors, CheckVersion(e) PROVE ChangesAreSeen'
  BY <1>3 DEF CheckVersion
<1>4. ASSUME NEW e \in Executors, Update(e) PROVE ChangesAreSeen'
  BY <1>4 DEF Update
<1>5. ASSUME NEW e \in Executors, Round(e) PROVE ChangesAreSeen'
  BY <1>5 DEF Round
<1>6. ASSUME NEW e \in Executors, GracefulStop(e) PROVE ChangesAreSeen'
  BY <1>6 DEF GracefulStop
<1>7. ASSUME NEW S \in SUBSET Executors, NEW rest, Stop(S, rest) PROVE ChangesAreSeen'
  BY <1>7 DEF Stop, SetVersion
<1> QED
  BY <1>1, <1>2, <1>3, <1>4, <1>5, <1>6, <1>7, Stops, Zenon DEF Next

\* The registry changes only together with the version, and a copy of it is made under
\* the lock, so it can be older than the version only if that was not processed yet.
LEMMA ViewsStep == RInv /\ [Next]_registry => UpToDateViews'
<1> SUFFICES ASSUME RInv, [Next]_registry PROVE UpToDateViews'
  OBVIOUS
<1>0. Shape /\ Versions /\ UpToDateViews
  BY DEF RInv
<1> USE <1>0 DEF Shape, Versions, Running, Loop, UpToDateViews
<1>1. CASE UNCHANGED registry
  BY <1>1, Stutter
<1>2. ASSUME NEW e \in Executors, Register(e) PROVE UpToDateViews'
  <2>1. \A d \in alive' : processed_version'[d] # version'
    BY <1>2 DEF Register
  <2> QED BY <2>1
<1>3. ASSUME NEW e \in Executors, CheckVersion(e) PROVE UpToDateViews'
  BY <1>3 DEF CheckVersion
<1>4. ASSUME NEW e \in Executors, Update(e) PROVE UpToDateViews'
  <2>1. /\ alive' = alive /\ version' = version /\ lists' = lists
        /\ processed_version' = processed_version
        /\ \A d \in Executors \ {e} : loop'[d] = loop[d] /\ tasks_lists'[d] = tasks_lists[d]
    BY <1>4 DEF Update
  <2>2. e \in alive => tasks_lists'[e] = Validated(lists, e)
    BY <1>4 DEF Update
  <2>3. ASSUME NEW d \in alive, loop'[d] \in {"check", "round"},
               processed_version[d] = version
        PROVE  tasks_lists'[d] = Validated(lists, d)
    <3>1. CASE d = e
      BY <2>2, <3>1
    <3>2. CASE d # e
      BY <2>1, <2>3, <3>2
    <3> QED BY <3>1, <3>2
  <2> QED BY <2>1, <2>3
<1>5. ASSUME NEW e \in Executors, Round(e) PROVE UpToDateViews'
  BY <1>5 DEF Round
<1>6. ASSUME NEW e \in Executors, GracefulStop(e) PROVE UpToDateViews'
  BY <1>6 DEF GracefulStop
<1>7. ASSUME NEW S \in SUBSET Executors, NEW rest, Stop(S, rest) PROVE UpToDateViews'
  <2>1. \A d \in alive' : processed_version'[d] # version'
    BY <1>7 DEF Stop
  <2> QED BY <2>1
<1> QED
  BY <1>1, <1>2, <1>3, <1>4, <1>5, <1>6, <1>7, Stops, Zenon DEF Next

\* The list without an executor, and the list as an executor copies it.
LEMMA WithoutFacts ==
    ASSUME NEW l \in Seq(Executors), NEW S, Once(l, S), NEW e
    PROVE  Without(l, e) \in Seq(Executors) /\ Once(Without(l, e), S \ {e})
<1>1. CASE e \in Range(l)
  <2>1. PICK i \in DOMAIN l : i = CHOOSE k \in DOMAIN l : l[k] = e
    BY <1>1 DEF Range
  <2>2. l[i] = e
    BY <1>1, <2>1 DEF Range
  <2>3. Without(l, e) = SubSeq(l, 1, i - 1) \o SubSeq(l, i + 1, Len(l))
    BY <1>1, <2>1, Zenon DEF Without
  <2>4. PICK r : r = SubSeq(l, 1, i - 1) \o SubSeq(l, i + 1, Len(l))
    BY Zenon
  <2>5. r \in Seq(Executors) /\ Once(r, S \ {l[i]})
    BY <2>4, OnceCut
  <2> QED BY <2>2, <2>3, <2>4, <2>5
<1>2. CASE e \notin Range(l)
  <2>1. S \ {e} = S
    BY <1>2 DEF Once, Range
  <2> QED BY <1>2, <2>1, Zenon DEF Without
<1> QED BY <1>1, <1>2

\* The copy an executor makes of the list of the registry: the executors behind it first,
\* then those before it, never itself.
LEMMA ValidatedFacts ==
    ASSUME NEW l \in Seq(Executors), NEW S, Once(l, S), NEW e \in S
    PROVE  /\ Validated(l, e) \in Seq(Executors) /\ e \notin Range(Validated(l, e))
           /\ \E i \in DOMAIN l :
                 /\ l[i] = e
                 /\ Len(l) > 1 => Head(Validated(l, e)) = IF i < Len(l) THEN l[i + 1] ELSE l[1]
<1>1. PICK i \in DOMAIN l : l[i] = e /\ i = CHOOSE k \in DOMAIN l : l[k] = e
  BY DEF Once
<1>2. PICK v : v = SubSeq(l, i + 1, Len(l)) \o SubSeq(l, 1, i - 1)
  BY Zenon
<1>3. Validated(l, e) = v
  BY <1>1, <1>2 DEF Validated
<1>4. /\ v \in Seq(Executors) /\ e \notin Range(v)
      /\ Len(l) > 1 => Head(v) = IF i < Len(l) THEN l[i + 1] ELSE l[1]
  BY <1>1, <1>2, Rotated, Zenon
<1> QED BY <1>1, <1>3, <1>4

\* A copy is made while the executor is registered.
LEMMA CopyStep ==
    ASSUME tasks_lists \in [Executors -> Seq(Executors)],
           \A d \in Executors : d \notin Range(tasks_lists[d]),
           NEW l \in Seq(Executors), NEW S, Once(l, S), NEW e \in Executors, e \in S,
           tasks_lists' = [tasks_lists EXCEPT ![e] = Validated(l, e)]
    PROVE  /\ tasks_lists' \in [Executors -> Seq(Executors)]
           /\ \A d \in Executors : d \notin Range(tasks_lists'[d])
<1>1. Validated(l, e) \in Seq(Executors) /\ e \notin Range(Validated(l, e))
  BY ValidatedFacts
<1>2. tasks_lists' \in [Executors -> Seq(Executors)]
  BY <1>1
<1>3. \A d \in Executors : tasks_lists'[d] = IF d = e THEN Validated(l, e) ELSE tasks_lists[d]
  OBVIOUS
<1> QED BY <1>1, <1>2, <1>3

\* The registry's list follows the set of registered executors.
LEMMA ListsStep == RInv /\ [Next]_registry => Lists'
<1> SUFFICES ASSUME RInv, [Next]_registry PROVE Lists'
  OBVIOUS
<1>0. Shape /\ Versions /\ Lists
  BY DEF RInv
<1>1. ASSUME UNCHANGED <<alive, lists, tasks_lists>> PROVE Lists'
  BY <1>0, <1>1 DEF Lists
<1>2. ASSUME NEW e \in Executors, Register(e) PROVE Lists'
  <2>1. /\ lists' = Append(lists, e) /\ alive' = alive \cup {e}
        /\ tasks_lists' = [tasks_lists EXCEPT ![e] = Validated(lists', e)]
    BY <1>2 DEF Register
  <2>2. e \notin alive
    BY <1>0, <1>2 DEF Register, Versions, Running
  <2>3. PICK l : l = Append(lists, e)
    BY Zenon
  <2>4. l \in Seq(Executors) /\ Once(l, alive \cup {e})
    BY <1>0, <2>2, <2>3, OnceAppend DEF Lists
  <2>5. /\ tasks_lists' \in [Executors -> Seq(Executors)]
        /\ \A d \in Executors : d \notin Range(tasks_lists'[d])
    <3>1. e \in alive \cup {e} /\ tasks_lists' = [tasks_lists EXCEPT ![e] = Validated(l, e)]
      BY <2>1, <2>3
    <3>2. /\ tasks_lists \in [Executors -> Seq(Executors)]
          /\ \A d \in Executors : d \notin Range(tasks_lists[d])
      BY <1>0 DEF Lists
    <3> QED BY <2>4, <3>1, <3>2, CopyStep, Zenon
  <2> QED BY <2>1, <2>3, <2>4, <2>5 DEF Lists
<1>3. ASSUME NEW e \in Executors, Update(e) PROVE Lists'
  <2>1. lists' = lists /\ alive' = alive
    BY <1>3 DEF Update
  <2>2. CASE e \in alive
    <3>1. tasks_lists' = [tasks_lists EXCEPT ![e] = Validated(lists, e)]
      BY <1>3, <2>2 DEF Update
    <3>2. /\ tasks_lists \in [Executors -> Seq(Executors)] /\ lists \in Seq(Executors)
          /\ \A d \in Executors : d \notin Range(tasks_lists[d])
          /\ Once(lists, alive)
      BY <1>0 DEF Lists
    <3>3. /\ tasks_lists' \in [Executors -> Seq(Executors)]
          /\ \A d \in Executors : d \notin Range(tasks_lists'[d])
      BY <2>2, <3>1, <3>2, CopyStep, Zenon
    <3> QED BY <2>1, <3>2, <3>3 DEF Lists
  <2>3. CASE e \notin alive
    BY <1>1, <1>3, <2>3 DEF Update
  <2> QED BY <2>2, <2>3
<1>4. ASSUME NEW e \in Executors, CheckVersion(e) \/ Round(e) \/ GracefulStop(e) PROVE Lists'
  BY <1>1, <1>4 DEF CheckVersion, Round, GracefulStop
<1>5. CASE StopExecutor
  <2>1. PICK e \in Executors : Stop({e}, Without(lists, e))
    BY <1>5 DEF StopExecutor
  <2>2. lists' = Without(lists, e) /\ alive' = alive \ {e} /\ tasks_lists' = tasks_lists
    BY <2>1 DEF Stop
  <2>3. Without(lists, e) \in Seq(Executors) /\ Once(Without(lists, e), alive \ {e})
    BY <1>0, WithoutFacts DEF Lists
  <2> QED BY <1>0, <2>2, <2>3 DEF Lists
<1>6. CASE StopAllExecutors
  <2>1. lists' = <<>> /\ alive' = alive \ Executors /\ tasks_lists' = tasks_lists
    BY <1>6 DEF StopAllExecutors, Stop
  <2>2. alive' = {}
    BY <1>0, <2>1 DEF Shape
  <2>3. lists' \in Seq(Executors) /\ Once(lists', alive')
    BY <2>1, <2>2, OnceEmpty
  <2> QED BY <1>0, <2>1, <2>3 DEF Lists
<1>7. CASE UNCHANGED registry
  BY <1>1, <1>7, Stutter
<1> QED BY <1>2, <1>3, <1>4, <1>5, <1>6, <1>7, Zenon DEF Next

\* The invariant is inductive.
LEMMA RegistryInvariant == Spec => []RInv
<1>1. RInv /\ [Next]_registry => RInv'
  BY VersionsStep, SeenStep, ViewsStep, ListsStep DEF RInv
<1> QED
  BY RegistryInit, <1>1, PTL DEF Spec

\* The invariant gives the types, and different executors different first neighbours: the
\* successors of two places of one list, in the order of a ring, are different.
LEMMA RegistryTypes == RInv => TypeOK
  BY DEF RInv, Shape, Lists, TypeOK

\* The next executor of the circle is another one for each executor.
LEMMA NeighboursDiffer == RInv => FirstNeighboursDiffer
<1> SUFFICES ASSUME RInv, NEW d \in alive, NEW e \in alive, d # e, Len(lists) > 2,
                    tasks_lists[d] = Validated(lists, d), tasks_lists[e] = Validated(lists, e)
             PROVE  Head(tasks_lists[d]) # Head(tasks_lists[e])
  BY DEF FirstNeighboursDiffer
<1>1. lists \in Seq(Executors) /\ Once(lists, alive)
  BY DEF RInv, Lists
<1>2. Len(lists) \in Nat /\ DOMAIN lists = 1 .. Len(lists) /\ Len(lists) > 1
  BY <1>1
<1>3. PICK i \in DOMAIN lists :
        /\ lists[i] = d
        /\ Head(Validated(lists, d)) = IF i < Len(lists) THEN lists[i + 1] ELSE lists[1]
  BY <1>1, <1>2, ValidatedFacts, Zenon
<1>4. PICK j \in DOMAIN lists :
        /\ lists[j] = e
        /\ Head(Validated(lists, e)) = IF j < Len(lists) THEN lists[j + 1] ELSE lists[1]
  BY <1>1, <1>2, ValidatedFacts, Zenon
<1>5. PICK k \in DOMAIN lists : k = IF i < Len(lists) THEN i + 1 ELSE 1
  BY <1>2
<1>6. PICK m \in DOMAIN lists : m = IF j < Len(lists) THEN j + 1 ELSE 1
  BY <1>2
<1>7. i # j
  BY <1>3, <1>4
<1>8. k # m
  BY <1>2, <1>5, <1>6, <1>7
<1>9. lists[k] # lists[m]
  BY <1>1, <1>8 DEF Once
<1>10. Head(Validated(lists, d)) = lists[k] /\ Head(Validated(lists, e)) = lists[m]
  BY <1>3, <1>4, <1>5, <1>6
<1> QED BY <1>9, <1>10

-----------------------------------------------------------------------------
(* The interactor *)

\* The interactor and the rounds it works in take the registry's steps or none.
THEOREM UsesRegistry == ISpec => Spec
<1>1. IInit => Init
  BY DEF IInit
<1>2. [INext]_ivars => [Next]_registry
  <2> SUFFICES ASSUME [INext]_ivars PROVE [Next]_registry
    OBVIOUS
  <2>1. CASE UNCHANGED ivars
    BY <2>1 DEF ivars
  <2>2. ASSUME NEW e \in Executors, IRegistry(e) \/ IUpdate(e) \/ IGracefulStop(e) PROVE Next
    BY <2>2 DEF IRegistry, IUpdate, IGracefulStop, Next
  <2>3. CASE IStop
    BY <2>3 DEF IStop, Next
  <2>4. ASSUME NEW e \in Executors, NEW t \in Tasks, SendToSelf(e, t) PROVE UNCHANGED registry
    BY <2>4 DEF SendToSelf
  <2>5. ASSUME NEW e \in Executors, NEW d \in Executors, NEW t \in Tasks, Send(e, d, t)
        PROVE  UNCHANGED registry
    BY <2>5 DEF Send
  <2>6. ASSUME NEW e \in Executors, NEW F \in SUBSET Executors, NEW take \in BOOLEAN,
               DoWork(e, F, take)
        PROVE  UNCHANGED registry
    BY <2>6 DEF DoWork
  <2>7. ASSUME NEW e \in Executors, NEW t \in Tasks, Leaves(e, t) PROVE UNCHANGED registry
    BY <2>7 DEF Leaves
  <2> QED BY <2>1, <2>2, <2>3, <2>4, <2>5, <2>6, <2>7, Zenon DEF INext
<1> QED
  BY <1>1, <1>2, PTL DEF ISpec, Spec

\* Nobody misses a change of the registry: an executor whose copy is out of date, or that
\* was removed, finds an unprocessed version when it looks next.
THEOREM NothingMissed == ISpec => []ChangesAreSeen
<1>1. RInv => ChangesAreSeen
  BY DEF RInv
<1> QED
  BY UsesRegistry, RegistryInvariant, <1>1, PTL

\* The map of an executor that has processed the latest version.
MapIsExact ==
    \A e \in alive :
        loop[e] \in {"check", "round"} /\ processed_version[e] = version => all[e] = alive

\* The map is rebuilt where the neighbours are copied, and is exact for the same reason.
LEMMA MapStep ==
    RInv /\ MapIsExact /\ all \in [Executors -> SUBSET Executors] /\ [INext]_ivars
        => MapIsExact' /\ all' \in [Executors -> SUBSET Executors]
<1> SUFFICES ASSUME RInv, MapIsExact, all \in [Executors -> SUBSET Executors], [INext]_ivars
             PROVE  MapIsExact' /\ all' \in [Executors -> SUBSET Executors]
  OBVIOUS
<1>0. Shape /\ Versions
  BY DEF RInv
<1> USE <1>0 DEF Shape, Versions, Running, Loop, MapIsExact
<1>1. ASSUME UNCHANGED registry, all' = all
      PROVE  MapIsExact' /\ all' \in [Executors -> SUBSET Executors]
  BY <1>1, Stutter
<1>2. CASE UNCHANGED ivars
  BY <1>1, <1>2 DEF ivars, traffic
<1>3. ASSUME NEW e \in Executors, Register(e), all' = all
      PROVE  MapIsExact' /\ all' \in [Executors -> SUBSET Executors]
  <2>1. \A d \in alive' : processed_version'[d] # version'
    BY <1>3 DEF Register
  <2> QED BY <1>3, <2>1
<1>4. ASSUME NEW e \in Executors, CheckVersion(e) \/ Round(e), all' = all
      PROVE  MapIsExact' /\ all' \in [Executors -> SUBSET Executors]
  BY <1>4 DEF CheckVersion, Round
<1>5. ASSUME NEW e \in Executors, IRegistry(e)
      PROVE  MapIsExact' /\ all' \in [Executors -> SUBSET Executors]
  BY <1>3, <1>4, <1>5 DEF IRegistry, traffic
<1>6. ASSUME NEW e \in Executors, IUpdate(e)
      PROVE  MapIsExact' /\ all' \in [Executors -> SUBSET Executors]
  <2>1. /\ alive' = alive /\ version' = version /\ processed_version' = processed_version
        /\ \A d \in Executors \ {e} : loop'[d] = loop[d]
    BY <1>6 DEF IUpdate, Update
  <2>2. CASE e \in alive
    <3>1. all' = [all EXCEPT ![e] = alive]
      BY <1>6, <2>2 DEF IUpdate
    <3> QED BY <2>1, <3>1
  <2>3. CASE e \notin alive
    <3>1. all' = all
      BY <1>6, <2>3 DEF IUpdate
    <3> QED BY <2>1, <2>3, <3>1
  <2> QED BY <2>2, <2>3
<1>7. ASSUME NEW S \in SUBSET Executors, NEW rest, Stop(S, rest), all' = all
      PROVE  MapIsExact' /\ all' \in [Executors -> SUBSET Executors]
  <2>1. \A d \in alive' : processed_version'[d] # version'
    BY <1>7 DEF Stop
  <2> QED BY <1>7, <2>1
<1>8. CASE IStop
  <2>1. all' = all
    BY <1>8 DEF IStop, traffic
  <2>2. PICK S \in SUBSET Executors : \E rest : Stop(S, rest)
    BY <1>8, Stops, Zenon DEF IStop
  <2>3. PICK rest : Stop(S, rest)
    BY <2>2
  <2> QED BY <1>7, <2>1, <2>3
<1>9. ASSUME NEW e \in Executors, NEW t \in Tasks, SendToSelf(e, t)
      PROVE  MapIsExact' /\ all' \in [Executors -> SUBSET Executors]
  <2>1. UNCHANGED <<registry, all>>
    BY <1>9, Zenon DEF SendToSelf
  <2> QED BY <1>1, <2>1
<1>10. ASSUME NEW e \in Executors, NEW d \in Executors, NEW t \in Tasks, Send(e, d, t)
       PROVE  MapIsExact' /\ all' \in [Executors -> SUBSET Executors]
  <2>1. UNCHANGED <<registry, all>>
    BY <1>10, Zenon DEF Send
  <2> QED BY <1>1, <2>1
<1>11. ASSUME NEW e \in Executors, NEW F \in SUBSET Executors, NEW take \in BOOLEAN,
              DoWork(e, F, take)
       PROVE  MapIsExact' /\ all' \in [Executors -> SUBSET Executors]
  <2>1. UNCHANGED <<registry, all>>
    BY <1>11, Zenon DEF DoWork
  <2> QED BY <1>1, <2>1
<1>13. ASSUME NEW e \in Executors, NEW t \in Tasks, Leaves(e, t)
       PROVE  MapIsExact' /\ all' \in [Executors -> SUBSET Executors]
  <2>1. UNCHANGED <<registry, all>>
    BY <1>13, Zenon DEF Leaves
  <2> QED BY <1>1, <2>1
<1>14. ASSUME NEW e \in Executors, IGracefulStop(e)
       PROVE  MapIsExact' /\ all' \in [Executors -> SUBSET Executors]
  <2>1. /\ loop[e] = "stopped" /\ alive' = alive /\ version' = version
        /\ processed_version' = processed_version
        /\ \A d \in Executors \ {e} : loop'[d] = loop[d]
        /\ all' = [all EXCEPT ![e] = {}]
    BY <1>14 DEF IGracefulStop, GracefulStop
  <2>2. e \notin alive
    BY <2>1
  <2> QED BY <2>1, <2>2
<1> HIDE <1>0 DEF Shape, Versions, Running, Loop, MapIsExact
<1>12. CASE INext
  <2>1. CASE \E e \in Executors : IRegistry(e) \/ IUpdate(e) \/ IGracefulStop(e)
    BY <1>5, <1>6, <1>14, <2>1, Zenon
  <2>2. CASE \E e \in Executors : \E t \in Tasks :
               SendToSelf(e, t) \/ Leaves(e, t) \/ \E d \in Executors : Send(e, d, t)
    BY <1>9, <1>10, <1>13, <2>2, Zenon
  <2>3. CASE \E e \in Executors : \E F \in SUBSET Executors, take \in BOOLEAN :
               DoWork(e, F, take)
    BY <1>11, <2>3, Zenon
  <2> QED
    BY <1>8, <1>12, <2>1, <2>2, <2>3, Zenon DEF INext
<1> QED
  BY <1>2, <1>12

\* An executor at the latest version has the exact neighbours to take work from, first of
\* all one that no other executor begins with, and can send to exactly the registered
\* executors, although it reads the version before it takes the lock.
THEOREM ViewsCorrect == ISpec => []ViewsAreExact
<1> DEFINE Exact == MapIsExact /\ all \in [Executors -> SUBSET Executors]
<1>1. IInit => Exact
  BY DEF IInit, Init, MapIsExact
<1>2. RInv /\ Exact /\ [INext]_ivars => Exact'
  BY MapStep
<1>3. RInv /\ Exact => ViewsAreExact
  <2>1. RInv /\ Exact => UpToDateViews /\ SendsToRegistered
    BY DEF RInv, MapIsExact, SendsToRegistered
  <2> QED BY <2>1, NeighboursDiffer DEF ViewsAreExact
<1> HIDE DEF Exact
<1> QED
  BY UsesRegistry, RegistryInvariant, <1>1, <1>2, <1>3, PTL DEF ISpec

-----------------------------------------------------------------------------
(* Where the tasks are *)

InBatch(t, e, d) == t \in Range(batch[e][d])
InInbox(t, e) == t \in Range(inbox[e])
InArrived(t, e) == t \in arrived[e]
HasLeft(t) == t \in left

\* The types, and that a batch is for an executor of the map.
TrafficTypes ==
    /\ all \in [Executors -> SUBSET Executors]
    /\ batch \in [Executors -> [Executors -> Seq(Tasks)]]
    /\ \A e, d \in Executors : batch[e][d] # <<>> => d \in all[e]
    /\ inbox \in [Executors -> Seq(Tasks)]
    /\ arrived \in [Executors -> SUBSET Tasks]
    /\ left \subseteq Tasks
    /\ accepted \subseteq Tasks
    /\ route = [t \in Tasks |-> route[t]]
    /\ cleared \subseteq Tasks

\* Task t is in at most one place.
Apart(t) ==
    /\ \A e, d, x, y \in Executors : InBatch(t, e, d) /\ InBatch(t, x, y) => e = x /\ d = y
    /\ \A e, d, x \in Executors : InBatch(t, e, d) => ~InInbox(t, x) /\ ~InArrived(t, x)
    /\ \A e, x \in Executors : InInbox(t, e) => ~InArrived(t, x)
    /\ \A e, x \in Executors : InInbox(t, e) /\ InInbox(t, x) => e = x
    /\ \A e, x \in Executors : InArrived(t, e) /\ InArrived(t, x) => e = x
    /\ HasLeft(t) => \A e, d \in Executors : ~InBatch(t, e, d) /\ ~InInbox(t, e) /\ ~InArrived(t, e)

Somewhere(t) ==
    \/ \E e, d \in Executors : InBatch(t, e, d)
    \/ \E e \in Executors : InInbox(t, e)
    \/ \E e \in Executors : InArrived(t, e)
    \/ HasLeft(t)

\* Only sent tasks are anywhere or were dropped.
Placed(t) == Apart(t) /\ (Somewhere(t) \/ t \in cleared => t \in accepted)

\* How the version v at which a task of a batch of e was sent relates to the version
\* that e has processed: they are equal until e has seen a later one.
OnTime(e, v) ==
    /\ loop[e] # "new"
    /\ loop[e] \in {"check", "round"} => v = processed_version[e]
    /\ loop[e] \in {"update", "stopped"} => v < processed_version[e]

\* A task goes where it was sent, and if it is nowhere it was dropped on its way there, by
\* a sender that had seen a later version, or there.
Routed(t) ==
    /\ t \in accepted => route[t] \in Route
    /\ \A e, d \in Executors :
          InBatch(t, e, d) => route[t].from = e /\ route[t].to = d /\ OnTime(e, route[t].at)
    /\ \A e \in Executors : InInbox(t, e) \/ InArrived(t, e) => route[t].to = e
    /\ t \in cleared => processed_version[route[t].from] > route[t].at
    /\ t \in accepted => Somewhere(t) \/ t \in cleared \/ loop[route[t].to] = "off"

TInv == TrafficTypes /\ \A t \in Tasks : Placed(t) /\ Routed(t)

\* A task in at most one place has at most one.
LEMMA OnePlace == \A t \in Tasks : Apart(t) => \A p, q \in Places(t) : p = q
<1> SUFFICES ASSUME NEW t \in Tasks, Apart(t), NEW p \in Places(t), NEW q \in Places(t)
             PROVE  p = q
  OBVIOUS
<1>1. \/ p \in Executors \X Executors /\ InBatch(t, p[1], p[2])
      \/ \E e \in Executors : p = <<"inbox", e>> /\ InInbox(t, e)
      \/ \E e \in Executors : p = <<"arrived", e>> /\ InArrived(t, e)
      \/ p = <<"left", "left">> /\ HasLeft(t)
  BY DEF Places, InBatch, InInbox, InArrived, HasLeft
<1>2. \/ q \in Executors \X Executors /\ InBatch(t, q[1], q[2])
      \/ \E e \in Executors : q = <<"inbox", e>> /\ InInbox(t, e)
      \/ \E e \in Executors : q = <<"arrived", e>> /\ InArrived(t, e)
      \/ q = <<"left", "left">> /\ HasLeft(t)
  BY DEF Places, InBatch, InInbox, InArrived, HasLeft
<1>3. CASE p \in Executors \X Executors /\ InBatch(t, p[1], p[2])
  <2>1. q \in Executors \X Executors /\ InBatch(t, q[1], q[2])
    BY <1>2, <1>3 DEF Apart
  <2>2. p[1] = q[1] /\ p[2] = q[2]
    BY <1>3, <2>1 DEF Apart
  <2> QED BY <1>3, <2>1, <2>2
<1>4. CASE \E e \in Executors : p = <<"inbox", e>> /\ InInbox(t, e)
  BY <1>2, <1>4 DEF Apart
<1>5. CASE \E e \in Executors : p = <<"arrived", e>> /\ InArrived(t, e)
  BY <1>2, <1>5 DEF Apart
<1>6. CASE p = <<"left", "left">> /\ HasLeft(t)
  BY <1>2, <1>6 DEF Apart
<1> QED BY <1>1, <1>3, <1>4, <1>5, <1>6

\* A task without a place is nowhere.
LEMMA NowhereLeft == \A t \in Tasks : Places(t) = {} => ~Somewhere(t)
<1> SUFFICES ASSUME NEW t \in Tasks, Somewhere(t) PROVE Places(t) # {}
  OBVIOUS
<1>1. ASSUME NEW e \in Executors, NEW d \in Executors, InBatch(t, e, d) PROVE Places(t) # {}
  <2>1. <<e, d>> \in Places(t)
    BY <1>1 DEF InBatch, Places
  <2> QED BY <2>1
<1>2. ASSUME NEW e \in Executors, InInbox(t, e) PROVE Places(t) # {}
  <2>1. <<"inbox", e>> \in Places(t)
    BY <1>2 DEF InInbox, Places
  <2> QED BY <2>1
<1>3. ASSUME NEW e \in Executors, InArrived(t, e) PROVE Places(t) # {}
  <2>1. <<"arrived", e>> \in Places(t)
    BY <1>3 DEF InArrived, Places
  <2> QED BY <2>1
<1>4. ASSUME HasLeft(t) PROVE Places(t) # {}
  <2>1. <<"left", "left">> \in Places(t)
    BY <1>4 DEF HasLeft, Places
  <2> QED BY <2>1
<1> QED BY <1>1, <1>2, <1>3, <1>4 DEF Somewhere

\* The invariant says what is claimed of the tasks.
LEMMA KeptFollows == RInv /\ TInv => TasksAreKept
<1> SUFFICES ASSUME RInv, TInv PROVE TasksAreKept
  OBVIOUS
<1>0. TrafficTypes /\ \A t \in Tasks : Placed(t) /\ Routed(t)
  BY DEF TInv
<1>1. ITypeOK
  <2>1. \A t \in accepted : route[t] \in Route
    BY <1>0 DEF TrafficTypes, Routed
  <2> QED BY <1>0, <2>1, RegistryTypes DEF TrafficTypes, ITypeOK
<1>2. NeverDuplicated
  BY <1>0, OnePlace DEF Placed, NeverDuplicated
<1>3. LostByDropping
  BY <1>0, NowhereLeft DEF TrafficTypes, Routed, LostByDropping
<1>4. DroppedOnChange
  BY <1>0 DEF TrafficTypes, Routed, DroppedOnChange
<1>5. ArrivesThere
  BY <1>0 DEF TrafficTypes, Routed, InInbox, InArrived, ArrivesThere
<1> QED BY <1>1, <1>2, <1>3, <1>4, <1>5 DEF TasksAreKept

\* Nothing has been sent at the beginning.
LEMMA TrafficInit == IInit => TInv
<1> SUFFICES ASSUME IInit PROVE TInv
  OBVIOUS
<1>1. TrafficTypes
  BY DEF IInit, Empty, TrafficTypes
<1>2. ASSUME NEW t \in Tasks PROVE Placed(t) /\ Routed(t)
  <2>1. \A e, d \in Executors : ~InBatch(t, e, d) /\ ~InInbox(t, e) /\ ~InArrived(t, e)
    BY RangeEmpty DEF IInit, Empty, InBatch, InInbox, InArrived
  <2>2. t \notin accepted /\ t \notin cleared /\ ~HasLeft(t)
    BY DEF IInit, HasLeft
  <2> QED BY <2>1, <2>2 DEF Placed, Apart, Somewhere, Routed
<1> QED BY <1>1, <1>2 DEF TInv

-----------------------------------------------------------------------------
(* How far executors get *)

\* A stopped executor stays stopped, and versions are processed in their order.
Onward ==
    \A x \in Executors :
        /\ loop[x] = "off" => loop'[x] = "off"
        /\ processed_version[x] <= processed_version'[x]

\* The batches of executor x stay on time.
Steady(x) == \A v \in Int : OnTime(x, v) => OnTime(x, v)'

\* A step of the registry goes onward, and leaves the batches of every executor on time but
\* those of one that copies the registry, which it clears.
LEMMA GoesOn ==
    RInv /\ [Next]_registry =>
        Onward /\ \A x \in Executors : Steady(x) \/ (loop[x] = "update" /\ loop'[x] = "round")
<1> SUFFICES ASSUME RInv, [Next]_registry
             PROVE  /\ Onward
                    /\ \A x \in Executors : Steady(x) \/ (loop[x] = "update" /\ loop'[x] = "round")
  OBVIOUS
<1>0. Shape /\ Versions
  BY DEF RInv
<1> USE <1>0 DEF Shape, Versions, Running, Loop, Onward, Steady, OnTime
<1>1. CASE UNCHANGED registry
  BY <1>1, Stutter
<1>2. ASSUME NEW e \in Executors, Register(e)
      PROVE  Onward /\ \A x \in Executors : Steady(x)
  <2>1. /\ loop[e] = "new" /\ loop' = [loop EXCEPT ![e] = "check"]
        /\ processed_version' = processed_version
    BY <1>2, Zenon DEF Register
  <2> QED BY <2>1
<1>3. ASSUME NEW e \in Executors, CheckVersion(e)
      PROVE  Onward /\ \A x \in Executors : Steady(x)
  BY <1>3 DEF CheckVersion
<1>4. ASSUME NEW e \in Executors, Update(e)
      PROVE  Onward /\ \A x \in Executors : Steady(x) \/ (loop[x] = "update" /\ loop'[x] = "round")
  BY <1>4 DEF Update
<1>5. ASSUME NEW e \in Executors, Round(e) \/ GracefulStop(e)
      PROVE  Onward /\ \A x \in Executors : Steady(x)
  BY <1>5 DEF Round, GracefulStop
<1>6. ASSUME NEW S \in SUBSET Executors, NEW rest, Stop(S, rest)
      PROVE  Onward /\ \A x \in Executors : Steady(x)
  BY <1>6 DEF Stop
<1> HIDE <1>0 DEF Shape, Versions, Running, Loop, Onward, Steady, OnTime
<1> QED
  BY <1>1, <1>2, <1>3, <1>4, <1>5, <1>6, Stops, Zenon DEF Next

\* The steps that only touch the traffic.
LEMMA StaysThere == RInv /\ UNCHANGED registry => Onward /\ \A x \in Executors : Steady(x)
<1> SUFFICES ASSUME RInv, UNCHANGED registry PROVE Onward /\ \A x \in Executors : Steady(x)
  OBVIOUS
<1>1. loop' = loop /\ processed_version' = processed_version
  BY DEF registry
<1>2. \A x \in Executors : processed_version[x] \in Int
  BY DEF RInv, Shape
<1> QED BY <1>1, <1>2 DEF Onward, Steady, OnTime

\* What a step does to a task that was sent: it moves it along its route if at all, drops
\* it from a batch only after a later version was seen, and from an executor only when
\* that stops.
Moves(t) ==
    /\ route'[t] = route[t]
    /\ \A x, y \in Executors : InBatch(t, x, y)' => InBatch(t, x, y) /\ Steady(x)
    /\ \A x \in Executors : InInbox(t, x)' => InInbox(t, x) \/ \E y \in Executors : InBatch(t, y, x)
    /\ \A x \in Executors : InArrived(t, x)' => InArrived(t, x) \/ InInbox(t, x)
    /\ t \in cleared => t \in cleared'
    /\ t \in cleared' => \/ t \in cleared
                         \/ \E x, y \in Executors : InBatch(t, x, y) /\ loop[x] \in {"update", "stopped"}
    /\ Somewhere(t) => \/ Somewhere(t)' \/ t \in cleared'
                       \/ \E x \in Executors : InArrived(t, x) /\ loop'[x] = "off"

\* A task that is moved so stays routed.
LEMMA StaysRouted ==
    ASSUME RInv, RInv', NEW t \in Tasks, Routed(t), t \in accepted, Onward, Moves(t)
    PROVE  Routed(t)'
<1>1. route'[t] = route[t] /\ route[t] \in Route
  BY DEF Moves, Routed
<1>2. route[t].from \in Executors /\ route[t].to \in Executors /\ route[t].at \in Int
  BY <1>1 DEF Route
<1>3. ASSUME NEW x \in Executors, NEW y \in Executors, InBatch(t, x, y)'
      PROVE  route[t].from = x /\ route[t].to = y /\ OnTime(x, route[t].at)'
  <2>1. InBatch(t, x, y) /\ Steady(x)
    BY <1>3, Zenon DEF Moves
  <2>2. PICK v \in Int : v = route[t].at
    BY <1>2
  <2>3. route[t].from = x /\ route[t].to = y /\ OnTime(x, v)
    BY <2>1, <2>2, Zenon DEF Routed
  <2>4. OnTime(x, v)'
    BY <2>1, <2>3, Zenon DEF Steady
  <2>5. route'[t].at = v
    BY <1>1, <2>2
  <2> QED BY <2>3, <2>4, <2>5 DEF OnTime
<1>4. ASSUME NEW x \in Executors, InInbox(t, x)' \/ InArrived(t, x)' PROVE route[t].to = x
  BY <1>4, Zenon DEF Moves, Routed
<1>5. ASSUME t \in cleared' PROVE processed_version'[route[t].from] > route[t].at
  <2>1. processed_version[route[t].from] > route[t].at
    <3>1. CASE t \in cleared
      BY <3>1, Zenon DEF Routed
    <3>2. ASSUME NEW x \in Executors, NEW y \in Executors,
                 InBatch(t, x, y), loop[x] \in {"update", "stopped"}
          PROVE  processed_version[route[t].from] > route[t].at
      <4>1. route[t].from = x /\ OnTime(x, route[t].at)
        BY <3>2, Zenon DEF Routed
      <4> QED BY <3>2, <4>1 DEF OnTime
    <3> QED BY <1>5, <3>1, <3>2, Zenon DEF Moves
  <2>2. /\ processed_version[route[t].from] \in Int
        /\ processed_version'[route[t].from] \in Int
    BY <1>2 DEF RInv, Shape
  <2> QED BY <1>2, <2>1, <2>2 DEF Onward
<1>6. Somewhere(t)' \/ t \in cleared' \/ loop'[route[t].to] = "off"
  <2>1. CASE Somewhere(t)
    <3>1. ASSUME NEW x \in Executors, InArrived(t, x), loop'[x] = "off"
          PROVE  loop'[route[t].to] = "off"
      BY <3>1, Zenon DEF Routed
    <3> QED BY <2>1, <3>1, Zenon DEF Moves
  <2>2. CASE t \in cleared
    BY <2>2, Zenon DEF Moves
  <2>3. CASE loop[route[t].to] = "off"
    BY <1>2, <2>3, Zenon DEF Onward
  <2> QED BY <2>1, <2>2, <2>3, Zenon DEF Routed
<1> QED BY <1>1, <1>3, <1>4, <1>5, <1>6, Zenon DEF Routed

\* Putting together the parts of the invariant, for a step that sends nothing.
LEMMA TrafficStep ==
    ASSUME RInv, RInv', TInv, Onward, TrafficTypes', accepted' = accepted,
           \A t \in Tasks : Placed(t)' /\ Moves(t)
    PROVE  TInv'
<1>1. ASSUME NEW t \in Tasks PROVE Routed(t)'
  <2>1. CASE t \in accepted
    BY <2>1, StaysRouted, Zenon DEF TInv
  <2>2. CASE t \notin accepted
    <3>1. Placed(t)' /\ t \notin accepted'
      BY <2>2, Zenon
    <3>2. ~Somewhere(t)' /\ t \notin cleared'
      BY <3>1, Zenon DEF Placed
    <3>3. \A x, y \in Executors : ~InBatch(t, x, y)' /\ ~InInbox(t, x)' /\ ~InArrived(t, x)'
      BY <3>2, Zenon DEF Somewhere
    <3> QED BY <3>1, <3>2, <3>3, Zenon DEF Routed
  <2> QED BY <2>1, <2>2
<1> QED BY <1>1, Zenon DEF TInv

\* Steps of the registry leave the traffic alone.
LEMMA TrafficSame ==
    ASSUME RInv, RInv', TInv, Onward, \A x \in Executors : Steady(x), UNCHANGED traffic
    PROVE  TInv'
<1>1. /\ all' = all /\ batch' = batch /\ inbox' = inbox /\ arrived' = arrived
      /\ left' = left /\ accepted' = accepted /\ route' = route /\ cleared' = cleared
  BY DEF traffic
<1>2. TrafficTypes'
  BY <1>1 DEF TInv, TrafficTypes
<1>3. ASSUME NEW t \in Tasks PROVE Placed(t)' /\ Moves(t)
  <2>1. /\ \A x, y \in Executors : InBatch(t, x, y)' <=> InBatch(t, x, y)
        /\ \A x \in Executors : InInbox(t, x)' <=> InInbox(t, x)
        /\ \A x \in Executors : InArrived(t, x)' <=> InArrived(t, x)
        /\ HasLeft(t)' <=> HasLeft(t)
    BY <1>1, Zenon DEF InBatch, InInbox, InArrived, HasLeft
  <2>2. Somewhere(t)' <=> Somewhere(t)
    BY <2>1, Zenon DEF Somewhere
  <2>3. Placed(t)
    BY DEF TInv
  <2>4. Placed(t)'
    BY <1>1, <2>1, <2>2, <2>3 DEF Placed, Apart
  <2> QED BY <1>1, <2>1, <2>2, <2>4, Zenon DEF Moves
<1> QED BY <1>1, <1>2, <1>3, TrafficStep

\* A task that is sent is nowhere before.
LEMMA NotYet ==
    ASSUME TInv, NEW s \in Tasks, s \notin accepted
    PROVE  /\ \A x, y \in Executors : ~InBatch(s, x, y) /\ ~InInbox(s, x) /\ ~InArrived(s, x)
           /\ ~HasLeft(s) /\ s \notin cleared
<1>1. Placed(s)
  BY DEF TInv
<1>2. ~Somewhere(s) /\ s \notin cleared
  BY <1>1 DEF Placed
<1> QED BY <1>2 DEF Somewhere

\* A step that sends task s and leaves the others where they are.
LEMMA SentStep ==
    ASSUME RInv, RInv', TInv, Onward, TrafficTypes', NEW s \in Tasks,
           accepted' = accepted \cup {s}, Placed(s)', Routed(s)',
           \A t \in Tasks \ {s} : Placed(t)' /\ Moves(t)
    PROVE  TInv'
<1>1. ASSUME NEW t \in Tasks, t # s PROVE Routed(t)'
  <2>1. CASE t \in accepted
    BY <1>1, <2>1, StaysRouted, Zenon DEF TInv
  <2>2. CASE t \notin accepted
    <3>1. Placed(t)' /\ t \notin accepted'
      BY <1>1, <2>2
    <3>2. ~Somewhere(t)' /\ t \notin cleared'
      BY <3>1, Zenon DEF Placed
    <3>3. \A x, y \in Executors : ~InBatch(t, x, y)' /\ ~InInbox(t, x)' /\ ~InArrived(t, x)'
      BY <3>2, Zenon DEF Somewhere
    <3> QED BY <3>1, <3>2, <3>3, Zenon DEF Routed
  <2> QED BY <2>1, <2>2
<1>2. \A t \in Tasks : Placed(t)' /\ Routed(t)'
  BY <1>1
<1> QED BY <1>2, Zenon DEF TInv

\* A task is put into a batch when it is nowhere yet.
LEMMA SendStep ==
    ASSUME RInv, RInv', TInv, NEW e \in Executors, NEW d \in Executors, NEW s \in Tasks,
           Send(e, d, s)
    PROVE  TInv'
<1>1. /\ d \in all[e] /\ s \notin accepted /\ loop[e] = "round"
      /\ batch' = [batch EXCEPT ![e][d] = Append(@, s)]
      /\ accepted' = accepted \cup {s}
      /\ all' = all /\ inbox' = inbox /\ arrived' = arrived /\ left' = left /\ cleared' = cleared
      /\ UNCHANGED registry
  BY DEF Send, Accepts
<1>2. TrafficTypes
  BY DEF TInv
<1>3. \A x, y \in Executors :
        batch'[x][y] = IF x = e /\ y = d THEN Append(batch[e][d], s) ELSE batch[x][y]
  BY <1>1, <1>2, Zenon DEF TrafficTypes
<1>4. route' = [route EXCEPT ![s] = [from |-> e, to |-> d, at |-> processed_version[e]]]
  BY DEF Send, Accepts
<1>5. route'[s] = [from |-> e, to |-> d, at |-> processed_version[e]]
  BY <1>2, <1>4 DEF TrafficTypes
<1>6. \A t \in Tasks \ {s} : route'[t] = route[t]
  BY <1>2, <1>4, Zenon DEF TrafficTypes
<1>7. TrafficTypes'
  <2>1. Append(batch[e][d], s) \in Seq(Tasks)
    BY <1>2 DEF TrafficTypes
  <2>2. batch' \in [Executors -> [Executors -> Seq(Tasks)]]
    BY <1>1, <1>2, <2>1 DEF TrafficTypes
  <2>3. \A x, y \in Executors : batch'[x][y] # <<>> => y \in all[x]
    BY <1>1, <1>2, <1>3 DEF TrafficTypes
  <2>4. route' = [t \in Tasks |-> route'[t]]
    BY <1>2, <1>4, Zenon DEF TrafficTypes
  <2> QED BY <1>1, <1>2, <2>2, <2>3, <2>4 DEF TrafficTypes
<1>8. Range(Append(batch[e][d], s)) = Range(batch[e][d]) \cup {s}
  BY <1>2, RangeAppend DEF TrafficTypes
<1>9. \A t \in Tasks :
        /\ \A x, y \in Executors :
              InBatch(t, x, y)' <=> InBatch(t, x, y) \/ (x = e /\ y = d /\ t = s)
        /\ \A x \in Executors : InInbox(t, x)' <=> InInbox(t, x)
        /\ \A x \in Executors : InArrived(t, x)' <=> InArrived(t, x)
        /\ HasLeft(t)' <=> HasLeft(t)
  BY <1>1, <1>3, <1>8 DEF InBatch, InInbox, InArrived, HasLeft
<1>10. Onward /\ \A x \in Executors : Steady(x)
  BY <1>1, StaysThere
<1>11. ASSUME NEW t \in Tasks \ {s} PROVE Placed(t)' /\ Moves(t)
  <2>1. Placed(t)
    BY DEF TInv
  <2>2. Somewhere(t)' <=> Somewhere(t)
    BY <1>9, <1>11 DEF Somewhere
  <2>3. Placed(t)'
    BY <1>1, <1>9, <1>11, <2>1, <2>2 DEF Placed, Apart
  <2> QED BY <1>1, <1>6, <1>9, <1>10, <1>11, <2>2, <2>3 DEF Moves
<1>12. Placed(s)'
  <2>1. s \in accepted'
    BY <1>1
  <2> QED BY <1>1, <1>9, <2>1, NotYet DEF Placed, Apart
<1>13. Routed(s)'
  <2>1. processed_version[e] \in Int /\ loop' = loop /\ processed_version' = processed_version
    BY <1>1 DEF RInv, Shape, registry
  <2>2. route'[s] \in Route
    BY <1>5, <2>1 DEF Route
  <2>3. route'[s].from = e /\ route'[s].to = d /\ route'[s].at = processed_version[e]
    BY <1>5
  <2>4. OnTime(e, route[s].at)'
    BY <1>1, <2>1, <2>3 DEF OnTime
  <2>5. \A x, y \in Executors : InBatch(s, x, y)' => x = e /\ y = d
    BY <1>1, <1>9, NotYet
  <2>6. \A x \in Executors : ~InInbox(s, x)' /\ ~InArrived(s, x)'
    BY <1>1, <1>9, NotYet
  <2>7. s \notin cleared' /\ Somewhere(s)'
    BY <1>1, <1>9, NotYet DEF Somewhere
  <2> QED BY <2>2, <2>3, <2>4, <2>5, <2>6, <2>7, Zenon DEF Routed
<1> QED BY <1>1, <1>7, <1>10, <1>11, <1>12, <1>13, SentStep

\* A task that is sent to its own executor goes there at once.
LEMMA SelfStep ==
    ASSUME RInv, RInv', TInv, NEW e \in Executors, NEW s \in Tasks, SendToSelf(e, s)
    PROVE  TInv'
<1>1. /\ s \notin accepted
      /\ arrived' = [arrived EXCEPT ![e] = @ \cup {s}]
      /\ accepted' = accepted \cup {s}
      /\ all' = all /\ inbox' = inbox /\ batch' = batch /\ left' = left /\ cleared' = cleared
      /\ UNCHANGED registry
  BY DEF SendToSelf, Accepts
<1>2. TrafficTypes
  BY DEF TInv
<1>3. route' = [route EXCEPT ![s] = [from |-> e, to |-> e, at |-> processed_version[e]]]
  BY DEF SendToSelf, Accepts
<1>4. route'[s] = [from |-> e, to |-> e, at |-> processed_version[e]]
  BY <1>2, <1>3 DEF TrafficTypes
<1>5. \A t \in Tasks \ {s} : route'[t] = route[t]
  BY <1>2, <1>3, Zenon DEF TrafficTypes
<1>6. TrafficTypes'
  <2>1. route' = [t \in Tasks |-> route'[t]]
    BY <1>2, <1>3, Zenon DEF TrafficTypes
  <2> QED BY <1>1, <1>2, <2>1 DEF TrafficTypes
<1>7. \A t \in Tasks :
        /\ \A x, y \in Executors : InBatch(t, x, y)' <=> InBatch(t, x, y)
        /\ \A x \in Executors : InInbox(t, x)' <=> InInbox(t, x)
        /\ \A x \in Executors : InArrived(t, x)' <=> InArrived(t, x) \/ (x = e /\ t = s)
        /\ HasLeft(t)' <=> HasLeft(t)
  BY <1>1, <1>2 DEF TrafficTypes, InBatch, InInbox, InArrived, HasLeft
<1>8. Onward /\ \A x \in Executors : Steady(x)
  BY <1>1, StaysThere
<1>9. ASSUME NEW t \in Tasks \ {s} PROVE Placed(t)' /\ Moves(t)
  <2>1. Placed(t)
    BY DEF TInv
  <2>2. Somewhere(t)' <=> Somewhere(t)
    BY <1>7, <1>9 DEF Somewhere
  <2>3. Placed(t)'
    BY <1>1, <1>7, <1>9, <2>1, <2>2 DEF Placed, Apart
  <2> QED BY <1>1, <1>5, <1>7, <1>8, <1>9, <2>2, <2>3 DEF Moves
<1>10. Placed(s)'
  <2>1. s \in accepted'
    BY <1>1
  <2> QED BY <1>1, <1>7, <2>1, NotYet DEF Placed, Apart
<1>11. Routed(s)'
  <2>1. processed_version[e] \in Int
    BY DEF RInv, Shape
  <2>2. /\ [from |-> e, to |-> e, at |-> processed_version[e]] \in Route
        /\ [from |-> e, to |-> e, at |-> processed_version[e]].to = e
    BY <2>1 DEF Route
  <2>6. route'[s] \in Route /\ route'[s].to = e
    BY <1>4, <2>2, Zenon
  <2>3. \A x, y \in Executors : ~InBatch(s, x, y)' /\ ~InInbox(s, x)'
    BY <1>1, <1>7, NotYet
  <2>4. \A x \in Executors : InArrived(s, x)' => x = e
    BY <1>1, <1>7, NotYet
  <2>5. s \notin cleared' /\ Somewhere(s)'
    BY <1>1, <1>7, NotYet DEF Somewhere
  <2> QED BY <2>3, <2>4, <2>5, <2>6, Zenon DEF Routed
<1> QED BY <1>1, <1>6, <1>8, <1>9, <1>10, <1>11, SentStep

\* A task that is executed, or shared, is past its executor.
LEMMA LeaveStep ==
    ASSUME RInv, RInv', TInv, NEW e \in Executors, NEW s \in Tasks, Leaves(e, s)
    PROVE  TInv'
<1>1. /\ s \in arrived[e] /\ arrived' = [arrived EXCEPT ![e] = @ \ {s}] /\ left' = left \cup {s}
      /\ all' = all /\ inbox' = inbox /\ batch' = batch /\ cleared' = cleared
      /\ accepted' = accepted /\ route' = route
      /\ UNCHANGED registry
  BY DEF Leaves
<1>2. TrafficTypes
  BY DEF TInv
<1>3. TrafficTypes'
  BY <1>1, <1>2 DEF TrafficTypes
<1>4. Onward /\ \A x \in Executors : Steady(x)
  BY <1>1, StaysThere
<1>5. ASSUME NEW t \in Tasks PROVE Placed(t)' /\ Moves(t)
  <2>1. /\ \A x, y \in Executors : InBatch(t, x, y)' <=> InBatch(t, x, y)
        /\ \A x \in Executors : InInbox(t, x)' <=> InInbox(t, x)
        /\ \A x \in Executors : InArrived(t, x)' <=> InArrived(t, x) /\ ~(x = e /\ t = s)
        /\ HasLeft(t)' <=> HasLeft(t) \/ t = s
        /\ t = s => InArrived(t, e)
    BY <1>1, <1>2 DEF TrafficTypes, InBatch, InInbox, InArrived, HasLeft
  <2>2. Placed(t)
    BY DEF TInv
  <2>3. Somewhere(t)' <=> Somewhere(t)
    BY <2>1 DEF Somewhere
  <2>4. Placed(t)'
    BY <1>1, <2>1, <2>2, <2>3 DEF Placed, Apart
  <2> QED BY <1>1, <1>4, <2>1, <2>3, <2>4 DEF Moves
<1> QED BY <1>1, <1>3, <1>4, <1>5, TrafficStep

\* Taking and flushing move tasks on, from a batch to an inbox and from an inbox to its
\* executor.
LEMMA WorkStep ==
    ASSUME RInv, RInv', TInv, NEW e \in Executors, NEW F \in SUBSET Executors,
           NEW take \in BOOLEAN, DoWork(e, F, take)
    PROVE  TInv'
<1>1. TrafficTypes
  BY DEF TInv
<1>2. PICK T \in SUBSET {e} :
        /\ arrived' = [x \in Executors |->
                         IF x \in T THEN arrived[x] \cup Range(inbox[x]) ELSE arrived[x]]
        /\ inbox' = [d \in Executors |-> (IF d \in T THEN <<>> ELSE inbox[d])
                                           \o (IF d \in F THEN batch[e][d] ELSE <<>>)]
  \* T is {e} when the inbox is taken, and {} when it is not.
  <2>1. CASE take
    <3>1. arrived' = [x \in Executors |->
                        IF x \in {e} THEN arrived[x] \cup Range(inbox[x]) ELSE arrived[x]]
      BY <1>1, <2>1, Zenon DEF DoWork, TrafficTypes
    <3>2. inbox' = [d \in Executors |-> (IF d \in {e} THEN <<>> ELSE inbox[d])
                                          \o (IF d \in F THEN batch[e][d] ELSE <<>>)]
      BY <2>1 DEF DoWork
    <3> QED BY <3>1, <3>2, Zenon
  <2>2. CASE ~take
    <3>1. arrived' = [x \in Executors |->
                        IF x \in {} THEN arrived[x] \cup Range(inbox[x]) ELSE arrived[x]]
      BY <1>1, <2>2 DEF DoWork, TrafficTypes
    <3>2. inbox' = [d \in Executors |-> (IF d \in {} THEN <<>> ELSE inbox[d])
                                          \o (IF d \in F THEN batch[e][d] ELSE <<>>)]
      BY <2>2 DEF DoWork
    <3>3. {} \in SUBSET {e}
      OBVIOUS
    <3> QED BY <3>1, <3>2, <3>3, Zenon
  <2> QED BY <2>1, <2>2, Zenon
<1>3. /\ batch' = [batch EXCEPT ![e] = [d \in Executors |-> IF d \in F THEN <<>> ELSE @[d]]]
      /\ all' = all /\ left' = left /\ accepted' = accepted /\ route' = route
      /\ cleared' = cleared
      /\ UNCHANGED registry
  BY DEF DoWork
<1>4. \A x, y \in Executors :
        batch'[x][y] = IF x = e /\ y \in F THEN <<>> ELSE batch[x][y]
  BY <1>1, <1>3 DEF TrafficTypes
<1>5. ASSUME NEW d \in Executors
      PROVE  /\ inbox'[d] \in Seq(Tasks)
             /\ \A t : t \in Range(inbox'[d]) <=> \/ d \notin T /\ t \in Range(inbox[d])
                                                  \/ d \in F /\ t \in Range(batch[e][d])
  <2>1. PICK a, b : a = (IF d \in T THEN <<>> ELSE inbox[d])
                    /\ b = (IF d \in F THEN batch[e][d] ELSE <<>>)
    OBVIOUS
  <2>2. a \in Seq(Tasks) /\ b \in Seq(Tasks)
    BY <1>1, <2>1 DEF TrafficTypes
  <2>3. inbox'[d] = a \o b
    BY <1>2, <2>1, Zenon
  <2>4. a \o b \in Seq(Tasks) /\ Range(a \o b) = Range(a) \cup Range(b)
    BY <2>2, RangeCat
  <2>5. /\ Range(a) = IF d \in T THEN {} ELSE Range(inbox[d])
        /\ Range(b) = IF d \in F THEN Range(batch[e][d]) ELSE {}
    BY <2>1, RangeEmpty, Zenon
  <2> QED BY <2>3, <2>4, <2>5
<1>6. TrafficTypes'
  <2>1. inbox' \in [Executors -> Seq(Tasks)]
    BY <1>2, <1>5
  <2>2. batch' \in [Executors -> [Executors -> Seq(Tasks)]]
    BY <1>1, <1>3 DEF TrafficTypes
  <2>3. arrived' \in [Executors -> SUBSET Tasks]
    <3>1. \A x \in Executors : Range(inbox[x]) \subseteq Tasks
      BY <1>1 DEF TrafficTypes, Range
    <3> QED BY <1>1, <1>2, <3>1 DEF TrafficTypes
  <2>4. \A x, y \in Executors : batch'[x][y] # <<>> => y \in all'[x]
    BY <1>1, <1>3, <1>4 DEF TrafficTypes
  <2> QED BY <1>1, <1>3, <2>1, <2>2, <2>3, <2>4 DEF TrafficTypes
<1>7. Onward /\ \A x \in Executors : Steady(x)
  BY <1>3, StaysThere
<1>8. ASSUME NEW t \in Tasks PROVE Placed(t)' /\ Moves(t)
  <2>1. /\ \A x, y \in Executors :
              InBatch(t, x, y)' <=> InBatch(t, x, y) /\ ~(x = e /\ y \in F)
        /\ \A x \in Executors :
              InInbox(t, x)' <=> (x \notin T /\ InInbox(t, x)) \/ (x \in F /\ InBatch(t, e, x))
        /\ \A x \in Executors :
              InArrived(t, x)' <=> InArrived(t, x) \/ (x \in T /\ InInbox(t, x))
    BY <1>2, <1>4, <1>5, RangeEmpty, Zenon DEF InBatch, InInbox, InArrived
  <2>2. HasLeft(t)' <=> HasLeft(t)
    BY <1>3, Zenon DEF HasLeft
  <2>3. Apart(t) /\ Placed(t)
    BY DEF TInv, Placed
  <2>4. Apart(t)'
    BY <2>1, <2>2, <2>3 DEF Apart
  <2>5. Somewhere(t)' => Somewhere(t)
    BY <2>1, <2>2 DEF Somewhere
  <2>6. Somewhere(t) => Somewhere(t)'
    <3>1. ASSUME NEW x \in Executors, NEW y \in Executors, InBatch(t, x, y)
          PROVE  Somewhere(t)'
      BY <2>1, <3>1 DEF Somewhere
    <3>2. ASSUME NEW x \in Executors, InInbox(t, x) PROVE Somewhere(t)'
      BY <2>1, <3>2 DEF Somewhere
    <3>3. ASSUME NEW x \in Executors, InArrived(t, x) PROVE Somewhere(t)'
      BY <2>1, <3>3 DEF Somewhere
    <3>4. ASSUME HasLeft(t) PROVE Somewhere(t)'
      BY <2>2, <3>4 DEF Somewhere
    <3> QED BY <3>1, <3>2, <3>3, <3>4 DEF Somewhere
  <2>7. Placed(t)'
    BY <1>3, <2>3, <2>4, <2>5 DEF Placed
  <2>8. Moves(t)
    BY <1>3, <1>7, <2>1, <2>6, Zenon DEF Moves
  <2> QED BY <2>7, <2>8
<1> QED BY <1>3, <1>6, <1>7, <1>8, TrafficStep

\* The batches of e are dropped, which leaves what was in them in cleared.
LEMMA DropStep ==
    ASSUME TrafficTypes, NEW e \in Executors, batch' = [batch EXCEPT ![e] = Empty],
           cleared' = cleared \cup Batched(e)
    PROVE  /\ batch' \in [Executors -> [Executors -> Seq(Tasks)]]
           /\ \A x, y \in Executors : batch'[x][y] = IF x = e THEN <<>> ELSE batch[x][y]
           /\ cleared' \subseteq Tasks
           /\ \A t \in Tasks : \A x, y \in Executors :
                 InBatch(t, x, y)' <=> InBatch(t, x, y) /\ x # e
           /\ \A t \in Tasks :
                 t \in cleared' <=> t \in cleared \/ \E y \in Executors : InBatch(t, e, y)
<1>1. \A x, y \in Executors : batch'[x][y] = IF x = e THEN <<>> ELSE batch[x][y]
  BY DEF TrafficTypes, Empty
<1>2. batch' \in [Executors -> [Executors -> Seq(Tasks)]]
  BY DEF TrafficTypes, Empty
<1>3. \A t : t \in Batched(e) <=> \E y \in Executors : InBatch(t, e, y)
  BY DEF Batched, InBatch
<1>4. \A y \in Executors : Range(batch[e][y]) \subseteq Tasks
  BY DEF TrafficTypes, Range
<1>5. cleared' \subseteq Tasks
  BY <1>3, <1>4 DEF TrafficTypes, InBatch
<1>6. \A t \in Tasks : \A x, y \in Executors : InBatch(t, x, y)' <=> InBatch(t, x, y) /\ x # e
  BY <1>1, RangeEmpty DEF InBatch
<1>7. \A t \in Tasks : t \in cleared' <=> t \in cleared \/ \E y \in Executors : InBatch(t, e, y)
  BY <1>3
<1> QED BY <1>1, <1>2, <1>5, <1>6, <1>7

\* Rebuilding the map clears the batches, and remembers what was in them.
LEMMA ClearStep ==
    ASSUME RInv, RInv', TInv, NEW e \in Executors, IUpdate(e)
    PROVE  TInv'
<1>1. Update(e) /\ UNCHANGED <<inbox, arrived, left, accepted, route>>
  BY DEF IUpdate
<1>2. /\ loop[e] = "update"
      /\ \A x \in Executors \ {e} : loop'[x] = loop[x]
      /\ e \notin alive => loop'[e] = "stopped"
  BY <1>1 DEF Update, RInv, Shape
<1>3. [Next]_registry
  BY <1>1 DEF Next
<1>4. Onward /\ \A x \in Executors : Steady(x) \/ (loop[x] = "update" /\ loop'[x] = "round")
  BY <1>3, GoesOn
<1>5. CASE e \notin alive
  <2>1. \A x \in Executors : Steady(x)
    BY <1>2, <1>4, <1>5
  <2>2. UNCHANGED traffic
    BY <1>1, <1>5 DEF IUpdate, traffic
  <2> QED BY <1>4, <2>1, <2>2, TrafficSame
<1>6. CASE e \in alive
  <2>1. /\ all' = [all EXCEPT ![e] = alive]
        /\ batch' = [batch EXCEPT ![e] = Empty]
        /\ cleared' = cleared \cup Batched(e)
        /\ inbox' = inbox /\ arrived' = arrived /\ left' = left
        /\ accepted' = accepted /\ route' = route
    BY <1>6 DEF IUpdate
  <2>2. TrafficTypes
    BY DEF TInv
  <2>3. /\ batch' \in [Executors -> [Executors -> Seq(Tasks)]]
        /\ \A x, y \in Executors : batch'[x][y] = IF x = e THEN <<>> ELSE batch[x][y]
        /\ cleared' \subseteq Tasks
    BY <2>1, <2>2, DropStep
  <2>4. TrafficTypes'
    <3>1. \A x, y \in Executors : batch'[x][y] # <<>> => y \in all'[x]
      BY <2>1, <2>2, <2>3 DEF TrafficTypes
    <3>2. all' \in [Executors -> SUBSET Executors]
      BY <2>1, <2>2 DEF TrafficTypes, RInv, Shape
    <3> QED BY <2>1, <2>2, <2>3, <3>1, <3>2 DEF TrafficTypes
  <2>5. ASSUME NEW t \in Tasks PROVE Placed(t)' /\ Moves(t)
    <3>1. /\ \A x, y \in Executors : InBatch(t, x, y)' <=> InBatch(t, x, y) /\ x # e
          /\ t \in cleared' <=> t \in cleared \/ \E y \in Executors : InBatch(t, e, y)
      BY <2>1, <2>2, DropStep
    <3>2. /\ \A x \in Executors : InInbox(t, x)' <=> InInbox(t, x)
          /\ \A x \in Executors : InArrived(t, x)' <=> InArrived(t, x)
          /\ HasLeft(t)' <=> HasLeft(t)
      BY <2>1 DEF InInbox, InArrived, HasLeft
    <3>3. Apart(t) /\ Placed(t)
      BY DEF TInv, Placed
    <3>4. Somewhere(t)' \/ t \in cleared' => Somewhere(t) \/ t \in cleared
      BY <3>1, <3>2 DEF Somewhere
    <3>5. Placed(t)'
      <4>1. Apart(t)'
        BY <3>1, <3>2, <3>3 DEF Apart
      <4> QED BY <2>1, <3>3, <3>4, <4>1 DEF Placed
    <3>6. Somewhere(t) => Somewhere(t)' \/ t \in cleared'
      <4>1. ASSUME NEW x \in Executors, NEW y \in Executors, InBatch(t, x, y)
            PROVE  Somewhere(t)' \/ t \in cleared'
        BY <3>1, <4>1, Zenon DEF Somewhere
      <4> QED BY <3>2, <4>1, Zenon DEF Somewhere
    <3>7. \A x \in Executors \ {e} : Steady(x)
      BY <1>2, <1>4
    <3>8. Moves(t)
      BY <1>2, <2>1, <3>1, <3>2, <3>6, <3>7 DEF Moves
    <3> QED BY <3>5, <3>8
  <2> QED BY <1>4, <2>1, <2>4, <2>5, TrafficStep
<1> QED BY <1>5, <1>6

\* An executor that stops drops its batches, after a version it had not yet processed, and
\* the tasks it had taken over and does not hand on.
LEMMA StopStep ==
    ASSUME RInv, RInv', TInv, NEW e \in Executors, IGracefulStop(e)
    PROVE  TInv'
<1>1. /\ GracefulStop(e)
      /\ arrived' = [arrived EXCEPT ![e] = {}]
      /\ all' = [all EXCEPT ![e] = {}]
      /\ batch' = [batch EXCEPT ![e] = Empty]
      /\ cleared' = cleared \cup Batched(e)
      /\ inbox' = inbox /\ accepted' = accepted /\ route' = route
  BY DEF IGracefulStop
<1>2. PICK shared \in SUBSET arrived[e] : left' = left \cup shared
  BY DEF IGracefulStop
<1>3. /\ loop[e] = "stopped" /\ loop'[e] = "off"
      /\ \A x \in Executors \ {e} : loop'[x] = loop[x]
  BY <1>1 DEF GracefulStop, RInv, Shape
<1>4. [Next]_registry
  BY <1>1 DEF Next
<1>5. Onward /\ \A x \in Executors : Steady(x)
  <2>1. \A x \in Executors : ~(loop[x] = "update" /\ loop'[x] = "round")
    BY <1>3
  <2> QED BY <1>4, <2>1, GoesOn
<1>6. TrafficTypes
  BY DEF TInv
<1>7. /\ batch' \in [Executors -> [Executors -> Seq(Tasks)]]
      /\ \A x, y \in Executors : batch'[x][y] = IF x = e THEN <<>> ELSE batch[x][y]
      /\ cleared' \subseteq Tasks
  BY <1>1, <1>6, DropStep
<1>8. TrafficTypes'
  <2>1. \A x, y \in Executors : batch'[x][y] # <<>> => y \in all'[x]
    BY <1>1, <1>6, <1>7 DEF TrafficTypes
  <2>2. left' \subseteq Tasks /\ arrived' \in [Executors -> SUBSET Tasks]
    BY <1>1, <1>2, <1>6 DEF TrafficTypes
  <2>3. all' \in [Executors -> SUBSET Executors]
    BY <1>1, <1>6 DEF TrafficTypes
  <2> QED BY <1>1, <1>6, <1>7, <2>1, <2>2, <2>3 DEF TrafficTypes
<1>9. ASSUME NEW t \in Tasks PROVE Placed(t)' /\ Moves(t)
  <2>1. /\ \A x, y \in Executors : InBatch(t, x, y)' <=> InBatch(t, x, y) /\ x # e
        /\ t \in cleared' <=> t \in cleared \/ \E y \in Executors : InBatch(t, e, y)
    BY <1>1, <1>6, DropStep
  <2>2. \A x \in Executors : InArrived(t, x)' <=> InArrived(t, x) /\ x # e
    BY <1>1, <1>6 DEF InArrived, TrafficTypes
  <2>3. \A x \in Executors : InInbox(t, x)' <=> InInbox(t, x)
    BY <1>1 DEF InInbox
  <2>4. (HasLeft(t)' => HasLeft(t) \/ InArrived(t, e)) /\ (HasLeft(t) => HasLeft(t)')
    BY <1>2 DEF HasLeft, InArrived
  <2>5. Apart(t) /\ Placed(t)
    BY DEF TInv, Placed
  <2>6. Somewhere(t)' \/ t \in cleared' => Somewhere(t) \/ t \in cleared
    BY <2>1, <2>2, <2>3, <2>4 DEF Somewhere
  <2>7. Placed(t)'
    <3>1. \A x, d, y, z \in Executors :
             InBatch(t, x, d)' /\ InBatch(t, y, z)' => x = y /\ d = z
      BY <2>1, <2>5 DEF Apart
    <3>2. \A x, d, y \in Executors : InBatch(t, x, d)' => ~InInbox(t, y)' /\ ~InArrived(t, y)'
      BY <2>1, <2>2, <2>3, <2>5 DEF Apart
    <3>3. /\ \A x, y \in Executors : InInbox(t, x)' => ~InArrived(t, y)'
          /\ \A x, y \in Executors : InInbox(t, x)' /\ InInbox(t, y)' => x = y
          /\ \A x, y \in Executors : InArrived(t, x)' /\ InArrived(t, y)' => x = y
      BY <2>2, <2>3, <2>5 DEF Apart
    <3>4. ASSUME HasLeft(t)', NEW x \in Executors, NEW d \in Executors
          PROVE  ~InBatch(t, x, d)' /\ ~InInbox(t, x)' /\ ~InArrived(t, x)'
      <4>1. CASE HasLeft(t)
        BY <2>1, <2>2, <2>3, <2>5, <4>1 DEF Apart
      <4>2. CASE InArrived(t, e)
        BY <2>1, <2>2, <2>3, <2>5, <4>2 DEF Apart
      <4> QED BY <2>4, <3>4, <4>1, <4>2
    <3>5. Apart(t)'
      BY <3>1, <3>2, <3>3, <3>4, Zenon DEF Apart
    <3> QED BY <1>1, <2>5, <2>6, <3>5 DEF Placed
  <2>8. ASSUME Somewhere(t)
        PROVE  \/ Somewhere(t)' \/ t \in cleared'
               \/ \E x \in Executors : InArrived(t, x) /\ loop'[x] = "off"
    <3>1. ASSUME NEW x \in Executors, NEW y \in Executors, InBatch(t, x, y)
          PROVE  Somewhere(t)' \/ t \in cleared'
      BY <2>1, <3>1, Zenon DEF Somewhere
    <3>2. ASSUME NEW x \in Executors, InInbox(t, x) PROVE Somewhere(t)'
      BY <2>3, <3>2, Zenon DEF Somewhere
    <3>3. ASSUME NEW x \in Executors, InArrived(t, x)
          PROVE  Somewhere(t)' \/ (InArrived(t, x) /\ loop'[x] = "off")
      BY <1>3, <2>2, <3>3, Zenon DEF Somewhere
    <3>4. ASSUME HasLeft(t) PROVE Somewhere(t)'
      BY <2>4, <3>4, Zenon DEF Somewhere
    <3> QED BY <2>8, <3>1, <3>2, <3>3, <3>4, Zenon DEF Somewhere
  <2>9. Moves(t)
    BY <1>1, <1>3, <1>5, <2>1, <2>2, <2>3, <2>8, Zenon DEF Moves
  <2> QED BY <2>7, <2>9
<1> QED BY <1>1, <1>5, <1>8, <1>9, TrafficStep

\* A task that was sent is in one place on its way to its receiver, whichever locks of the
\* inboxes cannot be had, and is lost only with a batch that its sender drops after it has
\* seen a change of the registry, or at a receiver that stops.
THEOREM SentTasksAreKept == ISpec => []TasksAreKept
<1>1. RInv /\ RInv' /\ TInv /\ [INext]_ivars => TInv'
  <2> SUFFICES ASSUME RInv, RInv', TInv, [INext]_ivars PROVE TInv'
    OBVIOUS
  <2>1. ASSUME UNCHANGED registry, UNCHANGED traffic PROVE TInv'
    BY <2>1, StaysThere, TrafficSame
  <2>2. ASSUME [Next]_registry, UNCHANGED traffic,
               \A x \in Executors : ~(loop[x] = "update" /\ loop'[x] = "round")
        PROVE  TInv'
    <3>1. Onward /\ \A x \in Executors : Steady(x)
      BY <2>2, GoesOn
    <3> QED BY <2>2, <3>1, TrafficSame
  <2>3. ASSUME NEW e \in Executors, IRegistry(e) PROVE TInv'
    <3>1. [Next]_registry /\ UNCHANGED traffic
      BY <2>3 DEF IRegistry, Next
    <3>2. /\ loop[e] # "update"
          /\ \A x \in Executors \ {e} : loop'[x] = loop[x]
      <4>1. loop \in [Executors -> Loop]
        BY DEF RInv, Shape
      <4>2. \/ loop[e] = "new" /\ loop' = [loop EXCEPT ![e] = "check"]
            \/ loop[e] = "check" /\ loop' = [loop EXCEPT ![e] = "round"]
            \/ loop[e] = "check" /\ loop' = [loop EXCEPT ![e] = "update"]
            \/ loop[e] = "round" /\ loop' = [loop EXCEPT ![e] = "check"]
        BY <2>3, Zenon DEF IRegistry, Register, CheckVersion, Round
      <4> QED BY <4>1, <4>2
    <3>3. \A x \in Executors : ~(loop[x] = "update" /\ loop'[x] = "round")
      BY <3>2
    <3> QED BY <2>2, <3>1, <3>3
  <2>4. CASE IStop
    <3>1. [Next]_registry /\ UNCHANGED traffic
      BY <2>4 DEF IStop, Next
    <3>2. loop' = loop
      BY <2>4, Stops, Zenon DEF IStop, Stop
    <3>3. \A x \in Executors : ~(loop[x] = "update" /\ loop'[x] = "round")
      BY <3>2
    <3> QED BY <2>2, <3>1, <3>3
  <2>5. CASE UNCHANGED ivars
    BY <2>1, <2>5 DEF ivars
  <2>6. ASSUME NEW e \in Executors, IUpdate(e) \/ IGracefulStop(e) PROVE TInv'
    BY <2>6, ClearStep, StopStep
  <2>7. ASSUME NEW e \in Executors, NEW t \in Tasks,
               SendToSelf(e, t) \/ Leaves(e, t) \/ \E d \in Executors : Send(e, d, t)
        PROVE  TInv'
    BY <2>7, SelfStep, LeaveStep, SendStep, Zenon
  <2>8. ASSUME NEW e \in Executors, NEW F \in SUBSET Executors, NEW take \in BOOLEAN,
               DoWork(e, F, take)
        PROVE  TInv'
    BY <2>8, WorkStep, Zenon
  <2> QED BY <2>3, <2>4, <2>5, <2>6, <2>7, <2>8, Zenon DEF INext
<1> QED
  BY TrafficInit, <1>1, KeptFollows, UsesRegistry, RegistryInvariant, PTL DEF ISpec

=============================================================================
