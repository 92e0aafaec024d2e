---------------------------- MODULE ScopeProofs ----------------------------
(***************************************************************************)
(* Proofs about shared_scope, for any finite set of children.  The scope is *)
(* shown to use its WaitGroup as any program may (UsesWaitGroup), and its   *)
(* end to come after its children from an invariant that ties the position  *)
(* of the owner in shared_scope to its wait().                              *)
(***************************************************************************)
EXTENDS Scope, FiniteSetTheorems, TLAPS

\* What is proved of the WaitGroup for every use.
WGP == INSTANCE WaitGroupProofs WITH Waits <- {Owner}, Workers <- Children, MaxAdds <- 1

\* Every step of a scope is a step of its WaitGroup or leaves the group alone.
THEOREM ImplementsUse == Spec => UsesWaitGroup
<1>1. Init => WG!Init
  BY DEF Init
<1>2. [Next]_vars => [WG!Next]_(WG!vars)
  <2> SUFFICES ASSUME [Next]_vars PROVE [WG!Next]_(WG!vars)
    OBVIOUS
  <2>1. CASE UNCHANGED vars
    BY <2>1 DEF vars, group, WG!vars
  <2>2. ASSUME NEW c \in Children, Spawn(c) PROVE WG!Next
    <3>1. {c} \in SUBSET Children
      OBVIOUS
    <3> QED BY <2>2, <3>1 DEF Spawn, WG!Next
  <2>3. ASSUME NEW c \in Children, ChildReady(c) PROVE WG!Next
    BY <2>3 DEF ChildReady, WG!Next
  <2>4. CASE Await \/ HandleCall \/ WaitReady
    BY <2>4 DEF Await, HandleCall, WaitReady, WG!Next
  <2>5. CASE Drop
    BY <2>5 DEF Drop, group, WG!vars
  <2> QED BY <2>1, <2>2, <2>3, <2>4, <2>5 DEF Next
<1> QED
  BY <1>1, <1>2, PTL DEF Spec, UsesWaitGroup, WG!Spec

\* The group's inductive invariant holds in every scope.
LEMMA GroupInvariant == Spec => []WGP!IInv
<1>1. WGP!Spec => []WGP!IInv
  <2>1. 1 \in Nat
    OBVIOUS
  <2>2. WGP!IsFiniteSet(Children)
    BY ChildrenFinite DEF WGP!IsFiniteSet, IsFiniteSet
  <2>3. IsFiniteSet({Owner})
    BY FS_Singleton
  <2>4. WGP!IsFiniteSet({Owner})
    BY <2>3 DEF WGP!IsFiniteSet, IsFiniteSet
  <2> QED BY WGP!Inductive, <2>1, <2>2, <2>4, PTL
<1>2. WG!Init => WGP!Init
  BY DEF WG!Init, WGP!Init
<1>3. [WG!Next]_(WG!vars) => [WGP!Next]_(WGP!vars)
  <2>1. WG!Working = WGP!Working /\ WG!Drainers = WGP!Drainers /\ WG!Poppers = WGP!Poppers
    BY DEF WG!Working, WGP!Working, WG!Drainers, WGP!Drainers, WG!Poppers, WGP!Poppers
  <2>2. WG!vars = WGP!vars
    BY DEF WG!vars, WGP!vars
  <2>3. ASSUME NEW f \in {Owner}
        PROVE  (WG!Wait(f) => WGP!Wait(f)) /\ (WG!Return(f) => WGP!Return(f))
    BY <2>1 DEF WG!Wait, WGP!Wait, WG!Return, WGP!Return
  <2>4. ASSUME NEW f \in {Owner} PROVE WG!HandleCall(f) => WGP!HandleCall(f)
    BY DEF WG!HandleCall, WGP!HandleCall, WG!Push, WGP!Push, WG!Check, WGP!Check, WG!Pop, WGP!Pop
  <2>5. ASSUME NEW S \in SUBSET Children PROVE WG!Add(S) => WGP!Add(S)
    <3>1. WG!Cardinality(S) = WGP!Cardinality(S)
      BY DEF WG!Cardinality, WGP!Cardinality
    <3> QED BY <2>1, <3>1 DEF WG!Add, WGP!Add
  <2>6. ASSUME NEW w \in Children
        PROVE  (WG!Done(w) => WGP!Done(w)) /\ (WG!WakeAll(w) => WGP!WakeAll(w))
    BY DEF WG!Done, WGP!Done, WG!WakeAll, WGP!WakeAll
  <2>7. WG!Next => WGP!Next
    BY <2>3, <2>4, <2>5, <2>6, Zenon DEF WG!Next, WGP!Next
  <2>8. UNCHANGED WG!vars => UNCHANGED WGP!vars
    BY DEF WG!vars, WGP!vars
  <2> QED BY <2>7, <2>8
<1> QED
  BY ImplementsUse, <1>1, <1>2, <1>3, PTL DEF UsesWaitGroup, WG!Spec, WGP!Spec

\* Where the owner is in shared_scope and in its wait(), and that nobody can spawn once
\* the owner has been woken.
OwnerWaits ==
    /\ scope \in {"body", "waiting", "yield", "dropped"}
    /\ scope = "body" <=> wait[Owner] = "new"
    /\ scope \in {"yield", "dropped"} => wait[Owner] = "returned"
    /\ early = {} /\ wait[Owner] \in {"woken", "returned"} => WG!Working = {}

\* The steps of the scope keep the owner and its wait() together; the wake-ups come when
\* nobody works, and then nobody is left to spawn.
LEMMA OwnerStep == WGP!IInv /\ OwnerWaits /\ [Next]_vars => OwnerWaits'
<1> SUFFICES ASSUME WGP!IInv, OwnerWaits, [Next]_vars PROVE OwnerWaits'
  OBVIOUS
<1>1. /\ waited_tasks \in Seq({Owner})
      /\ wait \in [{Owner} -> {"new", "pending", "parked", "woken", "returned"}]
      /\ work \in [Children -> {"idle", "working", "last"}]
      /\ early \subseteq Children
  BY DEF WGP!IInv, WGP!TypeOK
<1>2. (wait[Owner] = "parked") <=> (\E i \in DOMAIN waited_tasks : waited_tasks[i] = Owner)
  BY DEF WGP!IInv, WGP!ListIsParked
<1>3. early = {} /\ WG!Drainers \cup WG!Poppers # {} => WG!Working = {}
  BY DEF WGP!IInv, WGP!NobodyWorks, WG!Drainers, WGP!Drainers, WG!Poppers, WGP!Poppers,
         WG!Working, WGP!Working
<1> USE DEF OwnerWaits
<1>4. CASE UNCHANGED vars
  BY <1>4 DEF vars, group, WG!Working
<1>5. ASSUME NEW c \in Children, Spawn(c) PROVE OwnerWaits'
  <2>1. /\ scope = "body" \/ WG!Working # {}
        /\ scope' = scope /\ wait' = wait /\ (early' = {} => early = {})
    BY <1>5 DEF Spawn, WG!Add
  <2> QED BY <2>1
<1>6. CASE Await
  <2>1. scope = "body" /\ scope' = "waiting" /\ wait' = [wait EXCEPT ![Owner] = "pending"]
    BY <1>6 DEF Await, WG!Wait
  <2> QED BY <1>1, <2>1
<1>7. ASSUME NEW c \in Children, WG!Done(c), UNCHANGED scope PROVE OwnerWaits'
  <2>1. wait' = wait /\ early' = early /\ WG!Working' \subseteq WG!Working
    BY <1>1, <1>7 DEF WG!Done, WG!Working
  <2> QED BY <1>7, <2>1
<1>8. ASSUME NEW c \in Children, WG!WakeAll(c), UNCHANGED scope PROVE OwnerWaits'
  <2>1. c \in WG!Drainers /\ early' = early /\ WG!Working' = WG!Working
    BY <1>1, <1>8 DEF WG!WakeAll, WG!Drainers, WG!Working
  <2>2. wait'[Owner] = IF wait[Owner] = "parked" THEN "woken" ELSE wait[Owner]
    BY <1>2, <1>8 DEF WG!WakeAll
  <2> QED BY <1>1, <1>3, <1>8, <2>1, <2>2
<1>9. ASSUME WG!Push(Owner) \/ WG!Check(Owner), UNCHANGED scope PROVE OwnerWaits'
  <2>1. early' = early /\ WG!Working' = WG!Working
    BY <1>9 DEF WG!Push, WG!Check, WG!Working
  <2>2. wait' = wait \/ (wait[Owner] = "pending" /\ wait' = [wait EXCEPT ![Owner] = "parked"])
    BY <1>9 DEF WG!Push, WG!Check
  <2> QED BY <1>1, <1>9, <2>1, <2>2
<1>10. ASSUME WG!Pop(Owner), UNCHANGED scope PROVE OwnerWaits'
  <2>1. Owner \in WG!Poppers /\ early' = early /\ WG!Working' = WG!Working
    BY <1>10 DEF WG!Pop, WG!Poppers, WG!Working
  <2>2. CASE waited_tasks = <<>>
    <3>1. wait' = wait
      BY <1>10, <2>2 DEF WG!Pop
    <3> QED BY <1>10, <2>1, <3>1
  <2>3. CASE waited_tasks # <<>>
    <3> DEFINE n == Len(waited_tasks)
    <3>1. n \in DOMAIN waited_tasks /\ waited_tasks[n] = Owner
      BY <1>1, <2>3
    <3>2. wait[Owner] = "parked"
      BY <1>2, <3>1
    <3>3. wait' = [wait EXCEPT ![waited_tasks[n]] = "woken"]
      BY <1>10, <2>3 DEF WG!Pop
    <3> HIDE DEF n
    <3>4. wait'[Owner] = "woken"
      BY <1>1, <3>1, <3>3
    <3> QED BY <1>3, <1>10, <2>1, <3>2, <3>4
  <2> QED BY <2>2, <2>3
<1>11. CASE WaitReady
  <2>1. /\ scope = "waiting" /\ scope' = "yield" /\ early' = early
        /\ wait[Owner] = "woken" /\ wait' = [wait EXCEPT ![Owner] = "returned"]
        /\ WG!Working' = WG!Working
    BY <1>11 DEF WaitReady, WG!Return, WG!Working
  <2> QED BY <1>1, <2>1
<1>12. CASE Drop
  BY <1>12 DEF Drop, group, WG!Working
<1> QED
  BY <1>4, <1>5, <1>6, <1>7, <1>8, <1>9, <1>10, <1>11, <1>12
     DEF Next, ChildReady, HandleCall, WG!HandleCall

\* All the children are done when shared_scope returns, unless one was spawned while the
\* done() of an earlier one was waking tasks up.
THEOREM ScopeOutlives == Spec => []ChildrenDone
<1>1. Init => OwnerWaits
  BY DEF Init, WG!Init, OwnerWaits
<1>2. OwnerWaits => ChildrenDone
  BY DEF OwnerWaits, ChildrenDone
<1> QED
  BY GroupInvariant, OwnerStep, <1>1, <1>2, PTL DEF Spec

\* The scope and its group always have their types.
THEOREM ScopeTypes == Spec => []TypeOK
<1>1. Init => OwnerWaits
  BY DEF Init, WG!Init, OwnerWaits
<1>2. WGP!IInv /\ OwnerWaits => TypeOK
  BY DEF OwnerWaits, TypeOK, WGP!IInv, WGP!TypeOK, WG!TypeOK
<1> QED
  BY GroupInvariant, OwnerStep, <1>1, <1>2, PTL DEF Spec

=============================================================================
