--------------------------- MODULE ChannelProofs ---------------------------
(***************************************************************************)
(* Proofs about the shared Channel for any number of senders and receivers, *)
(* any capacities and any number of operations: who is suspended where, that*)
(* nobody waits for what is there, and that the channel implements the      *)
(* queue of module FifoChannel.                                             *)
(***************************************************************************)
EXTENDS Channel, Queues

\* The tasks whose addresses are in a deque.
InDeque == Range(senders) \cup Range(receivers)

\* A task that has popped another one is in the middle of waking it; nobody else can
\* reach the popped task, which stays suspended.
Links ==
    /\ \A t \in Tasks : (state[t] = "waking") <=> (partner[t] # NoTask)
    /\ \A t \in Tasks :
          partner[t] # NoTask =>
            /\ state[partner[t]] = "parked"
            /\ partner[t] \notin InDeque
            /\ t \in Senders => partner[t] \in Receivers
            /\ t \in Receivers => partner[t] \in Senders
    /\ \A t, u \in Tasks : partner[t] # NoTask /\ partner[u] = partner[t] => u = t
    /\ \A t \in InDeque : state[t] \in {"release", "parked"}
    /\ \A t \in Tasks : (state[t] = "release") <=> (lock = t)

\* A task that is inside of an operation has counted it, so that its value has a number.
Counted == \A t \in Tasks : state[t] # "idle" => op[t] >= 1

Deques == Once(senders, Range(senders)) /\ Once(receivers, Range(receivers))

CInv == TypeOK /\ Deques /\ Links /\ Counted /\ NobodyWaitsInVain

\* The types that the invariant gives to the variables.
LEMMA Types ==
    TypeOK => /\ storage \in Seq(Values) /\ capacity \in Nat
              /\ senders \in Seq(Senders) /\ receivers \in Seq(Receivers)
              /\ lock \in Tasks \cup {NoTask} /\ state \in [Tasks -> State]
              /\ partner \in [Tasks -> Tasks \cup {NoTask}]
              /\ op \in [Tasks -> 0 .. MaxOps] /\ received \in [Receivers -> Seq(Values)]
  BY CapacitiesNat, Zenon DEF TypeOK

\* The members of the deques are senders and receivers.
LEMMA DequeMembers ==
    TypeOK => /\ Range(senders) \subseteq Senders /\ Range(receivers) \subseteq Receivers
              /\ InDeque \subseteq Tasks
<1> SUFFICES ASSUME TypeOK
             PROVE  /\ Range(senders) \subseteq Senders /\ Range(receivers) \subseteq Receivers
                    /\ InDeque \subseteq Tasks
  OBVIOUS
<1>1. senders \in Seq(Senders) /\ receivers \in Seq(Receivers)
  BY Types
<1>2. Range(senders) \subseteq Senders
  BY <1>1 DEF Range
<1>3. Range(receivers) \subseteq Receivers
  BY <1>1 DEF Range
<1> QED BY <1>2, <1>3 DEF InDeque, Tasks

\* An empty channel has no waiting tasks.
LEMMA ChannelInit == Init => CInv
<1> SUFFICES ASSUME Init PROVE CInv
  OBVIOUS
<1>1. /\ storage = <<>> /\ capacity \in Capacities /\ senders = <<>> /\ receivers = <<>>
      /\ lock = NoTask /\ state = [t \in Tasks |-> "idle"]
      /\ partner = [t \in Tasks |-> NoTask] /\ op = [t \in Tasks |-> 0]
      /\ received = [r \in Receivers |-> <<>>]
  BY DEF Init
<1>2. is_closed = FALSE
  BY Zenon DEF Init
<1>3. /\ storage \in Seq(Values) /\ senders \in Seq(Senders) /\ receivers \in Seq(Receivers)
      /\ lock \in Tasks \cup {NoTask} /\ state \in [Tasks -> State]
      /\ partner \in [Tasks -> Tasks \cup {NoTask}] /\ op \in [Tasks -> 0 .. MaxOps]
      /\ received \in [Receivers -> Seq(Values)]
  BY <1>1, MaxOpsNat DEF State
<1>4. TypeOK
  BY <1>1, <1>2, <1>3, Zenon DEF TypeOK
<1>5. Range(senders) = {} /\ Range(receivers) = {}
  BY <1>1 DEF Range
<1>6. Deques
  BY <1>1, <1>5, OnceEmpty DEF Deques
<1>7. Links /\ Counted
  BY <1>1, <1>5, NoTaskIsNone DEF Links, Counted, InDeque
<1>8. Len(storage) <= capacity
  BY <1>1, CapacitiesNat
<1>9. NobodyWaitsInVain
  BY <1>1, <1>2, <1>8, Zenon DEF NobodyWaitsInVain
<1> QED BY <1>4, <1>6, <1>7, <1>9 DEF CInv

-----------------------------------------------------------------------------
(* How tasks are linked *)

\* What the links rest on.
Linked == TypeOK /\ Links

\* Nothing moves.
LEMMA MoveNone ==
    ASSUME Linked, UNCHANGED <<senders, receivers, state, partner, lock>>
    PROVE  Links'
<1>1. InDeque' = InDeque
  BY DEF InDeque
<1> QED BY <1>1 DEF Links, Linked

\* A poll pops a task from a deque.
LEMMA MovePop ==
    ASSUME Linked, NEW t \in Tasks, NEW u \in InDeque, state[t] = "idle", lock = NoTask,
           lock' = lock, state' = [state EXCEPT ![t] = "waking"],
           partner' = [partner EXCEPT ![t] = u], InDeque' = InDeque \ {u},
           t \in Senders => u \in Receivers, t \in Receivers => u \in Senders
    PROVE  Links'
<1>0. /\ state \in [Tasks -> State] /\ partner \in [Tasks -> Tasks \cup {NoTask}]
      /\ Links /\ InDeque \subseteq Tasks /\ u \in Tasks
  BY Types, DequeMembers DEF Linked
<1>1. u # NoTask /\ t # NoTask
  BY <1>0, NoTaskIsNone
<1>2. state[u] = "parked" /\ u # t
  BY <1>0, <1>1 DEF Links
<1>3. \A v \in Tasks : partner[v] # NoTask => partner[v] # t /\ partner[v] # u
  BY <1>0, <1>2 DEF Links
<1>4. /\ state'[t] = "waking" /\ partner'[t] = u
      /\ \A v \in Tasks \ {t} : state'[v] = state[v] /\ partner'[v] = partner[v]
  BY <1>0
<1>5. partner[t] = NoTask
  BY <1>0 DEF Links
<1>6. \A v \in Tasks : (state'[v] = "waking") <=> (partner'[v] # NoTask)
  BY <1>0, <1>1, <1>4 DEF Links
<1>7. ASSUME NEW v \in Tasks, partner'[v] # NoTask
      PROVE  /\ state'[partner'[v]] = "parked" /\ partner'[v] \notin InDeque'
             /\ v \in Senders => partner'[v] \in Receivers
             /\ v \in Receivers => partner'[v] \in Senders
  <2>1. CASE v = t
    BY <1>2, <1>4, <2>1
  <2>2. CASE v # t
    <3>1. partner'[v] = partner[v] /\ partner[v] \in Tasks \ {t}
      BY <1>0, <1>3, <1>4, <1>7, <2>2
    <3> QED BY <1>0, <1>4, <1>7, <3>1 DEF Links
  <2> QED BY <2>1, <2>2
<1>8. \A v, w \in Tasks : partner'[v] # NoTask /\ partner'[w] = partner'[v] => w = v
  <2> SUFFICES ASSUME NEW v \in Tasks, NEW w \in Tasks, partner'[v] # NoTask,
                      partner'[w] = partner'[v]
               PROVE  w = v
    OBVIOUS
  <2>1. CASE v = t \/ w = t
    BY <1>1, <1>3, <1>4, <2>1
  <2>2. CASE v # t /\ w # t
    BY <1>0, <1>4, <2>2 DEF Links
  <2> QED BY <2>1, <2>2
<1>9. \A v \in InDeque' : state'[v] \in {"release", "parked"}
  <2> TAKE v \in InDeque'
  <2>1. v \in InDeque /\ state[v] \in {"release", "parked"}
    BY <1>0 DEF Links
  <2>2. v # t /\ v \in Tasks
    BY <1>0, <2>1
  <2> QED BY <1>4, <2>1, <2>2
<1>10. \A v \in Tasks : (state'[v] = "release") <=> (lock' = v)
  BY <1>0, <1>1, <1>4 DEF Links
<1> QED BY <1>6, <1>7, <1>8, <1>9, <1>10, Zenon DEF Links

\* The popped task is woken.
LEMMA MoveWake ==
    ASSUME Linked, NEW t \in Tasks, state[t] = "waking", lock' = lock, InDeque' = InDeque,
           state' = [state EXCEPT ![t] = "idle", ![partner[t]] = "ok"],
           partner' = [partner EXCEPT ![t] = NoTask]
    PROVE  Links'
<1>0. /\ state \in [Tasks -> State] /\ partner \in [Tasks -> Tasks \cup {NoTask}]
      /\ Links /\ InDeque \subseteq Tasks
  BY Types, DequeMembers DEF Linked
<1>1. PICK u \in Tasks : u = partner[t]
  BY <1>0 DEF Links
<1>2. u # NoTask /\ state[u] = "parked" /\ u # t /\ u \notin InDeque
  BY <1>0, <1>1, NoTaskIsNone DEF Links
<1>3. /\ state'[t] = "idle" /\ state'[u] = "ok" /\ partner'[t] = NoTask
      /\ \A v \in Tasks \ {t, u} : state'[v] = state[v]
      /\ \A v \in Tasks \ {t} : partner'[v] = partner[v]
  BY <1>0, <1>1, <1>2
<1>4. partner[u] = NoTask
  BY <1>0, <1>2 DEF Links
<1>5. \A v \in Tasks \ {t} : partner[v] # NoTask => partner[v] # u
  BY <1>0, <1>1, <1>2 DEF Links
<1>6. \A v \in Tasks : partner[v] # NoTask => partner[v] # t
  BY <1>0 DEF Links
<1>7. \A v \in Tasks : (state'[v] = "waking") <=> (partner'[v] # NoTask)
  <2> TAKE v \in Tasks
  <2>1. CASE v = t
    BY <1>3, <2>1
  <2>2. CASE v = u
    BY <1>2, <1>3, <1>4, <2>2
  <2>3. CASE v # t /\ v # u
    BY <1>0, <1>3, <2>3 DEF Links
  <2> QED BY <2>1, <2>2, <2>3
<1>8. ASSUME NEW v \in Tasks, partner'[v] # NoTask
      PROVE  /\ state'[partner'[v]] = "parked" /\ partner'[v] \notin InDeque'
             /\ v \in Senders => partner'[v] \in Receivers
             /\ v \in Receivers => partner'[v] \in Senders
  <2>1. v # t /\ partner'[v] = partner[v]
    BY <1>3, <1>8
  <2>2. partner[v] \in Tasks \ {t, u}
    BY <1>0, <1>5, <1>6, <1>8, <2>1
  <2> QED BY <1>0, <1>3, <1>8, <2>1, <2>2 DEF Links
<1>9. \A v, w \in Tasks : partner'[v] # NoTask /\ partner'[w] = partner'[v] => w = v
  BY <1>0, <1>3 DEF Links
<1>10. \A v \in InDeque' : state'[v] \in {"release", "parked"}
  <2> TAKE v \in InDeque'
  <2>1. v \in InDeque /\ state[v] \in {"release", "parked"} /\ v \in Tasks /\ v # u
    BY <1>0, <1>2 DEF Links
  <2>2. v # t
    BY <2>1
  <2> QED BY <1>3, <2>1, <2>2, Zenon
<1>11. \A v \in Tasks : (state'[v] = "release") <=> (lock' = v)
  <2> TAKE v \in Tasks
  <2>1. CASE v \in {t, u}
    BY <1>0, <1>2, <1>3, <2>1 DEF Links
  <2>2. CASE v \notin {t, u}
    BY <1>0, <1>3, <2>2 DEF Links
  <2> QED BY <2>1, <2>2
<1> QED BY <1>7, <1>8, <1>9, <1>10, <1>11, Zenon DEF Links

\* A poll pushes its own task to a deque and leaves the mutex locked.
LEMMA MovePark ==
    ASSUME Linked, NEW t \in Tasks, state[t] = "idle", lock = NoTask, lock' = t,
           state' = [state EXCEPT ![t] = "release"], partner' = partner,
           InDeque' = InDeque \cup {t}
    PROVE  Links'
<1>0. /\ state \in [Tasks -> State] /\ partner \in [Tasks -> Tasks \cup {NoTask}]
      /\ Links /\ InDeque \subseteq Tasks /\ t # NoTask
  BY Types, DequeMembers, NoTaskIsNone DEF Linked
<1>1. state'[t] = "release" /\ \A v \in Tasks \ {t} : state'[v] = state[v]
  BY <1>0
<1>2. \A v \in Tasks : partner[v] # NoTask => partner[v] # t
  BY <1>0 DEF Links
<1>3. \A v \in Tasks : (state'[v] = "waking") <=> (partner'[v] # NoTask)
  BY <1>0, <1>1 DEF Links
<1>4. ASSUME NEW v \in Tasks, partner'[v] # NoTask
      PROVE  /\ state'[partner'[v]] = "parked" /\ partner'[v] \notin InDeque'
             /\ v \in Senders => partner'[v] \in Receivers
             /\ v \in Receivers => partner'[v] \in Senders
  <2>1. partner[v] \in Tasks \ {t}
    BY <1>0, <1>2, <1>4
  <2> QED BY <1>0, <1>1, <1>4, <2>1 DEF Links
<1>5. \A v, w \in Tasks : partner'[v] # NoTask /\ partner'[w] = partner'[v] => w = v
  BY <1>0 DEF Links
<1>6. \A v \in InDeque' : state'[v] \in {"release", "parked"}
  BY <1>0, <1>1 DEF Links
<1>7. \A v \in Tasks : (state'[v] = "release") <=> (lock' = v)
  <2>1. \A v \in Tasks : state[v] # "release"
    BY <1>0, NoTaskIsNone DEF Links
  <2> QED BY <1>1, <2>1
<1> QED BY <1>3, <1>4, <1>5, <1>6, <1>7, Zenon DEF Links

\* The executor releases the mutex for a task that has returned Pending.
LEMMA MoveRelease ==
    ASSUME Linked, NEW t \in Tasks, state[t] = "release", lock' = NoTask,
           state' = [state EXCEPT ![t] = "parked"], partner' = partner, InDeque' = InDeque
    PROVE  Links'
<1>0. /\ state \in [Tasks -> State] /\ partner \in [Tasks -> Tasks \cup {NoTask}]
      /\ Links /\ InDeque \subseteq Tasks /\ lock = t
  BY Types, DequeMembers DEF Linked, Links
<1>1. state'[t] = "parked" /\ \A v \in Tasks \ {t} : state'[v] = state[v]
  BY <1>0
<1>2. \A v \in Tasks : (state'[v] = "waking") <=> (partner'[v] # NoTask)
  BY <1>0, <1>1 DEF Links
<1>3. ASSUME NEW v \in Tasks, partner'[v] # NoTask
      PROVE  /\ state'[partner'[v]] = "parked" /\ partner'[v] \notin InDeque'
             /\ v \in Senders => partner'[v] \in Receivers
             /\ v \in Receivers => partner'[v] \in Senders
  BY <1>0, <1>1, <1>3 DEF Links
<1>4. \A v, w \in Tasks : partner'[v] # NoTask /\ partner'[w] = partner'[v] => w = v
  BY <1>0 DEF Links
<1>5. \A v \in InDeque' : state'[v] \in {"release", "parked"}
  BY <1>0, <1>1 DEF Links
<1>6. \A v \in Tasks : (state'[v] = "release") <=> (lock' = v)
  <2>1. \A v \in Tasks \ {t} : state[v] # "release"
    BY <1>0 DEF Links
  <2> QED BY <1>1, <2>1, NoTaskIsNone
<1> QED BY <1>2, <1>3, <1>4, <1>5, <1>6, Zenon DEF Links

\* A woken task returns.
LEMMA MoveResume ==
    ASSUME Linked, NEW t \in Tasks, state[t] \in {"ok", "closed"}, lock' = lock,
           state' = [state EXCEPT ![t] = "idle"], partner' = partner, InDeque' = InDeque
    PROVE  Links'
<1>0. /\ state \in [Tasks -> State] /\ partner \in [Tasks -> Tasks \cup {NoTask}]
      /\ Links /\ InDeque \subseteq Tasks
  BY Types, DequeMembers DEF Linked
<1>1. state'[t] = "idle" /\ \A v \in Tasks \ {t} : state'[v] = state[v]
  BY <1>0
<1>2. \A v \in Tasks : (state'[v] = "waking") <=> (partner'[v] # NoTask)
  BY <1>0, <1>1 DEF Links
<1>3. ASSUME NEW v \in Tasks, partner'[v] # NoTask
      PROVE  /\ state'[partner'[v]] = "parked" /\ partner'[v] \notin InDeque'
             /\ v \in Senders => partner'[v] \in Receivers
             /\ v \in Receivers => partner'[v] \in Senders
  <2>1. state[partner[v]] = "parked" /\ partner[v] \in Tasks
    BY <1>0, <1>3 DEF Links
  <2>2. partner[v] # t
    BY <2>1
  <2> QED BY <1>0, <1>1, <1>3, <2>1, <2>2 DEF Links
<1>4. \A v, w \in Tasks : partner'[v] # NoTask /\ partner'[w] = partner'[v] => w = v
  BY <1>0 DEF Links
<1>5. \A v \in InDeque' : state'[v] \in {"release", "parked"}
  <2> TAKE v \in InDeque'
  <2>1. v \in Tasks /\ state[v] \in {"release", "parked"}
    BY <1>0 DEF Links
  <2>2. v # t
    BY <2>1
  <2> QED BY <1>1, <2>1, <2>2
<1>6. \A v \in Tasks : (state'[v] = "release") <=> (lock' = v)
  BY <1>0, <1>1 DEF Links
<1> QED BY <1>2, <1>3, <1>4, <1>5, <1>6, Zenon DEF Links

\* close() takes everybody out of the deques, but not the tasks that a partner has
\* popped before.
LEMMA MoveClose ==
    ASSUME Linked, lock = NoTask, lock' = lock, partner' = partner, InDeque' = {},
           state' = [t \in Tasks |-> IF t \in InDeque THEN "closed" ELSE state[t]]
    PROVE  Links'
<1>0. /\ state \in [Tasks -> State] /\ partner \in [Tasks -> Tasks \cup {NoTask}]
      /\ Links /\ InDeque \subseteq Tasks
  BY Types, DequeMembers DEF Linked
<1>1. \A v \in Tasks : state'[v] = IF v \in InDeque THEN "closed" ELSE state[v]
  OBVIOUS
<1>2. \A v \in InDeque : state[v] = "parked"
  BY <1>0, NoTaskIsNone DEF Links
<1>3. \A v \in Tasks : (state'[v] = "waking") <=> (partner'[v] # NoTask)
  <2> TAKE v \in Tasks
  <2>1. CASE v \in InDeque
    BY <1>0, <1>1, <1>2, <2>1 DEF Links
  <2>2. CASE v \notin InDeque
    BY <1>0, <1>1, <2>2 DEF Links
  <2> QED BY <2>1, <2>2
<1>4. ASSUME NEW v \in Tasks, partner'[v] # NoTask
      PROVE  /\ state'[partner'[v]] = "parked" /\ partner'[v] \notin InDeque'
             /\ v \in Senders => partner'[v] \in Receivers
             /\ v \in Receivers => partner'[v] \in Senders
  <2>1. partner[v] \in Tasks /\ state[partner[v]] = "parked" /\ partner[v] \notin InDeque
    BY <1>0, <1>4 DEF Links
  <2> QED BY <1>0, <1>1, <1>4, <2>1 DEF Links
<1>5. \A v, w \in Tasks : partner'[v] # NoTask /\ partner'[w] = partner'[v] => w = v
  BY <1>0 DEF Links
<1>6. \A v \in Tasks : (state'[v] = "release") <=> (lock' = v)
  <2>1. \A v \in Tasks : state[v] # "release"
    BY <1>0, NoTaskIsNone DEF Links
  <2> QED BY <1>1, <2>1, NoTaskIsNone
<1> QED BY <1>3, <1>4, <1>5, <1>6, Zenon DEF Links

-----------------------------------------------------------------------------
(* Values, deques and the beginning of an operation *)

\* The types of all variables but the flag is_closed.
Shape ==
    /\ storage \in Seq(Values) /\ capacity \in Capacities
    /\ senders \in Seq(Senders) /\ receivers \in Seq(Receivers)
    /\ lock \in Tasks \cup {NoTask} /\ state \in [Tasks -> State]
    /\ partner \in [Tasks -> Tasks \cup {NoTask}]
    /\ op \in [Tasks -> 0 .. MaxOps] /\ received \in [Receivers -> Seq(Values)]

\* What a step that leaves is_closed aside has to keep.
Kept == Shape /\ Deques /\ Links /\ Counted

\* The conjuncts of the invariant.
LEMMA Conjuncts == CInv => Kept /\ Linked /\ TypeOK
  BY Zenon DEF CInv, Kept, Linked, Shape, TypeOK

\* A task that begins an operation is in no deque, and gets a number for it.
LEMMA BeginFacts ==
    ASSUME CInv, NEW t \in Tasks, Begin(t)
    PROVE  /\ state[t] = "idle" /\ lock = NoTask /\ t \notin InDeque /\ capacity' = capacity
           /\ op' \in [Tasks -> 0 .. MaxOps] /\ op'[t] \in 1 .. MaxOps
           /\ \A v \in Tasks \ {t} : op'[v] = op[v]
<1>1. op \in [Tasks -> 0 .. MaxOps] /\ Links
  BY Conjuncts DEF Kept, Shape
<1>2. state[t] = "idle" /\ lock = NoTask /\ capacity' = capacity
  BY DEF Begin
<1>3. op[t] < MaxOps /\ op' = [op EXCEPT ![t] = op[t] + 1]
  BY DEF Begin
<1>4. op'[t] \in 1 .. MaxOps /\ op' \in [Tasks -> 0 .. MaxOps]
  BY <1>1, <1>3, MaxOpsNat
<1>5. t \notin InDeque
  BY <1>1, <1>2 DEF Links
<1> QED BY <1>1, <1>2, <1>3, <1>4, <1>5

\* A task inside of an operation keeps its number.
LEMMA CountedStep ==
    ASSUME Counted,
           \A v \in Tasks : \/ op'[v] >= 1
                            \/ op'[v] = op[v] /\ (state'[v] # "idle" => state[v] # "idle")
    PROVE  Counted'
  BY DEF Counted

\* The value of a suspended sender, and that of a sender that begins.
LEMMA SuspendedValue ==
    ASSUME CInv, NEW s \in Senders, state[s] # "idle" PROVE Value(s) \in Values
<1>1. op[s] \in 1 .. MaxOps
  BY Conjuncts DEF Kept, Counted, Shape, Tasks
<1> QED BY <1>1 DEF Value, Values

\* The value of a send() that begins is one of the values.
LEMMA FirstValue ==
    ASSUME CInv, NEW s \in Senders, Begin(s) PROVE Value(s)' \in Values
<1>1. op'[s] \in 1 .. MaxOps
  BY BeginFacts DEF Tasks
<1> QED BY <1>1 DEF Value, Values

\* The first receiver is popped.
LEMMA PopReceiver ==
    ASSUME CInv, receivers # <<>>, receivers' = Tail(receivers), senders' = senders
    PROVE  /\ receivers' \in Seq(Receivers) /\ Deques' /\ Head(receivers) \in Receivers
           /\ Head(receivers) \in InDeque /\ InDeque' = InDeque \ {Head(receivers)}
<1> DEFINE h == Head(receivers)
<1>1. receivers \in Seq(Receivers) /\ Deques /\ Range(senders) \subseteq Senders
  BY Conjuncts, DequeMembers DEF Kept, Shape
<1>2. /\ h \in Range(receivers) /\ h \in Receivers /\ receivers' \in Seq(Receivers)
      /\ Once(receivers', Range(receivers) \ {h})
  BY <1>1, OnceTail DEF Deques
<1> HIDE DEF h
<1>3. Range(receivers') = Range(receivers) \ {h}
  <2>1. PICK q : q = receivers'
    OBVIOUS
  <2>2. Once(q, Range(receivers) \ {h})
    BY <1>2, <2>1
  <2>3. Range(receivers) \ {h} = {q[i] : i \in DOMAIN q}
    BY <2>2, OnceMembers, Zenon
  <2> QED BY <2>1, <2>3, Zenon DEF Range
<1>4. Deques'
  BY <1>1, <1>2, <1>3, Zenon DEF Deques
<1>5. h \notin Range(senders)
  BY <1>1, <1>2, Disjoint
<1> QED BY <1>2, <1>3, <1>4, <1>5 DEF InDeque, h

\* The first sender is popped.
LEMMA PopSender ==
    ASSUME CInv, senders # <<>>, senders' = Tail(senders), receivers' = receivers
    PROVE  /\ senders' \in Seq(Senders) /\ Deques' /\ Head(senders) \in Senders
           /\ Head(senders) \in InDeque /\ InDeque' = InDeque \ {Head(senders)}
<1> DEFINE h == Head(senders)
<1>1. senders \in Seq(Senders) /\ Deques /\ Range(receivers) \subseteq Receivers
  BY Conjuncts, DequeMembers DEF Kept, Shape
<1>2. /\ h \in Range(senders) /\ h \in Senders /\ senders' \in Seq(Senders)
      /\ Once(senders', Range(senders) \ {h})
  BY <1>1, OnceTail DEF Deques
<1> HIDE DEF h
<1>3. Range(senders') = Range(senders) \ {h}
  <2>1. PICK q : q = senders'
    OBVIOUS
  <2>2. Once(q, Range(senders) \ {h})
    BY <1>2, <2>1
  <2>3. Range(senders) \ {h} = {q[i] : i \in DOMAIN q}
    BY <2>2, OnceMembers, Zenon
  <2> QED BY <2>1, <2>3, Zenon DEF Range
<1>4. Deques'
  BY <1>1, <1>2, <1>3, Zenon DEF Deques
<1>5. h \notin Range(receivers)
  BY <1>1, <1>2, Disjoint
<1> QED BY <1>2, <1>3, <1>4, <1>5 DEF InDeque, h

\* A sender, or a receiver, that is in no deque is pushed to its own.
LEMMA PushSender ==
    ASSUME CInv, NEW s \in Senders, s \notin InDeque, senders' = Append(senders, s),
           receivers' = receivers
    PROVE  senders' \in Seq(Senders) /\ Deques' /\ InDeque' = InDeque \cup {s}
<1>1. senders \in Seq(Senders) /\ Deques /\ s \notin Range(senders)
  BY Conjuncts DEF Kept, Shape, InDeque
<1>2. senders' \in Seq(Senders) /\ Once(senders', Range(senders) \cup {s})
  BY <1>1, OnceAppend DEF Deques
<1>3. Range(senders') = Range(senders) \cup {s}
  BY <1>2, OnceMembers DEF Range
<1> QED BY <1>1, <1>2, <1>3 DEF Deques, InDeque

\* A receiver that suspends joins the deque of receivers.
LEMMA PushReceiver ==
    ASSUME CInv, NEW r \in Receivers, r \notin InDeque, receivers' = Append(receivers, r),
           senders' = senders
    PROVE  receivers' \in Seq(Receivers) /\ Deques' /\ InDeque' = InDeque \cup {r}
<1>1. receivers \in Seq(Receivers) /\ Deques /\ r \notin Range(receivers)
  BY Conjuncts DEF Kept, Shape, InDeque
<1>2. receivers' \in Seq(Receivers) /\ Once(receivers', Range(receivers) \cup {r})
  BY <1>1, OnceAppend DEF Deques
<1>3. Range(receivers') = Range(receivers) \cup {r}
  BY <1>2, OnceMembers DEF Range
<1> QED BY <1>1, <1>2, <1>3 DEF Deques, InDeque

-----------------------------------------------------------------------------
(* One lemma per kind of step *)

\* Steps that move no task: an operation that returns at once.
LEMMA AtOnceKeeps ==
    ASSUME CInv, NEW t \in Tasks,
           op' = [op EXCEPT ![t] = @ + 1], op[t] < MaxOps,
           UNCHANGED <<capacity, senders, receivers, lock, state, partner>>,
           storage' \in Seq(Values), received' \in [Receivers -> Seq(Values)]
    PROVE  Kept'
<1>1. Kept /\ Linked
  BY Conjuncts
<1>2. op \in [Tasks -> 0 .. MaxOps]
  BY <1>1 DEF Kept, Shape
<1>3. op' \in [Tasks -> 0 .. MaxOps] /\ \A v \in Tasks : op'[v] >= 1 \/ op'[v] = op[v]
  BY <1>2, MaxOpsNat
<1>4. Shape'
  BY <1>1, <1>3 DEF Kept, Shape
<1>5. Deques'
  BY <1>1 DEF Kept, Deques
<1>6. Links'
  BY <1>1, MoveNone
<1>7. Counted'
  BY <1>1, <1>3, CountedStep DEF Kept
<1> QED BY <1>4, <1>5, <1>6, <1>7 DEF Kept

\* Steps that pop a task.
LEMMA PopKeeps ==
    ASSUME CInv, NEW t \in Tasks, Begin(t), NEW u \in InDeque, lock' = lock,
           senders' \in Seq(Senders), receivers' \in Seq(Receivers), Deques',
           InDeque' = InDeque \ {u}, t \in Senders => u \in Receivers,
           t \in Receivers => u \in Senders,
           partner' = [partner EXCEPT ![t] = u], state' = [state EXCEPT ![t] = "waking"],
           storage' \in Seq(Values), received' \in [Receivers -> Seq(Values)]
    PROVE  Kept'
<1>1. Kept /\ Linked /\ u \in Tasks
  BY Conjuncts, DequeMembers
<1>2. /\ state[t] = "idle" /\ lock = NoTask /\ capacity' = capacity
      /\ op' \in [Tasks -> 0 .. MaxOps] /\ op'[t] \in 1 .. MaxOps
      /\ \A v \in Tasks \ {t} : op'[v] = op[v]
  BY BeginFacts
<1>3. state' \in [Tasks -> State] /\ partner' \in [Tasks -> Tasks \cup {NoTask}]
  BY <1>1 DEF Kept, Shape, State
<1>4. Shape'
  BY <1>1, <1>2, <1>3 DEF Kept, Shape
<1>5. Links'
  BY <1>1, <1>2, MovePop, Zenon
<1>6. \A v \in Tasks : op'[v] >= 1 \/ (op'[v] = op[v] /\ (state'[v] # "idle" => state[v] # "idle"))
  BY <1>1, <1>2 DEF Kept, Shape
<1>7. Counted'
  BY <1>1, <1>6, CountedStep DEF Kept
<1> QED BY <1>4, <1>5, <1>7 DEF Kept

\* Steps that wake the popped task.
LEMMA WakeKeeps ==
    ASSUME CInv, NEW t \in Tasks, state[t] = "waking",
           state' = [state EXCEPT ![t] = "idle", ![partner[t]] = "ok"],
           partner' = [partner EXCEPT ![t] = NoTask],
           UNCHANGED <<capacity, storage, senders, receivers, lock, op>>,
           received' \in [Receivers -> Seq(Values)]
    PROVE  Kept'
<1>1. Kept /\ Linked
  BY Conjuncts
<1>2. PICK u \in Tasks : u = partner[t] /\ state[u] = "parked"
  BY <1>1 DEF Kept, Shape, Links
<1>3. state' \in [Tasks -> State] /\ partner' \in [Tasks -> Tasks \cup {NoTask}]
  BY <1>1, <1>2 DEF Kept, Shape, State
<1>4. Shape'
  BY <1>1, <1>3, Zenon DEF Kept, Shape
<1>5. Deques' /\ InDeque' = InDeque
  BY <1>1 DEF Kept, Deques, InDeque
<1>6. Links'
  BY <1>1, <1>5, MoveWake, Zenon
<1>7. \A v \in Tasks : op'[v] = op[v] /\ (state'[v] # "idle" => state[v] # "idle")
  BY <1>1, <1>2 DEF Kept, Shape
<1>8. Counted'
  BY <1>1, <1>7, CountedStep, Zenon DEF Kept
<1> QED BY <1>4, <1>5, <1>6, <1>8 DEF Kept

\* Steps that park the task that takes them.
LEMMA ParkKeeps ==
    ASSUME CInv, NEW t \in Tasks, Begin(t), lock' = t,
           senders' \in Seq(Senders), receivers' \in Seq(Receivers), Deques',
           InDeque' = InDeque \cup {t}, state' = [state EXCEPT ![t] = "release"],
           UNCHANGED <<storage, partner, received>>
    PROVE  Kept'
<1>1. Kept /\ Linked
  BY Conjuncts
<1>2. /\ state[t] = "idle" /\ lock = NoTask /\ capacity' = capacity
      /\ op' \in [Tasks -> 0 .. MaxOps] /\ op'[t] \in 1 .. MaxOps
      /\ \A v \in Tasks \ {t} : op'[v] = op[v]
  BY BeginFacts
<1>3. state' \in [Tasks -> State]
  BY <1>1 DEF Kept, Shape, State
<1>4. Shape'
  BY <1>1, <1>2, <1>3 DEF Kept, Shape
<1>5. Links'
  BY <1>1, <1>2, MovePark, Zenon
<1>6. \A v \in Tasks : op'[v] >= 1 \/ (op'[v] = op[v] /\ (state'[v] # "idle" => state[v] # "idle"))
  BY <1>1, <1>2 DEF Kept, Shape
<1>7. Counted'
  BY <1>1, <1>6, CountedStep DEF Kept
<1> QED BY <1>4, <1>5, <1>7 DEF Kept

\* What the executor and close() do.
LEMMA ReleaseKeeps == ASSUME CInv, NEW t \in Tasks, Release(t) PROVE Kept'
<1>1. Kept /\ Linked
  BY Conjuncts
<1>2. /\ state[t] = "release" /\ lock' = NoTask /\ state' = [state EXCEPT ![t] = "parked"]
      /\ UNCHANGED <<capacity, storage, senders, receivers, partner, op, received>>
  BY DEF Release
<1>3. state' \in [Tasks -> State]
  BY <1>1, <1>2 DEF Kept, Shape, State
<1>4. Shape'
  BY <1>1, <1>2, <1>3 DEF Kept, Shape
<1>5. Deques' /\ InDeque' = InDeque
  BY <1>1, <1>2 DEF Kept, Deques, InDeque
<1>6. Links'
  BY <1>1, <1>2, <1>5, MoveRelease, Zenon
<1>7. \A v \in Tasks : op'[v] = op[v] /\ (state'[v] # "idle" => state[v] # "idle")
  BY <1>1, <1>2 DEF Kept, Shape
<1>8. Counted'
  BY <1>1, <1>7, CountedStep DEF Kept
<1> QED BY <1>4, <1>5, <1>6, <1>8 DEF Kept

\* A task that is polled again leaves the deques and the links alone.
LEMMA ResumeKeeps == ASSUME CInv, NEW t \in Tasks, Resume(t) PROVE Kept'
<1>1. Kept /\ Linked
  BY Conjuncts
<1>2. /\ state[t] \in {"ok", "closed"} /\ lock' = lock /\ state' = [state EXCEPT ![t] = "idle"]
      /\ UNCHANGED <<capacity, storage, senders, receivers, partner, op, received>>
  BY DEF Resume
<1>3. state' \in [Tasks -> State]
  BY <1>1, <1>2 DEF Kept, Shape, State
<1>4. Shape'
  BY <1>1, <1>2, <1>3 DEF Kept, Shape
<1>5. Deques' /\ InDeque' = InDeque
  BY <1>1, <1>2 DEF Kept, Deques, InDeque
<1>6. Links'
  BY <1>1, <1>2, <1>5, MoveResume, Zenon
<1>7. \A v \in Tasks : op'[v] = op[v] /\ (state'[v] # "idle" => state[v] # "idle")
  BY <1>1, <1>2 DEF Kept, Shape
<1>8. Counted'
  BY <1>1, <1>7, CountedStep DEF Kept
<1> QED BY <1>4, <1>5, <1>6, <1>8 DEF Kept

\* close() empties both deques and wakes what was in them.
LEMMA CloseKeeps == ASSUME CInv, Close PROVE Kept'
<1>1. Kept /\ Linked
  BY Conjuncts
<1>2. /\ lock = NoTask /\ lock' = lock /\ senders' = <<>> /\ receivers' = <<>>
      /\ state' = [t \in Tasks |-> IF t \in InDeque THEN "closed" ELSE state[t]]
      /\ UNCHANGED <<capacity, storage, partner, op, received>>
  BY DEF Close, InDeque
<1>3. state' \in [Tasks -> State]
  BY <1>1, <1>2 DEF Kept, Shape, State
<1>4. Shape'
  BY <1>1, <1>2, <1>3 DEF Kept, Shape
<1>5. Range(senders') = {} /\ Range(receivers') = {}
  BY <1>2 DEF Range
<1>6. Deques' /\ InDeque' = {}
  BY <1>2, <1>5, OnceEmpty DEF Deques, InDeque
<1>7. Links'
  BY <1>1, <1>2, <1>6, MoveClose
<1>8. \A v \in InDeque : state[v] # "idle"
  BY <1>1 DEF Kept, Links
<1>9. \A v \in Tasks : op'[v] = op[v] /\ (state'[v] # "idle" => state[v] # "idle")
  BY <1>2, <1>8
<1>10. Counted'
  BY <1>1, <1>9, CountedStep DEF Kept
<1> QED BY <1>4, <1>6, <1>7, <1>10 DEF Kept

-----------------------------------------------------------------------------
(* Every step keeps the invariant *)

\* Neither the storage nor the deques change.
LEMMA VainSame ==
    ASSUME NobodyWaitsInVain, UNCHANGED <<storage, senders, receivers, capacity, is_closed>>
    PROVE  NobodyWaitsInVain'
  BY Zenon DEF NobodyWaitsInVain

\* What the invariant says of an open channel, and what is left to show for one.
LEMMA VainOpen ==
    ASSUME CInv, ~is_closed
    PROVE  /\ capacity \in Nat /\ Len(storage) \in Nat /\ Len(storage) <= capacity
           /\ receivers # <<>> => storage = <<>> /\ senders = <<>>
           /\ senders # <<>> => Len(storage) = capacity
<1>1. capacity \in Nat /\ storage \in Seq(Values)
  BY Types, Conjuncts
<1> QED BY <1>1, Zenon, LenProperties DEF CInv, NobodyWaitsInVain

\* What a step on an open channel has to show of the deques and the storage.
LEMMA VainKeeps ==
    ASSUME ~is_closed, is_closed' = is_closed,
           receivers' # <<>> => storage' = <<>> /\ senders' = <<>>,
           senders' # <<>> => Len(storage') = capacity',
           Len(storage') <= capacity'
    PROVE  NobodyWaitsInVain'
  BY Zenon DEF NobodyWaitsInVain

\* send() to a suspended receiver.
LEMMA SendToReceiverKeeps ==
    ASSUME CInv, NEW s \in Senders, SendToReceiver(s) PROVE Kept' /\ NobodyWaitsInVain'
<1>1. /\ Begin(s) /\ receivers # <<>> /\ receivers' = Tail(receivers)
      /\ partner' = [partner EXCEPT ![s] = Head(receivers)]
      /\ state' = [state EXCEPT ![s] = "waking"]
      /\ UNCHANGED <<storage, senders, lock, received>>
  BY DEF SendToReceiver
<1>2. ~is_closed /\ is_closed' = is_closed
  BY Zenon DEF SendToReceiver
<1>3. /\ receivers' \in Seq(Receivers) /\ Deques' /\ Head(receivers) \in Receivers
      /\ Head(receivers) \in InDeque /\ InDeque' = InDeque \ {Head(receivers)}
  BY <1>1, PopReceiver
<1>4. Shape /\ s \in Tasks /\ s \notin Receivers
  BY Conjuncts, Disjoint DEF Kept, Tasks
<1>5. senders' \in Seq(Senders) /\ storage' \in Seq(Values)
      /\ received' \in [Receivers -> Seq(Values)]
  BY <1>1, <1>4 DEF Shape
<1>6. Kept'
  BY <1>1, <1>3, <1>4, <1>5, PopKeeps, Zenon
<1>7. capacity' = capacity
  BY <1>1, <1>4, BeginFacts
<1>8. NobodyWaitsInVain'
  BY <1>1, <1>2, <1>7, VainOpen, VainKeeps
<1> QED BY <1>6, <1>8

\* send() into the storage.
LEMMA SendStoreKeeps ==
    ASSUME CInv, NEW s \in Senders, SendStore(s) PROVE Kept' /\ NobodyWaitsInVain'
<1>1. /\ Begin(s) /\ receivers = <<>> /\ Len(storage) < capacity
      /\ storage' = Append(storage, Value(s)')
      /\ UNCHANGED <<senders, receivers, lock, state, partner, received>>
  BY DEF SendStore
<1>2. ~is_closed /\ is_closed' = is_closed
  BY Zenon DEF SendStore
<1>3. Shape /\ s \in Tasks
  BY Conjuncts DEF Kept, Tasks
<1>4. Value(s)' \in Values
  BY <1>1, FirstValue
<1>5. storage' \in Seq(Values) /\ Len(storage') = Len(storage) + 1
  BY <1>1, <1>3, <1>4 DEF Shape
<1>6. op' = [op EXCEPT ![s] = @ + 1] /\ op[s] < MaxOps /\ capacity' = capacity
  BY <1>1 DEF Begin
<1>7. received' \in [Receivers -> Seq(Values)]
  BY <1>1, <1>3 DEF Shape
<1>8. Kept'
  BY <1>1, <1>3, <1>5, <1>6, <1>7, AtOnceKeeps, Zenon
<1>9. senders = <<>> /\ Len(storage') <= capacity
  BY <1>1, <1>2, <1>5, VainOpen
<1>10. NobodyWaitsInVain'
  BY <1>1, <1>2, <1>6, <1>9, VainKeeps
<1> QED BY <1>8, <1>10

\* send() into a full channel suspends.
LEMMA SendParkKeeps ==
    ASSUME CInv, NEW s \in Senders, SendPark(s) PROVE Kept' /\ NobodyWaitsInVain'
<1>1. /\ Begin(s) /\ receivers = <<>> /\ Len(storage) >= capacity
      /\ senders' = Append(senders, s) /\ state' = [state EXCEPT ![s] = "release"]
      /\ lock' = s /\ UNCHANGED <<storage, receivers, partner, received>>
  BY DEF SendPark
<1>2. ~is_closed /\ is_closed' = is_closed
  BY Zenon DEF SendPark
<1>3. Shape /\ s \in Tasks
  BY Conjuncts DEF Kept, Tasks
<1>4. s \notin InDeque /\ capacity' = capacity
  BY <1>1, <1>3, BeginFacts
<1>5. senders' \in Seq(Senders) /\ Deques' /\ InDeque' = InDeque \cup {s}
  BY <1>1, <1>4, PushSender
<1>6. receivers' \in Seq(Receivers)
  BY <1>1, <1>3 DEF Shape
<1>7. Kept'
  BY <1>1, <1>3, <1>5, <1>6, ParkKeeps, Zenon
<1>8. Len(storage) = capacity
  BY <1>1, <1>2, VainOpen
<1>9. NobodyWaitsInVain'
  BY <1>1, <1>2, <1>4, <1>8, VainOpen, VainKeeps
<1> QED BY <1>7, <1>9

\* recv() from the storage with no sender suspended.
LEMMA RecvStoredKeeps ==
    ASSUME CInv, NEW r \in Receivers, RecvStored(r) PROVE Kept' /\ NobodyWaitsInVain'
<1>1. /\ Begin(r) /\ storage # <<>> /\ senders = <<>>
      /\ received' = [received EXCEPT ![r] = Append(@, Head(storage))]
      /\ storage' = Tail(storage)
      /\ UNCHANGED <<senders, receivers, lock, state, partner>>
  BY DEF RecvStored
<1>2. ~is_closed /\ is_closed' = is_closed
  BY Zenon DEF RecvStored
<1>3. Shape /\ r \in Tasks
  BY Conjuncts DEF Kept, Tasks
<1>4. Head(storage) \in Values /\ storage' \in Seq(Values) /\ Len(storage') = Len(storage) - 1
  BY <1>1, <1>3 DEF Shape
<1>5. received' \in [Receivers -> Seq(Values)]
  BY <1>1, <1>3, <1>4 DEF Shape
<1>6. op' = [op EXCEPT ![r] = @ + 1] /\ op[r] < MaxOps /\ capacity' = capacity
  BY <1>1 DEF Begin
<1>7. Kept'
  BY <1>1, <1>3, <1>4, <1>5, <1>6, AtOnceKeeps, Zenon
<1>8. receivers = <<>> /\ Len(storage') <= capacity
  BY <1>1, <1>2, <1>4, VainOpen
<1>9. NobodyWaitsInVain'
  BY <1>1, <1>2, <1>6, <1>8, VainKeeps
<1> QED BY <1>7, <1>9

\* recv() from the storage, which the first suspended sender refills.
LEMMA RecvStoredFromSenderKeeps ==
    ASSUME CInv, NEW r \in Receivers, RecvStoredFromSender(r)
    PROVE  Kept' /\ NobodyWaitsInVain'
<1>1. /\ Begin(r) /\ storage # <<>> /\ senders # <<>>
      /\ received' = [received EXCEPT ![r] = Append(@, Head(storage))]
      /\ storage' = Append(Tail(storage), Value(Head(senders)))
      /\ senders' = Tail(senders) /\ partner' = [partner EXCEPT ![r] = Head(senders)]
      /\ state' = [state EXCEPT ![r] = "waking"] /\ UNCHANGED <<receivers, lock>>
  BY DEF RecvStoredFromSender
<1>2. ~is_closed /\ is_closed' = is_closed
  BY Zenon DEF RecvStoredFromSender
<1>3. Shape /\ Links /\ r \in Tasks /\ r \notin Senders
  BY Conjuncts, Disjoint DEF Kept, Tasks
<1>4. /\ senders' \in Seq(Senders) /\ Deques' /\ Head(senders) \in Senders
      /\ Head(senders) \in InDeque /\ InDeque' = InDeque \ {Head(senders)}
  BY <1>1, PopSender
<1>5. state[Head(senders)] # "idle"
  BY <1>3, <1>4 DEF Links
<1>6. Value(Head(senders)) \in Values
  BY <1>4, <1>5, SuspendedValue
<1>7. Head(storage) \in Values /\ storage' \in Seq(Values) /\ Len(storage') = Len(storage)
  BY <1>1, <1>3, <1>6 DEF Shape
<1>8. received' \in [Receivers -> Seq(Values)] /\ receivers' \in Seq(Receivers)
  BY <1>1, <1>3, <1>7 DEF Shape
<1>9. Kept'
  BY <1>1, <1>3, <1>4, <1>7, <1>8, PopKeeps, Zenon
<1>10. capacity' = capacity
  BY <1>1, <1>3, BeginFacts
<1>11. receivers = <<>> /\ Len(storage') = capacity /\ Len(storage') <= capacity
  BY <1>1, <1>2, <1>7, VainOpen
<1>12. NobodyWaitsInVain'
  BY <1>1, <1>2, <1>10, <1>11, VainKeeps
<1> QED BY <1>9, <1>12

\* recv() from a suspended sender of a channel without storage.
LEMMA RecvFromSenderKeeps ==
    ASSUME CInv, NEW r \in Receivers, RecvFromSender(r)
    PROVE  Kept' /\ NobodyWaitsInVain'
<1>1. /\ Begin(r) /\ storage = <<>> /\ senders # <<>>
      /\ received' = [received EXCEPT ![r] = Append(@, Value(Head(senders)))]
      /\ senders' = Tail(senders) /\ partner' = [partner EXCEPT ![r] = Head(senders)]
      /\ state' = [state EXCEPT ![r] = "waking"] /\ UNCHANGED <<storage, receivers, lock>>
  BY DEF RecvFromSender
<1>2. ~is_closed /\ is_closed' = is_closed
  BY Zenon DEF RecvFromSender
<1>3. Shape /\ Links /\ r \in Tasks /\ r \notin Senders
  BY Conjuncts, Disjoint DEF Kept, Tasks
<1>4. /\ senders' \in Seq(Senders) /\ Deques' /\ Head(senders) \in Senders
      /\ Head(senders) \in InDeque /\ InDeque' = InDeque \ {Head(senders)}
  BY <1>1, PopSender
<1>5. state[Head(senders)] # "idle"
  BY <1>3, <1>4 DEF Links
<1>6. Value(Head(senders)) \in Values
  BY <1>4, <1>5, SuspendedValue
<1>7. received' \in [Receivers -> Seq(Values)]
  BY <1>1, <1>3, <1>6 DEF Shape
<1>8. storage' \in Seq(Values) /\ receivers' \in Seq(Receivers)
  BY <1>1, <1>3 DEF Shape
<1>9. Kept'
  BY <1>1, <1>3, <1>4, <1>7, <1>8, PopKeeps, Zenon
<1>10. capacity' = capacity
  BY <1>1, <1>3, BeginFacts
<1>11. receivers = <<>> /\ Len(storage) = capacity /\ Len(storage) <= capacity
  BY <1>1, <1>2, VainOpen
<1>12. NobodyWaitsInVain'
  BY <1>1, <1>2, <1>10, <1>11, VainKeeps
<1> QED BY <1>9, <1>12

\* recv() from an empty channel suspends.
LEMMA RecvParkKeeps ==
    ASSUME CInv, NEW r \in Receivers, RecvPark(r) PROVE Kept' /\ NobodyWaitsInVain'
<1>1. /\ Begin(r) /\ storage = <<>> /\ senders = <<>>
      /\ receivers' = Append(receivers, r) /\ state' = [state EXCEPT ![r] = "release"]
      /\ lock' = r /\ UNCHANGED <<storage, senders, partner, received>>
  BY DEF RecvPark
<1>2. ~is_closed /\ is_closed' = is_closed
  BY Zenon DEF RecvPark
<1>3. Shape /\ r \in Tasks
  BY Conjuncts DEF Kept, Tasks
<1>4. r \notin InDeque /\ capacity' = capacity
  BY <1>1, <1>3, BeginFacts
<1>5. receivers' \in Seq(Receivers) /\ Deques' /\ InDeque' = InDeque \cup {r}
  BY <1>1, <1>4, PushReceiver
<1>6. senders' \in Seq(Senders)
  BY <1>1, <1>3 DEF Shape
<1>7. Kept'
  BY <1>1, <1>3, <1>5, <1>6, ParkKeeps, Zenon
<1>8. NobodyWaitsInVain'
  BY <1>1, <1>2, <1>4, VainOpen, VainKeeps
<1> QED BY <1>7, <1>8

\* An operation on a closed channel, or a try_ operation that gives up.
LEMMA GivingUpKeeps ==
    ASSUME CInv, NEW t \in Tasks,
           SendClosed(t) \/ RecvClosed(t) \/ TrySendFails(t) \/ TryRecvFails(t)
    PROVE  Kept' /\ NobodyWaitsInVain'
<1>1. /\ op' = [op EXCEPT ![t] = @ + 1] /\ op[t] < MaxOps
      /\ UNCHANGED <<capacity, storage, senders, receivers, lock, state, partner, received>>
  BY DEF SendClosed, RecvClosed, TrySendFails, TryRecvFails, Begin
<1>2. is_closed' = is_closed
  BY Zenon DEF SendClosed, RecvClosed, TrySendFails, TryRecvFails
<1>3. storage' \in Seq(Values) /\ received' \in [Receivers -> Seq(Values)]
  BY <1>1, Conjuncts DEF Kept, Shape
<1>4. Kept'
  BY <1>1, <1>3, AtOnceKeeps, Zenon
<1>5. NobodyWaitsInVain
  BY DEF CInv
<1>6. NobodyWaitsInVain'
  BY <1>1, <1>2, <1>5, VainSame
<1> QED BY <1>4, <1>6

\* The sender writes the value into its receiver and wakes it.
LEMMA WakeReceiverKeeps ==
    ASSUME CInv, NEW s \in Senders, WakeReceiver(s) PROVE Kept' /\ NobodyWaitsInVain'
<1>1. /\ state[s] = "waking"
      /\ received' = [received EXCEPT ![partner[s]] = Append(@, Value(s))]
      /\ state' = [state EXCEPT ![s] = "idle", ![partner[s]] = "ok"]
      /\ partner' = [partner EXCEPT ![s] = NoTask]
      /\ UNCHANGED <<capacity, storage, senders, receivers, lock, op>>
  BY DEF WakeReceiver
<1>2. is_closed' = is_closed
  BY Zenon DEF WakeReceiver
<1>3. Shape /\ Links /\ s \in Tasks
  BY Conjuncts DEF Kept, Tasks
<1>4. Value(s) \in Values
  BY <1>1, SuspendedValue
<1>5. partner[s] \in Receivers
  BY <1>1, <1>3 DEF Links
<1>6. received' \in [Receivers -> Seq(Values)]
  BY <1>1, <1>3, <1>4, <1>5 DEF Shape
<1>7. Kept'
  BY <1>1, <1>3, <1>6, WakeKeeps, Zenon
<1>8. NobodyWaitsInVain
  BY DEF CInv
<1>9. NobodyWaitsInVain'
  BY <1>1, <1>2, <1>8, VainSame
<1> QED BY <1>7, <1>9

\* The receiver wakes the sender that it has served.
LEMMA WakeSenderKeeps ==
    ASSUME CInv, NEW r \in Receivers, WakeSender(r) PROVE Kept' /\ NobodyWaitsInVain'
<1>1. /\ state[r] = "waking" /\ state' = [state EXCEPT ![r] = "idle", ![partner[r]] = "ok"]
      /\ partner' = [partner EXCEPT ![r] = NoTask]
      /\ UNCHANGED <<capacity, storage, senders, receivers, lock, op, received>>
  BY DEF WakeSender
<1>2. is_closed' = is_closed
  BY Zenon DEF WakeSender
<1>3. received' \in [Receivers -> Seq(Values)] /\ r \in Tasks
  BY <1>1, Conjuncts DEF Kept, Shape, Tasks
<1>4. Kept'
  BY <1>1, <1>3, WakeKeeps, Zenon
<1>5. NobodyWaitsInVain
  BY DEF CInv
<1>6. NobodyWaitsInVain'
  BY <1>1, <1>2, <1>5, VainSame
<1> QED BY <1>4, <1>6

\* The steps of the executor after a poll.
LEMMA ExecutorKeeps ==
    ASSUME CInv, NEW t \in Tasks, Release(t) \/ Resume(t) PROVE Kept' /\ NobodyWaitsInVain'
<1>1. UNCHANGED <<capacity, storage, senders, receivers>>
  BY DEF Release, Resume
<1>2. is_closed' = is_closed
  BY Zenon DEF Release, Resume
<1>3. NobodyWaitsInVain
  BY DEF CInv
<1>4. NobodyWaitsInVain'
  BY <1>1, <1>2, <1>3, VainSame
<1> QED BY <1>4, ReleaseKeeps, ResumeKeeps

\* Nobody is left in the deques of a channel that was closed.
LEMMA CloseVain == ASSUME CInv, Close PROVE NobodyWaitsInVain'
<1>1. senders' = <<>> /\ receivers' = <<>> /\ UNCHANGED <<capacity, storage>>
  BY DEF Close
<1>2. Len(storage) <= capacity
  BY Zenon DEF CInv, NobodyWaitsInVain
<1> QED BY <1>1, <1>2, Zenon DEF NobodyWaitsInVain

\* Stuttering.
LEMMA Stays == ASSUME CInv, UNCHANGED vars PROVE Kept' /\ NobodyWaitsInVain'
<1>1. UNCHANGED <<storage, capacity, senders, receivers, lock, state, partner, op, received>>
  BY DEF vars
<1>2. is_closed' = is_closed
  BY Zenon DEF vars
<1>3. Kept /\ Linked /\ NobodyWaitsInVain
  BY Conjuncts DEF CInv
<1>4. Links'
  BY <1>1, <1>3, MoveNone
<1>5. Shape' /\ Deques' /\ Counted'
  BY <1>1, <1>3 DEF Kept, Shape, Deques, Counted
<1> QED BY <1>1, <1>2, <1>3, <1>4, <1>5, VainSame DEF Kept

\* The flag is a flag.
LEMMA FlagStep == ASSUME is_closed \in BOOLEAN, [Next]_vars PROVE is_closed' \in BOOLEAN
<1>1. CASE UNCHANGED vars
  BY <1>1, Zenon DEF vars
<1>2. ASSUME NEW s \in Senders, Send(s) \/ TrySendFails(s) \/ WakeReceiver(s)
      PROVE  is_closed' \in BOOLEAN
  BY <1>2, Zenon DEF Send, SendClosed, SendToReceiver, SendStore, SendPark, TrySendFails,
     WakeReceiver
<1>3. ASSUME NEW r \in Receivers, Recv(r) \/ TryRecvFails(r) \/ WakeSender(r)
      PROVE  is_closed' \in BOOLEAN
  BY <1>3, Zenon DEF Recv, RecvClosed, RecvStored, RecvStoredFromSender, RecvFromSender,
     RecvPark, TryRecvFails, WakeSender
<1>4. ASSUME NEW t \in Tasks, Release(t) \/ Resume(t) PROVE is_closed' \in BOOLEAN
  BY <1>4, Zenon DEF Release, Resume
<1>5. CASE Close
  BY <1>5, Zenon DEF Close
<1> QED BY <1>1, <1>2, <1>3, <1>4, <1>5, Zenon DEF Next

\* Every step of every task keeps the invariant.
LEMMA ChannelInductive == CInv /\ [Next]_vars => CInv'
<1> SUFFICES ASSUME CInv, [Next]_vars PROVE CInv'
  OBVIOUS
<1>1. ASSUME UNCHANGED vars PROVE Kept' /\ NobodyWaitsInVain'
  BY <1>1, Stays
<1>2. ASSUME NEW s \in Senders, Send(s) \/ TrySendFails(s) \/ WakeReceiver(s)
      PROVE  Kept' /\ NobodyWaitsInVain'
  <2>1. s \in Tasks
    BY DEF Tasks
  <2> QED BY <1>2, <2>1, GivingUpKeeps, SendToReceiverKeeps, SendStoreKeeps, SendParkKeeps,
             WakeReceiverKeeps DEF Send
<1>3. ASSUME NEW r \in Receivers, Recv(r) \/ TryRecvFails(r) \/ WakeSender(r)
      PROVE  Kept' /\ NobodyWaitsInVain'
  <2>1. r \in Tasks
    BY DEF Tasks
  <2> QED BY <1>3, <2>1, GivingUpKeeps, RecvStoredKeeps, RecvStoredFromSenderKeeps,
             RecvFromSenderKeeps, RecvParkKeeps, WakeSenderKeeps DEF Recv
<1>4. ASSUME NEW t \in Tasks, Release(t) \/ Resume(t) PROVE Kept' /\ NobodyWaitsInVain'
  BY <1>4, ExecutorKeeps
<1>5. ASSUME Close PROVE Kept' /\ NobodyWaitsInVain'
  BY <1>5, CloseKeeps, CloseVain
<1>6. Kept' /\ NobodyWaitsInVain'
  BY <1>1, <1>2, <1>3, <1>4, <1>5, Zenon DEF Next
<1>7. is_closed' \in BOOLEAN
  <2>1. is_closed \in BOOLEAN
    BY Zenon DEF CInv, TypeOK
  <2> QED BY <2>1, FlagStep
<1>8. TypeOK'
  BY <1>6, <1>7, Zenon DEF Kept, Shape, TypeOK
<1> QED BY <1>6, <1>8, Zenon DEF Kept, CInv

\* The invariant holds in every reachable state.
LEMMA ChannelInvariant == Spec => []CInv
  BY ChannelInit, ChannelInductive, PTL DEF Spec

\* Whatever the numbers of senders and receivers, the capacity and the order of the steps:
\* a task in a deque, or popped from one, stays suspended in its operation until the one
\* partner that popped it wakes it, so the slot and the call state that the partner writes
\* after it has dropped the lock are live (send and recv of sync/channels/shared.rs).
THEOREM PartnersCorrect == Spec => []PartnersAreSuspended
<1>1. CInv => PartnersAreSuspended
  <2> SUFFICES ASSUME CInv PROVE PartnersAreSuspended
    OBVIOUS
  <2>1. TypeOK /\ Links
    BY DEF CInv
  <2>2. \A t \in Tasks :
          partner[t] # NoTask =>
            /\ state[t] = "waking"
            /\ state[partner[t]] = "parked"
            /\ partner[t] \notin Range(senders) \cup Range(receivers)
            /\ \A u \in Tasks : partner[u] = partner[t] => u = t
    BY <2>1 DEF Links, InDeque
  <2>3. /\ \A t \in Range(senders) \cup Range(receivers) : state[t] \in {"release", "parked"}
        /\ \A t \in Tasks : (state[t] = "release") <=> (lock = t)
    BY <2>1, Zenon DEF Links, InDeque
  <2> QED BY <2>1, <2>2, <2>3, Zenon DEF PartnersAreSuspended
<1> QED BY <1>1, ChannelInvariant, PTL

\* Nobody waits for what is there, whatever the capacity: a receiver is in its deque only
\* while nothing is stored and no sender waits, a sender only while the storage is full, the
\* storage never outgrows the capacity, and a closed channel keeps nobody waiting.
THEOREM WaitersCorrect == Spec => []NobodyWaitsInVain
<1>1. CInv => NobodyWaitsInVain
  BY DEF CInv
<1> QED BY <1>1, ChannelInvariant, PTL

-----------------------------------------------------------------------------
(* The values of the waiting senders *)

\* A value, or what a sender that has sent nothing would send.
Tagged == Senders \X (0 .. MaxOps)

\* The current value of every sender, and the values in the order of the deque.
Tags == [s \in Senders |-> Value(s)]
Lined == Image(senders, Tags)

\* Stored values and those of the waiting senders are of one kind.
LEMMA LinedTypes ==
    ASSUME CInv
    PROVE  /\ storage \in Seq(Tagged) /\ Lined \in Seq(Tagged) /\ senders \in Seq(Senders)
           /\ Tags \in [Senders -> Tagged] /\ \A s \in Senders : Tags[s] = Value(s)
           /\ senders = <<>> => Lined = <<>>
<1>1. storage \in Seq(Values) /\ senders \in Seq(Senders) /\ op \in [Tasks -> 0 .. MaxOps]
  BY Conjuncts DEF Kept, Shape
<1>2. Tags \in [Senders -> Tagged] /\ \A s \in Senders : Tags[s] = Value(s)
  BY <1>1 DEF Tags, Value, Tagged, Tasks
<1>3. Values \subseteq Tagged
  BY MaxOpsNat DEF Values, Tagged
<1>4. storage \in Seq(Tagged)
  BY <1>1, <1>3
<1>5. Lined \in Seq(Tagged)
  BY <1>1, <1>2, ImageType DEF Lined
<1>6. senders = <<>> => Lined = <<>>
  BY DEF Lined, Image
<1> QED BY <1>1, <1>2, <1>4, <1>5, <1>6

\* The abstract queue: the stored values, then those of the waiting senders.
LEMMA QueueIs ==
    ASSUME CInv
    PROVE  storage \o [i \in DOMAIN senders |-> Value(senders[i])] = storage \o Lined
<1>1. senders \in Seq(Senders) /\ \A s \in Senders : Tags[s] = Value(s)
  BY LinedTypes
<1>2. \A i \in DOMAIN senders : senders[i] \in Senders
  BY <1>1
<1>3. [i \in DOMAIN senders |-> Value(senders[i])] = Lined
  BY <1>1, <1>2 DEF Lined, Image
<1> QED BY <1>3

\* A suspended sender keeps its value.
LEMMA TagsStay ==
    ASSUME CInv, CInv', \A v \in InDeque : op'[v] = op[v]
    PROVE  \A i \in DOMAIN senders : Tags'[senders[i]] = Tags[senders[i]]
<1> SUFFICES ASSUME NEW i \in DOMAIN senders PROVE Tags'[senders[i]] = Tags[senders[i]]
  OBVIOUS
<1>1. senders \in Seq(Senders)
  BY LinedTypes
<1>2. senders[i] \in Senders /\ senders[i] \in InDeque
  BY <1>1 DEF InDeque, Range
<1>3. op'[senders[i]] = op[senders[i]]
  BY <1>2
<1>4. PICK s \in Senders : s = senders[i]
  BY <1>2
<1>5. Tags[s] = <<s, op[s]>> /\ Tags'[s] = <<s, op'[s]>>
  BY DEF Tags, Value
<1> QED BY <1>3, <1>4, <1>5

\* The deque stays, loses its first sender or gets a new last one.
LEMMA LinedStay ==
    ASSUME CInv, CInv', \A v \in InDeque : op'[v] = op[v], senders' = senders
    PROVE  Lined' = Lined
  BY TagsStay, ImageSame DEF Lined

\* The first sender is popped: its value was the first of the line.
LEMMA LinedTail ==
    ASSUME CInv, CInv', \A v \in InDeque : op'[v] = op[v], senders # <<>>,
           senders' = Tail(senders)
    PROVE  /\ Lined # <<>> /\ Head(Lined) = Value(Head(senders)) /\ Lined' = Tail(Lined)
<1>1. /\ senders \in Seq(Senders) /\ Tags \in [Senders -> Tagged]
      /\ \A s \in Senders : Tags[s] = Value(s)
  BY LinedTypes
<1>2. /\ Lined # <<>> /\ Head(Lined) = Tags[Head(senders)]
      /\ Image(Tail(senders), Tags) = Tail(Lined)
  BY <1>1, ImageTail DEF Lined
<1>3. PICK q : q = Tail(senders)
  OBVIOUS
<1>4. Head(senders) \in Senders /\ \A i \in DOMAIN q : i + 1 \in DOMAIN senders /\ q[i] = senders[i + 1]
  BY <1>1, <1>3
<1>5. \A i \in DOMAIN q : Tags'[q[i]] = Tags[q[i]]
  BY <1>4, TagsStay
<1>6. Image(q, Tags') = Image(q, Tags)
  BY <1>5, ImageSame
<1> QED BY <1>1, <1>2, <1>3, <1>4, <1>6 DEF Lined

\* A sender suspends: its value comes last in the line.
LEMMA LinedPush ==
    ASSUME CInv, CInv', \A v \in InDeque : op'[v] = op[v], NEW s \in Senders,
           senders' = Append(senders, s)
    PROVE  Lined' = Append(Lined, Value(s)')
<1>1. PICK f : f = Tags'
  OBVIOUS
<1>2. f = [u \in Senders |-> <<u, op'[u]>>] /\ f[s] = Value(s)'
  BY <1>1 DEF Tags, Value
<1>3. op' \in [Tasks -> 0 .. MaxOps] /\ senders \in Seq(Senders)
  BY LinedTypes DEF CInv, TypeOK
<1>4. f \in [Senders -> Tagged]
  BY <1>2, <1>3 DEF Tagged, Tasks
<1>5. Image(Append(senders, s), f) = Append(Image(senders, f), f[s])
  BY <1>3, <1>4, ImageAppend
<1>6. Image(senders, f) = Lined
  BY <1>1, TagsStay, ImageSame DEF Lined
<1> QED BY <1>1, <1>2, <1>5, <1>6, Zenon DEF Lined

-----------------------------------------------------------------------------
(* The values given to a receiver *)

\* Nobody is about to write to r, or one sender is.
LEMMA GivenNone ==
    ASSUME NEW r \in Receivers, received[r] \in Seq(Values), \A s \in Senders : partner[s] # r
    PROVE  Given(r) = received[r]
<1>1. {s \in Senders : partner[s] = r} = {}
  OBVIOUS
<1>2. received[r] \o <<>> = received[r]
  BY ConcatEmptySeq
<1> QED BY <1>1, <1>2 DEF Given

\* A receiver that one sender is about to serve has been given that value.
LEMMA GivenOne ==
    ASSUME NEW r \in Receivers, received[r] \in Seq(Values), NEW s \in Senders,
           partner[s] = r, Value(s) \in Values, \A u \in Senders : partner[u] = r => u = s
    PROVE  Given(r) = Append(received[r], Value(s))
<1>1. {u \in Senders : partner[u] = r} = {s}
  OBVIOUS
<1>2. (CHOOSE u \in {s} : TRUE) = s
  OBVIOUS
<1>3. Append(received[r], Value(s)) = received[r] \o <<Value(s)>>
  BY AppendIsConcat
<1> QED BY <1>1, <1>2, <1>3, Zenon DEF Given

\* The same in the next state.
LEMMA GivenNoneNext ==
    ASSUME NEW r \in Receivers, received'[r] \in Seq(Values), \A s \in Senders : partner'[s] # r
    PROVE  Given(r)' = received'[r]
<1>1. {s \in Senders : partner'[s] = r} = {}
  OBVIOUS
<1>2. received'[r] \o <<>> = received'[r]
  BY ConcatEmptySeq
<1> QED BY <1>1, <1>2 DEF Given

\* The same of the next state.
LEMMA GivenOneNext ==
    ASSUME NEW r \in Receivers, received'[r] \in Seq(Values), NEW s \in Senders,
           partner'[s] = r, Value(s)' \in Values, \A u \in Senders : partner'[u] = r => u = s
    PROVE  Given(r)' = Append(received'[r], Value(s)')
<1>1. {u \in Senders : partner'[u] = r} = {s}
  OBVIOUS
<1>2. (CHOOSE u \in {s} : TRUE) = s
  OBVIOUS
<1>3. Append(received'[r], Value(s)') = received'[r] \o <<Value(s)'>>
  BY AppendIsConcat
<1> QED BY <1>1, <1>2, <1>3, Zenon DEF Given

\* Neither the slot of r nor the sender that is about to write to it changes.
LEMMA GivenStays ==
    ASSUME CInv, CInv', NEW r \in Receivers, received'[r] = received[r],
           \A s \in Senders : (partner'[s] = r) <=> (partner[s] = r),
           \A s \in Senders : partner[s] = r => op'[s] = op[s]
    PROVE  Given(r)' = Given(r)
<1>1. received[r] \in Seq(Values)
  BY Conjuncts DEF Kept, Shape
<1>2. CASE \A s \in Senders : partner[s] # r
  BY <1>1, <1>2, GivenNone, GivenNoneNext
<1>3. ASSUME NEW s \in Senders, partner[s] = r PROVE Given(r)' = Given(r)
  <2>1. Links /\ s \in Tasks /\ r # NoTask /\ r \in Tasks
    BY Conjuncts, NoTaskIsNone DEF Kept, Tasks
  <2>2. state[s] = "waking" /\ \A u \in Senders : partner[u] = r => u = s
    BY <1>3, <2>1 DEF Links, Tasks
  <2>3. Value(s) \in Values /\ Value(s)' = Value(s)
    BY <1>3, <2>2, SuspendedValue DEF Value
  <2>4. Given(r) = Append(received[r], Value(s))
    BY <1>1, <1>3, <2>2, <2>3, GivenOne
  <2>5. Given(r)' = Append(received'[r], Value(s)')
    BY <1>1, <1>3, <2>2, <2>3, GivenOneNext
  <2> QED BY <2>3, <2>4, <2>5
<1> QED BY <1>2, <1>3

\* What the receivers have been given, as the abstract channel sees it.
AllGiven == [r \in Receivers |-> Given(r)]

\* A step that gives nobody anything.
LEMMA NothingGiven ==
    ASSUME CInv, CInv', received' = received,
           \A s \in Senders : partner'[s] = partner[s],
           \A s \in Senders : partner[s] # NoTask => op'[s] = op[s]
    PROVE  AllGiven' = AllGiven
<1>1. \A r \in Receivers : r # NoTask
  BY NoTaskIsNone DEF Tasks
<1>2. \A r \in Receivers : Given(r)' = Given(r)
  BY <1>1, GivenStays
<1> QED BY <1>2 DEF AllGiven

\* A receiver whose recv() takes a value at once.
LEMMA TakenAtOnce ==
    ASSUME CInv, CInv', NEW r \in Receivers, NEW v \in Values, state[r] = "idle",
           received' = [received EXCEPT ![r] = Append(@, v)],
           \A s \in Senders : partner'[s] = partner[s] /\ op'[s] = op[s]
    PROVE  AllGiven' = [AllGiven EXCEPT ![r] = Append(@, v)]
<1>1. Shape /\ Links /\ r \in Tasks /\ r # NoTask
  BY Conjuncts, NoTaskIsNone DEF Kept, Tasks
<1>2. \A s \in Senders : partner[s] # r
  BY <1>1 DEF Links, Tasks
<1>3. /\ received[r] \in Seq(Values) /\ received'[r] = Append(received[r], v)
      /\ \A u \in Receivers \ {r} : received'[u] = received[u]
  BY <1>1 DEF Shape
<1>4. received'[r] \in Seq(Values)
  BY <1>3
<1>5. Given(r) = received[r] /\ Given(r)' = received'[r]
  BY <1>2, <1>3, <1>4, GivenNone, GivenNoneNext
<1>6. \A u \in Receivers \ {r} : Given(u)' = Given(u)
  BY <1>3, GivenStays
<1> QED BY <1>3, <1>5, <1>6, Zenon DEF AllGiven

\* A sender pops a receiver ...
LEMMA PassedOn ==
    ASSUME CInv, CInv', NEW s \in Senders, NEW h \in Receivers, h \in InDeque,
           received' = received, state[s] = "idle", partner' = [partner EXCEPT ![s] = h],
           Value(s)' \in Values, \A u \in Senders \ {s} : op'[u] = op[u]
    PROVE  AllGiven' = [AllGiven EXCEPT ![h] = Append(@, Value(s)')]
<1>1. Shape /\ Links /\ s \in Tasks /\ h \in Tasks /\ NoTask \notin Receivers
  BY Conjuncts, NoTaskIsNone DEF Kept, Tasks
<1>2. partner[s] = NoTask /\ \A u \in Senders : partner[u] # h
  BY <1>1 DEF Links, Tasks
<1>3. /\ received[h] \in Seq(Values) /\ partner'[s] = h
      /\ \A u \in Senders \ {s} : partner'[u] = partner[u]
  BY <1>1 DEF Shape, Tasks
<1>4. Given(h) = received[h]
  BY <1>2, <1>3, GivenNone
<1>5. Given(h)' = Append(received[h], Value(s)')
  BY <1>2, <1>3, GivenOneNext
<1>6. ASSUME NEW r \in Receivers \ {h} PROVE Given(r)' = Given(r)
  <2>1. \A u \in Senders : (partner'[u] = r) <=> (partner[u] = r)
    BY <1>1, <1>2, <1>3
  <2>2. \A u \in Senders : partner[u] = r => op'[u] = op[u]
    BY <1>1, <1>2
  <2> QED BY <2>1, <2>2, GivenStays
<1> QED BY <1>4, <1>5, <1>6, Zenon DEF AllGiven

\* ... and writes to its slot, which gives it nothing new.
LEMMA Written ==
    ASSUME CInv, CInv', NEW s \in Senders, WakeReceiver(s)
    PROVE  AllGiven' = AllGiven
<1>1. /\ state[s] = "waking" /\ op' = op
      /\ received' = [received EXCEPT ![partner[s]] = Append(@, Value(s))]
      /\ partner' = [partner EXCEPT ![s] = NoTask]
  BY DEF WakeReceiver
<1>2. Shape /\ Links /\ s \in Tasks /\ NoTask \notin Receivers
  BY Conjuncts, NoTaskIsNone DEF Kept, Tasks
<1>3. PICK h \in Receivers : h = partner[s]
  BY <1>1, <1>2 DEF Links
<1>4. Value(s) \in Values
  BY <1>1, SuspendedValue
<1>5. \A u \in Senders : partner[u] = h => u = s
  BY <1>2, <1>3 DEF Links, Tasks
<1>6. /\ received[h] \in Seq(Values) /\ received'[h] = Append(received[h], Value(s))
      /\ \A u \in Receivers \ {h} : received'[u] = received[u]
      /\ partner'[s] = NoTask /\ \A u \in Senders \ {s} : partner'[u] = partner[u]
  BY <1>1, <1>2, <1>3 DEF Shape, Tasks
<1>7. received'[h] \in Seq(Values)
  BY <1>4, <1>6
<1>8. Given(h) = Append(received[h], Value(s))
  BY <1>3, <1>4, <1>5, <1>6, GivenOne
<1>9. Given(h)' = received'[h]
  BY <1>2, <1>5, <1>6, <1>7, GivenNoneNext
<1>10. ASSUME NEW r \in Receivers \ {h} PROVE Given(r)' = Given(r)
  <2>1. \A u \in Senders : (partner'[u] = r) <=> (partner[u] = r)
    BY <1>2, <1>3, <1>6
  <2> QED BY <1>1, <1>6, <2>1, GivenStays
<1>11. \A r \in Receivers : Given(r)' = Given(r)
  BY <1>6, <1>8, <1>9, <1>10
<1> QED BY <1>11 DEF AllGiven

-----------------------------------------------------------------------------
(* The channel implements the queue of module FifoChannel *)

\* The abstract queue.
Queue == storage \o [i \in DOMAIN senders |-> Value(senders[i])]

\* The mapped queue, in this state and in the next.
LEMMA QueueNext == ASSUME CInv, CInv' PROVE Queue = storage \o Lined /\ Queue' = storage' \o Lined'
<1>1. Queue = storage \o Lined
  BY QueueIs, Zenon DEF Queue
<1>2. senders' \in Seq(Senders)
  BY DEF CInv, TypeOK
<1>3. PICK q, f : q = senders' /\ f = op'
  OBVIOUS
<1>4. \A i \in DOMAIN q : q[i] \in Senders
  BY <1>2, <1>3
<1>5. [i \in DOMAIN q |-> <<q[i], f[q[i]]>>] = Image(q, [s \in Senders |-> <<s, f[s]>>])
  BY <1>4 DEF Image
<1>6. Lined' = [i \in DOMAIN q |-> <<q[i], f[q[i]]>>]
  BY <1>3, <1>5 DEF Lined, Tags, Value
<1>7. Queue' = storage' \o [i \in DOMAIN q |-> <<q[i], f[q[i]]>>]
  BY <1>3 DEF Queue, Value
<1> QED BY <1>1, <1>6, <1>7

\* A step that begins an operation leaves the numbers of all suspended tasks alone.
LEMMA OthersStay ==
    ASSUME CInv, NEW t \in Tasks, state[t] = "idle", op' = [op EXCEPT ![t] = @ + 1]
    PROVE  /\ \A v \in InDeque : op'[v] = op[v]
           /\ \A v \in Tasks \ {t} : op'[v] = op[v]
           /\ \A v \in Tasks : partner[v] # NoTask => op'[v] = op[v]
<1>1. Links /\ op \in [Tasks -> 0 .. MaxOps] /\ InDeque \subseteq Tasks
  BY Conjuncts, DequeMembers DEF Kept, Shape
<1>2. \A v \in Tasks \ {t} : op'[v] = op[v]
  BY <1>1
<1>3. t \notin InDeque /\ partner[t] = NoTask
  BY <1>1 DEF Links
<1> QED BY <1>1, <1>2, <1>3

\* Steps that the abstract channel does not see.
LEMMA QueueStays ==
    ASSUME CInv, CInv', storage' = storage, senders' = senders,
           \A v \in InDeque : op'[v] = op[v]
    PROVE  Queue' = Queue
  BY LinedStay, QueueNext

\* A call that fails at once does not show in the FIFO channel ...
LEMMA HiddenAtOnce ==
    ASSUME CInv, CInv', NEW t \in Tasks,
           SendClosed(t) \/ RecvClosed(t) \/ TrySendFails(t) \/ TryRecvFails(t)
    PROVE  Queue' = Queue /\ AllGiven' = AllGiven
<1>1. /\ op' = [op EXCEPT ![t] = @ + 1] /\ state[t] = "idle"
      /\ UNCHANGED <<storage, senders, partner, received>>
  BY DEF SendClosed, RecvClosed, TrySendFails, TryRecvFails, Begin
<1>2. /\ \A v \in InDeque : op'[v] = op[v]
      /\ \A v \in Tasks : partner[v] # NoTask => op'[v] = op[v]
  BY <1>1, OthersStay, Zenon
<1> QED BY <1>1, <1>2, QueueStays, NothingGiven DEF Tasks

\* ... nor does a recv() that suspends ...
LEMMA RecvParkHidden ==
    ASSUME CInv, CInv', NEW r \in Receivers, RecvPark(r)
    PROVE  Queue' = Queue /\ AllGiven' = AllGiven
<1>1. /\ op' = [op EXCEPT ![r] = @ + 1] /\ state[r] = "idle"
      /\ UNCHANGED <<storage, senders, partner, received>> /\ r \in Tasks
  BY DEF RecvPark, Begin, Tasks
<1>2. /\ \A v \in InDeque : op'[v] = op[v]
      /\ \A v \in Tasks : partner[v] # NoTask => op'[v] = op[v]
  BY <1>1, OthersStay, Zenon
<1> QED BY <1>1, <1>2, QueueStays, NothingGiven DEF Tasks

\* ... nor do the wakings and the steps of the executor ...
LEMMA HiddenWakings ==
    ASSUME CInv, CInv', NEW t \in Tasks,
           (t \in Receivers /\ WakeSender(t)) \/ Release(t) \/ Resume(t)
    PROVE  Queue' = Queue /\ AllGiven' = AllGiven
<1>1. UNCHANGED <<storage, senders, received, op>>
  BY DEF WakeSender, Release, Resume
<1>2. Shape
  BY Conjuncts DEF Kept
<1>3. CASE t \in Receivers /\ WakeSender(t)
  <2>1. partner' = [partner EXCEPT ![t] = NoTask]
    BY <1>3 DEF WakeSender
  <2>2. \A s \in Senders : partner'[s] = partner[s]
    BY <1>2, <1>3, <2>1, Disjoint DEF Shape, Tasks
  <2> QED BY <1>1, <2>2, QueueStays, NothingGiven
<1>4. CASE Release(t) \/ Resume(t)
  <2>1. partner' = partner
    BY <1>4 DEF Release, Resume
  <2> QED BY <1>1, <2>1, QueueStays, NothingGiven
<1> QED BY <1>3, <1>4

\* ... nor does the late write, since the value counted as given before.
LEMMA WakeReceiverHidden ==
    ASSUME CInv, CInv', NEW s \in Senders, WakeReceiver(s)
    PROVE  Queue' = Queue /\ AllGiven' = AllGiven
<1>1. UNCHANGED <<storage, senders, op>>
  BY DEF WakeReceiver
<1> QED BY <1>1, QueueStays, Written

\* Steps that put a value into the queue.
LEMMA SendStorePuts ==
    ASSUME CInv, CInv', NEW s \in Senders, SendStore(s)
    PROVE  Queue' = Append(Queue, Value(s)') /\ AllGiven' = AllGiven /\ Value(s)' \in Values
<1>1. /\ Begin(s) /\ op' = [op EXCEPT ![s] = @ + 1] /\ state[s] = "idle" /\ s \in Tasks
      /\ Len(storage) < capacity /\ storage' = Append(storage, Value(s)')
      /\ UNCHANGED <<senders, partner, received>>
  BY DEF SendStore, Begin, Tasks
<1>2. ~is_closed
  BY Zenon DEF SendStore
<1>3. /\ \A v \in InDeque : op'[v] = op[v]
      /\ \A v \in Tasks : partner[v] # NoTask => op'[v] = op[v]
  BY <1>1, OthersStay, Zenon
<1>4. senders = <<>>
  BY <1>1, <1>2, VainOpen
<1>5. Lined = <<>> /\ Lined' = <<>> /\ storage \in Seq(Tagged)
  BY <1>1, <1>3, <1>4, LinedTypes, LinedStay
<1>6. Queue = storage
  BY <1>5, QueueNext, ConcatEmptySeq
<1>7. storage' \in Seq(Values)
  BY DEF CInv, TypeOK
<1>8. Queue' = storage'
  <2>1. Queue' = storage' \o <<>>
    BY <1>5, QueueNext
  <2>2. storage' \o <<>> = storage'
    BY <1>7, ConcatEmptySeq
  <2> QED BY <2>1, <2>2
<1>9. Value(s)' \in Values
  BY <1>1, FirstValue
<1> QED BY <1>1, <1>3, <1>6, <1>8, <1>9, NothingGiven DEF Tasks

\* send() that suspends has put its value into the mapped queue.
LEMMA SendParkPuts ==
    ASSUME CInv, CInv', NEW s \in Senders, SendPark(s)
    PROVE  Queue' = Append(Queue, Value(s)') /\ AllGiven' = AllGiven /\ Value(s)' \in Values
<1>1. /\ Begin(s) /\ op' = [op EXCEPT ![s] = @ + 1] /\ state[s] = "idle" /\ s \in Tasks
      /\ senders' = Append(senders, s) /\ UNCHANGED <<storage, partner, received>>
  BY DEF SendPark, Begin, Tasks
<1>2. /\ \A v \in InDeque : op'[v] = op[v]
      /\ \A v \in Tasks : partner[v] # NoTask => op'[v] = op[v]
  BY <1>1, OthersStay, Zenon
<1>3. Lined' = Append(Lined, Value(s)')
  BY <1>1, <1>2, LinedPush
<1>4. PICK v \in Values : v = Value(s)'
  BY <1>1, FirstValue
<1>5. storage \in Seq(Tagged) /\ Lined \in Seq(Tagged) /\ v \in Tagged
  BY LinedTypes, MaxOpsNat DEF Tagged, Values
<1>6. storage \o Append(Lined, v) = Append(storage \o Lined, v)
  BY <1>5, CatAppend
<1>7. Queue' = Append(Queue, v)
  BY <1>1, <1>3, <1>4, <1>6, QueueNext, Zenon
<1>8. AllGiven' = AllGiven
  BY <1>1, <1>2, NothingGiven DEF Tasks
<1> QED BY <1>4, <1>7, <1>8

\* A value goes straight to a waiting receiver.
LEMMA SendToReceiverPasses ==
    ASSUME CInv, CInv', NEW s \in Senders, SendToReceiver(s)
    PROVE  /\ Queue = <<>> /\ Queue' = Queue /\ Value(s)' \in Values
           /\ Head(receivers) \in Receivers
           /\ AllGiven' = [AllGiven EXCEPT ![Head(receivers)] = Append(@, Value(s)')]
<1>1. /\ Begin(s) /\ op' = [op EXCEPT ![s] = @ + 1] /\ state[s] = "idle" /\ s \in Tasks
      /\ receivers # <<>> /\ receivers' = Tail(receivers)
      /\ partner' = [partner EXCEPT ![s] = Head(receivers)]
      /\ UNCHANGED <<storage, senders, received>>
  BY DEF SendToReceiver, Begin, Tasks
<1>2. ~is_closed
  BY Zenon DEF SendToReceiver
<1>3. \A v \in InDeque : op'[v] = op[v]
  BY <1>1, OthersStay, Zenon
<1>4. \A v \in Senders \ {s} : op'[v] = op[v]
  BY <1>1, OthersStay DEF Tasks
<1>5. Head(receivers) \in Receivers /\ Head(receivers) \in InDeque
  BY <1>1, PopReceiver
<1>6. Value(s)' \in Values
  BY <1>1, FirstValue
<1>7. AllGiven' = [AllGiven EXCEPT ![Head(receivers)] = Append(@, Value(s)')]
  BY <1>1, <1>4, <1>5, <1>6, PassedOn, Zenon
<1>8. storage = <<>> /\ senders = <<>>
  BY <1>1, <1>2, VainOpen
<1>9. Queue = <<>>
  BY <1>8, LinedTypes, QueueNext, ConcatEmptySeq
<1> QED BY <1>1, <1>3, <1>5, <1>6, <1>7, <1>9, QueueStays

\* Steps that take the first value of the queue.
LEMMA RecvStoredTakes ==
    ASSUME CInv, CInv', NEW r \in Receivers, RecvStored(r)
    PROVE  /\ Queue # <<>> /\ Queue' = Tail(Queue)
           /\ AllGiven' = [AllGiven EXCEPT ![r] = Append(@, Head(Queue))]
<1>1. /\ op' = [op EXCEPT ![r] = @ + 1] /\ state[r] = "idle" /\ r \in Tasks
      /\ storage # <<>> /\ received' = [received EXCEPT ![r] = Append(@, Head(storage))]
      /\ storage' = Tail(storage) /\ UNCHANGED <<senders, partner>>
  BY DEF RecvStored, Begin, Tasks
<1>2. \A v \in InDeque : op'[v] = op[v]
  BY <1>1, OthersStay, Zenon
<1>3. \A v \in Senders : op'[v] = op[v]
  BY <1>1, OthersStay, Disjoint DEF Tasks
<1>4. Head(storage) \in Values
  BY <1>1, Conjuncts DEF Kept, Shape
<1>5. AllGiven' = [AllGiven EXCEPT ![r] = Append(@, Head(storage))]
  BY <1>1, <1>3, <1>4, TakenAtOnce, Zenon
<1>6. Lined' = Lined /\ storage \in Seq(Tagged) /\ Lined \in Seq(Tagged)
  BY <1>1, <1>2, LinedStay, LinedTypes
<1>7. /\ storage \o Lined # <<>> /\ Head(storage \o Lined) = Head(storage)
      /\ Tail(storage) \o Lined = Tail(storage \o Lined)
  BY <1>1, <1>6, CatTail
<1>8. Queue # <<>> /\ Head(Queue) = Head(storage) /\ Queue' = Tail(Queue)
  BY <1>1, <1>6, <1>7, QueueNext, Zenon
<1> QED BY <1>5, <1>8, Zenon

\* recv() that refills the storage takes the first value of the mapped queue.
LEMMA RecvStoredFromSenderTakes ==
    ASSUME CInv, CInv', NEW r \in Receivers, RecvStoredFromSender(r)
    PROVE  /\ Queue # <<>> /\ Queue' = Tail(Queue)
           /\ AllGiven' = [AllGiven EXCEPT ![r] = Append(@, Head(Queue))]
<1>1. /\ op' = [op EXCEPT ![r] = @ + 1] /\ state[r] = "idle" /\ r \in Tasks
      /\ storage # <<>> /\ received' = [received EXCEPT ![r] = Append(@, Head(storage))]
      /\ storage' = Append(Tail(storage), Value(Head(senders)))
      /\ senders # <<>> /\ senders' = Tail(senders)
      /\ partner' = [partner EXCEPT ![r] = Head(senders)]
  BY DEF RecvStoredFromSender, Begin, Tasks
<1>2. \A v \in InDeque : op'[v] = op[v]
  BY <1>1, OthersStay, Zenon
<1>3. \A v \in Senders : op'[v] = op[v] /\ partner'[v] = partner[v]
  BY <1>1, OthersStay, Disjoint, Conjuncts DEF Tasks, Kept, Shape
<1>4. Head(storage) \in Values
  BY <1>1, Conjuncts DEF Kept, Shape
<1>5. AllGiven' = [AllGiven EXCEPT ![r] = Append(@, Head(storage))]
  BY <1>1, <1>3, <1>4, TakenAtOnce, Zenon
<1>6. Lined # <<>> /\ Head(Lined) = Value(Head(senders)) /\ Lined' = Tail(Lined)
  BY <1>1, <1>2, LinedTail
<1>7. storage \in Seq(Tagged) /\ Lined \in Seq(Tagged) /\ Tail(storage) \in Seq(Tagged)
  BY <1>1, LinedTypes
<1>8. /\ storage \o Lined # <<>> /\ Head(storage \o Lined) = Head(storage)
      /\ Tail(storage) \o Lined = Tail(storage \o Lined)
  BY <1>1, <1>7, CatTail
<1>9. Append(Tail(storage), Head(Lined)) \o Tail(Lined) = Tail(storage) \o Lined
  BY <1>6, <1>7, CatShift
<1>10. Queue # <<>> /\ Head(Queue) = Head(storage) /\ Queue' = Tail(Queue)
  BY <1>1, <1>6, <1>8, <1>9, QueueNext, Zenon
<1> QED BY <1>5, <1>10, Zenon

\* recv() from a suspended sender takes the first value of the mapped queue.
LEMMA RecvFromSenderTakes ==
    ASSUME CInv, CInv', NEW r \in Receivers, RecvFromSender(r)
    PROVE  /\ Queue # <<>> /\ Queue' = Tail(Queue)
           /\ AllGiven' = [AllGiven EXCEPT ![r] = Append(@, Head(Queue))]
<1>1. /\ op' = [op EXCEPT ![r] = @ + 1] /\ state[r] = "idle" /\ r \in Tasks
      /\ storage = <<>> /\ storage' = storage /\ receivers' = receivers
      /\ received' = [received EXCEPT ![r] = Append(@, Value(Head(senders)))]
      /\ senders # <<>> /\ senders' = Tail(senders)
      /\ partner' = [partner EXCEPT ![r] = Head(senders)]
  BY DEF RecvFromSender, Begin, Tasks
<1>2. \A v \in InDeque : op'[v] = op[v]
  BY <1>1, OthersStay, Zenon
<1>3. \A v \in Senders : op'[v] = op[v] /\ partner'[v] = partner[v]
  BY <1>1, OthersStay, Disjoint, Conjuncts DEF Tasks, Kept, Shape
<1>4. Value(Head(senders)) \in Values
  <2>1. Links /\ Head(senders) \in Senders /\ Head(senders) \in InDeque
    BY <1>1, Conjuncts, PopSender DEF Kept
  <2>2. state[Head(senders)] # "idle"
    BY <2>1 DEF Links
  <2> QED BY <2>1, <2>2, SuspendedValue
<1>5. AllGiven' = [AllGiven EXCEPT ![r] = Append(@, Value(Head(senders)))]
  BY <1>1, <1>3, <1>4, TakenAtOnce, Zenon
<1>6. Lined # <<>> /\ Head(Lined) = Value(Head(senders)) /\ Lined' = Tail(Lined)
  BY <1>1, <1>2, LinedTail
<1>7. Lined \in Seq(Tagged) /\ Tail(Lined) \in Seq(Tagged)
  BY <1>6, LinedTypes
<1>8. Queue = Lined /\ Queue' = Tail(Lined)
  BY <1>1, <1>6, <1>7, QueueNext, ConcatEmptySeq
<1> QED BY <1>5, <1>6, <1>8, Zenon

\* close() gives the values of the waiting senders back.
LEMMA CloseCloses ==
    ASSUME CInv, CInv', Close
    PROVE  /\ \E k \in 0 .. Len(Queue) : Queue' = SubSeq(Queue, 1, k)
           /\ AllGiven' = AllGiven
<1>1. senders' = <<>> /\ UNCHANGED <<storage, partner, op, received>>
  BY DEF Close
<1>2. storage \in Seq(Tagged) /\ Lined \in Seq(Tagged)
  BY LinedTypes
<1>3. Lined' = <<>>
  BY <1>1 DEF Lined, Image
<1>4. Queue = storage \o Lined /\ Queue' = storage
  BY <1>1, <1>2, <1>3, QueueNext, ConcatEmptySeq
<1>5. Len(storage) \in 0 .. Len(storage \o Lined) /\ SubSeq(storage \o Lined, 1, Len(storage)) = storage
  BY <1>2, CatPrefix
<1> QED BY <1>1, <1>4, <1>5, NothingGiven, Zenon

\* Every step is a step of the abstract channel or leaves it alone.
LEMMA SendRefines ==
    ASSUME CInv, CInv', NEW s \in Senders, Send(s) \/ TrySendFails(s) \/ WakeReceiver(s)
    PROVE  [Abstract!Next]_(Abstract!vars)
<1>0. s \in Tasks
  BY DEF Tasks
<1>1. ASSUME SendClosed(s) \/ TrySendFails(s) \/ WakeReceiver(s)
      PROVE  UNCHANGED Abstract!vars
  <2>1. Queue' = Queue /\ AllGiven' = AllGiven
    BY <1>0, <1>1, HiddenAtOnce, WakeReceiverHidden
  <2>2. is_closed' = is_closed
    BY <1>1, Zenon DEF SendClosed, TrySendFails, WakeReceiver
  <2> QED BY <2>1, <2>2, Zenon DEF Abstract!vars, Queue, AllGiven
<1>2. ASSUME SendStore(s) \/ SendPark(s) PROVE Abstract!Next
  <2>1. PICK v \in Values : v = Value(s)' /\ Queue' = Append(Queue, v) /\ AllGiven' = AllGiven
    BY <1>2, SendStorePuts, SendParkPuts
  <2>2. ~is_closed /\ is_closed' = is_closed
    BY <1>2, Zenon DEF SendStore, SendPark
  <2>3. Abstract!Put(v)
    BY <2>1, <2>2, Zenon DEF Abstract!Put, Queue, AllGiven
  <2> QED BY <2>3, Zenon DEF Abstract!Next
<1>3. ASSUME SendToReceiver(s) PROVE Abstract!Next
  <2>1. PICK v \in Values, h \in Receivers :
          /\ Queue = <<>> /\ Queue' = Queue
          /\ AllGiven' = [AllGiven EXCEPT ![h] = Append(@, v)]
    BY <1>3, SendToReceiverPasses
  <2>2. ~is_closed /\ is_closed' = is_closed
    BY <1>3, Zenon DEF SendToReceiver
  <2>3. Abstract!Pass(v, h)
    BY <2>1, <2>2, Zenon DEF Abstract!Pass, Queue, AllGiven
  <2> QED BY <2>3, Zenon DEF Abstract!Next
<1> QED BY <1>1, <1>2, <1>3, Zenon DEF Send

\* Every step of a receiver is a Take of the FIFO channel or a stutter.
LEMMA RecvRefines ==
    ASSUME CInv, CInv', NEW r \in Receivers, Recv(r) \/ TryRecvFails(r) \/ WakeSender(r)
    PROVE  [Abstract!Next]_(Abstract!vars)
<1>0. r \in Tasks
  BY DEF Tasks
<1>1. ASSUME RecvClosed(r) \/ TryRecvFails(r) \/ WakeSender(r) \/ RecvPark(r)
      PROVE  UNCHANGED Abstract!vars
  <2>1. Queue' = Queue /\ AllGiven' = AllGiven
    BY <1>0, <1>1, HiddenAtOnce, HiddenWakings, RecvParkHidden
  <2>2. is_closed' = is_closed
    BY <1>1, Zenon DEF RecvClosed, TryRecvFails, WakeSender, RecvPark
  <2> QED BY <2>1, <2>2, Zenon DEF Abstract!vars, Queue, AllGiven
<1>2. ASSUME RecvStored(r) \/ RecvStoredFromSender(r) \/ RecvFromSender(r) PROVE Abstract!Next
  <2>1. /\ Queue # <<>> /\ Queue' = Tail(Queue)
        /\ AllGiven' = [AllGiven EXCEPT ![r] = Append(@, Head(Queue))]
    BY <1>2, RecvStoredTakes, RecvStoredFromSenderTakes, RecvFromSenderTakes
  <2>2. ~is_closed /\ is_closed' = is_closed
    BY <1>2, Zenon DEF RecvStored, RecvStoredFromSender, RecvFromSender
  <2>3. Abstract!Take(r)
    BY <2>1, <2>2, Zenon DEF Abstract!Take, Queue, AllGiven
  <2> QED BY <2>3, Zenon DEF Abstract!Next
<1> QED BY <1>1, <1>2, Zenon DEF Recv

\* The steps of the executor are stutters of the FIFO channel.
LEMMA OthersRefine ==
    ASSUME CInv, CInv', NEW t \in Tasks, Release(t) \/ Resume(t)
    PROVE  [Abstract!Next]_(Abstract!vars)
<1>1. Queue' = Queue /\ AllGiven' = AllGiven
  BY HiddenWakings
<1>2. is_closed' = is_closed
  BY Zenon DEF Release, Resume
<1> QED BY <1>1, <1>2, Zenon DEF Abstract!vars, Queue, AllGiven

\* close() is the Close of the FIFO channel.
LEMMA CloseRefines == ASSUME CInv, CInv', Close PROVE Abstract!Next
<1>1. (\E k \in 0 .. Len(Queue) : Queue' = SubSeq(Queue, 1, k)) /\ AllGiven' = AllGiven
  BY CloseCloses
<1>2. is_closed' = TRUE
  BY Zenon DEF Close
<1>3. Abstract!Close
  BY <1>1, <1>2, Zenon DEF Abstract!Close, Queue, AllGiven
<1> QED BY <1>3, Zenon DEF Abstract!Next

\* The shared channel implements the queue of FifoChannel for any senders, receivers and
\* capacities: nothing that was accepted is lost, duplicated or overtaken on its way through
\* the storage, the deque of waiting senders and the hand-over after the lock is dropped, and
\* nothing is given to anyone once the channel is closed.
THEOREM ChannelIsFifo == Spec => ImplementsFifo
<1>1. Init => Abstract!Init
  <2> SUFFICES ASSUME Init PROVE Abstract!Init
    OBVIOUS
  <2>1. /\ storage = <<>> /\ senders = <<>> /\ received = [r \in Receivers |-> <<>>]
        /\ partner = [t \in Tasks |-> NoTask]
    BY DEF Init
  <2>2. is_closed = FALSE
    BY Zenon DEF Init
  <2>3. CInv
    BY ChannelInit
  <2>4. Queue = <<>>
    BY <2>1, <2>3, LinedTypes, QueueIs, ConcatEmptySeq DEF Queue
  <2>5. ASSUME NEW r \in Receivers PROVE Given(r) = <<>>
    BY <2>1, NoTaskIsNone, GivenNone DEF Tasks
  <2>6. AllGiven = [r \in Receivers |-> <<>>]
    BY <2>5 DEF AllGiven
  <2> QED BY <2>2, <2>4, <2>6, Zenon DEF Abstract!Init, Queue, AllGiven
<1>2. CInv /\ CInv' /\ [Next]_vars => [Abstract!Next]_(Abstract!vars)
  <2> SUFFICES ASSUME CInv, CInv', [Next]_vars PROVE [Abstract!Next]_(Abstract!vars)
    OBVIOUS
  <2>1. CASE UNCHANGED vars
    <3>1. UNCHANGED <<storage, senders, op, partner, received>>
      BY <2>1 DEF vars
    <3>2. is_closed' = is_closed
      BY <2>1, Zenon DEF vars
    <3>3. Queue' = Queue /\ AllGiven' = AllGiven
      BY <3>1, QueueStays, NothingGiven
    <3> QED BY <3>2, <3>3, Zenon DEF Abstract!vars, Queue, AllGiven
  <2>2. CASE Next
    BY <2>2, SendRefines, RecvRefines, OthersRefine, CloseRefines, Zenon DEF Next
  <2> QED BY <2>1, <2>2
<1> QED BY <1>1, <1>2, ChannelInvariant, PTL DEF Spec, ImplementsFifo, Abstract!Spec

=============================================================================
