----------------------- MODULE PromiseBuffer_proofs -----------------------
(* Proofs about PromiseBuffer, for every set of tasks and every limit. *)
EXTENDS PromiseBuffer, DataFacts, FiniteSetTheorems, TLAPS

(* The producers on the stack are distinct and none has returned. *)
StackIsProducing ==
    /\ \A i \in 1..Len(stack) : status[stack[i]] = "producing"
    /\ \A i, j \in 1..Len(stack) : stack[i] = stack[j] => i = j

(* A drain only waits for promises that were stored. *)
SnapIsStored ==
    \A d \in Drains : \A t \in drain[d].snap : status[t] = "pending" \/ IsSettled(t)

IInv ==
    /\ TypeOK
    /\ StackIsProducing
    /\ SlotsAreInFlight
    /\ SnapIsStored
    /\ Bounded

-----------------------------------------------------------------------------
(* Adding a promise to the set makes it larger by at most one. *)
LEMMA AddBound ==
    ASSUME NEW B, IsFiniteSet(B), NEW x
    PROVE  /\ Cardinality(B \cup {x}) \in Nat
           /\ Cardinality(B \cup {x}) <= Cardinality(B) + 1
  <1>1. Cardinality(B) \in Nat
    BY FS_CardinalityType
  <1>2. CASE x \in B
    <2>1. B \cup {x} = B
      BY <1>2
    <2> QED
      BY <1>1, <2>1
  <1>3. CASE x \notin B
    <2>1. Cardinality(B \cup {x}) = Cardinality(B) + 1
      BY <1>3, FS_AddElement
    <2> QED
      BY <1>1, <2>1
  <1> QED
    BY <1>2, <1>3

(* The tasks in the buffer are finitely many. *)
LEMMA BufferFinite ==
    ASSUME TypeOK
    PROVE  IsFiniteSet(buffer) /\ Cardinality(buffer) \in Nat
  <1>1. IsFiniteSet(buffer)
    BY BufferAssumption, FS_Subset DEF TypeOK
  <1> QED
    BY <1>1, FS_CardinalityType

LEMMA TypeInvariant ==
    ASSUME TypeOK, [Next]_vars
    PROVE  TypeOK'
  <1> USE DEF TypeOK
  <1>1. ASSUME NEW t \in Tasks, Refuse(t) PROVE TypeOK'
    BY <1>1 DEF Refuse, Statuses
  <1>2. ASSUME NEW t \in Tasks, Start(t) PROVE TypeOK'
    BY <1>2 DEF Start, Statuses
  <1>3. ASSUME NEW t \in Tasks, NEW s \in Settled \cup {"pending"}, Store(t, s) PROVE TypeOK'
    <2>1. stack' \in Seq(Tasks)
      BY <1>3, PopFacts DEF Store, Idle, Pop
    <2> QED
      BY <1>3, <2>1 DEF Store, Statuses
  <1>4. ASSUME NEW t \in Tasks, Throw(t) PROVE TypeOK'
    <2>1. stack' \in Seq(Tasks)
      BY <1>4, PopFacts DEF Throw, Idle, Pop
    <2> QED
      BY <1>4, <2>1 DEF Throw, Statuses
  <1>5. ASSUME NEW t \in Tasks, NEW s \in Settled, Settle(t, s) PROVE TypeOK'
    BY <1>5 DEF Settle, Statuses
  <1>6. ASSUME NEW t \in Tasks, Remove(t) PROVE TypeOK'
    BY <1>6 DEF Remove
  <1>7. ASSUME NEW d \in Drains, NEW timed \in BOOLEAN, CallDrain(d, timed) PROVE TypeOK'
    BY <1>7 DEF CallDrain, Answers
  <1>8. ASSUME NEW d \in Drains, DrainDone(d) PROVE TypeOK'
    BY <1>8 DEF DrainDone, Answers
  <1>9. ASSUME NEW d \in Drains, DrainTimeout(d) PROVE TypeOK'
    BY <1>9 DEF DrainTimeout, Answers
  <1>10. CASE UNCHANGED vars
    BY <1>10 DEF vars
  <1> QED
    BY <1>1, <1>2, <1>3, <1>4, <1>5, <1>6, <1>7, <1>8, <1>9, <1>10 DEF Next, ProducerReturns

LEMMA StackStep ==
    ASSUME TypeOK, StackIsProducing, [Next]_vars
    PROVE  StackIsProducing'
  <1> USE DEF TypeOK, StackIsProducing
  <1>1. ASSUME NEW t \in Tasks, Refuse(t) PROVE StackIsProducing'
    <2>1. \A i \in 1..Len(stack) : stack[i] # t
      BY <1>1 DEF Refuse
    <2>2. \A i \in 1..Len(stack) : stack[i] \in Tasks
      BY ElementOfSeq
    <2> QED
      BY <1>1, <2>1, <2>2 DEF Refuse
  <1>2. ASSUME NEW t \in Tasks, Start(t) PROVE StackIsProducing'
    <2>1. /\ \A i \in 1..Len(stack) : stack[i] # t
          /\ \A i \in 1..Len(stack) : stack[i] \in Tasks
      BY <1>2, ElementOfSeq DEF Start
    <2>2. /\ Len(stack') = Len(stack) + 1
          /\ \A i \in 1..Len(stack) : stack'[i] = stack[i]
          /\ stack'[Len(stack) + 1] = t
          /\ Len(stack) \in Nat
      BY <1>2, AppendProperties, LenProperties DEF Start
    <2>3. /\ status'[t] = "producing"
          /\ \A u \in Tasks \ {t} : status'[u] = status[u]
      BY <1>2 DEF Start
    <2>4. \A i \in 1..Len(stack') : i \in 1..Len(stack) \/ i = Len(stack) + 1
      BY <2>2
    <2>5. \A i \in 1..Len(stack) : status'[stack'[i]] = "producing"
      BY <2>1, <2>2, <2>3
    <2>6. \A i \in 1..Len(stack') : status'[stack'[i]] = "producing"
      BY <2>2, <2>3, <2>4, <2>5
    <2>7. \A i, j \in 1..Len(stack') : stack'[i] = stack'[j] => i = j
      BY <2>1, <2>2, <2>4
    <2> QED
      BY <2>6, <2>7
  <1>3. ASSUME NEW t \in Tasks, stack # <<>>, t = Top, stack' = Pop,
               NEW s, status' = [status EXCEPT ![t] = s]
        PROVE StackIsProducing'
    <2>1. /\ Len(stack') = Len(stack) - 1
          /\ \A i \in 1..Len(stack') : stack'[i] = stack[i]
          /\ Len(stack) \in Nat \ {0}
      BY <1>3, PopFacts DEF Pop
    <2>2. \A i \in 1..Len(stack') : stack[i] # t /\ stack[i] \in Tasks
      BY <1>3, <2>1, ElementOfSeq DEF Top
    <2> QED
      BY <1>3, <2>1, <2>2
  <1>4. ASSUME NEW t \in Tasks, NEW s \in Settled, Settle(t, s) PROVE StackIsProducing'
    <2>1. \A i \in 1..Len(stack) : stack[i] # t
      BY <1>4 DEF Settle
    <2>2. \A i \in 1..Len(stack) : stack[i] \in Tasks
      BY ElementOfSeq
    <2> QED
      BY <1>4, <2>1, <2>2 DEF Settle
  <1>5. ASSUME UNCHANGED <<status, stack>> PROVE StackIsProducing'
    BY <1>5
  <1> QED
    BY <1>1, <1>2, <1>3, <1>4, <1>5
    DEF Next, ProducerReturns, Store, Throw, Idle, Remove, CallDrain, DrainDone, DrainTimeout, vars

(* Every step keeps the slots and the snapshots right. *)
LEMMA SlotsStep ==
    ASSUME IInv, [Next]_vars
    PROVE  SlotsAreInFlight' /\ SnapIsStored'
  <1> DEFINE P == SlotsAreInFlight' /\ SnapIsStored'
  <1> USE DEF IInv, TypeOK, SlotsAreInFlight, SnapIsStored, IsSettled, Settled
  <1>1. ASSUME NEW t \in Tasks, Refuse(t) \/ Start(t) PROVE P
    BY <1>1 DEF Refuse, Start
  <1>2. ASSUME NEW t \in Tasks, NEW s \in Settled \cup {"pending"}, Store(t, s) PROVE P
    <2>1. status[t] = "producing"
      BY <1>2, PopFacts DEF Store, Idle, Top, StackIsProducing
    <2> QED
      BY <1>2, <2>1 DEF Store
  <1>3. ASSUME NEW t \in Tasks, Throw(t) PROVE P
    <2>1. status[t] = "producing"
      BY <1>3, PopFacts DEF Throw, Idle, Top, StackIsProducing
    <2> QED
      BY <1>3, <2>1 DEF Throw
  <1>4. ASSUME NEW t \in Tasks, NEW s \in Settled, Settle(t, s) PROVE P
    BY <1>4 DEF Settle
  <1>5. ASSUME NEW t \in Tasks, Remove(t) PROVE P
    BY <1>5 DEF Remove
  <1>6. ASSUME NEW d \in Drains, NEW timed \in BOOLEAN, CallDrain(d, timed) PROVE P
    BY <1>6 DEF CallDrain
  <1>7. ASSUME NEW d \in Drains, DrainDone(d) PROVE P
    BY <1>7 DEF DrainDone, AllSettled
  <1>8. ASSUME NEW d \in Drains, DrainTimeout(d) PROVE P
    BY <1>8 DEF DrainTimeout
  <1>9. CASE UNCHANGED vars
    BY <1>9 DEF vars
  <1> QED
    BY <1>1, <1>2, <1>3, <1>4, <1>5, <1>6, <1>7, <1>8, <1>9 DEF Next, ProducerReturns

(* Every step keeps the bound: the size test is only stale by the number   *)
(* of producers that run above the one that made it.                       *)
LEMMA BoundStep ==
    ASSUME IInv, [Next]_vars
    PROVE  Bounded'
  <1> USE DEF IInv, TypeOK, Bounded
  <1>0. /\ IsFiniteSet(buffer)
        /\ Cardinality(buffer) \in Nat
        /\ Len(stack) \in Nat
        /\ Limit \in Nat /\ MaxDepth \in Nat
    BY BufferFinite, BufferAssumption, LenProperties
  <1>1. ASSUME NEW t \in Tasks, Start(t) PROVE Bounded'
    <2>1. Cardinality(buffer) < Limit /\ Len(stack) < MaxDepth /\ Len(stack') = Len(stack) + 1
      BY <1>1, AppendProperties DEF Start, IsReady
    <2> QED
      BY <1>0, <1>1, <2>1 DEF Start
  <1>2. ASSUME NEW t \in Tasks, NEW s, Store(t, s) PROVE Bounded'
    <2>1. Len(stack') = Len(stack) - 1
      BY <1>2, PopFacts DEF Store, Idle, Pop
    <2>2. buffer' = buffer \/ buffer' = buffer \cup {t}
      BY <1>2 DEF Store
    <2>3. /\ Cardinality(buffer \cup {t}) \in Nat
          /\ Cardinality(buffer \cup {t}) <= Cardinality(buffer) + 1
      BY <1>0, AddBound
    <2>4. Cardinality(buffer') \in Nat /\ Cardinality(buffer') <= Cardinality(buffer) + 1
      <3> HIDE DEF IInv, TypeOK, Bounded
      <3>1. CASE buffer' = buffer
        BY <1>0, <3>1
      <3>2. CASE buffer' = buffer \cup {t}
        <4> DEFINE c == Cardinality(buffer \cup {t})
        <4>1. Cardinality(buffer') = c
          BY <3>2
        <4> QED
          BY <2>3, <4>1
      <3> QED
        BY <2>2, <3>1, <3>2
    <2>5. Cardinality(buffer) + Len(stack) <= Limit + MaxDepth - 1
      OBVIOUS
    <2> HIDE DEF IInv, TypeOK, Bounded
    <2>6. Cardinality(buffer') + Len(stack') <= Limit + MaxDepth - 1
      BY <1>0, <2>1, <2>4, <2>5
    <2> QED
      BY <2>6 DEF Bounded
  <1>3. ASSUME NEW t \in Tasks, Throw(t) PROVE Bounded'
    <2>1. Len(stack') = Len(stack) - 1 /\ buffer' = buffer
      BY <1>3, PopFacts DEF Throw, Idle, Pop
    <2> QED
      BY <1>0, <2>1
  <1>4. ASSUME buffer' \subseteq buffer, stack' = stack PROVE Bounded'
    <2>1. Cardinality(buffer') <= Cardinality(buffer) /\ Cardinality(buffer') \in Nat
      BY <1>0, <1>4, FS_Subset, FS_CardinalityType
    <2> QED
      BY <1>0, <1>4, <2>1
  <1>5. ASSUME NEW t \in Tasks, NEW s \in Settled, Settle(t, s) PROVE Bounded'
    BY <1>4, <1>5 DEF Settle
  <1> QED
    BY <1>1, <1>2, <1>3, <1>4, <1>5
    DEF Next, ProducerReturns, Refuse, Remove, CallDrain, DrainDone, DrainTimeout, vars

LEMMA InitInv == Init => IInv
  <1> SUFFICES ASSUME Init PROVE IInv
    OBVIOUS
  <1>1. TypeOK
    BY EmptySeq DEF Init, TypeOK, Statuses, Answers
  <1>2. StackIsProducing
    BY DEF Init, StackIsProducing
  <1>3. SlotsAreInFlight /\ SnapIsStored
    BY DEF Init, SlotsAreInFlight, SnapIsStored
  <1>4. Bounded
    BY BufferAssumption, FS_EmptySet DEF Init, Bounded
  <1> QED
    BY <1>1, <1>2, <1>3, <1>4 DEF IInv

LEMMA StepInv == IInv /\ [Next]_vars => IInv'
  BY TypeInvariant, StackStep, SlotsStep, BoundStep DEF IInv

THEOREM Invariance == Spec => []IInv
  BY InitInv, StepInv, PTL DEF Spec

-----------------------------------------------------------------------------
(* The variables keep their types. *)
THEOREM TypeCorrect == Spec => []TypeOK
  BY Invariance, PTL DEF IInv

(* promisebuffer.ts:45-58: whatever the limit and the number of calls, the *)
(* set overshoots its limit only by the nesting of producers.              *)
THEOREM BufferIsBounded == Spec => []Bounded
  BY Invariance, PTL DEF IInv

(* Where producers do not nest, `limit` is the maximum its doc announces. *)
THEOREM LimitHoldsWithoutNesting == Spec /\ MaxDepth = 1 => []DocLimit
  <1>1. IInv /\ MaxDepth = 1 => DocLimit
    <2> SUFFICES ASSUME IInv, MaxDepth = 1 PROVE DocLimit
      OBVIOUS
    <2>1. Cardinality(buffer) \in Nat /\ Len(stack) \in Nat /\ Limit \in Nat
      BY BufferFinite, BufferAssumption, LenProperties DEF IInv, TypeOK
    <2> QED
      BY <2>1 DEF IInv, Bounded, DocLimit
  <1>2. CASE MaxDepth = 1
    <2>1. IInv => DocLimit
      BY <1>1, <1>2
    <2> QED
      BY <2>1, Invariance, PTL
  <1>3. CASE MaxDepth # 1
    BY <1>3
  <1> QED
    BY <1>2, <1>3

(* promisebuffer.ts:31-58: no slot leaks, no pending task is forgotten. *)
THEOREM NoSlotLeaks == Spec => []SlotsAreInFlight
  BY Invariance, PTL DEF IInv

(* promisebuffer.ts:25-58: both together, as the runs check them. *)
THEOREM SlotsAreRight == Spec => []Slots
  BY Invariance, PTL DEF IInv, Slots

(* promisebuffer.ts:77-86: a drain only answers false on its own timer and *)
(* while a task of its snapshot is pending.                                *)
THEOREM DrainGivesUpOnStragglers == Spec => GivesUpOnlyOnStragglers
  <1>1. ASSUME IInv, [Next]_vars, NEW d \in Drains,
               drain[d].answer # "false", drain'[d].answer = "false"
        PROVE  drain[d].timed /\ \E t \in drain[d].snap : status[t] = "pending"
    <2>1. \A e \in Drains, b \in BOOLEAN : ~CallDrain(e, b) /\ ~DrainDone(e)
      BY <1>1 DEF CallDrain, DrainDone, IInv, TypeOK
    <2>2. PICK e \in Drains : DrainTimeout(e)
      BY <1>1, <2>1 DEF Next, ProducerReturns, Refuse, Start, Store, Throw, Settle, Remove, vars
    <2>3. e = d
      BY <1>1, <2>2 DEF DrainTimeout, IInv, TypeOK
    <2> QED
      BY <1>1, <2>2, <2>3
      DEF DrainTimeout, AllSettled, ReactionsDone, IInv, SnapIsStored, SlotsAreInFlight, TypeOK
  <1>2. IInv /\ [Next]_vars => [GivesUpRightly]_vars
    BY <1>1 DEF GivesUpRightly
  <1> QED
    BY <1>2, Invariance, PTL DEF Spec, GivesUpOnlyOnStragglers
=============================================================================
