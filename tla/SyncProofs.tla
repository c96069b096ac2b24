----------------------------- MODULE SyncProofs -----------------------------
(***************************************************************************)
(* Proofs about the three objects that threads wait on: ts_queue (the      *)
(* order of the items, the wakeups of Push and Stop, the abstract queue of *)
(* work), barrier (the rendezvous, for any number of rounds and any width  *)
(* of the unsigned counters, wrap-around included) and threads::Event, for *)
(* any finite sets of threads and items.                                   *)
(***************************************************************************)
EXTENDS TsQueue, Barrier, ThreadEvent, FiniteSetTheorems, TLAPS

(***************************************************************************)
(* ts_queue.                                                               *)
(***************************************************************************)

\* The sets that NoLostNotify counts are finite.
LEMMA Finite ==
    /\ IsFiniteSet(Woken) /\ Cardinality(Woken) \in Nat
    /\ IsFiniteSet(Notifying) /\ Cardinality(Notifying) \in Nat
<1>1. Woken \subseteq Consumer /\ Notifying \subseteq Item
  BY DEF Woken, Notifying
<1>2. IsFiniteSet(Woken) /\ IsFiniteSet(Notifying)
  BY <1>1, FiniteAssumption, FS_Subset
<1> QED  BY <1>2, FS_CardinalityType

\* A consumer that is woken adds one to the woken ones.
LEMMA WakeCounts ==
    ASSUME TypeOK, NEW c \in Consumer, cpc[c] # "woken",
           cpc' = [cpc EXCEPT ![c] = "woken"]
    PROVE  Cardinality(Woken') = Cardinality(Woken) + 1
<1>1. Woken' = Woken \cup {c} /\ c \notin Woken
  BY DEF TypeOK, Woken
<1> QED  BY <1>1, Finite, FS_AddElement

\* A consumer that was woken and goes on takes one from the woken ones.
LEMMA LeaveCounts ==
    ASSUME TypeOK, NEW c \in Consumer, NEW s \in {"out", "waiting"},
           cpc[c] = "woken", cpc' = [cpc EXCEPT ![c] = s]
    PROVE  Cardinality(Woken') = Cardinality(Woken) - 1
<1>1. Woken' = Woken \ {c} /\ c \in Woken
  BY DEF TypeOK, Woken
<1> QED  BY <1>1, Finite, FS_RemoveElement

\* The invariant holds at the start.
LEMMA InitInv == Init => QInv
<1> SUFFICES ASSUME Init PROVE QInv
  OBVIOUS
<1>1. TypeOK
  <2>1. <<>> \in Seq(Item)
    OBVIOUS
  <2>2. cpc \in [Consumer -> {"out", "waiting", "woken"}]
    BY DEF Init
  <2>3. ppc \in [Item -> {"new", "notify", "done"}]
    BY DEF Init
  <2> QED  BY <2>1, <2>2, <2>3 DEF Init, TypeOK
<1>2. QueueOrder
  BY DEF Init, QueueOrder
<1>3. Waiting = {}
  BY DEF Init, Waiting
<1> QED  BY <1>1, <1>2, <1>3 DEF Init, QInv, NoLostNotify, NoSleeperAfterStop

\* What Pop takes off the queue it adds to popped.
LEMMA TestOrder ==
    ASSUME QInv, NEW c \in Consumer, Test(c), UNCHANGED pushed
    PROVE  QueueOrder' /\ queue_' \in Seq(Item) /\ popped' \in Seq(Item)
<1> USE DEF QInv, TypeOK, QueueOrder
<1>1. CASE UNCHANGED <<queue_, popped>>
  BY <1>1
<1>2. CASE /\ queue_ # <<>>
           /\ queue_' = Tail(queue_)
           /\ popped' = Append(popped, Head(queue_))
  BY <1>2
<1> QED  BY <1>1, <1>2 DEF Test

\* The invariant survives every step.
LEMMA StepInv == QInv /\ [Next]_vars => QInv'
<1> SUFFICES ASSUME QInv, [Next]_vars PROVE QInv'
  OBVIOUS
<1> USE DEF QInv
<1>1. ASSUME NEW i \in Item, Push(i) PROVE QInv'
  <2> USE <1>1 DEF Push
  <2>1. TypeOK'
    BY DEF TypeOK
  <2>2. QueueOrder'
    <3>1. popped \o Append(queue_, i) = Append(popped \o queue_, i)
      BY DEF TypeOK
    <3> QED  BY <3>1 DEF QueueOrder
  <2>3. Notifying' = Notifying \cup {i} /\ i \notin Notifying
    BY DEF TypeOK, Notifying
  <2>4. Cardinality(Notifying') = Cardinality(Notifying) + 1
    BY <2>3, Finite, FS_AddElement
  <2>5. Waiting' = Waiting /\ Woken' = Woken
    BY DEF Waiting, Woken
  <2>6. Len(queue_') = Len(queue_) + 1 /\ Len(queue_) \in Nat
    BY DEF TypeOK
  <2>7. NoLostNotify'
    BY <2>4, <2>5, <2>6, Finite DEF NoLostNotify
  <2> QED  BY <2>1, <2>2, <2>5, <2>7 DEF NoSleeperAfterStop
<1>2. ASSUME NEW i \in Item, PushNotify(i) PROVE QInv'
  <2> USE <1>2 DEF PushNotify
  <2>1. Notifying' = Notifying \ {i} /\ i \in Notifying
    BY DEF TypeOK, Notifying
  <2>2. Cardinality(Notifying') = Cardinality(Notifying) - 1
    BY <2>1, Finite, FS_RemoveElement
  <2>3. QueueOrder'
    BY DEF QueueOrder
  <2>4. CASE Waiting = {} /\ UNCHANGED cpc
    <3>1. Waiting' = {}
      BY <2>4 DEF Waiting
    <3>2. TypeOK'
      BY <2>4 DEF TypeOK
    <3> QED  BY <2>3, <3>1, <3>2 DEF NoLostNotify, NoSleeperAfterStop
  <2>5. ASSUME NEW c \in Waiting, cpc' = [cpc EXCEPT ![c] = "woken"]
        PROVE  QInv'
    <3>1. c \in Consumer /\ cpc[c] = "waiting"
      BY DEF Waiting
    <3>2. TypeOK'
      BY <2>5, <3>1 DEF TypeOK
    <3>3. Cardinality(Woken') = Cardinality(Woken) + 1
      BY <2>5, <3>1, WakeCounts
    <3>4. Waiting' \subseteq Waiting
      BY <2>5, <3>1 DEF Waiting, TypeOK
    <3>5. NoLostNotify'
      BY <2>2, <3>3, <3>4, Finite DEF NoLostNotify, TypeOK
    <3> QED  BY <2>3, <3>2, <3>4, <3>5 DEF NoSleeperAfterStop
  <2> QED  BY <2>4, <2>5
<1>3. CASE Clear
  <2> USE <1>3 DEF Clear
  <2>1. TypeOK' /\ QueueOrder'
    BY DEF TypeOK, QueueOrder
  <2>2. Waiting' = Waiting /\ Woken' = Woken /\ Notifying' = Notifying
    BY DEF Waiting, Woken, Notifying
  <2>3. Len(queue_') = 0
    OBVIOUS
  <2>4. NoLostNotify'
    BY <2>2, <2>3, Finite DEF NoLostNotify
  <2> QED  BY <2>1, <2>2, <2>4 DEF NoSleeperAfterStop
<1>4. CASE Stop
  <2> USE <1>4 DEF Stop
  <2>1. TypeOK' /\ QueueOrder'
    BY DEF TypeOK, QueueOrder
  <2> QED  BY <2>1 DEF NoLostNotify, NoSleeperAfterStop
<1>5. CASE StopNotify
  <2> USE <1>5 DEF StopNotify
  <2>1. TypeOK' /\ QueueOrder'
    BY DEF TypeOK, QueueOrder
  <2>2. Waiting' = {}
    BY DEF Waiting, TypeOK
  <2> QED  BY <2>1, <2>2 DEF NoLostNotify, NoSleeperAfterStop
<1>6. ASSUME NEW c \in Consumer, Pop(c) \/ Recheck(c) PROVE QInv'
  <2>1. Test(c) /\ cpc[c] # "waiting" /\ UNCHANGED <<stop_, ppc, spc, pushed>>
    BY <1>6 DEF Pop, Recheck
  <2>2. QueueOrder' /\ queue_' \in Seq(Item) /\ popped' \in Seq(Item)
    BY <2>1, TestOrder
  <2>3. Notifying' = Notifying
    BY <2>1 DEF Notifying
  <2>4. CASE ~stop_ /\ queue_ = <<>> /\ UNCHANGED <<queue_, popped>>
             /\ cpc' = [cpc EXCEPT ![c] = "waiting"]
    <3>1. TypeOK'
      BY <2>1, <2>2, <2>4 DEF TypeOK
    <3>2. IsFiniteSet(Woken') /\ Cardinality(Woken') \in Nat
      <4>1. Woken' \subseteq Consumer
        BY DEF Woken
      <4>2. IsFiniteSet(Woken')
        BY <4>1, FiniteAssumption, FS_Subset
      <4> QED  BY <4>2, FS_CardinalityType
    <3>3. NoLostNotify'
      BY <2>3, <2>4, <3>2, Finite DEF NoLostNotify
    <3>4. NoSleeperAfterStop'
      BY <2>1, <2>4 DEF NoSleeperAfterStop
    <3> QED  BY <2>2, <3>1, <3>3, <3>4
  <2>5. CASE cpc' = [cpc EXCEPT ![c] = "out"]
    <3>1. TypeOK'
      BY <2>1, <2>2, <2>5 DEF TypeOK
    <3>2. Waiting' = Waiting
      BY <2>1, <2>5 DEF Waiting, TypeOK
    <3>3. NoSleeperAfterStop'
      BY <2>1, <3>2 DEF NoSleeperAfterStop
    <3>4. CASE stop_
      BY <2>1, <2>2, <3>1, <3>3, <3>4 DEF NoLostNotify
    <3>5. CASE ~stop_
      <4>1. queue_ # <<>> /\ queue_' = Tail(queue_)
        BY <2>1, <2>5, <3>5 DEF Test, TypeOK
      <4>2. Len(queue_') = Len(queue_) - 1 /\ Len(queue_) \in Nat
        BY <4>1 DEF TypeOK
      <4>3. Cardinality(Woken') >= Cardinality(Woken) - 1
        <5>1. CASE cpc[c] = "woken"
          <6>1. Cardinality(Woken') = Cardinality(Woken) - 1
            BY <2>5, <5>1, LeaveCounts
          <6> QED  BY <6>1, Finite
        <5>2. CASE cpc[c] = "out"
          <6>1. Woken' = Woken
            BY <2>5, <5>2 DEF Woken, TypeOK
          <6> QED  BY <6>1, Finite
        <5> QED  BY <2>1, <5>1, <5>2 DEF TypeOK
      <4>4. Cardinality(Woken') \in Nat
        <5>1. Woken' \subseteq Consumer
          BY DEF Woken
        <5> QED  BY <5>1, FiniteAssumption, FS_Subset, FS_CardinalityType
      <4>5. NoLostNotify'
        BY <2>1, <2>3, <3>2, <4>2, <4>3, <4>4, Finite DEF NoLostNotify
      <4> QED  BY <2>2, <3>1, <3>3, <4>5
    <3> QED  BY <3>4, <3>5
  <2> QED  BY <2>1, <2>4, <2>5 DEF Test
<1>7. ASSUME NEW c \in Consumer, SpuriousWakeup(c) PROVE QInv'
  <2> USE <1>7 DEF SpuriousWakeup
  <2>1. TypeOK' /\ QueueOrder'
    BY DEF TypeOK, QueueOrder
  <2>2. Waiting' \subseteq Waiting /\ Notifying' = Notifying
    BY DEF Waiting, Notifying, TypeOK
  <2>3. Cardinality(Woken') = Cardinality(Woken) + 1
    BY WakeCounts
  <2>4. NoLostNotify'
    BY <2>2, <2>3, Finite DEF NoLostNotify, TypeOK
  <2> QED  BY <2>1, <2>2, <2>4 DEF NoSleeperAfterStop
<1>8. CASE UNCHANGED vars
  BY <1>8 DEF vars, TypeOK, QueueOrder, NoLostNotify, NoSleeperAfterStop,
              Waiting, Woken, Notifying
<1> QED  BY <1>1, <1>2, <1>3, <1>4, <1>5, <1>6, <1>7, <1>8 DEF Next

\* The invariant of the queue.
THEOREM QueueInvariance == Spec => []QInv
<1> QED  BY InitInv, StepInv, PTL DEF Spec

\* Items are popped in the order of Push, each once, whatever is cleared.
THEOREM FifoOrder == Spec => []QueueOrder
<1>1. QInv => QueueOrder
  BY DEF QInv
<1> QED  BY <1>1, QueueInvariance, PTL

\* The notify_one after the unlock of Push is never lost to a sleeper.
THEOREM NotifyIsNotLost == Spec => []NoLostNotify
<1>1. QInv => NoLostNotify
  BY DEF QInv
<1> QED  BY <1>1, QueueInvariance, PTL

\* Stop leaves nobody asleep in Pop.
THEOREM StopWakesAll == Spec => []NoSleeperAfterStop
<1>1. QInv => NoSleeperAfterStop
  BY DEF QInv
<1> QED  BY <1>1, QueueInvariance, PTL

\* ts_queue implements the abstract queue of work: Push accepts, a Pop that
\* returns true delivers, Clear discards.
THEOREM ImplementsWorkQueue == Spec => QueueSpec
<1> USE DEF WQ!wqvars
<1>1. Init => WQ!WQInit
  BY DEF Init, WQ!WQInit
<1>2. QInv /\ [Next]_vars => [WQ!WQNext]_(WQ!wqvars)
  <2> SUFFICES ASSUME QInv, [Next]_vars PROVE [WQ!WQNext]_(WQ!wqvars)
    OBVIOUS
  <2>1. ASSUME NEW i \in Item, Push(i) PROVE WQ!WQNext
    BY <2>1 DEF Push, WQ!WQNext, WQ!Accept
  <2>2. CASE Clear
    BY <2>2 DEF Clear, WQ!WQNext, WQ!Discard
  <2>3. ASSUME NEW c \in Consumer, Pop(c) \/ Recheck(c)
        PROVE  [WQ!WQNext]_(WQ!wqvars)
    <3>1. Test(c) /\ UNCHANGED pushed
      BY <2>3 DEF Pop, Recheck
    <3>2. CASE UNCHANGED popped
      BY <3>1, <3>2
    <3>3. CASE queue_ # <<>> /\ popped' = Append(popped, Head(queue_))
      <4>1. /\ Len(popped) < Len(pushed)
            /\ pushed[Len(popped) + 1] = Head(queue_)
        BY <3>3 DEF QInv, QueueOrder, TypeOK
      <4> QED  BY <3>1, <3>3, <4>1 DEF WQ!WQNext, WQ!Deliver
    <3> QED  BY <3>1, <3>2, <3>3 DEF Test
  <2>4. CASE UNCHANGED <<pushed, popped>>
    BY <2>4
  <2> QED  BY <2>1, <2>2, <2>3, <2>4
           DEF Next, PushNotify, Stop, StopNotify, SpuriousWakeup, vars
<1> QED  BY <1>1, <1>2, QueueInvariance, PTL DEF Spec, QueueSpec, WQ!WQSpec

(***************************************************************************)
(* threads::barrier.                                                       *)
(***************************************************************************)

\* The threads that count_ does not count as missing.
Inside == {t \in Thread : InGeneration(t)}

\* The threshold is a positive number that an unsigned int can hold.
LEMMA ThresholdFacts ==
    threshold_ \in UInt /\ threshold_ >= 1
  <1>1. threshold_ \in Nat
      BY FS_CardinalityType, ThreadAssumption DEF threshold_
  <1>2. threshold_ # 0
      BY FS_EmptySet, ThreadAssumption DEF threshold_
  <1> QED
      BY <1>1, <1>2, UIntAssumption DEF UInt

\* ++ stays in the type and changes the value: two consecutive generations
\* differ, which is all that Wait() needs of generation_.
LEMMA IncrementChanges ==
    ASSUME NEW x \in UInt
    PROVE  Increment(x) \in UInt /\ Increment(x) # x
    BY UIntAssumption DEF Increment, UInt

\* Any set of threads is finite, with a cardinality in Nat.
LEMMA ThreadSets ==
    ASSUME NEW S \in SUBSET Thread
    PROVE  /\ IsFiniteSet(S)
           /\ Cardinality(S) \in Nat
           /\ Cardinality(S) = threshold_ => S = Thread
    BY FS_Subset, FS_CardinalityType, ThreadAssumption DEF threshold_

\* Before anybody calls Wait() nobody is missing less than all.
LEMMA InitBInv == BarrierInit => BInv
<1> SUFFICES ASSUME BarrierInit PROVE BInv
    OBVIOUS
<1>1. BarrierTypeOK
    BY ThresholdFacts, UIntAssumption DEF BarrierInit, BarrierTypeOK, UInt
<1>2. {t \in Thread : InGeneration(t)} = {}
    BY DEF BarrierInit, InGeneration
<1>3. GenerationCount
    BY <1>2, ThresholdFacts, FS_EmptySet DEF BarrierInit, GenerationCount, UInt, InGeneration
<1> QED
    BY <1>1, <1>3 DEF BInv

\* A thread that arrives and is not the last joins the current generation.
LEMMA ArriveInv ==
    ASSUME BInv, NEW t \in Thread, BarrierWait(t), Decrement(count_) # 0
    PROVE  BInv'
<1> USE DEF BInv, BarrierTypeOK
<1>1. BarrierTypeOK'
    BY UIntAssumption DEF BarrierWait, Decrement, UInt
<1>2. count_ >= 2 /\ count_' = count_ - 1
    BY DEF BarrierWait, Decrement, GenerationCount, UInt
<1>3. t \notin Inside /\ Inside' = Inside \cup {t}
    BY DEF Inside, InGeneration, BarrierWait
<1>4. Cardinality(Inside') = Cardinality(Inside) + 1 /\ Cardinality(Inside) \in Nat
    BY <1>3, ThreadSets, FS_AddElement DEF Inside
<1>5. count_' + Cardinality(Inside') = threshold_
    BY <1>2, <1>4, ThresholdFacts DEF Inside, GenerationCount, UInt
<1>6. ASSUME NEW u \in Thread
      PROVE  arrivals'[u] = IF InGeneration(u)' THEN round' + 1 ELSE round'
    BY DEF BarrierWait, InGeneration, GenerationCount
<1> QED
    BY <1>1, <1>2, <1>5, <1>6 DEF GenerationCount, Inside, UInt

\* The last thread finds all others in the generation, and all of them are
\* leaving it after its step.
LEMMA ReleaseInv ==
    ASSUME BInv, NEW t \in Thread, BarrierWait(t), Decrement(count_) = 0
    PROVE  BInv'
<1> USE DEF BInv, BarrierTypeOK
<1>1. BarrierTypeOK'
    BY ThresholdFacts, IncrementChanges DEF BarrierWait, Release
<1>2. count_ = 1
    BY UIntAssumption DEF Decrement, GenerationCount, UInt
<1>3. t \notin Inside /\ Inside \in SUBSET Thread
    BY DEF Inside, InGeneration, BarrierWait
<1>4. Inside \cup {t} = Thread
  <2>1. Cardinality(Inside \cup {t}) = Cardinality(Inside) + 1
      BY <1>3, ThreadSets, FS_AddElement
  <2>2. Cardinality(Inside \cup {t}) = threshold_
      BY <1>2, <1>3, <2>1, ThreadSets, ThresholdFacts
      DEF GenerationCount, Inside, UInt
  <2> QED
      BY <1>3, <2>2, ThreadSets
<1>5. \A u \in Thread : u # t => InGeneration(u)
    BY <1>4 DEF Inside
<1>6. Inside' = {}
    BY <1>5, IncrementChanges DEF Inside, InGeneration, BarrierWait, Release
<1>7. count_' + Cardinality(Inside') = threshold_ /\ count_' >= 1
    BY <1>6, FS_EmptySet, ThresholdFacts DEF BarrierWait, Release, UInt
<1>8. ASSUME NEW u \in Thread
      PROVE  arrivals'[u] = round'
    BY <1>5 DEF BarrierWait, Release, GenerationCount, InGeneration
<1>9. \A u \in Thread : ~InGeneration(u)'
    BY <1>6 DEF Inside
<1> QED
    BY <1>1, <1>7, <1>8, <1>9 DEF GenerationCount, Inside

\* Waking up and leaving change nobody's generation.
LEMMA WakeInv ==
    ASSUME BInv, NEW t \in Thread, BarrierRecheck(t) \/ BarrierSpurious(t)
    PROVE  BInv'
<1> USE DEF BInv, BarrierTypeOK
<1>1. BarrierTypeOK'
    BY DEF BarrierRecheck, BarrierSpurious
<1>2. \A u \in Thread : InGeneration(u)' <=> InGeneration(u)
    BY DEF BarrierRecheck, BarrierSpurious, InGeneration
<1>3. Inside' = Inside
    BY <1>2 DEF Inside
<1> QED
    BY <1>1, <1>2, <1>3 DEF GenerationCount, Inside, BarrierRecheck, BarrierSpurious

\* BInv is an invariant of the barrier.
THEOREM BarrierInvariance == BarrierSpec => []BInv
<1>1. BInv /\ [BarrierNext]_barrierVars => BInv'
  <2> SUFFICES ASSUME BInv, [BarrierNext]_barrierVars PROVE BInv'
      OBVIOUS
  <2>1. CASE UNCHANGED barrierVars
      BY <2>1 DEF barrierVars, BInv, BarrierTypeOK, GenerationCount, InGeneration
  <2>2. ASSUME NEW t \in Thread, BarrierWait(t) PROVE BInv'
      BY <2>2, ArriveInv, ReleaseInv
  <2> QED
      BY <2>1, <2>2, WakeInv DEF BarrierNext
<1> QED
    BY <1>1, InitBInv, PTL DEF BarrierSpec

\* Nobody passes a meeting that somebody has not come to.
THEOREM NobodyPassesEarly == BarrierSpec => []Rendezvous
<1>1. BInv => Rendezvous
    BY DEF BInv, BarrierTypeOK, GenerationCount, Rendezvous, Passed, InGeneration
<1> QED
    BY <1>1, BarrierInvariance, PTL

(***************************************************************************)
(* threads::Event.                                                         *)
(***************************************************************************)

\* A new event has no sleepers and, if it is set, has been set once.
LEMMA InitEInv == EventInit => EInv
    BY SetsAssumption DEF EventInit, EInv, EventTypeOK, NoSleeperWhenSet, TakenOnce

\* Set leaves no sleeper and counts the event only if it was not set.
LEMMA SetInv == ASSUME EInv, Set PROVE EInv'
<1> USE DEF EInv, Set
<1>1. EventTypeOK'
    BY SetsAssumption DEF EventTypeOK
<1>2. NoSleeperWhenSet'
    BY DEF EventTypeOK, NoSleeperWhenSet
<1>3. TakenOnce'
    BY DEF EventTypeOK, TakenOnce
<1> QED
    BY <1>1, <1>2, <1>3

\* What a thread does under the mutex, in Wait or when it has been woken: it
\* takes the event, or sleeps because it is not set.
LEMMA TestInv ==
    ASSUME EInv, NEW t \in Waiter, EventTest(t), timed' \in SUBSET Waiter,
           UNCHANGED <<manual, sets, raised, cleared>>
    PROVE  EInv'
<1> USE DEF EInv
<1>1. CASE event_status = 1 /\ Succeed(t)
    <2>1. EventTypeOK'
        BY <1>1 DEF EventTypeOK, Succeed
    <2>2. NoSleeperWhenSet'
        BY <1>1 DEF EventTypeOK, NoSleeperWhenSet, Succeed
    <2>3. TakenOnce'
        BY <1>1 DEF EventTypeOK, TakenOnce, Succeed
    <2> QED
        BY <2>1, <2>2, <2>3
<1>2. CASE /\ event_status = 0
           /\ epc' = [epc EXCEPT ![t] = "waiting"]
           /\ UNCHANGED <<event_status, taken>>
    BY <1>2 DEF EventTypeOK, NoSleeperWhenSet, TakenOnce
<1> QED
    BY <1>1, <1>2 DEF EventTest

\* Every step keeps the invariant.
LEMMA NextEInv == EInv /\ [EventNext]_eventVars => EInv'
<1> SUFFICES ASSUME EInv, [EventNext]_eventVars PROVE EInv'
    OBVIOUS
<1>1. CASE Set
    BY <1>1, SetInv
<1>2. CASE Reset
    BY <1>2 DEF EInv, EventTypeOK, NoSleeperWhenSet, TakenOnce, Reset
<1>3. ASSUME NEW t \in Waiter, EventWait(t) PROVE EInv'
    BY <1>3, TestInv DEF EventWait, EInv, EventTypeOK
<1>4. ASSUME NEW t \in Waiter, EventRecheck(t) PROVE EInv'
    <2>1. timed' \in SUBSET Waiter
        BY <1>4 DEF EventRecheck, EventTest, Succeed, EInv, EventTypeOK
    <2> QED
        BY <1>4, <2>1, TestInv DEF EventRecheck
<1>5. ASSUME NEW t \in Waiter, TimeOut(t) PROVE EInv'
    BY <1>5 DEF EInv, EventTypeOK, NoSleeperWhenSet, TakenOnce, TimeOut
<1>6. ASSUME NEW t \in Waiter, EventSpurious(t) PROVE EInv'
    BY <1>6 DEF EInv, EventTypeOK, NoSleeperWhenSet, TakenOnce, EventSpurious
<1>7. CASE UNCHANGED eventVars
    BY <1>7 DEF eventVars, EInv, EventTypeOK, NoSleeperWhenSet, TakenOnce
<1> QED
    BY <1>1, <1>2, <1>3, <1>4, <1>5, <1>6, <1>7 DEF EventNext

\* The conjunction is inductive, so it always holds.
THEOREM EventInvariance == EventSpec => []EInv
    BY InitEInv, NextEInv, PTL DEF EventSpec

\* No thread sleeps in Event::Wait while the event is set.
THEOREM SetWakesAll == EventSpec => []NoSleeperWhenSet
<1>1. EInv => NoSleeperWhenSet
    BY DEF EInv
<1> QED
    BY <1>1, EventInvariance, PTL

\* Exactly one thread resets an event that resets itself.
THEOREM ExactlyOneTakes == EventSpec => []TakenOnce
<1>1. EInv => TakenOnce
    BY DEF EInv
<1> QED
    BY <1>1, EventInvariance, PTL

=============================================================================
