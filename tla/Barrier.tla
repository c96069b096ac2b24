------------------------------- MODULE Barrier -------------------------------
(***************************************************************************)
(* threads::barrier (src/src/threads/barrier.cpp), shared by as many       *)
(* threads as its threshold, each of which calls Wait() again and again.   *)
(*                                                                         *)
(* Every access to count_ and generation_ is made under mutex_, and only   *)
(* cond_.wait releases it in the middle, so a step of a thread is what it  *)
(* does between two releases.  Both counters are unsigned: they wrap at    *)
(* UIntMod (2^32 in the code).                                             *)
(***************************************************************************)
EXTENDS Naturals, FiniteSets

CONSTANTS
    Thread,       \* the threads that meet at the barrier
    UIntMod,      \* unsigned int is 0 .. UIntMod - 1
    MaxRounds     \* how often each thread calls Wait()

\* One thread for each place of the barrier.
threshold_ == Cardinality(Thread)

ASSUME ThreadAssumption == IsFiniteSet(Thread) /\ Thread # {}
ASSUME UIntAssumption == UIntMod \in Nat /\ UIntMod >= 2 /\ threshold_ < UIntMod
ASSUME RoundsAssumption == MaxRounds \in Nat

VARIABLES
    count_,        \* how many threads are still missing
    generation_,   \* the number of the meeting, modulo UIntMod
    bpc,           \* where each thread is
    gen,           \* the local variable gen of each thread
    arrivals,      \* history: how often each thread entered Wait()
    round          \* history: generation_ without the wrapping

barrierVars == <<count_, generation_, bpc, gen, arrivals, round>>

UInt == 0 .. UIntMod - 1

BarrierTypeOK ==
    /\ count_ \in UInt
    /\ generation_ \in UInt
    /\ bpc \in [Thread -> {"out", "waiting", "woken"}]
    /\ gen \in [Thread -> UInt]
    /\ arrivals \in [Thread -> Nat]
    /\ round \in Nat

BarrierInit ==
    /\ count_ = threshold_
    /\ generation_ = 0
    /\ bpc = [t \in Thread |-> "out"]
    /\ gen = [t \in Thread |-> 0]
    /\ arrivals = [t \in Thread |-> 0]
    /\ round = 0

\* ++ and -- of an unsigned int.
Increment(x) == IF x = UIntMod - 1 THEN 0 ELSE x + 1
Decrement(x) == IF x = 0 THEN UIntMod - 1 ELSE x - 1

\* Fault: count_ is not set back for the next meeting.
Release_NoReset(t) ==
    /\ generation_' = Increment(generation_)
    /\ count_' = 0
    /\ round' = round + 1
    /\ bpc' = [u \in Thread |-> IF bpc[u] = "waiting" THEN "woken" ELSE bpc[u]]

\* Fault: notify_one in place of notify_all.
Release_NotifyOne(t) ==
    /\ generation_' = Increment(generation_)
    /\ count_' = threshold_
    /\ round' = round + 1
    /\ \/ UNCHANGED bpc /\ \A v \in Thread : bpc[v] # "waiting"
       \/ \E v \in Thread : /\ bpc[v] = "waiting"
                            /\ bpc' = [bpc EXCEPT ![v] = "woken"]

\* The last thread t starts the next generation, wakes the others and
\* returns true without waiting.
Release(t) ==
    /\ generation_' = Increment(generation_)
    /\ count_' = threshold_
    /\ round' = round + 1
    /\ bpc' = [u \in Thread |-> IF bpc[u] = "waiting" THEN "woken" ELSE bpc[u]]

\* Wait() up to its return or its first cond_.wait.
BarrierWait(t) ==
    /\ bpc[t] = "out"
    /\ arrivals[t] < MaxRounds
    /\ arrivals' = [arrivals EXCEPT ![t] = @ + 1]
    /\ gen' = [gen EXCEPT ![t] = generation_]
    /\ IF Decrement(count_) = 0
       THEN Release(t)
       ELSE /\ count_' = Decrement(count_)
            /\ bpc' = [bpc EXCEPT ![t] = "waiting"]
            /\ UNCHANGED <<generation_, round>>

\* Fault: the condition of the loop is not tested again after cond_.wait.
BarrierRecheck_If(t) ==
    /\ bpc[t] = "woken"
    /\ bpc' = [bpc EXCEPT ![t] = "out"]
    /\ UNCHANGED <<count_, generation_, gen, arrivals, round>>

\* A woken thread has the mutex again and tests "gen == generation_".
BarrierRecheck(t) ==
    /\ bpc[t] = "woken"
    /\ bpc' = [bpc EXCEPT ![t] = IF gen[t] = generation_ THEN "waiting" ELSE "out"]
    /\ UNCHANGED <<count_, generation_, gen, arrivals, round>>

BarrierSpurious(t) ==
    /\ bpc[t] = "waiting"
    /\ bpc' = [bpc EXCEPT ![t] = "woken"]
    /\ UNCHANGED <<count_, generation_, gen, arrivals, round>>

BarrierNext == \E t \in Thread : BarrierWait(t) \/ BarrierRecheck(t) \/ BarrierSpurious(t)

BarrierSpec == BarrierInit /\ [][BarrierNext]_barrierVars

\* Every thread goes on calling Wait() until MaxRounds, and a thread that can
\* take the mutex eventually does.
BarrierFairSpec == BarrierSpec /\ \A t \in Thread : WF_barrierVars(BarrierWait(t)) /\ WF_barrierVars(BarrierRecheck(t))

(***************************************************************************)
(* Properties.                                                             *)
(***************************************************************************)
Passed(t) == IF bpc[t] = "out" THEN arrivals[t] ELSE arrivals[t] - 1

\* barrier::Wait lets nobody through the n-th meeting before everybody has
\* come to it, however the threads are scheduled or spuriously woken, and
\* although a fast thread may be back before a slow one has left.
Rendezvous == \A t, u \in Thread : Passed(t) <= arrivals[u]

\* A thread that has not noticed yet that its generation is over holds the
\* previous value of generation_, so the wrap-around is harmless.
InGeneration(t) == bpc[t] # "out" /\ gen[t] = generation_

\* Why Rendezvous is inductive: count_ counts the threads missing from the
\* current generation, and every thread is either in it or one call behind.
GenerationCount ==
    /\ count_ >= 1
    /\ count_ + Cardinality({t \in Thread : InGeneration(t)}) = threshold_
    /\ \A t \in Thread :
          arrivals[t] = IF InGeneration(t) THEN round + 1 ELSE round

\* Between two accesses of any threads to the barrier the counter, the
\* generation and the calls of Wait agree, across the wrap of generation_.
BInv == BarrierTypeOK /\ GenerationCount

\* The threads all get through all their calls: no wakeup is lost between
\* the last arrival and a thread that is about to wait, and a thread that
\* is late to leave is not mistaken for one of the next generation.
AllGetThrough == <>[](\A t \in Thread : bpc[t] = "out" /\ arrivals[t] = MaxRounds)

=============================================================================
