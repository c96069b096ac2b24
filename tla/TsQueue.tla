------------------------------ MODULE TsQueue ------------------------------
(***************************************************************************)
(* threads::ts_queue (src/include/common/threads/ts_queue.h): a queue that *)
(* several consumers block on in Pop, filled by any number of threads and  *)
(* ended by Stop.                                                          *)
(*                                                                         *)
(* queue_ and stop_ are used under queue_mutex_ only, and condition_.wait  *)
(* releases it in the middle of Pop, so a step is what a thread does       *)
(* between two releases.  The notifications of Push and Stop come after    *)
(* the unlock and are steps of their own.                                  *)
(***************************************************************************)
EXTENDS Naturals, Sequences, FiniteSets

CONSTANTS
    Consumer,    \* the threads that call Pop
    Item         \* the items; each is pushed once, by a thread of its own

ASSUME FiniteAssumption == IsFiniteSet(Consumer) /\ IsFiniteSet(Item)

VARIABLES
    queue_,      \* ts_queue::queue_
    stop_,       \* ts_queue::stop_
    cpc,         \* where each consumer is: "out" of Pop, "waiting" or "woken"
    ppc,         \* where the thread that pushes each item is
    spc,         \* where the thread that calls Stop is (Stop is called once)
    pushed,      \* history: the items pushed and not cleared, in order
    popped       \* history: the items that Pop returned, in order

vars == <<queue_, stop_, cpc, ppc, spc, pushed, popped>>

TypeOK ==
    /\ queue_ \in Seq(Item)
    /\ stop_ \in BOOLEAN
    /\ cpc \in [Consumer -> {"out", "waiting", "woken"}]
    /\ ppc \in [Item -> {"new", "notify", "done"}]
    /\ spc \in {"new", "notify", "done"}
    /\ pushed \in Seq(Item)
    /\ popped \in Seq(Item)

Init ==
    /\ queue_ = <<>>
    /\ stop_ = FALSE
    /\ cpc = [c \in Consumer |-> "out"]
    /\ ppc = [i \in Item |-> "new"]
    /\ spc = "new"
    /\ pushed = <<>>
    /\ popped = <<>>

Waiting == {c \in Consumer : cpc[c] = "waiting"}
Woken == {c \in Consumer : cpc[c] = "woken"}
Notifying == {i \in Item : ppc[i] = "notify"}

Push(i) ==
    /\ ppc[i] = "new"
    /\ queue_' = Append(queue_, i)
    /\ pushed' = Append(pushed, i)
    /\ ppc' = [ppc EXCEPT ![i] = "notify"]
    /\ UNCHANGED <<stop_, cpc, spc, popped>>

\* condition_.notify_one() of Push.
PushNotify(i) ==
    /\ ppc[i] = "notify"
    /\ ppc' = [ppc EXCEPT ![i] = "done"]
    /\ \/ Waiting = {} /\ UNCHANGED cpc
       \/ \E c \in Waiting : cpc' = [cpc EXCEPT ![c] = "woken"]
    /\ UNCHANGED <<queue_, stop_, spc, pushed, popped>>

\* Fault: the swap with the empty queue is missing.
Clear_NoSwap ==
    /\ pushed' = popped
    /\ UNCHANGED <<queue_, stop_, cpc, ppc, spc, popped>>

Clear ==
    /\ queue_' = <<>>
    /\ pushed' = popped
    /\ UNCHANGED <<stop_, cpc, ppc, spc, popped>>

Stop ==
    /\ spc = "new"
    /\ stop_' = TRUE
    /\ spc' = "notify"
    /\ UNCHANGED <<queue_, cpc, ppc, pushed, popped>>

\* Fault: notify_one.
StopNotify_One ==
    /\ spc = "notify"
    /\ spc' = "done"
    /\ \/ Waiting = {} /\ UNCHANGED cpc
       \/ \E c \in Waiting : cpc' = [cpc EXCEPT ![c] = "woken"]
    /\ UNCHANGED <<queue_, stop_, ppc, pushed, popped>>

\* condition_.notify_all() of Stop.
StopNotify ==
    /\ spc = "notify"
    /\ spc' = "done"
    /\ cpc' = [c \in Consumer |-> IF cpc[c] = "waiting" THEN "woken" ELSE cpc[c]]
    /\ UNCHANGED <<queue_, stop_, ppc, pushed, popped>>

\* Fault: the loop condition does not look at stop_.
Test_NoStop(c) ==
    \/ /\ queue_ = <<>>
       /\ cpc' = [cpc EXCEPT ![c] = "waiting"]
       /\ UNCHANGED <<queue_, popped>>
    \/ /\ stop_ /\ queue_ # <<>>
       /\ cpc' = [cpc EXCEPT ![c] = "out"]
       /\ UNCHANGED <<queue_, popped>>
    \/ /\ ~stop_ /\ queue_ # <<>>
       /\ queue_' = Tail(queue_)
       /\ popped' = Append(popped, Head(queue_))
       /\ cpc' = [cpc EXCEPT ![c] = "out"]

\* Pop from the test of the loop condition on: it sleeps, returns false, or
\* returns the front of the queue.
Test(c) ==
    \/ /\ ~stop_ /\ queue_ = <<>>
       /\ cpc' = [cpc EXCEPT ![c] = "waiting"]
       /\ UNCHANGED <<queue_, popped>>
    \/ /\ stop_
       /\ cpc' = [cpc EXCEPT ![c] = "out"]
       /\ UNCHANGED <<queue_, popped>>
    \/ /\ ~stop_ /\ queue_ # <<>>
       /\ queue_' = Tail(queue_)
       /\ popped' = Append(popped, Head(queue_))
       /\ cpc' = [cpc EXCEPT ![c] = "out"]

Pop(c) ==
    /\ cpc[c] = "out"
    /\ Test(c)
    /\ UNCHANGED <<stop_, ppc, spc, pushed>>

\* A woken consumer has the mutex again.
Recheck(c) ==
    /\ cpc[c] = "woken"
    /\ Test(c)
    /\ UNCHANGED <<stop_, ppc, spc, pushed>>

SpuriousWakeup(c) ==
    /\ cpc[c] = "waiting"
    /\ cpc' = [cpc EXCEPT ![c] = "woken"]
    /\ UNCHANGED <<queue_, stop_, ppc, spc, pushed, popped>>

Next ==
    \/ \E i \in Item : Push(i) \/ PushNotify(i)
    \/ Clear
    \/ Stop
    \/ StopNotify
    \/ \E c \in Consumer : Pop(c) \/ Recheck(c) \/ SpuriousWakeup(c)

Spec == Init /\ [][Next]_vars

\* A thread inside Push, Stop or Pop that can go on does; nobody has to call
\* them.
FairSpec ==
    /\ Spec
    /\ WF_vars(StopNotify)
    /\ \A i \in Item : WF_vars(PushNotify(i))
    /\ \A c \in Consumer : WF_vars(Recheck(c))

(***************************************************************************)
(* Properties.                                                             *)
(***************************************************************************)

\* Why QueueSpec holds: the queue is what was pushed and not yet popped.
QueueOrder == pushed = popped \o queue_

\* No notification is lost, although Push notifies after the unlock, other
\* consumers may take the item first and Clear may remove it: while a
\* consumer sleeps in Pop, each queued item has a woken consumer or a
\* notification of its own still to come.
NoLostNotify ==
    ~stop_ /\ Waiting # {} =>
        Len(queue_) <= Cardinality(Woken) + Cardinality(Notifying)

\* Once Stop has returned nobody sleeps in Pop, and nobody will: stop_ is
\* written under the mutex, so no consumer can be between its test and its
\* wait (as it can be in ThreadPool).
NoSleeperAfterStop ==
    /\ spc = "new" <=> ~stop_
    /\ spc = "done" => Waiting = {}

\* What every step of producers, consumers and Stop preserves: the order of
\* Push, a wakeup for every item that a consumer sleeps on, nobody asleep
\* after Stop.
QInv == TypeOK /\ QueueOrder /\ NoLostNotify /\ NoSleeperAfterStop

\* ts_queue implements the abstract queue of work; Clear discards.
WQ == INSTANCE WorkQueue WITH accepted <- pushed, delivered <- popped
QueueSpec == WQ!WQSpec

\* Every call of Pop returns after Stop.
StopReleases == stop_ ~> Waiting = {} /\ Woken = {}

=============================================================================
