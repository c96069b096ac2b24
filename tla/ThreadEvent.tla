---------------------------- MODULE ThreadEvent ----------------------------
(***************************************************************************)
(* threads::Event (src/src/threads/posix_event.cpp): an event that threads *)
(* wait for, with or without a time limit, and that is set and reset by    *)
(* anybody.                                                                *)
(*                                                                         *)
(* Everything is done under event_mutex and only the condition variable    *)
(* releases it in the middle of Wait, so a step is what a thread does      *)
(* between two releases.  Time is not modelled: a time limit may run out   *)
(* at any moment, also when the event has been set and the thread has not  *)
(* got the mutex back yet.                                                 *)
(***************************************************************************)
EXTENDS Naturals

CONSTANTS
    Waiter,      \* the threads that wait
    MaxSets      \* bound on the calls of Set

ASSUME SetsAssumption == MaxSets \in Nat

VARIABLES
    manual,          \* is_manual_reset
    event_status,    \* event_status
    epc,             \* where each thread is in Wait
    timed,           \* the threads that wait with a time limit
    sets,            \* history: the calls of Set
    raised,          \* history: how often event_status went from 0 to 1
    cleared,         \* history: how often Reset took it back
    taken            \* history: how often Wait reset it

eventVars == <<manual, event_status, epc, timed, sets, raised, cleared, taken>>

EventTypeOK ==
    /\ manual \in BOOLEAN
    /\ event_status \in {0, 1}
    /\ epc \in [Waiter -> {"out", "waiting", "woken"}]
    /\ timed \in SUBSET Waiter
    /\ sets \in 0 .. MaxSets
    /\ raised \in Nat
    /\ cleared \in Nat
    /\ taken \in Nat

\* Event::Event(manual_reset, initially_signaled).
EventInit ==
    /\ manual \in BOOLEAN
    /\ event_status \in {0, 1}
    /\ epc = [t \in Waiter |-> "out"]
    /\ timed = {}
    /\ sets = 0
    /\ raised = event_status
    /\ cleared = 0
    /\ taken = 0

\* Fault: pthread_cond_signal in place of pthread_cond_broadcast.
Set_Signal ==
    /\ sets < MaxSets
    /\ sets' = sets + 1
    /\ event_status' = 1
    /\ raised' = raised + (1 - event_status)
    /\ \/ \E t \in Waiter : epc[t] = "waiting" /\ epc' = [epc EXCEPT ![t] = "woken"]
       \/ /\ \A t \in Waiter : epc[t] # "waiting"
          /\ UNCHANGED epc
    /\ UNCHANGED <<manual, timed, cleared, taken>>

Set ==
    /\ sets < MaxSets
    /\ sets' = sets + 1
    /\ event_status' = 1
    /\ raised' = raised + (1 - event_status)
    /\ epc' = [t \in Waiter |-> IF epc[t] = "waiting" THEN "woken" ELSE epc[t]]
    /\ UNCHANGED <<manual, timed, cleared, taken>>

Reset ==
    /\ event_status' = 0
    /\ cleared' = cleared + event_status
    /\ UNCHANGED <<manual, epc, timed, sets, raised, taken>>

\* Wait returns true; an event of the other kind is reset.
Succeed(t) ==
    /\ event_status' = IF manual THEN event_status ELSE 0
    /\ taken' = IF manual THEN taken ELSE taken + 1
    /\ epc' = [epc EXCEPT ![t] = "out"]
    /\ timed' = timed \ {t}

\* The loop of Wait: a thread that finds the event not set goes to sleep.
EventTest(t) ==
    \/ event_status = 1 /\ Succeed(t)
    \/ /\ event_status = 0
       /\ epc' = [epc EXCEPT ![t] = "waiting"]
       /\ UNCHANGED <<event_status, taken>>

\* Wait is called, with a time limit or with INFINITE_TIMEOUT_MSEC.
EventWait(t) ==
    /\ epc[t] = "out"
    /\ EventTest(t)
    /\ timed' \in {timed, timed \cup {t}}
    /\ event_status = 1 => timed' = timed
    /\ UNCHANGED <<manual, sets, raised, cleared>>

\* wait_condition has returned 0.
EventRecheck(t) ==
    /\ epc[t] = "woken"
    /\ EventTest(t)
    /\ event_status = 0 => UNCHANGED timed
    /\ UNCHANGED <<manual, sets, raised, cleared>>

\* wait_condition has returned ETIMEDOUT: Wait returns false, whatever the
\* event is now.
TimeOut(t) ==
    /\ t \in timed
    /\ epc[t] # "out"
    /\ epc' = [epc EXCEPT ![t] = "out"]
    /\ timed' = timed \ {t}
    /\ UNCHANGED <<manual, event_status, sets, raised, cleared, taken>>

EventSpurious(t) ==
    /\ epc[t] = "waiting"
    /\ epc' = [epc EXCEPT ![t] = "woken"]
    /\ UNCHANGED <<manual, event_status, timed, sets, raised, cleared, taken>>

EventNext ==
    \/ Set
    \/ Reset
    \/ \E t \in Waiter : EventWait(t) \/ EventRecheck(t) \/ TimeOut(t) \/ EventSpurious(t)

EventSpec == EventInit /\ [][EventNext]_eventVars

\* A woken thread gets the mutex back eventually.
EventFairSpec == EventSpec /\ \A t \in Waiter : WF_eventVars(EventRecheck(t))

(***************************************************************************)
(* Properties.                                                             *)
(***************************************************************************)

\* Event::Wait never sleeps through an event that is set: Set wakes all the
\* sleepers, and a thread goes to sleep only when it has seen the event not
\* set under the mutex.
NoSleeperWhenSet == event_status = 1 => \A t \in Waiter : epc[t] # "waiting"

\* "Exactly one thread will auto-reset this event": every time the event was
\* set it was either taken by one successful Wait, or taken back by Reset, or
\* is still set.  A Wait that runs out of time takes nothing.
TakenOnce ==
    /\ raised = taken + cleared + event_status
    /\ manual => taken = 0

\* Whoever woke up, timed out or was robbed of the event: no thread sleeps
\* while it is set, and every setting of it is accounted for.
EInv == EventTypeOK /\ NoSleeperWhenSet /\ TakenOnce

\* A thread in Wait while the event is set returns, unless the event is taken
\* or taken back before it gets the mutex.
SetIsSeen ==
    \A t \in Waiter :
        (epc[t] # "out" /\ event_status = 1) ~> (epc[t] = "out" \/ event_status = 0)

=============================================================================
