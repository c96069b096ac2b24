------------------------------ MODULE EventLoop ------------------------------
(***************************************************************************)
(* libev::LibEvLoop (src/src/libev/event_loop.cpp) with its two LibevAsync *)
(* watchers, its queue of functions (AsyncCustom) and its timers.          *)
(*                                                                         *)
(* One thread calls Exec() once.  Other threads call ExecInLoopThread()    *)
(* (each function is given by a thread of its own) and Stop().  A callback *)
(* of the loop thread (a function, TimerEmited, PreLooped, Stopped) does   *)
(* at most one of: create a timer, remove a timer, call Stop().  A callback*)
(* that calls ExecInLoopThread() runs the function at once, ahead of those *)
(* in the queue: what the function does is done by the callback.           *)
(*                                                                         *)
(* libev itself is external: an async watcher that is sent while it is     *)
(* active becomes pending in the next iteration, an armed timer becomes    *)
(* pending when it expires, pending watchers are invoked one by one in an  *)
(* order that is not specified, and ev_unloop lets the iteration finish.   *)
(***************************************************************************)
EXTENDS Naturals, Sequences

CONSTANTS
    Func,         \* the functions given to ExecInLoopThread by other threads
    MaxTimers     \* how many timers are created

ASSUME MaxTimersAssumption == MaxTimers \in Nat

TimerId == 1 .. MaxTimers

VARIABLES
    lpc,                \* where the loop thread is
    custom_callbacks_,  \* AsyncCustom::custom_callbacks_
    copy,               \* the local variable copy of Pop, from index i on
    fpc,                \* where the thread that pushes each function is
    active,             \* libev: the async watchers that are started
    sent,               \* libev: the async watchers sent and not yet seen
    pending,            \* libev: the async watchers to invoke in this iteration
    expired,            \* libev: the timer watchers to invoke in this iteration
    unloop,             \* libev: ev_unloop was called
    timers_,            \* LibEvLoop::timers_, by id
    repeating,          \* the timers created with repeat = true
    armed,              \* libev: the timer watchers that will expire
    nextId,             \* the next timer id (id_counter)
    freedArmed,         \* history: timers deleted while armed or pending
    stopSent,           \* history: a Stop() reached the active watcher
    pushed,             \* history: the functions pushed, in order
    ran                 \* history: those of them that were called, in order

vars == <<lpc, custom_callbacks_, copy, fpc, active, sent, pending, expired,
          unloop, timers_, repeating, armed, nextId, freedArmed, stopSent,
          pushed, ran>>

queueVars == <<custom_callbacks_, copy, fpc, pushed, ran>>
timerVars == <<timers_, repeating, armed, nextId, freedArmed>>

Async == {"custom", "stop"}
LoopPC == {"new", "exec", "prelooped", "poll", "invoke", "stopping",
           "done", "corrupt"}

TypeOK ==
    /\ lpc \in LoopPC
    /\ custom_callbacks_ \in Seq(Func)
    /\ copy \in Seq(Func)
    /\ fpc \in [Func -> {"new", "pushed", "sent", "unheard"}]
    /\ active \subseteq Async
    /\ sent \subseteq Async
    /\ pending \subseteq Async
    /\ expired \subseteq TimerId
    /\ unloop \in BOOLEAN
    /\ timers_ \subseteq TimerId
    /\ repeating \subseteq TimerId
    /\ armed \subseteq TimerId
    /\ nextId \in 1 .. MaxTimers + 1
    /\ freedArmed \subseteq TimerId
    /\ stopSent \in BOOLEAN
    /\ pushed \in Seq(Func)
    /\ ran \in Seq(Func)

Init ==
    /\ lpc = "new"
    /\ custom_callbacks_ = <<>>
    /\ copy = <<>>
    /\ fpc = [f \in Func |-> "new"]
    /\ active = {}
    /\ sent = {}
    /\ pending = {}
    /\ expired = {}
    /\ unloop = FALSE
    /\ timers_ = {}
    /\ repeating = {}
    /\ armed = {}
    /\ nextId = 1
    /\ freedArmed = {}
    /\ stopSent = FALSE
    /\ pushed = <<>>
    /\ ran = <<>>

(***************************************************************************)
(* ExecInLoopThread from another thread: Push, then Notify.  A Notify      *)
(* before LibevAsync::Start has no effect: before Init it returns because  *)
(* loop_ is null, and ev_async_start clears what was sent before it.       *)
(***************************************************************************)
Push(f) ==
    /\ fpc[f] = "new"
    /\ custom_callbacks_' = Append(custom_callbacks_, f)
    /\ pushed' = Append(pushed, f)
    /\ fpc' = [fpc EXCEPT ![f] = "pushed"]
    /\ UNCHANGED <<lpc, copy, active, sent, pending, expired, unloop, stopSent, ran>>
    /\ UNCHANGED timerVars

NotifyAsync(a) == sent' = IF a \in active THEN sent \cup {a} ELSE sent

PushNotify(f) ==
    /\ fpc[f] = "pushed"
    /\ NotifyAsync("custom")
    /\ fpc' = [fpc EXCEPT ![f] = IF "custom" \in active THEN "sent" ELSE "unheard"]
    /\ UNCHANGED <<lpc, custom_callbacks_, copy, active, pending, expired, unloop,
                   stopSent, pushed, ran>>
    /\ UNCHANGED timerVars

\* Stop() from any other thread, at any time.
Stop ==
    /\ NotifyAsync("stop")
    /\ stopSent' = (stopSent \/ "stop" \in active)
    /\ UNCHANGED <<lpc, active, pending, expired, unloop>>
    /\ UNCHANGED queueVars
    /\ UNCHANGED timerVars

(***************************************************************************)
(* What a callback may do in the loop thread.                              *)
(***************************************************************************)
\* Fault: the new timer is not remembered in timers_.
CreateTimer_NotStored(repeat) ==
    /\ nextId \in TimerId
    /\ repeating' = IF repeat THEN repeating \cup {nextId} ELSE repeating
    /\ armed' = armed \cup {nextId}
    /\ nextId' = nextId + 1
    /\ UNCHANGED <<timers_, freedArmed, sent, stopSent>>

CreateTimer(repeat) ==
    /\ nextId \in TimerId
    /\ timers_' = timers_ \cup {nextId}
    /\ repeating' = IF repeat THEN repeating \cup {nextId} ELSE repeating
    /\ armed' = armed \cup {nextId}
    /\ nextId' = nextId + 1
    /\ UNCHANGED <<freedArmed, sent, stopSent>>

\* The watchers in T are deleted; ev_timer_stop is not called for them.
FreeTimers(T) ==
    /\ timers_' = timers_ \ T
    /\ freedArmed' = freedArmed \cup (T \cap (armed \cup expired))

RemoveTimer(id) ==
    /\ id \in timers_
    /\ FreeTimers({id})
    /\ UNCHANGED <<repeating, armed, nextId, sent, stopSent>>

Callback ==
    \/ UNCHANGED timerVars /\ UNCHANGED <<sent, stopSent>>
    \/ \E repeat \in BOOLEAN : CreateTimer(repeat)
    \/ \E id \in timers_ : RemoveTimer(id)
    \/ /\ NotifyAsync("stop")
       /\ stopSent' = (stopSent \/ "stop" \in active)
       /\ UNCHANGED timerVars

(***************************************************************************)
(* Exec() up to ev_loop: the custom watcher is started, then the stop      *)
(* watcher, then the observer is told (PreLooped, Started).                *)
(***************************************************************************)
StartAsync(a) ==
    /\ active' = active \cup {a}
    /\ sent' = sent \ {a}

ExecStartCustom ==
    /\ lpc = "new"
    /\ StartAsync("custom")
    /\ lpc' = "exec"
    /\ UNCHANGED <<pending, expired, unloop, stopSent>>
    /\ UNCHANGED queueVars
    /\ UNCHANGED timerVars

ExecStartStop ==
    /\ lpc = "exec"
    /\ StartAsync("stop")
    /\ lpc' = "prelooped"
    /\ UNCHANGED <<pending, expired, unloop, stopSent>>
    /\ UNCHANGED queueVars
    /\ UNCHANGED timerVars

PreLooped ==
    /\ lpc = "prelooped"
    /\ Callback
    /\ lpc' = "poll"
    /\ UNCHANGED <<active, pending, expired, unloop>>
    /\ UNCHANGED queueVars

(***************************************************************************)
(* ev_loop.  An iteration collects the timers T that have expired and the  *)
(* async watchers that were sent.  Expiry of a freed watcher is undefined. *)
(***************************************************************************)
Poll(T) ==
    /\ lpc = "poll"
    /\ T # {} \/ sent \cap active # {}
    /\ IF T \subseteq timers_
       THEN /\ lpc' = "invoke"
            /\ pending' = sent \cap active
            /\ expired' = T
            /\ sent' = sent \ active
            /\ armed' = armed \ (T \ repeating)
       ELSE /\ lpc' = "corrupt"
            /\ UNCHANGED <<pending, expired, sent, armed>>
    /\ UNCHANGED <<active, unloop, stopSent, timers_, repeating, nextId, freedArmed>>
    /\ UNCHANGED queueVars

\* Fault: Pop takes a copy and forgets to empty the queue.
CustomCb_NoSwap ==
    /\ lpc = "invoke"
    /\ copy = <<>>
    /\ "custom" \in pending
    /\ copy' = custom_callbacks_
    /\ pending' = pending \ {"custom"}
    /\ UNCHANGED <<lpc, custom_callbacks_, fpc, active, sent, expired, unloop, stopSent,
                   pushed, ran>>
    /\ UNCHANGED timerVars

\* Fault: Pop takes the first function only.
CustomCb_One ==
    /\ lpc = "invoke"
    /\ copy = <<>>
    /\ "custom" \in pending
    /\ copy' = SubSeq(custom_callbacks_, 1, 1)
    /\ custom_callbacks_' = SubSeq(custom_callbacks_, 2, Len(custom_callbacks_))
    /\ pending' = pending \ {"custom"}
    /\ UNCHANGED <<lpc, fpc, active, sent, expired, unloop, stopSent, pushed, ran>>
    /\ UNCHANGED timerVars

\* custom_cb: Pop swaps the queue with an empty one under the mutex...
CustomCb ==
    /\ lpc = "invoke"
    /\ copy = <<>>
    /\ "custom" \in pending
    /\ copy' = custom_callbacks_
    /\ custom_callbacks_' = <<>>
    /\ pending' = pending \ {"custom"}
    /\ UNCHANGED <<lpc, fpc, active, sent, expired, unloop, stopSent, pushed, ran>>
    /\ UNCHANGED timerVars

\* ...and calls the functions one after the other without it.
RunFunc ==
    /\ lpc = "invoke"
    /\ copy # <<>>
    /\ ran' = Append(ran, Head(copy))
    /\ copy' = Tail(copy)
    /\ Callback
    /\ UNCHANGED <<lpc, custom_callbacks_, fpc, active, pending, expired, unloop, pushed>>

\* timer_cb: the watcher is read, so it must not have been freed.
TimerCb(id) ==
    /\ lpc = "invoke"
    /\ copy = <<>>
    /\ id \in expired
    /\ expired' = expired \ {id}
    /\ IF id \in timers_
       THEN Callback /\ UNCHANGED lpc
       ELSE lpc' = "corrupt" /\ UNCHANGED timerVars /\ UNCHANGED <<sent, stopSent>>
    /\ UNCHANGED <<active, pending, unloop>>
    /\ UNCHANGED queueVars

\* Fault: HandleStop does not call ev_unloop.
Stopped_NoUnloop ==
    /\ lpc = "stopping"
    /\ Callback
    /\ lpc' = "invoke"
    /\ UNCHANGED <<active, pending, expired, unloop>>
    /\ UNCHANGED queueVars

\* stop_cb: HandleStop stops the watcher and deletes all timers, then tells
\* the observer (Stopped) and ends the loop after this iteration.
StopCb ==
    /\ lpc = "invoke"
    /\ copy = <<>>
    /\ "stop" \in pending
    /\ active' = active \ {"stop"}
    /\ pending' = pending \ {"stop"}
    /\ FreeTimers(timers_)
    /\ lpc' = "stopping"
    /\ UNCHANGED <<sent, expired, unloop, stopSent, repeating, armed, nextId>>
    /\ UNCHANGED queueVars

Stopped ==
    /\ lpc = "stopping"
    /\ Callback
    /\ unloop' = TRUE
    /\ lpc' = "invoke"
    /\ UNCHANGED <<active, pending, expired>>
    /\ UNCHANGED queueVars

EndIteration ==
    /\ lpc = "invoke"
    /\ copy = <<>>
    /\ pending = {}
    /\ expired = {}
    /\ lpc' = IF unloop THEN "done" ELSE "poll"
    /\ UNCHANGED <<active, sent, pending, expired, unloop, stopSent>>
    /\ UNCHANGED queueVars
    /\ UNCHANGED timerVars

ExecSteps ==
    \/ ExecStartCustom
    \/ ExecStartStop
    \/ PreLooped
    \/ CustomCb
    \/ RunFunc
    \/ \E id \in TimerId : TimerCb(id)
    \/ StopCb
    \/ Stopped
    \/ EndIteration

Next ==
    /\ lpc # "corrupt"
    /\ \/ \E f \in Func : Push(f) \/ PushNotify(f)
       \/ Stop
       \/ ExecSteps
       \/ \E T \in SUBSET armed : Poll(T)

Spec == Init /\ [][Next]_vars

\* The loop thread keeps running; a timer need not expire, but ev_loop
\* returns from its wait when an async watcher was sent.  A thread inside
\* ExecInLoopThread gets to its Notify.
Fairness ==
    /\ WF_vars(lpc # "corrupt" /\ ExecSteps)
    /\ WF_vars(lpc # "corrupt" /\ sent \cap active # {} /\ \E T \in SUBSET armed : Poll(T))
    /\ \A f \in Func : WF_vars(lpc # "corrupt" /\ PushNotify(f))

FairSpec == Spec /\ Fairness

(***************************************************************************)
(* Properties.                                                             *)
(***************************************************************************)

\* Functions are called in the order in which ExecInLoopThread queued them,
\* each once, across batches and although new ones are pushed while a batch
\* runs: AsyncCustom::Pop hands over whole batches.
QueueOrder == pushed = ran \o copy \o custom_callbacks_

Queued(f) == \E i \in 1 .. Len(custom_callbacks_) : custom_callbacks_[i] = f

\* No wakeup is lost: as long as a function whose Notify found the watcher
\* started is in custom_callbacks_, the watcher is sent or pending, so
\* custom_cb is still to come, whatever happens between Push and Notify.
NoLostNotify ==
    \A f \in Func :
        fpc[f] = "sent" /\ Queued(f) => "custom" \in sent \cup pending

\* Whatever libev will expire or invoke is a timer of timers_, except for
\* those that RemoveTimer or HandleStop deleted while they were armed or
\* pending: deleting those is the only way to a callback on a freed timer.
TimersKnown == armed \cup expired \subseteq timers_ \cup freedArmed

\* Why NoLostNotify is inductive.
AsyncState ==
    /\ "custom" \in active <=> lpc # "new"
    /\ lpc = "new" => \A f \in Func : fpc[f] # "sent"
    /\ copy # <<>> => lpc = "invoke"
    /\ lpc \notin {"invoke", "stopping", "corrupt"} => pending = {}

\* What every step of the loop and of the threads that push preserves: no
\* function is lost, repeated or overtaken across the swap of batches, its
\* wakeup is still to come, and libev knows no timer that was freed unarmed.
IInv == TypeOK /\ AsyncState /\ QueueOrder /\ NoLostNotify /\ TimersKnown

\* The queue of functions implements the abstract queue of work.
WQ == INSTANCE WorkQueue WITH Item <- Func, accepted <- pushed, delivered <- ran
QueueSpec == WQ!WQSpec

\* A function whose Notify found the loop started is called, unless the loop
\* is stopped first (AsyncCustom drops what is left) or a freed timer is hit.
NotifiedRuns ==
    \A f \in Func :
        fpc[f] = "sent" ~> (\E i \in 1 .. Len(ran) : ran[i] = f)
                           \/ unloop \/ lpc = "corrupt"

\* Exec() returns after a Stop() that found the stop watcher started, unless
\* a freed timer is hit; an earlier Stop() is forgotten.
StopEndsExec == stopSent ~> lpc \in {"done", "corrupt"}

=============================================================================
