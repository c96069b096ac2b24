--------------------------- MODULE EventLoopProofs ---------------------------
(***************************************************************************)
(* Proofs about EventLoop for any set of functions and any number of       *)
(* timers: the order of the queue, the absence of lost notifications, the  *)
(* timers libev may touch, and the refinement of WorkQueue.                *)
(***************************************************************************)
EXTENDS EventLoop, TLAPS

TimerTypes ==
    /\ timers_ \subseteq TimerId
    /\ repeating \subseteq TimerId
    /\ armed \subseteq TimerId
    /\ nextId \in 1 .. MaxTimers + 1
    /\ freedArmed \subseteq TimerId

\* Pushing a function adds nothing but that function to the queue.
LEMMA QueuedAppend ==
    ASSUME NEW S, NEW q \in Seq(S), NEW g \in S, NEW f,
           \E i \in 1 .. Len(Append(q, g)) : Append(q, g)[i] = f
    PROVE  f = g \/ \E i \in 1 .. Len(q) : q[i] = f
    OBVIOUS

\* Pushing a function keeps the order of what was run, taken and queued.
LEMMA PushOrder ==
    ASSUME NEW S, NEW p \in Seq(S), NEW c \in Seq(S), NEW q \in Seq(S), NEW e \in S
    PROVE  p \o c \o Append(q, e) = Append(p \o c \o q, e)
<1> DEFINE r == p \o c
<1>1. r \in Seq(S)
    OBVIOUS
<1> HIDE DEF r
<1>2. r \o Append(q, e) = Append(r \o q, e)
    BY <1>1
<1> QED
    BY <1>2 DEF r

\* Taking the whole queue as the batch keeps it, when the last batch is over.
LEMMA SwapOrder ==
    ASSUME NEW S, NEW p \in Seq(S), NEW q \in Seq(S)
    PROVE  p \o <<>> \o q = p \o q \o <<>>
<1>1. p \o <<>> = p
    OBVIOUS
<1>2. p \o q \in Seq(S)
    OBVIOUS
<1>3. p \o q \o <<>> = p \o q
    BY <1>2
<1> QED
    BY <1>1, <1>3

\* Calling the first function of the batch keeps it, and that function is
\* the next one of the whole sequence.
LEMMA RunOrder ==
    ASSUME NEW S, NEW p \in Seq(S), NEW c \in Seq(S), NEW q \in Seq(S), c # <<>>
    PROVE  /\ Head(c) \in S
           /\ Tail(c) \in Seq(S)
           /\ Append(p, Head(c)) \o Tail(c) \o q = p \o c \o q
           /\ Len(p) < Len(p \o c \o q)
           /\ (p \o c \o q)[Len(p) + 1] = Head(c)
<1>1. Head(c) \in S /\ Tail(c) \in Seq(S)
    OBVIOUS
<1>2. Append(p, Head(c)) \o Tail(c) = p \o c
    OBVIOUS
<1>3. /\ p \o c \in Seq(S)
      /\ Len(p \o c) = Len(p) + Len(c)
      /\ Len(c) >= 1
      /\ (p \o c)[Len(p) + 1] = Head(c)
    OBVIOUS
<1> DEFINE r == p \o c
<1>4. r \in Seq(S) /\ Len(r) >= Len(p) + 1 /\ r[Len(p) + 1] = Head(c)
    BY <1>3
<1> HIDE DEF r
<1>5. Len(p) < Len(r \o q) /\ (r \o q)[Len(p) + 1] = r[Len(p) + 1]
    BY <1>4
<1> QED
    BY <1>1, <1>2, <1>4, <1>5 DEF r

\* What a callback of the loop thread can do to the timers and the watchers.
LEMMA CallbackKeeps ==
    ASSUME TypeOK, TimersKnown, Callback, expired' \subseteq expired
    PROVE  /\ TimerTypes'
           /\ TimersKnown'
           /\ sent \subseteq sent' /\ sent' \subseteq Async
           /\ stopSent' \in BOOLEAN
<1> USE MaxTimersAssumption DEF TypeOK, TimerTypes, TimersKnown, TimerId
<1>1. CASE UNCHANGED timerVars /\ UNCHANGED <<sent, stopSent>>
    BY <1>1 DEF timerVars
<1>2. ASSUME NEW repeat \in BOOLEAN, CreateTimer(repeat)
      PROVE  TimerTypes' /\ TimersKnown' /\ UNCHANGED <<sent, stopSent>>
    BY <1>2 DEF CreateTimer
<1>3. ASSUME NEW id \in timers_, RemoveTimer(id)
      PROVE  TimerTypes' /\ TimersKnown' /\ UNCHANGED <<sent, stopSent>>
    BY <1>3 DEF RemoveTimer, FreeTimers
<1>4. CASE /\ NotifyAsync("stop")
           /\ stopSent' = (stopSent \/ "stop" \in active)
           /\ UNCHANGED timerVars
  <2>1. TimerTypes' /\ TimersKnown' /\ sent \subseteq sent' /\ sent' \subseteq Async
      BY <1>4 DEF timerVars, NotifyAsync, Async
  <2>2. stopSent' \in BOOLEAN
      BY <1>4
  <2> QED
      BY <2>1, <2>2
<1> QED
    BY <1>1, <1>2, <1>3, <1>4 DEF Callback

\* The initial state satisfies IInv.
LEMMA InitIInv == Init => IInv
<1> SUFFICES ASSUME Init PROVE IInv
    OBVIOUS
<1> USE MaxTimersAssumption DEF Init
<1>1. TypeOK
  <2>1. custom_callbacks_ \in Seq(Func) /\ copy \in Seq(Func)
        /\ pushed \in Seq(Func) /\ ran \in Seq(Func)
      OBVIOUS
  <2>2. unloop \in BOOLEAN /\ stopSent \in BOOLEAN
      OBVIOUS
  <2> QED
      BY <2>1, <2>2 DEF TypeOK, LoopPC, Async, TimerId
<1>2. AsyncState /\ NoLostNotify /\ TimersKnown
    BY DEF AsyncState, NoLostNotify, TimersKnown
<1>3. QueueOrder
    BY DEF QueueOrder
<1> QED
    BY <1>1, <1>2, <1>3 DEF IInv

\* Every step keeps IInv, one case per action.
LEMMA NextIInv == IInv /\ [Next]_vars => IInv'
<1> SUFFICES ASSUME IInv, [Next]_vars PROVE IInv'
    OBVIOUS
<1> USE MaxTimersAssumption DEF IInv, TypeOK
<1>1. ASSUME NEW f \in Func, Push(f) PROVE IInv'
  <2>1. TypeOK'
      BY <1>1 DEF Push, timerVars, queueVars, Async, LoopPC, TimerId
  <2>2. AsyncState'
      BY <1>1 DEF Push, timerVars, queueVars, AsyncState, Async
  <2>3. QueueOrder'
    <3>1. ran \o copy \o Append(custom_callbacks_, f)
            = Append(ran \o copy \o custom_callbacks_, f)
        BY PushOrder
    <3> QED
        BY <1>1, <3>1 DEF Push, QueueOrder
  <2>4. NoLostNotify'
    <3> SUFFICES ASSUME NEW g \in Func, fpc'[g] = "sent", Queued(g)'
                 PROVE  "custom" \in sent \cup pending
        BY <1>1 DEF Push, NoLostNotify
    <3>1. g # f /\ fpc[g] = "sent"
        BY <1>1 DEF Push
    <3>2. Queued(g)
        BY <1>1, <3>1, QueuedAppend DEF Push, Queued
    <3> QED
        BY <3>1, <3>2 DEF NoLostNotify
  <2>5. TimersKnown'
      BY <1>1 DEF Push, timerVars, queueVars, TimersKnown
  <2> QED
      BY <2>1, <2>2, <2>3, <2>4, <2>5 DEF IInv
<1>2. ASSUME NEW f \in Func, PushNotify(f) PROVE IInv'
  <2>1. TypeOK'
      BY <1>2 DEF PushNotify, NotifyAsync, timerVars, queueVars, Async, LoopPC, TimerId
  <2>2. AsyncState'
      BY <1>2 DEF PushNotify, NotifyAsync, timerVars, queueVars, AsyncState, Async
  <2>3. QueueOrder'
      BY <1>2 DEF PushNotify, NotifyAsync, timerVars, queueVars, QueueOrder
  <2>4. NoLostNotify'
      BY <1>2 DEF PushNotify, NotifyAsync, timerVars, queueVars, NoLostNotify, Queued, AsyncState, Async
  <2>5. TimersKnown'
      BY <1>2 DEF PushNotify, NotifyAsync, timerVars, queueVars, TimersKnown
  <2> QED
      BY <2>1, <2>2, <2>3, <2>4, <2>5 DEF IInv
<1>3. ASSUME Stop PROVE IInv'
  <2>1. TypeOK'
      BY <1>3 DEF Stop, NotifyAsync, timerVars, queueVars, Async, LoopPC, TimerId
  <2>2. AsyncState'
      BY <1>3 DEF Stop, NotifyAsync, timerVars, queueVars, AsyncState, Async
  <2>3. QueueOrder'
      BY <1>3 DEF Stop, NotifyAsync, timerVars, queueVars, QueueOrder
  <2>4. NoLostNotify'
      BY <1>3 DEF Stop, NotifyAsync, timerVars, queueVars, NoLostNotify, Queued, AsyncState, Async
  <2>5. TimersKnown'
      BY <1>3 DEF Stop, NotifyAsync, timerVars, queueVars, TimersKnown
  <2> QED
      BY <2>1, <2>2, <2>3, <2>4, <2>5 DEF IInv
<1>4. ASSUME ExecStartCustom PROVE IInv'
  <2>1. TypeOK'
      BY <1>4 DEF ExecStartCustom, StartAsync, timerVars, queueVars, Async, LoopPC, TimerId
  <2>2. AsyncState'
      BY <1>4 DEF ExecStartCustom, StartAsync, timerVars, queueVars, AsyncState, Async
  <2>3. QueueOrder'
      BY <1>4 DEF ExecStartCustom, StartAsync, timerVars, queueVars, QueueOrder
  <2>4. NoLostNotify'
      BY <1>4 DEF ExecStartCustom, StartAsync, timerVars, queueVars, NoLostNotify, Queued, AsyncState, Async
  <2>5. TimersKnown'
      BY <1>4 DEF ExecStartCustom, StartAsync, timerVars, queueVars, TimersKnown
  <2> QED
      BY <2>1, <2>2, <2>3, <2>4, <2>5 DEF IInv
<1>5. ASSUME ExecStartStop PROVE IInv'
  <2>1. TypeOK'
      BY <1>5 DEF ExecStartStop, StartAsync, timerVars, queueVars, Async, LoopPC, TimerId
  <2>2. AsyncState'
      BY <1>5 DEF ExecStartStop, StartAsync, timerVars, queueVars, AsyncState, Async
  <2>3. QueueOrder'
      BY <1>5 DEF ExecStartStop, StartAsync, timerVars, queueVars, QueueOrder
  <2>4. NoLostNotify'
      BY <1>5 DEF ExecStartStop, StartAsync, timerVars, queueVars, NoLostNotify, Queued, AsyncState, Async
  <2>5. TimersKnown'
      BY <1>5 DEF ExecStartStop, StartAsync, timerVars, queueVars, TimersKnown
  <2> QED
      BY <2>1, <2>2, <2>3, <2>4, <2>5 DEF IInv
<1>6. ASSUME PreLooped PROVE IInv'
  <2>0. TimerTypes' /\ TimersKnown' /\ sent \subseteq sent' /\ sent' \subseteq Async
        /\ stopSent' \in BOOLEAN
      BY <1>6, CallbackKeeps DEF PreLooped
  <2>1. TypeOK'
      BY <1>6, <2>0 DEF PreLooped, queueVars, Async, LoopPC, TimerId, TimerTypes
  <2>2. AsyncState'
      BY <1>6 DEF PreLooped, queueVars, AsyncState, Async
  <2>3. QueueOrder'
      BY <1>6 DEF PreLooped, queueVars, QueueOrder
  <2>4. NoLostNotify'
      BY <1>6, <2>0 DEF PreLooped, queueVars, NoLostNotify, Queued, AsyncState, Async
  <2>5. TimersKnown'
      BY <2>0
  <2> QED
      BY <2>1, <2>2, <2>3, <2>4, <2>5 DEF IInv
<1>7. ASSUME NEW T \in SUBSET armed, Poll(T) PROVE IInv'
  <2>1. TypeOK'
      BY <1>7 DEF Poll, timerVars, queueVars, Async, LoopPC, TimerId
  <2>2. AsyncState'
      BY <1>7 DEF Poll, timerVars, queueVars, AsyncState, Async
  <2>3. QueueOrder'
      BY <1>7 DEF Poll, timerVars, queueVars, QueueOrder
  <2>4. NoLostNotify'
    <3>1. "custom" \in active
        BY <1>7 DEF Poll, AsyncState
    <3>2. "custom" \in sent \cup pending => "custom" \in sent' \cup pending'
      <4>1. pending = {}
          BY <1>7 DEF Poll, AsyncState
      <4> QED
          BY <1>7, <3>1, <4>1 DEF Poll
    <3> QED
        BY <1>7, <3>2 DEF Poll, queueVars, NoLostNotify, Queued
  <2>5. TimersKnown'
      BY <1>7 DEF Poll, timerVars, queueVars, TimersKnown
  <2> QED
      BY <2>1, <2>2, <2>3, <2>4, <2>5 DEF IInv
<1>8. ASSUME CustomCb PROVE IInv'
  <2>1. TypeOK'
    <3>1. custom_callbacks_' \in Seq(Func) /\ copy' \in Seq(Func)
        BY <1>8 DEF CustomCb
    <3> QED
        BY <1>8, <3>1 DEF CustomCb, timerVars, queueVars, Async, LoopPC, TimerId
  <2>2. AsyncState'
      BY <1>8 DEF CustomCb, timerVars, queueVars, AsyncState, Async
  <2>3. QueueOrder'
      BY <1>8, SwapOrder DEF CustomCb, QueueOrder
  <2>4. NoLostNotify'
      BY <1>8 DEF CustomCb, timerVars, queueVars, NoLostNotify, Queued, AsyncState, Async
  <2>5. TimersKnown'
      BY <1>8 DEF CustomCb, timerVars, queueVars, TimersKnown
  <2> QED
      BY <2>1, <2>2, <2>3, <2>4, <2>5 DEF IInv
<1>9. ASSUME RunFunc PROVE IInv'
  <2>0. TimerTypes' /\ TimersKnown' /\ sent \subseteq sent' /\ sent' \subseteq Async
        /\ stopSent' \in BOOLEAN
      BY <1>9, CallbackKeeps DEF RunFunc
  <2>1. TypeOK'
    <3>1. Head(copy) \in Func /\ Tail(copy) \in Seq(Func)
        BY <1>9, RunOrder DEF RunFunc
    <3> QED
        BY <1>9, <2>0, <3>1 DEF RunFunc, TimerTypes
  <2>2. AsyncState'
      BY <1>9 DEF RunFunc, queueVars, AsyncState, Async
  <2>3. QueueOrder'
    <3>1. Append(ran, Head(copy)) \o Tail(copy) \o custom_callbacks_
            = ran \o copy \o custom_callbacks_
      <4>1. copy # <<>> /\ ran \in Seq(Func) /\ copy \in Seq(Func)
            /\ custom_callbacks_ \in Seq(Func)
          BY <1>9 DEF RunFunc
      <4>2. Append(ran, Head(copy)) \o Tail(copy) = ran \o copy
          BY <4>1
      <4> QED
          BY <4>2
    <3> QED
        BY <1>9, <3>1 DEF RunFunc, QueueOrder
  <2>4. NoLostNotify'
      BY <1>9, <2>0 DEF RunFunc, queueVars, NoLostNotify, Queued, AsyncState, Async
  <2>5. TimersKnown'
      BY <2>0
  <2> QED
      BY <2>1, <2>2, <2>3, <2>4, <2>5 DEF IInv
<1>10. ASSUME NEW id \in TimerId, TimerCb(id) PROVE IInv'
  <2>0. TimerTypes' /\ TimersKnown' /\ sent \subseteq sent' /\ sent' \subseteq Async
        /\ stopSent' \in BOOLEAN
    <3>1. CASE id \in timers_
        BY <1>10, <3>1, CallbackKeeps DEF TimerCb
    <3>2. CASE id \notin timers_
        BY <1>10, <3>2 DEF TimerCb, timerVars, TimerTypes, TimersKnown
    <3> QED
        BY <3>1, <3>2
  <2>1. TypeOK'
      BY <1>10, <2>0 DEF TimerCb, queueVars, Async, LoopPC, TimerId, TimerTypes
  <2>2. AsyncState'
      BY <1>10 DEF TimerCb, queueVars, AsyncState, Async
  <2>3. QueueOrder'
      BY <1>10 DEF TimerCb, queueVars, QueueOrder
  <2>4. NoLostNotify'
      BY <1>10, <2>0 DEF TimerCb, queueVars, NoLostNotify, Queued, AsyncState, Async
  <2>5. TimersKnown'
      BY <2>0
  <2> QED
      BY <2>1, <2>2, <2>3, <2>4, <2>5 DEF IInv
<1>11. ASSUME StopCb PROVE IInv'
  <2>1. TypeOK'
      BY <1>11 DEF StopCb, FreeTimers, timerVars, queueVars, Async, LoopPC, TimerId
  <2>2. AsyncState'
      BY <1>11 DEF StopCb, FreeTimers, timerVars, queueVars, AsyncState, Async
  <2>3. QueueOrder'
      BY <1>11 DEF StopCb, FreeTimers, timerVars, queueVars, QueueOrder
  <2>4. NoLostNotify'
      BY <1>11 DEF StopCb, FreeTimers, timerVars, queueVars, NoLostNotify, Queued, AsyncState, Async
  <2>5. TimersKnown'
      BY <1>11 DEF StopCb, FreeTimers, timerVars, queueVars, TimersKnown
  <2> QED
      BY <2>1, <2>2, <2>3, <2>4, <2>5 DEF IInv
<1>12. ASSUME Stopped PROVE IInv'
  <2>0. TimerTypes' /\ TimersKnown' /\ sent \subseteq sent' /\ sent' \subseteq Async
        /\ stopSent' \in BOOLEAN
      BY <1>12, CallbackKeeps DEF Stopped
  <2>1. TypeOK'
      BY <1>12, <2>0 DEF Stopped, queueVars, Async, LoopPC, TimerId, TimerTypes
  <2>2. AsyncState'
      BY <1>12 DEF Stopped, queueVars, AsyncState, Async
  <2>3. QueueOrder'
      BY <1>12 DEF Stopped, queueVars, QueueOrder
  <2>4. NoLostNotify'
      BY <1>12, <2>0 DEF Stopped, queueVars, NoLostNotify, Queued, AsyncState, Async
  <2>5. TimersKnown'
      BY <2>0
  <2> QED
      BY <2>1, <2>2, <2>3, <2>4, <2>5 DEF IInv
<1>13. ASSUME EndIteration PROVE IInv'
  <2>1. TypeOK'
      BY <1>13 DEF EndIteration, timerVars, queueVars, Async, LoopPC, TimerId
  <2>2. AsyncState'
      BY <1>13 DEF EndIteration, timerVars, queueVars, AsyncState, Async
  <2>3. QueueOrder'
      BY <1>13 DEF EndIteration, timerVars, queueVars, QueueOrder
  <2>4. NoLostNotify'
      BY <1>13 DEF EndIteration, timerVars, queueVars, NoLostNotify, Queued, AsyncState, Async
  <2>5. TimersKnown'
      BY <1>13 DEF EndIteration, timerVars, queueVars, TimersKnown
  <2> QED
      BY <2>1, <2>2, <2>3, <2>4, <2>5 DEF IInv
<1>14. ASSUME UNCHANGED vars PROVE IInv'
    BY <1>14 DEF vars, AsyncState, QueueOrder, NoLostNotify, Queued, TimersKnown
<1> QED
    BY <1>1, <1>2, <1>3, <1>4, <1>5, <1>6, <1>7, <1>8, <1>9, <1>10, <1>11, <1>12, <1>13, <1>14
    DEF Next, ExecSteps

\* IInv is an invariant of the loop.
THEOREM Invariance == Spec => []IInv
    BY InitIInv, NextIInv, PTL DEF Spec

\* The variables of the loop always have their types.
THEOREM TypeCorrect == Spec => []TypeOK
<1>1. IInv => TypeOK
    BY DEF IInv
<1> QED
    BY <1>1, Invariance, PTL

\* Functions are called in the order of their pushes.
THEOREM FifoOrder == Spec => []QueueOrder
<1>1. IInv => QueueOrder
    BY DEF IInv
<1> QED
    BY <1>1, Invariance, PTL

\* A notified function never waits in the queue without a wakeup under way.
THEOREM NotifyIsNotLost == Spec => []NoLostNotify
<1>1. IInv => NoLostNotify
    BY DEF IInv
<1> QED
    BY <1>1, Invariance, PTL

\* libev only holds timers of timers_ and timers deleted while armed.
THEOREM OnlyKnownTimers == Spec => []TimersKnown
<1>1. IInv => TimersKnown
    BY DEF IInv
<1> QED
    BY <1>1, Invariance, PTL

\* The initial state of the loop maps to that of the abstract queue.
LEMMA InitRefines == Init => WQ!WQInit
    BY DEF Init, WQ!WQInit

\* Push accepts, RunFunc delivers, and no other step changes the histories.
LEMMA NextRefines == IInv /\ [Next]_vars => [WQ!WQNext]_(WQ!wqvars)
<1> SUFFICES ASSUME IInv, [Next]_vars PROVE [WQ!WQNext]_(WQ!wqvars)
    OBVIOUS
<1> USE DEF WQ!WQNext, WQ!wqvars
<1>1. ASSUME NEW f \in Func, Push(f) PROVE WQ!WQNext
    BY <1>1 DEF Push, WQ!Accept
<1>2. ASSUME RunFunc PROVE WQ!WQNext
  <2>1. Len(ran) < Len(pushed) /\ pushed[Len(ran) + 1] = Head(copy)
      BY <1>2, RunOrder DEF RunFunc, IInv, TypeOK, QueueOrder
  <2> QED
      BY <1>2, <2>1 DEF RunFunc, WQ!Deliver
<1>3. ASSUME \/ \E f \in Func : PushNotify(f)
             \/ Stop \/ ExecStartCustom \/ ExecStartStop \/ PreLooped
             \/ \E T \in SUBSET armed : Poll(T)
             \/ CustomCb \/ \E id \in TimerId : TimerCb(id)
             \/ StopCb \/ Stopped \/ EndIteration
             \/ UNCHANGED vars
      PROVE  UNCHANGED WQ!wqvars
    BY <1>3 DEF PushNotify, Stop, ExecStartCustom, ExecStartStop, PreLooped, Poll,
        CustomCb, TimerCb, StopCb, Stopped, EndIteration, queueVars, vars
<1> QED
    BY <1>1, <1>2, <1>3 DEF Next, ExecSteps

\* The queue of functions implements the abstract queue of work.
THEOREM ImplementsWorkQueue == Spec => QueueSpec
    BY Invariance, InitRefines, NextRefines, PTL DEF Spec, QueueSpec, WQ!WQSpec

=============================================================================
