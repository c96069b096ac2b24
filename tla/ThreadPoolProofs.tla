-------------------------- MODULE ThreadPoolProofs --------------------------
(***************************************************************************)
(* Proofs about ThreadPool for any number of workers and any set of tasks. *)
(* IInv is inductive; the safety properties and the refinement of          *)
(* WorkQueue follow from it.                                               *)
(***************************************************************************)
EXTENDS ThreadPool, TLAPS

\* In the initial state IInv holds: there is no worker and no task.
LEMMA InitIInv == Init => IInv
<1> SUFFICES ASSUME Init PROVE IInv
    OBVIOUS
<1> USE MaxWorkersAssumption DEF Init, Worker, Nobody
<1>1. TypeOK
  <2>1. stop_ \in BOOLEAN /\ restarting \in BOOLEAN
      OBVIOUS
  <2>2. tasks_ \in Seq(Task) /\ posted \in Seq(Task) /\ started \in Seq(Task)
      OBVIOUS
  <2>3. wpc \in [Worker -> WorkerPC] /\ opc \in OwnerPC
      BY DEF WorkerPC, OwnerPC
  <2>4. size \in 0 .. MaxWorkers /\ joining \in 1 .. MaxWorkers + 1
      OBVIOUS
  <2> QED
      BY <2>1, <2>2, <2>3, <2>4 DEF TypeOK
<1>2. MutexHeld /\ NoFrontOfEmpty /\ NoRunAfterStop /\ LateStart /\ OneSleeper
    BY DEF MutexHeld, NoFrontOfEmpty, NoRunAfterStop, LateStart, OneSleeper
<1>3. QueueOrder
    BY DEF QueueOrder
<1>4. JoinProgress
    BY DEF JoinProgress, FirstJoinable, Joinable
<1> QED
    BY <1>1, <1>2, <1>3, <1>4 DEF IInv

\* Taking the head of a queue moves it from the rest to the end of what was
\* taken: what PopTask does to started and tasks_.
LEMMA MoveHead ==
    ASSUME NEW S, NEW p \in Seq(S), NEW q \in Seq(S), q # <<>>
    PROVE  /\ Head(q) \in S
           /\ Tail(q) \in Seq(S)
           /\ Append(p, Head(q)) \o Tail(q) = p \o q
           /\ (p \o q)[Len(p) + 1] = Head(q)
           /\ Len(p) < Len(p \o q)
    OBVIOUS

\* Posting appends to the concatenation.
LEMMA PushLast ==
    ASSUME NEW S, NEW p \in Seq(S), NEW q \in Seq(S), NEW e \in S
    PROVE  p \o Append(q, e) = Append(p \o q, e)
    OBVIOUS

\* InitWork leaves an empty queue behind.
LEMMA NothingPending ==
    ASSUME NEW S, NEW p \in Seq(S)
    PROVE  p = p \o <<>>
    OBVIOUS

\* Every step keeps IInv, one case per action.
LEMMA NextIInv == IInv /\ [Next]_vars => IInv'
<1> SUFFICES ASSUME IInv, [Next]_vars PROVE IInv'
    OBVIOUS
<1> USE MaxWorkersAssumption DEF IInv, TypeOK, Worker, Nobody
<1>1. ASSUME NEW t \in Task, PostPush(t) PROVE IInv'
  <2>1. TypeOK'
      BY <1>1 DEF PostPush, WorkerPC, OwnerPC
  <2>2. MutexHeld' /\ NoFrontOfEmpty'
      BY <1>1 DEF PostPush, MutexHeld, NoFrontOfEmpty, WorkerPC
  <2>3. QueueOrder'
    <3>1. started \o Append(tasks_, t) = Append(started \o tasks_, t)
        BY PushLast
    <3> QED
        BY <1>1, <3>1 DEF PostPush, QueueOrder
  <2>4. JoinProgress'
      BY <1>1 DEF PostPush,
          JoinProgress, FirstJoinable, Joinable, WorkerPC, OwnerPC
  <2>5. NoRunAfterStop' /\ LateStart' /\ OneSleeper'
      BY <1>1 DEF PostPush, NoRunAfterStop, LateStart, OneSleeper,
          MutexHeld, JoinProgress, FirstJoinable,
          Joinable, WorkerPC
  <2> QED
      BY <2>1, <2>2, <2>3, <2>4, <2>5 DEF IInv
<1>2. ASSUME NEW t \in Task, PostNotify(t) PROVE IInv'
  <2>1. TypeOK'
      BY <1>2 DEF PostNotify, Wake, Waiters, WorkerPC, OwnerPC
  <2>2. MutexHeld' /\ NoFrontOfEmpty'
      BY <1>2 DEF PostNotify, Wake, Waiters, MutexHeld, NoFrontOfEmpty, WorkerPC
  <2>3. QueueOrder'
      BY <1>2 DEF PostNotify, Wake, Waiters, QueueOrder
  <2>4. JoinProgress'
      BY <1>2 DEF PostNotify, Wake, Waiters,
          JoinProgress, FirstJoinable, Joinable, WorkerPC, OwnerPC
  <2>5. NoRunAfterStop' /\ LateStart' /\ OneSleeper'
      BY <1>2 DEF PostNotify, Wake, Waiters, NoRunAfterStop, LateStart, OneSleeper,
          MutexHeld, JoinProgress, FirstJoinable,
          Joinable, WorkerPC
  <2> QED
      BY <2>1, <2>2, <2>3, <2>4, <2>5 DEF IInv
<1>3. ASSUME NEW n \in 0 .. MaxWorkers, Start(n) PROVE IInv'
  <2>1. TypeOK'
    <3>1. size' \in 0 .. MaxWorkers /\ opc' \in OwnerPC
        BY <1>3 DEF Start, InitWork, OwnerPC
    <3>0. <<>> \in Seq(Task)
        OBVIOUS
    <3>2. tasks_' \in Seq(Task) /\ posted' \in Seq(Task)
      <4>1. CASE \E w \in Worker : Joinable(w)
          BY <1>3, <4>1 DEF Start, InitWork
      <4>2. CASE ~ \E w \in Worker : Joinable(w)
          BY <1>3, <3>0, <4>2 DEF Start, InitWork
      <4> QED
          BY <4>1, <4>2
    <3>3. wpc' \in [Worker -> WorkerPC]
        BY <1>3 DEF Start, InitWork, WorkerPC
    <3> QED
        BY <1>3, <3>1, <3>2, <3>3 DEF Start, InitWork
  <2>2. MutexHeld' /\ NoFrontOfEmpty'
      BY <1>3 DEF Start, InitWork, MutexHeld, NoFrontOfEmpty, WorkerPC, Joinable
  <2>3. QueueOrder'
    <3>1. started = started \o <<>>
        BY NothingPending
    <3> QED
        BY <1>3, <3>1 DEF Start, InitWork, QueueOrder
  <2>4. JoinProgress'
      BY <1>3 DEF Start, InitWork,
          JoinProgress, FirstJoinable, Joinable, WorkerPC, OwnerPC
  <2>5. NoRunAfterStop' /\ LateStart' /\ OneSleeper'
      BY <1>3 DEF Start, InitWork, NoRunAfterStop, LateStart, OneSleeper,
          MutexHeld, JoinProgress, FirstJoinable,
          Joinable, WorkerPC
  <2> QED
      BY <2>1, <2>2, <2>3, <2>4, <2>5 DEF IInv
<1>4. ASSUME NEW r \in BOOLEAN, StopBegin(r) PROVE IInv'
  <2>1. TypeOK'
      BY <1>4 DEF StopBegin, WorkerPC, OwnerPC
  <2>2. MutexHeld' /\ NoFrontOfEmpty'
      BY <1>4 DEF StopBegin, MutexHeld, NoFrontOfEmpty, WorkerPC
  <2>3. QueueOrder'
      BY <1>4 DEF StopBegin, QueueOrder
  <2>4. JoinProgress'
      BY <1>4 DEF StopBegin,
          JoinProgress, FirstJoinable, Joinable, WorkerPC, OwnerPC
  <2>5. NoRunAfterStop' /\ LateStart' /\ OneSleeper'
      BY <1>4 DEF StopBegin, NoRunAfterStop, LateStart, OneSleeper,
          MutexHeld, JoinProgress, FirstJoinable,
          Joinable, WorkerPC
  <2> QED
      BY <2>1, <2>2, <2>3, <2>4, <2>5 DEF IInv
<1>5. ASSUME StopNotify PROVE IInv'
  <2>1. TypeOK'
      BY <1>5 DEF StopNotify, Wake, Waiters, WorkerPC, OwnerPC
  <2>2. MutexHeld' /\ NoFrontOfEmpty'
      BY <1>5 DEF StopNotify, Wake, Waiters, MutexHeld, NoFrontOfEmpty, WorkerPC
  <2>3. QueueOrder'
      BY <1>5 DEF StopNotify, Wake, Waiters, QueueOrder
  <2>4. JoinProgress'
      BY <1>5 DEF StopNotify, Wake, Waiters,
          JoinProgress, FirstJoinable, Joinable, WorkerPC, OwnerPC
  <2>5. NoRunAfterStop' /\ LateStart' /\ OneSleeper'
      BY <1>5 DEF StopNotify, Wake, Waiters, NoRunAfterStop, LateStart, OneSleeper,
          MutexHeld, JoinProgress, FirstJoinable,
          Joinable, WorkerPC
  <2> QED
      BY <2>1, <2>2, <2>3, <2>4, <2>5 DEF IInv
<1>6. ASSUME JoinWorker PROVE IInv'
  <2>1. TypeOK'
      BY <1>6 DEF JoinWorker, WorkerPC, OwnerPC, Joinable
  <2>2. MutexHeld' /\ NoFrontOfEmpty'
      BY <1>6 DEF JoinWorker, MutexHeld, NoFrontOfEmpty, WorkerPC, Joinable
  <2>3. QueueOrder'
      BY <1>6 DEF JoinWorker, QueueOrder
  <2>4. JoinProgress'
      BY <1>6 DEF JoinWorker,
          JoinProgress, FirstJoinable, Joinable, WorkerPC, OwnerPC
  <2>5. NoRunAfterStop' /\ LateStart' /\ OneSleeper'
      BY <1>6 DEF JoinWorker, NoRunAfterStop, LateStart, OneSleeper,
          MutexHeld, JoinProgress, FirstJoinable,
          Joinable, WorkerPC
  <2> QED
      BY <2>1, <2>2, <2>3, <2>4, <2>5 DEF IInv
<1>7. ASSUME StopReturn PROVE IInv'
  <2>1. TypeOK'
    <3>1. size' \in 0 .. MaxWorkers /\ opc' \in OwnerPC
        BY <1>7 DEF StopReturn, InitWork, OwnerPC
    <3>0. <<>> \in Seq(Task)
        OBVIOUS
    <3>2. tasks_' \in Seq(Task) /\ posted' \in Seq(Task)
      <4>1. CASE \E w \in Worker : Joinable(w)
          BY <1>7, <4>1 DEF StopReturn, InitWork
      <4>2. CASE ~ \E w \in Worker : Joinable(w)
          BY <1>7, <3>0, <4>2 DEF StopReturn, InitWork
      <4> QED
          BY <4>1, <4>2
    <3>3. wpc' \in [Worker -> WorkerPC]
        BY <1>7 DEF StopReturn, InitWork, WorkerPC
    <3> QED
        BY <1>7, <3>1, <3>2, <3>3 DEF StopReturn, InitWork
  <2>2. MutexHeld' /\ NoFrontOfEmpty'
      BY <1>7 DEF StopReturn, InitWork, MutexHeld, NoFrontOfEmpty, WorkerPC, Joinable
  <2>3. QueueOrder'
    <3>1. started = started \o <<>>
        BY NothingPending
    <3> QED
        BY <1>7, <3>1 DEF StopReturn, InitWork, QueueOrder
  <2>4. JoinProgress'
      BY <1>7 DEF StopReturn, InitWork,
          JoinProgress, FirstJoinable, Joinable, WorkerPC, OwnerPC
  <2>5. NoRunAfterStop' /\ LateStart' /\ OneSleeper'
    <3>1. NoRunAfterStop'
        BY <1>7 DEF StopReturn, InitWork, NoRunAfterStop, JoinProgress,
            FirstJoinable, Joinable, WorkerPC
    <3>2. LateStart'
        BY <1>7 DEF StopReturn, InitWork, LateStart, WorkerPC
    <3>3. OneSleeper'
        BY <1>7 DEF StopReturn, InitWork, OneSleeper, MutexHeld, WorkerPC
    <3> QED
        BY <3>1, <3>2, <3>3
  <2> QED
      BY <2>1, <2>2, <2>3, <2>4, <2>5 DEF IInv
<1>8. ASSUME Destroy PROVE IInv'
  <2>1. TypeOK'
      BY <1>8 DEF Destroy, WorkerPC, OwnerPC, Joinable
  <2>2. MutexHeld' /\ NoFrontOfEmpty'
      BY <1>8 DEF Destroy, MutexHeld, NoFrontOfEmpty, WorkerPC, Joinable
  <2>3. QueueOrder'
      BY <1>8 DEF Destroy, QueueOrder
  <2>4. JoinProgress'
      BY <1>8 DEF Destroy,
          JoinProgress, FirstJoinable, Joinable, WorkerPC, OwnerPC
  <2>5. NoRunAfterStop' /\ LateStart' /\ OneSleeper'
      BY <1>8 DEF Destroy, NoRunAfterStop, LateStart, OneSleeper,
          MutexHeld, JoinProgress, FirstJoinable,
          Joinable, WorkerPC
  <2> QED
      BY <2>1, <2>2, <2>3, <2>4, <2>5 DEF IInv
<1>9. ASSUME NEW w \in Worker, AcquireMutex(w) PROVE IInv'
  <2>1. TypeOK'
      BY <1>9 DEF AcquireMutex, Goto, WorkerPC, OwnerPC
  <2>2. MutexHeld' /\ NoFrontOfEmpty'
      BY <1>9 DEF AcquireMutex, Goto, MutexHeld, NoFrontOfEmpty, WorkerPC
  <2>3. QueueOrder'
      BY <1>9 DEF AcquireMutex, Goto, QueueOrder
  <2>4. JoinProgress'
      BY <1>9 DEF AcquireMutex, Goto,
          JoinProgress, FirstJoinable, Joinable, WorkerPC, OwnerPC
  <2>5. NoRunAfterStop' /\ LateStart' /\ OneSleeper'
      BY <1>9 DEF AcquireMutex, Goto, NoRunAfterStop, LateStart, OneSleeper,
          MutexHeld, JoinProgress, FirstJoinable,
          Joinable, WorkerPC
  <2> QED
      BY <2>1, <2>2, <2>3, <2>4, <2>5 DEF IInv
<1>10. ASSUME NEW w \in Worker, CheckCondition(w) PROVE IInv'
  <2>1. TypeOK'
      BY <1>10 DEF CheckCondition, Goto, WorkerPC, OwnerPC
  <2>2. MutexHeld' /\ NoFrontOfEmpty'
      BY <1>10 DEF CheckCondition, Goto, MutexHeld, NoFrontOfEmpty, WorkerPC
  <2>3. QueueOrder'
      BY <1>10 DEF CheckCondition, Goto, QueueOrder
  <2>4. JoinProgress'
      BY <1>10 DEF CheckCondition, Goto,
          JoinProgress, FirstJoinable, Joinable, WorkerPC, OwnerPC
  <2>5. NoRunAfterStop' /\ LateStart' /\ OneSleeper'
      BY <1>10 DEF CheckCondition, Goto, NoRunAfterStop, LateStart, OneSleeper,
          MutexHeld, JoinProgress, FirstJoinable,
          Joinable, WorkerPC
  <2> QED
      BY <2>1, <2>2, <2>3, <2>4, <2>5 DEF IInv
<1>11. ASSUME NEW w \in Worker, Block(w) PROVE IInv'
  <2>1. TypeOK'
      BY <1>11 DEF Block, Goto, WorkerPC, OwnerPC
  <2>2. MutexHeld' /\ NoFrontOfEmpty'
      BY <1>11 DEF Block, Goto, MutexHeld, NoFrontOfEmpty, WorkerPC
  <2>3. QueueOrder'
      BY <1>11 DEF Block, Goto, QueueOrder
  <2>4. JoinProgress'
      BY <1>11 DEF Block, Goto,
          JoinProgress, FirstJoinable, Joinable, WorkerPC, OwnerPC
  <2>5. NoRunAfterStop' /\ LateStart' /\ OneSleeper'
      BY <1>11 DEF Block, Goto, NoRunAfterStop, LateStart, OneSleeper,
          MutexHeld, JoinProgress, FirstJoinable,
          Joinable, WorkerPC
  <2> QED
      BY <2>1, <2>2, <2>3, <2>4, <2>5 DEF IInv
<1>12. ASSUME NEW w \in Worker, TestStop(w) PROVE IInv'
  <2>1. TypeOK'
      BY <1>12 DEF TestStop, Goto, WorkerPC, OwnerPC
  <2>2. MutexHeld' /\ NoFrontOfEmpty'
      BY <1>12 DEF TestStop, Goto, MutexHeld, NoFrontOfEmpty, WorkerPC
  <2>3. QueueOrder'
      BY <1>12 DEF TestStop, Goto, QueueOrder
  <2>4. JoinProgress'
      BY <1>12 DEF TestStop, Goto,
          JoinProgress, FirstJoinable, Joinable, WorkerPC, OwnerPC
  <2>5. NoRunAfterStop' /\ LateStart' /\ OneSleeper'
      BY <1>12 DEF TestStop, Goto, NoRunAfterStop, LateStart, OneSleeper,
          MutexHeld, JoinProgress, FirstJoinable,
          Joinable, WorkerPC
  <2> QED
      BY <2>1, <2>2, <2>3, <2>4, <2>5 DEF IInv
<1>13. ASSUME NEW w \in Worker, PopTask(w) PROVE IInv'
  <2>0. Head(tasks_) \in Task /\ Tail(tasks_) \in Seq(Task)
      BY <1>13, MoveHead DEF PopTask, Goto, NoFrontOfEmpty
  <2>1. TypeOK'
      BY <1>13, <2>0 DEF PopTask, Goto, WorkerPC, OwnerPC
  <2>2. MutexHeld' /\ NoFrontOfEmpty'
      BY <1>13 DEF PopTask, Goto, MutexHeld, NoFrontOfEmpty, WorkerPC
  <2>3. QueueOrder'
      BY <1>13, MoveHead DEF PopTask, Goto, QueueOrder, NoFrontOfEmpty
  <2>4. JoinProgress'
      BY <1>13 DEF PopTask, Goto,
          JoinProgress, FirstJoinable, Joinable, WorkerPC, OwnerPC
  <2>5. NoRunAfterStop' /\ LateStart' /\ OneSleeper'
      BY <1>13 DEF PopTask, Goto, NoRunAfterStop, LateStart, OneSleeper,
          MutexHeld, JoinProgress, FirstJoinable,
          Joinable, WorkerPC
  <2> QED
      BY <2>1, <2>2, <2>3, <2>4, <2>5 DEF IInv
<1>14. ASSUME NEW w \in Worker, FinishTask(w) PROVE IInv'
  <2>1. TypeOK'
      BY <1>14 DEF FinishTask, Goto, WorkerPC, OwnerPC
  <2>2. MutexHeld' /\ NoFrontOfEmpty'
      BY <1>14 DEF FinishTask, Goto, MutexHeld, NoFrontOfEmpty, WorkerPC
  <2>3. QueueOrder'
      BY <1>14 DEF FinishTask, Goto, QueueOrder
  <2>4. JoinProgress'
      BY <1>14 DEF FinishTask, Goto,
          JoinProgress, FirstJoinable, Joinable, WorkerPC, OwnerPC
  <2>5. NoRunAfterStop' /\ LateStart' /\ OneSleeper'
      BY <1>14 DEF FinishTask, Goto, NoRunAfterStop, LateStart, OneSleeper,
          MutexHeld, JoinProgress, FirstJoinable,
          Joinable, WorkerPC
  <2> QED
      BY <2>1, <2>2, <2>3, <2>4, <2>5 DEF IInv
<1>15. ASSUME NEW w \in Worker, SpuriousWakeup(w) PROVE IInv'
  <2>1. TypeOK'
      BY <1>15 DEF SpuriousWakeup, Wake, Waiters, WorkerPC, OwnerPC
  <2>2. MutexHeld' /\ NoFrontOfEmpty'
      BY <1>15 DEF SpuriousWakeup, Wake, Waiters, MutexHeld, NoFrontOfEmpty, WorkerPC
  <2>3. QueueOrder'
      BY <1>15 DEF SpuriousWakeup, Wake, Waiters, QueueOrder
  <2>4. JoinProgress'
      BY <1>15 DEF SpuriousWakeup, Wake, Waiters,
          JoinProgress, FirstJoinable, Joinable, WorkerPC, OwnerPC
  <2>5. NoRunAfterStop' /\ LateStart' /\ OneSleeper'
      BY <1>15 DEF SpuriousWakeup, Wake, Waiters, NoRunAfterStop, LateStart, OneSleeper,
          MutexHeld, JoinProgress, FirstJoinable,
          Joinable, WorkerPC
  <2> QED
      BY <2>1, <2>2, <2>3, <2>4, <2>5 DEF IInv
<1>16. ASSUME UNCHANGED vars PROVE IInv'
    BY <1>16 DEF vars, MutexHeld, NoFrontOfEmpty, QueueOrder, JoinProgress,
        FirstJoinable, Joinable, NoRunAfterStop, LateStart, OneSleeper
<1> QED
    BY <1>1, <1>2, <1>3, <1>4, <1>5, <1>6, <1>7, <1>8, <1>9, <1>10, <1>11, <1>12, <1>13, <1>14, <1>15, <1>16
    DEF Next, Owner, Post, StopSteps, RunWork

\* IInv is an invariant of the pool.
THEOREM Invariance == Spec => []IInv
    BY InitIInv, NextIInv, PTL DEF Spec

\* The variables of the pool always have their types.
THEOREM TypeCorrect == Spec => []TypeOK
<1>1. IInv => TypeOK
    BY DEF IInv
<1> QED
    BY <1>1, Invariance, PTL

\* RunWork never calls front() on an empty queue.
THEOREM FrontIsThere == Spec => []NoFrontOfEmpty
<1>1. IInv => NoFrontOfEmpty
    BY DEF IInv
<1> QED
    BY <1>1, Invariance, PTL

\* Tasks are taken in the order in which they were pushed, each once.
THEOREM FifoOrder == Spec => []QueueOrder
<1>1. IInv => QueueOrder
    BY DEF IInv
<1> QED
    BY <1>1, Invariance, PTL

\* No task runs once Stop() or Restart() has returned.
THEOREM QuietAfterStop == Spec => []NoRunAfterStop
<1>1. IInv => NoRunAfterStop
    BY DEF IInv
<1> QED
    BY <1>1, Invariance, PTL

\* At most one task starts after stop_ = true.
THEOREM AtMostOneLateStart == Spec => []OneLateStart
<1>1. IInv => OneLateStart
    BY DEF IInv, LateStart, OneLateStart
<1> QED
    BY <1>1, Invariance, PTL

\* At most one worker can miss the notify_all of Stop().
THEOREM AtMostOneSleeper == Spec => []OneSleeper
<1>1. IInv => OneSleeper
    BY DEF IInv
<1> QED
    BY <1>1, Invariance, PTL

\* The initial state of the pool is an initial state of the abstract queue.
LEMMA InitRefines == Init => WQ!WQInit
    BY DEF Init, WQ!WQInit

\* A step of the pool accepts, delivers or discards, or leaves the abstract
\* queue alone.
LEMMA NextRefines == IInv /\ [Next]_vars => [WQ!WQNext]_(WQ!wqvars)
<1> SUFFICES ASSUME IInv, [Next]_vars PROVE [WQ!WQNext]_(WQ!wqvars)
    OBVIOUS
<1> USE DEF WQ!WQNext, WQ!wqvars
<1>1. ASSUME NEW t \in Task, PostPush(t) PROVE WQ!WQNext
    BY <1>1 DEF PostPush, WQ!Accept
<1>2. ASSUME NEW w \in Worker, PopTask(w) PROVE WQ!WQNext
  <2>1. tasks_ # <<>> /\ started \in Seq(Task) /\ tasks_ \in Seq(Task)
      BY <1>2 DEF PopTask, IInv, TypeOK, NoFrontOfEmpty
  <2>2. Len(started) < Len(posted) /\ posted[Len(started) + 1] = Head(tasks_)
      BY <2>1, MoveHead DEF IInv, QueueOrder
  <2> QED
      BY <1>2, <2>2 DEF PopTask, WQ!Deliver
<1>3. ASSUME NEW n \in 0 .. MaxWorkers, Start(n)
      PROVE  WQ!WQNext \/ UNCHANGED WQ!wqvars
    BY <1>3 DEF Start, InitWork, WQ!Discard
<1>4. ASSUME StopReturn PROVE WQ!WQNext \/ UNCHANGED WQ!wqvars
    BY <1>4 DEF StopReturn, InitWork, WQ!Discard
<1>5. ASSUME NEW t \in Task, PostNotify(t) PROVE UNCHANGED WQ!wqvars
    BY <1>5 DEF PostNotify
<1>6. ASSUME \/ \E r \in BOOLEAN : StopBegin(r)
             \/ StopNotify \/ JoinWorker \/ Destroy
      PROVE  UNCHANGED WQ!wqvars
    BY <1>6 DEF StopBegin, StopNotify, JoinWorker, Destroy
<1>7. ASSUME NEW w \in Worker,
             \/ AcquireMutex(w) \/ CheckCondition(w) \/ Block(w)
             \/ TestStop(w) \/ FinishTask(w) \/ SpuriousWakeup(w)
      PROVE  UNCHANGED WQ!wqvars
    BY <1>7 DEF AcquireMutex, CheckCondition, Block, TestStop, FinishTask,
        SpuriousWakeup
<1>8. ASSUME UNCHANGED vars PROVE UNCHANGED WQ!wqvars
    BY <1>8 DEF vars
<1> QED
    BY <1>1, <1>2, <1>3, <1>4, <1>5, <1>6, <1>7, <1>8
    DEF Next, Owner, Post, StopSteps, RunWork

\* The pool implements the abstract queue of work.
THEOREM ImplementsWorkQueue == Spec => QueueSpec
    BY Invariance, InitRefines, NextRefines, PTL DEF Spec, QueueSpec, WQ!WQSpec

=============================================================================
