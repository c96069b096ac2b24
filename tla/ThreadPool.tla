----------------------------- MODULE ThreadPool -----------------------------
(***************************************************************************)
(* threads::ThreadPool (src/src/threads/thread_pool.cpp): a queue of tasks *)
(* guarded by queue_mutex_, a condition variable, a vector of worker       *)
(* threads and the flag stop_, which Stop() writes without the mutex.      *)
(*                                                                         *)
(* Worker i is the thread in slot i of workers_.  One owner thread calls   *)
(* Start, Stop, Restart and the destructor; every task is posted by a      *)
(* thread of its own, so posts interleave freely.  A step of a worker is   *)
(* one access to a shared variable: the evaluation of the loop condition,  *)
(* the call of condition_.wait, the second test of stop_ and the pop are   *)
(* separate, since Stop() may write stop_ between any two of them.         *)
(***************************************************************************)
EXTENDS Naturals, Sequences

CONSTANTS
    MaxWorkers,   \* the largest count_threads given to Start
    Task          \* the tasks; each is posted at most once

ASSUME MaxWorkersAssumption == MaxWorkers \in Nat

Worker == 1 .. MaxWorkers
Nobody == 0

VARIABLES
    stop_,          \* ThreadPool::stop_
    tasks_,         \* ThreadPool::tasks_
    queue_mutex_,   \* the worker that holds queue_mutex_, or Nobody
    size,           \* workers_.size()
    wpc,            \* where each worker is in RunWork
    opc,            \* where the owner thread is
    restarting,     \* the owner is inside Restart
    joining,        \* the loop index i (plus 1) of WaitFinishWork
    ppc,            \* where the thread that posts each task is in Post
    posted,         \* history: the pushed tasks that were not dropped, in order
    started,        \* history: the tasks taken by a worker, in order
    late            \* history: how many of them were taken after stop_ = true

vars == <<stop_, tasks_, queue_mutex_, size, wpc, opc, restarting,
          joining, ppc, posted, started, late>>

WorkerPC == {"off",      \* no thread: never started, or joined
             "lock",     \* about to take queue_mutex_, or woken in wait
             "check",    \* about to evaluate the loop condition
             "block",    \* found it true, about to call condition_.wait
             "waiting",  \* asleep on condition_
             "test",     \* about to test stop_ after the loop
             "pop",      \* about to take the front of tasks_
             "run",      \* inside task()
             "exited"}   \* returned from RunWork, not joined yet

OwnerPC == {"idle", "notify", "join", "aborted", "destroyed"}

TypeOK ==
    /\ stop_ \in BOOLEAN
    /\ tasks_ \in Seq(Task)
    /\ queue_mutex_ \in Worker \cup {Nobody}
    /\ size \in 0 .. MaxWorkers
    /\ wpc \in [Worker -> WorkerPC]
    /\ opc \in OwnerPC
    /\ restarting \in BOOLEAN
    /\ joining \in 1 .. MaxWorkers + 1
    /\ ppc \in [Task -> {"new", "pushed", "done"}]
    /\ posted \in Seq(Task)
    /\ started \in Seq(Task)
    /\ late \in Nat

Init ==
    /\ stop_ = FALSE
    /\ tasks_ = <<>>
    /\ queue_mutex_ = Nobody
    /\ size = 0
    /\ wpc = [w \in Worker |-> "off"]
    /\ opc = "idle"
    /\ restarting = FALSE
    /\ joining = 1
    /\ ppc = [t \in Task |-> "new"]
    /\ posted = <<>>
    /\ started = <<>>
    /\ late = 0

(***************************************************************************)
(* std::thread and std::condition_variable, as the pool uses them.         *)
(***************************************************************************)

\* A std::thread object in slot w can be joined until it has been.
Joinable(w) == wpc[w] # "off"

Waiters == {w \in Worker : wpc[w] = "waiting"}

\* The set W of waiters leaves condition_.wait and competes for the mutex.
Wake(W) == wpc' = [w \in Worker |-> IF w \in W THEN "lock" ELSE wpc[w]]

\* A waiter may also wake by itself.
SpuriousWakeup(w) ==
    /\ wpc[w] = "waiting"
    /\ Wake({w})
    /\ UNCHANGED <<stop_, tasks_, queue_mutex_, size, opc, restarting,
                   joining, ppc, posted, started, late>>

(***************************************************************************)
(* Post: the push under the mutex, then notify_one outside it.             *)
(***************************************************************************)
PostPush(t) ==
    /\ ppc[t] = "new"
    /\ queue_mutex_ = Nobody
    /\ tasks_' = Append(tasks_, t)
    /\ posted' = Append(posted, t)
    /\ ppc' = [ppc EXCEPT ![t] = "pushed"]
    /\ UNCHANGED <<stop_, queue_mutex_, size, wpc, opc, restarting,
                   joining, started, late>>

\* Fault: Post does not notify.
PostNotify_Silent(t) ==
    /\ ppc[t] = "pushed"
    /\ ppc' = [ppc EXCEPT ![t] = "done"]
    /\ UNCHANGED <<stop_, tasks_, queue_mutex_, size, wpc, opc, restarting,
                   joining, posted, started, late>>

PostNotify(t) ==
    /\ ppc[t] = "pushed"
    /\ \/ Waiters = {} /\ UNCHANGED wpc
       \/ \E w \in Waiters : Wake({w})
    /\ ppc' = [ppc EXCEPT ![t] = "done"]
    /\ UNCHANGED <<stop_, tasks_, queue_mutex_, size, opc, restarting,
                   joining, posted, started, late>>

(***************************************************************************)
(* The owner.  InitWork clears workers_, empties tasks_ (without the       *)
(* mutex) and fills n slots with new threads.  workers_.clear() destroys   *)
(* the std::thread objects: one that is still joinable calls               *)
(* std::terminate.                                                         *)
(***************************************************************************)
InitWork(n) ==
    IF \E w \in Worker : Joinable(w)
    THEN /\ opc' = "aborted"
         /\ UNCHANGED <<tasks_, size, wpc, posted>>
    ELSE /\ tasks_' = <<>>
         /\ posted' = started
         /\ size' = n
         /\ wpc' = [w \in Worker |-> IF w <= n THEN "lock" ELSE "off"]
         /\ opc' = "idle"

Start(n) ==
    /\ opc = "idle"
    /\ InitWork(n)
    /\ UNCHANGED <<stop_, queue_mutex_, restarting, joining, ppc,
                   started, late>>

\* Stop() and, with r = TRUE, the Stop() that Restart() begins with.
StopBegin(r) ==
    /\ opc = "idle"
    /\ stop_' = TRUE
    /\ restarting' = r
    /\ opc' = "notify"
    /\ UNCHANGED <<tasks_, queue_mutex_, size, wpc, joining, ppc, posted,
                   started, late>>

StopNotify ==
    /\ opc = "notify"
    /\ Wake(Waiters)
    /\ joining' = 1
    /\ opc' = "join"
    /\ UNCHANGED <<stop_, tasks_, queue_mutex_, size, restarting, ppc,
                   posted, started, late>>

\* join() of a thread that was joined before throws std::system_error, which
\* leaves Stop() and Restart().
JoinWorker ==
    /\ opc = "join"
    /\ joining <= size
    /\ \/ /\ wpc[joining] = "exited"
          /\ wpc' = [wpc EXCEPT ![joining] = "off"]
          /\ joining' = joining + 1
          /\ UNCHANGED opc
       \/ /\ ~Joinable(joining)
          /\ opc' = "idle"
          /\ UNCHANGED <<wpc, joining>>
    /\ UNCHANGED <<stop_, tasks_, queue_mutex_, size, restarting, ppc,
                   posted, started, late>>

StopReturn ==
    /\ opc = "join"
    /\ joining > size
    /\ IF restarting
       THEN InitWork(size)
       ELSE opc' = "idle" /\ UNCHANGED <<tasks_, size, wpc, posted>>
    /\ UNCHANGED <<stop_, queue_mutex_, restarting, joining, ppc,
                   started, late>>

\* The destructor does nothing itself; destroying workers_ terminates the
\* program when a thread is joinable.  Nobody may be inside Post.
Destroy ==
    /\ opc = "idle"
    /\ \A t \in Task : ppc[t] # "pushed"
    /\ opc' = IF \E w \in Worker : Joinable(w) THEN "aborted" ELSE "destroyed"
    /\ UNCHANGED <<stop_, tasks_, queue_mutex_, size, wpc, restarting,
                   joining, ppc, posted, started, late>>

(***************************************************************************)
(* RunWork.                                                                *)
(***************************************************************************)
Goto(w, pc) == wpc' = [wpc EXCEPT ![w] = pc]

AcquireMutex(w) ==
    /\ wpc[w] = "lock"
    /\ queue_mutex_ = Nobody
    /\ queue_mutex_' = w
    /\ Goto(w, "check")
    /\ UNCHANGED <<stop_, tasks_, size, opc, restarting, joining, ppc,
                   posted, started, late>>

CheckCondition(w) ==
    /\ wpc[w] = "check"
    /\ Goto(w, IF ~stop_ /\ tasks_ = <<>> THEN "block" ELSE "test")
    /\ UNCHANGED <<stop_, tasks_, queue_mutex_, size, opc, restarting,
                   joining, ppc, posted, started, late>>

\* condition_.wait releases the mutex and falls asleep in one step.
Block(w) ==
    /\ wpc[w] = "block"
    /\ queue_mutex_' = Nobody
    /\ Goto(w, "waiting")
    /\ UNCHANGED <<stop_, tasks_, size, opc, restarting, joining, ppc,
                   posted, started, late>>

\* Fault: the lock is released before the pop.
TestStop_Unlocks(w) ==
    /\ wpc[w] = "test"
    /\ Goto(w, IF stop_ THEN "exited" ELSE "pop")
    /\ queue_mutex_' = Nobody
    /\ UNCHANGED <<stop_, tasks_, size, opc, restarting, joining, ppc, posted,
                   started, late>>

\* Fault: stop_ is not tested after the loop while tasks are left.
TestStop_Drains(w) ==
    /\ wpc[w] = "test"
    /\ IF stop_ /\ tasks_ = <<>>
       THEN Goto(w, "exited") /\ queue_mutex_' = Nobody
       ELSE Goto(w, "pop") /\ UNCHANGED queue_mutex_
    /\ UNCHANGED <<stop_, tasks_, size, opc, restarting, joining, ppc, posted,
                   started, late>>

\* Fault: "continue" in place of "return".
TestStop_Continues(w) ==
    /\ wpc[w] = "test"
    /\ IF stop_
       THEN Goto(w, "lock") /\ queue_mutex_' = Nobody
       ELSE Goto(w, "pop") /\ UNCHANGED queue_mutex_
    /\ UNCHANGED <<stop_, tasks_, size, opc, restarting, joining, ppc, posted,
                   started, late>>

\* "if (stop_) return;" the unique_lock is released by the return.
TestStop(w) ==
    /\ wpc[w] = "test"
    /\ IF stop_
       THEN Goto(w, "exited") /\ queue_mutex_' = Nobody
       ELSE Goto(w, "pop") /\ UNCHANGED queue_mutex_
    /\ UNCHANGED <<stop_, tasks_, size, opc, restarting, joining, ppc,
                   posted, started, late>>

\* Fault: the queue is used as a stack.
PopTask_Last(w) ==
    /\ wpc[w] = "pop"
    /\ tasks_' = SubSeq(tasks_, 1, Len(tasks_) - 1)
    /\ started' = Append(started, tasks_[Len(tasks_)])
    /\ late' = IF stop_ THEN late + 1 ELSE late
    /\ queue_mutex_' = Nobody
    /\ Goto(w, "run")
    /\ UNCHANGED <<stop_, size, opc, restarting, joining, ppc, posted>>

PopTask(w) ==
    /\ wpc[w] = "pop"
    /\ tasks_' = Tail(tasks_)
    /\ started' = Append(started, Head(tasks_))
    /\ late' = IF stop_ THEN late + 1 ELSE late
    /\ queue_mutex_' = Nobody
    /\ Goto(w, "run")
    /\ UNCHANGED <<stop_, size, opc, restarting, joining, ppc, posted>>

FinishTask(w) ==
    /\ wpc[w] = "run"
    /\ Goto(w, "lock")
    /\ UNCHANGED <<stop_, tasks_, queue_mutex_, size, opc, restarting,
                   joining, ppc, posted, started, late>>

RunWork(w) ==
    \/ AcquireMutex(w)
    \/ CheckCondition(w)
    \/ Block(w)
    \/ TestStop(w)
    \/ PopTask(w)
    \/ FinishTask(w)

(***************************************************************************)
(* The specification.  After std::terminate, or once the pool is gone,     *)
(* nothing moves.                                                          *)
(***************************************************************************)
Alive == opc \notin {"aborted", "destroyed"}

Post(t) == PostPush(t) \/ PostNotify(t)

StopSteps == StopNotify \/ JoinWorker \/ StopReturn

Owner ==
    \/ \E n \in 0 .. MaxWorkers : Start(n)
    \/ \E r \in BOOLEAN : StopBegin(r)
    \/ StopSteps
    \/ Destroy

Next ==
    /\ Alive
    /\ \/ \E t \in Task : Post(t)
       \/ Owner
       \/ \E w \in Worker : RunWork(w) \/ SpuriousWakeup(w)

Spec == Init /\ [][Next]_vars

\* A runnable thread is eventually scheduled and a task eventually returns;
\* nobody has to call Start, Stop or Post, and no wakeup is spurious on demand.
Fairness ==
    /\ \A w \in Worker : WF_vars(Alive /\ RunWork(w))
    /\ \A t \in Task : WF_vars(Alive /\ PostNotify(t))
    /\ WF_vars(Alive /\ StopSteps)

FairSpec == Spec /\ Fairness

(***************************************************************************)
(* Properties.                                                             *)
(***************************************************************************)

\* RunWork holds queue_mutex_ exactly from the lock to the wait, the return
\* or the end of the block, so at most one worker is in that region.
MutexHeld ==
    \A w \in Worker :
        (queue_mutex_ = w) <=> (wpc[w] \in {"check", "block", "test", "pop"})

\* RunWork calls tasks_.front() only when there is a front: between the loop
\* condition and the pop nobody can take the task away, whatever the order
\* of posts, wakeups, other workers and Stop.
NoFrontOfEmpty ==
    \A w \in Worker :
        (wpc[w] = "pop" \/ (wpc[w] = "test" /\ ~stop_)) => tasks_ # <<>>

\* tasks_ holds exactly the pushed tasks no worker has taken, in the order
\* of the pushes: RunWork takes them in FIFO order, each once.
QueueOrder == posted = started \o tasks_

\* When Stop() or Restart() has returned, no task is running, and no
\* worker is on its way to one, although Restart() and a later Start()
\* create new workers: stop_ is never reset.
NoRunAfterStop ==
    opc = "idle" /\ stop_ =>
        \A w \in Worker : wpc[w] \notin {"pop", "run", "block", "waiting"}

\* Stop() writes stop_ without the mutex, so a worker that passed its test
\* may still take a task after it, but it holds the mutex: one task at most
\* is started after stop_ = true, by all workers together.
OneLateStart == late <= 1

\* A worker that evaluated the loop condition before stop_ = true and calls
\* wait after notify_all sleeps through Stop() (join then never returns).
\* It holds the mutex in between, so only one worker can be caught.
OneSleeper ==
    stop_ /\ opc # "notify" =>
        \A v, w \in Worker :
            wpc[v] \in {"block", "waiting"} /\ wpc[w] \in {"block", "waiting"}
            => v = w

\* The slots of workers_ beyond its size are empty, the joined ones too, and
\* the others are all joinable or all joined: join() throws only for the
\* first slot, and Restart() never finds a joinable thread in workers_.clear().
FirstJoinable == IF opc = "join" THEN joining ELSE 1
JoinProgress ==
    /\ opc = "join" => stop_ /\ joining <= size + 1
    /\ opc = "notify" => stop_
    /\ \A w \in Worker : w > size \/ w < FirstJoinable => ~Joinable(w)
    /\ \/ \A w \in Worker : FirstJoinable <= w /\ w <= size => Joinable(w)
       \/ \A w \in Worker : ~Joinable(w)

\* Why OneLateStart is inductive: the one worker that can be past its test
\* when stop_ is set uses up the only late start.
LateStart ==
    \/ late = 0
    \/ late = 1 /\ stop_ /\ \A w \in Worker : wpc[w] # "pop"

\* What every step of the pool preserves: the mutex is held by the worker
\* that is between lock and wait or pop, front() is never taken of an empty
\* queue although several workers compete for it, tasks leave it in the order
\* of Post, each once, and Stop() without the mutex catches one worker at most.
IInv ==
    /\ TypeOK
    /\ MutexHeld
    /\ NoFrontOfEmpty
    /\ QueueOrder
    /\ JoinProgress
    /\ NoRunAfterStop
    /\ LateStart
    /\ OneSleeper

\* tasks_ implements the abstract queue: InitWork discards what is pending.
WQ == INSTANCE WorkQueue WITH Item <- Task, accepted <- posted, delivered <- started
QueueSpec == WQ!WQSpec

\* A posted task that finds workers is started, unless the pool is stopped,
\* the program aborted or the queue emptied by a new Start: no
\* notify_one is lost between Post and RunWork.
Queued(t) == \E i \in 1 .. Len(tasks_) : tasks_[i] = t
PostedIsStarted ==
    \A t \in Task :
        Queued(t) /\ size > 0 ~> ~Queued(t) \/ stop_ \/ ~Alive

\* Stop() returns once the running tasks do, unless it left a worker asleep
\* on condition_ for ever: the lost wakeup is the only way for it to hang.
StopReturnsOrSleeper ==
    opc = "join" ~> opc # "join" \/ [](Waiters # {})

=============================================================================
