----------------------------- MODULE ThreadPool -----------------------------
(***************************************************************************)
(* util::ThreadPool (src/threadpool/threadpool.h): a FIFO of tasks_ and    *)
(* the flag stop_ under queue_mutex_, one condition variable, a fixed set  *)
(* of workers, callers of Enqueue (client threads, and tasks that enqueue  *)
(* from inside a worker) and the owner, who runs the destructor.           *)
(*                                                                         *)
(* Every access to tasks_ and stop_ is made under queue_mutex_, so one     *)
(* critical section is one step.  notify_one and notify_all run after the  *)
(* unlock and are steps of their own.                                      *)
(***************************************************************************)
EXTENDS Naturals, Sequences, FiniteSets

CONSTANTS Workers,   \* the threads the constructor launches
          Clients,   \* threads outside the pool that call Enqueue
          Tasks,     \* task identities; each is handed to Enqueue at most once
          Awaits,    \* Awaits[t]: the tasks whose futures task t waits for
          None       \* no task

\* A pool of size 0 never runs anything: the properties are about pools with
\* a worker.  The identities are kept apart.
ASSUME ThreadAssumption == /\ Workers # {}
                           /\ Workers \cap Clients = {}
                           /\ None \notin Tasks
                           /\ Awaits \in [Tasks -> SUBSET Tasks]

VARIABLES
  tasks,     \* tasks_: the queue
  stop,      \* stop_
  wpc,       \* worker: "lock" (about to take the mutex and test the predicate),
             \* "waiting" (blocked in condition_.wait), "run", "exited"
  cur,       \* the task a worker has popped and runs
  call,      \* caller of Enqueue: "none", "lock" (task and future made),
             \* "notify" (task queued, mutex released)
  arg,       \* the task a caller is enqueueing
  future,    \* "unused", "pending", "value", "exception", "rejected"
  owner,     \* "use", "notify" (stop_ set), "join", "destroyed"
  accepted,  \* history: tasks in the order they entered tasks_
  started    \* history: tasks in the order workers popped them

vars == <<tasks, stop, wpc, cur, call, arg, future, owner, accepted, started>>

Callers == Workers \cup Clients

WithPc(s) == {w \in Workers : wpc[w] = s}

\* The workers are launched by the constructor with stop_ = false.
Init == /\ tasks = <<>>
        /\ stop = FALSE
        /\ wpc = [w \in Workers |-> "lock"]
        /\ cur = [w \in Workers |-> None]
        /\ call = [c \in Callers |-> "none"]
        /\ arg = [c \in Callers |-> None]
        /\ future = [t \in Tasks |-> "unused"]
        /\ owner = "use"
        /\ accepted = <<>>
        /\ started = <<>>
-----------------------------------------------------------------------------
(***************************************************************************)
(* Workers.                                                                *)
(***************************************************************************)

\* The predicate of condition_.wait.
Predicate == stop \/ tasks # <<>>

\* MUTANT: condition_.wait(lock) without a predicate.
Wait_NoPredicate(w) ==
  /\ wpc[w] = "lock"
  /\ wpc' = [wpc EXCEPT ![w] = "waiting"]
  /\ UNCHANGED <<tasks, stop, cur, call, arg, future, owner, accepted, started>>

\* The predicate is false: release the mutex and block, in one step.
Wait(w) == /\ wpc[w] = "lock"
           /\ ~Predicate
           /\ wpc' = [wpc EXCEPT ![w] = "waiting"]
           /\ UNCHANGED <<tasks, stop, cur, call, arg, future, owner,
                          accepted, started>>

\* A waiting thread may wake up without a notification.
SpuriousWakeup(w) == /\ wpc[w] = "waiting"
                     /\ wpc' = [wpc EXCEPT ![w] = "lock"]
                     /\ UNCHANGED <<tasks, stop, cur, call, arg, future,
                                    owner, accepted, started>>

\* if (stop_ && tasks_.empty()) return;
Exit(w) == /\ wpc[w] = "lock"
           /\ stop /\ tasks = <<>>
           /\ wpc' = [wpc EXCEPT ![w] = "exited"]
           /\ UNCHANGED <<tasks, stop, cur, call, arg, future, owner,
                          accepted, started>>

\* MUTANT: pop the back of the queue.
Pop_Back(w) ==
  /\ wpc[w] = "lock"
  /\ tasks # <<>>
  /\ tasks' = SubSeq(tasks, 1, Len(tasks) - 1)
  /\ cur' = [cur EXCEPT ![w] = tasks[Len(tasks)]]
  /\ started' = Append(started, tasks[Len(tasks)])
  /\ wpc' = [wpc EXCEPT ![w] = "run"]
  /\ UNCHANGED <<stop, call, arg, future, owner, accepted>>

\* Pop the front of the queue.
Pop(w) == /\ wpc[w] = "lock"
          /\ tasks # <<>>
          /\ tasks' = Tail(tasks)
          /\ cur' = [cur EXCEPT ![w] = Head(tasks)]
          /\ started' = Append(started, Head(tasks))
          /\ wpc' = [wpc EXCEPT ![w] = "run"]
          /\ UNCHANGED <<stop, call, arg, future, owner, accepted>>

\* The task of worker w has called get() on a future that is not ready.
Blocked(w) == /\ wpc[w] = "run"
              /\ \E t \in Awaits[cur[w]] : future[t] = "pending"

\* task() returns or throws; the packaged_task stores either in the future.
Finish(w) == /\ wpc[w] = "run"
             /\ call[w] = "none"
             /\ ~Blocked(w)
             /\ \E r \in {"value", "exception"} :
                   future' = [future EXCEPT ![cur[w]] = r]
             /\ wpc' = [wpc EXCEPT ![w] = "lock"]
             /\ cur' = [cur EXCEPT ![w] = None]
             /\ UNCHANGED <<tasks, stop, call, arg, owner, accepted, started>>
-----------------------------------------------------------------------------
(***************************************************************************)
(* Enqueue.  A client calls it while the pool is alive and its owner has   *)
(* not begun to destroy it, as the lifetime of a C++ object demands; a     *)
(* running task may call it at any time, also while the destructor waits.  *)
(***************************************************************************)

MayCall(c) == IF c \in Workers THEN wpc[c] = "run" ELSE owner = "use"

\* Make the packaged_task and its future.
EnqueueBegin(c, t) == /\ MayCall(c)
                      /\ call[c] = "none"
                      /\ future[t] = "unused"
                      /\ future' = [future EXCEPT ![t] = "pending"]
                      /\ call' = [call EXCEPT ![c] = "lock"]
                      /\ arg' = [arg EXCEPT ![c] = t]
                      /\ UNCHANGED <<tasks, stop, wpc, cur, owner, accepted,
                                     started>>

\* MUTANT: notify_one is forgotten.
EnqueuePush_NoNotify(c) ==
  /\ call[c] = "lock"
  /\ ~stop
  /\ tasks' = Append(tasks, arg[c])
  /\ accepted' = Append(accepted, arg[c])
  /\ call' = [call EXCEPT ![c] = "none"]
  /\ UNCHANGED <<stop, wpc, cur, arg, future, owner, started>>

\* The critical section, pool running: the task enters the queue.
EnqueuePush(c) == /\ call[c] = "lock"
                  /\ ~stop
                  /\ tasks' = Append(tasks, arg[c])
                  /\ accepted' = Append(accepted, arg[c])
                  /\ call' = [call EXCEPT ![c] = "notify"]
                  /\ UNCHANGED <<stop, wpc, cur, arg, future, owner, started>>

\* The critical section, pool stopped: throw; the task is dropped unrun.
EnqueueThrow(c) == /\ call[c] = "lock"
                   /\ stop
                   /\ future' = [future EXCEPT ![arg[c]] = "rejected"]
                   /\ call' = [call EXCEPT ![c] = "none"]
                   /\ arg' = [arg EXCEPT ![c] = None]
                   /\ UNCHANGED <<tasks, stop, wpc, cur, owner, accepted,
                                  started>>

\* notify_one wakes one waiting worker, or nobody when none waits.
NotifyOne(c) == /\ call[c] = "notify"
                /\ \/ /\ WithPc("waiting") = {}
                      /\ UNCHANGED wpc
                   \/ \E w \in WithPc("waiting") :
                         wpc' = [wpc EXCEPT ![w] = "lock"]
                /\ call' = [call EXCEPT ![c] = "none"]
                /\ arg' = [arg EXCEPT ![c] = None]
                /\ UNCHANGED <<tasks, stop, cur, future, owner, accepted,
                               started>>
-----------------------------------------------------------------------------
(***************************************************************************)
(* The destructor, run by the owner once no client is inside Enqueue.      *)
(***************************************************************************)

Stop == /\ owner = "use"
        /\ \A c \in Clients : call[c] = "none"
        /\ stop' = TRUE
        /\ owner' = "notify"
        /\ UNCHANGED <<tasks, wpc, cur, call, arg, future, accepted, started>>

\* MUTANT: the destructor calls notify_one.
NotifyAll_One ==
  /\ owner = "notify"
  /\ \/ WithPc("waiting") = {} /\ UNCHANGED wpc
     \/ \E w \in WithPc("waiting") : wpc' = [wpc EXCEPT ![w] = "lock"]
  /\ owner' = "join"
  /\ UNCHANGED <<tasks, stop, cur, call, arg, future, accepted, started>>

NotifyAll == /\ owner = "notify"
             /\ wpc' = [w \in Workers |->
                          IF wpc[w] = "waiting" THEN "lock" ELSE wpc[w]]
             /\ owner' = "join"
             /\ UNCHANGED <<tasks, stop, cur, call, arg, future, accepted,
                            started>>

\* MUTANT: only one worker is joined.
Join_One ==
  /\ owner = "join"
  /\ \E w \in Workers : wpc[w] = "exited"
  /\ owner' = "destroyed"
  /\ UNCHANGED <<tasks, stop, wpc, cur, call, arg, future, accepted, started>>

\* join() has returned for every worker.
Join == /\ owner = "join"
        /\ \A w \in Workers : wpc[w] = "exited"
        /\ owner' = "destroyed"
        /\ UNCHANGED <<tasks, stop, wpc, cur, call, arg, future, accepted,
                       started>>
-----------------------------------------------------------------------------
WorkerStep(w) == Wait(w) \/ Exit(w) \/ Pop(w) \/ Finish(w)

EnqueueStep(c) == EnqueuePush(c) \/ EnqueueThrow(c) \/ NotifyOne(c)

OwnerStep == NotifyAll \/ Join

\* Every worker is occupied by a task that waits for another task.
Starved == \A w \in Workers : Blocked(w)

\* The pool is gone, or hangs for good: the behaviour ends.
Terminated == (owner = "destroyed" \/ Starved) /\ UNCHANGED vars

Next == \/ \E w \in Workers : WorkerStep(w) \/ SpuriousWakeup(w)
        \/ \E c \in Callers : EnqueueStep(c)
        \/ \E c \in Callers, t \in Tasks : EnqueueBegin(c, t)
        \/ Stop
        \/ OwnerStep
        \/ Terminated

Spec == Init /\ [][Next]_vars

\* Threads that can run do run, tasks end, and a thread that asks for the
\* mutex gets it.  Nobody is obliged to call Enqueue or to destroy the pool.
Fairness == /\ \A w \in Workers : WF_vars(WorkerStep(w))
            /\ \A c \in Callers : WF_vars(EnqueueStep(c))
            /\ WF_vars(OwnerStep)

FairSpec == Spec /\ Fairness
-----------------------------------------------------------------------------
(***************************************************************************)
(* Properties.                                                             *)
(***************************************************************************)

\* The type invariant of the pool's fields and of the threads around it.
TypeOK ==
  /\ tasks \in Seq(Tasks)
  /\ stop \in BOOLEAN
  /\ wpc \in [Workers -> {"lock", "waiting", "run", "exited"}]
  /\ cur \in [Workers -> Tasks \cup {None}]
  /\ call \in [Callers -> {"none", "lock", "notify"}]
  /\ arg \in [Callers -> Tasks \cup {None}]
  /\ future \in [Tasks -> {"unused", "pending", "value", "exception",
                           "rejected"}]
  /\ owner \in {"use", "notify", "join", "destroyed"}
  /\ accepted \in Seq(Tasks)
  /\ started \in Seq(Tasks)

\* Tasks are started in the order Enqueue accepted them, none twice and none
\* dropped: what was accepted is what was started followed by what is queued.
FifoExactlyOnce ==
  /\ accepted = started \o tasks
  /\ \A i, j \in 1..Len(accepted) : accepted[i] = accepted[j] => i = j

\* notify_one runs after the mutex is released; still no wakeup is lost: a
\* queued task always finds a worker that is up, or a notification on its way.
NoLostWakeup ==
  tasks # <<>> => \/ \E w \in Workers : wpc[w] \in {"lock", "run"}
                  \/ \E c \in Callers : call[c] = "notify"

\* Once the destructor has called notify_all no worker sleeps, so join()
\* never waits for a thread that nobody will wake.
NoSleeperAtJoin ==
  owner \in {"join", "destroyed"} => WithPc("waiting") = {}

\* The destructor is a synchronisation point: when it returns, the queue is
\* empty and every accepted task has its outcome, also the tasks that were
\* enqueued by tasks while the destructor was waiting.
DrainedAtDestruction ==
  owner = "destroyed" => /\ tasks = <<>>
                         /\ \A t \in Tasks : future[t] # "pending"

\* Every future handed out becomes ready, also when some workers are occupied
\* by tasks that wait for others; only a pool in which every worker runs such
\* a task is at a standstill.
EveryFutureReady ==
  \A t \in Tasks : future[t] = "pending" ~> future[t] # "pending" \/ Starved

\* A destructor that has begun returns, with the same exception.
DestructorReturns == stop ~> owner = "destroyed" \/ Starved

\* The pool implements the promise of module Executor.
Promise == INSTANCE Executor
             WITH status <- future,
                  phase <- CASE owner = "use" -> "open"
                             [] owner \in {"notify", "join"} -> "closing"
                             [] owner = "destroyed" -> "gone"
ImplementsExecutor == Promise!Spec
=============================================================================
