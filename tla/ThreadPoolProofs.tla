-------------------------- MODULE ThreadPoolProofs --------------------------
(***************************************************************************)
(* Proofs about ThreadPool, for any sets of workers, clients and tasks.    *)
(***************************************************************************)
EXTENDS ThreadPool, SequenceTheorems, TLAPS

(***************************************************************************)
(* The inductive invariant.  A task whose outcome is open is in exactly    *)
(* one place: with a caller that has not yet taken the mutex, in tasks_,   *)
(* or with the worker that runs it.                                        *)
(***************************************************************************)
Calling(c, t) == call[c] = "lock" /\ arg[c] = t
Queued(t) == \E i \in 1..Len(tasks) : tasks[i] = t
Running(w, t) == wpc[w] = "run" /\ cur[w] = t

OpenTaskIsSomewhere ==
  \A t \in Tasks : future[t] = "pending" =>
     \/ \E c \in Callers : Calling(c, t)
     \/ Queued(t)
     \/ \E w \in Workers : Running(w, t)

PlacesHoldOpenTasks ==
  /\ \A c \in Callers : call[c] = "lock" =>
        arg[c] \in Tasks /\ future[arg[c]] = "pending"
  /\ \A i \in 1..Len(tasks) : future[tasks[i]] = "pending"
  /\ \A w \in Workers : wpc[w] = "run" =>
        cur[w] \in Tasks /\ future[cur[w]] = "pending"

PlacesAreDisjoint ==
  /\ \A c, d \in Callers :
        call[c] = "lock" /\ call[d] = "lock" /\ arg[c] = arg[d] => c = d
  /\ \A i, j \in 1..Len(tasks) : tasks[i] = tasks[j] => i = j
  /\ \A v, w \in Workers :
        wpc[v] = "run" /\ wpc[w] = "run" /\ cur[v] = cur[w] => v = w
  /\ \A c \in Callers : call[c] = "lock" => ~Queued(arg[c])
  /\ \A c \in Callers, w \in Workers :
        call[c] = "lock" /\ wpc[w] = "run" => arg[c] # cur[w]
  /\ \A w \in Workers : wpc[w] = "run" => ~Queued(cur[w])

OwnerOrder ==
  /\ stop <=> owner # "use"
  /\ owner = "destroyed" => \A w \in Workers : wpc[w] = "exited"
  /\ \A c \in Clients : call[c] # "none" => owner = "use"
  /\ \A w \in Workers : call[w] # "none" => wpc[w] = "run"

ExitedMeansDrained ==
  \A w \in Workers : wpc[w] = "exited" => stop /\ tasks = <<>>

Inv == /\ TypeOK
       /\ OwnerOrder
       /\ ExitedMeansDrained
       /\ NoLostWakeup
       /\ NoSleeperAtJoin
       /\ OpenTaskIsSomewhere
       /\ PlacesHoldOpenTasks
       /\ PlacesAreDisjoint
-----------------------------------------------------------------------------
\* The tail of a non-empty queue is the queue moved up by one place.
LEMMA TailShift ==
  ASSUME NEW S, NEW q \in Seq(S), q # <<>>
  PROVE  /\ Head(q) \in S
         /\ Head(q) = q[1]
         /\ Tail(q) \in Seq(S)
         /\ Len(q) \in Nat /\ Len(q) > 0
         /\ Len(Tail(q)) = Len(q) - 1
         /\ \A i \in 1..Len(Tail(q)) : Tail(q)[i] = q[i + 1]
  OBVIOUS

\* The invariant holds initially.
LEMMA InitInv == Init => Inv
<1> SUFFICES ASSUME Init PROVE Inv
  OBVIOUS
<1> USE DEF Init
<1>1. TypeOK
  <2>1. tasks \in Seq(Tasks) /\ accepted \in Seq(Tasks) /\ started \in Seq(Tasks)
    OBVIOUS
  <2>2. cur \in [Workers -> Tasks \cup {None}] /\ arg \in [Callers -> Tasks \cup {None}]
    OBVIOUS
  <2> QED BY <2>1, <2>2 DEF TypeOK
<1>2. OwnerOrder /\ ExitedMeansDrained
  BY DEF OwnerOrder, ExitedMeansDrained, Callers
<1>3. NoLostWakeup /\ NoSleeperAtJoin
  BY DEF NoLostWakeup, NoSleeperAtJoin, WithPc
<1>4. OpenTaskIsSomewhere /\ PlacesHoldOpenTasks /\ PlacesAreDisjoint
  BY DEF OpenTaskIsSomewhere, PlacesHoldOpenTasks, PlacesAreDisjoint,
     Queued, Callers
<1> QED BY <1>1, <1>2, <1>3, <1>4 DEF Inv

\* Blocking in condition_.wait preserves the invariant.
LEMMA WaitInv ==
  ASSUME Inv, NEW w \in Workers, Wait(w)
  PROVE  Inv'
<1> USE ThreadAssumption DEF Inv, Wait
<1>1. TypeOK'
  BY DEF TypeOK
<1>2. OwnerOrder'
  BY DEF OwnerOrder, TypeOK, Callers
<1>3. ExitedMeansDrained'
  BY DEF ExitedMeansDrained, OwnerOrder, TypeOK
<1>4. NoLostWakeup'
  BY DEF NoLostWakeup, ExitedMeansDrained, OwnerOrder, TypeOK, WithPc,
     Predicate, Callers
<1>5. NoSleeperAtJoin'
  BY DEF NoSleeperAtJoin, OwnerOrder, TypeOK, WithPc, Predicate
<1>6. OpenTaskIsSomewhere'
  BY DEF OpenTaskIsSomewhere, PlacesHoldOpenTasks, PlacesAreDisjoint,
     OwnerOrder, Calling, Queued, Running, TypeOK, Callers
<1>7. PlacesHoldOpenTasks'
  BY DEF PlacesHoldOpenTasks, PlacesAreDisjoint, OwnerOrder, Queued, TypeOK,
     Callers
<1>8. PlacesAreDisjoint'
  BY DEF PlacesAreDisjoint, PlacesHoldOpenTasks, OwnerOrder, Queued, TypeOK,
     Callers
<1> QED BY <1>1, <1>2, <1>3, <1>4, <1>5, <1>6, <1>7, <1>8

\* A worker's return preserves the invariant.
LEMMA ExitInv ==
  ASSUME Inv, NEW w \in Workers, Exit(w)
  PROVE  Inv'
<1> USE ThreadAssumption DEF Inv, Exit
<1>1. TypeOK'
  BY DEF TypeOK
<1>2. OwnerOrder'
  BY DEF OwnerOrder, TypeOK, Callers
<1>3. ExitedMeansDrained'
  BY DEF ExitedMeansDrained, OwnerOrder, TypeOK
<1>4. NoLostWakeup'
  BY DEF NoLostWakeup, ExitedMeansDrained, OwnerOrder, TypeOK, WithPc,
     Predicate, Callers
<1>5. NoSleeperAtJoin'
  BY DEF NoSleeperAtJoin, OwnerOrder, TypeOK, WithPc, Predicate
<1>6. OpenTaskIsSomewhere'
  BY DEF OpenTaskIsSomewhere, PlacesHoldOpenTasks, PlacesAreDisjoint,
     OwnerOrder, Calling, Queued, Running, TypeOK, Callers
<1>7. PlacesHoldOpenTasks'
  BY DEF PlacesHoldOpenTasks, PlacesAreDisjoint, OwnerOrder, Queued, TypeOK,
     Callers
<1>8. PlacesAreDisjoint'
  BY DEF PlacesAreDisjoint, PlacesHoldOpenTasks, OwnerOrder, Queued, TypeOK,
     Callers
<1> QED BY <1>1, <1>2, <1>3, <1>4, <1>5, <1>6, <1>7, <1>8

\* The end of a task preserves the invariant.
LEMMA FinishInv ==
  ASSUME Inv, NEW w \in Workers, Finish(w)
  PROVE  Inv'
<1> USE ThreadAssumption DEF Inv, Finish
<1>1. TypeOK'
  BY DEF TypeOK
<1>2. OwnerOrder'
  BY DEF OwnerOrder, TypeOK, Callers
<1>3. ExitedMeansDrained'
  BY DEF ExitedMeansDrained, OwnerOrder, TypeOK
<1>4. NoLostWakeup'
  BY DEF NoLostWakeup, ExitedMeansDrained, OwnerOrder, TypeOK, WithPc,
     Predicate, Callers
<1>5. NoSleeperAtJoin'
  BY DEF NoSleeperAtJoin, OwnerOrder, TypeOK, WithPc, Predicate
<1>6. OpenTaskIsSomewhere'
  BY DEF OpenTaskIsSomewhere, PlacesHoldOpenTasks, PlacesAreDisjoint,
     OwnerOrder, Calling, Queued, Running, TypeOK, Callers
<1>7. PlacesHoldOpenTasks'
  BY DEF PlacesHoldOpenTasks, PlacesAreDisjoint, OwnerOrder, Queued, TypeOK,
     Callers
<1>8. PlacesAreDisjoint'
  BY DEF PlacesAreDisjoint, PlacesHoldOpenTasks, OwnerOrder, Queued, TypeOK,
     Callers
<1> QED BY <1>1, <1>2, <1>3, <1>4, <1>5, <1>6, <1>7, <1>8

\* A spurious wakeup preserves the invariant.
LEMMA SpuriousWakeupInv ==
  ASSUME Inv, NEW w \in Workers, SpuriousWakeup(w)
  PROVE  Inv'
<1> USE ThreadAssumption DEF Inv, SpuriousWakeup
<1>1. TypeOK'
  BY DEF TypeOK
<1>2. OwnerOrder'
  BY DEF OwnerOrder, TypeOK, Callers
<1>3. ExitedMeansDrained'
  BY DEF ExitedMeansDrained, OwnerOrder, TypeOK
<1>4. NoLostWakeup'
  BY DEF NoLostWakeup, ExitedMeansDrained, OwnerOrder, TypeOK, WithPc,
     Predicate, Callers
<1>5. NoSleeperAtJoin'
  BY DEF NoSleeperAtJoin, OwnerOrder, TypeOK, WithPc, Predicate
<1>6. OpenTaskIsSomewhere'
  BY DEF OpenTaskIsSomewhere, PlacesHoldOpenTasks, PlacesAreDisjoint,
     OwnerOrder, Calling, Queued, Running, TypeOK, Callers
<1>7. PlacesHoldOpenTasks'
  BY DEF PlacesHoldOpenTasks, PlacesAreDisjoint, OwnerOrder, Queued, TypeOK,
     Callers
<1>8. PlacesAreDisjoint'
  BY DEF PlacesAreDisjoint, PlacesHoldOpenTasks, OwnerOrder, Queued, TypeOK,
     Callers
<1> QED BY <1>1, <1>2, <1>3, <1>4, <1>5, <1>6, <1>7, <1>8

\* The start of Enqueue preserves the invariant.
LEMMA EnqueueBeginInv ==
  ASSUME Inv, NEW c \in Callers, NEW t \in Tasks, EnqueueBegin(c, t)
  PROVE  Inv'
<1> USE ThreadAssumption DEF Inv, EnqueueBegin, MayCall
<1>1. TypeOK'
  BY DEF TypeOK
<1>2. OwnerOrder'
  BY DEF OwnerOrder, TypeOK, Callers
<1>3. ExitedMeansDrained'
  BY DEF ExitedMeansDrained, OwnerOrder, TypeOK
<1>4. NoLostWakeup'
  BY DEF NoLostWakeup, ExitedMeansDrained, OwnerOrder, TypeOK, WithPc,
     Predicate, Callers
<1>5. NoSleeperAtJoin'
  BY DEF NoSleeperAtJoin, OwnerOrder, TypeOK, WithPc, Predicate
<1>6. OpenTaskIsSomewhere'
  BY DEF OpenTaskIsSomewhere, PlacesHoldOpenTasks, PlacesAreDisjoint,
     OwnerOrder, Calling, Queued, Running, TypeOK, Callers
<1>7. PlacesHoldOpenTasks'
  BY DEF PlacesHoldOpenTasks, PlacesAreDisjoint, OwnerOrder, Queued, TypeOK,
     Callers
<1>8. PlacesAreDisjoint'
  BY DEF PlacesAreDisjoint, PlacesHoldOpenTasks, OwnerOrder, Queued, TypeOK,
     Callers
<1> QED BY <1>1, <1>2, <1>3, <1>4, <1>5, <1>6, <1>7, <1>8

\* An Enqueue that throws preserves the invariant.
LEMMA EnqueueThrowInv ==
  ASSUME Inv, NEW c \in Callers, EnqueueThrow(c)
  PROVE  Inv'
<1> USE ThreadAssumption DEF Inv, EnqueueThrow
<1>1. TypeOK'
  BY DEF TypeOK
<1>2. OwnerOrder'
  BY DEF OwnerOrder, TypeOK, Callers
<1>3. ExitedMeansDrained'
  BY DEF ExitedMeansDrained, OwnerOrder, TypeOK
<1>4. NoLostWakeup'
  BY DEF NoLostWakeup, ExitedMeansDrained, OwnerOrder, TypeOK, WithPc,
     Predicate, Callers
<1>5. NoSleeperAtJoin'
  BY DEF NoSleeperAtJoin, OwnerOrder, TypeOK, WithPc, Predicate
<1>6. OpenTaskIsSomewhere'
  BY DEF OpenTaskIsSomewhere, PlacesHoldOpenTasks, PlacesAreDisjoint,
     OwnerOrder, Calling, Queued, Running, TypeOK, Callers
<1>7. PlacesHoldOpenTasks'
  BY DEF PlacesHoldOpenTasks, PlacesAreDisjoint, OwnerOrder, Queued, TypeOK,
     Callers
<1>8. PlacesAreDisjoint'
  BY DEF PlacesAreDisjoint, PlacesHoldOpenTasks, OwnerOrder, Queued, TypeOK,
     Callers
<1> QED BY <1>1, <1>2, <1>3, <1>4, <1>5, <1>6, <1>7, <1>8

\* notify_one preserves the invariant.
LEMMA NotifyOneInv ==
  ASSUME Inv, NEW c \in Callers, NotifyOne(c)
  PROVE  Inv'
<1> USE ThreadAssumption DEF Inv, NotifyOne
<1>1. TypeOK'
  BY DEF TypeOK
<1>2. OwnerOrder'
  <2>1. CASE UNCHANGED wpc
    BY <2>1 DEF OwnerOrder, TypeOK, Callers
  <2>2. CASE \E w \in WithPc("waiting") : wpc' = [wpc EXCEPT ![w] = "lock"]
    BY <2>2 DEF OwnerOrder, TypeOK, Callers, WithPc
  <2> QED BY <2>1, <2>2
<1>3. ExitedMeansDrained'
  BY DEF ExitedMeansDrained, OwnerOrder, TypeOK
<1>4. NoLostWakeup'
  BY DEF NoLostWakeup, ExitedMeansDrained, OwnerOrder, TypeOK, WithPc,
     Predicate, Callers
<1>5. NoSleeperAtJoin'
  BY DEF NoSleeperAtJoin, OwnerOrder, TypeOK, WithPc, Predicate
<1>a. \A w \in Workers : wpc'[w] = "run" <=> wpc[w] = "run"
  BY DEF TypeOK, WithPc
<1>b. \A d \in Callers : /\ call'[d] = "lock" <=> call[d] = "lock"
                         /\ call[d] = "lock" => arg'[d] = arg[d]
  BY DEF TypeOK
<1>6. OpenTaskIsSomewhere'
  BY <1>a, <1>b DEF OpenTaskIsSomewhere, Calling, Queued, Running
<1>7. PlacesHoldOpenTasks'
  BY DEF PlacesHoldOpenTasks, PlacesAreDisjoint, OwnerOrder, Queued, TypeOK,
     Callers
<1>8. PlacesAreDisjoint'
  BY <1>a, <1>b DEF PlacesAreDisjoint, PlacesHoldOpenTasks, OwnerOrder,
     Queued, TypeOK, Callers
<1> QED BY <1>1, <1>2, <1>3, <1>4, <1>5, <1>6, <1>7, <1>8

\* An Enqueue that queues its task preserves the invariant.
LEMMA EnqueuePushInv ==
  ASSUME Inv, NEW c \in Callers, EnqueuePush(c)
  PROVE  Inv'
<1> USE ThreadAssumption DEF Inv, EnqueuePush
<1>a. arg[c] \in Tasks
  BY DEF PlacesHoldOpenTasks
<1>b. /\ tasks' \in Seq(Tasks) /\ accepted' \in Seq(Tasks)
      /\ Len(tasks) \in Nat
      /\ Len(tasks') = Len(tasks) + 1
      /\ \A i \in 1..Len(tasks) : tasks'[i] = tasks[i]
      /\ tasks'[Len(tasks')] = arg[c]
  BY <1>a DEF TypeOK
<1>1. TypeOK'
  BY <1>b DEF TypeOK
<1>2. OwnerOrder'
  BY DEF OwnerOrder, TypeOK, Callers
<1>3. ExitedMeansDrained'
  BY DEF ExitedMeansDrained, OwnerOrder, TypeOK
<1>4. NoLostWakeup'
  BY DEF NoLostWakeup, ExitedMeansDrained, OwnerOrder, TypeOK, WithPc,
     Predicate, Callers
<1>5. NoSleeperAtJoin'
  BY DEF NoSleeperAtJoin, OwnerOrder, TypeOK, WithPc, Predicate
<1>6. OpenTaskIsSomewhere'
  <2> SUFFICES ASSUME NEW t \in Tasks, future[t] = "pending"
               PROVE  (\/ \E d \in Callers : Calling(d, t)
                       \/ Queued(t)
                       \/ \E w \in Workers : Running(w, t))'
    BY DEF OpenTaskIsSomewhere
  <2>1. CASE Calling(c, t)
    BY <1>b, <2>1 DEF Calling, Queued
  <2>2. ASSUME NEW d \in Callers, Calling(d, t), d # c PROVE Calling(d, t)'
    BY <2>2 DEF Calling, TypeOK
  <2>3. CASE Queued(t)
    BY <1>b, <2>3 DEF Queued
  <2>4. ASSUME NEW w \in Workers, Running(w, t) PROVE Running(w, t)'
    BY <2>4 DEF Running
  <2> QED BY <2>1, <2>2, <2>3, <2>4 DEF OpenTaskIsSomewhere
<1>7. PlacesHoldOpenTasks'
  BY DEF PlacesHoldOpenTasks, PlacesAreDisjoint, OwnerOrder, Queued, TypeOK,
     Callers
<1>8. PlacesAreDisjoint'
  BY DEF PlacesAreDisjoint, PlacesHoldOpenTasks, OwnerOrder, Queued, TypeOK,
     Callers
<1> QED BY <1>1, <1>2, <1>3, <1>4, <1>5, <1>6, <1>7, <1>8

\* Taking the front of the queue preserves the invariant.
LEMMA PopInv ==
  ASSUME Inv, NEW w \in Workers, Pop(w)
  PROVE  Inv'
<1> USE ThreadAssumption DEF Inv, Pop
<1>1. TypeOK'
  BY DEF TypeOK
<1>2. OwnerOrder'
  BY DEF OwnerOrder, TypeOK, Callers
<1>3. ExitedMeansDrained'
  BY DEF ExitedMeansDrained, OwnerOrder, TypeOK
<1>4. NoLostWakeup'
  BY DEF NoLostWakeup, ExitedMeansDrained, OwnerOrder, TypeOK, WithPc,
     Predicate, Callers
<1>5. NoSleeperAtJoin'
  BY DEF NoSleeperAtJoin, OwnerOrder, TypeOK, WithPc, Predicate
<1>a. \A t : Queued(t) => t = Head(tasks) \/ Queued(t)'
  <2>1. /\ Len(tasks) \in Nat /\ Len(tasks') = Len(tasks) - 1
        /\ Head(tasks) = tasks[1]
        /\ \A i \in 1..Len(tasks') : tasks'[i] = tasks[i + 1]
    BY TailShift DEF TypeOK
  <2>2. ASSUME NEW i \in 1..Len(tasks), i # 1
        PROVE  \E j \in 1..Len(tasks') : tasks'[j] = tasks[i]
    <3>1. i - 1 \in 1..Len(tasks') /\ tasks'[i - 1] = tasks[i]
      BY <2>1, <2>2
    <3> QED BY <3>1
  <2> QED BY <2>1, <2>2 DEF Queued
<1>6. OpenTaskIsSomewhere'
  <2> SUFFICES ASSUME NEW t \in Tasks, future[t] = "pending"
               PROVE  (\/ \E c \in Callers : Calling(c, t)
                       \/ Queued(t)
                       \/ \E v \in Workers : Running(v, t))'
    BY DEF OpenTaskIsSomewhere
  <2>1. ASSUME NEW c \in Callers, Calling(c, t) PROVE Calling(c, t)'
    BY <2>1 DEF Calling
  <2>2. CASE t = Head(tasks)
    BY <2>2 DEF Running, TypeOK
  <2>3. ASSUME NEW v \in Workers, Running(v, t) PROVE Running(v, t)'
    BY <2>3 DEF Running, TypeOK
  <2> QED BY <1>a, <2>1, <2>2, <2>3 DEF OpenTaskIsSomewhere
<1>7. PlacesHoldOpenTasks'
  BY DEF PlacesHoldOpenTasks, PlacesAreDisjoint, OwnerOrder, Queued, TypeOK,
     Callers
<1>8. PlacesAreDisjoint'
  BY DEF PlacesAreDisjoint, PlacesHoldOpenTasks, OwnerOrder, Queued, TypeOK,
     Callers
<1> QED BY <1>1, <1>2, <1>3, <1>4, <1>5, <1>6, <1>7, <1>8

\* Setting stop_ in the destructor preserves the invariant.
LEMMA StopInv ==
  ASSUME Inv, Stop
  PROVE  Inv'
<1> USE ThreadAssumption DEF Inv, Stop
<1>1. TypeOK'
  BY DEF TypeOK
<1>2. OwnerOrder'
  BY DEF OwnerOrder, TypeOK, Callers
<1>3. ExitedMeansDrained'
  BY DEF ExitedMeansDrained, OwnerOrder, TypeOK
<1>4. NoLostWakeup'
  BY DEF NoLostWakeup, ExitedMeansDrained, OwnerOrder, TypeOK, WithPc,
     Predicate, Callers
<1>5. NoSleeperAtJoin'
  BY DEF NoSleeperAtJoin, OwnerOrder, TypeOK, WithPc, Predicate
<1>6. OpenTaskIsSomewhere'
  BY DEF OpenTaskIsSomewhere, PlacesHoldOpenTasks, PlacesAreDisjoint,
     OwnerOrder, Calling, Queued, Running, TypeOK, Callers
<1>7. PlacesHoldOpenTasks'
  BY DEF PlacesHoldOpenTasks, PlacesAreDisjoint, OwnerOrder, Queued, TypeOK,
     Callers
<1>8. PlacesAreDisjoint'
  BY DEF PlacesAreDisjoint, PlacesHoldOpenTasks, OwnerOrder, Queued, TypeOK,
     Callers
<1> QED BY <1>1, <1>2, <1>3, <1>4, <1>5, <1>6, <1>7, <1>8

\* notify_all preserves the invariant.
LEMMA NotifyAllInv ==
  ASSUME Inv, NotifyAll
  PROVE  Inv'
<1> USE ThreadAssumption DEF Inv, NotifyAll
<1>1. TypeOK'
  BY DEF TypeOK
<1>2. OwnerOrder'
  BY DEF OwnerOrder, TypeOK, Callers
<1>3. ExitedMeansDrained'
  BY DEF ExitedMeansDrained, OwnerOrder, TypeOK
<1>4. NoLostWakeup'
  BY DEF NoLostWakeup, ExitedMeansDrained, OwnerOrder, TypeOK, WithPc,
     Predicate, Callers
<1>5. NoSleeperAtJoin'
  BY DEF NoSleeperAtJoin, OwnerOrder, TypeOK, WithPc, Predicate
<1>6. OpenTaskIsSomewhere'
  BY DEF OpenTaskIsSomewhere, PlacesHoldOpenTasks, PlacesAreDisjoint,
     OwnerOrder, Calling, Queued, Running, TypeOK, Callers
<1>7. PlacesHoldOpenTasks'
  BY DEF PlacesHoldOpenTasks, PlacesAreDisjoint, OwnerOrder, Queued, TypeOK,
     Callers
<1>8. PlacesAreDisjoint'
  BY DEF PlacesAreDisjoint, PlacesHoldOpenTasks, OwnerOrder, Queued, TypeOK,
     Callers
<1> QED BY <1>1, <1>2, <1>3, <1>4, <1>5, <1>6, <1>7, <1>8

\* The end of the destructor's joins preserves the invariant.
LEMMA JoinInv ==
  ASSUME Inv, Join
  PROVE  Inv'
<1> USE ThreadAssumption DEF Inv, Join
<1>1. TypeOK'
  BY DEF TypeOK
<1>2. OwnerOrder'
  BY DEF OwnerOrder, TypeOK, Callers
<1>3. ExitedMeansDrained'
  BY DEF ExitedMeansDrained, OwnerOrder, TypeOK
<1>4. NoLostWakeup'
  BY DEF NoLostWakeup, ExitedMeansDrained, OwnerOrder, TypeOK, WithPc,
     Predicate, Callers
<1>5. NoSleeperAtJoin'
  BY DEF NoSleeperAtJoin, OwnerOrder, TypeOK, WithPc, Predicate
<1>6. OpenTaskIsSomewhere'
  BY DEF OpenTaskIsSomewhere, PlacesHoldOpenTasks, PlacesAreDisjoint,
     OwnerOrder, Calling, Queued, Running, TypeOK, Callers
<1>7. PlacesHoldOpenTasks'
  BY DEF PlacesHoldOpenTasks, PlacesAreDisjoint, OwnerOrder, Queued, TypeOK,
     Callers
<1>8. PlacesAreDisjoint'
  BY DEF PlacesAreDisjoint, PlacesHoldOpenTasks, OwnerOrder, Queued, TypeOK,
     Callers
<1> QED BY <1>1, <1>2, <1>3, <1>4, <1>5, <1>6, <1>7, <1>8

-----------------------------------------------------------------------------
\* Every step of the pool preserves the invariant.
LEMMA NextInv == Inv /\ [Next]_vars => Inv'
<1> SUFFICES ASSUME Inv, [Next]_vars PROVE Inv'
  OBVIOUS
<1>1. ASSUME NEW w \in Workers, WorkerStep(w) \/ SpuriousWakeup(w) PROVE Inv'
  BY <1>1, WaitInv, ExitInv, PopInv, FinishInv, SpuriousWakeupInv
     DEF WorkerStep
<1>2. ASSUME NEW c \in Callers, EnqueueStep(c) PROVE Inv'
  BY <1>2, EnqueuePushInv, EnqueueThrowInv, NotifyOneInv DEF EnqueueStep
<1>3. ASSUME NEW c \in Callers, NEW t \in Tasks, EnqueueBegin(c, t) PROVE Inv'
  BY <1>3, EnqueueBeginInv
<1>4. CASE Stop \/ OwnerStep
  BY <1>4, StopInv, NotifyAllInv, JoinInv DEF OwnerStep
<1>5. CASE UNCHANGED vars
  <2> USE <1>5 DEF vars, Inv
  <2>1. TypeOK' /\ OwnerOrder' /\ ExitedMeansDrained'
    BY DEF TypeOK, OwnerOrder, ExitedMeansDrained
  <2>2. NoLostWakeup' /\ NoSleeperAtJoin'
    BY DEF NoLostWakeup, NoSleeperAtJoin, WithPc
  <2>3. OpenTaskIsSomewhere' /\ PlacesHoldOpenTasks' /\ PlacesAreDisjoint'
    BY DEF OpenTaskIsSomewhere, PlacesHoldOpenTasks, PlacesAreDisjoint,
           Calling, Queued, Running
  <2> QED BY <2>1, <2>2, <2>3
<1> QED BY <1>1, <1>2, <1>3, <1>4, <1>5 DEF Next, Terminated

\* The invariant holds in every reachable state.
THEOREM Invariance == Spec => []Inv
  BY InitInv, NextInv, PTL DEF Spec

\* The fields of the pool keep their types.
THEOREM TypeCorrect == Spec => []TypeOK
<1>1. Inv => TypeOK
  BY DEF Inv
<1> QED BY <1>1, Invariance, PTL

\* No wakeup is lost although notify_one runs after the unlock.
THEOREM WakeupsKept == Spec => []NoLostWakeup
<1>1. Inv => NoLostWakeup
  BY DEF Inv
<1> QED BY <1>1, Invariance, PTL

\* No worker sleeps while the destructor waits in join().
THEOREM JoinFindsNoSleeper == Spec => []NoSleeperAtJoin
<1>1. Inv => NoSleeperAtJoin
  BY DEF Inv
<1> QED BY <1>1, Invariance, PTL

\* When the destructor has returned nothing is queued, running or about to be
\* queued, so no future is left without an outcome.
LEMMA InvImpliesDrained == Inv => DrainedAtDestruction
<1> SUFFICES ASSUME Inv, owner = "destroyed"
             PROVE  tasks = <<>> /\ \A t \in Tasks : future[t] # "pending"
  BY DEF DrainedAtDestruction
<1>1. \A w \in Workers : wpc[w] = "exited" /\ call[w] = "none"
  BY DEF Inv, OwnerOrder, TypeOK, Callers
<1>2. \A c \in Clients : call[c] = "none"
  BY DEF Inv, OwnerOrder
<1>3. tasks = <<>>
  BY <1>1, ThreadAssumption DEF Inv, ExitedMeansDrained
<1> QED
  BY <1>1, <1>2, <1>3
     DEF Inv, OpenTaskIsSomewhere, Calling, Queued, Running, Callers

\* The destructor returns only when every accepted task has its outcome.
THEOREM DestructorDrains == Spec => []DrainedAtDestruction
  BY InvImpliesDrained, Invariance, PTL
-----------------------------------------------------------------------------
(***************************************************************************)
(* First in, first out, exactly once.                                      *)
(***************************************************************************)
AcceptedIsUsedUp ==
  \A i \in 1..Len(accepted) :
     /\ future[accepted[i]] # "unused"
     /\ \A c \in Callers : call[c] = "lock" => arg[c] # accepted[i]

FifoInv == FifoExactlyOnce /\ AcceptedIsUsedUp

\* Appending to the second part of a concatenation appends to the whole.
LEMMA AppendAfterConcat ==
  ASSUME NEW S, NEW p \in Seq(S), NEW q \in Seq(S), NEW e \in S
  PROVE  Append(p \o q, e) = p \o Append(q, e)
<1>1. p \o q \in Seq(S) /\ <<e>> \in Seq(S)
  BY ConcatProperties
<1>2. Append(p \o q, e) = (p \o q) \o <<e>> /\ Append(q, e) = q \o <<e>>
  BY <1>1, AppendIsConcat
<1> QED BY <1>1, <1>2, ConcatAssociative

\* The order of acceptance is kept by every step.
LEMMA NextFifo == Inv /\ FifoInv /\ [Next]_vars => FifoInv'
<1> SUFFICES ASSUME Inv, FifoInv, [Next]_vars PROVE FifoInv'
  OBVIOUS
<1> USE DEF FifoInv, FifoExactlyOnce
<1>t. TypeOK
  BY DEF Inv
<1>1. ASSUME NEW w \in Workers, Pop(w) PROVE FifoInv'
  <2>1. Append(started, Head(tasks)) \o Tail(tasks) = started \o tasks
    BY <1>1, <1>t DEF Pop, TypeOK
  <2> QED BY <1>1, <2>1, SMTT(20) DEF Pop, AcceptedIsUsedUp
<1>2. ASSUME NEW c \in Callers, EnqueuePush(c) PROVE FifoInv'
  <2>1. arg[c] \in Tasks /\ future[arg[c]] = "pending"
    BY <1>2 DEF Inv, PlacesHoldOpenTasks, EnqueuePush
  <2>2. Append(started \o tasks, arg[c]) = started \o Append(tasks, arg[c])
    <3>1. started \in Seq(Tasks) /\ tasks \in Seq(Tasks)
      BY <1>t DEF TypeOK
    <3> QED BY <2>1, <3>1, AppendAfterConcat, SMTT(20)
  <2>3. /\ Len(accepted) \in Nat
        /\ Len(accepted') = Len(accepted) + 1
        /\ \A i \in 1..Len(accepted) : accepted'[i] = accepted[i]
        /\ accepted'[Len(accepted) + 1] = arg[c]
    BY <1>t, <1>2, <2>1 DEF EnqueuePush, TypeOK
  <2>4. accepted' = started' \o tasks'
    BY <1>2, <2>2 DEF EnqueuePush
  <2>5. \A i \in 1..Len(accepted) : accepted[i] # arg[c]
    BY <1>2 DEF EnqueuePush, AcceptedIsUsedUp
  <2>6. \A i, j \in 1..Len(accepted') : accepted'[i] = accepted'[j] => i = j
    <3>1. \A i, j \in 1..Len(accepted) : accepted[i] = accepted[j] => i = j
      OBVIOUS
    <3>2. \A i \in 1..Len(accepted') :
             i \in 1..Len(accepted) \/ i = Len(accepted) + 1
      BY <2>3
    <3> HIDE DEF FifoInv
    <3> QED BY <2>3, <2>5, <3>1, <3>2
  <2>7. \A d \in Callers : call'[d] = "lock" =>
           d # c /\ call[d] = "lock" /\ arg'[d] = arg[d] /\ arg[d] # arg[c]
    BY <1>t, <1>2 DEF EnqueuePush, TypeOK, Inv, PlacesAreDisjoint
  <2>8. AcceptedIsUsedUp'
    BY <1>2, <2>1, <2>3, <2>7 DEF EnqueuePush, AcceptedIsUsedUp
  <2> QED BY <2>4, <2>6, <2>8
<1>3. ASSUME NEW c \in Callers, NEW t \in Tasks, EnqueueBegin(c, t) PROVE FifoInv'
  BY <1>3, <1>t DEF EnqueueBegin, AcceptedIsUsedUp, TypeOK
<1>4. ASSUME NEW c \in Callers, EnqueueThrow(c) PROVE FifoInv'
  BY <1>4, <1>t DEF EnqueueThrow, AcceptedIsUsedUp, TypeOK
<1>5. ASSUME NEW c \in Callers, NotifyOne(c) PROVE FifoInv'
  BY <1>5, <1>t DEF NotifyOne, AcceptedIsUsedUp, TypeOK
<1>6. ASSUME NEW w \in Workers, Finish(w) PROVE FifoInv'
  BY <1>6, <1>t DEF Finish, AcceptedIsUsedUp, TypeOK
<1>7. ASSUME NEW w \in Workers, Wait(w) \/ Exit(w) \/ SpuriousWakeup(w) PROVE FifoInv'
  BY <1>7 DEF Wait, Exit, SpuriousWakeup, AcceptedIsUsedUp
<1>8. CASE Stop \/ OwnerStep \/ UNCHANGED vars
  BY <1>8 DEF Stop, OwnerStep, NotifyAll, Join, vars, AcceptedIsUsedUp
<1> QED
  BY <1>1, <1>2, <1>3, <1>4, <1>5, <1>6, <1>7, <1>8
     DEF Next, WorkerStep, EnqueueStep, Terminated

\* Tasks start in the order of acceptance, each exactly once.
THEOREM Fifo == Spec => []FifoExactlyOnce
<1>1. Init => FifoInv
  <2> SUFFICES ASSUME Init PROVE FifoInv
    OBVIOUS
  <2>1. accepted = started \o tasks /\ Len(accepted) = 0
    BY DEF Init
  <2> QED BY <2>1 DEF FifoInv, FifoExactlyOnce, AcceptedIsUsedUp
<1>2. FifoInv => FifoExactlyOnce
  BY DEF FifoInv
<1> QED BY <1>1, <1>2, NextFifo, Invariance, PTL DEF Spec
-----------------------------------------------------------------------------
(***************************************************************************)
(* The pool implements Executor.                                           *)
(***************************************************************************)
\* Every step of the pool is a step of Executor or leaves it unchanged.
LEMMA NextRefines == Inv /\ [Next]_vars => [Promise!Next]_(Promise!vars)
<1> SUFFICES ASSUME Inv, [Next]_vars
             PROVE  Promise!Next \/ UNCHANGED Promise!vars
  OBVIOUS
<1> USE DEF Promise!Next, Promise!vars
<1>t. TypeOK
  BY DEF Inv
<1>1. ASSUME NEW c \in Callers, NEW t \in Tasks, EnqueueBegin(c, t)
      PROVE  Promise!Submit(t)
  <2>1. owner # "destroyed"
    BY <1>1, <1>t DEF EnqueueBegin, MayCall, Inv, OwnerOrder
  <2> QED BY <1>1, <1>t, <2>1 DEF EnqueueBegin, Promise!Submit, TypeOK
<1>2. ASSUME NEW c \in Callers, EnqueueThrow(c)
      PROVE  \E t \in Tasks : Promise!Refuse(t)
  <2>1. arg[c] \in Tasks /\ future[arg[c]] = "pending"
    BY <1>2 DEF EnqueueThrow, Inv, PlacesHoldOpenTasks
  <2>2. owner \in {"notify", "join"}
    BY <1>2, <1>t, InvImpliesDrained, <2>1
       DEF EnqueueThrow, Inv, OwnerOrder, TypeOK, DrainedAtDestruction
  <2> QED BY <1>2, <2>1, <2>2 DEF EnqueueThrow, Promise!Refuse
<1>3. ASSUME NEW w \in Workers, Finish(w)
      PROVE  \E t \in Tasks : Promise!Complete(t)
  <2>1. cur[w] \in Tasks /\ future[cur[w]] = "pending"
    BY <1>3 DEF Finish, Inv, PlacesHoldOpenTasks
  <2> QED BY <1>3, <2>1 DEF Finish, Promise!Complete
<1>4. CASE Stop
  BY <1>4 DEF Stop, Promise!Close
<1>5. CASE Join
  <2>1. \A w \in Workers : wpc[w] = "exited" /\ call[w] = "none"
    BY <1>5, <1>t DEF Join, Inv, OwnerOrder, TypeOK, Callers
  <2>2. tasks = <<>> /\ \A c \in Clients : call[c] = "none"
    BY <1>5, <2>1, ThreadAssumption DEF Join, Inv, OwnerOrder, ExitedMeansDrained
  <2>3. \A t \in Tasks : future[t] # "pending"
    BY <2>1, <2>2
       DEF Inv, OpenTaskIsSomewhere, Calling, Queued, Running, Callers
  <2> QED BY <1>5, <2>3 DEF Join, Promise!Destroy
<1>6. CASE NotifyAll
  BY <1>6 DEF NotifyAll
<1>7. ASSUME NEW w \in Workers, Wait(w) \/ Exit(w) \/ Pop(w) \/ SpuriousWakeup(w)
      PROVE  UNCHANGED Promise!vars
  BY <1>7 DEF Wait, Exit, Pop, SpuriousWakeup
<1>8. ASSUME NEW c \in Callers, EnqueuePush(c) \/ NotifyOne(c)
      PROVE  UNCHANGED Promise!vars
  BY <1>8 DEF EnqueuePush, NotifyOne
<1>9. CASE UNCHANGED vars
  BY <1>9 DEF vars
<1> QED
  BY <1>1, <1>2, <1>3, <1>4, <1>5, <1>6, <1>7, <1>8, <1>9
     DEF Next, WorkerStep, EnqueueStep, OwnerStep, Terminated

\* ThreadPool keeps the promise of Executor: one outcome per task, refusal
\* only while closing, destruction only with nothing open.
THEOREM Refinement == Spec => ImplementsExecutor
<1>1. Init => Promise!Init
  BY DEF Init, Promise!Init
<1> QED
  BY <1>1, NextRefines, Invariance, PTL
     DEF Spec, ImplementsExecutor, Promise!Spec
=============================================================================
