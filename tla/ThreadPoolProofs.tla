-------------------------- MODULE ThreadPoolProofs --------------------------
(* Machine-checked theorems about ThreadPool, for every number of workers, *)
(* slots, callers and tasks, and whichever pthread calls fail.             *)
EXTENDS ThreadPool, SequenceTheorems, TLAPS

USE ThreadPoolAssumption

-----------------------------------------------------------------------------
(* The queues of slot indices *)

(* Appending adds one element to the set of elements of a queue. *)
LEMMA AppendToSet ==
  ASSUME NEW S, NEW q \in Seq(S), NEW e \in S
  PROVE  /\ Append(q, e) \in Seq(S)
         /\ ToSet(Append(q, e)) = ToSet(q) \cup {e}
<1>1. /\ Append(q, e) \in Seq(S)
      /\ DOMAIN Append(q, e) = 1 .. Len(q) + 1
      /\ DOMAIN q = 1 .. Len(q)
      /\ \A i \in 1 .. Len(q) : Append(q, e)[i] = q[i]
      /\ Append(q, e)[Len(q) + 1] = e
      /\ Len(q) \in Nat
  BY AppendProperties
<1>2. QED
  BY <1>1 DEF ToSet

(* Appending an element that is not in the queue keeps it duplicate-free. *)
LEMMA AppendInjectiveQueue ==
  ASSUME NEW S, NEW q \in Seq(S), NEW e \in S,
         IsInjective(q), e \notin ToSet(q)
  PROVE  IsInjective(Append(q, e))
<1>1. /\ DOMAIN Append(q, e) = 1 .. Len(q) + 1
      /\ DOMAIN q = 1 .. Len(q)
      /\ \A i \in 1 .. Len(q) : Append(q, e)[i] = q[i]
      /\ Append(q, e)[Len(q) + 1] = e
      /\ Len(q) \in Nat
  BY AppendProperties
<1>2. \A i \in 1 .. Len(q) : q[i] # e
  BY <1>1 DEF ToSet
<1>3. QED
  BY <1>1, <1>2 DEF IsInjective

(* Popping the head takes exactly one element out of a duplicate-free      *)
(* queue and keeps it duplicate-free.                                      *)
LEMMA TailToSet ==
  ASSUME NEW S, NEW q \in Seq(S), q # << >>, IsInjective(q)
  PROVE  /\ Head(q) \in S
         /\ Tail(q) \in Seq(S)
         /\ Head(q) \in ToSet(q)
         /\ ToSet(Tail(q)) = ToSet(q) \ {Head(q)}
         /\ IsInjective(Tail(q))
<1>1. /\ Head(q) \in S /\ Head(q) = q[1]
      /\ Tail(q) \in Seq(S)
      /\ DOMAIN q = 1 .. Len(q)
      /\ DOMAIN Tail(q) = 1 .. Len(q) - 1
      /\ Len(q) \in Nat \ {0}
      /\ \A i \in 1 .. Len(q) - 1 : Tail(q)[i] = q[i + 1]
  BY HeadTailProperties
<1>2. Head(q) \in ToSet(q)
  BY <1>1 DEF ToSet
<1>3. \A i \in 1 .. Len(q) : i = 1 \/ (i - 1 \in 1 .. Len(q) - 1 /\ Tail(q)[i - 1] = q[i])
  BY <1>1
<1>4. \A i \in 1 .. Len(q) - 1 : q[i + 1] # q[1]
  BY <1>1 DEF IsInjective
<1>5. ToSet(Tail(q)) = ToSet(q) \ {Head(q)}
  <2>1. \A x \in ToSet(Tail(q)) : x \in ToSet(q) \ {Head(q)}
    BY <1>1, <1>4 DEF ToSet
  <2>2. \A x \in ToSet(q) \ {Head(q)} : x \in ToSet(Tail(q))
    <3>1. SUFFICES ASSUME NEW i \in 1 .. Len(q), q[i] # q[1]
                   PROVE  q[i] \in ToSet(Tail(q))
      BY <1>1 DEF ToSet
    <3>2. i - 1 \in DOMAIN Tail(q) /\ Tail(q)[i - 1] = q[i]
      BY <1>1, <1>3, <3>1
    <3>3. QED
      BY <3>2 DEF ToSet
  <2>3. QED BY <2>1, <2>2
<1>6. IsInjective(Tail(q))
  BY <1>1 DEF IsInjective
<1>7. QED
  BY <1>1, <1>2, <1>5, <1>6

-----------------------------------------------------------------------------
(* Type correctness *)

LEMMA StoppersAct == Stoppers \subseteq Actors /\ Owner \in Actors
  BY DEF Actors, Workers

LEMMA InitTypeOK == Init => TypeOK
<1> SUFFICES ASSUME Init PROVE TypeOK
  OBVIOUS
<1>2. [i \in Slots |-> i] \in Seq(Slots)
  BY IsASeq DEF Slots
<1>3. << >> \in Seq(Slots)
  OBVIOUS
<1>4. tasks_ \in [Slots -> Nat] /\ wtask \in [Workers -> Nat] /\ join \in [Actors -> Nat]
  BY DEF Init, NoTask
<1>5. created_thread_count_ \in 0 .. ThreadCount
  BY DEF Init
<1>6. QED
  BY <1>2, <1>3, <1>4, <1>5 DEF Init, TypeOK

LEMMA SubmitTypeOK == TypeOK /\ Submit => TypeOK'
<1> SUFFICES ASSUME TypeOK, Submit PROVE TypeOK'
  OBVIOUS
<1>2. /\ Head(free_queue_) \in Slots /\ Tail(free_queue_) \in Seq(Slots)
      /\ Append(pending_queue_, Head(free_queue_)) \in Seq(Slots)
  BY HeadTailProperties, AppendProperties DEF Submit, Accepts, TypeOK
<1>3. free_queue_' \in Seq(Slots) /\ pending_queue_' \in Seq(Slots)
  BY <1>2 DEF Submit, Enqueue
<1>4. wpc' \in [Workers -> {"none", "lock", "waiting", "run", "exited", "joined"}]
  <2>1. /\ wpc \in [Workers -> {"none", "lock", "waiting", "run", "exited", "joined"}]
        /\ wpc' \in Signal(wpc)
    BY DEF Submit, TypeOK
  <2>2. QED BY <2>1 DEF Signal
<1>5. tasks_' \in [Slots -> Nat] /\ accepted' \in Nat
  <2>1. accepted + 1 \in Nat
    BY DEF TypeOK
  <2>2. QED BY <1>2, <2>1 DEF Submit, TypeOK
<1>6. QED
  BY <1>3, <1>4, <1>5 DEF Submit, TypeOK, sync, flags, stopping

LEMMA WorkerTakeTypeOK == ASSUME NEW w \in Workers, TypeOK, WorkerTake(w) PROVE TypeOK'
<1>1. /\ Head(pending_queue_) \in Slots /\ Tail(pending_queue_) \in Seq(Slots)
      /\ Append(free_queue_, Head(pending_queue_)) \in Seq(Slots)
  BY HeadTailProperties, AppendProperties DEF WorkerTake, TypeOK
<1>2. free_queue_' \in Seq(Slots) /\ pending_queue_' \in Seq(Slots)
  BY <1>1 DEF WorkerTake, Dequeue, Recycle
<1>3. tasks_' \in [Slots -> Nat] /\ wtask' \in [Workers -> Nat] /\ taken' \in Nat
  BY <1>1 DEF WorkerTake, TypeOK, NoTask
<1>4. wpc' \in [Workers -> {"none", "lock", "waiting", "run", "exited", "joined"}]
  BY DEF WorkerTake, TypeOK
<1>5. QED
  BY <1>2, <1>3, <1>4 DEF WorkerTake, TypeOK, sync, flags, stopping

LEMMA NextTypeOK == TypeOK /\ [Next]_vars => TypeOK'
<1> SUFFICES ASSUME TypeOK, [Next]_vars PROVE TypeOK'
  OBVIOUS
<1>2. CASE InitializeSynchronization
  BY <1>2 DEF InitializeSynchronization, TypeOK, sync, flags, queues, workers, stopping
<1>3. CASE CreateThread
  BY <1>3 DEF CreateThread, CreateLoopGoesOn, TypeOK, sync, queues, stopping, Workers
<1>4. CASE CreateThreadFails
  BY <1>4 DEF CreateThreadFails, TypeOK, sync, flags, queues, workers, Actors
<1>5. CASE ConstructorReturn
  BY <1>5 DEF ConstructorReturn, TypeOK, sync, queues, workers, stopping
<1>6. CASE Submit
  BY <1>6, SubmitTypeOK
<1>7. ASSUME NEW w \in Workers, Worker(w) \/ SpuriousWakeup(w) PROVE TypeOK'
  <2>1. CASE WorkerWait(w)
    BY <2>1 DEF WorkerWait, TypeOK, sync, flags, queues, stopping
  <2>2. CASE WorkerExit(w)
    BY <2>2 DEF WorkerExit, TypeOK, sync, flags, queues, stopping
  <2>3. CASE WorkerTake(w)
    BY <2>3, WorkerTakeTypeOK
  <2>4. CASE WorkerTaskDone(w)
    BY <2>4 DEF WorkerTaskDone, TypeOK, sync, flags, queues, stopping, NoTask
  <2>5. CASE SpuriousWakeup(w)
    BY <2>5 DEF SpuriousWakeup, TypeOK, sync, flags, queues, stopping
  <2>6. QED BY <1>7, <2>1, <2>2, <2>3, <2>4, <2>5 DEF Worker
<1>8. ASSUME NEW a \in Actors, StopCheck(a) \/ StopStep(a) \/ StopJoinMutual(a) PROVE TypeOK'
  <2>1. CASE StopCheck(a)
    BY <2>1 DEF StopCheck, MayStop, AfterStop, TypeOK, sync, flags, queues, workers
  <2>2. CASE StopRequest(a)
    BY <2>2 DEF StopRequest, Broadcast, TypeOK, sync, queues
  <2>3. CASE StopJoin(a)
    <3>1. wpc' \in [Workers -> {"none", "lock", "waiting", "run", "exited", "joined"}]
      BY <2>3 DEF StopJoin, TypeOK
    <3>2. join' \in [Actors -> Nat]
      BY <2>3 DEF StopJoin, TypeOK
    <3>3. QED
      BY <2>3, <3>1, <3>2 DEF StopJoin, TypeOK, sync, flags, queues
  <2>4. CASE StopJoined(a)
    BY <2>4 DEF StopJoined, TypeOK, sync, flags, queues, workers
  <2>5. CASE StopClearCount(a)
    BY <2>5 DEF StopClearCount, TypeOK, sync, queues, workers
  <2>6. CASE StopReturn(a)
    BY <2>6 DEF StopReturn, AfterStop, TypeOK, sync, queues, workers
  <2>7. CASE JoinFails(a)
    <3>1. join' \in [Actors -> Nat]
      BY <2>7 DEF JoinFails, TypeOK
    <3>2. QED BY <2>7, <3>1 DEF JoinFails, TypeOK, sync, flags, queues, workers
  <2>8. QED
    BY <1>8, <2>1, <2>2, <2>3, <2>4, <2>5, <2>6, <2>7
       DEF StopStep, StopJoinSelf, StopJoinMutual
<1>9. CASE Destroy
  BY <1>9 DEF Destroy, TypeOK, sync, flags, queues, workers, stopping
<1>10. CASE DestroySynchronization
  BY <1>10 DEF DestroySynchronization, TypeOK, flags, queues, workers
<1>11. CASE UNCHANGED vars
  BY <1>11 DEF TypeOK, vars, sync, flags, queues, workers, stopping
<1>12. QED
  BY <1>2, <1>3, <1>4, <1>5, <1>6, <1>7, <1>8, <1>9, <1>10, <1>11,
     StoppersAct DEF Next, Destroyed

(* Every reachable state of the pool is well typed; in particular the      *)
(* number of created threads never exceeds ThreadCount.                    *)
THEOREM ThreadPoolTypeCorrect == Spec => []TypeOK
  BY InitTypeOK, NextTypeOK, PTL DEF Spec

-----------------------------------------------------------------------------
(* Slot accounting and submission order: each needs the other, because the *)
(* task of a pending slot is overwritten unless slots are accounted for.   *)

QueueInv == SlotsAccounted /\ PendingInOrder

LEMMA InitQueueInv == Init => QueueInv
<1> SUFFICES ASSUME Init PROVE QueueInv
  OBVIOUS
<1>1. free_queue_ = [i \in 1 .. PendingTaskCount |-> i] /\ Slots = 1 .. PendingTaskCount
  BY DEF Init, Slots
<1>2. IsInjective(free_queue_) /\ ToSet(free_queue_) = Slots
  BY <1>1 DEF IsInjective, ToSet
<1>3. pending_queue_ = << >> /\ Len(pending_queue_) = 0
  BY DEF Init
<1>4. IsInjective(pending_queue_) /\ ToSet(pending_queue_) = {}
  BY <1>3 DEF IsInjective, ToSet
<1>5. SlotsAccounted
  BY <1>2, <1>4 DEF Init, SlotsAccounted
<1>6. PendingInOrder
  BY <1>3 DEF Init, PendingInOrder
<1>7. QED
  BY <1>5, <1>6 DEF QueueInv

LEMMA SubmitQueueInv == TypeOK /\ QueueInv /\ Submit => QueueInv'
<1> SUFFICES ASSUME TypeOK, QueueInv, Submit PROVE QueueInv'
  OBVIOUS
<1> DEFINE h == Head(free_queue_)
<1>1. /\ free_queue_ \in Seq(Slots) /\ pending_queue_ \in Seq(Slots)
      /\ free_queue_ # << >>
      /\ accepted \in Nat /\ taken \in Nat /\ tasks_ \in [Slots -> Nat]
  BY DEF TypeOK, Submit, Accepts
<1>2. /\ IsInjective(free_queue_) /\ IsInjective(pending_queue_)
      /\ ToSet(free_queue_) \cap ToSet(pending_queue_) = {}
      /\ ToSet(free_queue_) \cup ToSet(pending_queue_) = Slots
      /\ \A s \in Slots : tasks_[s] # NoTask <=> s \in ToSet(pending_queue_)
  BY DEF QueueInv, SlotsAccounted
<1>3. /\ h \in Slots /\ h \in ToSet(free_queue_)
      /\ ToSet(Tail(free_queue_)) = ToSet(free_queue_) \ {h}
      /\ IsInjective(Tail(free_queue_))
  BY <1>1, <1>2, TailToSet
<1>4. h \notin ToSet(pending_queue_)
  BY <1>2, <1>3
<1>5. /\ ToSet(Append(pending_queue_, h)) = ToSet(pending_queue_) \cup {h}
      /\ IsInjective(Append(pending_queue_, h))
  BY <1>1, <1>2, <1>3, <1>4, AppendToSet, AppendInjectiveQueue
<1>6. /\ free_queue_' = Tail(free_queue_)
      /\ pending_queue_' = Append(pending_queue_, h)
      /\ tasks_' = [tasks_ EXCEPT ![h] = accepted + 1]
      /\ accepted' = accepted + 1 /\ taken' = taken
  BY DEF Submit, Enqueue
<1>7. SlotsAccounted'
  <2>1. \A s \in Slots : tasks_'[s] # NoTask <=> s \in ToSet(pending_queue_')
    BY <1>1, <1>2, <1>3, <1>5, <1>6 DEF NoTask
  <2>2. QED
    BY <1>2, <1>3, <1>5, <1>6, <2>1 DEF SlotsAccounted
<1>8. PendingInOrder'
  <2>1. /\ Len(pending_queue_') = Len(pending_queue_) + 1 /\ Len(pending_queue_) \in Nat
        /\ \A i \in 1 .. Len(pending_queue_) :
               pending_queue_'[i] = pending_queue_[i] /\ pending_queue_[i] \in Slots
        /\ pending_queue_'[Len(pending_queue_) + 1] = h
    BY <1>1, <1>3, <1>6, AppendProperties
  <2>2. \A i \in 1 .. Len(pending_queue_) : pending_queue_[i] # h
    BY <1>1, <1>4 DEF ToSet
  <2>3. /\ taken <= accepted /\ Len(pending_queue_) = accepted - taken
        /\ \A i \in 1 .. Len(pending_queue_) : tasks_[pending_queue_[i]] = taken + i
    BY DEF QueueInv, PendingInOrder
  <2>4. ASSUME NEW i \in 1 .. Len(pending_queue_')
        PROVE  tasks_'[pending_queue_'[i]] = taken' + i
    <3>1. CASE i = Len(pending_queue_) + 1
      BY <1>1, <1>3, <1>6, <2>1, <2>3, <3>1
    <3>2. CASE i # Len(pending_queue_) + 1
      <4>1. i \in 1 .. Len(pending_queue_)
        BY <2>1, <3>2
      <4>2. QED
        BY <1>1, <1>3, <1>6, <2>1, <2>2, <2>3, <4>1
    <3>3. QED BY <3>1, <3>2
  <2>5. taken' <= accepted' /\ Len(pending_queue_') = accepted' - taken'
    BY <1>1, <1>6, <2>1, <2>3
  <2>6. QED
    BY <2>4, <2>5 DEF PendingInOrder
<1>9. QED
  BY <1>7, <1>8 DEF QueueInv

LEMMA WorkerTakeQueueInv ==
  ASSUME NEW w \in Workers, TypeOK, QueueInv, WorkerTake(w)
  PROVE  QueueInv' /\ wtask' = [wtask EXCEPT ![w] = taken + 1]
<1> DEFINE h == Head(pending_queue_)
<1>1. /\ free_queue_ \in Seq(Slots) /\ pending_queue_ \in Seq(Slots)
      /\ pending_queue_ # << >>
      /\ accepted \in Nat /\ taken \in Nat /\ tasks_ \in [Slots -> Nat]
  BY DEF TypeOK, WorkerTake
<1>2. /\ IsInjective(free_queue_) /\ IsInjective(pending_queue_)
      /\ ToSet(free_queue_) \cap ToSet(pending_queue_) = {}
      /\ ToSet(free_queue_) \cup ToSet(pending_queue_) = Slots
      /\ \A s \in Slots : tasks_[s] # NoTask <=> s \in ToSet(pending_queue_)
  BY DEF QueueInv, SlotsAccounted
<1>3. /\ h \in Slots /\ h \in ToSet(pending_queue_)
      /\ ToSet(Tail(pending_queue_)) = ToSet(pending_queue_) \ {h}
      /\ IsInjective(Tail(pending_queue_))
  BY <1>1, <1>2, TailToSet
<1>4. h \notin ToSet(free_queue_)
  BY <1>2, <1>3
<1>5. /\ ToSet(Append(free_queue_, h)) = ToSet(free_queue_) \cup {h}
      /\ IsInjective(Append(free_queue_, h))
  BY <1>1, <1>2, <1>3, <1>4, AppendToSet, AppendInjectiveQueue
<1>6. /\ pending_queue_' = Tail(pending_queue_)
      /\ free_queue_' = Append(free_queue_, h)
      /\ tasks_' = [tasks_ EXCEPT ![h] = NoTask]
      /\ wtask' = [wtask EXCEPT ![w] = tasks_[h]]
      /\ taken' = taken + 1 /\ accepted' = accepted
  BY DEF WorkerTake, Dequeue, Recycle
<1>7. SlotsAccounted'
  <2>1. \A s \in Slots : tasks_'[s] # NoTask <=> s \in ToSet(pending_queue_')
    BY <1>1, <1>2, <1>3, <1>6
  <2>2. QED
    BY <1>2, <1>3, <1>5, <1>6, <2>1 DEF SlotsAccounted
<1>8. /\ Len(pending_queue_') = Len(pending_queue_) - 1
      /\ Len(pending_queue_) \in Nat \ {0}
      /\ \A i \in 1 .. Len(pending_queue_') : pending_queue_'[i] = pending_queue_[i + 1]
      /\ \A i \in 1 .. Len(pending_queue_) : pending_queue_[i] \in Slots
      /\ h = pending_queue_[1]
  BY <1>1, <1>6, HeadTailProperties
<1>9. /\ taken <= accepted /\ Len(pending_queue_) = accepted - taken
      /\ \A i \in 1 .. Len(pending_queue_) : tasks_[pending_queue_[i]] = taken + i
  BY DEF QueueInv, PendingInOrder
<1>10. PendingInOrder'
  <2>1. \A i \in 1 .. Len(pending_queue_) : i # 1 => pending_queue_[i] # h
    <3>1. DOMAIN pending_queue_ = 1 .. Len(pending_queue_) /\ 1 \in 1 .. Len(pending_queue_)
      BY <1>1, <1>8
    <3>2. QED BY <1>2, <1>8, <3>1 DEF IsInjective
  <2>2. ASSUME NEW i \in 1 .. Len(pending_queue_')
        PROVE  tasks_'[pending_queue_'[i]] = taken' + i
    <3>1. i + 1 \in 1 .. Len(pending_queue_) /\ i + 1 # 1
      BY <1>8
    <3>2. pending_queue_'[i] = pending_queue_[i + 1] /\ pending_queue_[i + 1] # h
      BY <1>8, <2>1, <3>1
    <3>3. tasks_'[pending_queue_[i + 1]] = tasks_[pending_queue_[i + 1]]
      BY <1>1, <1>6, <1>8, <3>1, <3>2
    <3>4. QED
      BY <1>1, <1>6, <1>9, <3>1, <3>2, <3>3
  <2>3. taken' <= accepted' /\ Len(pending_queue_') = accepted' - taken'
    BY <1>1, <1>6, <1>8, <1>9
  <2>4. QED
    BY <2>2, <2>3 DEF PendingInOrder
<1>11. tasks_[h] = taken + 1
  BY <1>8, <1>9
<1>12. QED
  BY <1>6, <1>7, <1>10, <1>11 DEF QueueInv

-----------------------------------------------------------------------------
(* The life of a worker.  A worker that may still touch the mutex is       *)
(* counted in created_thread_count_, has not been passed by a join loop,   *)
(* and keeps every stop sequence from going beyond its loop: unless its    *)
(* own task called stop(), which no join awaits.                           *)

Live(w) == wpc[w] \in {"lock", "waiting", "run"}
Awaited(w) == Live(w) /\ w \notin self_stopped

(* A worker is in stop() only through the task it runs, which cannot exist *)
(* before the constructor has returned.                                    *)
TaskStops ==
    /\ \A w \in Workers : pc[w] # "idle" => wpc[w] = "run"
    /\ \A w \in Workers : pc[w] \in {"join", "clear", "return"} => w \in self_stopped
    /\ phase \in {"init", "constructing"} =>
           pending_queue_ = <<>> /\ \A w \in Workers : wpc[w] # "run"

Lifecycle ==
    /\ NoUseAfterDestroy
    /\ \A w \in Workers : Awaited(w) => w <= created_thread_count_
    /\ \A a \in Actors, w \in Workers : pc[a] = "join" /\ Awaited(w) => join[a] <= w
    /\ \A a \in Actors, w \in Workers : pc[a] \in {"clear", "return", "destroy"} => ~Awaited(w)
    /\ phase # "alive" => \A c \in Callers : pc[c] = "idle"
    /\ phase = "constructing" => mutex_initialized_
    /\ phase \in {"init", "alive"} => pc[Owner] = "idle"

PoolInv == TypeOK /\ QueueInv /\ RunOnce /\ NoLostWakeup /\ Lifecycle

IndInv == PoolInv /\ TaskStops

LEMMA InitIndInv == Init => IndInv
<1> SUFFICES ASSUME Init PROVE IndInv
  OBVIOUS
<1>1. RunOnce /\ NoLostWakeup
  BY DEF Init, RunOnce, NoLostWakeup
<1>2. \A w \in Workers : wpc[w] = "none"
  BY DEF Init
<1>3. \A a \in Actors : pc[a] = "idle"
  BY DEF Init
<1>4. Lifecycle /\ TaskStops
  BY <1>2, <1>3 DEF Init, Lifecycle, TaskStops, Workers, NoUseAfterDestroy, Awaited, Live, Actors
<1>5. QED
  BY <1>1, <1>4, InitTypeOK, InitQueueInv DEF IndInv, PoolInv

LEMMA SubmitIndInv == IndInv /\ Submit => PoolInv'
<1> SUFFICES ASSUME IndInv, Submit PROVE PoolInv'
  OBVIOUS
<1>1. TypeOK' /\ QueueInv'
  BY SubmitTypeOK, SubmitQueueInv DEF IndInv, PoolInv
<1>2. wpc \in [Workers -> {"none", "lock", "waiting", "run", "exited", "joined"}]
  BY DEF IndInv, PoolInv, TypeOK
<1>3. \/ wpc' = wpc /\ \A v \in Workers : wpc[v] # "waiting"
      \/ \E v \in Workers : wpc[v] = "waiting" /\ wpc' = [wpc EXCEPT ![v] = "lock"]
  BY DEF Submit, Signal
<1>4. ~stop_requested_ /\ stop_requested_' = stop_requested_ /\ mutex_initialized_
  BY DEF Submit, Accepts, flags
<1>5. /\ UNCHANGED <<taken, wtask, pc, join, self_stopped, phase, mutex_initialized_, created_thread_count_>>
  BY DEF Submit, sync, flags, stopping
<1>6. RunOnce'
  BY <1>2, <1>3, <1>5 DEF IndInv, PoolInv, RunOnce
<1>7. NoLostWakeup'
  BY <1>2, <1>3, <1>4 DEF NoLostWakeup
<1>8. Lifecycle'
  BY <1>2, <1>3, <1>4, <1>5 DEF IndInv, PoolInv, Lifecycle, NoUseAfterDestroy, Awaited, Live
<1>9. QED
  BY <1>1, <1>6, <1>7, <1>8 DEF IndInv, PoolInv

LEMMA WorkerTakeIndInv ==
  ASSUME NEW w \in Workers, IndInv, WorkerTake(w) PROVE PoolInv'
<1>1. TypeOK' /\ QueueInv' /\ wtask' = [wtask EXCEPT ![w] = taken + 1]
  BY WorkerTakeTypeOK, WorkerTakeQueueInv DEF IndInv, PoolInv
<1>2. /\ wpc \in [Workers -> {"none", "lock", "waiting", "run", "exited", "joined"}]
      /\ wtask \in [Workers -> Nat] /\ taken \in Nat
  BY DEF IndInv, PoolInv, TypeOK
<1>3. /\ wpc[w] = "lock" /\ wpc' = [wpc EXCEPT ![w] = "run"] /\ taken' = taken + 1
      /\ UNCHANGED <<pc, join, self_stopped, phase, mutex_initialized_, created_thread_count_, stop_requested_>>
      /\ ~stop_requested_
  BY DEF WorkerTake, sync, flags, stopping
<1>4. RunOnce'
  <2>1. ASSUME NEW v \in Workers, wpc'[v] = "run"
        PROVE  wtask'[v] \in 1 .. taken' /\ (v # w => wpc[v] = "run" /\ wtask'[v] = wtask[v] /\ wtask[v] \in 1 .. taken)
    BY <1>1, <1>2, <1>3, <2>1 DEF IndInv, PoolInv, RunOnce
  <2>2. ASSUME NEW u \in Workers, NEW v \in Workers,
               wpc'[u] = "run", wpc'[v] = "run", wtask'[u] = wtask'[v]
        PROVE  u = v
    <3>1. CASE u = w \/ v = w
      BY <1>1, <1>2, <2>1, <2>2, <3>1
    <3>2. CASE u # w /\ v # w
      BY <2>1, <2>2, <3>2 DEF IndInv, PoolInv, RunOnce
    <3>3. QED BY <3>1, <3>2
  <2>3. QED BY <2>1, <2>2 DEF RunOnce
<1>5. NoLostWakeup'
  BY <1>2, <1>3 DEF NoLostWakeup
<1>6. Lifecycle'
  BY <1>2, <1>3 DEF IndInv, PoolInv, Lifecycle, NoUseAfterDestroy, Awaited, Live
<1>7. QED
  BY <1>1, <1>4, <1>5, <1>6 DEF IndInv, PoolInv

LEMMA QueuesUnchanged == QueueInv /\ UNCHANGED queues => QueueInv'
  BY DEF QueueInv, SlotsAccounted, PendingInOrder, queues

LEMMA OtherWorkerIndInv ==
  ASSUME NEW w \in Workers, IndInv, TypeOK',
         WorkerWait(w) \/ WorkerExit(w) \/ WorkerTaskDone(w) \/ SpuriousWakeup(w)
  PROVE  PoolInv'
<1>1. /\ wpc \in [Workers -> {"none", "lock", "waiting", "run", "exited", "joined"}]
      /\ wtask \in [Workers -> Nat]
  BY DEF IndInv, PoolInv, TypeOK
<1>2. UNCHANGED <<queues, pc, join, self_stopped, phase, mutex_initialized_, created_thread_count_, stop_requested_>>
  BY DEF WorkerWait, WorkerExit, WorkerTaskDone, SpuriousWakeup, sync, flags, stopping
<1>3. UNCHANGED <<pending_queue_, taken>>
  BY <1>2 DEF queues
<1>4. RunOnce'
  BY <1>1, <1>3 DEF IndInv, PoolInv, RunOnce, WorkerWait, WorkerExit, WorkerTaskDone, SpuriousWakeup
<1>5. NoLostWakeup'
  BY <1>1, <1>2, <1>3 DEF IndInv, PoolInv, NoLostWakeup, WorkerWait, WorkerExit, WorkerTaskDone, SpuriousWakeup
<1>6. Lifecycle'
  BY <1>1, <1>2 DEF IndInv, PoolInv, Lifecycle, NoUseAfterDestroy, Awaited, Live,
     WorkerWait, WorkerExit, WorkerTaskDone, SpuriousWakeup
<1>7. QED
  BY <1>2, <1>4, <1>5, <1>6, QueuesUnchanged DEF IndInv, PoolInv

LEMMA StopIndInv ==
  ASSUME NEW a \in Actors, IndInv, TypeOK', StopCheck(a) \/ StopStep(a) \/ StopJoinMutual(a)
  PROVE  PoolInv'
<1>1. /\ wpc \in [Workers -> {"none", "lock", "waiting", "run", "exited", "joined"}]
      /\ pc \in [Actors -> {"idle", "request", "join", "clear", "return", "destroy"}]
      /\ join \in [Actors -> Nat] /\ created_thread_count_ \in Nat
      /\ Owner \in Actors /\ Owner \notin Callers /\ Callers \subseteq Actors
  BY DEF IndInv, PoolInv, TypeOK, Actors
<1>2. UNCHANGED <<queues, wtask, phase, mutex_initialized_>>
  BY DEF StopCheck, StopStep, StopRequest, StopJoin, StopJoined, StopClearCount,
     StopReturn, StopJoinSelf, StopJoinMutual, JoinFails, sync, workers
<1>3. UNCHANGED <<pending_queue_, taken>>
  BY <1>2 DEF queues
<1>4. CASE StopCheck(a)
  <2>1. UNCHANGED <<wpc, join, self_stopped, created_thread_count_, stop_requested_>>
    BY <1>4 DEF StopCheck, workers, flags
  <2>2. RunOnce' /\ NoLostWakeup'
    BY <1>2, <1>3, <2>1 DEF IndInv, PoolInv, RunOnce, NoLostWakeup
  <2>3. \A w \in Workers : ~mutex_initialized_ \/ created_thread_count_ = 0 => ~Awaited(w)
    BY <1>1 DEF IndInv, PoolInv, Lifecycle, NoUseAfterDestroy, Awaited, Live, Workers
  <2>4. Lifecycle'
    BY <1>1, <1>2, <1>4, <2>1, <2>3
       DEF IndInv, PoolInv, Lifecycle, NoUseAfterDestroy, Awaited, Live, StopCheck, MayStop, AfterStop, Workers
  <2>5. QED BY <1>2, <2>2, <2>4, QueuesUnchanged DEF IndInv, PoolInv
<1>5. CASE StopRequest(a)
  <2>1. RunOnce'
    BY <1>1, <1>2, <1>3, <1>5 DEF IndInv, PoolInv, RunOnce, StopRequest, Broadcast
  <2>2. NoLostWakeup'
    BY <1>1, <1>3, <1>5 DEF IndInv, PoolInv, NoLostWakeup, StopRequest, Broadcast
  <2>3. Lifecycle'
    BY <1>1, <1>2, <1>5 DEF IndInv, PoolInv, Lifecycle, NoUseAfterDestroy, Awaited, Live,
       StopRequest, Broadcast, Workers
  <2>4. QED BY <1>2, <2>1, <2>2, <2>3, QueuesUnchanged DEF IndInv, PoolInv
<1>6. CASE StopJoin(a)
  <2>1. /\ ~Awaited(join[a]) /\ pc[a] = "join" /\ wpc[join[a]] \in {"exited", "joined"}
        /\ \A w \in Workers : wpc'[w] = wpc[w] \/ (w = join[a] /\ wpc'[w] = "joined")
        /\ join' = [join EXCEPT ![a] = join[a] + 1]
        /\ UNCHANGED <<pc, self_stopped, created_thread_count_, stop_requested_>>
    BY <1>1, <1>6 DEF StopJoin, Joining, flags, Awaited, Live
  <2>2. RunOnce' /\ NoLostWakeup'
    BY <1>1, <1>2, <1>3, <2>1 DEF IndInv, PoolInv, RunOnce, NoLostWakeup, Live
  <2>3. ASSUME NEW w \in Workers, Awaited(w)' PROVE Awaited(w) /\ w # join[a]
    BY <2>1, <2>3 DEF Awaited, Live
  <2>4. \A b \in Actors, w \in Workers : pc'[b] = "join" /\ Awaited(w)' => join'[b] <= w
    BY <1>1, <2>1, <2>3 DEF IndInv, PoolInv, Lifecycle, Workers
  <2>5. Lifecycle'
    BY <1>1, <1>2, <2>1, <2>3, <2>4 DEF IndInv, PoolInv, Lifecycle, NoUseAfterDestroy, Awaited, Live
  <2>6. QED BY <1>2, <2>2, <2>5, QueuesUnchanged DEF IndInv, PoolInv
<1>7. CASE StopJoined(a)
  <2>1. /\ UNCHANGED <<wpc, join, self_stopped, created_thread_count_, stop_requested_>>
        /\ pc[a] = "join" /\ join[a] > created_thread_count_
        /\ pc' = [pc EXCEPT ![a] = "clear"]
    BY <1>7 DEF StopJoined, JoinLoopOver, workers, flags
  <2>2. RunOnce' /\ NoLostWakeup'
    BY <1>2, <1>3, <2>1 DEF IndInv, PoolInv, RunOnce, NoLostWakeup
  <2>3. \A w \in Workers : ~Awaited(w)
    BY <1>1, <2>1 DEF IndInv, PoolInv, Lifecycle, Workers
  <2>4. Lifecycle'
    BY <1>1, <1>2, <2>1, <2>3 DEF IndInv, PoolInv, Lifecycle, NoUseAfterDestroy, Awaited, Live
  <2>5. QED BY <1>2, <2>2, <2>4, QueuesUnchanged DEF IndInv, PoolInv
<1>8. CASE StopClearCount(a) \/ StopReturn(a)
  <2>1. /\ UNCHANGED <<wpc, join, self_stopped, stop_requested_>>
        /\ pc[a] \in {"clear", "return"}
        /\ \/ pc' = [pc EXCEPT ![a] = "return"]
           \/ pc' = [pc EXCEPT ![a] = AfterStop(a)]
    BY <1>8 DEF StopClearCount, StopReturn, workers
  <2>2. RunOnce' /\ NoLostWakeup'
    BY <1>2, <1>3, <2>1 DEF IndInv, PoolInv, RunOnce, NoLostWakeup
  <2>3. \A w \in Workers : ~Awaited(w)
    BY <2>1 DEF IndInv, PoolInv, Lifecycle
  <2>4. Lifecycle'
    BY <1>1, <1>2, <2>1, <2>3 DEF IndInv, PoolInv, Lifecycle, NoUseAfterDestroy, Awaited, Live, AfterStop
  <2>5. QED BY <1>2, <2>2, <2>4, QueuesUnchanged DEF IndInv, PoolInv
<1>9. CASE StopJoinSelf(a) \/ StopJoinMutual(a)
  <2>1. /\ UNCHANGED <<wpc, pc, self_stopped, created_thread_count_, stop_requested_>>
        /\ pc[a] = "join" /\ join' = [join EXCEPT ![a] = join[a] + 1]
        /\ join[a] = a \/ pc[join[a]] = "join"
    BY <1>9 DEF StopJoinSelf, StopJoinMutual, JoinFails, Joining, workers, flags
  <2>2. RunOnce' /\ NoLostWakeup'
    BY <1>2, <1>3, <2>1 DEF IndInv, PoolInv, RunOnce, NoLostWakeup
  <2>3. \A w \in Workers : w = join[a] => ~Awaited(w)
    BY <2>1 DEF IndInv, TaskStops, Awaited
  <2>4. \A b \in Actors, w \in Workers : pc'[b] = "join" /\ Awaited(w) => join'[b] <= w
    BY <1>1, <2>1, <2>3 DEF IndInv, PoolInv, Lifecycle, Workers
  <2>5. Lifecycle'
    BY <1>1, <1>2, <2>1, <2>4 DEF IndInv, PoolInv, Lifecycle, NoUseAfterDestroy, Awaited, Live
  <2>6. QED BY <1>2, <2>2, <2>5, QueuesUnchanged DEF IndInv, PoolInv
<1>10. QED
  BY <1>4, <1>5, <1>6, <1>7, <1>8, <1>9 DEF StopStep

LEMMA NextPoolInv == IndInv /\ [Next]_vars => PoolInv'
<1> SUFFICES ASSUME IndInv, [Next]_vars PROVE PoolInv'
  OBVIOUS
<1>1. TypeOK'
  BY NextTypeOK DEF IndInv, PoolInv
<1>2. /\ wpc \in [Workers -> {"none", "lock", "waiting", "run", "exited", "joined"}]
      /\ pc \in [Actors -> {"idle", "request", "join", "clear", "return", "destroy"}]
      /\ created_thread_count_ \in Nat /\ Owner \in Actors /\ Callers \subseteq Actors
      /\ Owner \notin Callers
  BY DEF IndInv, PoolInv, TypeOK, Actors
<1>3. CASE InitializeSynchronization \/ ConstructorReturn \/ CreateThreadFails \/ Destroy
  <2>1. UNCHANGED <<queues, wpc, wtask, join, self_stopped, stop_requested_, created_thread_count_>>
    BY <1>3 DEF InitializeSynchronization, ConstructorReturn, CreateThreadFails, Destroy,
       workers, flags, stopping
  <2>2. RunOnce' /\ NoLostWakeup'
    BY <2>1 DEF IndInv, PoolInv, RunOnce, NoLostWakeup, queues
  <2>3. Lifecycle'
    BY <1>2, <1>3, <2>1 DEF IndInv, PoolInv, Lifecycle, NoUseAfterDestroy, Awaited, Live,
       InitializeSynchronization, ConstructorReturn, CreateThreadFails, Destroy,
       Constructing, sync, stopping
  <2>4. QED BY <1>1, <2>1, <2>2, <2>3, QueuesUnchanged DEF IndInv, PoolInv
<1>4. CASE CreateThread
  <2>1. /\ UNCHANGED <<queues, wtask, pc, join, self_stopped, stop_requested_, phase, mutex_initialized_>>
        /\ phase = "constructing" /\ pc[Owner] = "idle" /\ mutex_initialized_
        /\ created_thread_count_' = created_thread_count_ + 1
        /\ wpc' = [wpc EXCEPT ![created_thread_count_ + 1] = "lock"]
    BY <1>4 DEF CreateThread, Constructing, sync, stopping, IndInv, PoolInv, Lifecycle
  <2>2. \A a \in Actors : pc[a] = "idle"
    BY <2>1 DEF IndInv, PoolInv, TaskStops, Lifecycle, Actors
  <2>3. RunOnce' /\ NoLostWakeup'
    BY <1>2, <2>1 DEF IndInv, PoolInv, RunOnce, NoLostWakeup, queues, Workers
  <2>4. \A w \in Workers : Awaited(w)' => w <= created_thread_count_'
    BY <1>2, <2>1 DEF IndInv, PoolInv, Lifecycle, Awaited, Live, Workers
  <2>5. Lifecycle'
    BY <2>1, <2>2, <2>4 DEF IndInv, PoolInv, Lifecycle, NoUseAfterDestroy
  <2>6. QED BY <1>1, <2>1, <2>3, <2>5, QueuesUnchanged DEF IndInv, PoolInv
<1>5. CASE Submit
  BY <1>5, SubmitIndInv
<1>6. ASSUME NEW w \in Workers, Worker(w) \/ SpuriousWakeup(w) PROVE PoolInv'
  BY <1>1, <1>6, WorkerTakeIndInv, OtherWorkerIndInv DEF Worker
<1>7. ASSUME NEW a \in Actors, StopCheck(a) \/ StopStep(a) \/ StopJoinMutual(a) PROVE PoolInv'
  BY <1>1, <1>7, StopIndInv
<1>8. CASE DestroySynchronization
  <2>1. /\ UNCHANGED <<queues, wpc, wtask, join, self_stopped, stop_requested_, created_thread_count_>>
        /\ pc[Owner] = "destroy" /\ pc' = [pc EXCEPT ![Owner] = "idle"]
        /\ phase' \in {"alive", "destroyed"} /\ (phase' = "destroyed" => phase # "constructing")
    BY <1>8 DEF DestroySynchronization, workers, flags
  <2>2. RunOnce' /\ NoLostWakeup'
    BY <2>1 DEF IndInv, PoolInv, RunOnce, NoLostWakeup, queues
  <2>3. \A w \in Workers : ~Awaited(w)
    BY <1>2, <2>1 DEF IndInv, PoolInv, Lifecycle
  <2>4. phase' # "alive" => \A c \in Callers : pc'[c] = "idle"
    BY <1>2, <1>8 DEF DestroySynchronization, IndInv, PoolInv, Lifecycle
  <2>5. Lifecycle'
    BY <1>2, <2>1, <2>3, <2>4 DEF IndInv, PoolInv, Lifecycle, NoUseAfterDestroy, Awaited, Live
  <2>6. QED BY <1>1, <2>1, <2>2, <2>5, QueuesUnchanged DEF IndInv, PoolInv
<1>9. CASE UNCHANGED vars
  <2>1. UNCHANGED <<phase, mutex_initialized_, created_thread_count_, stop_requested_,
                    queues, wpc, wtask, pc, join, self_stopped>>
    BY <1>9 DEF vars, sync, flags, workers, stopping
  <2>2. RunOnce' /\ NoLostWakeup' /\ Lifecycle'
    BY <2>1 DEF IndInv, PoolInv, RunOnce, NoLostWakeup, Lifecycle, NoUseAfterDestroy, Awaited, Live, queues
  <2>3. QED BY <1>1, <2>1, <2>2, QueuesUnchanged DEF IndInv, PoolInv
<1>10. QED
  BY <1>3, <1>4, <1>5, <1>6, <1>7, <1>8, <1>9, StoppersAct DEF Next, Destroyed

LEMMA NextTaskStops == IndInv /\ [Next]_vars => TaskStops'
<1> SUFFICES ASSUME IndInv, [Next]_vars PROVE TaskStops'
  OBVIOUS
<1>1. /\ wpc \in [Workers -> {"none", "lock", "waiting", "run", "exited", "joined"}]
      /\ pc \in [Actors -> {"idle", "request", "join", "clear", "return", "destroy"}]
      /\ created_thread_count_ \in Nat /\ Workers \subseteq Actors
      /\ Owner \in Actors /\ Owner \notin Workers
  BY DEF IndInv, PoolInv, TypeOK, Actors, Workers
<1>2. TaskStops
  BY DEF IndInv
<1>3. CASE InitializeSynchronization \/ ConstructorReturn \/ CreateThreadFails \/ Destroy
             \/ DestroySynchronization
  <2>1. /\ UNCHANGED <<wpc, self_stopped>> /\ \A w \in Workers : pc'[w] = pc[w]
        /\ pending_queue_' = pending_queue_
        /\ phase' \in {"init", "constructing"} => phase \in {"init", "constructing"}
    BY <1>1, <1>3 DEF InitializeSynchronization, ConstructorReturn, CreateThreadFails, Destroy,
       DestroySynchronization, Constructing, workers, stopping, queues
  <2>2. QED BY <1>2, <2>1 DEF TaskStops
<1>4. CASE CreateThread
  <2>1. /\ UNCHANGED <<pc, self_stopped, phase, pending_queue_>>
        /\ wpc' = [wpc EXCEPT ![created_thread_count_ + 1] = "lock"]
        /\ phase = "constructing"
    BY <1>4 DEF CreateThread, Constructing, stopping, queues
  <2>2. \A w \in Workers : wpc'[w] # "run" /\ pc[w] = "idle"
    BY <1>1, <1>2, <2>1 DEF TaskStops
  <2>3. QED BY <1>2, <2>1, <2>2 DEF TaskStops
<1>5. CASE Submit
  <2>1. /\ UNCHANGED <<pc, self_stopped, phase>>
        /\ \A w \in Workers : wpc[w] = "run" <=> wpc'[w] = "run"
    BY <1>1, <1>5 DEF Submit, Signal, stopping
  <2>2. phase \notin {"init", "constructing"}
    BY <1>2, <1>5 DEF Submit, CanCall, TaskStops
  <2>3. QED BY <1>2, <2>1, <2>2 DEF TaskStops
<1>6. ASSUME NEW w \in Workers, Worker(w) \/ SpuriousWakeup(w) PROVE TaskStops'
  <2>1. UNCHANGED <<pc, self_stopped, phase>>
    BY <1>6 DEF Worker, WorkerWait, WorkerExit, WorkerTake, WorkerTaskDone, SpuriousWakeup, stopping
  <2>2. CASE WorkerTake(w)
    <3>1. wpc' = [wpc EXCEPT ![w] = "run"] /\ phase \notin {"init", "constructing"}
      BY <1>2, <2>2 DEF WorkerTake, TaskStops
    <3>2. QED BY <1>1, <1>2, <2>1, <3>1 DEF TaskStops
  <2>3. CASE ~WorkerTake(w)
    <3>1. /\ pending_queue_' = pending_queue_ /\ pc[w] = "idle"
          /\ \E c \in {"lock", "waiting", "exited"} : wpc' = [wpc EXCEPT ![w] = c]
      BY <1>2, <1>6, <2>3
         DEF Worker, WorkerWait, WorkerExit, WorkerTaskDone, SpuriousWakeup, queues, TaskStops
    <3>2. QED BY <1>1, <1>2, <2>1, <3>1 DEF TaskStops
  <2>4. QED BY <2>2, <2>3
<1>7. ASSUME NEW a \in Actors, StopCheck(a) \/ StopStep(a) \/ StopJoinMutual(a) PROVE TaskStops'
  <2>1. UNCHANGED <<phase, pending_queue_>>
    BY <1>7 DEF StopCheck, StopStep, StopRequest, StopJoin, StopJoinSelf, StopJoinMutual, JoinFails,
       StopJoined, StopClearCount, StopReturn, queues
  <2>2. \A w \in Workers : wpc'[w] = "run" <=> wpc[w] = "run"
    BY <1>1, <1>7 DEF StopCheck, StopStep, StopRequest, StopJoin, StopJoinSelf, StopJoinMutual,
       JoinFails, Joining, StopJoined, StopClearCount, StopReturn, Broadcast, workers
  <2>3. CASE StopCheck(a)
    <3>1. self_stopped' = self_stopped /\ MayStop(a)
          /\ pc' = [pc EXCEPT ![a] = pc'[a]] /\ pc'[a] \in {"idle", "request", "destroy"}
      BY <1>1, <2>3 DEF StopCheck, AfterStop
    <3>2. a \in Workers => wpc[a] = "run"
      BY <1>1, <3>1 DEF MayStop, Workers
    <3>3. QED BY <1>1, <1>2, <2>1, <2>2, <3>1, <3>2 DEF TaskStops
  <2>4. CASE StopRequest(a)
    <3>1. pc[a] = "request" /\ pc' = [pc EXCEPT ![a] = "join"]
          /\ self_stopped' = self_stopped \cup ({a} \cap Workers)
      BY <2>4 DEF StopRequest
    <3>2. QED BY <1>1, <1>2, <2>1, <2>2, <3>1 DEF TaskStops
  <2>5. CASE StopJoin(a) \/ StopJoinSelf(a) \/ StopJoinMutual(a)
    <3>1. UNCHANGED <<pc, self_stopped>>
      BY <2>5 DEF StopJoin, StopJoinSelf, StopJoinMutual, JoinFails
    <3>2. QED BY <1>2, <2>1, <2>2, <3>1 DEF TaskStops
  <2>6. CASE StopJoined(a) \/ StopClearCount(a) \/ StopReturn(a)
    <3>1. /\ self_stopped' = self_stopped /\ pc[a] \in {"join", "clear", "return"}
          /\ pc' = [pc EXCEPT ![a] = pc'[a]]
      BY <1>1, <2>6 DEF StopJoined, StopClearCount, StopReturn
    <3>2. QED BY <1>1, <1>2, <2>1, <2>2, <3>1 DEF TaskStops
  <2>7. QED BY <1>7, <2>3, <2>4, <2>5, <2>6 DEF StopStep
<1>8. CASE UNCHANGED vars
  BY <1>2, <1>8 DEF vars, workers, stopping, queues, TaskStops
<1>9. QED
  BY <1>3, <1>4, <1>5, <1>6, <1>7, <1>8, StoppersAct DEF Next, Destroyed

LEMMA NextIndInv == IndInv /\ [Next]_vars => IndInv'
  BY NextPoolInv, NextTaskStops DEF IndInv

LEMMA IndInvInvariant == Spec => []IndInv
  BY InitIndInv, NextIndInv, PTL DEF Spec

(* No slot is lost, duplicated or shared between the two queues, whatever  *)
(* the interleaving of submit() calls and workers.                         *)
THEOREM ThreadPoolSlotsAccounted == Spec => []SlotsAccounted
<1>1. IndInv => SlotsAccounted
  BY DEF IndInv, PoolInv, QueueInv
<1>2. QED BY <1>1, IndInvInvariant, PTL

(* Tasks leave the queue in submission order and every accepted task is in *)
(* the queue until a worker takes it.                                      *)
THEOREM ThreadPoolPendingInOrder == Spec => []PendingInOrder
<1>1. IndInv => PendingInOrder
  BY DEF IndInv, PoolInv, QueueInv
<1>2. QED BY <1>1, IndInvInvariant, PTL

(* No task is executed by two workers. *)
THEOREM ThreadPoolRunOnce == Spec => []RunOnce
<1>1. IndInv => RunOnce
  BY DEF IndInv, PoolInv
<1>2. QED BY <1>1, IndInvInvariant, PTL

(* The single pthread_cond_signal per submission and the broadcast of      *)
(* stop() are enough: all workers never sleep over queued work or over a   *)
(* stop request.                                                           *)
THEOREM ThreadPoolNoLostWakeup == Spec => []NoLostWakeup
<1>1. IndInv => NoLostWakeup
  BY DEF IndInv, PoolInv
<1>2. QED BY <1>1, IndInvInvariant, PTL

(* The mutex is destroyed only when every worker that may use it again has *)
(* exited, even when several threads and tasks run stop() at once or the   *)
(* construction fails half way; the workers whose task called stop() are   *)
(* the only ones that can be left behind.                                  *)
THEOREM ThreadPoolNoUseAfterDestroy == Spec => []NoUseAfterDestroy
<1>1. IndInv => NoUseAfterDestroy
  BY DEF IndInv, PoolInv, Lifecycle
<1>2. QED BY <1>1, IndInvInvariant, PTL

(* The workers that never stop their own pool. *)
OnlyStoppersStop ==
    \A w \in Workers \ Stoppers : pc[w] = "idle" /\ w \notin self_stopped

LEMMA OnlyStoppersStopInvariant == Spec => []OnlyStoppersStop
<1>1. Init => OnlyStoppersStop
  BY DEF Init, OnlyStoppersStop, Actors
<1>2. IndInv /\ OnlyStoppersStop /\ [Next]_vars => OnlyStoppersStop'
  <2> SUFFICES ASSUME IndInv, OnlyStoppersStop, [Next]_vars,
                      NEW w \in Workers, w \notin Stoppers
               PROVE  pc'[w] = "idle" /\ w \notin self_stopped'
    BY DEF OnlyStoppersStop
  <2>1. /\ pc[w] = "idle" /\ w \notin self_stopped /\ w # Owner /\ w \in Actors
        /\ pc \in [Actors -> {"idle", "request", "join", "clear", "return", "destroy"}]
    BY DEF OnlyStoppersStop, IndInv, PoolInv, TypeOK, Actors, Workers
  <2>2. CASE UNCHANGED vars
    BY <2>1, <2>2 DEF vars, stopping
  <2>3. CASE \E a \in Stoppers \cup {Owner} : StopCheck(a)
    <3>1. PICK a \in Stoppers \cup {Owner} : StopCheck(a)
      BY <2>3
    <3>2. QED BY <2>1, <3>1 DEF StopCheck
  <2>4. CASE \E a \in Actors : StopStep(a) \/ StopJoinMutual(a)
    <3>1. PICK a \in Actors : StopStep(a) \/ StopJoinMutual(a)
      BY <2>4
    <3>2. a # w /\ (self_stopped' = self_stopped \/ self_stopped' = self_stopped \cup ({a} \cap Workers))
      BY <2>1, <3>1 DEF StopStep, StopRequest, StopJoin, StopJoinSelf, StopJoinMutual, JoinFails,
         Joining, StopJoined, StopClearCount, StopReturn
    <3>3. pc'[w] = pc[w]
      BY <2>1, <3>1, <3>2 DEF StopStep, StopRequest, StopJoin, StopJoinSelf, StopJoinMutual,
         JoinFails, StopJoined, StopClearCount, StopReturn
    <3>4. QED BY <2>1, <3>2, <3>3
  <2>5. CASE CreateThreadFails \/ DestroySynchronization
    BY <2>1, <2>5 DEF CreateThreadFails, DestroySynchronization
  <2>6. CASE \/ InitializeSynchronization \/ CreateThread \/ ConstructorReturn \/ Submit \/ Destroy
             \/ \E v \in Workers : Worker(v) \/ SpuriousWakeup(v)
    BY <2>1, <2>6 DEF InitializeSynchronization, CreateThread, ConstructorReturn, Submit, Destroy,
       Worker, WorkerWait, WorkerExit, WorkerTake, WorkerTaskDone, SpuriousWakeup, stopping
  <2>7. QED BY <2>2, <2>3, <2>4, <2>5, <2>6 DEF Next, Destroyed
<1>3. QED BY <1>1, <1>2, IndInvInvariant, PTL DEF Spec

(* In a pool none of whose tasks calls stop(), no worker at all outlives   *)
(* the mutex and the condition variable.                                   *)
THEOREM ThreadPoolExitBeforeDestroy ==
  ASSUME Stoppers \subseteq Callers
  PROVE  Spec => [](~mutex_initialized_ =>
                       \A w \in Workers : wpc[w] \in {"none", "exited", "joined"})
<1>1. \A w \in Workers : w \notin Stoppers
  BY DEF Workers
<1>2. NoUseAfterDestroy /\ OnlyStoppersStop =>
         (~mutex_initialized_ => \A w \in Workers : wpc[w] \in {"none", "exited", "joined"})
  BY <1>1 DEF NoUseAfterDestroy, OnlyStoppersStop
<1>3. QED BY <1>2, ThreadPoolNoUseAfterDestroy, OnlyStoppersStopInvariant, PTL

(* After a stop request nothing is accepted and nothing is taken, and the  *)
(* request is never withdrawn.                                             *)
THEOREM ThreadPoolStopIsFinal == Spec => StopIsFinal
<1>1. [Next]_vars => [stop_requested_ => stop_requested_' /\ taken' = taken /\ accepted' = accepted]_vars
  <2> SUFFICES ASSUME Next, stop_requested_
               PROVE  stop_requested_' /\ taken' = taken /\ accepted' = accepted
    OBVIOUS
  <2>1. CASE \E w \in Workers : Worker(w) \/ SpuriousWakeup(w)
    BY <2>1 DEF Worker, WorkerWait, WorkerExit, WorkerTake, WorkerTaskDone, SpuriousWakeup, flags, queues
  <2>2. CASE \E a \in Actors : StopCheck(a) \/ StopStep(a) \/ StopJoinMutual(a)
    BY <2>2 DEF StopCheck, StopStep, StopRequest, StopJoin, StopJoined, StopClearCount,
       StopReturn, StopJoinSelf, StopJoinMutual, JoinFails, flags, queues
  <2>3. CASE InitializeSynchronization \/ CreateThread \/ CreateThreadFails
               \/ ConstructorReturn \/ Destroy \/ DestroySynchronization \/ Destroyed
    BY <2>3 DEF InitializeSynchronization, CreateThread, CreateThreadFails, ConstructorReturn,
       Destroy, DestroySynchronization, Destroyed, vars, flags, queues
  <2>4. ~Submit
    BY DEF Submit, Accepts
  <2>5. QED
    BY <2>1, <2>2, <2>3, <2>4, StoppersAct DEF Next
<1>2. QED BY <1>1, PTL DEF Spec, StopIsFinal
=============================================================================
