----------------------------- MODULE ThreadPool -----------------------------
(***************************************************************************)
(* castle::events::thread_pool (castle 2.0, events/thread_pool.hpp): a     *)
(* fixed set of pthread workers, a table of task slots, a free queue and a *)
(* pending queue of slot indices, one mutex and one condition variable.    *)
(*                                                                         *)
(* Every section the code runs between pthread_mutex_lock and              *)
(* pthread_mutex_unlock is one action: all the state it touches is only    *)
(* written there.  What stop() does outside the mutex (reading running_    *)
(* and created_thread_count_, joining, clearing the flags) is one action   *)
(* per access, so that calls of several threads interleave there.          *)
(*                                                                         *)
(* A task is identified by the order in which submit() accepted it.        *)
(***************************************************************************)
EXTENDS Integers, Sequences, SequencesExt

CONSTANTS ThreadCount,       \* template parameter: number of worker threads
          PendingTaskCount,  \* template parameter: number of task slots
          Callers,           \* threads that share the constructed pool
          Stoppers,          \* callers, and workers in a task, that call stop()
          Owner,             \* the thread that constructs and destroys it
          MaxTasks,          \* bound: submissions accepted in a behaviour
          MayFail            \* pthread calls that may fail in the constructor

ASSUME ThreadPoolAssumption ==
    /\ ThreadCount \in Nat \ {0}          \* static_assert of the class
    /\ PendingTaskCount \in Nat \ {0}     \* static_assert of the class
    /\ Stoppers \subseteq Callers \cup (1 .. ThreadCount)
    /\ Owner \notin Callers
    /\ (Callers \cup {Owner}) \cap (1 .. ThreadCount) = {}
    /\ MaxTasks \in Nat
    /\ MayFail \subseteq {"mutex", "cond", "create"}

Workers == 1 .. ThreadCount
Slots   == 1 .. PendingTaskCount
Actors  == Callers \cup {Owner} \cup Workers      \* a worker through its task
NoTask  == 0

VARIABLES phase,                  \* life of the object
          mutex_initialized_, condition_initialized_,
          running_, stop_requested_, created_thread_count_,
          free_queue_, pending_queue_,   \* sequences of slots
          tasks_,                 \* slot -> the task it holds
          accepted, taken,        \* how many tasks were queued, dequeued
          wpc, wtask,             \* where a worker is; the task it runs
          pc, join,               \* where a stop() call is; its loop index i
          self_stopped            \* history: workers whose task requested a stop

sync     == <<mutex_initialized_, condition_initialized_>>
queues   == <<free_queue_, pending_queue_, tasks_, accepted, taken>>
workers  == <<wpc, wtask>>
stopping == <<pc, join, self_stopped>>
flags    == <<running_, stop_requested_, created_thread_count_>>
vars     == <<phase, sync, flags, queues, workers, stopping>>

TypeOK ==
    /\ phase \in {"init", "constructing", "alive", "destroying", "destroyed"}
    /\ mutex_initialized_ \in BOOLEAN /\ condition_initialized_ \in BOOLEAN
    /\ running_ \in BOOLEAN /\ stop_requested_ \in BOOLEAN
    /\ created_thread_count_ \in 0 .. ThreadCount
    /\ free_queue_ \in Seq(Slots) /\ pending_queue_ \in Seq(Slots)
    /\ tasks_ \in [Slots -> Nat]
    /\ accepted \in Nat /\ taken \in Nat
    /\ wpc \in [Workers -> {"none", "lock", "waiting", "run", "exited", "joined"}]
    /\ wtask \in [Workers -> Nat]
    /\ pc \in [Actors -> {"idle", "request", "join", "clear", "return", "destroy"}]
    /\ join \in [Actors -> Nat]
    /\ self_stopped \subseteq Workers

(* The constructor's member initialisers and its first loop, which pushes  *)
(* every slot index into the free queue.                                   *)
Init ==
    /\ phase = "init"
    /\ mutex_initialized_ = FALSE /\ condition_initialized_ = FALSE
    /\ running_ = FALSE /\ stop_requested_ = FALSE
    /\ created_thread_count_ = 0
    /\ free_queue_ = [i \in Slots |-> i] /\ pending_queue_ = <<>>
    /\ tasks_ = [s \in Slots |-> NoTask]
    /\ accepted = 0 /\ taken = 0
    /\ wpc = [w \in Workers |-> "none"] /\ wtask = [w \in Workers |-> NoTask]
    /\ pc = [a \in Actors |-> "idle"] /\ join = [a \in Actors |-> 0]
    /\ self_stopped = {}

-----------------------------------------------------------------------------
(* Construction *)

(* initialize_synchronization(); when either init call fails the           *)
(* constructor returns an object without synchronization.                  *)
InitializeSynchronization ==
    /\ phase = "init"
    /\ \/ /\ mutex_initialized_' = TRUE /\ condition_initialized_' = TRUE
          /\ phase' = "constructing"
       \/ /\ MayFail \cap {"mutex", "cond"} # {}
          /\ phase' = "alive"
          /\ UNCHANGED sync
    /\ UNCHANGED <<flags, queues, workers, stopping>>

Constructing == phase = "constructing" /\ pc[Owner] = "idle"

CreateLoopGoesOn == created_thread_count_ < ThreadCount

(* One successful turn of the pthread_create loop: the worker may run from *)
(* here on, while the constructor is still going.                          *)
CreateThread ==
    /\ Constructing
    /\ CreateLoopGoesOn
    /\ created_thread_count_' = created_thread_count_ + 1
    /\ wpc' = [wpc EXCEPT ![created_thread_count_ + 1] = "lock"]
    /\ UNCHANGED <<phase, sync, running_, stop_requested_, queues, wtask, stopping>>

(* running_ = true, the constructor's last statement. *)
ConstructorReturn ==
    /\ Constructing
    /\ ~CreateLoopGoesOn
    /\ running_' = TRUE
    /\ phase' = "alive"
    /\ UNCHANGED <<sync, stop_requested_, created_thread_count_, queues, workers, stopping>>

(* pthread_create fails: shutdown_created_threads().  It returns at once   *)
(* when no thread was created; otherwise it does what stop() does after    *)
(* its first checks, and then destroys the synchronization objects.        *)
CreateThreadFails ==
    /\ Constructing
    /\ "create" \in MayFail
    /\ CreateLoopGoesOn
    /\ IF created_thread_count_ = 0
         THEN phase' = "alive" /\ pc' = pc
         ELSE phase' = phase /\ pc' = [pc EXCEPT ![Owner] = "request"]
    /\ UNCHANGED <<sync, flags, queues, workers, join, self_stopped>>

-----------------------------------------------------------------------------
(* submit() *)

(* A user of the pool, or a task one of its workers is executing. *)
CanCall == phase = "alive" \/ \E w \in Workers : wpc[w] = "run"

Accepts == mutex_initialized_ /\ ~stop_requested_ /\ free_queue_ # <<>>
               /\ Len(pending_queue_) < PendingTaskCount

Signal_Forgotten(pcs) == {pcs}
(* pthread_cond_signal: wakes one waiter if there is one. *)
Signal(pcs) ==
    LET sleeping == {w \in Workers : pcs[w] = "waiting"}
    IN  IF sleeping = {} THEN {pcs}
                         ELSE {[pcs EXCEPT ![w] = "lock"] : w \in sleeping}

Enqueue_Lifo(slot) == <<slot>> \o pending_queue_
Enqueue(slot) == Append(pending_queue_, slot)

(* A rejected submit() changes nothing; an accepted one moves the task     *)
(* into the first free slot, queues the slot and signals.                  *)
Submit ==
    /\ CanCall
    /\ accepted < MaxTasks
    /\ Accepts
    /\ LET slot == Head(free_queue_)
       IN  /\ free_queue_' = Tail(free_queue_)
           /\ tasks_' = [tasks_ EXCEPT ![slot] = accepted + 1]
           /\ pending_queue_' = Enqueue(slot)
    /\ accepted' = accepted + 1
    /\ wpc' \in Signal(wpc)
    /\ UNCHANGED <<phase, sync, flags, taken, wtask, stopping>>

-----------------------------------------------------------------------------
(* worker_loop() *)

(* The inner while: nothing to do, so the worker sleeps on the condition   *)
(* variable (which releases the mutex in the same step).                   *)
WorkerWait(w) ==
    /\ wpc[w] = "lock"
    /\ pending_queue_ = <<>> /\ ~stop_requested_
    /\ wpc' = [wpc EXCEPT ![w] = "waiting"]
    /\ UNCHANGED <<phase, sync, flags, queues, wtask, stopping>>

(* pthread_cond_wait may return without a signal; the loop tests again.    *)
SpuriousWakeup(w) ==
    /\ wpc[w] = "waiting"
    /\ wpc' = [wpc EXCEPT ![w] = "lock"]
    /\ UNCHANGED <<phase, sync, flags, queues, wtask, stopping>>

(* stop_requested_ is tested before the queue: queued tasks are left.      *)
WorkerExit(w) ==
    /\ wpc[w] = "lock"
    /\ stop_requested_
    /\ wpc' = [wpc EXCEPT ![w] = "exited"]
    /\ UNCHANGED <<phase, sync, flags, queues, wtask, stopping>>

Dequeue == Tail(pending_queue_)

Recycle_Leak(slot) == free_queue_
Recycle(slot) == Append(free_queue_, slot)

(* Pop the oldest pending slot, move the task out, recycle the slot before *)
(* the task runs.                                                          *)
WorkerTake(w) ==
    /\ wpc[w] = "lock"
    /\ ~stop_requested_ /\ pending_queue_ # <<>>
    /\ LET slot == Head(pending_queue_)
       IN  /\ pending_queue_' = Dequeue
           /\ wtask' = [wtask EXCEPT ![w] = tasks_[slot]]
           /\ tasks_' = [tasks_ EXCEPT ![slot] = NoTask]
           /\ free_queue_' = Recycle(slot)
    /\ taken' = taken + 1
    /\ wpc' = [wpc EXCEPT ![w] = "run"]
    /\ UNCHANGED <<phase, sync, flags, accepted, stopping>>

(* task() returns, outside the mutex, once a stop() it called has returned. *)
WorkerTaskDone(w) ==
    /\ wpc[w] = "run" /\ pc[w] = "idle"
    /\ wpc' = [wpc EXCEPT ![w] = "lock"]
    /\ wtask' = [wtask EXCEPT ![w] = NoTask]
    /\ UNCHANGED <<phase, sync, flags, queues, stopping>>

Worker(w) == WorkerWait(w) \/ WorkerExit(w) \/ WorkerTake(w) \/ WorkerTaskDone(w)

-----------------------------------------------------------------------------
(* stop(), the tail of shutdown_created_threads(), and the destructor *)

(* Where a thread is when its stop sequence is over: the owner goes on to  *)
(* destroy_synchronization().                                              *)
AfterStop(a) == IF a = Owner THEN "destroy" ELSE "idle"

(* ~thread_pool() starts; C++ allows it once no other call is in progress. *)
(* The owner sees the callers' calls, not those its workers' tasks make.   *)
Destroy ==
    /\ phase = "alive"
    /\ \A c \in Callers : pc[c] = "idle"
    /\ phase' = "destroying"
    /\ UNCHANGED <<sync, flags, queues, workers, stopping>>

(* Who may call stop(): the destructor, a user of the living pool, and a   *)
(* task on the worker that runs it, at any time.                           *)
MayStop(a) == \/ a = Owner /\ phase = "destroying"
              \/ a \in Callers /\ phase = "alive"
              \/ a \in Workers /\ wpc[a] = "run"

(* The unlocked tests at the top of stop(). *)
StopCheck(a) ==
    /\ pc[a] = "idle"
    /\ MayStop(a)
    /\ pc' = [pc EXCEPT ![a] =
                IF ~mutex_initialized_ \/ (~running_ /\ created_thread_count_ = 0)
                  THEN AfterStop(a) ELSE "request"]
    /\ UNCHANGED <<phase, sync, flags, queues, workers, join, self_stopped>>

Broadcast_Forgotten == wpc
(* pthread_cond_broadcast *)
Broadcast == [w \in Workers |-> IF wpc[w] = "waiting" THEN "lock" ELSE wpc[w]]

(* Under the mutex: request the stop and broadcast. *)
StopRequest(a) ==
    /\ pc[a] = "request"
    /\ stop_requested_' = TRUE
    /\ wpc' = Broadcast
    /\ pc' = [pc EXCEPT ![a] = "join"]
    /\ join' = [join EXCEPT ![a] = 1]
    /\ self_stopped' = self_stopped \cup ({a} \cap Workers)
    /\ UNCHANGED <<phase, sync, running_, created_thread_count_, queues, wtask>>

Joining(a) == pc[a] = "join" /\ join[a] <= created_thread_count_

(* pthread_join(threads_[i]) blocks until the worker has exited.  A second *)
(* join of the same thread is undefined; here it returns an error.         *)
StopJoin(a) ==
    /\ Joining(a)
    /\ wpc[join[a]] \in {"exited", "joined"}
    /\ wpc' = [wpc EXCEPT ![join[a]] = "joined"]
    /\ join' = [join EXCEPT ![a] = @ + 1]
    /\ UNCHANGED <<phase, sync, flags, queues, wtask, pc, self_stopped>>

JoinFails(a) ==
    /\ Joining(a)
    /\ join' = [join EXCEPT ![a] = @ + 1]
    /\ UNCHANGED <<phase, sync, flags, queues, workers, pc, self_stopped>>

(* stop() called by a task joins the worker that runs it: EDEADLK, and the *)
(* loop goes on to the next worker.                                        *)
StopJoinSelf(a) == join[a] = a /\ JoinFails(a)

(* A worker joins another whose task is joining it: pthread_join may       *)
(* detect that too, or block for ever.                                     *)
StopJoinMutual(a) ==
    /\ a \in Workers /\ Joining(a) /\ join[a] # a
    /\ Joining(join[a]) /\ join[join[a]] = a
    /\ JoinFails(a)

JoinLoopOver_NoJoin(a) == TRUE
JoinLoopOver(a) == join[a] > created_thread_count_

(* The loop is over: created_thread_count_ = 0, then running_ = false,     *)
(* both written without the mutex.                                         *)
StopJoined(a) ==
    /\ pc[a] = "join"
    /\ JoinLoopOver(a)
    /\ pc' = [pc EXCEPT ![a] = "clear"]
    /\ UNCHANGED <<phase, sync, flags, queues, workers, join, self_stopped>>

StopClearCount(a) ==
    /\ pc[a] = "clear"
    /\ created_thread_count_' = 0
    /\ pc' = [pc EXCEPT ![a] = "return"]
    /\ UNCHANGED <<phase, sync, running_, stop_requested_, queues, workers, join, self_stopped>>

StopReturn(a) ==
    /\ pc[a] = "return"
    /\ running_' = FALSE
    /\ pc' = [pc EXCEPT ![a] = AfterStop(a)]
    /\ UNCHANGED <<phase, sync, stop_requested_, created_thread_count_, queues, workers, join, self_stopped>>

StopStep(a) == StopRequest(a) \/ StopJoin(a) \/ StopJoinSelf(a) \/ StopJoined(a)
                   \/ StopClearCount(a) \/ StopReturn(a)

(* destroy_synchronization(), called by the destructor and by a failed     *)
(* construction; the latter leaves an object whose methods all decline.    *)
DestroySynchronization ==
    /\ pc[Owner] = "destroy"
    /\ mutex_initialized_' = FALSE /\ condition_initialized_' = FALSE
    /\ pc' = [pc EXCEPT ![Owner] = "idle"]
    /\ phase' = IF phase = "constructing" THEN "alive" ELSE "destroyed"
    /\ UNCHANGED <<flags, queues, workers, join, self_stopped>>

Destroyed == phase = "destroyed" /\ UNCHANGED vars

Next ==
    \/ InitializeSynchronization \/ CreateThread \/ CreateThreadFails
    \/ ConstructorReturn
    \/ Submit
    \/ \E w \in Workers : Worker(w) \/ SpuriousWakeup(w)
    \/ \E a \in Stoppers : StopCheck(a)
    \/ Destroy \/ StopCheck(Owner)
    \/ \E a \in Actors : StopStep(a) \/ StopJoinMutual(a)
    \/ DestroySynchronization
    \/ Destroyed

Spec == Init /\ [][Next]_vars

(* Every started thread keeps running: workers, whose tasks return, the    *)
(* constructor, the destructor once it has begun, and every stop() call.   *)
(* Nobody is obliged to submit, to call stop() or to destroy the pool.     *)
Fairness ==
    /\ WF_vars(InitializeSynchronization \/ CreateThread \/ ConstructorReturn)
    /\ \A w \in Workers : WF_vars(Worker(w))
    /\ WF_vars(StopCheck(Owner)) /\ WF_vars(DestroySynchronization)
    /\ \A a \in Actors : WF_vars(StopStep(a))

FairSpec == Spec /\ Fairness

-----------------------------------------------------------------------------
(* running(), queued() and available(): what a caller observes *)

running   == mutex_initialized_ /\ running_ /\ ~stop_requested_
queued    == IF mutex_initialized_ THEN Len(pending_queue_) ELSE 0
available == IF mutex_initialized_ THEN Len(free_queue_) ELSE 0

-----------------------------------------------------------------------------
(* Properties *)

(* Slot accounting between submit() and worker_loop(): at every moment the *)
(* free queue and the pending queue together hold every slot index exactly *)
(* once, and a slot holds a task exactly while it is pending.  So no slot  *)
(* leaks, none is handed to two submissions, and both pushes inside the    *)
(* critical sections always find room.                                     *)
SlotsAccounted ==
    /\ IsInjective(free_queue_) /\ IsInjective(pending_queue_)
    /\ ToSet(free_queue_) \cap ToSet(pending_queue_) = {}
    /\ ToSet(free_queue_) \cup ToSet(pending_queue_) = Slots
    /\ \A s \in Slots : tasks_[s] # NoTask <=> s \in ToSet(pending_queue_)

(* The pending queue holds exactly the accepted tasks that no worker took  *)
(* yet, oldest first; a worker executes only tasks taken earlier, and no   *)
(* two workers execute the same one.  Hence tasks start in submission      *)
(* order, each at most once, and none disappears from the queue.           *)
PendingInOrder ==
    /\ taken <= accepted
    /\ Len(pending_queue_) = accepted - taken
    /\ \A i \in 1 .. Len(pending_queue_) : tasks_[pending_queue_[i]] = taken + i

RunOnce ==
    /\ \A w \in Workers : wpc[w] = "run" => wtask[w] \in 1 .. taken
    /\ \A v, w \in Workers :
           wpc[v] = "run" /\ wpc[w] = "run" /\ wtask[v] = wtask[w] => v = w

(* No lost wakeup: the pool never has a queued task, or a requested stop,  *)
(* with every worker asleep on the condition variable (after a stop        *)
(* request, with any worker asleep).                                       *)
NoLostWakeup ==
    /\ stop_requested_ => \A w \in Workers : wpc[w] # "waiting"
    /\ pending_queue_ # <<>> /\ (\E w \in Workers : wpc[w] = "waiting")
           => \E w \in Workers : wpc[w] \in {"lock", "run"}

(* The mutex and the condition variable are destroyed only after every     *)
(* worker that could still lock or wait on them has exited, and a          *)
(* destroyed pool is never used again: but for the workers whose own task  *)
(* called stop().  Such a call cannot join its worker, clears the count    *)
(* and running_ all the same (263-264), and so makes the destructor's      *)
(* stop() return at its first test (239) while that worker is alive.       *)
NoUseAfterDestroy ==
    ~mutex_initialized_ =>
        \A w \in Workers \ self_stopped : wpc[w] \in {"none", "exited", "joined"}

(* A stop request is final: after stop() has set stop_requested_ no worker *)
(* takes another task and no submission is accepted, whoever the caller.   *)
StopIsFinal ==
    [][stop_requested_ => stop_requested_' /\ taken' = taken /\ accepted' = accepted]_vars

(* pthread_join is called at most once for each worker, and never by two   *)
(* threads at a time: what POSIX requires of stop()'s join loop.           *)
JoinedOnce ==
    \A a \in Actors : pc[a] = "join" /\ join[a] <= created_thread_count_ =>
        /\ wpc[join[a]] # "joined"
        /\ \A b \in Actors \ {a} : ~(pc[b] = "join" /\ join[b] = join[a])

(* A task accepted by a pool that has workers is eventually taken by one   *)
(* unless a stop is requested: wakeups are neither lost nor given to a     *)
(* worker that cannot act on them.                                         *)
AcceptedIsTaken ==
    \A t \in 1 .. MaxTasks :
        accepted >= t /\ running_ ~> (taken >= t \/ stop_requested_)

(* Two tasks in stop() at once may be waiting for each other's worker. *)
TasksJoinEachOther == \E v, w \in Workers : v # w /\ pc[v] = "join" /\ pc[w] = "join"

(* stop() returns: every worker notices the request and exits, so the      *)
(* joins of a stop() call, of a task that stops its own pool, of the       *)
(* destructor or of a failed construction end.                             *)
StopTerminates ==
    \A a \in Actors : pc[a] # "idle" ~> pc[a] = "idle" \/ TasksJoinEachOther
=============================================================================
