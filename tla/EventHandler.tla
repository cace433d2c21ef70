---------------------------- MODULE EventHandler ----------------------------
(***************************************************************************)
(* castle::events::event_handler (castle 2.0, events/event_handler.hpp):   *)
(* one pthread worker that runs immediate, delayed and repeated callbacks  *)
(* from a bounded table of event slots, ordered by due time.               *)
(*                                                                         *)
(* A section between pthread_mutex_lock and pthread_mutex_unlock is one    *)
(* action; the callback runs between two of them.  The min-heap            *)
(* scheduled_queue_ is the set of its nodes.  An event is identified by    *)
(* the order in which it was accepted.  Time is a tick counter (steady     *)
(* clock: it never goes back).                                             *)
(*                                                                         *)
(* As the header demands, shutdown() is called by one thread at a time and *)
(* other threads do not post while it runs; the callback in flight may.    *)
(***************************************************************************)
EXTENDS Integers, Sequences, FiniteSets, SequencesExt

CONSTANTS MaxEventCount,   \* template parameter: number of event slots
          Delays,          \* delays passed to post_delayed_event (0: post_event)
          Repeats,         \* repetition counts passed to post_repeated_event
          Intervals,       \* intervals passed to post_repeated_event
          MaxEvents,       \* bound: accepted events
          MaxTime,         \* bound: the clock and every due time
          MayFail          \* whether the constructor's pthread calls may fail

ASSUME EventHandlerAssumption ==
    /\ MaxEventCount \in Nat \ {0}
    /\ Delays \subseteq Nat /\ Intervals \subseteq Nat
    /\ Repeats \subseteq Nat \ {0}     \* 0 returns ok without posting
    /\ MaxEvents \in Nat /\ MaxTime \in Nat
    /\ MayFail \in BOOLEAN

Slots == 1 .. MaxEventCount

VARIABLES phase,                            \* life of the object
          mutex_initialized_, running_, thread_created_,
          free_queue_,                      \* sequence of slots
          slots_,                           \* slot -> event_slot
          scheduled_queue_,                 \* set of event_node
          sequence_counter_,
          now,                              \* steady_clock
          wpc, wslot, deadline,             \* worker: place, slot it runs, timeout
          posted,                           \* number of accepted events
          runs,                             \* event -> times its callback started
          goal,                             \* event -> times it was to run
          last                              \* due and sequence of the last start

flags   == <<phase, mutex_initialized_, running_, thread_created_>>
queues  == <<free_queue_, slots_, scheduled_queue_, sequence_counter_>>
worker  == <<wpc, wslot, deadline>>
history == <<posted, runs, goal, last>>
vars    == <<flags, queues, now, worker, history>>

(* An event_slot; event = 0 stands for occupied = false, remaining = 0 for *)
(* repeating = false.                                                      *)
EventSlot == [event : Nat, due : Nat, interval : Nat, remaining : Nat]
EventNode == [slot : Slots, due : Nat, sequence : Nat]
EmptySlot == [event |-> 0, due |-> 0, interval |-> 0, remaining |-> 0]

TypeOK ==
    /\ phase \in {"init", "alive", "joining", "stopped"}
    /\ mutex_initialized_ \in BOOLEAN /\ running_ \in BOOLEAN /\ thread_created_ \in BOOLEAN
    /\ free_queue_ \in Seq(Slots)
    /\ slots_ \in [Slots -> EventSlot]
    /\ scheduled_queue_ \subseteq EventNode
    /\ sequence_counter_ \in Nat /\ now \in Nat
    /\ wpc \in {"none", "lock", "waiting", "timed", "run", "exited", "joined"}
    /\ wslot \in Slots /\ deadline \in Nat
    /\ posted \in Nat
    /\ runs \in [1 .. posted -> Nat] /\ goal \in [1 .. posted -> Nat]
    /\ last \in [due : Nat, sequence : Int]

Init ==
    /\ phase = "init"
    /\ mutex_initialized_ = FALSE /\ running_ = FALSE /\ thread_created_ = FALSE
    /\ free_queue_ = [i \in Slots |-> i]
    /\ slots_ = [s \in Slots |-> EmptySlot]
    /\ scheduled_queue_ = {} /\ sequence_counter_ = 0
    /\ now = 0
    /\ wpc = "none" /\ wslot = 1 /\ deadline = 0
    /\ posted = 0 /\ runs = <<>> /\ goal = <<>>
    /\ last = [due |-> 0, sequence |-> -1]

-----------------------------------------------------------------------------
(* The constructor after initialize_free_slots().  When the mutex, the     *)
(* condition variable or the thread cannot be created, the object stays    *)
(* without synchronization.  The worker reads none of the flags that are   *)
(* set after pthread_create.                                               *)
Construct ==
    /\ phase = "init"
    /\ phase' = "alive"
    /\ \/ /\ mutex_initialized_' = TRUE /\ running_' = TRUE /\ thread_created_' = TRUE
          /\ wpc' = "lock"
       \/ /\ MayFail
          /\ UNCHANGED <<mutex_initialized_, running_, thread_created_, wpc>>
    /\ UNCHANGED <<queues, now, wslot, deadline, history>>

Tick ==
    /\ now < MaxTime
    /\ now' = now + 1
    /\ UNCHANGED <<flags, queues, worker, history>>

-----------------------------------------------------------------------------
(* Posting *)

Awake_Forgotten(p) == p
(* pthread_cond_signal and pthread_cond_broadcast: the worker is the only  *)
(* thread that ever waits.                                                 *)
Awake(p) == IF p \in {"waiting", "timed"} THEN "lock" ELSE p

CanPost == phase = "alive" \/ wpc = "run"

ScheduleFull == Cardinality(scheduled_queue_) >= MaxEventCount
CanAccept == mutex_initialized_ /\ running_ /\ free_queue_ # <<>> /\ ~ScheduleFull

(* post_bound(): an accepted event takes the first free slot.  A single    *)
(* event has count 0, a repeated one has delay 0.                          *)
PostBound(delay, interval, count) ==
    /\ CanPost /\ posted < MaxEvents /\ now + delay + interval * count <= MaxTime
    /\ CanAccept
    /\ LET slot == Head(free_queue_)
           due  == now + delay
       IN  /\ free_queue_' = Tail(free_queue_)
           /\ slots_' = [slots_ EXCEPT ![slot] =
                 [event |-> posted + 1, due |-> due, interval |-> interval, remaining |-> count]]
           /\ scheduled_queue_' = scheduled_queue_ \cup
                 {[slot |-> slot, due |-> due, sequence |-> sequence_counter_]}
    /\ sequence_counter_' = sequence_counter_ + 1
    /\ wpc' = Awake(wpc)
    /\ posted' = posted + 1
    /\ runs' = Append(runs, 0)
    /\ goal' = Append(goal, IF count = 0 THEN 1 ELSE count)
    /\ UNCHANGED <<flags, now, wslot, deadline, last>>

(* post_event() and post_delayed_event() *)
PostOnce == \E d \in Delays : PostBound(d, 0, 0)

(* post_repeated_event(): the first run is due at once *)
PostRepeated == \E i \in Intervals, n \in Repeats : PostBound(0, i, n)

Post == PostOnce \/ PostRepeated

-----------------------------------------------------------------------------
(* run_loop() *)

(* "if (!running_)" after the inner wait loop *)
MustExit == ~running_

WaitForEvent ==
    /\ wpc = "lock"
    /\ running_ /\ scheduled_queue_ = {}
    /\ wpc' = "waiting"
    /\ UNCHANGED <<flags, queues, now, wslot, deadline, history>>

WorkerExit ==
    /\ wpc = "lock"
    /\ MustExit
    /\ wpc' = "exited"
    /\ UNCHANGED <<flags, queues, now, wslot, deadline, history>>

Before_DueOnly(m, n) == m.due <= n.due
(* event_node_compare: by due time, then by sequence number. *)
Before(m, n) == m.due < n.due \/ (m.due = n.due /\ m.sequence <= n.sequence)

(* scheduled_queue_.top() *)
IsTop(n) == n \in scheduled_queue_ /\ \A m \in scheduled_queue_ : Before(n, m)

(* The earliest event is not due: pthread_cond_timedwait until it is. *)
WaitUntilDue(n) ==
    /\ wpc = "lock"
    /\ ~MustExit /\ IsTop(n) /\ n.due > now
    /\ wpc' = "timed" /\ deadline' = n.due
    /\ UNCHANGED <<flags, queues, now, wslot, history>>

(* ETIMEDOUT; like every return from the wait it starts the loop again.    *)
Timeout ==
    /\ wpc = "timed" /\ now >= deadline
    /\ wpc' = "lock"
    /\ UNCHANGED <<flags, queues, now, wslot, deadline, history>>

SpuriousWakeup ==
    /\ wpc \in {"waiting", "timed"}
    /\ wpc' = "lock"
    /\ UNCHANGED <<flags, queues, now, wslot, deadline, history>>

IsDue(n) == n.due <= now

(* Pop the earliest node and start its callback, in place in its slot,     *)
(* without the mutex.                                                      *)
StartCallback(n) ==
    /\ wpc = "lock"
    /\ ~MustExit /\ IsTop(n) /\ IsDue(n)
    /\ scheduled_queue_' = scheduled_queue_ \ {n}
    /\ wpc' = "run" /\ wslot' = n.slot
    /\ runs' = [runs EXCEPT ![slots_[n.slot].event] = @ + 1]
    /\ last' = [due |-> n.due, sequence |-> n.sequence]
    /\ UNCHANGED <<flags, free_queue_, slots_, sequence_counter_, now, deadline, posted, goal>>

RepeatsAgain_OneMore(slot) == slot.remaining > 0
(* current.repeating && current.repeat_remaining > 1 *)
RepeatsAgain(slot) == slot.remaining > 1

(* add_ms(current.due, current.interval_ms): relative to the last due time *)
NextDue(slot) == slot.due + slot.interval

Recycle_Leak(s) == free_queue_
Recycle(s) == Append(free_queue_, s)

(* The callback has returned.  A repeating event is queued again in its    *)
(* own slot, even when a shutdown has meanwhile emptied the queue; any     *)
(* other event, and one the queue has no room for, gives its slot back.    *)
CallbackDone ==
    /\ wpc = "run"
    /\ LET current == slots_[wslot]
           occupied == current.event # 0
           again == occupied /\ RepeatsAgain(current)
       IN  /\ sequence_counter_' = IF again THEN sequence_counter_ + 1 ELSE sequence_counter_
           /\ \/ /\ again /\ ~ScheduleFull
                 /\ slots_' = [slots_ EXCEPT ![wslot] =
                        [event |-> current.event, due |-> NextDue(current),
                         interval |-> current.interval, remaining |-> current.remaining - 1]]
                 /\ scheduled_queue_' = scheduled_queue_ \cup
                        {[slot |-> wslot, due |-> NextDue(current), sequence |-> sequence_counter_]}
                 /\ UNCHANGED free_queue_
              \/ /\ ~(again /\ ~ScheduleFull)
                 /\ slots_' = IF occupied THEN [slots_ EXCEPT ![wslot] = EmptySlot] ELSE slots_
                 /\ free_queue_' = IF occupied THEN Recycle(wslot) ELSE free_queue_
                 /\ UNCHANGED scheduled_queue_
    /\ wpc' = "lock"
    /\ UNCHANGED <<flags, now, wslot, deadline, history>>

Worker == \/ WaitForEvent \/ WorkerExit \/ Timeout \/ CallbackDone
          \/ \E n \in scheduled_queue_ : WaitUntilDue(n) \/ StartCallback(n)

-----------------------------------------------------------------------------
(* shutdown() *)

(* The first critical section: stop, drop the queue, broadcast.            *)
RequestStop ==
    /\ running_' = FALSE
    /\ scheduled_queue_' = {}
    /\ wpc' = Awake(wpc)

(* Called by the callback itself, against the header's warning: the stop   *)
(* is requested and system_call_error returned; nothing is joined.         *)
ShutdownFromCallback ==
    /\ wpc = "run" /\ mutex_initialized_ /\ thread_created_
    /\ RequestStop
    /\ UNCHANGED <<phase, mutex_initialized_, thread_created_, free_queue_, slots_,
                   sequence_counter_, now, wslot, deadline, history>>

ShutdownRequest ==
    /\ phase = "alive" /\ mutex_initialized_ /\ thread_created_
    /\ RequestStop
    /\ phase' = "joining"
    /\ UNCHANGED <<mutex_initialized_, thread_created_, free_queue_, slots_,
                   sequence_counter_, now, wslot, deadline, history>>

ShutdownCanFinish_NoJoin == TRUE
(* pthread_join *)
ShutdownCanFinish == wpc = "exited"

(* After the join: release_all_slots_locked(), clear the flags, destroy    *)
(* the synchronization objects.  The queue is not cleared a second time.   *)
ShutdownFinish ==
    /\ phase = "joining"
    /\ ShutdownCanFinish
    /\ wpc' = IF wpc = "exited" THEN "joined" ELSE wpc
    /\ free_queue_' = [i \in Slots |-> i]
    /\ slots_' = [s \in Slots |-> EmptySlot]
    /\ thread_created_' = FALSE /\ mutex_initialized_' = FALSE
    /\ phase' = "stopped"
    /\ UNCHANGED <<running_, scheduled_queue_, sequence_counter_, now, wslot, deadline, history>>

Next == Construct \/ Tick \/ Post \/ Worker \/ SpuriousWakeup
        \/ ShutdownFromCallback \/ ShutdownRequest \/ ShutdownFinish

Spec == Init /\ [][Next]_vars

(* The worker keeps running (callbacks return), time passes, and a begun   *)
(* shutdown is completed.                                                  *)
Fairness == WF_vars(Worker) /\ WF_vars(Tick) /\ WF_vars(ShutdownFinish)

FairSpec == Spec /\ Fairness

-----------------------------------------------------------------------------
(* Properties *)

Scheduled == {n.slot : n \in scheduled_queue_}
Executing == IF wpc = "run" THEN {wslot} ELSE {}

(* "Every accepted event occupies one of MaxEventCount slots until it      *)
(* completes": while the handler runs, each slot is in exactly one of      *)
(* three places: the free queue, one node of the schedule, or under        *)
(* execution.  So the callback that runs without the mutex is never        *)
(* overwritten by a post, and the push of a repetition cannot fail.        *)
SlotsAccounted ==
    running_ =>
        /\ IsInjective(free_queue_)
        /\ \A m, n \in scheduled_queue_ : m.slot = n.slot => m = n
        /\ ToSet(free_queue_) \cap Scheduled = {}
        /\ (ToSet(free_queue_) \cup Scheduled) \cap Executing = {}
        /\ ToSet(free_queue_) \cup Scheduled \cup Executing = Slots

(* The slot of the callback being executed stays occupied by its event     *)
(* until the callback has returned, even across a shutdown.                *)
CallbackStable ==
    wpc = "run" => slots_[wslot].event # 0 /\ wslot \notin ToSet(free_queue_)

(* The worker never sleeps past work: it waits without a timeout only when *)
(* nothing is scheduled, with a timeout only until the earliest due time,  *)
(* and never once a stop was requested.                                    *)
NoOversleep ==
    /\ wpc = "waiting" => running_ /\ scheduled_queue_ = {}
    /\ wpc = "timed" => running_ /\ \A n \in scheduled_queue_ : deadline <= n.due

(* Callbacks start in the order of their due times, and in posting order   *)
(* when these are equal, over the whole life of the handler: an event      *)
(* posted later, or a repetition that is behind schedule, never overtakes. *)
StartsInDueOrder ==
    [][last' # last => ~Before(last', last)]_vars

(* No callback starts before its due time. *)
NeverEarly == last.due <= now

(* An event never runs more often than asked, and one that gave its slot   *)
(* back while the handler was running ran exactly as often as asked.       *)
RunsExactly ==
    /\ \A e \in 1 .. posted : runs[e] <= goal[e]
    /\ running_ => \A e \in 1 .. posted :
           (\A s \in Slots : slots_[s].event # e) => runs[e] = goal[e]

(* "discards every pending event": no callback starts after a stop was     *)
(* requested, though a repeating event may queue itself again.             *)
NoStartAfterStop == [][~running_ => \A e \in 1 .. posted : runs'[e] = runs[e]]_vars

(* When shutdown() destroys the mutex and the condition variable, no       *)
(* thread can use them any more.                                           *)
NoUseAfterDestroy == ~mutex_initialized_ => wpc \in {"none", "joined"}

(* Every accepted event eventually runs as often as asked, unless a stop   *)
(* is requested.                                                           *)
EventsComplete ==
    \A e \in 1 .. MaxEvents :
        (posted >= e) ~> (~running_ \/ (posted >= e /\ runs[e] = goal[e]))

(* A shutdown that has begun ends with the worker joined. *)
ShutdownTerminates == phase = "joining" ~> phase = "stopped"
=============================================================================
