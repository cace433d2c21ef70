------------------------- MODULE EventHandlerProofs -------------------------
(* Machine-checked theorems about EventHandler, for every number of slots, *)
(* every set of delays, intervals and repetition counts, and any clock.    *)
EXTENDS EventHandler, SequenceTheorems, FiniteSetTheorems, TLAPS

USE EventHandlerAssumption

-----------------------------------------------------------------------------
(* The queues of slot indices *)

(* Appending adds one element to the set of elements of a queue. *)
LEMMA AppendToSet ==
  ASSUME NEW S, NEW q \in Seq(S), NEW e \in S
  PROVE  /\ Append(q, e) \in Seq(S)
         /\ ToSet(Append(q, e)) = ToSet(q) \cup {e}
<1>1. /\ Append(q, e) \in Seq(S)
      /\ DOMAIN Append(q, e) = 1 .. Len(q) + 1
      /\ DOMAIN q = 1 .. Len(q)
      /\ \A i \in 1 .. Len(q) : Append(q, e)[i] = q[i]
      /\ Append(q, e)[Len(q) + 1] = e
      /\ Len(q) \in Nat
  BY AppendProperties
<1>2. QED
  BY <1>1 DEF ToSet

(* Appending an element that is not in the queue keeps it duplicate-free. *)
LEMMA AppendInjectiveQueue ==
  ASSUME NEW S, NEW q \in Seq(S), NEW e \in S,
         IsInjective(q), e \notin ToSet(q)
  PROVE  IsInjective(Append(q, e))
<1>1. /\ DOMAIN Append(q, e) = 1 .. Len(q) + 1
      /\ DOMAIN q = 1 .. Len(q)
      /\ \A i \in 1 .. Len(q) : Append(q, e)[i] = q[i]
      /\ Append(q, e)[Len(q) + 1] = e
      /\ Len(q) \in Nat
  BY AppendProperties
<1>2. \A i \in 1 .. Len(q) : q[i] # e
  BY <1>1 DEF ToSet
<1>3. QED
  BY <1>1, <1>2 DEF IsInjective

(* Popping the head takes exactly one element out of a duplicate-free      *)
(* queue and keeps it duplicate-free.                                      *)
LEMMA TailToSet ==
  ASSUME NEW S, NEW q \in Seq(S), q # << >>, IsInjective(q)
  PROVE  /\ Head(q) \in S
         /\ Tail(q) \in Seq(S)
         /\ Head(q) \in ToSet(q)
         /\ ToSet(Tail(q)) = ToSet(q) \ {Head(q)}
         /\ IsInjective(Tail(q))
<1>1. /\ Head(q) \in S /\ Head(q) = q[1]
      /\ Tail(q) \in Seq(S)
      /\ DOMAIN q = 1 .. Len(q)
      /\ DOMAIN Tail(q) = 1 .. Len(q) - 1
      /\ Len(q) \in Nat \ {0}
      /\ \A i \in 1 .. Len(q) - 1 : Tail(q)[i] = q[i + 1]
  BY HeadTailProperties
<1>2. Head(q) \in ToSet(q)
  BY <1>1 DEF ToSet
<1>3. \A i \in 1 .. Len(q) : i = 1 \/ (i - 1 \in 1 .. Len(q) - 1 /\ Tail(q)[i - 1] = q[i])
  BY <1>1
<1>4. \A i \in 1 .. Len(q) - 1 : q[i + 1] # q[1]
  BY <1>1 DEF IsInjective
<1>5. ToSet(Tail(q)) = ToSet(q) \ {Head(q)}
  <2>1. \A x \in ToSet(Tail(q)) : x \in ToSet(q) \ {Head(q)}
    BY <1>1, <1>4 DEF ToSet
  <2>2. \A x \in ToSet(q) \ {Head(q)} : x \in ToSet(Tail(q))
    <3>1. SUFFICES ASSUME NEW i \in 1 .. Len(q), q[i] # q[1]
                   PROVE  q[i] \in ToSet(Tail(q))
      BY <1>1 DEF ToSet
    <3>2. i - 1 \in DOMAIN Tail(q) /\ Tail(q)[i - 1] = q[i]
      BY <1>1, <1>3, <3>1
    <3>3. QED
      BY <3>2 DEF ToSet
  <2>3. QED BY <2>1, <2>2
<1>6. IsInjective(Tail(q))
  BY <1>1 DEF IsInjective
<1>7. QED
  BY <1>1, <1>2, <1>5, <1>6

-----------------------------------------------------------------------------
(* Type correctness *)

LEMMA AppendFunction ==
  ASSUME NEW n \in Nat, NEW f \in [1 .. n -> Nat], NEW x \in Nat
  PROVE  Append(f, x) \in [1 .. n + 1 -> Nat]
<1>1. f \in Seq(Nat) /\ Len(f) = n
  OBVIOUS
<1>2. Append(f, x) \in Seq(Nat) /\ Len(Append(f, x)) = n + 1
  BY <1>1, AppendProperties
<1>3. \A q \in Seq(Nat) : q \in [1 .. Len(q) -> Nat]
  OBVIOUS
<1>4. QED BY <1>2, <1>3

LEMMA InitTypeOK == Init => TypeOK
<1> SUFFICES ASSUME Init PROVE TypeOK
  OBVIOUS
<1>1. free_queue_ \in Seq(Slots) /\ 1 \in Slots
  BY IsASeq DEF Init, Slots
<1>2. slots_ \in [Slots -> EventSlot]
  BY DEF Init, EmptySlot, EventSlot
<1>3. runs \in [1 .. posted -> Nat] /\ goal \in [1 .. posted -> Nat]
  BY DEF Init
<1>4. last \in [due : Nat, sequence : Int]
  BY DEF Init
<1>5. QED
  BY <1>1, <1>2, <1>3, <1>4 DEF Init, TypeOK

LEMMA PostTypeOK ==
  ASSUME TypeOK, NEW d \in Nat, NEW i \in Nat, NEW c \in Nat, PostBound(d, i, c)
  PROVE  TypeOK'
<1>1. /\ free_queue_ \in Seq(Slots) /\ free_queue_ # << >> /\ now \in Nat /\ posted \in Nat
      /\ sequence_counter_ \in Nat /\ runs \in [1 .. posted -> Nat] /\ goal \in [1 .. posted -> Nat]
  BY DEF TypeOK, PostBound, CanAccept
<1>2. Head(free_queue_) \in Slots /\ free_queue_' \in Seq(Slots)
  BY <1>1, HeadTailProperties DEF PostBound
<1>3. now + d \in Nat /\ posted + 1 \in Nat /\ sequence_counter_ + 1 \in Nat
  BY <1>1
<1>4. slots_' \in [Slots -> EventSlot]
  BY <1>2, <1>3 DEF PostBound, TypeOK, EventSlot
<1>5. scheduled_queue_' \subseteq EventNode
  BY <1>1, <1>2, <1>3 DEF PostBound, TypeOK, EventNode
<1>6. runs' \in [1 .. posted' -> Nat] /\ goal' \in [1 .. posted' -> Nat] /\ posted' \in Nat
  <2>1. runs' = Append(runs, 0) /\ posted' = posted + 1
    BY DEF PostBound
  <2>2. PICK g \in Nat : goal' = Append(goal, g)
    BY DEF PostBound
  <2>3. Append(runs, 0) \in [1 .. posted + 1 -> Nat] /\ Append(goal, g) \in [1 .. posted + 1 -> Nat]
    BY <1>1, AppendFunction
  <2>4. QED BY <1>3, <2>1, <2>2, <2>3
<1>7. wpc' \in {"none", "lock", "waiting", "timed", "run", "exited", "joined"}
  BY DEF PostBound, Awake, TypeOK
<1>8. sequence_counter_' \in Nat /\ UNCHANGED <<flags, now, wslot, deadline, last>>
  BY <1>3 DEF PostBound
<1>9. QED
  BY <1>2, <1>4, <1>5, <1>6, <1>7, <1>8 DEF TypeOK, flags

LEMMA StartTypeOK ==
  ASSUME TypeOK, NEW n \in scheduled_queue_, StartCallback(n) PROVE TypeOK'
<1>1. n.slot \in Slots /\ n.due \in Nat /\ n.sequence \in Nat
  BY DEF TypeOK, EventNode
<1>2. runs' \in [1 .. posted -> Nat]
  <2>1. runs \in [1 .. posted -> Nat]
    BY DEF TypeOK
  <2>2. runs' = [runs EXCEPT ![slots_[n.slot].event] = @ + 1]
    BY DEF StartCallback
  <2>3. \A k \in Nat : k + 1 \in Nat
    OBVIOUS
  <2>4. QED BY <2>1, <2>2, <2>3
<1>3. last' \in [due : Nat, sequence : Int]
  BY <1>1 DEF StartCallback
<1>4. scheduled_queue_' \subseteq EventNode
  BY DEF StartCallback, TypeOK
<1>5. QED
  BY <1>1, <1>2, <1>3, <1>4 DEF StartCallback, TypeOK, flags

(* The two outcomes of CallbackDone. *)
LEMMA CallbackDoneCases ==
  ASSUME TypeOK, CallbackDone
  PROVE  LET current == slots_[wslot]
         IN  \/ /\ current.event # 0 /\ current.remaining > 1
                /\ slots_' = [slots_ EXCEPT ![wslot] =
                      [event |-> current.event, due |-> current.due + current.interval,
                       interval |-> current.interval, remaining |-> current.remaining - 1]]
                /\ scheduled_queue_' = scheduled_queue_ \cup
                      {[slot |-> wslot, due |-> current.due + current.interval,
                        sequence |-> sequence_counter_]}
                /\ sequence_counter_' = sequence_counter_ + 1
                /\ free_queue_' = free_queue_
             \/ /\ current.event # 0 /\ slots_' = [slots_ EXCEPT ![wslot] = EmptySlot]
                /\ free_queue_' = Append(free_queue_, wslot)
                /\ sequence_counter_' \in {sequence_counter_, sequence_counter_ + 1}
                /\ UNCHANGED scheduled_queue_
             \/ current.event = 0 /\ UNCHANGED queues
<1>1. slots_[wslot] \in EventSlot /\ wslot \in Slots /\ slots_ \in [Slots -> EventSlot]
  BY DEF TypeOK
<1>2. CASE slots_[wslot].event # 0 /\ RepeatsAgain(slots_[wslot]) /\ ~ScheduleFull
  BY <1>2 DEF CallbackDone, RepeatsAgain, NextDue
<1>3. CASE ~(slots_[wslot].event # 0 /\ RepeatsAgain(slots_[wslot]) /\ ~ScheduleFull)
  BY <1>3 DEF CallbackDone, Recycle, queues
<1>4. QED BY <1>2, <1>3

LEMMA CallbackDoneTypeOK == ASSUME TypeOK, CallbackDone PROVE TypeOK'
<1>1. slots_[wslot] \in EventSlot /\ wslot \in Slots
  BY DEF TypeOK
<1>2. /\ slots_[wslot].due + slots_[wslot].interval \in Nat
      /\ slots_[wslot].remaining > 1 => slots_[wslot].remaining - 1 \in Nat
  BY <1>1 DEF EventSlot
<1>3. slots_' \in [Slots -> EventSlot]
  <2>1. slots_ \in [Slots -> EventSlot] /\ EmptySlot \in EventSlot
    BY DEF TypeOK, EventSlot, EmptySlot
  <2>2. slots_[wslot].remaining > 1 =>
           [event |-> slots_[wslot].event, due |-> slots_[wslot].due + slots_[wslot].interval,
            interval |-> slots_[wslot].interval, remaining |-> slots_[wslot].remaining - 1] \in EventSlot
    BY <1>1, <1>2 DEF EventSlot
  <2>3. QED BY <1>1, <2>1, <2>2, CallbackDoneCases DEF queues
<1>4. scheduled_queue_' \subseteq EventNode /\ sequence_counter_' \in Nat
  BY <1>1, <1>2, CallbackDoneCases, SMTT(30) DEF TypeOK, EventNode, queues
<1>5. free_queue_' \in Seq(Slots)
  <2>1. free_queue_ \in Seq(Slots) /\ Append(free_queue_, wslot) \in Seq(Slots)
    BY <1>1, AppendProperties DEF TypeOK
  <2>2. free_queue_' = free_queue_ \/ free_queue_' = Append(free_queue_, wslot)
    BY CallbackDoneCases DEF queues
  <2>3. QED BY <2>1, <2>2
<1>6. wpc' = "lock" /\ UNCHANGED <<flags, now, wslot, deadline, history>>
  BY DEF CallbackDone
<1>7. QED
  BY <1>3, <1>4, <1>5, <1>6 DEF TypeOK, flags, history

LEMMA NextTypeOK == TypeOK /\ [Next]_vars => TypeOK'
<1> SUFFICES ASSUME TypeOK, [Next]_vars PROVE TypeOK'
  OBVIOUS
<1>1. CASE Construct
  BY <1>1 DEF Construct, TypeOK, queues, history
<1>2. CASE Tick
  BY <1>2 DEF Tick, TypeOK, flags, queues, worker, history
<1>3. CASE Post
  <2>1. \E d, i, c \in Nat : PostBound(d, i, c)
    BY <1>3 DEF Post, PostOnce, PostRepeated
  <2>2. QED BY <2>1, PostTypeOK
<1>4. CASE WaitForEvent \/ WorkerExit \/ Timeout \/ SpuriousWakeup
  BY <1>4 DEF WaitForEvent, WorkerExit, Timeout, SpuriousWakeup, TypeOK, flags, queues, history
<1>5. CASE CallbackDone
  BY <1>5, CallbackDoneTypeOK
<1>6. ASSUME NEW n \in scheduled_queue_, WaitUntilDue(n) \/ StartCallback(n) PROVE TypeOK'
  <2>1. CASE WaitUntilDue(n)
    <3>1. n.due \in Nat
      BY DEF TypeOK, EventNode
    <3>2. QED BY <2>1, <3>1 DEF WaitUntilDue, TypeOK, flags, queues, history
  <2>2. CASE StartCallback(n)
    BY <2>2, StartTypeOK
  <2>3. QED BY <1>6, <2>1, <2>2
<1>7. CASE ShutdownFromCallback \/ ShutdownRequest
  BY <1>7 DEF ShutdownFromCallback, ShutdownRequest, RequestStop, Awake, TypeOK, history
<1>8. CASE ShutdownFinish
  <2>1. free_queue_' \in Seq(Slots)
    BY <1>8, IsASeq DEF ShutdownFinish, Slots
  <2>2. slots_' \in [Slots -> EventSlot]
    BY <1>8 DEF ShutdownFinish, EmptySlot, EventSlot
  <2>3. QED BY <1>8, <2>1, <2>2 DEF ShutdownFinish, TypeOK, history
<1>9. CASE UNCHANGED vars
  BY <1>9 DEF vars, TypeOK, flags, queues, worker, history
<1>10. QED
  BY <1>1, <1>2, <1>3, <1>4, <1>5, <1>6, <1>7, <1>8, <1>9 DEF Next, Worker

(* Every reachable state of the event handler is well typed: in particular *)
(* repeat_remaining never wraps below zero and the worker always executes  *)
(* a slot of the table.                                                    *)
THEOREM EventHandlerTypeCorrect == Spec => []TypeOK
  BY InitTypeOK, NextTypeOK, PTL DEF Spec

-----------------------------------------------------------------------------
(* Sleeping and the life of the synchronization objects.  Both invariants  *)
(* are inductive as they stand.                                            *)

LEMMA SleepStep == TypeOK /\ NoOversleep /\ [Next]_vars => NoOversleep'
<1> SUFFICES ASSUME TypeOK, NoOversleep, [Next]_vars PROVE NoOversleep'
  OBVIOUS
<1> USE DEF NoOversleep
<1>1. CASE Construct
  BY <1>1 DEF Construct, queues
<1>2. CASE Tick \/ UNCHANGED vars
  BY <1>2 DEF Tick, vars, flags, queues, worker
<1>3. CASE Post
  BY <1>3 DEF Post, PostOnce, PostRepeated, PostBound, Awake
<1>4. CASE WaitForEvent \/ WorkerExit \/ Timeout \/ SpuriousWakeup \/ CallbackDone
  BY <1>4 DEF WaitForEvent, WorkerExit, Timeout, SpuriousWakeup, CallbackDone, flags, queues
<1>5. ASSUME NEW n \in scheduled_queue_, WaitUntilDue(n) PROVE NoOversleep'
  <2>1. \A m \in scheduled_queue_ : n.due <= m.due
    BY <1>5 DEF WaitUntilDue, IsTop, Before, TypeOK, EventNode
  <2>2. QED BY <1>5, <2>1 DEF WaitUntilDue, MustExit, flags, queues
<1>6. ASSUME NEW n \in scheduled_queue_, StartCallback(n) PROVE NoOversleep'
  BY <1>6 DEF StartCallback
<1>7. CASE ShutdownFromCallback \/ ShutdownRequest
  BY <1>7 DEF ShutdownFromCallback, ShutdownRequest, RequestStop, Awake
<1>8. CASE ShutdownFinish
  BY <1>8 DEF ShutdownFinish, ShutdownCanFinish
<1>9. QED
  BY <1>1, <1>2, <1>3, <1>4, <1>5, <1>6, <1>7, <1>8 DEF Next, Worker

(* For every schedule of posts, stops, timeouts and spurious wakeups, the  *)
(* worker of the event handler never sleeps past the earliest due event    *)
(* nor past a stop request.                                                *)
THEOREM EventHandlerNoOversleep == Spec => []NoOversleep
<1>1. Init => NoOversleep
  BY DEF Init, NoOversleep
<1>2. QED
  BY <1>1, SleepStep, EventHandlerTypeCorrect, PTL DEF Spec

(* shutdown() destroys the mutex and the condition variable only after its *)
(* worker was joined, and no post or callback touches them afterwards.     *)
THEOREM EventHandlerNoUseAfterDestroy == Spec => []NoUseAfterDestroy
<1>1. Init => NoUseAfterDestroy
  BY DEF Init, NoUseAfterDestroy
<1>2. NoUseAfterDestroy /\ [Next]_vars => NoUseAfterDestroy'
  <2> SUFFICES ASSUME NoUseAfterDestroy, [Next]_vars PROVE NoUseAfterDestroy'
    OBVIOUS
  <2> USE DEF NoUseAfterDestroy
  <2>1. CASE Construct \/ Tick \/ UNCHANGED vars
    BY <2>1 DEF Construct, Tick, vars, flags, worker
  <2>2. CASE Post
    <3>1. \E d, i, c : PostBound(d, i, c)
      BY <2>2 DEF Post, PostOnce, PostRepeated
    <3>2. QED BY <3>1 DEF PostBound, CanAccept, flags
  <2>3. CASE Worker \/ SpuriousWakeup
    BY <2>3 DEF Worker, WaitForEvent, WorkerExit, Timeout, SpuriousWakeup, CallbackDone,
                WaitUntilDue, StartCallback, flags
  <2>4. CASE ShutdownFromCallback \/ ShutdownRequest \/ ShutdownFinish
    BY <2>4 DEF ShutdownFromCallback, ShutdownRequest, ShutdownFinish, ShutdownCanFinish
  <2>5. QED BY <2>1, <2>2, <2>3, <2>4 DEF Next
<1>3. QED
  BY <1>1, <1>2, PTL DEF Spec

-----------------------------------------------------------------------------
(* Slots *)

(* Before the constructor has run there is no worker and nothing is        *)
(* scheduled.                                                              *)
Fresh ==
    phase = "init" =>
        free_queue_ = [i \in Slots |-> i] /\ scheduled_queue_ = {} /\ wpc = "none"

(* A scheduled slot is occupied, with the due time of its node.            *)
NodesMatchSlots ==
    running_ => \A n \in scheduled_queue_ :
                    slots_[n.slot].event # 0 /\ slots_[n.slot].due = n.due

StopRequested == phase \in {"joining", "stopped"} => ~running_

(* The slots part of the inductive invariant. *)
SlotInv == Fresh /\ StopRequested /\ NodesMatchSlots /\ SlotsAccounted /\ CallbackStable

LEMMA InitSlotInv == Init => SlotInv
  BY DEF Init, SlotInv, Fresh, StopRequested, NodesMatchSlots, SlotsAccounted, CallbackStable

LEMMA InitialQueue ==
  LET q == [i \in Slots |-> i] IN IsInjective(q) /\ ToSet(q) = Slots
  BY DEF IsInjective, ToSet, Slots

LEMMA PostSlotInv ==
  ASSUME TypeOK, SlotInv, NEW d \in Nat, NEW i \in Nat, NEW c \in Nat, PostBound(d, i, c)
  PROVE  SlotInv'
<1> DEFINE slot == Head(free_queue_)
<1> DEFINE node == [slot |-> slot, due |-> now + d, sequence |-> sequence_counter_]
<1>1. /\ free_queue_ \in Seq(Slots) /\ free_queue_ # << >> /\ IsInjective(free_queue_) /\ running_
      /\ slots_ \in [Slots -> EventSlot] /\ posted \in Nat
      /\ scheduled_queue_ \subseteq EventNode /\ wslot \in Slots
  BY DEF TypeOK, PostBound, CanAccept, SlotInv, SlotsAccounted
<1>2. /\ slot \in Slots /\ slot \in ToSet(free_queue_)
      /\ ToSet(free_queue_') = ToSet(free_queue_) \ {slot}
      /\ IsInjective(free_queue_')
  BY <1>1, TailToSet DEF PostBound
<1>3. /\ scheduled_queue_' = scheduled_queue_ \cup {node} /\ node.slot = slot /\ node.due = now + d
      /\ slots_' = [slots_ EXCEPT ![slot] =
            [event |-> posted + 1, due |-> now + d, interval |-> i, remaining |-> c]]
      /\ running_' = running_ /\ wslot' = wslot /\ phase' = phase
  BY DEF PostBound, flags
<1>4. slots_'[slot].event = posted + 1 /\ slots_'[slot].due = now + d /\ posted + 1 # 0
  BY <1>1, <1>2, <1>3
<1>5. \A s \in Slots \ {slot} : slots_'[s] = slots_[s]
  BY <1>1, <1>2, <1>3
<1>6. \A n \in scheduled_queue_ : n.slot \in Slots \ {slot}
  BY <1>1, <1>2 DEF SlotInv, SlotsAccounted, Scheduled, EventNode
<1>7. wpc' = "run" <=> wpc = "run"
  BY DEF PostBound, Awake
<1>8. Scheduled' = Scheduled \cup {slot} /\ Executing' = Executing
  BY <1>3, <1>7 DEF Scheduled, Executing
<1>9. NodesMatchSlots'
  BY <1>1, <1>3, <1>4, <1>5, <1>6 DEF SlotInv, NodesMatchSlots
<1>10. SlotsAccounted'
  <2>1. \A m, n \in scheduled_queue_' : m.slot = n.slot => m = n
    BY <1>1, <1>3, <1>6 DEF SlotInv, SlotsAccounted
  <2>2. QED BY <1>1, <1>2, <1>8, <2>1 DEF SlotInv, SlotsAccounted
<1>11. CallbackStable'
  <2>1. wpc = "run" => wslot \in Slots \ {slot}
    BY <1>1, <1>2 DEF SlotInv, CallbackStable
  <2>2. QED BY <1>2, <1>3, <1>5, <1>7, <2>1 DEF SlotInv, CallbackStable
<1>12. Fresh' /\ StopRequested'
  BY <1>3 DEF SlotInv, Fresh, StopRequested, PostBound, CanPost
<1>13. QED BY <1>9, <1>10, <1>11, <1>12 DEF SlotInv

LEMMA StartSlotInv ==
  ASSUME TypeOK, SlotInv, NEW n \in scheduled_queue_, StartCallback(n) PROVE SlotInv'
<1>1. /\ running_ /\ running_' = running_ /\ phase' = phase /\ wpc = "lock" /\ wpc' = "run"
      /\ wslot' = n.slot /\ scheduled_queue_' = scheduled_queue_ \ {n}
      /\ free_queue_' = free_queue_ /\ slots_' = slots_
  BY DEF StartCallback, MustExit, flags
<1>2. Scheduled' = Scheduled \ {n.slot} /\ n.slot \in Scheduled /\ Executing' = {n.slot}
      /\ Executing = {}
  BY <1>1 DEF SlotInv, SlotsAccounted, Scheduled, Executing
<1>3. SlotsAccounted'
  BY <1>1, <1>2 DEF SlotInv, SlotsAccounted
<1>4. CallbackStable'
  BY <1>1, <1>2 DEF SlotInv, SlotsAccounted, CallbackStable, NodesMatchSlots
<1>5. NodesMatchSlots'
  BY <1>1 DEF SlotInv, NodesMatchSlots
<1>6. Fresh' /\ StopRequested'
  BY <1>1 DEF SlotInv, Fresh, StopRequested
<1>7. QED BY <1>3, <1>4, <1>5, <1>6 DEF SlotInv

LEMMA CallbackDoneSlotInv == ASSUME TypeOK, SlotInv, CallbackDone PROVE SlotInv'
<1>1. /\ wpc = "run" /\ wpc' = "lock" /\ running_' = running_ /\ phase' = phase
      /\ wslot \in Slots /\ slots_ \in [Slots -> EventSlot] /\ free_queue_ \in Seq(Slots)
      /\ scheduled_queue_ \subseteq EventNode
      /\ slots_[wslot].event # 0 /\ wslot \notin ToSet(free_queue_)
  BY DEF CallbackDone, TypeOK, flags, SlotInv, CallbackStable
<1>2. CallbackStable' /\ Executing' = {} /\ Executing = {wslot} /\ Fresh' /\ StopRequested'
  BY <1>1 DEF CallbackStable, Executing, SlotInv, Fresh, StopRequested
<1>3. CASE ~running_
  BY <1>1, <1>2, <1>3 DEF SlotInv, SlotsAccounted, NodesMatchSlots
<1>4. CASE running_
  <2>1. \A n \in scheduled_queue_ : n.slot \in Slots /\ n.slot # wslot
    BY <1>1, <1>2, <1>4 DEF SlotInv, SlotsAccounted, Scheduled, EventNode
  <2>2. \A s \in Slots \ {wslot} : slots_'[s] = slots_[s]
    BY <1>1, CallbackDoneCases
  <2>3. CASE free_queue_' = free_queue_
    <3> DEFINE new == [event |-> slots_[wslot].event,
                       due |-> slots_[wslot].due + slots_[wslot].interval,
                       interval |-> slots_[wslot].interval,
                       remaining |-> slots_[wslot].remaining - 1]
    <3> DEFINE node == [slot |-> wslot, due |-> slots_[wslot].due + slots_[wslot].interval,
                        sequence |-> sequence_counter_]
    <3>1. Append(free_queue_, wslot) # free_queue_
      <4>1. Len(Append(free_queue_, wslot)) = Len(free_queue_) + 1 /\ Len(free_queue_) \in Nat
        BY <1>1, AppendProperties
      <4>2. QED BY <4>1
    <3>2. slots_' = [slots_ EXCEPT ![wslot] = new] /\ scheduled_queue_' = scheduled_queue_ \cup {node}
      BY <1>1, <2>3, <3>1, CallbackDoneCases
    <3>3. slots_'[wslot] = new
      BY <1>1, <3>2
    <3>4. new.event = slots_[wslot].event /\ new.due = node.due /\ node.slot = wslot
      OBVIOUS
    <3>5. NodesMatchSlots'
      BY <1>1, <2>1, <2>2, <3>2, <3>3, <3>4 DEF SlotInv, NodesMatchSlots
    <3>6. Scheduled' = Scheduled \cup {wslot}
      BY <3>2, <3>4 DEF Scheduled
    <3>7. \A m, n \in scheduled_queue_' : m.slot = n.slot => m = n
      BY <1>4, <2>1, <3>2, <3>4 DEF SlotInv, SlotsAccounted
    <3>8. SlotsAccounted'
      BY <1>1, <1>2, <1>4, <2>3, <3>6, <3>7 DEF SlotInv, SlotsAccounted
    <3>9. QED BY <1>2, <3>5, <3>8 DEF SlotInv
  <2>4. CASE free_queue_' # free_queue_
    <3>1. free_queue_' = Append(free_queue_, wslot) /\ scheduled_queue_' = scheduled_queue_
      BY <1>1, <2>4, CallbackDoneCases
    <3>2. ToSet(free_queue_') = ToSet(free_queue_) \cup {wslot} /\ Scheduled' = Scheduled
      BY <1>1, <3>1, AppendToSet DEF Scheduled
    <3>3. IsInjective(free_queue_')
      BY <1>1, <1>4, <3>1, AppendInjectiveQueue DEF SlotInv, SlotsAccounted
    <3>4. SlotsAccounted'
      BY <1>1, <1>2, <1>4, <3>1, <3>2, <3>3 DEF SlotInv, SlotsAccounted
    <3>5. NodesMatchSlots'
      BY <1>1, <1>4, <2>1, <2>2, <3>1 DEF SlotInv, NodesMatchSlots
    <3>6. QED BY <1>2, <3>4, <3>5 DEF SlotInv
  <2>5. QED BY <2>3, <2>4
<1>5. QED BY <1>3, <1>4

LEMMA NextSlotInv == TypeOK /\ SlotInv /\ [Next]_vars => SlotInv'
<1> SUFFICES ASSUME TypeOK, SlotInv, [Next]_vars PROVE SlotInv'
  OBVIOUS
<1> USE DEF SlotInv
<1>1. CASE Construct
  <2>1. /\ free_queue_ = [i \in Slots |-> i] /\ scheduled_queue_ = {} /\ wpc = "none"
        /\ UNCHANGED <<free_queue_, slots_, scheduled_queue_, wslot>>
        /\ phase' = "alive" /\ wpc' \in {"none", "lock"}
    BY <1>1 DEF Construct, Fresh, queues
  <2>2. IsInjective(free_queue_) /\ ToSet(free_queue_) = Slots
    BY <2>1, InitialQueue
  <2>3. Scheduled' = {} /\ Executing' = {}
    BY <2>1 DEF Scheduled, Executing
  <2>4. QED
    BY <2>1, <2>2, <2>3 DEF Fresh, StopRequested, NodesMatchSlots, SlotsAccounted, CallbackStable
<1>2. CASE Tick \/ UNCHANGED vars
  BY <1>2 DEF Tick, vars, flags, queues, worker, Fresh, StopRequested, NodesMatchSlots, SlotsAccounted,
              CallbackStable, Scheduled, Executing
<1>3. CASE Post
  <2>1. \E d, i, c \in Nat : PostBound(d, i, c)
    BY <1>3 DEF Post, PostOnce, PostRepeated
  <2>2. QED BY <2>1, PostSlotInv
<1>4. CASE WaitForEvent \/ WorkerExit \/ Timeout \/ SpuriousWakeup
  <2>1. UNCHANGED <<flags, queues, wslot>> /\ wpc # "run" /\ wpc' # "run" /\ wpc # "none"
    BY <1>4 DEF WaitForEvent, WorkerExit, Timeout, SpuriousWakeup
  <2>2. QED
    BY <2>1 DEF flags, queues, Fresh, StopRequested, NodesMatchSlots, SlotsAccounted, CallbackStable,
                Scheduled, Executing
<1>5. CASE CallbackDone
  BY <1>5, CallbackDoneSlotInv
<1>6. ASSUME NEW n \in scheduled_queue_, WaitUntilDue(n) PROVE SlotInv'
  <2>1. UNCHANGED <<flags, queues, wslot>> /\ wpc = "lock" /\ wpc' = "timed"
    BY <1>6 DEF WaitUntilDue
  <2>2. QED
    BY <2>1 DEF flags, queues, Fresh, StopRequested, NodesMatchSlots, SlotsAccounted, CallbackStable,
                Scheduled, Executing
<1>7. ASSUME NEW n \in scheduled_queue_, StartCallback(n) PROVE SlotInv'
  BY <1>7, StartSlotInv
<1>8. CASE ShutdownFromCallback \/ ShutdownRequest
  BY <1>8 DEF ShutdownFromCallback, ShutdownRequest, RequestStop, Awake, Fresh, StopRequested,
              NodesMatchSlots, SlotsAccounted, CallbackStable
<1>9. CASE ShutdownFinish
  <2>1. wpc' = "joined" /\ phase' = "stopped" /\ running_' = running_
        /\ ~running_
    BY <1>9 DEF ShutdownFinish, ShutdownCanFinish, StopRequested
  <2>2. QED
    BY <2>1 DEF Fresh, StopRequested, NodesMatchSlots, SlotsAccounted, CallbackStable
<1>10. QED
  BY <1>1, <1>2, <1>3, <1>4, <1>5, <1>6, <1>7, <1>8, <1>9 DEF Next, Worker

LEMMA SlotInvariant == Spec => []SlotInv
  BY InitSlotInv, NextSlotInv, EventHandlerTypeCorrect, PTL DEF Spec

(* While the handler runs every event slot is free, scheduled once, or     *)
(* under execution: post_bound() and the worker never share a slot.        *)
THEOREM EventHandlerSlotsAccounted == Spec => []SlotsAccounted
<1>1. SlotInv => SlotsAccounted
  BY DEF SlotInv
<1>2. QED BY <1>1, SlotInvariant, PTL

(* The callable a worker executes without the mutex stays in its slot,     *)
(* whatever posts and stops happen meanwhile.                              *)
THEOREM EventHandlerCallbackStable == Spec => []CallbackStable
<1>1. SlotInv => CallbackStable
  BY DEF SlotInv
<1>2. QED BY <1>1, SlotInvariant, PTL

-----------------------------------------------------------------------------
(* Order *)

(* Strictly before in the order of event_node_compare. *)
Earlier(m, n) == m.due < n.due \/ (m.due = n.due /\ m.sequence < n.sequence)

(* The last started event was due and precedes everything scheduled; a     *)
(* repetition is computed from the due time of the last started event.     *)
OrderInv ==
    /\ last.due <= now /\ last.sequence < sequence_counter_
    /\ \A n \in scheduled_queue_ : n.sequence < sequence_counter_ /\ Earlier(last, n)
    /\ \A m, n \in scheduled_queue_ : m.sequence = n.sequence => m = n
    /\ wpc = "run" => slots_[wslot].due = last.due

LEMMA OrderStep == TypeOK /\ SlotInv /\ OrderInv /\ [Next]_vars => OrderInv'
<1> SUFFICES ASSUME TypeOK, SlotInv, OrderInv, [Next]_vars PROVE OrderInv'
  OBVIOUS
<1>0. /\ now \in Nat /\ last.due \in Nat /\ last.sequence \in Int /\ sequence_counter_ \in Nat
      /\ \A n \in scheduled_queue_ : n.due \in Nat /\ n.sequence \in Nat /\ n.slot \in Slots
      /\ wslot \in Slots /\ slots_ \in [Slots -> EventSlot]
  BY DEF TypeOK, EventNode
<1>1. CASE Construct
  BY <1>1 DEF Construct, OrderInv, queues, history, Fresh, SlotInv
<1>2. CASE Tick
  BY <1>0, <1>2 DEF Tick, OrderInv, flags, queues, worker, history
<1>3. CASE Post
  <2>1. PICK d \in Nat, i \in Nat, c \in Nat : PostBound(d, i, c)
    BY <1>3 DEF Post, PostOnce, PostRepeated
  <2> DEFINE slot == Head(free_queue_)
  <2> DEFINE node == [slot |-> slot, due |-> now + d, sequence |-> sequence_counter_]
  <2>2. /\ scheduled_queue_' = scheduled_queue_ \cup {node}
        /\ sequence_counter_' = sequence_counter_ + 1
        /\ last' = last /\ now' = now /\ wslot' = wslot
        /\ slots_' = [slots_ EXCEPT ![slot] =
              [event |-> posted + 1, due |-> now + d, interval |-> i, remaining |-> c]]
    BY <2>1 DEF PostBound
  <2>3. node.due = now + d /\ node.sequence = sequence_counter_
    OBVIOUS
  <2>4. last.due <= now + d /\ last.sequence < sequence_counter_ + 1
    BY <1>0 DEF OrderInv
  <2>5. Earlier(last, node) /\ node.sequence < sequence_counter_ + 1
    BY <1>0, <2>3, <2>4 DEF OrderInv, Earlier
  <2>6. \A n \in scheduled_queue_ : n.sequence # node.sequence /\ n.sequence < sequence_counter_ + 1
    BY <1>0, <2>3 DEF OrderInv
  <2>7. wpc' = "run" => slots_'[wslot] = slots_[wslot] /\ wpc = "run"
    <3>1. wpc' = "run" => wpc = "run"
      BY <2>1 DEF PostBound, Awake
    <3>2. slot \in ToSet(free_queue_)
      BY <2>1, TailToSet DEF PostBound, CanAccept, SlotInv, SlotsAccounted, TypeOK
    <3>3. QED BY <1>0, <2>2, <3>1, <3>2 DEF SlotInv, CallbackStable
  <2>8. QED
    BY <2>2, <2>4, <2>5, <2>6, <2>7 DEF OrderInv
<1>4. CASE WaitForEvent \/ WorkerExit \/ Timeout \/ SpuriousWakeup
  BY <1>4 DEF WaitForEvent, WorkerExit, Timeout, SpuriousWakeup, OrderInv, queues, history
<1>5. CASE CallbackDone
  <2> DEFINE node == [slot |-> wslot, due |-> slots_[wslot].due + slots_[wslot].interval,
                      sequence |-> sequence_counter_]
  <2>1. last' = last /\ now' = now /\ wpc' = "lock" /\ slots_[wslot].due = last.due
    BY <1>5 DEF CallbackDone, history, OrderInv
  <2>2. slots_[wslot].interval \in Nat /\ slots_[wslot].due \in Nat
    BY <1>0 DEF EventSlot
  <2>3. node.due = slots_[wslot].due + slots_[wslot].interval /\ node.sequence = sequence_counter_
    OBVIOUS
  <2>4. Earlier(last, node)
    BY <1>0, <2>1, <2>2, <2>3 DEF OrderInv, Earlier
  <2>5. \A n \in scheduled_queue_ : n.sequence # node.sequence /\ n.sequence < sequence_counter_ + 1
    BY <1>0, <2>3 DEF OrderInv
  <2>6. last.sequence < sequence_counter_ + 1 /\ node.sequence < sequence_counter_ + 1
    BY <1>0, <2>3 DEF OrderInv
  <2>7. \/ scheduled_queue_' = scheduled_queue_ \cup {node}
           /\ sequence_counter_' = sequence_counter_ + 1
        \/ /\ scheduled_queue_' = scheduled_queue_
           /\ sequence_counter_' \in {sequence_counter_, sequence_counter_ + 1}
    BY <1>5, CallbackDoneCases DEF queues
  <2>8. QED
    BY <2>1, <2>4, <2>5, <2>6, <2>7 DEF OrderInv
<1>6. ASSUME NEW n \in scheduled_queue_, WaitUntilDue(n) PROVE OrderInv'
  BY <1>6 DEF WaitUntilDue, OrderInv, queues, history
<1>7. ASSUME NEW n \in scheduled_queue_, StartCallback(n) PROVE OrderInv'
  <2>1. /\ scheduled_queue_' = scheduled_queue_ \ {n} /\ last' = [due |-> n.due, sequence |-> n.sequence]
        /\ wslot' = n.slot /\ slots_' = slots_ /\ now' = now
        /\ sequence_counter_' = sequence_counter_ /\ running_ /\ n.due <= now
    BY <1>7 DEF StartCallback, IsDue, MustExit
  <2>2. last'.due = n.due /\ last'.sequence = n.sequence
    BY <2>1
  <2>3. \A m \in scheduled_queue_ : m # n => n.due < m.due \/ (n.due = m.due /\ n.sequence < m.sequence)
    BY <1>0, <1>7 DEF StartCallback, IsTop, Before, OrderInv
  <2>4. slots_[n.slot].due = n.due
    BY <2>1 DEF SlotInv, NodesMatchSlots
  <2>5. QED
    BY <1>0, <2>1, <2>2, <2>3, <2>4 DEF OrderInv, Earlier
<1>8. CASE ShutdownFromCallback \/ ShutdownRequest
  BY <1>8 DEF ShutdownFromCallback, ShutdownRequest, RequestStop, Awake, OrderInv, history
<1>9. CASE ShutdownFinish
  BY <1>9 DEF ShutdownFinish, ShutdownCanFinish, OrderInv, history
<1>10. CASE UNCHANGED vars
  BY <1>10 DEF vars, OrderInv, flags, queues, worker, history
<1>11. QED
  BY <1>1, <1>2, <1>3, <1>4, <1>5, <1>6, <1>7, <1>8, <1>9, <1>10 DEF Next, Worker

LEMMA OrderInvariant == Spec => []OrderInv
<1>1. Init => OrderInv
  BY DEF Init, OrderInv
<1>2. QED
  BY <1>1, OrderStep, EventHandlerTypeCorrect, SlotInvariant, PTL DEF Spec

(* No callback ever starts before its due time. *)
THEOREM EventHandlerNeverEarly == Spec => []NeverEarly
<1>1. OrderInv => NeverEarly
  BY DEF OrderInv, NeverEarly
<1>2. QED BY <1>1, OrderInvariant, PTL

(* Over the whole life of the handler callbacks start in the order of      *)
(* their due times, and of their sequence numbers when those are equal,    *)
(* repetitions included.                                                   *)
THEOREM EventHandlerStartsInDueOrder == Spec => StartsInDueOrder
<1>1. TypeOK /\ OrderInv /\ [Next]_vars => [last' # last => ~Before(last', last)]_vars
  <2> SUFFICES ASSUME TypeOK, OrderInv, Next, last' # last PROVE ~Before(last', last)
    BY DEF vars, history
  <2>1. PICK n \in scheduled_queue_ : StartCallback(n)
    BY DEF Next, Construct, Tick, Post, PostOnce, PostRepeated, PostBound, Worker, WaitForEvent, WorkerExit, Timeout,
           CallbackDone, WaitUntilDue, SpuriousWakeup, ShutdownFromCallback, ShutdownRequest,
           ShutdownFinish, history
  <2>2. last'.due = n.due /\ last'.sequence = n.sequence
    BY <2>1 DEF StartCallback
  <2>3. /\ n.due \in Nat /\ n.sequence \in Nat /\ last.due \in Nat /\ last.sequence \in Int
        /\ Earlier(last, n)
    BY DEF TypeOK, EventNode, OrderInv
  <2>4. QED BY <2>2, <2>3 DEF Before, Earlier
<1>2. QED
  BY <1>1, EventHandlerTypeCorrect, OrderInvariant, PTL DEF Spec, StartsInDueOrder

(* Once a stop is requested no callback starts, even one that re-queued    *)
(* itself afterwards.                                                      *)
THEOREM EventHandlerNoStartAfterStop == Spec => NoStartAfterStop
<1>1. TypeOK /\ [Next]_vars => [~running_ => \A e \in 1 .. posted : runs'[e] = runs[e]]_vars
  <2> SUFFICES ASSUME TypeOK, Next, ~running_ PROVE \A e \in 1 .. posted : runs'[e] = runs[e]
    BY DEF vars
  <2>1. runs' = runs
    BY DEF Next, Construct, Tick, Post, PostOnce, PostRepeated, PostBound, CanAccept, Worker, WaitForEvent, WorkerExit,
           Timeout, CallbackDone, WaitUntilDue, StartCallback, MustExit, SpuriousWakeup,
           ShutdownFromCallback, ShutdownRequest, ShutdownFinish, history
  <2>2. QED BY <2>1
<1>2. QED
  BY <1>1, EventHandlerTypeCorrect, PTL DEF Spec, NoStartAfterStop

-----------------------------------------------------------------------------
(* How often callbacks run *)

(* How often the event in slot s still has to start. *)
Left(s) ==
    (IF slots_[s].remaining = 0 THEN 1 ELSE slots_[s].remaining)
        - (IF wpc = "run" /\ wslot = s THEN 1 ELSE 0)

(* While the handler runs, a free slot holds no event, no two slots hold   *)
(* the same one, and the event of an occupied slot has run as often as     *)
(* asked but for the starts it has left.  An event that has no slot any    *)
(* more has none left.                                                     *)
Tally ==
    /\ \A s \in ToSet(free_queue_) : slots_[s].event = 0
    /\ \A s \in Slots : slots_[s].event <= posted
    /\ \A s, t \in Slots : slots_[s].event = slots_[t].event => s = t \/ slots_[s].event = 0
    /\ \A s \in Slots : slots_[s].event # 0 =>
           runs[slots_[s].event] + Left(s) = goal[slots_[s].event]
    /\ \A e \in 1 .. posted : (\A s \in Slots : slots_[s].event # e) => runs[e] = goal[e]

RunInv ==
    /\ phase = "init" => posted = 0 /\ \A s \in Slots : slots_[s].event = 0
    /\ \A e \in 1 .. posted : runs[e] <= goal[e]
    /\ running_ => Tally

(* The queue has room for the repetition of the callback that runs: the    *)
(* nodes use the other slots.                                              *)
LEMMA RoomForRepetition ==
  ASSUME TypeOK, SlotInv, running_, wpc = "run"
  PROVE  ~ScheduleFull
<1> DEFINE Others == Slots \ {wslot}
<1>1. IsFiniteSet(Slots) /\ Cardinality(Slots) = MaxEventCount
  BY FS_Interval DEF Slots
<1>2. wslot \in Slots /\ scheduled_queue_ \subseteq EventNode
  BY DEF TypeOK
<1>3. IsFiniteSet(Others) /\ Cardinality(Others) = MaxEventCount - 1
  BY <1>1, <1>2, FS_RemoveElement
<1>4. \A n \in scheduled_queue_ : n.slot \in Others
  BY <1>2 DEF SlotInv, SlotsAccounted, Scheduled, Executing, EventNode
<1>5. \A m, n \in scheduled_queue_ : m.slot = n.slot => m = n
  BY DEF SlotInv, SlotsAccounted
<1> DEFINE f == [n \in scheduled_queue_ |-> n.slot]
<1>6. f \in Injection(scheduled_queue_, Others)
  BY <1>4, <1>5 DEF Injection, IsInjective
<1>7. Cardinality(scheduled_queue_) <= MaxEventCount - 1
  BY <1>3, <1>6, FS_Injection
<1>8. IsFiniteSet(scheduled_queue_)
  BY <1>3, <1>6, FS_Injection
<1>9. Cardinality(scheduled_queue_) \in Nat
  BY <1>8, FS_CardinalityType
<1>10. QED BY <1>7, <1>9 DEF ScheduleFull

LEMMA AppendAt ==
  ASSUME NEW n \in Nat, NEW f \in [1 .. n -> Nat], NEW x \in Nat
  PROVE  /\ \A e \in 1 .. n : Append(f, x)[e] = f[e]
         /\ Append(f, x)[n + 1] = x
<1>1. f \in Seq(Nat) /\ Len(f) = n
  OBVIOUS
<1>2. QED BY <1>1, AppendProperties

LEMMA PostRunInv ==
  ASSUME TypeOK, SlotInv, RunInv, NEW d \in Nat, NEW i \in Nat, NEW c \in Nat, PostBound(d, i, c)
  PROVE  RunInv'
<1> DEFINE slot == Head(free_queue_)
<1> DEFINE new == [event |-> posted + 1, due |-> now + d, interval |-> i, remaining |-> c]
<1> DEFINE g == IF c = 0 THEN 1 ELSE c
<1>1. /\ free_queue_ \in Seq(Slots) /\ free_queue_ # << >> /\ IsInjective(free_queue_) /\ running_
      /\ slots_ \in [Slots -> EventSlot] /\ posted \in Nat /\ wslot \in Slots
      /\ runs \in [1 .. posted -> Nat] /\ goal \in [1 .. posted -> Nat] /\ Tally
  BY DEF TypeOK, PostBound, CanAccept, SlotInv, SlotsAccounted, RunInv
<1>2. /\ slot \in Slots /\ slot \in ToSet(free_queue_)
      /\ ToSet(free_queue_') = ToSet(free_queue_) \ {slot}
  BY <1>1, TailToSet DEF PostBound
<1>3. ToSet(free_queue_) \subseteq Slots
  BY <1>1 DEF ToSet
<1>4. /\ slots_' = [slots_ EXCEPT ![slot] = new] /\ posted' = posted + 1
      /\ running_' = running_ /\ wslot' = wslot /\ phase' = phase /\ phase # "init"
      /\ runs' = Append(runs, 0) /\ goal' = Append(goal, g)
  BY DEF PostBound, flags, CanPost, SlotInv, Fresh
<1>5. /\ slots_'[slot] = new /\ \A s \in Slots \ {slot} : slots_'[s] = slots_[s]
      /\ new.event = posted + 1 /\ new.remaining = c
  BY <1>1, <1>2, <1>4
<1>6. /\ \A e \in 1 .. posted : runs'[e] = runs[e] /\ goal'[e] = goal[e]
      /\ runs'[posted + 1] = 0 /\ goal'[posted + 1] = g
  BY <1>1, <1>4, AppendAt
<1>7. wpc' = "run" <=> wpc = "run"
  BY DEF PostBound, Awake
<1>8. wpc = "run" => wslot # slot
  BY <1>2 DEF SlotInv, CallbackStable
<1>9. \A s \in Slots : Left(s)' = IF s = slot THEN g ELSE Left(s)
  <2>1. ASSUME NEW s \in Slots, s = slot PROVE Left(s)' = g
    <3>1. slots_'[s].remaining = c /\ ~(wpc' = "run" /\ wslot' = s)
      BY <1>4, <1>5, <1>7, <1>8, <2>1
    <3>2. QED BY <3>1 DEF Left
  <2>2. ASSUME NEW s \in Slots, s # slot PROVE Left(s)' = Left(s)
    <3>1. slots_'[s] = slots_[s] /\ wslot' = wslot
      BY <1>4, <1>5, <2>2
    <3>2. QED BY <1>7, <3>1 DEF Left
  <2>3. QED BY <2>1, <2>2
<1>10. \A s \in Slots : slots_[s].event \in Nat /\ slots_[s].event <= posted
  BY <1>1 DEF Tally, EventSlot
<1>11. \A s \in Slots \ {slot} : slots_[s].event # 0 => slots_[s].event \in 1 .. posted
  BY <1>1, <1>10
<1>12. slots_[slot].event = 0
  BY <1>1, <1>2 DEF Tally
<1>13. Tally'
  <2>1. \A s \in ToSet(free_queue_') : slots_'[s].event = 0
    BY <1>1, <1>2, <1>3, <1>5 DEF Tally
  <2>2. \A s \in Slots : slots_'[s].event <= posted'
    BY <1>1, <1>4, <1>5, <1>10
  <2>3. \A s, t \in Slots : slots_'[s].event = slots_'[t].event => s = t \/ slots_'[s].event = 0
    <3>1. \A s \in Slots \ {slot} : slots_'[s].event # posted + 1
      BY <1>1, <1>5, <1>10
    <3>2. QED BY <1>1, <1>5, <3>1 DEF Tally
  <2>4. ASSUME NEW s \in Slots, slots_'[s].event # 0
        PROVE  runs'[slots_'[s].event] + Left(s)' = goal'[slots_'[s].event]
    <3>1. CASE s = slot
      <4>1. g \in Nat
        OBVIOUS
      <4>2. QED BY <1>5, <1>6, <1>9, <3>1, <4>1
    <3>2. CASE s # slot
      BY <1>1, <1>5, <1>6, <1>9, <1>11, <2>4, <3>2, SMTT(30) DEF Tally
    <3>3. QED BY <3>1, <3>2
  <2>5. ASSUME NEW e \in 1 .. posted', \A s \in Slots : slots_'[s].event # e
        PROVE  runs'[e] = goal'[e]
    <3>1. e \in 1 .. posted
      BY <1>1, <1>2, <1>4, <1>5, <2>5
    <3>2. \A s \in Slots : slots_[s].event # e
      BY <1>5, <1>12, <2>5, <3>1
    <3>3. QED BY <1>1, <1>6, <3>1, <3>2 DEF Tally
  <2>6. QED BY <2>1, <2>2, <2>3, <2>4, <2>5 DEF Tally
<1>14. \A e \in 1 .. posted' : runs'[e] <= goal'[e]
  <2>1. \A e \in 1 .. posted : runs'[e] <= goal'[e]
    BY <1>6 DEF RunInv
  <2>2. runs'[posted + 1] <= goal'[posted + 1]
    BY <1>6
  <2>3. QED BY <1>1, <1>4, <2>1, <2>2
<1>15. QED BY <1>4, <1>13, <1>14 DEF RunInv

LEMMA StartRunInv ==
  ASSUME TypeOK, SlotInv, RunInv, NEW n \in scheduled_queue_, StartCallback(n)
  PROVE  RunInv'
<1> DEFINE slot == n.slot
<1> DEFINE e0 == slots_[slot].event
<1>1. /\ running_ /\ wpc = "lock" /\ wpc' = "run" /\ wslot' = slot
      /\ runs' = [runs EXCEPT ![e0] = @ + 1] /\ slots_' = slots_
      /\ free_queue_' = free_queue_ /\ posted' = posted /\ goal' = goal
      /\ phase' = phase /\ running_' = running_
  BY DEF StartCallback, MustExit, flags
<1>2. /\ slot \in Slots /\ slots_ \in [Slots -> EventSlot] /\ posted \in Nat
      /\ runs \in [1 .. posted -> Nat] /\ goal \in [1 .. posted -> Nat] /\ Tally
  BY <1>1 DEF TypeOK, EventNode, RunInv
<1>3. e0 \in 1 .. posted
  <2>1. e0 # 0
    BY <1>1 DEF SlotInv, NodesMatchSlots
  <2>2. e0 \in Nat /\ e0 <= posted
    BY <1>2 DEF Tally, EventSlot
  <2>3. QED BY <1>2, <2>1, <2>2
<1>4. runs'[e0] = runs[e0] + 1 /\ \A e \in 1 .. posted : e # e0 => runs'[e] = runs[e]
  BY <1>1, <1>2, <1>3
<1>5. \A s \in Slots : Left(s) \in Int /\ Left(s)' \in Int
  <2>1. \A s \in Slots : slots_[s].remaining \in Nat
    BY <1>2 DEF EventSlot
  <2>2. QED BY <1>1, <2>1 DEF Left
<1>6. Left(slot)' = Left(slot) - 1 /\ Left(slot) >= 1 /\ \A s \in Slots \ {slot} : Left(s)' = Left(s)
  <2>1. slots_[slot].remaining \in Nat
    BY <1>2 DEF EventSlot
  <2>2. QED BY <1>1, <2>1 DEF Left
<1>7. runs[e0] + Left(slot) = goal[e0]
  BY <1>2, <1>3 DEF Tally
<1>8. \A s \in Slots \ {slot} : slots_[s].event # e0
  BY <1>2, <1>3 DEF Tally
<1>9. Tally'
  <2>1. ASSUME NEW s \in Slots, slots_'[s].event # 0
        PROVE  runs'[slots_'[s].event] + Left(s)' = goal'[slots_'[s].event]
    <3>1. CASE s = slot
      <4>1. runs[e0] \in Nat /\ goal[e0] \in Nat /\ Left(slot) \in Int
        BY <1>2, <1>3, <1>5
      <4>2. QED BY <1>1, <1>4, <1>6, <1>7, <3>1, <4>1
    <3>2. CASE s # slot
      <4>1. slots_[s].event \in 1 .. posted /\ slots_[s].event # e0
        BY <1>1, <1>2, <1>8, <2>1, <3>2 DEF Tally, EventSlot
      <4>2. QED BY <1>1, <1>2, <1>4, <1>6, <2>1, <3>2, <4>1 DEF Tally
    <3>3. QED BY <3>1, <3>2
  <2>2. \A e \in 1 .. posted : (\A s \in Slots : slots_[s].event # e) => e # e0
    BY <1>2
  <2>3. QED BY <1>1, <1>2, <1>4, <2>1, <2>2 DEF Tally
<1>10. \A e \in 1 .. posted' : runs'[e] <= goal'[e]
  <2>1. runs[e0] + 1 <= goal[e0]
    BY <1>2, <1>3, <1>5, <1>6, <1>7, SMTT(30)
  <2>2. QED BY <1>1, <1>4, <2>1 DEF RunInv
<1>11. phase # "init"
  BY <1>1 DEF SlotInv, Fresh
<1>12. QED BY <1>1, <1>9, <1>10, <1>11 DEF RunInv

LEMMA CallbackDoneRunInv ==
  ASSUME TypeOK, SlotInv, RunInv, CallbackDone
  PROVE  RunInv'
<1> DEFINE cur == slots_[wslot]
<1>1. /\ wpc = "run" /\ wpc' = "lock" /\ running_' = running_ /\ phase' = phase
      /\ wslot' = wslot /\ posted' = posted /\ runs' = runs /\ goal' = goal
      /\ wslot \in Slots /\ slots_ \in [Slots -> EventSlot] /\ free_queue_ \in Seq(Slots)
      /\ posted \in Nat /\ runs \in [1 .. posted -> Nat] /\ goal \in [1 .. posted -> Nat]
      /\ cur.event # 0 /\ wslot \notin ToSet(free_queue_) /\ phase # "init"
  BY DEF CallbackDone, TypeOK, flags, history, SlotInv, CallbackStable, Fresh
<1>2. \A e \in 1 .. posted' : runs'[e] <= goal'[e]
  BY <1>1 DEF RunInv
<1>3. ASSUME running_ PROVE Tally'
  <2>1. Tally /\ ~ScheduleFull
    BY <1>1, <1>3, RoomForRepetition DEF RunInv
  <2>2. /\ cur.remaining \in Nat /\ cur.event \in 1 .. posted
        /\ \A s \in Slots : slots_[s].remaining \in Nat
    BY <1>1, <2>1 DEF Tally, EventSlot
  <2>3. runs[cur.event] + (IF cur.remaining = 0 THEN 1 ELSE cur.remaining) - 1 = goal[cur.event]
    BY <1>1, <2>1, <2>2 DEF Tally, Left
  <2>4. \A s \in Slots \ {wslot} : slots_[s].event # cur.event
    BY <1>1, <2>1 DEF Tally
  <2>5. ToSet(free_queue_) \subseteq Slots
    BY <1>1 DEF ToSet
  <2>6. CASE RepeatsAgain(cur)
    <3> DEFINE new == [event |-> cur.event, due |-> NextDue(cur),
                       interval |-> cur.interval, remaining |-> cur.remaining - 1]
    <3>1. slots_' = [slots_ EXCEPT ![wslot] = new] /\ free_queue_' = free_queue_
      BY <1>1, <2>1, <2>6 DEF CallbackDone
    <3>2. /\ slots_'[wslot] = new /\ \A s \in Slots \ {wslot} : slots_'[s] = slots_[s]
          /\ new.event = cur.event /\ new.remaining = cur.remaining - 1 /\ cur.remaining > 1
      BY <1>1, <2>6, <3>1 DEF RepeatsAgain
    <3>3. \A s \in Slots : slots_'[s].event = slots_[s].event
      BY <3>2
    <3>4. \A s \in Slots : Left(s)' = Left(s)
      <4>1. ASSUME NEW s \in Slots, s = wslot PROVE Left(s)' = Left(s)
        <5>1. /\ slots_[s].remaining = cur.remaining /\ slots_'[s].remaining = cur.remaining - 1
              /\ wslot = s /\ wpc' # "run"
          BY <1>1, <3>2, <4>1
        <5>2. QED BY <1>1, <2>2, <3>2, <5>1 DEF Left
      <4>2. \A s \in Slots \ {wslot} : Left(s)' = Left(s)
        BY <1>1, <3>2 DEF Left
      <4>3. QED BY <4>1, <4>2
    <3>5. QED BY <1>1, <2>1, <2>5, <3>1, <3>3, <3>4 DEF Tally
  <2>7. CASE ~RepeatsAgain(cur)
    <3>1. slots_' = [slots_ EXCEPT ![wslot] = EmptySlot] /\ free_queue_' = Append(free_queue_, wslot)
      BY <1>1, <2>7 DEF CallbackDone, Recycle
    <3>2. /\ slots_'[wslot].event = 0 /\ \A s \in Slots \ {wslot} : slots_'[s] = slots_[s]
      BY <1>1, <3>1 DEF EmptySlot
    <3>3. ToSet(free_queue_') = ToSet(free_queue_) \cup {wslot}
      BY <1>1, <3>1, AppendToSet
    <3>4. \A s \in Slots \ {wslot} : Left(s)' = Left(s)
      BY <1>1, <3>2 DEF Left
    <3>5. runs[cur.event] = goal[cur.event]
      <4>1. cur.remaining = 0 \/ cur.remaining = 1
        BY <2>2, <2>7 DEF RepeatsAgain
      <4>2. runs[cur.event] \in Nat /\ goal[cur.event] \in Nat
        BY <1>1, <2>2
      <4>3. QED BY <2>3, <4>1, <4>2
    <3>6. \A s \in ToSet(free_queue_') : slots_'[s].event = 0
      BY <2>1, <2>5, <3>2, <3>3 DEF Tally
    <3>7. \A s \in Slots : slots_'[s].event <= posted
      BY <1>1, <2>1, <3>2 DEF Tally
    <3>8. \A s, t \in Slots : slots_'[s].event = slots_'[t].event => s = t \/ slots_'[s].event = 0
      BY <2>1, <3>2 DEF Tally
    <3>9. \A s \in Slots : slots_'[s].event # 0 =>
             runs[slots_'[s].event] + Left(s)' = goal[slots_'[s].event]
      BY <2>1, <3>2, <3>4 DEF Tally
    <3>10. \A e \in 1 .. posted : (\A s \in Slots : slots_'[s].event # e) => runs[e] = goal[e]
      BY <2>1, <3>2, <3>5 DEF Tally
    <3>11. QED BY <1>1, <3>6, <3>7, <3>8, <3>9, <3>10 DEF Tally
  <2>8. QED BY <2>6, <2>7
<1>4. QED BY <1>1, <1>2, <1>3 DEF RunInv

LEMMA NextRunInv == TypeOK /\ SlotInv /\ RunInv /\ [Next]_vars => RunInv'
<1> SUFFICES ASSUME TypeOK, SlotInv, RunInv, [Next]_vars PROVE RunInv'
  OBVIOUS
<1>1. CASE Construct
  <2>1. /\ posted = 0 /\ phase' = "alive" /\ wpc' # "run" /\ UNCHANGED <<queues, history>>
        /\ \A s \in Slots : slots_[s].event = 0
    BY <1>1 DEF Construct, RunInv, SlotInv, Fresh
  <2>2. /\ posted' = 0 /\ slots_' = slots_ /\ ToSet(free_queue_') \subseteq Slots
    <3>1. free_queue_' \in Seq(Slots)
      BY <2>1 DEF queues, TypeOK
    <3>2. QED BY <2>1, <3>1 DEF queues, history, ToSet
  <2>3. Tally'
    BY <2>1, <2>2 DEF Tally
  <2>4. QED BY <2>1, <2>2, <2>3 DEF RunInv
<1>2. CASE Tick \/ UNCHANGED vars
  BY <1>2 DEF Tick, vars, flags, queues, worker, history, RunInv, Tally, Left
<1>3. CASE Post
  <2>1. \E d, i, c \in Nat : PostBound(d, i, c)
    BY <1>3 DEF Post, PostOnce, PostRepeated
  <2>2. QED BY <2>1, PostRunInv
<1>4. CASE WaitForEvent \/ WorkerExit \/ Timeout \/ SpuriousWakeup
  <2>1. UNCHANGED <<flags, queues, history, wslot>> /\ wpc # "run" /\ wpc' # "run"
    BY <1>4 DEF WaitForEvent, WorkerExit, Timeout, SpuriousWakeup
  <2>2. QED BY <2>1 DEF flags, queues, history, RunInv, Tally, Left
<1>5. CASE CallbackDone
  BY <1>5, CallbackDoneRunInv
<1>6. ASSUME NEW n \in scheduled_queue_, WaitUntilDue(n) PROVE RunInv'
  <2>1. UNCHANGED <<flags, queues, history, wslot>> /\ wpc # "run" /\ wpc' # "run"
    BY <1>6 DEF WaitUntilDue
  <2>2. QED BY <2>1 DEF flags, queues, history, RunInv, Tally, Left
<1>7. ASSUME NEW n \in scheduled_queue_, StartCallback(n) PROVE RunInv'
  BY <1>7, StartRunInv
<1>8. CASE ShutdownFromCallback \/ ShutdownRequest
  <2>1. ~running_' /\ UNCHANGED <<history, slots_>> /\ (phase' = "init" => phase = "init")
    BY <1>8 DEF ShutdownFromCallback, ShutdownRequest, RequestStop
  <2>2. QED BY <2>1 DEF RunInv, history
<1>9. CASE ShutdownFinish
  <2>1. ~running_' /\ phase' = "stopped" /\ UNCHANGED history
    BY <1>9 DEF ShutdownFinish, SlotInv, StopRequested
  <2>2. QED BY <2>1 DEF RunInv, history
<1>10. QED
  BY <1>1, <1>2, <1>3, <1>4, <1>5, <1>6, <1>7, <1>8, <1>9 DEF Next, Worker

(* No event runs more often than asked, and one that has left its slot     *)
(* while the handler runs has run exactly as often as asked: a repetition  *)
(* is never dropped for want of room in the queue.                         *)
THEOREM EventHandlerRunsExactly == Spec => []RunsExactly
<1>1. Init => RunInv
  BY DEF Init, RunInv, EmptySlot
<1>2. RunInv => RunsExactly
  BY DEF RunInv, Tally, RunsExactly
<1>3. QED
  BY <1>1, <1>2, NextRunInv, EventHandlerTypeCorrect, SlotInvariant, PTL DEF Spec
=============================================================================
