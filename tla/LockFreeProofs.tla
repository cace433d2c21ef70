---------------------------- MODULE LockFreeProofs ----------------------------
(* Machine-checked theorems about the two lock-free parts of castle:       *)
(* SpscBuffer, for every ring size, generation range and set of sizes, and *)
(* SharedMutex, for any number of threads and any MaxReaders.              *)
EXTENDS SpscBuffer, SharedMutex, SequenceTheorems, FiniteSetTheorems, TLAPS

-----------------------------------------------------------------------------
(* SpscBuffer *)
USE SpscAssumption

LEMMA InitTypeOK == Init => TypeOK
<1> SUFFICES ASSUME Init PROVE TypeOK
  OBVIOUS
<1>1. 0 \in Slots
  BY DEF Slots
<1>2. committed \in [1 .. reserved -> Nat \cup {Open}]
  BY DEF Init
<1>3. QED
  BY <1>1, <1>2 DEF Init, TypeOK

LEMMA NextIndexInSlots == \A i \in Slots : next_index(i) \in Slots
  BY DEF next_index, Slots

LEMMA NextGenerationInRange == \A g \in 0 .. GenMax : next_generation(g) \in 0 .. GenMax
  BY DEF next_generation

LEMMA NextTypeOK == TypeOK /\ [Next]_vars => TypeOK'
<1> SUFFICES ASSUME TypeOK, [Next]_vars PROVE TypeOK'
  OBVIOUS
<1>1. CASE AcquireWriteLoad
  BY <1>1 DEF AcquireWriteLoad, next_write_slot, TypeOK, slots, consumer, ghosts, history
<1>2. CASE AcquireWriteClaim
  <2>1. generation' \in [Slots -> 0 .. GenMax]
    BY <1>2, NextGenerationInRange DEF AcquireWriteClaim, TypeOK
  <2>2. size' \in [Slots -> Nat] /\ uses' \in [Slots -> Nat]
    <3>1. \A k \in Nat : k + 1 \in Nat
      OBVIOUS
    <3>2. QED BY <1>2, <3>1 DEF AcquireWriteClaim, TypeOK
  <2>3. QED
    BY <1>2, <2>1, <2>2 DEF AcquireWriteClaim, TypeOK, consumer, ghosts, history
<1>3. CASE AcquireWriteStore
  <2>1. committed' = Append(committed, Open) /\ reserved' = reserved + 1 /\ reserved \in Nat
    BY <1>3 DEF AcquireWriteStore, TypeOK
  <2>2. committed \in Seq(Nat \cup {Open}) /\ Len(committed) = reserved
    BY <2>1, IsASeq DEF TypeOK
  <2>3. committed' \in [1 .. reserved' -> Nat \cup {Open}]
    <3>1. Append(committed, Open) \in Seq(Nat \cup {Open}) /\ Len(Append(committed, Open)) = reserved + 1
      BY <2>2, AppendProperties
    <3>2. committed' \in Seq(Nat \cup {Open}) /\ Len(committed') = reserved'
      BY <2>1, <3>1
    <3>3. \A S : \A q \in Seq(S) : q \in [1 .. Len(q) -> S]
      OBVIOUS
    <3>4. QED BY <3>2, <3>3
  <2>4. handles' \subseteq Handle /\ write_index_' \in Slots
    <3>1. [slot |-> wslot, generation |-> generation[wslot],
           mode |-> "write", use |-> uses[wslot]] \in Handle
      BY DEF TypeOK, Handle
    <3>2. QED BY <1>3, <3>1, NextIndexInSlots DEF AcquireWriteStore, TypeOK
  <2>5. buffer' \in [Slots -> Nat] /\ ahead' \in Int
    BY <1>3 DEF AcquireWriteStore, TypeOK
  <2>6. QED
    BY <1>3, <2>3, <2>4, <2>5 DEF AcquireWriteStore, TypeOK, consumer, history
<1>4. ASSUME NEW h \in handles, NEW n \in Sizes, CommitSize(h, n) PROVE TypeOK'
  <2>1. h.slot \in Slots
    BY DEF TypeOK, Handle
  <2>2. QED
    BY <1>4, <2>1 DEF CommitSize, TypeOK, consumer, ghosts, history
<1>5. CASE CommitStore
  <2>1. state' \in [Slots -> {"free", "writing", "ready", "reading"}]
    BY <1>5 DEF CommitStore, TypeOK
  <2>2. committed' \in [1 .. reserved -> Nat \cup {Open}]
    BY <1>5 DEF CommitStore, TypeOK
  <2>3. QED
    BY <1>5, <2>1, <2>2 DEF CommitStore, TypeOK, consumer, history
<1>6. ASSUME NEW h \in handles, CancelSize(h) PROVE TypeOK'
  <2>1. h.slot \in Slots
    BY DEF TypeOK, Handle
  <2>2. QED
    BY <1>6, <2>1 DEF CancelSize, TypeOK, consumer, ghosts, history
<1>7. CASE CancelStore
  BY <1>7 DEF CancelStore, TypeOK, consumer, ghosts
<1>8. CASE AcquireReadLoad
  BY <1>8 DEF AcquireReadLoad, TypeOK, slots, producer, ghosts, history
<1>9. CASE AcquireReadStore
  <2>1. [slot |-> rslot, generation |-> generation[rslot],
         mode |-> "read", use |-> uses[rslot]] \in Handle
    BY DEF TypeOK, Handle
  <2>2. handles' \subseteq Handle /\ read_index_' \in Slots /\ ahead' \in Int
    BY <1>9, <2>1, NextIndexInSlots, SMTT(30) DEF AcquireReadStore, TypeOK
  <2>3. state' \in [Slots -> {"free", "writing", "ready", "reading"}]
    BY <1>9 DEF AcquireReadStore, TypeOK
  <2>4. QED
    BY <1>9, <2>2, <2>3 DEF AcquireReadStore, TypeOK, producer, ghosts, history
<1>10. ASSUME NEW h \in handles, ReleaseRead(h) PROVE TypeOK'
  <2>1. h.slot \in Slots
    BY DEF TypeOK, Handle
  <2>2. QED
    BY <1>10, <2>1 DEF ReleaseRead, TypeOK, slots, producer, ghosts, history
<1>15. CASE ReleaseRefused
  BY <1>15 DEF ReleaseRefused, TypeOK, slots, producer, ghosts, history
<1>16. CASE ReleaseSize
  BY <1>16 DEF ReleaseSize, TypeOK, producer, ghosts, history
<1>11. CASE ReleaseStore
  BY <1>11 DEF ReleaseStore, TypeOK, producer, ghosts, history
<1>12. CASE clear
  <2>1. generation' \in [Slots -> 0 .. GenMax]
    BY <1>12, NextGenerationInRange DEF clear, TypeOK
  <2>2. 0 \in Slots
    BY DEF Slots
  <2>3. uses' \in [Slots -> Nat]
    <3>1. uses \in [Slots -> Nat]
      BY DEF TypeOK
    <3>2. \A s \in Slots : uses[s] + 1 \in Nat
      BY <3>1
    <3>3. QED BY <1>12, <3>2 DEF clear
  <2>4. size' \in [Slots -> Nat] /\ state' \in [Slots -> {"free", "writing", "ready", "reading"}]
    BY <1>12 DEF clear
  <2>5. write_index_' \in Slots /\ read_index_' \in Slots /\ ahead' \in Int
    BY <1>12, <2>2 DEF clear
  <2>6. UNCHANGED <<wpc, wslot, rpc, rslot, handles, buffer, reserved, committed, received>>
    BY <1>12 DEF clear, producer, consumer, ghosts
  <2>8. cancelled' \in BOOLEAN /\ cleared' \in Nat
    BY <1>12 DEF clear, TypeOK
  <2>7. QED
    BY <2>1, <2>3, <2>4, <2>5, <2>6, <2>8 DEF TypeOK
<1>13. CASE UNCHANGED vars
  BY <1>13 DEF vars, TypeOK, slots, producer, consumer, ghosts, history
<1>14. QED
  BY <1>1, <1>2, <1>3, <1>4, <1>5, <1>6, <1>7, <1>8, <1>9, <1>10, <1>11, <1>12, <1>13,
     <1>15, <1>16
     DEF Next, Producer, Consumer

-----------------------------------------------------------------------------
(* Ownership.  The state of a slot says who is inside a call on it: the    *)
(* producer works on free and writing slots, the consumer on ready and     *)
(* reading ones.                                                           *)

CallInv ==
    /\ wpc \in {"claim", "acquired"} => state[wslot] = "free"
    /\ wpc \in {"commit", "cancel"} => state[wslot] = "writing"
    /\ wpc = "commit" => size[wslot] \in Sizes
    /\ rpc = "take" => state[rslot] = "ready"
    /\ rpc = "release" => state[rslot] = "reading"

LEMMA NextCallInv == TypeOK /\ CallInv /\ [Next]_vars => CallInv'
<1> SUFFICES ASSUME TypeOK, CallInv, [Next]_vars PROVE CallInv'
  OBVIOUS
<1> DEFINE States == {"free", "writing", "ready", "reading"}
<1>1. /\ state \in [Slots -> States] /\ size \in [Slots -> Nat]
      /\ wslot \in Slots /\ rslot \in Slots /\ write_index_ \in Slots /\ read_index_ \in Slots
      /\ \A h \in handles : h.slot \in Slots
  BY DEF TypeOK, Handle
<1>2. CASE AcquireWriteLoad \/ AcquireReadLoad
  BY <1>1, <1>2 DEF CallInv, AcquireWriteLoad, AcquireReadLoad, writable, readable,
     next_write_slot, slots, producer, consumer
<1>3. CASE AcquireWriteClaim
  BY <1>1, <1>3 DEF CallInv, AcquireWriteClaim, consumer
<1>4. CASE AcquireWriteStore
  BY <1>1, <1>4 DEF CallInv, AcquireWriteStore, consumer
<1>5. ASSUME NEW h \in handles, NEW n \in Sizes, CommitSize(h, n) PROVE CallInv'
  BY <1>1, <1>5 DEF CallInv, CommitSize, CommitCheck, is_write, is_valid, consumer
<1>6. CASE CommitStore \/ CancelStore
  BY <1>1, <1>6 DEF CallInv, CommitStore, CancelStore, consumer
<1>7. ASSUME NEW h \in handles, CancelSize(h) PROVE CallInv'
  BY <1>1, <1>7 DEF CallInv, CancelSize, is_write, is_valid, consumer
<1>8. CASE AcquireReadStore
  BY <1>1, <1>8 DEF CallInv, AcquireReadStore, producer
<1>9. ASSUME NEW h \in handles, ReleaseRead(h) PROVE CallInv'
  BY <1>1, <1>9 DEF CallInv, ReleaseRead, slots, producer
<1>14. CASE ReleaseRefused \/ ReleaseSize
  BY <1>1, <1>14 DEF CallInv, ReleaseRefused, ReleaseSize, slots, producer
<1>10. CASE ReleaseStore
  BY <1>1, <1>10 DEF CallInv, ReleaseStore, producer
<1>11. CASE clear
  BY <1>11 DEF CallInv, clear, producer, consumer
<1>12. CASE UNCHANGED vars
  BY <1>12 DEF CallInv, vars, slots, producer, consumer
<1>13. QED
  BY <1>2, <1>3, <1>4, <1>5, <1>6, <1>7, <1>8, <1>9, <1>10, <1>11, <1>12,
      <1>14
     DEF Next, Producer, Consumer

LEMMA CallInvInvariant == Spec => [](TypeOK /\ CallInv)
<1>1. Init => CallInv
  BY DEF Init, CallInv
<1>2. QED
  BY <1>1, InitTypeOK, NextTypeOK, NextCallInv, PTL DEF Spec

(* Every reachable state of the descriptor ring is well typed: no cursor   *)
(* leaves the ring and no generation leaves its range.                     *)
THEOREM SpscTypeCorrect == Spec => []TypeOK
  BY CallInvInvariant, PTL

(* No slot is owned by the producer and the consumer at once, with any     *)
(* mixture of cancelled reservations, stale handles and clear() calls.     *)
THEOREM SpscExclusiveOwnership == Spec => []ExclusiveOwnership
<1>1. TypeOK /\ CallInv => ExclusiveOwnership
  <2> SUFFICES ASSUME TypeOK, CallInv, NEW s \in Slots,
                      s \in ProducerOwns, s \in ConsumerOwns
               PROVE  FALSE
    BY DEF ExclusiveOwnership, ProducerOwns
  <2>1. state[s] \in {"free", "writing"}
    BY DEF ProducerOwns, CallInv, is_write, is_valid, TypeOK
  <2>2. state[s] \in {"ready", "reading"}
    BY DEF ConsumerOwns, CallInv, is_read, is_valid, TypeOK
  <2>3. QED BY <2>1, <2>2
<1>2. QED BY <1>1, CallInvInvariant, PTL

-----------------------------------------------------------------------------
(* Generations.  The generation of a slot is the number of its uses,       *)
(* counted from 1 to GenMax and then again from 1.                         *)

Counts(use, g) == g \in 1 .. GenMax /\ \E turns \in Nat : use = turns * GenMax + g

GenInv ==
    /\ \A s \in Slots : \/ uses[s] = 0 /\ generation[s] = 0 /\ state[s] = "free"
                        \/ Counts(uses[s], generation[s])
    /\ wpc = "acquired" => uses[wslot] > 0
    /\ \A h \in handles : h.use <= uses[h.slot] /\ Counts(h.use, h.generation)

LEMMA CountsNext ==
  ASSUME NEW use \in Nat, NEW g \in 0 .. GenMax,
         (use = 0 /\ g = 0) \/ Counts(use, g)
  PROVE  Counts(use + 1, next_generation(g))
<1>1. CASE use = 0 /\ g = 0
  <2>1. next_generation(g) = 1
    BY <1>1 DEF next_generation
  <2>2. use + 1 = 0 * GenMax + 1
    BY <1>1
  <2>3. QED BY <2>1, <2>2 DEF Counts
<1>2. CASE Counts(use, g)
  <2>1. PICK turns \in Nat : use = turns * GenMax + g
    BY <1>2 DEF Counts
  <2>2. CASE g = GenMax
    <3>1. use + 1 = (turns + 1) * GenMax + 1 /\ turns + 1 \in Nat
      BY <2>1, <2>2
    <3>2. next_generation(g) = 1 /\ 1 \in 1 .. GenMax
      BY <2>2 DEF next_generation
    <3>3. QED BY <3>1, <3>2 DEF Counts
  <2>3. CASE g # GenMax
    <3>1. use + 1 = turns * GenMax + (g + 1) /\ g + 1 \in 1 .. GenMax
      BY <2>1, <2>3
    <3>2. QED BY <2>3, <3>1 DEF Counts, next_generation
  <2>4. QED BY <2>2, <2>3
<1>3. QED BY <1>1, <1>2

LEMMA SameGeneration ==
  ASSUME NEW a \in Nat, NEW b \in Nat, NEW g \in Nat, Counts(a, g), Counts(b, g), a <= b
  PROVE  (b - a) % GenMax = 0
<1>1. PICK k \in Nat : a = k * GenMax + g
  BY DEF Counts
<1>2. PICK l \in Nat : b = l * GenMax + g
  BY DEF Counts
<1>3. l - k \in Nat /\ b - a = (l - k) * GenMax
  BY <1>1, <1>2
<1>4. \A n \in Nat : (n * GenMax) % GenMax = 0
  OBVIOUS
<1>5. QED BY <1>3, <1>4

LEMMA NextGenInv == TypeOK /\ CallInv /\ GenInv /\ [Next]_vars => GenInv'
<1> SUFFICES ASSUME TypeOK, CallInv, GenInv, [Next]_vars PROVE GenInv'
  OBVIOUS
<1>1. /\ state \in [Slots -> {"free", "writing", "ready", "reading"}]
      /\ uses \in [Slots -> Nat] /\ generation \in [Slots -> 0 .. GenMax]
      /\ wslot \in Slots /\ rslot \in Slots
      /\ \A h \in handles : h.slot \in Slots /\ h.use \in Nat
  BY DEF TypeOK, Handle
<1>2. CASE AcquireWriteLoad \/ AcquireReadLoad
  BY <1>2 DEF GenInv, AcquireWriteLoad, AcquireReadLoad, slots, producer, consumer
<1>3. CASE AcquireWriteClaim
  <2>1. /\ generation' = [generation EXCEPT ![wslot] = next_generation(@)]
        /\ uses' = [uses EXCEPT ![wslot] = @ + 1]
        /\ state' = state /\ handles' = handles /\ wslot' = wslot
    BY <1>3 DEF AcquireWriteClaim
  <2>2. Counts(uses[wslot] + 1, next_generation(generation[wslot]))
    BY <1>1, CountsNext DEF GenInv
  <2>3. /\ uses'[wslot] = uses[wslot] + 1 /\ generation'[wslot] = next_generation(generation[wslot])
        /\ \A s \in Slots \ {wslot} : uses'[s] = uses[s] /\ generation'[s] = generation[s]
    BY <1>1, <2>1
  <2>4. \A s \in Slots : uses[s] <= uses'[s]
    BY <1>1, <2>3
  <2>5. \A h \in handles : h.use <= uses'[h.slot]
    <3>1. TAKE h \in handles
    <3>2. h.slot \in Slots /\ h.use \in Nat /\ h.use <= uses[h.slot]
      BY <1>1 DEF GenInv
    <3>3. uses[h.slot] \in Nat /\ uses'[h.slot] \in Nat /\ uses[h.slot] <= uses'[h.slot]
      BY <1>1, <2>3, <2>4, <3>2
    <3>4. QED BY <3>2, <3>3
  <2>6. QED BY <1>1, <2>1, <2>2, <2>3, <2>5 DEF GenInv
<1>4. CASE AcquireWriteStore
  <2> DEFINE new == [slot |-> wslot, generation |-> generation[wslot],
                     mode |-> "write", use |-> uses[wslot]]
  <2>1. /\ uses' = uses /\ generation' = generation /\ handles' = handles \cup {new}
        /\ wpc = "acquired" /\ wpc' = "idle" /\ state' = [state EXCEPT ![wslot] = "writing"]
    BY <1>4 DEF AcquireWriteStore
  <2>2. Counts(uses[wslot], generation[wslot])
    BY <1>1, <2>1 DEF GenInv
  <2>3. new.slot = wslot /\ new.use = uses[wslot] /\ new.generation = generation[wslot]
    OBVIOUS
  <2>4. \A s \in Slots \ {wslot} : state'[s] = state[s]
    BY <1>1, <2>1
  <2>5. uses[wslot] <= uses[wslot]
    BY <1>1
  <2>6. \A h \in handles' : h.use <= uses[h.slot] /\ Counts(h.use, h.generation)
    BY <2>1, <2>2, <2>3, <2>5 DEF GenInv
  <2>7. \A s \in Slots : \/ uses[s] = 0 /\ generation[s] = 0 /\ state'[s] = "free"
                         \/ Counts(uses[s], generation[s])
    BY <2>2, <2>4 DEF GenInv
  <2>8. QED BY <2>1, <2>6, <2>7 DEF GenInv
<1>5. ASSUME NEW h \in handles, NEW n \in Sizes, CommitSize(h, n) PROVE GenInv'
  BY <1>5 DEF GenInv, CommitSize
<1>6. CASE CommitStore \/ CancelStore
  <2>1. /\ UNCHANGED <<uses, generation, handles>> /\ state[wslot] = "writing" /\ wpc' = "idle"
        /\ \A s \in Slots \ {wslot} : state'[s] = state[s]
    BY <1>1, <1>6 DEF CommitStore, CancelStore, CallInv, ghosts
  <2>2. Counts(uses[wslot], generation[wslot])
    BY <1>1, <2>1 DEF GenInv
  <2>3. QED BY <2>1, <2>2 DEF GenInv
<1>7. ASSUME NEW h \in handles, CancelSize(h) PROVE GenInv'
  BY <1>7 DEF GenInv, CancelSize
<1>8. CASE AcquireReadStore
  <2> DEFINE new == [slot |-> rslot, generation |-> generation[rslot],
                     mode |-> "read", use |-> uses[rslot]]
  <2>1. /\ uses' = uses /\ generation' = generation /\ handles' = handles \cup {new}
        /\ UNCHANGED producer /\ state[rslot] = "ready"
        /\ state' = [state EXCEPT ![rslot] = "reading"]
    BY <1>8 DEF AcquireReadStore, CallInv
  <2>2. Counts(uses[rslot], generation[rslot])
    BY <1>1, <2>1 DEF GenInv
  <2>3. new.slot = rslot /\ new.use = uses[rslot] /\ new.generation = generation[rslot]
    OBVIOUS
  <2>4. \A s \in Slots \ {rslot} : state'[s] = state[s]
    BY <1>1, <2>1
  <2>5. uses[rslot] <= uses[rslot]
    BY <1>1
  <2>6. \A h \in handles' : h.use <= uses[h.slot] /\ Counts(h.use, h.generation)
    BY <2>1, <2>2, <2>3, <2>5 DEF GenInv
  <2>7. \A s \in Slots : \/ uses[s] = 0 /\ generation[s] = 0 /\ state'[s] = "free"
                         \/ Counts(uses[s], generation[s])
    BY <2>2, <2>4 DEF GenInv
  <2>8. QED BY <2>1, <2>6, <2>7 DEF GenInv, producer
<1>9. ASSUME NEW h \in handles, ReleaseRead(h) PROVE GenInv'
  BY <1>9 DEF GenInv, ReleaseRead, slots, producer
<1>14. CASE ReleaseRefused \/ ReleaseSize
  BY <1>14 DEF GenInv, ReleaseRefused, ReleaseSize, slots, producer
<1>10. CASE ReleaseStore
  <2>1. /\ UNCHANGED <<uses, generation, handles, producer>>
        /\ \A s \in Slots : state'[s] = state[s] \/ state'[s] = "free"
    BY <1>1, <1>10 DEF ReleaseStore
  <2>2. QED BY <2>1 DEF GenInv, producer
<1>11. CASE clear
  <2>1. /\ generation' = [s \in Slots |-> next_generation(generation[s])]
        /\ uses' = [s \in Slots |-> uses[s] + 1] /\ handles' = handles /\ wpc' = "idle"
    BY <1>11 DEF clear, producer
  <2>2. \A s \in Slots : Counts(uses'[s], generation'[s])
    BY <1>1, <2>1, CountsNext DEF GenInv
  <2>3. \A h \in handles : h.use <= uses'[h.slot]
    BY <1>1, <2>1 DEF GenInv
  <2>4. QED BY <2>1, <2>2, <2>3 DEF GenInv
<1>12. CASE UNCHANGED vars
  BY <1>12 DEF GenInv, vars, slots, producer, consumer
<1>13. QED
  BY <1>2, <1>3, <1>4, <1>5, <1>6, <1>7, <1>8, <1>9, <1>10, <1>11, <1>12,
      <1>14
     DEF Next, Producer, Consumer

(* For every width of the generation counter: a copy of a handle is valid  *)
(* only for the use of the slot it was made for, or after the counter went *)
(* all the way round since.                                                *)
THEOREM SpscStaleHandlesInvalid == Spec => []StaleHandlesInvalid
<1>1. Init => GenInv
  BY DEF Init, GenInv
<1>2. TypeOK /\ GenInv => StaleHandlesInvalid
  <2> SUFFICES ASSUME TypeOK, GenInv, NEW h \in handles, is_valid(h)
               PROVE  (uses[h.slot] - h.use) % GenMax = 0
    BY DEF StaleHandlesInvalid
  <2>1. h.slot \in Slots /\ h.use \in Nat /\ uses[h.slot] \in Nat
    BY DEF TypeOK, Handle
  <2>2. h.use <= uses[h.slot] /\ Counts(h.use, h.generation)
    BY DEF GenInv
  <2>3. h.generation \in Nat /\ h.generation # 0
    BY <2>2 DEF Counts
  <2>4. Counts(uses[h.slot], h.generation)
    BY <2>1, <2>3 DEF GenInv, is_valid
  <2>5. QED BY <2>1, <2>2, <2>3, <2>4, SameGeneration
<1>3. QED
  BY <1>1, <1>2, NextGenInv, CallInvInvariant, PTL DEF Spec

-----------------------------------------------------------------------------
(* Payloads.  Slots that are in use carry different buffers, so that a     *)
(* commit never touches the record of another one.                         *)

BufferInv ==
    /\ \A s \in Slots : state[s] # "free" => buffer[s] \in 1 .. reserved
    /\ \A s, t \in Slots :
           state[s] # "free" /\ state[t] # "free" /\ buffer[s] = buffer[t] => s = t
    /\ DeliveredIntact

LEMMA NextBufferInv == TypeOK /\ CallInv /\ BufferInv /\ [Next]_vars => BufferInv'
<1> SUFFICES ASSUME TypeOK, CallInv, BufferInv, [Next]_vars PROVE BufferInv'
  OBVIOUS
<1>1. /\ state \in [Slots -> {"free", "writing", "ready", "reading"}]
      /\ size \in [Slots -> Nat] /\ buffer \in [Slots -> Nat] /\ reserved \in Nat
      /\ committed \in [1 .. reserved -> Nat \cup {Open}]
      /\ wslot \in Slots /\ rslot \in Slots
      /\ \A h \in handles : h.slot \in Slots
  BY DEF TypeOK, Handle
<1>2. CASE AcquireWriteLoad \/ AcquireReadLoad
  BY <1>2 DEF BufferInv, DeliveredIntact, AcquireWriteLoad, AcquireReadLoad, slots, producer,
              consumer, ghosts
<1>3. CASE AcquireWriteClaim
  BY <1>1, <1>3 DEF BufferInv, DeliveredIntact, AcquireWriteClaim, CallInv, consumer, ghosts
<1>4. CASE AcquireWriteStore
  <2>1. /\ state' = [state EXCEPT ![wslot] = "writing"] /\ reserved' = reserved + 1
        /\ buffer' = [buffer EXCEPT ![wslot] = reserved + 1]
        /\ committed' = Append(committed, Open) /\ size' = size
        /\ UNCHANGED <<rpc, rslot>>
    BY <1>4 DEF AcquireWriteStore, consumer
  <2>2. committed \in Seq(Nat \cup {Open}) /\ Len(committed) = reserved
    BY <1>1, IsASeq
  <2>3. \A i \in 1 .. reserved : committed'[i] = committed[i]
    BY <2>1, <2>2, AppendProperties
  <2>4. /\ state'[wslot] = "writing" /\ buffer'[wslot] = reserved + 1
        /\ \A s \in Slots \ {wslot} : state'[s] = state[s] /\ buffer'[s] = buffer[s]
    BY <1>1, <2>1
  <2>5. \A s \in Slots : state'[s] # "free" => buffer'[s] \in 1 .. reserved'
    BY <1>1, <2>1, <2>4 DEF BufferInv
  <2>6. \A s \in Slots \ {wslot} : state'[s] # "free" => buffer'[s] # reserved + 1
    BY <1>1, <2>4 DEF BufferInv
  <2>7. \A s, t \in Slots :
           state'[s] # "free" /\ state'[t] # "free" /\ buffer'[s] = buffer'[t] => s = t
    BY <2>4, <2>6 DEF BufferInv
  <2>8. DeliveredIntact'
    <3> SUFFICES ASSUME NEW s \in Slots, state'[s] \in {"ready", "reading"},
                        ~(rpc' = "release" /\ rslot' = s)
                 PROVE  committed'[buffer'[s]] = size'[s]
      BY DEF DeliveredIntact
    <3>1. s # wslot
      BY <2>4
    <3>2. buffer[s] \in 1 .. reserved /\ committed[buffer[s]] = size[s]
      BY <2>1, <2>4, <3>1 DEF BufferInv, DeliveredIntact
    <3>3. QED BY <2>1, <2>3, <2>4, <3>1, <3>2
  <2>9. QED BY <2>5, <2>7, <2>8 DEF BufferInv
<1>5. ASSUME NEW h \in handles, NEW n \in Sizes, CommitSize(h, n) PROVE BufferInv'
  BY <1>1, <1>5 DEF BufferInv, DeliveredIntact, CommitSize, CommitCheck, is_write, is_valid,
                    consumer, ghosts
<1>6. CASE CommitStore
  <2>1. /\ state[wslot] = "writing" /\ state' = [state EXCEPT ![wslot] = "ready"]
        /\ committed' = [committed EXCEPT ![buffer[wslot]] = size[wslot]]
        /\ UNCHANGED <<size, buffer, reserved, rpc, rslot>>
    BY <1>6 DEF CommitStore, CallInv, consumer
  <2>2. buffer[wslot] \in 1 .. reserved
    BY <1>1, <2>1 DEF BufferInv
  <2>3. /\ state'[wslot] = "ready" /\ \A s \in Slots \ {wslot} : state'[s] = state[s]
        /\ committed'[buffer[wslot]] = size[wslot]
        /\ \A i \in 1 .. reserved : i # buffer[wslot] => committed'[i] = committed[i]
    BY <1>1, <2>1, <2>2
  <2>4. \A s \in Slots \ {wslot} : state[s] # "free" => buffer[s] # buffer[wslot]
    BY <1>1, <2>1 DEF BufferInv
  <2>5. DeliveredIntact'
    <3> SUFFICES ASSUME NEW s \in Slots, state'[s] \in {"ready", "reading"},
                        ~(rpc' = "release" /\ rslot' = s)
                 PROVE  committed'[buffer'[s]] = size'[s]
      BY DEF DeliveredIntact
    <3>1. CASE s = wslot
      BY <2>1, <2>3, <3>1
    <3>2. CASE s # wslot
      <4>1. buffer[s] \in 1 .. reserved /\ committed[buffer[s]] = size[s] /\ buffer[s] # buffer[wslot]
        BY <2>1, <2>3, <2>4, <3>2 DEF BufferInv, DeliveredIntact
      <4>2. QED BY <2>1, <2>3, <4>1
    <3>3. QED BY <3>1, <3>2
  <2>6. \A s \in Slots : state'[s] # "free" => state[s] # "free"
    BY <2>1, <2>3
  <2>7. QED BY <2>1, <2>5, <2>6 DEF BufferInv
<1>7. ASSUME NEW h \in handles, CancelSize(h) PROVE BufferInv'
  BY <1>1, <1>7 DEF BufferInv, DeliveredIntact, CancelSize, is_write, is_valid, consumer, ghosts
<1>8. CASE CancelStore
  BY <1>1, <1>8 DEF BufferInv, DeliveredIntact, CancelStore, consumer, ghosts
<1>9. CASE AcquireReadStore
  BY <1>1, <1>9 DEF BufferInv, DeliveredIntact, AcquireReadStore, CallInv, ghosts
<1>10. ASSUME NEW h \in handles, ReleaseRead(h) PROVE BufferInv'
  BY <1>10 DEF BufferInv, DeliveredIntact, ReleaseRead, slots, ghosts
<1>15. CASE ReleaseRefused
  BY <1>15 DEF BufferInv, DeliveredIntact, ReleaseRefused, slots, ghosts
<1>16. CASE ReleaseSize
  BY <1>1, <1>16 DEF BufferInv, DeliveredIntact, ReleaseSize, ghosts
<1>11. CASE ReleaseStore
  BY <1>1, <1>11 DEF BufferInv, DeliveredIntact, ReleaseStore, ghosts
<1>12. CASE clear
  BY <1>12 DEF BufferInv, DeliveredIntact, clear
<1>13. CASE UNCHANGED vars
  BY <1>13 DEF BufferInv, DeliveredIntact, vars, slots, producer, consumer, ghosts
<1>14. QED
  BY <1>2, <1>3, <1>4, <1>5, <1>6, <1>7, <1>8, <1>9, <1>10, <1>11, <1>12, <1>13,
     <1>15, <1>16
     DEF Next, Producer, Consumer

(* With cancelled reservations, clear() and stale copies in any mixture, a *)
(* buffer that is ready or being read carries the size it was committed    *)
(* with.                                                                   *)
THEOREM SpscDeliveredIntact == Spec => []DeliveredIntact
<1>1. Init => BufferInv
  BY DEF Init, BufferInv, DeliveredIntact
<1>2. BufferInv => DeliveredIntact
  BY DEF BufferInv
<1>3. QED
  BY <1>1, <1>2, NextBufferInv, CallInvInvariant, PTL DEF Spec

-----------------------------------------------------------------------------
(* Refinement of the channel, until a reservation is cancelled and again   *)
(* after clear().  The slots from the read cursor up to the write cursor   *)
(* are exactly those on their way.                                         *)

RingInv ==
    /\ ahead \in 0 .. N_BUFFERS
    /\ write_index_ = At(ahead)
    /\ \A i \in 0 .. ahead - 1 : state[At(i)] \in {"writing", "ready"}
    /\ \A i \in ahead .. N_BUFFERS - 1 : state[At(i)] \in {"free", "reading"}
    /\ wpc \in {"claim", "acquired"} => wslot = write_index_
    /\ rpc = "take" => rslot = read_index_

(* Ring arithmetic: the offsets 0 .. N_BUFFERS - 1 from a cursor enumerate *)
(* the slots without repetition, and next_index steps to the next offset.  *)
LEMMA RingArithmetic ==
  ASSUME read_index_ \in Slots
  PROVE  /\ \A i \in 0 .. N_BUFFERS : At(i) \in Slots
         /\ \A i, j \in 0 .. N_BUFFERS - 1 : At(i) = At(j) => i = j
         /\ \A s \in Slots : \E i \in 0 .. N_BUFFERS - 1 : At(i) = s
         /\ \A i \in 0 .. N_BUFFERS - 1 : next_index(At(i)) = At(i + 1)
         /\ At(0) = read_index_ /\ At(N_BUFFERS) = read_index_
<1>1. ASSUME NEW s \in Slots PROVE \E i \in 0 .. N_BUFFERS - 1 : At(i) = s
  <2>1. CASE s >= read_index_
    <3>1. s - read_index_ \in 0 .. N_BUFFERS - 1 /\ At(s - read_index_) = s
      BY <2>1 DEF At, AtFrom, Slots
    <3>2. QED BY <3>1
  <2>2. CASE s < read_index_
    <3>1. s - read_index_ + N_BUFFERS \in 0 .. N_BUFFERS - 1
          /\ At(s - read_index_ + N_BUFFERS) = s
      BY <2>2 DEF At, AtFrom, Slots
    <3>2. QED BY <3>1
  <2>3. QED BY <2>1, <2>2 DEF Slots
<1>2. \A i \in 0 .. N_BUFFERS : At(i) \in Slots
  BY DEF At, AtFrom, Slots
<1>3. \A i, j \in 0 .. N_BUFFERS - 1 : At(i) = At(j) => i = j
  BY DEF At, AtFrom, Slots
<1>4. \A i \in 0 .. N_BUFFERS - 1 : next_index(At(i)) = At(i + 1)
  BY DEF At, AtFrom, Slots, next_index
<1>5. At(0) = read_index_ /\ At(N_BUFFERS) = read_index_
  BY DEF At, AtFrom, Slots
<1>6. QED BY <1>1, <1>2, <1>3, <1>4, <1>5

(* Where the offsets lead after the read cursor has advanced. *)
LEMMA RingAdvance ==
  ASSUME read_index_ \in Slots, read_index_' = next_index(read_index_)
  PROVE  /\ \A i \in 0 .. N_BUFFERS - 1 : At(i)' = At(i + 1)
         /\ At(N_BUFFERS - 1)' = At(0)
  BY DEF At, AtFrom, Slots, next_index

(* A slot in state writing or ready is on its way, and only such a slot.   *)
LEMMA OnTheWayState ==
  ASSUME TypeOK, RingInv, NEW s \in Slots, state[s] \in {"writing", "ready"}
  PROVE  \E i \in 0 .. ahead - 1 : At(i) = s
<1>1. PICK i \in 0 .. N_BUFFERS - 1 : At(i) = s
  BY RingArithmetic DEF TypeOK
<1>2. i \notin ahead .. N_BUFFERS - 1
  BY <1>1 DEF RingInv
<1>3. QED
  BY <1>1, <1>2 DEF RingInv

(* There is room when the slot under the write cursor is free.             *)
LEMMA RoomWhenFree ==
  ASSUME TypeOK, RingInv, state[write_index_] = "free"
  PROVE  ahead \in 0 .. N_BUFFERS - 1
<1>1. ahead # N_BUFFERS
  <2> SUFFICES ASSUME ahead = N_BUFFERS PROVE FALSE
    OBVIOUS
  <2>1. write_index_ = At(0)
    BY RingArithmetic DEF RingInv, TypeOK
  <2>2. state[At(0)] \in {"writing", "ready"}
    BY DEF RingInv
  <2>3. QED BY <2>1, <2>2
<1>2. QED
  BY <1>1 DEF RingInv

(* The buffer under the read cursor is on its way when it is ready.        *)
LEMMA SomethingWhenReady ==
  ASSUME TypeOK, RingInv, state[read_index_] = "ready"
  PROVE  ahead \in 1 .. N_BUFFERS
<1>1. ahead # 0
  <2> SUFFICES ASSUME ahead = 0 PROVE FALSE
    OBVIOUS
  <2>1. read_index_ = At(0) /\ 0 \in ahead .. N_BUFFERS - 1
    BY RingArithmetic DEF TypeOK
  <2>2. QED BY <2>1 DEF RingInv
<1>2. QED
  BY <1>1 DEF RingInv

LEMMA NextRingInv ==
  ASSUME TypeOK, CallInv, ~cancelled => RingInv, [Next]_vars, ~cancelled'
  PROVE  RingInv'
<1>0. CASE clear
  <2>1. /\ ahead' = 0 /\ read_index_' = 0 /\ write_index_' = 0
        /\ state' = [s \in Slots |-> "free"]
        /\ wpc' = "idle" /\ rpc' = "idle"
    BY <1>0 DEF clear, producer, consumer
  <2>2. \A i \in 0 .. N_BUFFERS - 1 : At(i)' \in Slots
    BY <2>1 DEF At, AtFrom, Slots
  <2>3. write_index_' = AtFrom(read_index_', ahead')
    BY <2>1 DEF AtFrom
  <2>4. QED
    BY <2>1, <2>2, <2>3 DEF RingInv, At
<1> SUFFICES ASSUME ~clear PROVE RingInv'
  BY <1>0
<1>13. RingInv
  BY DEF Next, Producer, Consumer, vars, history, AcquireWriteLoad, AcquireWriteClaim,
     AcquireWriteStore, CommitSize, CommitStore, CancelSize, CancelStore, AcquireReadLoad,
     AcquireReadStore, ReleaseRead, ReleaseRefused, ReleaseSize, ReleaseStore
<1>1. /\ state \in [Slots -> {"free", "writing", "ready", "reading"}]
      /\ wslot \in Slots /\ rslot \in Slots /\ write_index_ \in Slots /\ read_index_ \in Slots
      /\ \A h \in handles : h.slot \in Slots
      /\ ahead \in 0 .. N_BUFFERS
  BY <1>13 DEF TypeOK, Handle, RingInv
<1>2. CASE AcquireWriteLoad \/ AcquireWriteClaim \/ AcquireReadLoad
  BY <1>2, <1>13 DEF AcquireWriteLoad, AcquireWriteClaim, AcquireReadLoad, RingInv, At,
     next_write_slot, slots, producer, consumer
<1>3. CASE AcquireWriteStore
  <2>1. /\ wslot = At(ahead) /\ ahead \in 0 .. N_BUFFERS - 1
        /\ ahead' = ahead + 1 /\ read_index_' = read_index_
        /\ state' = [state EXCEPT ![At(ahead)] = "writing"]
        /\ write_index_' = next_index(write_index_) /\ write_index_ = At(ahead)
        /\ wpc' = "idle" /\ UNCHANGED <<rpc, rslot>>
    BY <1>13, <1>3, RoomWhenFree DEF AcquireWriteStore, RingInv, CallInv, consumer
  <2>2. write_index_' = AtFrom(read_index_', ahead')
    BY <1>1, <2>1, RingArithmetic DEF At
  <2>3. ASSUME NEW i \in 0 .. ahead PROVE state'[At(i)'] \in {"writing", "ready"}
    <3>1. CASE i = ahead
      BY <1>1, <2>1, <3>1 DEF At
    <3>2. CASE i # ahead
      <4>1. At(i) # At(ahead) /\ i \in 0 .. ahead - 1 /\ At(i) \in Slots
        BY <1>1, <2>1, <3>2, RingArithmetic
      <4>2. QED BY <1>13, <1>1, <2>1, <4>1 DEF RingInv, At
    <3>3. QED BY <3>1, <3>2
  <2>4. ASSUME NEW i \in ahead + 1 .. N_BUFFERS - 1 PROVE state'[At(i)'] \in {"free", "reading"}
    <3>1. At(i) # At(ahead) /\ At(i) \in Slots /\ i \in ahead .. N_BUFFERS - 1
      BY <1>1, <2>1, RingArithmetic
    <3>2. QED BY <1>13, <1>1, <2>1, <3>1 DEF RingInv, At
  <2>5. ahead' \in 0 .. N_BUFFERS /\ ahead' - 1 = ahead
    BY <2>1
  <2>6. QED
    BY <1>13, <2>1, <2>2, <2>3, <2>4, <2>5 DEF RingInv, At
<1>4. ASSUME NEW h \in handles, NEW n \in Sizes, CommitSize(h, n) PROVE RingInv'
  BY <1>4, <1>13 DEF CommitSize, RingInv, At, consumer
<1>5. CASE CommitStore
  <2>1. /\ state' = [state EXCEPT ![wslot] = "ready"] /\ state[wslot] = "writing"
        /\ wpc' = "idle" /\ UNCHANGED <<ahead, read_index_, write_index_, rpc, rslot>>
    BY <1>5 DEF CommitStore, CallInv, consumer
  <2>2. \A s \in Slots : state[s] \in {"writing", "ready"} => state'[s] \in {"writing", "ready"}
    BY <1>1, <2>1
  <2>3. \A s \in Slots : state[s] \in {"free", "reading"} => state'[s] \in {"free", "reading"}
    BY <1>1, <2>1
  <2>4. \A i \in 0 .. N_BUFFERS - 1 : At(i) \in Slots /\ At(i)' = At(i)
    BY <1>1, <2>1, RingArithmetic DEF At
  <2>5. write_index_' = AtFrom(read_index_', ahead')
    BY <1>13, <2>1 DEF RingInv, At
  <2>6. QED
    BY <1>13, <1>1, <2>1, <2>2, <2>3, <2>4, <2>5 DEF RingInv, At
<1>6. ASSUME NEW h \in handles, CancelSize(h) PROVE RingInv'
  BY <1>6, <1>13 DEF CancelSize, RingInv, At, consumer
<1>10. ~CancelStore
  BY DEF CancelStore
<1>7. CASE AcquireReadStore
  <2>1. /\ rslot = read_index_ /\ ahead \in 1 .. N_BUFFERS
        /\ ahead' = ahead - 1 /\ read_index_' = next_index(read_index_)
        /\ state' = [state EXCEPT ![At(0)] = "reading"]
        /\ rpc' = "idle" /\ UNCHANGED <<write_index_, wpc, wslot>>
    BY <1>13, <1>1, <1>7, SomethingWhenReady, RingArithmetic
       DEF AcquireReadStore, RingInv, CallInv, producer
  <2>2. write_index_' = AtFrom(read_index_', ahead')
    <3>1. AtFrom(read_index_', ahead - 1) = At(ahead) /\ write_index_ = At(ahead)
      BY <1>13, <1>1, <2>1 DEF RingInv, At, AtFrom, next_index, Slots
    <3>2. QED BY <2>1, <3>1
  <2>3. ASSUME NEW i \in 0 .. ahead - 2 PROVE state'[At(i)'] \in {"writing", "ready"}
    <3>1. At(i)' = At(i + 1) /\ At(i + 1) # At(0) /\ At(i + 1) \in Slots
      BY <1>1, <2>1, RingArithmetic, RingAdvance
    <3>2. state[At(i + 1)] \in {"writing", "ready"}
      BY <1>13, <2>1 DEF RingInv
    <3>3. QED BY <1>1, <2>1, <3>1, <3>2
  <2>4. ASSUME NEW i \in ahead - 1 .. N_BUFFERS - 1 PROVE state'[At(i)'] \in {"free", "reading"}
    <3>1. CASE i = N_BUFFERS - 1
      <4>1. At(i)' = At(0) /\ At(0) \in Slots
        BY <1>1, <2>1, <3>1, RingArithmetic, RingAdvance
      <4>2. QED BY <1>1, <2>1, <4>1
    <3>2. CASE i # N_BUFFERS - 1
      <4>1. /\ At(i)' = At(i + 1) /\ At(i + 1) # At(0) /\ At(i + 1) \in Slots
            /\ i + 1 \in ahead .. N_BUFFERS - 1
        BY <1>1, <2>1, <3>2, RingArithmetic, RingAdvance
      <4>2. QED BY <1>13, <1>1, <2>1, <4>1 DEF RingInv
    <3>3. QED BY <3>1, <3>2
  <2>5. ahead' \in 0 .. N_BUFFERS /\ ahead' - 1 = ahead - 2 /\ ahead' = ahead - 1
    BY <2>1
  <2>6. QED
    BY <1>13, <2>1, <2>2, <2>3, <2>4, <2>5 DEF RingInv, At
<1>8. CASE ReleaseRefused \/ ReleaseSize \/ \E h \in handles : ReleaseRead(h)
  BY <1>8, <1>13 DEF ReleaseRead, ReleaseRefused, ReleaseSize, RingInv, At, slots, producer
<1>9. CASE ReleaseStore
  <2>1. /\ state' = [state EXCEPT ![rslot] = "free"] /\ state[rslot] = "reading"
        /\ rpc' = "idle" /\ UNCHANGED <<ahead, read_index_, write_index_, wpc, wslot>>
    BY <1>9 DEF ReleaseStore, CallInv, producer
  <2>2. \A s \in Slots : state[s] \in {"writing", "ready"} => state'[s] \in {"writing", "ready"}
    BY <1>1, <2>1
  <2>3. \A s \in Slots : state[s] \in {"free", "reading"} => state'[s] \in {"free", "reading"}
    BY <1>1, <2>1
  <2>4. \A i \in 0 .. N_BUFFERS - 1 : At(i) \in Slots /\ At(i)' = At(i)
    BY <1>1, <2>1, RingArithmetic DEF At
  <2>5. write_index_' = AtFrom(read_index_', ahead')
    BY <1>13, <2>1 DEF RingInv, At
  <2>6. QED
    BY <1>13, <1>1, <2>1, <2>2, <2>3, <2>4, <2>5 DEF RingInv, At
<1>11. CASE UNCHANGED vars
  BY <1>11, <1>13 DEF vars, slots, producer, consumer, RingInv, At
<1>12. QED
  BY <1>2, <1>3, <1>4, <1>5, <1>6, <1>7, <1>8, <1>9, <1>10, <1>11
     DEF Next, Producer, Consumer

(* What the refinement mapping yields, and when a step leaves it alone.    *)

Item == [id : Nat, size : Int]

LEMMA OnTheWayIsSeq ==
  ASSUME TypeOK, RingInv, ~cancelled
  PROVE  onTheWay \in Seq(Item) /\ Len(onTheWay) = ahead /\ ahead \in Nat
<1>1. ahead \in Nat /\ read_index_ \in Slots
  BY DEF RingInv, TypeOK
<1>2. ASSUME NEW i \in 1 .. ahead
      PROVE  [id |-> buffer[At(i - 1)],
              size |-> IF state[At(i - 1)] = "ready" THEN size[At(i - 1)] ELSE Open] \in Item
  <2>1. At(i - 1) \in Slots
    BY <1>1, RingArithmetic DEF RingInv
  <2>2. buffer[At(i - 1)] \in Nat /\ size[At(i - 1)] \in Int
    BY <2>1 DEF TypeOK
  <2>3. QED BY <2>2 DEF Item, Open
<1>3. onTheWay \in [1 .. ahead -> Item]
  BY <1>2 DEF onTheWay
<1>4. QED
  BY <1>1, <1>3

LEMMA OnTheWayAt ==
  ASSUME TypeOK, RingInv, ~cancelled, NEW i \in 1 .. ahead
  PROVE  onTheWay[i] = [id |-> buffer[At(i - 1)],
              size |-> IF state[At(i - 1)] = "ready" THEN size[At(i - 1)] ELSE Open]
  BY DEF onTheWay

(* Only the states ready, the sizes of ready slots and the buffers on      *)
(* their way matter.                                                       *)
LEMMA OnTheWaySame ==
  ASSUME TypeOK, RingInv, ~cancelled, ~cancelled', UNCHANGED <<ahead, read_index_, buffer>>,
         \A s \in Slots : state[s] \in {"writing", "ready"} =>
             /\ state'[s] = "ready" <=> state[s] = "ready"
             /\ state[s] = "ready" => size'[s] = size[s]
  PROVE  onTheWay' = onTheWay
<1>1. ahead \in Nat /\ read_index_ \in Slots
  BY DEF RingInv, TypeOK
<1>2. ASSUME NEW i \in 1 .. ahead
      PROVE  /\ At(i - 1)' = At(i - 1)
             /\ state'[At(i - 1)] = "ready" <=> state[At(i - 1)] = "ready"
             /\ state[At(i - 1)] = "ready" => size'[At(i - 1)] = size[At(i - 1)]
  <2>1. At(i - 1) \in Slots /\ i - 1 \in 0 .. ahead - 1
    BY <1>1, RingArithmetic DEF RingInv
  <2>2. state[At(i - 1)] \in {"writing", "ready"}
    BY <2>1 DEF RingInv
  <2>3. At(i - 1)' = At(i - 1)
    BY DEF At
  <2>4. QED BY <2>1, <2>2, <2>3
<1>3. QED
  BY <1>2 DEF onTheWay

LEMMA StepRefines ==
  ASSUME TypeOK, CallInv, RingInv, ~cancelled, TypeOK', RingInv', ~cancelled', [Next]_vars
  PROVE  [Channel!CNext]_(Channel!cvars)
<1>1. /\ state \in [Slots -> {"free", "writing", "ready", "reading"}]
      /\ size \in [Slots -> Nat] /\ buffer \in [Slots -> Nat] /\ reserved \in Nat
      /\ wslot \in Slots /\ rslot \in Slots /\ read_index_ \in Slots
      /\ \A h \in handles : h.slot \in Slots
  BY DEF TypeOK, Handle
<1>2. onTheWay \in Seq(Item) /\ Len(onTheWay) = ahead /\ ahead \in Nat
  BY OnTheWayIsSeq
<1>3. onTheWay' \in Seq(Item) /\ Len(onTheWay') = ahead' /\ ahead' \in Nat
  <2>1. ahead' \in 0 .. N_BUFFERS /\ ahead' \in Nat /\ read_index_' \in Slots
    BY DEF RingInv, TypeOK
  <2>2. ASSUME NEW i \in 1 .. ahead'
        PROVE  [id |-> buffer'[At(i - 1)'],
                size |-> IF state'[At(i - 1)'] = "ready" THEN size'[At(i - 1)'] ELSE Open] \in Item
    <3>1. At(i - 1)' \in Slots
      <4>1. i - 1 \in 0 .. N_BUFFERS - 1
        BY <2>1
      <4>2. \A r \in Slots, k \in 0 .. N_BUFFERS - 1 : AtFrom(r, k) \in Slots
        BY DEF AtFrom, Slots
      <4>3. QED BY <2>1, <4>1, <4>2 DEF At
    <3>2. buffer'[At(i - 1)'] \in Nat /\ size'[At(i - 1)'] \in Int
      BY <3>1 DEF TypeOK
    <3>3. QED BY <3>2 DEF Item, Open
  <2>3. onTheWay' \in [1 .. ahead' -> Item]
    BY <2>2 DEF onTheWay
  <2>4. QED BY <2>1, <2>3
<1>4. CASE AcquireWriteLoad \/ AcquireReadLoad \/ AcquireWriteClaim \/ ReleaseStore
             \/ ReleaseRefused \/ (\E h \in handles : ReleaseRead(h)) \/ UNCHANGED vars
  <2>1. UNCHANGED <<ahead, read_index_, buffer, reserved, received>>
    BY <1>4 DEF AcquireWriteLoad, AcquireReadLoad, AcquireWriteClaim, ReleaseStore, ReleaseRead,
       ReleaseRefused, vars, ghosts
  <2>2. \A s \in Slots : state[s] \in {"writing", "ready"} =>
           state'[s] = state[s] /\ size'[s] = size[s]
    BY <1>1, <1>4 DEF AcquireWriteLoad, AcquireReadLoad, AcquireWriteClaim, ReleaseStore,
       ReleaseRead, ReleaseRefused, vars, slots, CallInv
  <2>3. onTheWay' = onTheWay
    BY <2>1, <2>2, OnTheWaySame
  <2>4. QED BY <2>1, <2>3 DEF Channel!cvars
<1>5. CASE \/ ReleaseSize
           \/ \E h \in handles : CancelSize(h) \/ \E n \in Sizes : CommitSize(h, n)
  <2>1. UNCHANGED <<ahead, read_index_, buffer, reserved, received, state>>
    BY <1>5 DEF ReleaseSize, CancelSize, CommitSize, ghosts
  <2>2. \A s \in Slots : state[s] = "ready" => size'[s] = size[s]
    BY <1>1, <1>5 DEF ReleaseSize, CancelSize, CommitSize, CommitCheck, is_write, is_valid
  <2>3. onTheWay' = onTheWay
    BY <2>1, <2>2, OnTheWaySame
  <2>4. QED BY <2>1, <2>3 DEF Channel!cvars
<1>6. CASE AcquireWriteStore
  <2>1. /\ wslot = At(ahead) /\ ahead \in 0 .. N_BUFFERS - 1
        /\ ahead' = ahead + 1 /\ read_index_' = read_index_ /\ size' = size
        /\ state' = [state EXCEPT ![At(ahead)] = "writing"]
        /\ buffer' = [buffer EXCEPT ![At(ahead)] = reserved + 1]
        /\ reserved' = reserved + 1 /\ received' = received
    BY <1>6, RoomWhenFree DEF AcquireWriteStore, RingInv, CallInv
  <2>2. /\ \A i \in 1 .. ahead + 1 : At(i - 1)' = At(i - 1) /\ At(i - 1) \in Slots
        /\ \A i \in 1 .. ahead : At(i - 1) # At(ahead)
    BY <1>1, <2>1, RingArithmetic DEF At
  <2> DEFINE new == [id |-> reserved + 1, size |-> Open]
  <2>3. new \in Item
    BY <1>1 DEF Item, Open
  <2>4. /\ Append(onTheWay, new) \in Seq(Item) /\ Len(Append(onTheWay, new)) = ahead + 1
        /\ \A i \in 1 .. ahead : Append(onTheWay, new)[i] = onTheWay[i]
        /\ Append(onTheWay, new)[ahead + 1] = new
    BY <1>2, <2>3, AppendProperties
  <2>5. ASSUME NEW i \in 1 .. ahead + 1 PROVE onTheWay'[i] = Append(onTheWay, new)[i]
    <3>1. onTheWay'[i] = [id |-> buffer'[At(i - 1)],
             size |-> IF state'[At(i - 1)] = "ready" THEN size'[At(i - 1)] ELSE Open]
      BY <2>1, <2>2 DEF onTheWay
    <3>2. CASE i = ahead + 1
      <4>1. At(i - 1) = At(ahead)
        BY <1>2, <3>2
      <4>2. buffer'[At(ahead)] = reserved + 1 /\ state'[At(ahead)] = "writing"
        BY <1>1, <2>1
      <4>3. QED BY <2>4, <3>1, <3>2, <4>1, <4>2
    <3>3. CASE i # ahead + 1
      <4>1. i \in 1 .. ahead
        BY <1>2, <3>3
      <4>2. buffer'[At(i - 1)] = buffer[At(i - 1)] /\ state'[At(i - 1)] = state[At(i - 1)]
        BY <1>1, <2>1, <2>2, <4>1
      <4>3. QED BY <2>1, <2>4, <3>1, <4>1, <4>2, OnTheWayAt
    <3>4. QED BY <3>2, <3>3
  <2>6. onTheWay' = Append(onTheWay, new)
    BY <1>3, <2>1, <2>4, <2>5, SeqEqual
  <2>7. Channel!Reserve
    BY <1>2, <2>1, <2>6 DEF Channel!Reserve, Channel!Open, Open
  <2>8. QED BY <2>7 DEF Channel!CNext
<1>7. CASE CommitStore
  <2>1. /\ state[wslot] = "writing" /\ size[wslot] \in Sizes
        /\ state' = [state EXCEPT ![wslot] = "ready"]
        /\ UNCHANGED <<ahead, read_index_, size, buffer, reserved, received>>
    BY <1>7 DEF CommitStore, CallInv
  <2>2. PICK j \in 0 .. ahead - 1 : At(j) = wslot
    BY <1>1, <2>1, OnTheWayState
  <2>3. /\ \A i \in 1 .. ahead : At(i - 1)' = At(i - 1) /\ At(i - 1) \in Slots
        /\ \A i \in 1 .. ahead : i # j + 1 => At(i - 1) # wslot
        /\ j + 1 \in 1 .. ahead /\ At((j + 1) - 1) = wslot
    <3>1. ahead \in 0 .. N_BUFFERS /\ j \in 0 .. N_BUFFERS - 1
      BY <1>2, <2>2 DEF RingInv
    <3>2. j + 1 \in 1 .. ahead /\ (j + 1) - 1 = j
      BY <1>2, <2>2
    <3>3. \A i \in 1 .. ahead : i - 1 \in 0 .. N_BUFFERS - 1 /\ (i # j + 1 => i - 1 # j)
      BY <3>1
    <3>4. \A i \in 1 .. ahead : At(i - 1) \in Slots /\ (i # j + 1 => At(i - 1) # wslot)
      BY <1>1, <2>2, <3>1, <3>3, RingArithmetic
    <3>5. \A i \in 1 .. ahead : At(i - 1)' = At(i - 1)
      BY <2>1 DEF At
    <3>6. QED BY <2>2, <3>2, <3>4, <3>5
  <2>4. onTheWay[j + 1] = [id |-> buffer[wslot], size |-> Open]
    BY <2>1, <2>3, OnTheWayAt
  <2> DEFINE new == [onTheWay EXCEPT ![j + 1].size = size[wslot]]
  <2>5. /\ new \in Seq(Item) /\ Len(new) = ahead
        /\ new[j + 1] = [id |-> buffer[wslot], size |-> size[wslot]]
        /\ \A i \in 1 .. ahead : i # j + 1 => new[i] = onTheWay[i]
    <3>1. [onTheWay[j + 1] EXCEPT !.size = size[wslot]] = [id |-> buffer[wslot], size |-> size[wslot]]
      BY <2>4
    <3>2. [id |-> buffer[wslot], size |-> size[wslot]] \in Item
      BY <1>1 DEF Item
    <3>3. new = [onTheWay EXCEPT ![j + 1] = [id |-> buffer[wslot], size |-> size[wslot]]]
      BY <3>1
    <3> DEFINE e == [id |-> buffer[wslot], size |-> size[wslot]]
    <3> HIDE DEF new, e
    <3>4. new = [onTheWay EXCEPT ![j + 1] = e] /\ e \in Item /\ j + 1 \in 1 .. Len(onTheWay)
      BY <1>2, <2>3, <3>2, <3>3 DEF e
    <3>5. /\ new \in Seq(Item) /\ Len(new) = Len(onTheWay)
          /\ \A i \in 1 .. Len(onTheWay) : new[i] = IF i = j + 1 THEN e ELSE onTheWay[i]
      BY <1>2, <3>4, ExceptSeq
    <3>6. QED BY <1>2, <2>3, <3>5 DEF e
  <2>6. ASSUME NEW i \in 1 .. ahead PROVE onTheWay'[i] = new[i]
    <3>1. onTheWay'[i] = [id |-> buffer[At(i - 1)],
             size |-> IF state'[At(i - 1)] = "ready" THEN size[At(i - 1)] ELSE Open]
      BY <2>1, <2>3 DEF onTheWay
    <3>2. CASE i = j + 1
      BY <1>1, <2>1, <2>3, <2>5, <3>1, <3>2
    <3>3. CASE i # j + 1
      <4>1. state'[At(i - 1)] = state[At(i - 1)]
        BY <1>1, <2>1, <2>3, <3>3
      <4>2. QED BY <2>5, <3>1, <3>3, <4>1, OnTheWayAt
    <3>4. QED BY <3>2, <3>3
  <2>7. onTheWay' = new
    BY <1>3, <2>1, <2>5, <2>6, SeqEqual
  <2>8. Channel!Commit(j + 1, size[wslot])
    BY <2>1, <2>4, <2>7 DEF Channel!Commit, Channel!Open, Open
  <2>9. QED BY <1>2, <2>1, <2>3, <2>8 DEF Channel!CNext
<1>8. CASE AcquireReadStore
  <2>1. /\ rslot = At(0) /\ ahead \in 1 .. N_BUFFERS /\ state[At(0)] = "ready"
        /\ ahead' = ahead - 1 /\ read_index_' = next_index(read_index_) /\ size' = size
        /\ state' = [state EXCEPT ![At(0)] = "reading"] /\ buffer' = buffer
        /\ reserved' = reserved /\ received' = [id |-> buffer[At(0)], size |-> size[At(0)]]
    BY <1>1, <1>8, SomethingWhenReady, RingArithmetic
       DEF AcquireReadStore, RingInv, CallInv, ghosts
  <2>2. \A i \in 1 .. ahead - 1 :
           At(i - 1)' = At(i) /\ At(i) \in Slots /\ At(i) # At(0)
    <3>1. \A i \in 1 .. ahead - 1 : At(i) \in Slots /\ At(i) # At(0)
      BY <1>1, <2>1, RingArithmetic
    <3>2. \A i \in 1 .. ahead - 1 : At(i - 1)' = At(i)
      BY <1>1, <2>1 DEF At, AtFrom, next_index, Slots
    <3>3. QED BY <3>1, <3>2
  <2>3. /\ onTheWay # << >> /\ Tail(onTheWay) \in Seq(Item) /\ Len(Tail(onTheWay)) = ahead - 1
        /\ \A i \in 1 .. ahead - 1 : Tail(onTheWay)[i] = onTheWay[i + 1]
        /\ Head(onTheWay) = onTheWay[1]
    BY <1>2, <2>1, HeadTailProperties
  <2>4. ASSUME NEW i \in 1 .. ahead - 1 PROVE onTheWay'[i] = Tail(onTheWay)[i]
    <3>1. onTheWay'[i] = [id |-> buffer[At(i)],
             size |-> IF state'[At(i)] = "ready" THEN size[At(i)] ELSE Open]
      BY <2>1, <2>2 DEF onTheWay
    <3>2. state'[At(i)] = state[At(i)]
      BY <1>1, <2>1, <2>2
    <3>3. i + 1 \in 1 .. ahead /\ (i + 1) - 1 = i
      BY <1>2
    <3>4. onTheWay[i + 1] = [id |-> buffer[At(i)],
             size |-> IF state[At(i)] = "ready" THEN size[At(i)] ELSE Open]
      BY <3>3, OnTheWayAt
    <3>5. QED BY <2>3, <3>1, <3>2, <3>4
  <2>5. onTheWay' = Tail(onTheWay)
    BY <1>3, <2>1, <2>3, <2>4, SeqEqual
  <2>6. onTheWay[1] = [id |-> buffer[At(0)], size |-> size[At(0)]]
    <3>1. 1 \in 1 .. ahead /\ 1 - 1 = 0
      BY <2>1
    <3>2. QED BY <2>1, <3>1, OnTheWayAt
  <2>7. size[At(0)] # Open
    BY <1>1, <2>1, RingArithmetic DEF Open
  <2>8. Channel!Receive
    BY <2>1, <2>3, <2>5, <2>6, <2>7 DEF Channel!Receive, Channel!Open, Open
  <2>9. QED BY <2>8 DEF Channel!CNext
<1>9. CASE clear
  <2>1. ahead' = 0 /\ reserved' = reserved /\ received' = received
    BY <1>9 DEF clear, ghosts
  <2>2. onTheWay' = << >>
    BY <1>3, <2>1
  <2>3. Channel!Reset
    BY <2>1, <2>2 DEF Channel!Reset
  <2>4. QED BY <2>3 DEF Channel!CNext
<1>10. ~CancelStore
  BY DEF CancelStore
<1>11. QED
  BY <1>4, <1>5, <1>6, <1>7, <1>8, <1>9, <1>10 DEF Next, Producer, Consumer

(* What clear() does after a cancelled reservation: the channel is empty   *)
(* before and after it.                                                    *)
LEMMA ClearAfterCancel ==
  ASSUME TypeOK, cancelled, ~cancelled', [Next]_vars
  PROVE  UNCHANGED Channel!cvars
<1>1. clear
  BY DEF Next, Producer, Consumer, vars, history, AcquireWriteLoad, AcquireWriteClaim,
     AcquireWriteStore, CommitSize, CommitStore, CancelSize, CancelStore, AcquireReadLoad,
     AcquireReadStore, ReleaseRead, ReleaseRefused, ReleaseSize, ReleaseStore
<1>2. ahead' = 0 /\ UNCHANGED <<reserved, received>>
  BY <1>1 DEF clear, ghosts
<1>3. onTheWay = << >>
  BY DEF onTheWay
<1>4. onTheWay' = << >>
  BY <1>2 DEF onTheWay
<1>5. QED BY <1>2, <1>3, <1>4 DEF Channel!cvars

(* The descriptor ring implements the abstract channel: from the start and *)
(* again after each clear(), until the producer cancels a reservation,     *)
(* buffers arrive in reservation order, exactly once, with the committed   *)
(* size, and at most N_BUFFERS are on their way.                           *)
THEOREM SpscImplementsChannel == Spec => ImplementsChannel
<1> DEFINE Ring == ~cancelled => RingInv
<1>1. Init => RingInv
  BY DEF Init, RingInv, At, AtFrom, Slots
<1>2. Init => Channel!CInit
  <2> SUFFICES ASSUME Init PROVE Channel!CInit
    OBVIOUS
  <2>1. onTheWay = << >>
    BY InitTypeOK, <1>1, OnTheWayIsSeq DEF Init
  <2>2. QED BY <2>1 DEF Init, Channel!CInit
<1>3. TypeOK /\ CallInv /\ Ring /\ [Next]_vars => Ring'
  BY NextRingInv
<1>4. TypeOK /\ TypeOK' /\ CallInv /\ Ring /\ Ring' /\ [Next]_vars
         => [cancelled' \/ Channel!CNext]_(Channel!cvars)
  BY StepRefines, ClearAfterCancel
<1>5. Init => Ring
  BY <1>1
<1> HIDE DEF Ring
<1>6. QED
  BY <1>2, <1>3, <1>4, <1>5, CallInvInvariant, PTL DEF Spec, ImplementsChannel

-----------------------------------------------------------------------------
(***************************************************************************)
(* SharedMutex: the reader/writer lock.                                    *)
(*                                                                         *)
(* Exclusion is not inductive: it rests on what the two words count.       *)
(* WordInv says that state_ is the writer bit exactly while a writer owns  *)
(* the lock and the number of readers otherwise, and that a reader about   *)
(* to swap carries a value below MaxReaders.  OvertakenAtMostOnce rests on *)
(* waiting_writers_ counting the announced writers, so that no thread gets *)
(* past its first look at it while one is announced.                       *)
(***************************************************************************)
WordInv ==
  /\ Owners # {} => state_ = WriterBit
  /\ Owners = {} => state_ = Cardinality(Readers)
  /\ \A t \in Threads : pc[t] = "rSwap" => seen[t] < MaxReaders

CountInv == waiting_writers_ = Cardinality(Announced)

\* A thread that overtook a waiting writer is not past the look at
\* waiting_writers_ again; what was recorded is forgotten with the announcement.
PassedInv ==
  /\ \A w \in Announced : \A r \in passed[w] : pc[r] \notin {"rState", "rSwap"}
  /\ \A w \in Threads \ Announced : passed[w] = {}

Inv == MutexTypeOK /\ Exclusion /\ WordInv /\ CountInv

USE SharedMutexAssumption

(* Subsets of Threads are finite, so their cardinalities are numbers.      *)
LEMMA ThreadSets ==
  ASSUME NEW S \in SUBSET Threads
  PROVE  IsFiniteSet(S) /\ Cardinality(S) \in Nat /\ (Cardinality(S) = 0 <=> S = {})
BY FS_Subset, FS_CardinalityType, FS_EmptySet

(* How one thread joining or leaving a set of threads changes its size.    *)
LEMMA JoinSet ==
  ASSUME NEW S \in SUBSET Threads, NEW t \in Threads \ S
  PROVE  Cardinality(S \cup {t}) = Cardinality(S) + 1
BY ThreadSets, FS_AddElement

LEMMA LeaveSet ==
  ASSUME NEW S \in SUBSET Threads, NEW t \in S
  PROVE  Cardinality(S \ {t}) = Cardinality(S) - 1 /\ Cardinality(S) > 0
BY ThreadSets, FS_RemoveElement

(* How a step of one thread changes the three sets: only that thread can   *)
(* enter or leave them.                                                    *)
LEMMA MovesOnlyItself ==
  ASSUME MutexTypeOK, NEW t \in Threads, NEW loc \in Locations, pc' = [pc EXCEPT ![t] = loc]
  PROVE  /\ Readers' = IF loc = "reading" THEN Readers \cup {t} ELSE Readers \ {t}
         /\ Owners' = IF loc \in {"wLeave", "writing"} THEN Owners \cup {t} ELSE Owners \ {t}
         /\ Announced' = IF loc \in {"wState", "wSwap", "tSwap", "tFail", "wLeave"}
                         THEN Announced \cup {t} ELSE Announced \ {t}
         /\ \A u \in Threads \ {t} : pc'[u] = pc[u]
         /\ pc'[t] = loc
         /\ pc' \in [Threads -> Locations]
<1>1. pc \in [Threads -> Locations]
  BY DEF MutexTypeOK
<1>2. /\ \A u \in Threads \ {t} : pc'[u] = pc[u]
      /\ pc'[t] = loc
      /\ pc' \in [Threads -> Locations]
  BY <1>1
<1>3. Readers' = IF loc = "reading" THEN Readers \cup {t} ELSE Readers \ {t}
  BY <1>2 DEF Readers
<1>4. Owners' = IF loc \in {"wLeave", "writing"} THEN Owners \cup {t} ELSE Owners \ {t}
  BY <1>2 DEF Owners
<1>5. Announced' = IF loc \in {"wState", "wSwap", "tSwap", "tFail", "wLeave"}
                   THEN Announced \cup {t} ELSE Announced \ {t}
  BY <1>2 DEF Announced
<1>6. QED BY <1>2, <1>3, <1>4, <1>5

(* A thread whose pc is known is or is not in the three sets.              *)
LEMMA WhereItWas ==
  ASSUME NEW t \in Threads
  PROVE  /\ t \in Readers <=> pc[t] = "reading"
         /\ t \in Owners <=> pc[t] \in {"wLeave", "writing"}
         /\ t \in Announced <=> pc[t] \in {"wState", "wSwap", "tSwap", "tFail", "wLeave"}
         /\ Readers \in SUBSET Threads /\ Owners \in SUBSET Threads
         /\ Announced \in SUBSET Threads
BY DEF Readers, Owners, Announced

(* What the word says about its holders: a value below the writer bit      *)
(* means no owner, and zero means nobody at all.                           *)
LEMMA ReadTheWord ==
  ASSUME Inv
  PROVE  /\ state_ < WriterBit => Owners = {} /\ state_ = Cardinality(Readers)
         /\ state_ = 0 => Owners = {} /\ Readers = {}
         /\ Owners # {} => Readers = {}
         /\ Cardinality(Readers) <= MaxReaders
         /\ \A w \in Owners : Owners = {w}
<1>1. /\ \A w \in Owners : Owners = {w} /\ Readers = {}
      /\ Cardinality(Readers) <= MaxReaders
      /\ Owners # {} => state_ = WriterBit
      /\ Owners = {} => state_ = Cardinality(Readers)
  BY DEF Inv, Exclusion, WordInv
<1>2. Readers \in SUBSET Threads
  BY DEF Readers
<1>3. Cardinality(Readers) \in Nat /\ (Cardinality(Readers) = 0 <=> Readers = {})
  BY <1>2, ThreadSets
<1>4. QED BY <1>1, <1>3

LEMMA InvInit == MutexInit => Inv
<1> SUFFICES ASSUME MutexInit PROVE Inv
  OBVIOUS
<1>1. Readers = {} /\ Owners = {} /\ Announced = {}
  BY DEF MutexInit, Readers, Owners, Announced
<1>2. Cardinality({}) = 0
  BY FS_EmptySet
<1>3. MutexTypeOK
  BY DEF MutexInit, MutexTypeOK, Locations
<1>4. QED BY <1>1, <1>2, <1>3 DEF Inv, MutexInit, Exclusion, WordInv, CountInv

(* Steps that move no thread into or out of a set and write neither word.  *)
LEMMA QuietStep ==
  ASSUME Inv, MutexTypeOK', UNCHANGED <<state_, waiting_writers_, Readers, Owners, Announced>>,
         \A u \in Threads : pc'[u] = "rSwap" => seen'[u] < MaxReaders
  PROVE  Inv'
BY DEF Inv, Exclusion, WordInv, CountInv

(* Every operation of the lock preserves the invariant.                    *)
LEMMA InvNext == Inv /\ [MutexNext]_mutexVars => Inv'
<1> SUFFICES ASSUME Inv, [MutexNext]_mutexVars PROVE Inv'
  OBVIOUS
<1>t. MutexTypeOK
  BY DEF Inv
<1>s. \A u \in Threads : pc[u] = "rSwap" => seen[u] < MaxReaders
  BY DEF Inv, WordInv
<1>1. CASE UNCHANGED mutexVars
  BY <1>1 DEF mutexVars, Inv, MutexTypeOK, Exclusion, WordInv, CountInv, Readers, Owners, Announced
<1>2. ASSUME NEW t \in Threads, NEW wait \in BOOLEAN, CallRead(t, wait)
      PROVE  Inv'
  <2>1. pc' = [pc EXCEPT ![t] = "rWaiting"] /\ "rWaiting" \in Locations
    BY <1>2 DEF CallRead, Goto, Locations
  <2>2. pc[t] = "idle"
    BY <1>2 DEF CallRead
  <2>3. UNCHANGED <<Readers, Owners, Announced>>
    BY <2>1, <2>2, <1>t, MovesOnlyItself, WhereItWas
  <2>4. MutexTypeOK'
    BY <1>2, <2>1, <1>t, MovesOnlyItself DEF CallRead, MutexTypeOK
  <2>5. \A u \in Threads : pc'[u] = "rSwap" => seen'[u] < MaxReaders
    BY <1>2, <2>1, <1>t, <1>s, MovesOnlyItself DEF CallRead
  <2>6. QED BY <1>2, <2>3, <2>4, <2>5, QuietStep DEF CallRead
<1>3. ASSUME NEW t \in Threads, ReadWaitingWriters(t)
      PROVE  Inv'
  <2>1. PICK loc \in {"rWaiting", "idle", "rState"} : pc' = [pc EXCEPT ![t] = loc]
    BY <1>3 DEF ReadWaitingWriters, GiveUpRead, Goto
  <2>2. pc[t] = "rWaiting" /\ loc \in Locations /\ UNCHANGED <<state_, waiting_writers_, blocking, seen, passed>>
    BY <1>3 DEF ReadWaitingWriters, GiveUpRead, Locations
  <2>3. UNCHANGED <<Readers, Owners, Announced>>
    BY <2>1, <2>2, <1>t, MovesOnlyItself, WhereItWas
  <2>4. MutexTypeOK'
    BY <2>1, <2>2, <1>t, MovesOnlyItself DEF MutexTypeOK
  <2>5. \A u \in Threads : pc'[u] = "rSwap" => seen'[u] < MaxReaders
    BY <2>1, <2>2, <1>t, <1>s, MovesOnlyItself
  <2>6. QED BY <2>2, <2>3, <2>4, <2>5, QuietStep
<1>4. ASSUME NEW t \in Threads, ReadState(t)
      PROVE  Inv'
  <2>1. PICK loc \in {"rWaiting", "idle", "rSwap"} : pc' = [pc EXCEPT ![t] = loc]
    BY <1>4 DEF ReadState, GiveUpRead, Goto
  <2>2. pc[t] = "rState" /\ loc \in Locations /\ UNCHANGED <<state_, waiting_writers_, blocking, passed>>
    BY <1>4 DEF ReadState, GiveUpRead, Locations
  <2>3. UNCHANGED <<Readers, Owners, Announced>>
    BY <2>1, <2>2, <1>t, MovesOnlyItself, WhereItWas
  <2>4. /\ seen' \in [Threads -> Nat]
        /\ \A u \in Threads \ {t} : seen'[u] = seen[u]
        /\ pc'[t] = "rSwap" => seen'[t] < MaxReaders
    BY <1>4, <1>t DEF ReadState, GiveUpRead, Goto, MutexTypeOK
  <2>5. MutexTypeOK'
    BY <2>1, <2>2, <2>4, <1>t, MovesOnlyItself DEF MutexTypeOK
  <2>6. \A u \in Threads : pc'[u] = "rSwap" => seen'[u] < MaxReaders
    BY <2>1, <2>2, <2>4, <1>t, <1>s, MovesOnlyItself
  <2>7. QED BY <2>2, <2>3, <2>5, <2>6, QuietStep
<1>5. ASSUME NEW t \in Threads, SwapReader(t), state_ # seen[t]
      PROVE  Inv'
  <2>1. PICK loc \in {"rWaiting", "idle"} : pc' = [pc EXCEPT ![t] = loc]
    BY <1>5 DEF SwapReader, GiveUpRead, Goto
  <2>2. pc[t] = "rSwap" /\ loc \in Locations /\ UNCHANGED <<state_, waiting_writers_, blocking, passed>>
    BY <1>5 DEF SwapReader, GiveUpRead, Locations
  <2>3. UNCHANGED <<Readers, Owners, Announced>>
    BY <2>1, <2>2, <1>t, MovesOnlyItself, WhereItWas
  <2>4. seen' \in [Threads -> Nat] /\ \A u \in Threads \ {t} : seen'[u] = seen[u]
    BY <1>5, <1>t DEF SwapReader, MutexTypeOK
  <2>5. MutexTypeOK'
    BY <2>1, <2>2, <2>4, <1>t, MovesOnlyItself DEF MutexTypeOK
  <2>6. \A u \in Threads : pc'[u] = "rSwap" => seen'[u] < MaxReaders
    BY <2>1, <2>2, <2>4, <1>t, <1>s, MovesOnlyItself
  <2>7. QED BY <2>2, <2>3, <2>5, <2>6, QuietStep
<1>6. ASSUME NEW t \in Threads, SwapReader(t), state_ = seen[t]
      PROVE  Inv'
  <2>1. pc[t] = "rSwap" /\ state_' = state_ + 1 /\ pc' = [pc EXCEPT ![t] = "reading"]
        /\ "reading" \in Locations /\ UNCHANGED <<waiting_writers_, blocking>>
    BY <1>6 DEF SwapReader, GiveUpRead, Goto, Locations
  <2>2. /\ seen' \in [Threads -> Nat] /\ \A u \in Threads \ {t} : seen'[u] = seen[u]
        /\ passed' \in [Threads -> SUBSET Threads]
    BY <1>6, <1>t DEF SwapReader, MutexTypeOK
  <2>3. state_ \in Nat /\ state_ < MaxReaders
    BY <2>1, <1>6, <1>s, <1>t DEF MutexTypeOK
  <2>4. Owners = {} /\ state_ = Cardinality(Readers)
    BY <2>3, ReadTheWord
  <2>5. Readers' = Readers \cup {t} /\ Owners' = {} /\ Announced' = Announced
    BY <2>1, <2>4, <1>t, MovesOnlyItself, WhereItWas
  <2>6. Cardinality(Readers') = state_'
    BY <2>1, <2>4, <2>5, JoinSet, WhereItWas
  <2>7. MutexTypeOK'
    BY <2>1, <2>2, <2>3, <1>t, MovesOnlyItself DEF MutexTypeOK
  <2>8. WordInv'
    BY <2>1, <2>2, <2>5, <2>6, <1>t, <1>s, MovesOnlyItself, ZenonT(60) DEF WordInv
  <2>9. Exclusion'
    BY <2>1, <2>3, <2>5, <2>6 DEF Exclusion
  <2>10. CountInv'
    BY <2>1, <2>5 DEF CountInv, Inv
  <2>11. QED BY <2>7, <2>8, <2>9, <2>10 DEF Inv
<1>7. ASSUME NEW t \in Threads, UnlockRead(t)
      PROVE  Inv'
  <2>1. pc[t] = "reading" /\ state_' = state_ - 1 /\ pc' = [pc EXCEPT ![t] = "idle"]
        /\ "idle" \in Locations /\ UNCHANGED <<waiting_writers_, blocking, seen, passed>>
    BY <1>7 DEF UnlockRead, Goto, Locations
  <2>2. t \in Readers /\ Owners = {}
    BY <2>1, WhereItWas, ReadTheWord
  <2>3. state_ = Cardinality(Readers) /\ Cardinality(Readers) <= MaxReaders
    BY <2>2 DEF Inv, WordInv, Exclusion
  <2>4. Readers' = Readers \ {t} /\ Owners' = {} /\ Announced' = Announced
    BY <2>1, <2>2, <1>t, MovesOnlyItself, WhereItWas
  <2>5. Cardinality(Readers') = Cardinality(Readers) - 1 /\ Cardinality(Readers) > 0
    BY <2>2, <2>4, LeaveSet, WhereItWas
  <2>6. state_ \in Nat
    BY <1>t DEF MutexTypeOK
  <2>7. MutexTypeOK'
    BY <2>1, <2>3, <2>5, <2>6, <1>t, MovesOnlyItself DEF MutexTypeOK
  <2>8. WordInv'
    BY <2>1, <2>3, <2>4, <2>5, <1>t, <1>s, MovesOnlyItself DEF WordInv
  <2>9. Exclusion'
    BY <2>3, <2>4, <2>5, <2>6 DEF Exclusion
  <2>10. CountInv'
    BY <2>1, <2>4 DEF CountInv, Inv
  <2>11. QED BY <2>7, <2>8, <2>9, <2>10 DEF Inv
<1>8. ASSUME NEW t \in Threads, NEW loc \in {"wState", "tSwap"}, Announce(t, loc)
      PROVE  Inv'
  <2>1. pc[t] = "idle" /\ waiting_writers_' = waiting_writers_ + 1 /\ pc' = [pc EXCEPT ![t] = loc]
        /\ loc \in Locations /\ UNCHANGED <<state_, blocking, seen, passed>>
    BY <1>8 DEF Announce, Goto, Locations
  <2>2. Readers' = Readers /\ Owners' = Owners /\ Announced' = Announced \cup {t}
    BY <2>1, <1>t, MovesOnlyItself, WhereItWas
  <2>3. Cardinality(Announced') = Cardinality(Announced) + 1
    BY <2>1, <2>2, JoinSet, WhereItWas
  <2>4. MutexTypeOK'
    BY <2>1, <1>t, MovesOnlyItself DEF MutexTypeOK
  <2>5. WordInv'
    BY <2>1, <2>2, <1>t, <1>s, MovesOnlyItself DEF WordInv, Inv
  <2>6. Exclusion' /\ CountInv'
    BY <2>1, <2>2, <2>3 DEF Exclusion, CountInv, Inv
  <2>7. QED BY <2>4, <2>5, <2>6 DEF Inv
<1>9. ASSUME NEW t \in Threads, LoadForWrite(t) \/ (SwapWriter(t) /\ state_ # 0)
      PROVE  Inv'
  <2>1. PICK loc \in {"wState", "wSwap", "tFail"} : pc' = [pc EXCEPT ![t] = loc]
    BY <1>9 DEF LoadForWrite, SwapWriter, Goto
  <2>2. pc[t] \in {"wState", "wSwap", "tSwap"} /\ loc \in Locations
        /\ UNCHANGED <<state_, waiting_writers_, blocking, seen, passed>>
    BY <1>9 DEF LoadForWrite, SwapWriter, Locations
  <2>3. UNCHANGED <<Readers, Owners, Announced>>
    <3>1. /\ Readers' = IF loc = "reading" THEN Readers \cup {t} ELSE Readers \ {t}
          /\ Owners' = IF loc \in {"wLeave", "writing"} THEN Owners \cup {t} ELSE Owners \ {t}
          /\ Announced' = IF loc \in {"wState", "wSwap", "tSwap", "tFail", "wLeave"}
                          THEN Announced \cup {t} ELSE Announced \ {t}
      BY <2>1, <2>2, <1>t, MovesOnlyItself
    <3>2. QED BY <3>1, <2>1, <2>2, WhereItWas
  <2>4. MutexTypeOK'
    BY <2>1, <2>2, <1>t, MovesOnlyItself DEF MutexTypeOK
  <2>5. \A u \in Threads : pc'[u] = "rSwap" => seen'[u] < MaxReaders
    BY <2>1, <2>2, <1>t, <1>s, MovesOnlyItself
  <2>6. QED BY <2>2, <2>3, <2>4, <2>5, QuietStep
<1>10. ASSUME NEW t \in Threads, SwapWriter(t), state_ = 0
       PROVE  Inv'
  <2>1. pc[t] \in {"wSwap", "tSwap"} /\ state_' = WriterBit /\ pc' = [pc EXCEPT ![t] = "wLeave"]
        /\ "wLeave" \in Locations /\ UNCHANGED <<waiting_writers_, blocking, seen, passed>>
    BY <1>10 DEF SwapWriter, Goto, Locations
  <2>2. Owners = {} /\ Readers = {}
    BY <1>10, ReadTheWord
  <2>3. Readers' = {} /\ Owners' = {t} /\ Announced' = Announced
    <3>1. Readers' = Readers \ {t} /\ Owners' = Owners \cup {t} /\ Announced' = Announced \cup {t}
      BY <2>1, <1>t, MovesOnlyItself
    <3>2. QED BY <3>1, <2>1, <2>2, WhereItWas
  <2>4. Cardinality({}) = 0
    BY FS_EmptySet
  <2>5. MutexTypeOK'
    BY <2>1, <1>t, MovesOnlyItself DEF MutexTypeOK
  <2>6. WordInv'
    BY <2>1, <2>3, <1>t, <1>s, MovesOnlyItself DEF WordInv
  <2>7. Exclusion'
    BY <2>3, <2>4 DEF Exclusion
  <2>8. CountInv'
    BY <2>1, <2>3 DEF CountInv, Inv
  <2>9. QED BY <2>5, <2>6, <2>7, <2>8 DEF Inv
<1>11. ASSUME NEW t \in Threads, Withdraw(t)
       PROVE  Inv'
  <2>1. PICK loc \in {"writing", "idle"} : /\ pc' = [pc EXCEPT ![t] = loc]
                                           /\ loc = "writing" <=> pc[t] = "wLeave"
    BY <1>11 DEF Withdraw, Goto
  <2>2. pc[t] \in {"wLeave", "tFail"} /\ loc \in Locations /\ waiting_writers_' = waiting_writers_ - 1
        /\ passed' = [passed EXCEPT ![t] = {}] /\ UNCHANGED <<state_, blocking, seen>>
    BY <1>11 DEF Withdraw, Locations
  <2>3. Readers' = Readers /\ Owners' = Owners /\ Announced' = Announced \ {t}
    <3>1. /\ Readers' = IF loc = "reading" THEN Readers \cup {t} ELSE Readers \ {t}
          /\ Owners' = IF loc \in {"wLeave", "writing"} THEN Owners \cup {t} ELSE Owners \ {t}
          /\ Announced' = IF loc \in {"wState", "wSwap", "tSwap", "tFail", "wLeave"}
                          THEN Announced \cup {t} ELSE Announced \ {t}
      BY <2>1, <2>2, <1>t, MovesOnlyItself
    <3>2. QED BY <3>1, <2>1, <2>2, WhereItWas
  <2>4. Cardinality(Announced') = Cardinality(Announced) - 1 /\ Cardinality(Announced) > 0
    BY <2>2, <2>3, LeaveSet, WhereItWas
  <2>5. waiting_writers_ = Cardinality(Announced) /\ waiting_writers_ \in Nat
    BY <1>t DEF Inv, CountInv, MutexTypeOK
  <2>6. MutexTypeOK'
    BY <2>1, <2>2, <2>4, <2>5, <1>t, MovesOnlyItself DEF MutexTypeOK
  <2>7. WordInv'
    BY <2>1, <2>2, <2>3, <1>t, <1>s, MovesOnlyItself DEF WordInv, Inv
  <2>8. Exclusion' /\ CountInv'
    BY <2>2, <2>3, <2>4, <2>5 DEF Exclusion, CountInv, Inv
  <2>9. QED BY <2>6, <2>7, <2>8 DEF Inv
<1>12. ASSUME NEW t \in Threads, UnlockWrite(t)
       PROVE  Inv'
  <2>1. pc[t] = "writing" /\ state_' = 0 /\ pc' = [pc EXCEPT ![t] = "idle"]
        /\ "idle" \in Locations /\ UNCHANGED <<waiting_writers_, blocking, seen, passed>>
    BY <1>12 DEF UnlockWrite, Goto, Locations
  <2>2. Owners = {t} /\ Readers = {}
    BY <2>1, WhereItWas, ReadTheWord
  <2>3. Readers' = {} /\ Owners' = {} /\ Announced' = Announced
    BY <2>1, <2>2, <1>t, MovesOnlyItself, WhereItWas
  <2>4. Cardinality({}) = 0
    BY FS_EmptySet
  <2>5. MutexTypeOK'
    BY <2>1, <1>t, MovesOnlyItself DEF MutexTypeOK
  <2>6. WordInv'
    BY <2>1, <2>3, <2>4, <1>t, <1>s, MovesOnlyItself DEF WordInv
  <2>7. Exclusion' /\ CountInv'
    BY <2>1, <2>3, <2>4 DEF Exclusion, CountInv, Inv
  <2>8. QED BY <2>5, <2>6, <2>7 DEF Inv
<1>13. QED
  BY <1>1, <1>2, <1>3, <1>4, <1>5, <1>6, <1>7, <1>8, <1>9, <1>10, <1>11, <1>12
     DEF MutexNext, Call, Proceed, CallLockWrite, CallTryLockWrite

(* Nobody who overtook a waiting writer gets past waiting_writers_ again   *)
(* before the writer is through.                                           *)
LEMMA PassedNext == Inv /\ PassedInv /\ [MutexNext]_mutexVars => PassedInv'
<1> SUFFICES ASSUME Inv, PassedInv, [MutexNext]_mutexVars PROVE PassedInv'
  OBVIOUS
<1>t. MutexTypeOK /\ pc \in [Threads -> Locations] /\ passed \in [Threads -> SUBSET Threads]
  BY DEF Inv, MutexTypeOK
<1>a. /\ \A w \in Announced : \A r \in passed[w] : pc[r] \notin {"rState", "rSwap"}
      /\ \A w \in Threads \ Announced : passed[w] = {}
  BY DEF PassedInv
<1>1. CASE UNCHANGED mutexVars
  BY <1>1 DEF mutexVars, PassedInv, Announced
<1>2. ASSUME NEW t \in Threads, NEW loc \in {"rWaiting", "idle", "rSwap"},
             pc[t] \in {"idle", "rWaiting", "rState", "rSwap", "reading", "writing"},
             loc = "rSwap" => pc[t] = "rState",
             pc' = [pc EXCEPT ![t] = loc], UNCHANGED passed
      PROVE  PassedInv'
  <2>1. Announced' = Announced
    BY <1>2, <1>t DEF Announced
  <2>2. \A r \in Threads : pc[r] \notin {"rState", "rSwap"} => pc'[r] \notin {"rState", "rSwap"}
    BY <1>2, <1>t
  <2>3. \A w \in Announced : passed[w] \subseteq Threads
    BY <1>t DEF Announced
  <2>4. QED BY <1>2, <1>a, <2>1, <2>2, <2>3 DEF PassedInv
<1>3. ASSUME NEW t \in Threads, ReadWaitingWriters(t), waiting_writers_ = 0
      PROVE  PassedInv'
  <2>1. Announced = {}
    BY <1>3, ThreadSets, WhereItWas DEF Inv, CountInv
  <2>2. pc' = [pc EXCEPT ![t] = "rState"] /\ passed' = passed
    BY <1>3 DEF ReadWaitingWriters, Goto
  <2>3. Announced' = {}
    BY <2>1, <2>2, <1>t DEF Announced
  <2>4. QED BY <2>1, <2>2, <2>3, <1>a DEF PassedInv
<1>4. ASSUME NEW t \in Threads, SwapReader(t), state_ = seen[t]
      PROVE  PassedInv'
  <2>1. /\ pc[t] = "rSwap"
        /\ pc' = [pc EXCEPT ![t] = "reading"]
        /\ passed' = [w \in Threads |-> IF w \in Announced THEN passed[w] \cup {t} ELSE passed[w]]
    BY <1>4 DEF SwapReader, Goto
  <2>2. Announced' = Announced /\ Announced \subseteq Threads
    BY <2>1, <1>t DEF Announced
  <2>3. \A w \in Announced : passed'[w] = passed[w] \cup {t} /\ passed[w] \subseteq Threads
    BY <2>1, <2>2, <1>t
  <2>4. \A w \in Threads \ Announced : passed'[w] = {}
    BY <2>1, <1>a
  <2>5. \A r \in Threads : r = t \/ pc[r] \notin {"rState", "rSwap"} => pc'[r] \notin {"rState", "rSwap"}
    BY <2>1, <1>t
  <2>6. QED BY <2>2, <2>3, <2>4, <2>5, <1>a DEF PassedInv
<1>5. ASSUME NEW t \in Threads, NEW loc \in {"wState", "tSwap"}, Announce(t, loc)
      PROVE  PassedInv'
  <2>1. pc[t] = "idle" /\ pc' = [pc EXCEPT ![t] = loc] /\ passed' = passed
    BY <1>5 DEF Announce, Goto
  <2>2. Announced' = Announced \cup {t} /\ t \notin Announced /\ Announced \subseteq Threads
    BY <2>1, <1>t DEF Announced
  <2>3. passed[t] = {}
    BY <2>2, <1>a
  <2>4. \A r \in Threads : pc[r] \notin {"rState", "rSwap"} => pc'[r] \notin {"rState", "rSwap"}
    BY <2>1, <1>t
  <2>5. \A w \in Threads : passed[w] \subseteq Threads
    BY <1>t
  <2>6. QED BY <2>1, <2>2, <2>3, <2>4, <2>5, <1>a DEF PassedInv
<1>6. ASSUME NEW t \in Threads, LoadForWrite(t) \/ SwapWriter(t)
      PROVE  PassedInv'
  <2>1. PICK loc \in {"wState", "wSwap", "tFail", "wLeave"} : pc' = [pc EXCEPT ![t] = loc]
    BY <1>6 DEF LoadForWrite, SwapWriter, Goto
  <2>2. pc[t] \in {"wState", "wSwap", "tSwap"} /\ passed' = passed
    BY <1>6 DEF LoadForWrite, SwapWriter
  <2>3. Announced' = Announced
    BY <2>1, <2>2, <1>t DEF Announced
  <2>4. \A r \in Threads : pc[r] \notin {"rState", "rSwap"} => pc'[r] \notin {"rState", "rSwap"}
    BY <2>1, <1>t
  <2>5. \A w \in Announced : passed[w] \subseteq Threads
    BY <1>t DEF Announced
  <2>6. QED BY <2>2, <2>3, <2>4, <2>5, <1>a DEF PassedInv
<1>7. ASSUME NEW t \in Threads, Withdraw(t)
      PROVE  PassedInv'
  <2>1. PICK loc \in {"writing", "idle"} : pc' = [pc EXCEPT ![t] = loc]
    BY <1>7 DEF Withdraw, Goto
  <2>2. passed' = [passed EXCEPT ![t] = {}]
    BY <1>7 DEF Withdraw
  <2>3. Announced' = Announced \ {t} /\ Announced \subseteq Threads
    BY <2>1, <1>t DEF Announced
  <2>4. \A r \in Threads : pc[r] \notin {"rState", "rSwap"} => pc'[r] \notin {"rState", "rSwap"}
    BY <2>1, <1>t
  <2>5. passed'[t] = {} /\ \A w \in Threads \ {t} : passed'[w] = passed[w] /\ passed[w] \subseteq Threads
    BY <2>2, <1>t
  <2>6. QED BY <2>3, <2>4, <2>5, <1>a DEF PassedInv
<1>8. ASSUME NEW t \in Threads,
             \/ \E wait \in BOOLEAN : CallRead(t, wait)
             \/ ReadWaitingWriters(t) /\ waiting_writers_ # 0
             \/ ReadState(t)
             \/ SwapReader(t) /\ state_ # seen[t]
             \/ UnlockRead(t)
             \/ UnlockWrite(t)
      PROVE  PassedInv'
  <2>1. \E loc \in {"rWaiting", "idle", "rSwap"} :
          /\ pc' = [pc EXCEPT ![t] = loc]
          /\ loc = "rSwap" => pc[t] = "rState"
    BY <1>8 DEF CallRead, ReadWaitingWriters, ReadState, SwapReader, UnlockRead, UnlockWrite,
       GiveUpRead, Goto
  <2>2. /\ pc[t] \in {"idle", "rWaiting", "rState", "rSwap", "reading", "writing"}
        /\ UNCHANGED passed
    BY <1>8 DEF CallRead, ReadWaitingWriters, ReadState, SwapReader, UnlockRead, UnlockWrite,
       GiveUpRead
  <2>3. QED BY <2>1, <2>2, <1>2
<1>9. QED
  BY <1>1, <1>3, <1>4, <1>5, <1>6, <1>7, <1>8
     DEF MutexNext, Call, Proceed, CallLockWrite, CallTryLockWrite

(* The invariant, with the history of overtaking, holds of the lock.       *)
LEMMA SharedMutexInvariant == MutexSpec => [](Inv /\ PassedInv)
<1>1. MutexInit => PassedInv
  BY DEF MutexInit, PassedInv, Announced
<1>2. QED BY <1>1, InvInit, InvNext, PassedNext, PTL DEF MutexSpec

(* Every variable keeps its type; in particular no unlock wraps state_ or  *)
(* waiting_writers_ below zero.                                            *)
THEOREM SharedMutexTypeCorrect == MutexSpec => []MutexTypeOK
<1>1. Inv => MutexTypeOK
  BY DEF Inv
<1>2. QED BY <1>1, SharedMutexInvariant, PTL

(* For any number of threads, a writer is alone and at most MaxReaders     *)
(* threads read, although both lock operations decide on a stale state_.   *)
THEOREM SharedMutexExclusion == MutexSpec => []Exclusion
<1>1. Inv => Exclusion
  BY DEF Inv
<1>2. QED BY <1>1, SharedMutexInvariant, PTL

(* While one writer waits, every thread is admitted as a reader at most    *)
(* once, for any number of readers and writers.                            *)
THEOREM SharedMutexOvertakenAtMostOnce == MutexSpec => OvertakenAtMostOnce
<1>1. Inv /\ PassedInv /\ [MutexNext]_mutexVars =>
        [\A r, w \in Threads :
            (pc[r] # "reading" /\ pc'[r] = "reading" /\ w \in Announced) => r \notin passed[w]]_mutexVars
  <2> SUFFICES ASSUME Inv, PassedInv, MutexNext, NEW r \in Threads, NEW w \in Announced,
                      pc[r] # "reading", pc'[r] = "reading"
               PROVE  r \notin passed[w]
    OBVIOUS
  <2>1. PICK t \in Threads : Call(t) \/ Proceed(t)
    BY DEF MutexNext
  <2>2. pc \in [Threads -> Locations]
    BY DEF Inv, MutexTypeOK
  <2>3. t = r /\ pc[t] = "rSwap"
    BY <2>1, <2>2 DEF Call, Proceed, CallRead, CallLockWrite, CallTryLockWrite, Announce,
       ReadWaitingWriters, ReadState, SwapReader, UnlockRead, LoadForWrite, SwapWriter, Withdraw,
       UnlockWrite, GiveUpRead, Goto
  <2>4. QED BY <2>3 DEF PassedInv
<1>2. QED BY <1>1, SharedMutexInvariant, PTL DEF MutexSpec, OvertakenAtMostOnce
=============================================================================
