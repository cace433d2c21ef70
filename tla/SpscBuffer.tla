----------------------------- MODULE SpscBuffer -----------------------------
(***************************************************************************)
(* castle::container::spsc_buffer_desc (container/spsc_buffer_desc.hpp): a *)
(* ring of buffer descriptors handed from one producer to one consumer.    *)
(* The per-slot state is atomic; size, generation and payload are plain    *)
(* memory, protected only by the state protocol.  Every atomic load or     *)
(* store is therefore a step of its own, and so is the plain write that    *)
(* precedes a store.                                                       *)
(*                                                                         *)
(* is_valid() of a handle reads the plain generation and then loads the    *)
(* state.  The producer is the only one to write the generation and to     *)
(* move a slot into and out of writing, so its call sees both as they are  *)
(* at one moment, and is one step.  The consumer's call is two steps: the  *)
(* generation of a slot that it is not reading may be under the producer's *)
(* hands, and what its plain read of it then yields is undefined (Matches).*)
(*                                                                         *)
(* Both sides may keep copies of every handle they were ever given and use *)
(* them again: handles are never forgotten here.  A buffer is identified   *)
(* by the order of its acquisition.  buffers_ is not null.                 *)
(***************************************************************************)
EXTENDS Integers, Sequences, FiniteSets

CONSTANTS N_BUFFERS,     \* template parameter: descriptors in the ring
          GenMax,        \* largest generation: 2^32 - 1 in the code
          Sizes,         \* element counts commit() is called with, within BUFFER_SIZE
          MaxUses,       \* bound: how often the generation of a slot advances
          AllowCancel,   \* whether the producer ever calls cancel()
          AllowClear     \* whether clear() is ever called

ASSUME SpscAssumption ==
    /\ N_BUFFERS \in Nat \ {0}
    /\ GenMax \in Nat \ {0}
    /\ Sizes \subseteq Nat
    /\ MaxUses \in Nat
    /\ AllowCancel \in BOOLEAN /\ AllowClear \in BOOLEAN

Slots == 0 .. N_BUFFERS - 1

VARIABLES state, size, generation,      \* descriptor_items_
          write_index_, read_index_,
          wpc, wslot,                   \* the producer's call and its slot
          rpc, rslot,                   \* the consumer's call and its slot
          handles,                      \* every handle ever returned
          buffer,                       \* slot -> id of the buffer it carries
          uses,                         \* slot -> how often its generation advanced
          reserved,                     \* number of buffers acquired so far
          ahead,                        \* turns the write cursor is ahead of the read cursor
          committed,                    \* id -> size it was committed with
          received,                     \* the buffer acquired last by the consumer
          cancelled,                    \* whether a reservation was cancelled since clear()
          cleared                       \* number of buffers acquired before clear()

slots    == <<state, size, generation>>
producer == <<wpc, wslot>>
consumer == <<rpc, rslot>>
ghosts   == <<buffer, reserved, committed>>
history  == <<cancelled, cleared>>
vars == <<slots, write_index_, read_index_, producer, consumer,
          handles, ghosts, uses, ahead, received, history>>

Open == -1

Handle == [slot : Slots, generation : 0 .. GenMax, mode : {"write", "read"}, use : Nat]

TypeOK ==
    /\ state \in [Slots -> {"free", "writing", "ready", "reading"}]
    /\ size \in [Slots -> Nat]
    /\ generation \in [Slots -> 0 .. GenMax]
    /\ write_index_ \in Slots /\ read_index_ \in Slots
    /\ wpc \in {"idle", "claim", "acquired", "commit", "cancel"} /\ wslot \in Slots
    /\ rpc \in {"idle", "take", "check", "release"} /\ rslot \in Slots
    /\ handles \subseteq Handle
    /\ buffer \in [Slots -> Nat]
    /\ uses \in [Slots -> Nat]
    /\ reserved \in Nat /\ ahead \in Int
    /\ committed \in [1 .. reserved -> Nat \cup {Open}]
    /\ received \in [id : Nat, size : Nat]
    /\ cancelled \in BOOLEAN /\ cleared \in Nat

Init ==
    /\ state = [s \in Slots |-> "free"]
    /\ size = [s \in Slots |-> 0]
    /\ generation = [s \in Slots |-> 0]
    /\ write_index_ = 0 /\ read_index_ = 0
    /\ wpc = "idle" /\ wslot = 0 /\ rpc = "idle" /\ rslot = 0
    /\ handles = {}
    /\ buffer = [s \in Slots |-> 0]
    /\ uses = [s \in Slots |-> 0]
    /\ reserved = 0 /\ ahead = 0
    /\ committed = <<>>
    /\ received = [id |-> 0, size |-> 0]
    /\ cancelled = FALSE /\ cleared = 0

next_index(i) == IF i + 1 = N_BUFFERS THEN 0 ELSE i + 1

(* ++generation, skipping 0 when the counter wraps. *)
next_generation(g) == IF g = GenMax THEN 1 ELSE g + 1

is_valid_NoGeneration(h) ==
    \/ h.mode = "write" /\ state[h.slot] = "writing"
    \/ h.mode = "read"  /\ state[h.slot] = "reading"
(* buffer_handle::is_valid() *)
is_valid(h) ==
    /\ h.generation = generation[h.slot]
    /\ \/ h.mode = "write" /\ state[h.slot] = "writing"
       \/ h.mode = "read"  /\ state[h.slot] = "reading"

-----------------------------------------------------------------------------
(* The producer *)

next_write_slot_AnyFree ==
    IF \E s \in Slots : state[s] = "free" THEN CHOOSE s \in Slots : state[s] = "free"
                                          ELSE write_index_
(* descriptor_items_[write_index_]: the next slot in ring order. *)
next_write_slot == write_index_

writable_Ready == state[next_write_slot] \in {"free", "ready"}
writable == state[next_write_slot] = "free"

(* acquire_write(): load the state of the next slot; full otherwise.       *)
AcquireWriteLoad ==
    /\ wpc = "idle" /\ uses[next_write_slot] < MaxUses
    /\ writable
    /\ wpc' = "claim" /\ wslot' = next_write_slot
    /\ UNCHANGED <<slots, write_index_, read_index_, consumer, handles, ghosts,
                   uses, ahead, received, history>>

(* ... the plain writes of generation and size ...                         *)
AcquireWriteClaim ==
    /\ wpc = "claim"
    /\ generation' = [generation EXCEPT ![wslot] = next_generation(@)]
    /\ size' = [size EXCEPT ![wslot] = 0]
    /\ uses' = [uses EXCEPT ![wslot] = @ + 1]
    /\ wpc' = "acquired"
    /\ UNCHANGED <<state, write_index_, read_index_, wslot, consumer, handles, ghosts,
                   ahead, received, history>>

(* ... store writing, build the handle and advance the write cursor.       *)
AcquireWriteStore ==
    /\ wpc = "acquired"
    /\ state' = [state EXCEPT ![wslot] = "writing"]
    /\ handles' = handles \cup {[slot |-> wslot, generation |-> generation[wslot],
                                 mode |-> "write", use |-> uses[wslot]]}
    /\ buffer' = [buffer EXCEPT ![wslot] = reserved + 1]
    /\ reserved' = reserved + 1
    /\ committed' = Append(committed, Open)
    /\ write_index_' = next_index(write_index_)
    /\ ahead' = ahead + 1
    /\ wpc' = "idle"
    /\ UNCHANGED <<size, generation, read_index_, wslot, consumer, uses, received,
                   history>>

is_write(h) == is_valid(h) /\ h.mode = "write"

CommitCheck_Any(h) == h.mode = "write"
CommitCheck(h) == is_write(h)

(* commit(n) through any copy of a handle: the plain write of size ...     *)
CommitSize(h, n) ==
    /\ wpc = "idle"
    /\ CommitCheck(h)
    /\ size' = [size EXCEPT ![h.slot] = n]
    /\ wpc' = "commit" /\ wslot' = h.slot
    /\ UNCHANGED <<state, generation, write_index_, read_index_, consumer, handles,
                   ghosts, uses, ahead, received, history>>

(* ... and the store that publishes the buffer.                            *)
CommitStore ==
    /\ wpc = "commit"
    /\ state' = [state EXCEPT ![wslot] = "ready"]
    /\ committed' = [committed EXCEPT ![buffer[wslot]] = size[wslot]]
    /\ wpc' = "idle"
    /\ UNCHANGED <<size, generation, write_index_, read_index_, wslot, consumer,
                   handles, buffer, reserved, uses, ahead, received, history>>

(* cancel(): the slot becomes free, the write cursor stays where it is.    *)
CancelSize(h) ==
    /\ AllowCancel
    /\ wpc = "idle"
    /\ is_write(h)
    /\ size' = [size EXCEPT ![h.slot] = 0]
    /\ wpc' = "cancel" /\ wslot' = h.slot
    /\ UNCHANGED <<state, generation, write_index_, read_index_, consumer, handles,
                   ghosts, uses, ahead, received, history>>

CancelStore ==
    /\ wpc = "cancel"
    /\ state' = [state EXCEPT ![wslot] = "free"]
    /\ cancelled' = TRUE
    /\ wpc' = "idle"
    /\ UNCHANGED <<size, generation, write_index_, read_index_, wslot, consumer,
                   handles, ghosts, uses, ahead, received, cleared>>

-----------------------------------------------------------------------------
(* The consumer *)

readable == state[read_index_] = "ready"

(* acquire_read(): load the state of the next slot; empty otherwise ...    *)
AcquireReadLoad ==
    /\ rpc = "idle"
    /\ readable
    /\ rpc' = "take" /\ rslot' = read_index_
    /\ UNCHANGED <<slots, write_index_, read_index_, producer, handles, ghosts,
                   uses, ahead, received, history>>

(* ... store reading, build the handle and advance the read cursor.        *)
AcquireReadStore ==
    /\ rpc = "take"
    /\ state' = [state EXCEPT ![rslot] = "reading"]
    /\ handles' = handles \cup {[slot |-> rslot, generation |-> generation[rslot],
                                 mode |-> "read", use |-> uses[rslot]]}
    /\ received' = [id |-> buffer[rslot], size |-> size[rslot]]
    /\ read_index_' = next_index(read_index_)
    /\ ahead' = ahead - 1
    /\ rpc' = "idle"
    /\ UNCHANGED <<size, generation, write_index_, producer, rslot, ghosts, uses, history>>

is_read(h) == is_valid(h) /\ h.mode = "read"

(* What the comparison of the generations can yield for the consumer: its  *)
(* plain read is ordered after the producer's write of it only in a slot   *)
(* that the consumer is reading.                                           *)
Matches(h) == IF state[h.slot] = "reading" THEN {h.generation = generation[h.slot]}
                                           ELSE BOOLEAN

(* release() through any copy of a handle: the generation is read, and the *)
(* call returns when it differs ...                                        *)
ReleaseRead(h) ==
    /\ rpc = "idle"
    /\ h.mode = "read" /\ TRUE \in Matches(h)
    /\ rpc' = "check" /\ rslot' = h.slot
    /\ UNCHANGED <<slots, write_index_, read_index_, producer, handles, ghosts,
                   uses, ahead, received, history>>

(* ... the state is loaded: the handle is invalid ...                      *)
ReleaseRefused ==
    /\ rpc = "check" /\ state[rslot] # "reading"
    /\ rpc' = "idle"
    /\ UNCHANGED <<slots, write_index_, read_index_, producer, rslot, handles, ghosts,
                   uses, ahead, received, history>>

(* ... or valid: the plain write of size, and the store.                   *)
ReleaseSize ==
    /\ rpc = "check" /\ state[rslot] = "reading"
    /\ size' = [size EXCEPT ![rslot] = 0]
    /\ rpc' = "release"
    /\ UNCHANGED <<state, generation, write_index_, read_index_, producer, rslot,
                   handles, ghosts, uses, ahead, received, history>>

ReleaseStore ==
    /\ rpc = "release"
    /\ state' = [state EXCEPT ![rslot] = "free"]
    /\ rpc' = "idle"
    /\ UNCHANGED <<size, generation, write_index_, read_index_, producer, rslot,
                   handles, ghosts, uses, ahead, received, history>>

-----------------------------------------------------------------------------
(* clear(), while neither side is inside a call. *)
clear ==
    /\ AllowClear /\ \A s \in Slots : uses[s] < MaxUses
    /\ wpc = "idle" /\ rpc = "idle"
    /\ state' = [s \in Slots |-> "free"]
    /\ size' = [s \in Slots |-> 0]
    /\ generation' = [s \in Slots |-> next_generation(generation[s])]
    /\ uses' = [s \in Slots |-> uses[s] + 1]
    /\ write_index_' = 0 /\ read_index_' = 0 /\ ahead' = 0
    /\ cancelled' = FALSE /\ cleared' = reserved
    /\ UNCHANGED <<producer, consumer, handles, ghosts, received>>

Producer ==
    \/ AcquireWriteLoad \/ AcquireWriteClaim \/ AcquireWriteStore
    \/ \E h \in handles : CancelSize(h) \/ \E n \in Sizes : CommitSize(h, n)
    \/ CommitStore \/ CancelStore

Consumer ==
    \/ AcquireReadLoad \/ AcquireReadStore
    \/ \E h \in handles : ReleaseRead(h)
    \/ ReleaseRefused \/ ReleaseSize \/ ReleaseStore

Next == Producer \/ Consumer \/ clear

Spec == Init /\ [][Next]_vars

(* The consumer keeps polling between its calls of release(), and a call   *)
(* that either side has begun is completed.                                *)
Fairness ==
    /\ SF_vars(AcquireReadLoad)
    /\ WF_vars(AcquireReadStore \/ ReleaseRefused \/ ReleaseSize \/ ReleaseStore)
    /\ WF_vars(AcquireWriteClaim \/ AcquireWriteStore \/ CommitStore \/ CancelStore)

FairSpec == Spec /\ Fairness

-----------------------------------------------------------------------------
(* Properties *)

(* The slots whose plain memory (size, generation, payload) a side may be  *)
(* accessing: the one of the call it is in, and those of its valid handles.*)
(* A call of release() accesses it once it has found the handle valid.     *)
ProducerOwns == {s \in Slots : \/ wpc # "idle" /\ s = wslot
                               \/ \E h \in handles : is_write(h) /\ h.slot = s}
ConsumerOwns == {s \in Slots : \/ rpc \in {"take", "release"} /\ s = rslot
                               \/ \E h \in handles : is_read(h) /\ h.slot = s}

(* "ownership of those buffers must pass deterministically between one     *)
(* producer and one consumer": no slot is ever owned by both sides, so the *)
(* accesses through valid handles and inside accepted calls never race.    *)
(* The one plain access this leaves out is the read of the generation by   *)
(* which is_valid() refuses a stale read handle: it does race with the     *)
(* producer's next use of the slot, and whatever it yields (Matches) does  *)
(* not let a stale handle release, or own, a slot of the producer.         *)
ExclusiveOwnership == ProducerOwns \cap ConsumerOwns = {}

(* "stale copies stop being valid once the slot is reused": a handle is    *)
(* valid only for the use of the slot it was made for; an older copy       *)
(* revives only after the generation went through all its GenMax values.   *)
StaleHandlesInvalid ==
    \A h \in handles : is_valid(h) => (uses[h.slot] - h.use) % GenMax = 0

(* A buffer the consumer holds, and has not begun to release, is the one   *)
(* the producer committed, with the committed size.                        *)
DeliveredIntact ==
    \A s \in Slots :
        state[s] \in {"ready", "reading"} /\ ~(rpc = "release" /\ rslot = s) =>
            committed[buffer[s]] = size[s]

(* The ring implements the channel: what is on its way are the slots from  *)
(* the read cursor on, until a cancelled reservation leaves a hole there.  *)
AtFrom(r, i) == IF r + i < N_BUFFERS THEN r + i ELSE r + i - N_BUFFERS
At(i) == AtFrom(read_index_, i)

onTheWay ==
    IF cancelled THEN << >>
    ELSE [i \in 1 .. ahead |->
             [id |-> buffer[At(i - 1)],
              size |-> IF state[At(i - 1)] = "ready" THEN size[At(i - 1)] ELSE Open]]

Channel == INSTANCE SpscChannel WITH Capacity <- N_BUFFERS, chan <- onTheWay

(* From the start, and again from each clear(), until a reservation is     *)
(* cancelled, every step of producer and consumer is a step of the         *)
(* abstract channel: reservation order, each buffer once, committed sizes, *)
(* at most N_BUFFERS on their way.                                         *)
ImplementsChannel == Channel!CInit /\ [][cancelled' \/ Channel!CNext]_(Channel!cvars)

(* "Acquires the next ready slot for reading": when the producer has no    *)
(* reservation open, a ready slot is never out of the consumer's reach.    *)
ReadySlotIsReadable ==
    wpc = "idle" /\ rpc = "idle"
        /\ (\E s \in Slots : state[s] = "ready") /\ (\A s \in Slots : state[s] # "writing")
    => readable

(* The consumer, which keeps polling, receives every buffer once it and    *)
(* all buffers reserved before it, since the last clear(), are committed,  *)
(* unless clear() drops it.                                                *)
CommittedIsReceived ==
    \A k \in 1 .. N_BUFFERS * MaxUses :
        (reserved >= k /\ \A i \in cleared + 1 .. k : committed[i] # Open)
            ~> (received.id >= k \/ cleared >= k)
=============================================================================
