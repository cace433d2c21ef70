----------------------------- MODULE SharedMutex -----------------------------
(***************************************************************************)
(* The reader/writer lock of castle/sync/shared_mutex.hpp: one word state_ *)
(* (the writer bit, or a count of readers), one word waiting_writers_ that *)
(* new readers look at first, and compare-and-swap.  Every __sync builtin  *)
(* is one step, and any other thread may run between two of them.          *)
(*                                                                         *)
(* A thread calls any of the four lock operations when it holds nothing,   *)
(* and unlocks exactly what it locked: what the class demands of callers.  *)
(***************************************************************************)
EXTENDS Naturals, FiniteSets

CONSTANTS Threads,     \* the threads that share the lock
          MaxReaders,  \* the template parameter
          WriterBit    \* writer_bit_, above every reader count

ASSUME SharedMutexAssumption ==
  /\ IsFiniteSet(Threads)
  /\ MaxReaders \in Nat
  /\ WriterBit \in Nat
  /\ MaxReaders < WriterBit

VARIABLES state_,            \* WriterBit, or the number of read locks
          waiting_writers_,  \* calls of (try_)lock_write not yet decided
          pc,                \* where each thread is, see Locations
          blocking,          \* is the read attempt lock_read (or try_lock_read)
          seen,              \* the local variable state of the read attempt
          passed             \* history: readers admitted since w announced itself

mutexVars == <<state_, waiting_writers_, pc, blocking, seen, passed>>

\* "r...": inside lock_read or try_lock_read; "w...": inside lock_write;
\* "t...": inside try_lock_write; "wLeave": the swap succeeded and the
\* announcement is still to be withdrawn.
Locations == {"idle", "rWaiting", "rState", "rSwap", "reading",
              "wState", "wSwap", "tSwap", "tFail", "wLeave", "writing"}

Readers   == {t \in Threads : pc[t] = "reading"}
Owners    == {t \in Threads : pc[t] \in {"wLeave", "writing"}}
Announced == {t \in Threads : pc[t] \in {"wState", "wSwap", "tSwap", "tFail", "wLeave"}}

MutexInit ==
  /\ state_ = 0
  /\ waiting_writers_ = 0
  /\ pc = [t \in Threads |-> "idle"]
  /\ blocking = [t \in Threads |-> TRUE]
  /\ seen = [t \in Threads |-> 0]
  /\ passed = [t \in Threads |-> {}]

Goto(t, loc) == pc' = [pc EXCEPT ![t] = loc]

-----------------------------------------------------------------------------
(* lock_read and try_lock_read *)

CallRead(t, wait) ==
  /\ pc[t] = "idle"
  /\ blocking' = [blocking EXCEPT ![t] = wait]
  /\ Goto(t, "rWaiting")
  /\ UNCHANGED <<state_, waiting_writers_, seen, passed>>

\* A failed attempt: lock_read waits and starts over, try_lock_read returns false.
GiveUpRead(t) ==
  /\ Goto(t, IF blocking[t] THEN "rWaiting" ELSE "idle")
  /\ UNCHANGED <<state_, waiting_writers_, blocking, passed>>

ReadWaitingWriters_Ignored(t) ==
  /\ pc[t] = "rWaiting"
  /\ Goto(t, "rState")
  /\ UNCHANGED <<state_, waiting_writers_, blocking, seen, passed>>
ReadWaitingWriters(t) ==
  /\ pc[t] = "rWaiting"
  /\ \/ /\ waiting_writers_ # 0
        /\ GiveUpRead(t)
     \/ /\ waiting_writers_ = 0
        /\ Goto(t, "rState")
        /\ UNCHANGED <<state_, waiting_writers_, blocking, passed>>
  /\ UNCHANGED seen

ReadState(t) ==
  /\ pc[t] = "rState"
  /\ \/ /\ state_ >= WriterBit \/ state_ >= MaxReaders
        /\ GiveUpRead(t)
        /\ UNCHANGED seen
     \/ /\ state_ < WriterBit /\ state_ < MaxReaders
        /\ seen' = [seen EXCEPT ![t] = state_]
        /\ Goto(t, "rSwap")
        /\ UNCHANGED <<state_, waiting_writers_, blocking, passed>>

SwapReader_NoCompare(t) ==
  /\ pc[t] = "rSwap"
  /\ state_' = state_ + 1
  /\ Goto(t, "reading")
  /\ seen' = [seen EXCEPT ![t] = 0]
  /\ UNCHANGED <<waiting_writers_, blocking, passed>>
\* The swap compares with the value read before: another reader or a writer
\* may have changed it.  A reader that enters is recorded for every writer
\* that is announced and has not got the lock.
SwapReader(t) ==
  /\ pc[t] = "rSwap"
  /\ \/ /\ state_ = seen[t]
        /\ state_' = state_ + 1
        /\ Goto(t, "reading")
        /\ passed' = [w \in Threads |->
                        IF w \in Announced THEN passed[w] \cup {t} ELSE passed[w]]
        /\ UNCHANGED <<waiting_writers_, blocking>>
     \/ /\ state_ # seen[t]
        /\ GiveUpRead(t)
  /\ seen' = [seen EXCEPT ![t] = 0]

UnlockRead(t) ==
  /\ pc[t] = "reading"
  /\ state_' = state_ - 1
  /\ Goto(t, "idle")
  /\ UNCHANGED <<waiting_writers_, blocking, seen, passed>>

-----------------------------------------------------------------------------
(* lock_write and try_lock_write *)

Announce_Forgotten(t, loc) ==
  /\ pc[t] = "idle"
  /\ Goto(t, loc)
  /\ UNCHANGED <<state_, waiting_writers_, blocking, seen, passed>>
Announce(t, loc) ==
  /\ pc[t] = "idle"
  /\ waiting_writers_' = waiting_writers_ + 1
  /\ Goto(t, loc)
  /\ UNCHANGED <<state_, blocking, seen, passed>>

CallLockWrite(t)    == Announce(t, "wState")
CallTryLockWrite(t) == Announce(t, "tSwap")

\* lock_write looks before it swaps; a state other than zero makes it wait.
LoadForWrite(t) ==
  /\ pc[t] = "wState"
  /\ Goto(t, IF state_ = 0 THEN "wSwap" ELSE "wState")
  /\ UNCHANGED <<state_, waiting_writers_, blocking, seen, passed>>

SwapWriter(t) ==
  /\ pc[t] \in {"wSwap", "tSwap"}
  /\ \/ /\ state_ = 0
        /\ state_' = WriterBit
        /\ Goto(t, "wLeave")
     \/ /\ state_ # 0
        /\ Goto(t, IF pc[t] = "wSwap" THEN "wState" ELSE "tFail")
        /\ UNCHANGED state_
  /\ UNCHANGED <<waiting_writers_, blocking, seen, passed>>

\* The announcement is withdrawn whether the lock was acquired or not.
Withdraw(t) ==
  /\ pc[t] \in {"wLeave", "tFail"}
  /\ waiting_writers_' = waiting_writers_ - 1
  /\ Goto(t, IF pc[t] = "wLeave" THEN "writing" ELSE "idle")
  /\ passed' = [passed EXCEPT ![t] = {}]
  /\ UNCHANGED <<state_, blocking, seen>>

\* __sync_lock_release stores zero: the whole word, not only the writer bit.
UnlockWrite(t) ==
  /\ pc[t] = "writing"
  /\ state_' = 0
  /\ Goto(t, "idle")
  /\ UNCHANGED <<waiting_writers_, blocking, seen, passed>>

-----------------------------------------------------------------------------
Call(t) ==
  \/ \E wait \in BOOLEAN : CallRead(t, wait)
  \/ CallLockWrite(t)
  \/ CallTryLockWrite(t)

\* What a thread inside an operation, or holding the lock, does next.
Proceed(t) ==
  \/ ReadWaitingWriters(t)
  \/ ReadState(t)
  \/ SwapReader(t)
  \/ UnlockRead(t)
  \/ LoadForWrite(t)
  \/ SwapWriter(t)
  \/ Withdraw(t)
  \/ UnlockWrite(t)

MutexNext == \E t \in Threads : Call(t) \/ Proceed(t)

MutexSpec == MutexInit /\ [][MutexNext]_mutexVars

\* Threads that are inside an operation keep running, and holders unlock.
MutexFairSpec == MutexSpec /\ \A t \in Threads : WF_mutexVars(Proceed(t))

-----------------------------------------------------------------------------
MutexTypeOK ==
  /\ state_ \in 0 .. WriterBit
  /\ waiting_writers_ \in Nat
  /\ pc \in [Threads -> Locations]
  /\ blocking \in [Threads -> BOOLEAN]
  /\ seen \in [Threads -> Nat]
  /\ passed \in [Threads -> SUBSET Threads]

\* The promise of the lock: a writer is alone, and there are never more than
\* MaxReaders readers.  lock_read and lock_write decide with a value of
\* state_ that may be stale, and unlock_write clears the whole word.
Exclusion ==
  /\ \A w \in Owners : Owners = {w} /\ Readers = {}
  /\ Cardinality(Readers) <= MaxReaders

\* Writer preference: while one writer waits, a given thread is admitted as a
\* reader at most once (it had looked at waiting_writers_ before the writer
\* announced itself); when it comes back it is held up until the writer is
\* through.
OvertakenAtMostOnce ==
  [][\A r, w \in Threads :
       (pc[r] # "reading" /\ pc'[r] = "reading" /\ w \in Announced)
          => r \notin passed[w]]_mutexVars

\* lock_write gets the lock, or another writer does, however often readers
\* come and go: readers alone cannot starve a writer.
ReadersCannotStarveWriter ==
  \A w \in Threads : pc[w] = "wState" ~> Owners # {}
=============================================================================
