---------------------------- MODULE SpscChannel -----------------------------
(***************************************************************************)
(* What a single-producer/single-consumer buffer hand-off promises: the    *)
(* consumer receives buffers in the order in which they were reserved,     *)
(* each once, with the size the producer committed; at most Capacity       *)
(* buffers are on their way.  A reservation may be refused at any time.    *)
(***************************************************************************)
EXTENDS Integers, Sequences

CONSTANTS Capacity,   \* buffers between the two ends
          Sizes       \* element counts a buffer can be committed with

Open == -1            \* the size of a buffer that is still being filled

VARIABLES chan,       \* buffers on their way, oldest first: id and size
          reserved,   \* number of buffers reserved so far; their ids are 1, 2, ...
          received    \* the last buffer the consumer got

cvars == <<chan, reserved, received>>

CInit == chan = <<>> /\ reserved = 0 /\ received = [id |-> 0, size |-> 0]

Reserve ==
    /\ Len(chan) < Capacity
    /\ chan' = Append(chan, [id |-> reserved + 1, size |-> Open])
    /\ reserved' = reserved + 1
    /\ UNCHANGED received

Commit(i, n) ==
    /\ chan[i].size = Open
    /\ chan' = [chan EXCEPT ![i].size = n]
    /\ UNCHANGED <<reserved, received>>

Receive ==
    /\ chan # <<>>
    /\ Head(chan).size # Open
    /\ received' = Head(chan)
    /\ chan' = Tail(chan)
    /\ UNCHANGED reserved

(* Everything on its way is dropped. *)
Reset == chan' = <<>> /\ UNCHANGED <<reserved, received>>

CNext ==
    \/ Reserve \/ Receive \/ Reset
    \/ \E i \in 1 .. Len(chan), n \in Sizes : Commit(i, n)

ChannelSpec == CInit /\ [][CNext]_cvars
=============================================================================
