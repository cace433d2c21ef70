------------------------------- MODULE MqttWire -------------------------------
(* The TCP connections between MQTT clients and the broker, as the sockets  *)
(* of castle_ext/net use them.  A connection carries packets in order in    *)
(* both directions.  Either end may hang up, what it sent before stays      *)
(* deliverable; the network may cut a connection, and then everything in    *)
(* flight is lost.  Nothing tells an end about it but its next receive.     *)
EXTENDS Naturals, SequencesExt

CONSTANTS
    Clients,          \* client identifiers, one client process each
    MaxOutstanding,   \* template parameter MaxOutstanding of both ends
    IdMax,            \* largest packet identifier (65535 in the code)
    MaxMessages,      \* bound: calls of publish that succeed
    MaxConnections,   \* bound: connections made in a behaviour
    MaxCuts           \* bound: connections that the network cuts

ASSUME MqttWireAssumption ==
    /\ {MaxOutstanding, IdMax, MaxMessages, MaxConnections} \subseteq Nat \ {0}
    /\ IdMax >= MaxOutstanding /\ IsFiniteSet(Clients)

VARIABLES
    wire,        \* the connections, in the order they were dialled
    listening    \* the broker's listening socket is open

Messages == 1..MaxMessages
Will == 0        \* the message that a connection's will carries

Connections == 1..MaxConnections

(* Packet identifiers follow each other from 1 to the largest, then again. *)
After(i, n) == ((i + n - 1) % IdMax) + 1

IdPacket(type, id) == [type |-> type, id |-> id]

(* A client has connected and the listener has not accepted it yet. *)
Dialled == [up |-> <<>>, down |-> <<>>, client |-> "open", broker |-> "backlog", cut |-> FALSE]

Dial(w) == Append(w, Dialled)

(* Data sent to an end that is gone vanishes. *)
SendUp(w, k, p) ==
    IF w[k].cut \/ w[k].broker = "closed" THEN w ELSE [w EXCEPT ![k].up = Append(@, p)]

SendAllUp(w, k, ps) ==
    IF w[k].cut \/ w[k].broker = "closed" THEN w ELSE [w EXCEPT ![k].up = @ \o ps]

(* Connection k becomes v. *)
Update(w, k, v) == [j \in DOMAIN w |-> IF j = k THEN v ELSE w[j]]

WithDown(v, p) ==
    IF v.cut \/ v.client = "closed" THEN v ELSE [v EXCEPT !.down = Append(@, p)]

SendDown(w, k, p) == Update(w, k, WithDown(w[k], p))

ReceiveUp(w, k) == [w EXCEPT ![k].up = Tail(@)]

ReceiveDown(w, k) == [w EXCEPT ![k].down = Tail(@)]

ClientHangsUp(w, k) == [w EXCEPT ![k].client = "closed", ![k].down = <<>>]

BrokerHangsUp(w, k) == Update(w, k, [w[k] EXCEPT !.broker = "closed", !.up = <<>>])

(* An end reads the end of the stream, or a reset, once nothing is left to  *)
(* read and the other end or the network has gone.                          *)
EofAtClient(w, k) == w[k].down = <<>> /\ (w[k].broker = "closed" \/ w[k].cut)

EofAtBroker(w, k) == w[k].up = <<>> /\ (w[k].client = "closed" \/ w[k].cut)

(* A send may also fail at once when the other side is gone. *)
Dead(w, k) == w[k].cut \/ w[k].broker = "closed"

WireInit == wire = <<>> /\ listening = TRUE

(* The network cuts a connection that an end still uses. *)
Cut(k) ==
    /\ k \in DOMAIN wire
    /\ ~wire[k].cut /\ Cardinality({j \in DOMAIN wire : wire[j].cut}) < MaxCuts
    /\ wire[k].client = "open" \/ wire[k].broker # "closed"
    /\ wire' = [wire EXCEPT ![k].cut = TRUE, ![k].up = <<>>, ![k].down = <<>>]
    /\ UNCHANGED listening
=============================================================================
