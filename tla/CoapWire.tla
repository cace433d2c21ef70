------------------------------- MODULE CoapWire -------------------------------
(* The UDP datagrams between CoAP clients and the server.  A datagram that  *)
(* was sent may arrive any number of times, at any later time, or never:    *)
(* the network is the set of all datagrams sent.                            *)
EXTENDS Naturals, SequencesExt

CONSTANTS
    Clients,               \* endpoints of the clients
    MaxRetransmissions,    \* max_retransmissions_ of both ends
    Scenarios              \* what applications and network may do

(* A request: its type, the token the application gave it, whether it       *)
(* registers an observation, and what the server finds at its path.         *)
Request == [type : {"CON", "NON"}, token : Nat, observe : BOOLEAN,
            path : {"resource", "unknown", "critical"}]

(* A scenario bounds a behaviour; each is one the program can be in.        *)
(*   asks       the requests of each client, in the order they are sent     *)
(*   reactions  what the response callbacks may do                          *)
(*   separate   bound: separate responses the server application sends      *)
(*   limit      maximum_requests_per_window_, 0 for no limit                *)
(*   failures   bound: sends of the server that fail                        *)
(*   expiry     whether exchange_lifetime_ms may pass                       *)
Scenario ==
    [asks : [Clients -> Seq(Request)],
     reactions : SUBSET {"none", "cancel", "send", "resend"},
     separate : Nat, limit : Nat, failures : Nat, expiry : BOOLEAN]

ASSUME CoapWireAssumption ==
    /\ MaxRetransmissions \in Nat
    /\ \A p \in Scenarios : p \in Scenario

VARIABLES
    net,      \* every datagram sent
    plan      \* the scenario

Ask(c, m) == plan.asks[c][m]

(* The message identifier of a request is its place in the plan, which is   *)
(* what allocate_message_id() counts.                                       *)
Ids(c) == 1..Len(plan.asks[c])

(* peer is the client's endpoint, at either end; of is the request that a   *)
(* response answers and is not part of the datagram.                        *)
Datagram(dir, peer, type, mid, token, code, observe, of) ==
    [dir |-> dir, peer |-> peer, type |-> type, mid |-> mid, token |-> token,
     code |-> code, observe |-> observe, of |-> of]

RequestOf(c, m) ==
    LET r == Ask(c, m) IN Datagram("up", c, r.type, m, r.token, r.path, r.observe, <<c, m>>)

(* Empty messages: acknowledgement and reset. *)
Control(dir, c, type, mid) == Datagram(dir, c, type, mid, 0, "empty", FALSE, <<>>)

(* The reply to request m in the same exchange. *)
Reply(c, m, code, observe) ==
    LET r == Ask(c, m)
    IN  Datagram("down", c, IF r.type = "CON" THEN "ACK" ELSE "NON", m, r.token, code, observe, <<c, m>>)

(* A response sent on its own, with an identifier of the server. *)
Separate(c, m, type, id) ==
    Datagram("down", c, type, id, Ask(c, m).token, "content", Ask(c, m).observe, <<c, m>>)

To(c) == {d \in net : d.dir = "down" /\ d.peer = c}

(* The tables of recent messages are rings that overwrite the oldest entry: *)
(* the last n entries of a sequence.                                        *)
Latest(seq, n) == SubSeq(seq, IF Len(seq) > n THEN Len(seq) - n + 1 ELSE 1, Len(seq))

(* The k oldest entries have passed exchange_lifetime_ms. *)
Unexpired(seq, k) == SubSeq(seq, k + 1, Len(seq))

Expirable(seq) == IF plan.expiry THEN 0..Len(seq) ELSE {0}

WireInit == net = {} /\ plan \in Scenarios
=============================================================================
