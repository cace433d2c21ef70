------------------------------ MODULE CoapSystem ------------------------------
(* CoAP clients and the server over a network that loses, repeats, delays   *)
(* and reorders datagrams.                                                  *)
EXTENDS CoapClient, CoapServer

vars == <<plan, net, cli, app, srv, done>>

Init == WireInit /\ ClientInit /\ ServerInit

Next ==
    \/ \E c \in Clients : ClientNext(c) /\ UNCHANGED <<plan, srv, done>>
    \/ ServerNext /\ UNCHANGED <<plan, cli, app>>

(* Both ends go on polling and time passes.  What is due is handled when    *)
(* the loop over the timers is sure to come to it; no retransmission is     *)
(* taken to succeed.                                                        *)
Fairness ==
    /\ \A c \in Clients :
          WF_vars(\E s \in Slots : Reached(c, s) /\ GiveUp(c, s) /\ UNCHANGED <<plan, srv, done>>)
    /\ WF_vars(\E i \in Pending : Ticked(i) /\ Abandon(i) /\ UNCHANGED <<plan, cli, app>>)

Spec == Init /\ [][Next]_vars /\ Fairness

-----------------------------------------------------------------------------
(* The callback of a resource runs once for a request, however often its    *)
(* datagram arrives, as long as the server has not lost the reply: by       *)
(* overwriting or expiring the entry, or because sending the reply failed.  *)
ExecutedOnce ==
    \A c \in Clients : \A m \in Ids(c) :
        done.runs[c][m] <= 1 \/ <<c, m>> \in done.forgotten

(* Every exchange is ended once: the callback is told of its response or    *)
(* timeout, or the application cancels it, and until then it stays in the   *)
(* table.  Excepted is a request sent by the callback that took over the    *)
(* slot its own exchange had: the client ends it without a word when the    *)
(* callback returns.                                                        *)
EndedOnce ==
    \A c \in Clients : \A m \in 1 .. cli[c].next - 1 :
        \/ m \in app[c].orphans
        \/ Len(app[c].outcome[m]) + Cardinality(find_mid(c, cli[c], m)) = 1

(* A response that comes in the acknowledgement is the answer to that very  *)
(* request of that client, also when a token is used again and when two     *)
(* clients use the same identifiers and tokens.                             *)
AnswersOwnRequest ==
    \A c \in Clients : \A h \in app[c].heard : h[2].type = "ACK" => h[2].of = <<c, h[1]>>

(* A separate response or notification reaches the callback once, unless    *)
(* the client has meanwhile dropped its identifier from the recent ones.    *)
HeardOnce ==
    \A c \in Clients : \A d \in app[c].again : d.type = "ACK" \/ d.mid \in app[c].forgotten

(* A separate response that was released by an acknowledgement has reached  *)
(* the callback.  Excepted are a response that the client has first         *)
(* rejected, since it acknowledges the copies that follow, and one whose    *)
(* identifier another response to the client has used: replies to NON       *)
(* requests carry the client's identifiers, separate ones the server's.     *)
AckedIsHeard ==
    \A d \in done.acked :
        \/ d \in app[d.peer].rejected
        \/ \E h \in app[d.peer].heard : h[2] = d
        \/ \E x \in To(d.peer) : x # d /\ x.type = "NON" /\ x.mid = d.mid

(* What the two ends need of the network: a retransmission that is tried    *)
(* again and again is sent at last, and an empty acknowledgement, which     *)
(* starts the lifetime of its exchange again, is not repeated for ever.     *)
ClientSends(c) == WF_vars(\E s \in Slots : Retransmit(c, s) /\ UNCHANGED <<plan, srv, done>>)
ServerSends == WF_vars(\E i \in Pending : Resend(i) /\ UNCHANGED <<plan, cli, app>>)
AcksEnd(c) ==
    <>[][\A s \in Slots : cli[c].ex[s].waited /\ cli'[c].ex[s].acknowledged
                              => cli'[c].ex[s].waited]_vars

(* With such a network no exchange keeps its slot for ever, and no separate *)
(* response is retransmitted for ever.  (While a retransmission fails it is *)
(* not counted, and its entry and those after it stay.)                     *)
ExchangesSettle ==
    /\ \A c \in Clients : ClientSends(c) /\ AcksEnd(c) =>
          \A s \in Slots : cli[c].ex[s].active ~> ~cli[c].ex[s].active
    /\ ServerSends => \A i \in Pending : srv.pending[i].active ~> ~srv.pending[i].active
=============================================================================
