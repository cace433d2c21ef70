------------------------------ MODULE CoapServer ------------------------------
(***************************************************************************)
(* castle_ext/protocols/coap/server.hpp: requests are dispatched to the     *)
(* callback of a resource, the reply is remembered and sent again when the  *)
(* request comes again, a limiter counts the requests of each peer, and     *)
(* separate confirmable responses are retransmitted until they are          *)
(* acknowledged or reset.  As in the client, any deadline may have passed.  *)
(***************************************************************************)
EXTENDS CoapWire

CONSTANTS
    ServerRecent,          \* template parameter MaxRecentMessages
    MaxServerExchanges     \* template parameter MaxServerExchanges

ASSUME CoapServerAssumption == {ServerRecent, MaxServerExchanges} \subseteq Nat \ {0}

VARIABLES
    srv,     \* recent_, pending_, rate_states_, next_message_id_
    done     \* what the resource callbacks did, and the fate of separate responses

Pending == 1..MaxServerExchanges

NoDatagram == Control("down", "nobody", "ACK", 0)

ServerInit ==
    /\ srv = [recent |-> <<>>,
              pending |-> [i \in Pending |-> [active |-> FALSE, sent |-> NoDatagram, retries |-> 0]],
              count |-> [c \in Clients |-> 0], next |-> 1, failures |-> 0]
    /\ done = [runs |-> [c \in Clients |-> [m \in Ids(c) |-> 0]],   \* callbacks executed, up to 2
               forgotten |-> {},      \* requests whose reply is no longer remembered, or never was
               acked |-> {}]          \* separate responses that an acknowledgement released

-----------------------------------------------------------------------------
(* The table of recent messages, keyed by the peer and its identifier *)

find_recent(recent, c, m) == {i \in DOMAIN recent : recent[i].peer = c /\ recent[i].mid = m}

cache_reply_ConOnly(recent, c, m, reply) ==
    IF reply.type = "ACK"
    THEN Latest(Append(recent, [peer |-> c, mid |-> m, reply |-> reply]), ServerRecent)
    ELSE recent
cache_reply(recent, c, m, reply) ==
    Latest(Append(recent, [peer |-> c, mid |-> m, reply |-> reply]), ServerRecent)

Keys(recent) == {<<e.peer, e.mid>> : e \in ToSet(recent)}

(* expire_recent() *)
Expire(k) == Unexpired(srv.recent, k)

(* A send fails or not; the code goes on without the reply.                 *)
Failing == IF srv.failures < plan.failures THEN BOOLEAN ELSE {FALSE}
Failures(failed) == srv.failures + (IF failed THEN 1 ELSE 0)

(* The end of receive(): the reply is sent, and cached when it was sent.    *)
Answer(c, m, recent, reply, failed, counts, runs) ==
    LET after == IF failed THEN recent ELSE cache_reply(recent, c, m, reply)
        lost  == (Keys(srv.recent) \ Keys(recent)) \cup (Keys(recent) \ Keys(after))
                 \cup (IF failed THEN {<<c, m>>} ELSE {})
    IN  /\ srv' = [srv EXCEPT !.recent = after, !.count = counts, !.failures = Failures(failed)]
        /\ done' = [done EXCEPT !.runs = runs, !.forgotten = @ \cup lost]
        /\ net' = IF failed THEN net ELSE net \cup {reply}

-----------------------------------------------------------------------------
(* receive(): a request, with k expired entries *)

(* decode_message() refuses an unknown critical option: a confirmable       *)
(* request is told so, any other is ignored, and nothing is remembered.     *)
ReceiveUndecodable(d, k) ==
    /\ d.code = "critical"
    /\ srv' = [srv EXCEPT !.recent = Expire(k)]
    /\ done' = [done EXCEPT !.forgotten = @ \cup (Keys(srv.recent) \ Keys(Expire(k)))]
    /\ net' = net \cup (IF d.type = "CON" THEN {Reply(d.peer, d.mid, "bad_option", FALSE)} ELSE {})

(* The request was answered before: a confirmable one gets the same bytes.  *)
ReceiveDuplicateRequest(d, k) ==
    /\ d.code \in {"resource", "unknown"}
    /\ \E i \in find_recent(Expire(k), d.peer, d.mid) :
          net' = net \cup (IF d.type = "CON" THEN {[Expire(k)[i].reply EXCEPT !.peer = d.peer]} ELSE {})
    /\ srv' = [srv EXCEPT !.recent = Expire(k)]
    /\ done' = [done EXCEPT !.forgotten = @ \cup (Keys(srv.recent) \ Keys(Expire(k)))]

(* is_rate_limited(): the counter starts again in a new window. *)
Counted(c, renewed) == IF renewed THEN 0 ELSE srv.count[c]

Limited(c, renewed) == plan.limit # 0 /\ Counted(c, renewed) >= plan.limit

Counts(c, renewed) ==
    IF plan.limit = 0 THEN srv.count
    ELSE [srv.count EXCEPT ![c] = Counted(c, renewed) + (IF Limited(c, renewed) THEN 0 ELSE 1)]

ReceiveRequest(d, k, renewed, failed) ==
    LET c    == d.peer
        m    == d.mid
        runs == d.code = "resource" /\ ~Limited(c, renewed)
        code == CASE Limited(c, renewed) -> "service_unavailable"
                  [] runs -> "content"
                  [] OTHER -> "not_found"
    IN  /\ d.code \in {"resource", "unknown"}
        /\ find_recent(Expire(k), c, m) = {}
        /\ Answer(c, m, Expire(k), Reply(c, m, code, runs /\ d.observe), failed,
                  Counts(c, renewed),
                  IF runs THEN [done.runs EXCEPT ![c][m] = IF @ < 2 THEN @ + 1 ELSE 2] ELSE done.runs)

(* An acknowledgement or a reset releases the responses with its identifier. *)
ReceiveControl(d) ==
    LET hit == {i \in Pending : /\ srv.pending[i].active
                                /\ srv.pending[i].sent.peer = d.peer
                                /\ srv.pending[i].sent.mid = d.mid}
    IN  /\ d.type \in {"ACK", "RST"} /\ hit # {}
        /\ srv' = [srv EXCEPT !.pending =
                     [i \in Pending |-> IF i \in hit THEN [@[i] EXCEPT !.active = FALSE] ELSE @[i]]]
        /\ done' = [done EXCEPT !.acked = IF d.type = "ACK"
                                          THEN @ \cup {srv.pending[i].sent : i \in hit} ELSE @]
        /\ UNCHANGED net

-----------------------------------------------------------------------------
(* send_separate_response() for a request that a callback has seen: the     *)
(* empty acknowledgement first, then the response, which is retransmitted   *)
(* if it is confirmable and was sent.                                       *)
SendSeparate(c, m, type, failed) ==
    LET free == {i \in Pending : ~srv.pending[i].active}
        slot == CHOOSE i \in free : \A j \in free : i <= j
        d    == Separate(c, m, type, srv.next)
        ack  == IF Ask(c, m).type = "CON" THEN {Control("down", c, "ACK", m)} ELSE {}
        kept == type = "CON" /\ ~failed
    IN  /\ done.runs[c][m] > 0 /\ srv.next <= plan.separate
        /\ type = "CON" => free # {}
        /\ net' = net \cup ack \cup (IF failed THEN {} ELSE {d})
        /\ srv' = [srv EXCEPT !.next = @ + 1, !.failures = Failures(failed),
                              !.pending = IF kept THEN [@ EXCEPT ![slot] =
                                            [active |-> TRUE, sent |-> d, retries |-> 0]] ELSE @]
        /\ UNCHANGED done

(* tick(), for one response whose deadline has passed: it is given up ...   *)
Spent(i) == srv.pending[i].retries >= MaxRetransmissions

Abandon(i) ==
    /\ srv.pending[i].active /\ Spent(i)
    /\ srv' = [srv EXCEPT !.pending[i].active = FALSE]
    /\ UNCHANGED <<net, done>>

(* ... or sent again ...                                                    *)
Resend(i) ==
    /\ srv.pending[i].active /\ ~Spent(i)
    /\ srv' = [srv EXCEPT !.pending[i].retries = @ + 1]
    /\ net' = net \cup {srv.pending[i].sent}
    /\ UNCHANGED done

(* ... or the send fails: it stays as it is, and tick() and process_once()  *)
(* return without a look at the responses after it or at a datagram.        *)
ResendFails(i) ==
    /\ srv.pending[i].active /\ ~Spent(i)
    /\ UNCHANGED <<srv, net, done>>

Tick(i) == Abandon(i) \/ Resend(i) \/ ResendFails(i)

(* tick() comes to a response, whatever becomes of the sends, when no       *)
(* response before it has a retransmission left.                            *)
Ticked(i) == \A j \in Pending : j < i /\ srv.pending[j].active => Spent(j)

-----------------------------------------------------------------------------
ServerReceive(d) ==
    \/ ReceiveControl(d)
    \/ \E k \in Expirable(srv.recent) :
          \/ ReceiveUndecodable(d, k)
          \/ ReceiveDuplicateRequest(d, k)
          \/ \E renewed \in BOOLEAN, failed \in Failing : ReceiveRequest(d, k, renewed, failed)

ServerNext ==
    \/ \E d \in {x \in net : x.dir = "up"} : ServerReceive(d)
    \/ \E c \in Clients : \E m \in Ids(c) : \E type \in {"CON", "NON"}, failed \in Failing :
          SendSeparate(c, m, type, failed)
    \/ \E i \in Pending : Tick(i)
=============================================================================
