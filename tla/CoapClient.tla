------------------------------ MODULE CoapClient ------------------------------
(***************************************************************************)
(* castle_ext/protocols/coap/client.hpp: a table of exchanges matched by    *)
(* message identifier and token, retransmission timers, a table of recent   *)
(* incoming identifiers that suppresses duplicates, and a callback that may *)
(* call back into the client.                                               *)
(*                                                                          *)
(* The application supplies the time, so any deadline may have passed when  *)
(* the client is polled; service_timers() handles the entries that are due  *)
(* one after the other, which is a sequence of steps for one entry.  Any    *)
(* send may fail.  When a request, an acknowledgement or a reset is not     *)
(* sent, the state is that of a call not made or of a datagram lost; what a *)
(* failing retransmission does is RetransmitFails.                          *)
(***************************************************************************)
EXTENDS CoapWire

CONSTANTS
    MaxExchanges,      \* template parameter MaxExchanges
    ClientRecent       \* template parameter MaxRecentMessages

ASSUME CoapClientAssumption == MaxExchanges \in Nat \ {0} /\ ClientRecent \in Nat \ {0}

VARIABLES
    cli,     \* per client: exchanges_, recent_, next_message_id_
    app      \* per client: what the application saw

Slots == 1..MaxExchanges

(* An exchange is known by its request; the generation of the code tells    *)
(* the uses of a slot apart, and so does the identifier here.  waited says  *)
(* that exchange_lifetime_ms have passed since the last empty               *)
(* acknowledgement.                                                         *)
Entry(m) == [active |-> TRUE, mid |-> m, retransmissions |-> 0, acknowledged |-> FALSE,
             waited |-> FALSE]

ClientInit ==
    /\ cli = [c \in Clients |->
                [ex |-> [s \in Slots |-> [Entry(0) EXCEPT !.active = FALSE]],
                 recent |-> <<>>, next |-> 1]]
    /\ app = [c \in Clients |->
                [outcome |-> [m \in Ids(c) |-> <<>>],   \* how an exchange ended
                 heard |-> {},         \* responses given to the callback, with the exchange
                 again |-> {},         \* those given to it more than once
                 rejected |-> {},      \* responses answered by a reset
                 forgotten |-> {},     \* identifiers that recent_ held and lost
                 orphans |-> {}]]      \* exchanges ended by the end of a callback

-----------------------------------------------------------------------------
(* The table of exchanges *)

Active(c, z) == {s \in Slots : z.ex[s].active}

find_mid(c, z, m) == {s \in Active(c, z) : z.ex[s].mid = m}

find_token(c, z, t) == {s \in Active(c, z) : Ask(c, z.ex[s].mid).token = t}

find_free_Any(c, z) == Slots
find_free(c, z) == Slots \ Active(c, z)

(* send_request() is refused when the table is full or the token is in use. *)
CanSend(c, z) ==
    /\ z.next \in Ids(c)
    /\ find_free(c, z) # {} /\ find_token(c, z, Ask(c, z.next).token) = {}

Started(c, z) ==
    LET slot == CHOOSE s \in find_free(c, z) : \A t \in find_free(c, z) : s <= t
    IN  IF CanSend(c, z) THEN [z EXCEPT !.ex[slot] = Entry(z.next), !.next = @ + 1] ELSE z

Freed(z, s) == [z EXCEPT !.ex[s].active = FALSE]

(* send_request() *)
SendRequest(c) ==
    /\ CanSend(c, cli[c])
    /\ cli' = [cli EXCEPT ![c] = Started(c, @)]
    /\ net' = net \cup {RequestOf(c, cli[c].next)}
    /\ UNCHANGED app

(* cancel(), with the handle of an exchange that is still active *)
Cancel(c, s) ==
    /\ s \in Active(c, cli[c])
    /\ cli' = [cli EXCEPT ![c] = Freed(@, s)]
    /\ app' = [app EXCEPT ![c].outcome[cli[c].ex[s].mid] = Append(@, "cancelled")]
    /\ UNCHANGED net

-----------------------------------------------------------------------------
(* The callback: it may cancel the exchange it is called for, send the next *)
(* request, or cancel and send.                                             *)
Reacted(c, z, s, reaction) ==
    LET y == IF reaction \in {"cancel", "resend"} THEN Freed(z, s) ELSE z
    IN  IF reaction \in {"send", "resend"} THEN Started(c, y) ELSE y

SentMeanwhile(c, z, y) == {RequestOf(c, m) : m \in z.next .. y.next - 1}

(* complete(), and the other two places that do the same: the callback runs *)
(* and the slot is freed after it, whoever holds the slot by then.          *)
Completed(c, z, s, reaction) == Freed(Reacted(c, z, s, reaction), s)

Outcome(c, z, s, reaction, a, kind) ==
    LET own  == z.ex[s].mid
        mine == Reacted(c, z, s, reaction).ex[s].mid
    IN  [a EXCEPT !.outcome[own] = Append(@, kind),
                  !.orphans = IF mine # own THEN @ \cup {mine} ELSE @]

(* An observation stays, unless the callback cancelled it. *)
Kept(c, z, s, reaction, a) ==
    IF reaction \in {"cancel", "resend"}
    THEN [a EXCEPT !.outcome[z.ex[s].mid] = Append(@, "cancelled")]
    ELSE a

-----------------------------------------------------------------------------
(* service_timers(), for one entry whose deadline has passed *)

GivesUp(c, s) ==
    LET e == cli[c].ex[s]
    IN  e.acknowledged \/ Ask(c, e.mid).type = "NON" \/ e.retransmissions >= MaxRetransmissions

(* The deadline that every empty acknowledgement moves passes. *)
LifetimePasses(c, s) ==
    /\ s \in Active(c, cli[c]) /\ cli[c].ex[s].acknowledged /\ ~cli[c].ex[s].waited
    /\ cli' = [cli EXCEPT ![c].ex[s].waited = TRUE]
    /\ UNCHANGED <<app, net>>

Timeout(c, s, reaction) ==
    /\ s \in Active(c, cli[c]) /\ GivesUp(c, s)
    /\ cli[c].ex[s].acknowledged => cli[c].ex[s].waited
    /\ cli' = [cli EXCEPT ![c] = Completed(c, @, s, reaction)]
    /\ app' = [app EXCEPT ![c] = Outcome(c, cli[c], s, reaction, @, "time_out")]
    /\ net' = net \cup SentMeanwhile(c, cli[c], cli'[c])

Retransmitted_NoCount(e) == e
Retransmitted(e) == [e EXCEPT !.retransmissions = @ + 1]

Retransmit(c, s) ==
    /\ s \in Active(c, cli[c]) /\ ~GivesUp(c, s)
    /\ cli' = [cli EXCEPT ![c].ex[s] = Retransmitted(@)]
    /\ net' = net \cup {RequestOf(c, cli[c].ex[s].mid)}
    /\ UNCHANGED app

(* The send fails: the entry stays as it is, still due, and service_timers()*)
(* and process_once() return without a look at the entries after it or at   *)
(* a datagram.                                                              *)
RetransmitFails(c, s) ==
    /\ s \in Active(c, cli[c]) /\ ~GivesUp(c, s)
    /\ UNCHANGED <<cli, app, net>>

(* service_timers() comes to an entry, whatever becomes of the sends, when  *)
(* no entry before it has a retransmission left.                            *)
Reached(c, s) == \A t \in Active(c, cli[c]) : t < s => GivesUp(c, t)

-----------------------------------------------------------------------------
(* process_once(): one datagram *)

(* An empty acknowledgement stops the retransmissions.  The exchange then   *)
(* waits for a separate response, but no longer than exchange_lifetime_ms.  *)
ReceiveEmptyAck(c, d) ==
    /\ d.code = "empty"
    /\ \E s \in find_mid(c, cli[c], d.mid) :
          cli' = [cli EXCEPT ![c].ex[s] = [@ EXCEPT !.acknowledged = TRUE, !.waited = FALSE]]
    /\ UNCHANGED <<app, net>>

(* An acknowledgement that carries the response must have the identifier of *)
(* the request; any other response is known by its token alone.             *)
BelongsTo_TokenOnly(c, d) == find_token(c, cli[c], d.token)
BelongsTo(c, d) ==
    {s \in find_token(c, cli[c], d.token) : d.type = "ACK" => cli[c].ex[s].mid = d.mid}

Acks(c, d) == IF d.type = "CON" THEN {Control("up", c, "ACK", d.mid)} ELSE {}

(* The callback hears a response; the observation goes on if the response   *)
(* has the option too.                                                      *)
Hear(c, z, d, s, reaction, a) ==
    LET keep == Ask(c, z.ex[s].mid).observe /\ d.observe
        b    == [a EXCEPT !.heard = @ \cup {<<z.ex[s].mid, d>>},
                          !.again = IF \E h \in a.heard : h[2] = d THEN @ \cup {d} ELSE @]
        y    == IF keep THEN Reacted(c, z, s, reaction) ELSE Completed(c, z, s, reaction)
    IN  /\ cli' = [cli EXCEPT ![c] = y]
        /\ app' = [app EXCEPT ![c] = IF keep THEN Kept(c, z, s, reaction, b)
                                     ELSE Outcome(c, z, s, reaction, b, "response")]
        /\ net' = net \cup Acks(c, d) \cup SentMeanwhile(c, z, y)

ReceivePiggybacked(c, d, reaction) ==
    /\ d.type = "ACK" /\ d.code # "empty"
    /\ \E s \in BelongsTo(c, d) : Hear(c, cli[c], d, s, reaction, app[c])

Remembers_ConOnly(c, d) == d.type = "CON"
(* remember_incoming() *)
Remembers(c, d) == TRUE

(* recent_ with k expired entries, and after the new one *)
Expired(c, k) == Unexpired(cli[c].recent, k)

Remembering(c, d, k) ==
    IF Remembers(c, d) THEN Latest(Append(Expired(c, k), d.mid), ClientRecent) ELSE Expired(c, k)

Forgetting(c, k, recent) ==
    [app[c] EXCEPT !.forgotten = @ \cup (ToSet(cli[c].recent) \ ToSet(Expired(c, k)))
                                  \cup (ToSet(Expired(c, k)) \ ToSet(recent))]

IsOwnMessage(d) == d.type \in {"CON", "NON"}

(* is_recent_duplicate(): acknowledged again, not given to the callback *)
ReceiveDuplicate(c, d, k) ==
    /\ IsOwnMessage(d) /\ d.mid \in ToSet(Expired(c, k))
    /\ cli' = [cli EXCEPT ![c].recent = Expired(c, k)]
    /\ app' = [app EXCEPT ![c] = Forgetting(c, k, Expired(c, k))]
    /\ net' = net \cup Acks(c, d)

ReceiveResponse(c, d, k, reaction) ==
    /\ IsOwnMessage(d) /\ d.mid \notin ToSet(Expired(c, k))
    /\ \E s \in BelongsTo(c, d) :
          LET recent == Remembering(c, d, k)
          IN  Hear(c, [cli[c] EXCEPT !.recent = recent], d, s, reaction, Forgetting(c, k, recent))

Refusal_Acks(c, d) == Acks(c, d)
(* send_reset() *)
Refusal(c, d) == IF d.type = "CON" THEN {Control("up", c, "RST", d.mid)} ELSE {}

Resets(c, d) == Control("up", c, "RST", d.mid) \in Refusal(c, d)

ReceiveUnmatched(c, d, k) ==
    /\ IsOwnMessage(d) /\ d.mid \notin ToSet(Expired(c, k))
    /\ BelongsTo(c, d) = {}
    /\ LET recent == Remembering(c, d, k)
       IN  /\ cli' = [cli EXCEPT ![c].recent = recent]
           /\ app' = [app EXCEPT ![c] = [Forgetting(c, k, recent) EXCEPT
                                            !.rejected = IF Resets(c, d) THEN @ \cup {d} ELSE @]]
    /\ net' = net \cup Refusal(c, d)

-----------------------------------------------------------------------------
GiveUp(c, s) == LifetimePasses(c, s) \/ \E reaction \in plan.reactions : Timeout(c, s, reaction)

Timer(c, s) == Retransmit(c, s) \/ RetransmitFails(c, s) \/ GiveUp(c, s)

ProcessOnce(c, d) ==
    \/ ReceiveEmptyAck(c, d)
    \/ \E reaction \in plan.reactions : ReceivePiggybacked(c, d, reaction)
    \/ \E k \in Expirable(cli[c].recent) :
          \/ ReceiveDuplicate(c, d, k)
          \/ ReceiveUnmatched(c, d, k)
          \/ \E reaction \in plan.reactions : ReceiveResponse(c, d, k, reaction)

ClientNext(c) ==
    \/ SendRequest(c)
    \/ \E s \in Slots : Cancel(c, s) \/ Timer(c, s)
    \/ \E d \in To(c) : ProcessOnce(c, d)
=============================================================================
