------------------------------ MODULE MqttClient ------------------------------
(* castle_ext/protocols/mqtt/client.hpp, basic_client: connect, publish,    *)
(* subscribe, unsubscribe, poll, disconnect and force_close, and the        *)
(* handlers of received packets.  A client is driven by one thread; packets *)
(* are handled one at a time.  Topics are abstracted to one topic with one  *)
(* filter that matches it; time to "the deadline may have passed".          *)
EXTENDS MqttWire

CONSTANT Scenarios        \* what the applications do

(* A scenario fixes the arguments of the calls, not their order: the        *)
(* connect_options of each connection in turn, the messages published in    *)
(* turn (retain is "no", "store", or "clear" for a retained empty payload), *)
(* the calls of subscribe() and unsubscribe() in turn, and the quality that *)
(* subscribe() asks for.                                                    *)
Qualities == 0..2
ASSUME MqttClientAssumption ==
    \A s \in Scenarios :
        /\ Len(s.opts) = MaxConnections /\ s.quality \in Qualities
        /\ \A k \in Connections : s.opts[k].expiry => s.opts[k].v5
        /\ Len(s.pubs) \in Messages
        /\ s.pubs \in Seq([qos : Qualities, retain : {"no", "store", "clear"}])
        /\ s.calls \in Seq({"subscribe", "unsubscribe"})

VARIABLES
    cli,   \* one record of client state per client
    app    \* history of the applications: what was published, delivered, acknowledged

Entries == 1..MaxOutstanding
Free == [state |-> "free"]

Used(out) == {i \in Entries : out[i].state # "free"}

NewClient ==
    [conn |-> 0, phase |-> "idle", connected |-> FALSE, ping |-> FALSE,
     clean |-> TRUE, keep |-> FALSE, present |-> FALSE,
     out |-> [i \in Entries |-> Free], inc |-> {}, req |-> {}, next |-> 0]

NewApp(s) ==
    [plan |-> s, sent |-> 0, calls |-> 0, got |-> [c \in Clients |-> [m \in Messages |-> 0]],
     done |-> {}, resumed |-> {}, nested |-> FALSE, stale |-> FALSE, error |-> FALSE]

ClientInit == cli = [c \in Clients |-> NewClient] /\ \E s \in Scenarios : app = NewApp(s)

-----------------------------------------------------------------------------
(* Packet identifiers: the counter goes on from where it is, skips zero and *)
(* every identifier of an exchange or request that is under way.            *)
Busy(s) == {s.out[i].id : i \in Used(s.out)} \cup {r.id : r \in s.req}

AllocateIdentifier_AnyBusy(s) == After(s.next, 1)

AllocateIdentifier(s) ==
    LET free == {n \in 1..IdMax : After(s.next, n) \notin Busy(s)}
    IN  IF free = {} THEN 0 ELSE After(s.next, Min(free))

FindOutgoing(s, id) == {i \in Used(s.out) : s.out[i].id = id}

PublishPacket(e, dup) ==
    [type |-> "publish", id |-> e.id, qos |-> e.qos, retain |-> e.retain, m |-> e.m, dup |-> dup]

ForceClosed(s) ==
    [s EXCEPT !.conn = 0, !.phase = "idle", !.connected = FALSE, !.ping = FALSE]

ForceClose(c) ==
    /\ cli' = [cli EXCEPT ![c] = ForceClosed(@)]
    /\ wire' = ClientHangsUp(wire, cli[c].conn)

-----------------------------------------------------------------------------
(* connect() is one blocking call in three steps: it dials and sends        *)
(* CONNECT ("wait"), CONNACK arrives ("acked"), and it returns ("idle")     *)
(* after resending or forgetting what the last connection left unfinished.  *)
Forgetful(s, o) ==
    IF o.clean THEN [s EXCEPT !.out = NewClient.out, !.inc = {}, !.req = {}] ELSE s

Connect(c) ==
    LET o == app.plan.opts[Len(wire) + 1] IN
    /\ cli[c].conn = 0 /\ cli[c].phase = "idle"
    /\ listening /\ Len(wire) < MaxConnections
    /\ cli' = [cli EXCEPT ![c] = [Forgetful(@, o) EXCEPT
                 !.conn = Len(wire) + 1, !.phase = "wait", !.connected = FALSE,
                 !.clean = o.clean, !.keep = o.keep]]
    /\ wire' = SendUp(Dial(wire), Len(wire) + 1, [type |-> "connect", id |-> c, opts |-> o])
    /\ UNCHANGED app

(* No connection can be made: nothing happens but what connect() did first. *)
ConnectFails(c) ==
    LET o == app.plan.opts[Len(wire) + 1] IN
    /\ cli[c].conn = 0 /\ cli[c].phase = "idle" /\ Len(wire) < MaxConnections
    /\ cli' = [cli EXCEPT ![c] = [Forgetful(@, o) EXCEPT
                 !.connected = FALSE, !.clean = o.clean, !.keep = o.keep]]
    /\ UNCHANGED <<wire, app>>

ConnectTimesOut(c) ==
    /\ cli[c].phase = "wait"
    /\ ForceClose(c)
    /\ UNCHANGED app

(* resend_outgoing(), in the order of the entries. *)
Resend_PublishOnly(e) == PublishPacket(e, TRUE)

Resend(e) ==
    IF e.state = "await_pubcomp" THEN IdPacket("pubrel", e.id) ELSE PublishPacket(e, TRUE)

Nth(S, j) == CHOOSE i \in S : Cardinality({h \in S : h <= i}) = j

ResendOutgoing(w, k, out) ==
    LET used == Used(out)
    IN  SendAllUp(w, k, [j \in 1..Cardinality(used) |-> Resend(out[Nth(used, j)])])

ConnectReturns(c) ==
    LET s == cli[c]
        resume == s.present /\ ~s.clean
    IN  /\ s.phase = "acked"
        /\ \/ /\ resume
              /\ cli' = [cli EXCEPT ![c].phase = "idle"]
              /\ wire' = ResendOutgoing(wire, s.conn, s.out)
              /\ app' = [app EXCEPT !.resumed = @ \cup {s.out[i].m : i \in Used(s.out)}]
           \/ /\ ~resume
              /\ cli' = [cli EXCEPT ![c].phase = "idle", ![c].out = NewClient.out, ![c].inc = {}]
              /\ UNCHANGED <<wire, app>>

-----------------------------------------------------------------------------
(* Calls of the application, between polls. *)
Ready(c) == cli[c].connected /\ cli[c].phase = "idle"

(* publish() of the next message of the plan by a client in state s: the    *)
(* entry for it, and the state with that entry in the table.                *)
NextEntry(s) ==
    LET m == app.sent + 1
        q == app.plan.pubs[m].qos
    IN  [state |-> IF q = 1 THEN "await_puback" ELSE "await_pubrec",
         id |-> IF q = 0 THEN 0 ELSE AllocateIdentifier(s), qos |-> q,
         retain |-> app.plan.pubs[m].retain, m |-> m]

CanPublish(s) ==
    /\ app.sent + 1 \in DOMAIN app.plan.pubs
    /\ NextEntry(s).qos > 0 => Used(s.out) # Entries /\ NextEntry(s).id # 0

Entering(s) ==
    LET e == NextEntry(s)
    IN  IF e.qos = 0 THEN s
        ELSE [s EXCEPT !.out[Min(Entries \ Used(s.out))] = e, !.next = e.id]

Publish(c) ==
    /\ Ready(c) /\ CanPublish(cli[c])
    /\ cli' = [cli EXCEPT ![c] = Entering(@)]
    /\ wire' = SendUp(wire, cli[c].conn, PublishPacket(NextEntry(cli[c]), FALSE))
    /\ app' = [app EXCEPT !.sent = @ + 1]

(* subscribe() and unsubscribe(), type names the packet. *)
NextCall == app.calls + 1

Request(c, type, q) ==
    LET s == cli[c]
        id == AllocateIdentifier(s)
    IN  /\ Ready(c)
        /\ NextCall \in DOMAIN app.plan.calls /\ app.plan.calls[NextCall] = type
        /\ Cardinality(s.req) < MaxOutstanding /\ id # 0
        /\ cli' = [cli EXCEPT ![c].req = @ \cup {[id |-> id, type |-> type]}, ![c].next = id]
        /\ wire' = SendUp(wire, s.conn, [type |-> type, id |-> id, qos |-> q])
        /\ app' = [app EXCEPT !.calls = NextCall]

Subscribe(c) == Request(c, "subscribe", app.plan.quality)

Unsubscribe(c) == Request(c, "unsubscribe", 0)

(* A subscribe() or unsubscribe() that finds no entry, and any call whose   *)
(* send fails, gives its entry back and reports an error; the identifier it *)
(* took stays used up.                                                      *)
CallFails(c) ==
    LET s == cli[c]
        id == AllocateIdentifier(s)
    IN  /\ Ready(c) /\ id # 0
        /\ \/ /\ NextCall \in DOMAIN app.plan.calls
              /\ Dead(wire, s.conn) \/ Cardinality(s.req) = MaxOutstanding
              /\ app' = [app EXCEPT !.calls = NextCall]
           \/ /\ CanPublish(s) /\ NextEntry(s).qos > 0
              /\ Dead(wire, s.conn)
              /\ UNCHANGED app
        /\ cli' = [cli EXCEPT ![c].next = id]
        /\ UNCHANGED wire

Disconnect(c) ==
    /\ Ready(c)
    /\ wire' = ClientHangsUp(SendUp(wire, cli[c].conn, [type |-> "disconnect"]), cli[c].conn)
    /\ cli' = [cli EXCEPT ![c] = ForceClosed(@)]
    /\ UNCHANGED app

(* poll() gives up when no PINGRESP came in time.  The flag may stem from   *)
(* an earlier connection that the broker ended: only force_close() clears it. *)
PingTimesOut(c) ==
    /\ Ready(c) /\ cli[c].keep /\ cli[c].ping
    /\ ForceClose(c)
    /\ UNCHANGED app

(* force_close() by the application. *)
Abort(c) ==
    /\ cli[c].conn # 0 /\ cli[c].phase = "idle"
    /\ ForceClose(c)
    /\ UNCHANGED app

(* poll() sends PINGREQ when the keep-alive interval has passed. *)
Ping(c) ==
    /\ Ready(c) /\ cli[c].keep /\ ~cli[c].ping
    /\ cli' = [cli EXCEPT ![c].ping = TRUE]
    /\ wire' = SendUp(wire, cli[c].conn, [type |-> "pingreq"])
    /\ UNCHANGED app

-----------------------------------------------------------------------------
(* Handlers: what a packet does to the client, what it answers, which       *)
(* message it delivers to the callback and which exchange it completes.     *)
Handled(s, send) == [ok |-> TRUE, s |-> s, send |-> send, deliver |-> {}, acked |-> {}]
Rejected(s) == [ok |-> FALSE, s |-> s, send |-> <<>>, deliver |-> {}, acked |-> {}]

HandleConnack(s, p) ==
    IF s.phase = "wait" /\ p.ok
    THEN Handled([s EXCEPT !.phase = "acked", !.connected = TRUE, !.present = p.present], <<>>)
    ELSE Rejected(s)

Known(s, id) == \E e \in s.inc : e.id = id

HandlePublish(s, p) ==
    CASE p.qos = 2 /\ Known(s, p.id) -> Handled(s, <<IdPacket("pubrec", p.id)>>)
      [] p.qos = 2 /\ ~Known(s, p.id) /\ Cardinality(s.inc) < MaxOutstanding ->
            Handled([s EXCEPT !.inc = @ \cup {[id |-> p.id, m |-> p.m, retain |-> p.retain]}],
                    <<IdPacket("pubrec", p.id)>>)
      [] p.qos \in {0, 1} ->
            [Handled(s, IF p.qos = 1 THEN <<IdPacket("puback", p.id)>> ELSE <<>>)
                EXCEPT !.deliver = {[m |-> p.m, retain |-> p.retain]}]
      [] OTHER -> Rejected(s)     \* no room in the table, or no quality

HandlePubrel_KeepsEntry(s, p) ==
    [Handled(s, <<IdPacket("pubcomp", p.id)>>)
        EXCEPT !.deliver = {[m |-> e.m, retain |-> e.retain] : e \in {x \in s.inc : x.id = p.id}}]

HandlePubrel(s, p) ==
    LET mine == {e \in s.inc : e.id = p.id}
    IN  [Handled([s EXCEPT !.inc = @ \ mine], <<IdPacket("pubcomp", p.id)>>)
            EXCEPT !.deliver = {[m |-> e.m, retain |-> e.retain] : e \in mine}]

HandleAck(s, p, expected) ==
    LET found == {i \in FindOutgoing(s, p.id) : s.out[i].state = expected}
        i == CHOOSE j \in found : TRUE
    IN  CASE found = {} -> Rejected(s)
          [] found # {} /\ p.type = "pubrec" ->
                Handled([s EXCEPT !.out[i].state = "await_pubcomp"], <<IdPacket("pubrel", p.id)>>)
          [] found # {} /\ p.type # "pubrec" ->
                [Handled([s EXCEPT !.out[i] = Free], <<>>) EXCEPT !.acked = {s.out[i].m}]

HandleRequestAck(s, p, type) ==
    LET r == [id |-> p.id, type |-> type]
    IN  IF r \in s.req THEN Handled([s EXCEPT !.req = @ \ {r}], <<>>) ELSE Rejected(s)

HandlePingresp(s) == IF s.ping THEN Handled([s EXCEPT !.ping = FALSE], <<>>) ELSE Rejected(s)

HandlePacket(s, p) ==
    CASE p.type = "connack"  -> HandleConnack(s, p)
      [] p.type = "publish"  -> HandlePublish(s, p)
      [] p.type = "puback"   -> HandleAck(s, p, "await_puback")
      [] p.type = "pubrec"   -> HandleAck(s, p, "await_pubrec")
      [] p.type = "pubcomp"  -> HandleAck(s, p, "await_pubcomp")
      [] p.type = "pubrel"   -> HandlePubrel(s, p)
      [] p.type = "suback"   -> HandleRequestAck(s, p, "subscribe")
      [] p.type = "unsuback" -> HandleRequestAck(s, p, "unsubscribe")
      [] p.type = "pingresp" -> HandlePingresp(s)
      [] OTHER -> Rejected(s)

(* The applications' view after client c handled packet p with result r.    *)
(* Deliveries of a retained copy and of wills are not counted.              *)
Misled(s, p) ==
    \/ p.type = "connack" /\ p.present /\ ~s.clean /\ s.inc # {}
    \/ p.type = "publish" /\ p.qos = 2 /\ s.phase = "acked" /\ ~(s.present /\ ~s.clean)

Heard(r, m) == Cardinality({d \in r.deliver : d.m = m /\ d.retain # "copy"})

Observed(c, r, p) ==
    [app EXCEPT
       !.got = [d \in Clients |-> [m \in Messages |-> @[d][m] + IF d = c THEN Heard(r, m) ELSE 0]],
       !.done = @ \cup r.acked,
       !.stale = @ \/ Misled(cli[c], p),
       !.error = @ \/ (~r.ok /\ p.type # "connack")]

(* A received packet; a rejected one is fatal and closes the connection. *)
ClientReceive(c) ==
    LET s == cli[c]
        k == s.conn
        p == Head(wire[k].down)
        r == HandlePacket(s, p)
    IN  /\ k # 0 /\ wire[k].down # <<>>
        /\ app' = Observed(c, r, p)
        /\ \/ /\ r.ok
              /\ cli' = [cli EXCEPT ![c] = r.s]
              /\ wire' = IF r.send = <<>> THEN ReceiveDown(wire, k)
                         ELSE SendUp(ReceiveDown(wire, k), k, r.send[1])
           \/ /\ ~r.ok
              /\ ForceClose(c)

(* The callback for a message that came with CONNACK calls publish(): the   *)
(* packet is handled inside connect(), which resends or forgets the new     *)
(* entry together with the old ones when it returns.  (In poll() the same   *)
(* call is Publish followed by ClientReceive.)                              *)
CallbackPublishes(c) ==
    LET s == cli[c]
        k == s.conn
        p == Head(wire[k].down)
        r == HandlePacket(Entering(s), p)
    IN  /\ s.phase = "acked" /\ wire[k].down # <<>>
        /\ CanPublish(s) /\ r.deliver # {}
        /\ cli' = [cli EXCEPT ![c] = r.s]
        /\ wire' = SendAllUp(ReceiveDown(wire, k), k,
                            <<PublishPacket(NextEntry(s), FALSE)>> \o r.send)
        /\ app' = [Observed(c, r, p) EXCEPT !.sent = @ + 1, !.nested = TRUE]

(* The peer is gone: the transport closes itself and poll() only clears     *)
(* connected_, where connect() goes through force_close().                  *)
ClientEof(c) ==
    LET s == cli[c] IN
    /\ s.conn # 0 /\ s.phase # "acked"
    /\ EofAtClient(wire, s.conn)
    /\ \/ /\ s.phase = "wait"
          /\ ForceClose(c)
       \/ /\ s.phase = "idle"
          /\ cli' = [cli EXCEPT ![c].conn = 0, ![c].connected = FALSE]
          /\ wire' = ClientHangsUp(wire, s.conn)
    /\ UNCHANGED app

ClientNext(c) ==
    \/ Connect(c)
    \/ ConnectFails(c)
    \/ ConnectTimesOut(c)
    \/ ConnectReturns(c)
    \/ Publish(c)
    \/ Subscribe(c)
    \/ Unsubscribe(c)
    \/ CallFails(c)
    \/ Disconnect(c)
    \/ Abort(c)
    \/ Ping(c)
    \/ PingTimesOut(c)
    \/ ClientReceive(c)
    \/ CallbackPublishes(c)
    \/ ClientEof(c)
=============================================================================
