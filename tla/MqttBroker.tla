------------------------------ MODULE MqttBroker ------------------------------
(* castle_ext/protocols/mqtt/broker.hpp, basic_broker: one thread calls     *)
(* poll(), which prunes sessions, accepts one connection and then visits    *)
(* every client slot for one chunk of packets.  How packets of different    *)
(* connections interleave is up to the network; that every slot is visited  *)
(* once per poll is kept where it matters (see Overtaken).                  *)
(* The handlers are operators on the broker's tables, its connections and   *)
(* its log, gathered in one record (a "world").                             *)
EXTENDS MqttWire

CONSTANT MaxClients       \* template parameter: client slots, and sessions

ASSUME MqttBrokerAssumption == MaxClients \in Nat \ {0}

VARIABLES
    broker,   \* [slots, sess, subs, retained]
    log       \* history: what was forwarded, settled, and how connections ended

Slots == 1..MaxClients
NoOne == "no client"

NoOptions == [v5 |-> FALSE, clean |-> TRUE, expiry |-> FALSE, will |-> FALSE, keep |-> FALSE]

(* client_state{} of a slot that serves connection k (none when k = 0). *)
NewSlot(k) ==
    [conn |-> k, level |-> FALSE, id |-> NoOne, closing |-> FALSE, will |-> FALSE,
     opts |-> NoOptions, next |-> 0, inc |-> {}, out |-> {}]

BrokerInit ==
    /\ broker = [slots |-> [i \in Slots |-> NewSlot(0)],
                 sess |-> [c \in Clients |-> "none"], subs |-> [c \in Clients |-> {}],
                 retained |-> {}]
    /\ log = [fwd |-> [m \in Messages |-> 0], settled |-> {}, error |-> FALSE,
              fate |-> [k \in Connections |-> "live"], wills |-> [k \in Connections |-> 0]]

World == [b |-> broker, w |-> wire, log |-> log]

Send(x, i, p) == [x EXCEPT !.w = SendDown(@, x.b.slots[i].conn, p)]

-----------------------------------------------------------------------------
(* Sessions: "none", "active" (no expiry set) or "expiring" (expires_at set). *)
ClearSession(x, id) == [x EXCEPT !.b.sess[id] = "none", !.b.subs[id] = {}]

SessionsFull(x) == Cardinality({c \in Clients : x.b.sess[c] # "none"}) >= MaxClients

(* send_publish_to() to the client of slot s: its next identifier, the      *)
(* entry it gets in the table of outgoing messages, and the packet.         *)
NextIdentifier(s) ==
    LET busy == {e.id : e \in s.out}
    IN  After(s.next, Min({n \in 1..IdMax : After(s.next, n) \notin busy}))

Entered(s, m, q, r) ==
    LET e == [id |-> NextIdentifier(s), m |-> m, retain |-> r,
              state |-> IF q = 1 THEN "await_puback" ELSE "await_pubrec"]
    IN  IF q = 0 THEN s ELSE [s EXCEPT !.out = @ \cup {e}, !.next = e.id]

Publication(s, m, q, r) ==
    [type |-> "publish", id |-> IF q = 0 THEN 0 ELSE NextIdentifier(s), qos |-> q, retain |-> r,
     m |-> m, dup |-> FALSE]

(* Message m goes to the slots in the domain of q, with quality q[i].  One  *)
(* for a client whose outgoing table is full is dropped.                    *)
SendPublishTo(x, q, m, r) ==
    LET sent == {i \in DOMAIN q : q[i] = 0 \/ Cardinality(x.b.slots[i].out) < MaxOutstanding}
        at(k) == CHOOSE i \in sent : x.b.slots[i].conn = k
        slots == [i \in Slots |-> IF i \in sent THEN Entered(x.b.slots[i], m, q[i], r) ELSE x.b.slots[i]]
        wires == [k \in DOMAIN x.w |->
                    IF \E i \in sent : x.b.slots[i].conn = k
                    THEN WithDown(x.w[k], Publication(x.b.slots[at(k)], m, q[at(k)], r)) ELSE x.w[k]]
    IN  [x EXCEPT !.b.slots = slots, !.w = wires]

Lower(p, q) == IF p < q THEN p ELSE q

(* publish_message(): the retained copy first, then every connected client  *)
(* that is not about to be closed and has a subscription.                   *)
Recipients(x) ==
    {i \in Slots : LET s == x.b.slots[i] IN
        s.conn # 0 /\ s.id # NoOne /\ ~s.closing /\ x.b.subs[s.id] # {}}

PublishMessage(x, m, q, r) ==
    LET kept == CASE r = "no" -> x.b.retained
                  [] r = "store" -> {[m |-> m, qos |-> q]}
                  [] r = "clear" -> {}
        y == [x EXCEPT !.b.retained = kept]
        z == IF m = Will THEN y ELSE [y EXCEPT !.log.fwd[m] = @ + 1]
    IN  SendPublishTo(z, [i \in Recipients(x) |-> Lower(q, Max(x.b.subs[x.b.slots[i].id]))], m, "no")

-----------------------------------------------------------------------------
(* Handlers of received packets: the world after the packet.  A handler     *)
(* that fails marks the slot for closing.                                   *)
Closing(x, i) == [x EXCEPT !.b.slots[i].closing = TRUE]
Reject(x, i) == [Closing(x, i) EXCEPT !.log.error = TRUE]

TakeOver(x, i, id) ==
    [x EXCEPT
       !.b.slots = [j \in Slots |-> IF j # i /\ @[j].conn # 0 /\ @[j].id = id
                                    THEN [@[j] EXCEPT !.closing = TRUE, !.will = FALSE] ELSE @[j]],
       !.log.fate = [k \in Connections |->
            IF \E j \in Slots \ {i} : x.b.slots[j].conn = k /\ x.b.slots[j].id = id
            THEN "taken over" ELSE @[k]]]

Connack(ok, present) == [type |-> "connack", ok |-> ok, present |-> present]

HandleConnect(x, i, p) ==
    LET id == p.id
        o == p.opts
        present == ~o.clean /\ x.b.sess[id] # "none"
        y == [(IF o.clean THEN ClearSession(x, id) ELSE x) EXCEPT !.b.slots[i].level = TRUE]
        z == TakeOver([y EXCEPT !.b.sess[id] = "active"], i, id)
    IN  IF y.b.sess[id] = "none" /\ SessionsFull(y)
        THEN Closing(Send(y, i, Connack(FALSE, FALSE)), i)
        ELSE Send([z EXCEPT !.b.slots[i] = [@ EXCEPT !.id = id, !.opts = o, !.will = o.will],
                           !.log.fate[x.b.slots[i].conn] = IF o.will THEN "armed" ELSE @],
                  i, Connack(TRUE, present))

BHandlePublish(x, i, p) ==
    LET s == x.b.slots[i]
        known == \E e \in s.inc : e.id = p.id
    IN  CASE p.qos = 0 -> PublishMessage(x, p.m, p.qos, p.retain)
          [] p.qos = 1 -> Send(PublishMessage(x, p.m, p.qos, p.retain), i, IdPacket("puback", p.id))
          [] p.qos = 2 /\ known -> Send(x, i, IdPacket("pubrec", p.id))
          [] p.qos = 2 /\ ~known /\ Cardinality(s.inc) < MaxOutstanding ->
                Send([x EXCEPT !.b.slots[i].inc = @ \cup {[id |-> p.id, m |-> p.m, retain |-> p.retain]}],
                     i, IdPacket("pubrec", p.id))
          [] OTHER -> Reject(x, i)     \* no room in the table, or no quality

HandleClientPubrel_KnownOnly(x, i, p) ==
    LET mine == {e \in x.b.slots[i].inc : e.id = p.id}
        e == CHOOSE f \in mine : TRUE
        y == IF mine = {} THEN x ELSE PublishMessage(x, e.m, 2, e.retain)
    IN  IF mine = {} THEN x
        ELSE Send([y EXCEPT !.b.slots[i].inc = @ \ mine], i, IdPacket("pubcomp", p.id))

HandleClientPubrel(x, i, p) ==
    LET mine == {e \in x.b.slots[i].inc : e.id = p.id}
        e == CHOOSE f \in mine : TRUE
        y == IF mine = {} THEN x ELSE PublishMessage(x, e.m, 2, e.retain)
    IN  Send([y EXCEPT !.b.slots[i].inc = @ \ mine], i, IdPacket("pubcomp", p.id))

HandleClientAck_ReleasesEarly(x, i, p, expected) ==
    LET mine == {e \in x.b.slots[i].out : e.id = p.id}
        y == [x EXCEPT !.b.slots[i].out = @ \ mine, !.log.settled = @ \cup {e.m : e \in mine}]
    IN  IF p.type = "pubrec" THEN Send(y, i, IdPacket("pubrel", p.id)) ELSE y

HandleClientAck(x, i, p, expected) ==
    LET mine == {e \in x.b.slots[i].out : e.id = p.id /\ e.state = expected}
        next == {[e EXCEPT !.state = "await_pubcomp"] : e \in mine}
    IN  CASE mine = {} -> Reject(x, i)
          [] mine # {} /\ p.type = "pubrec" ->
                Send([x EXCEPT !.b.slots[i].out = (@ \ mine) \cup next], i, IdPacket("pubrel", p.id))
          [] mine # {} /\ p.type # "pubrec" ->
                [x EXCEPT !.b.slots[i].out = @ \ mine, !.log.settled = @ \cup {e.m : e \in {f \in mine : f.retain # "copy"}}]

HandleSubscribe(x, i, p) ==
    LET y == Send([x EXCEPT !.b.subs[x.b.slots[i].id] = {p.qos}], i, IdPacket("suback", p.id))
        r == CHOOSE e \in x.b.retained : TRUE
    IN  IF x.b.retained = {} THEN y
        ELSE SendPublishTo(y, [j \in {i} |-> Lower(r.qos, p.qos)], r.m, "copy")

HandleUnsubscribe(x, i, p) ==
    Send([x EXCEPT !.b.subs[x.b.slots[i].id] = {}], i, IdPacket("unsuback", p.id))

HandleDisconnect_KeepsWill(x, i) ==
    [Closing(x, i) EXCEPT !.log.fate[x.b.slots[i].conn] = "left"]

HandleDisconnect(x, i) ==
    [Closing(x, i) EXCEPT !.b.slots[i].will = FALSE, !.log.fate[x.b.slots[i].conn] = "left"]

BHandlePacket(x, i, p) ==
    CASE x.b.slots[i].level = (p.type = "connect") -> Reject(x, i)
      [] ~x.b.slots[i].level /\ p.type = "connect" -> HandleConnect(x, i, p)
      [] x.b.slots[i].level /\ p.type # "connect" ->
         CASE p.type = "publish"     -> BHandlePublish(x, i, p)
           [] p.type = "puback"      -> HandleClientAck(x, i, p, "await_puback")
           [] p.type = "pubrec"      -> HandleClientAck(x, i, p, "await_pubrec")
           [] p.type = "pubcomp"     -> HandleClientAck(x, i, p, "await_pubcomp")
           [] p.type = "pubrel"      -> HandleClientPubrel(x, i, p)
           [] p.type = "subscribe"   -> HandleSubscribe(x, i, p)
           [] p.type = "unsubscribe" -> HandleUnsubscribe(x, i, p)
           [] p.type = "pingreq"     -> Send(x, i, [type |-> "pingresp"])
           [] p.type = "disconnect"  -> HandleDisconnect(x, i)
           [] OTHER                  -> Reject(x, i)

-----------------------------------------------------------------------------
(* The end of a visit: a slot that is closing publishes its will if that is *)
(* pending, gives up or keeps its session, and hangs up.                    *)
PublishWill(x, i) ==
    LET s == x.b.slots[i] IN
    IF s.opts.will /\ s.will
    THEN [PublishMessage(x, Will, 0, "no") EXCEPT !.log.wills[s.conn] = @ + 1] ELSE x

CloseState(x, i) ==
    LET s == x.b.slots[i]
        keep == IF s.opts.v5 THEN s.opts.expiry ELSE ~s.opts.clean
    IN  CASE s.id = NoOne -> x
          [] s.id # NoOne /\ ~keep -> ClearSession(x, s.id)
          [] s.id # NoOne /\ keep /\ x.b.sess[s.id] = "none" -> x
          [] s.id # NoOne /\ keep /\ x.b.sess[s.id] # "none" ->
                [x EXCEPT !.b.sess[s.id] = IF s.opts.expiry THEN "expiring" ELSE "active"]

HungUp(x, i) == [x EXCEPT !.w = BrokerHangsUp(@, x.b.slots[i].conn), !.b.slots[i] = NewSlot(0)]

EndVisit(x, i) ==
    LET y == IF x.b.slots[i].closing THEN HungUp(CloseState(PublishWill(x, i), i), i) ELSE x
    IN  /\ broker' = y.b
        /\ wire' = y.w
        /\ log' = y.log
        /\ UNCHANGED listening

Serving(i) == broker.slots[i].conn # 0

(* A slot that took over a client is not visited again before the slot it   *)
(* took the client from has been visited, and closed.                       *)
Overtaken(i) ==
    \E j \in Slots \ {i} : /\ Serving(j) /\ broker.slots[j].closing
                           /\ broker.slots[j].id = broker.slots[i].id

Expired(x, i) == [Closing(x, i) EXCEPT !.b.slots[i].will = TRUE]

(* The keep-alive deadline of the client has passed; this is looked at      *)
(* before the closing mark.                                                 *)
KeepAliveExpires(i) ==
    /\ Serving(i) /\ broker.slots[i].opts.keep
    /\ EndVisit(Expired(World, i), i)

CloseSlot(i) ==
    /\ Serving(i) /\ broker.slots[i].closing
    /\ EndVisit(World, i)

BrokerReceive(i) ==
    LET k == broker.slots[i].conn
        x == [World EXCEPT !.w = ReceiveUp(@, k)]
    IN  /\ Serving(i) /\ ~broker.slots[i].closing /\ ~Overtaken(i)
        /\ wire[k].up # <<>>
        /\ EndVisit(BHandlePacket(x, i, Head(wire[k].up)), i)

BrokerEof(i) ==
    /\ Serving(i) /\ ~broker.slots[i].closing /\ ~Overtaken(i)
    /\ EofAtBroker(wire, broker.slots[i].conn)
    /\ EndVisit(Expired(World, i), i)

(* prune_sessions(): the expiry time of a session has passed. *)
Prune(c) ==
    /\ listening /\ broker.sess[c] = "expiring"
    /\ broker' = ClearSession(World, c).b
    /\ UNCHANGED <<wire, listening, log>>

(* accept_client() takes the first waiting connection into the first free slot. *)
Accept ==
    LET waiting == {k \in DOMAIN wire : wire[k].broker = "backlog"}
        free == {i \in Slots : ~Serving(i)}
    IN  /\ listening /\ waiting # {} /\ free # {}
        /\ broker' = [broker EXCEPT !.slots[Min(free)] = NewSlot(Min(waiting))]
        /\ wire' = [wire EXCEPT ![Min(waiting)].broker = "open"]
        /\ UNCHANGED <<listening, log>>

(* close() between polls: connections end without wills, sessions stay.     *)
BrokerCloses ==
    /\ listening
    /\ listening' = FALSE
    /\ broker' = [broker EXCEPT !.slots = [i \in Slots |-> NewSlot(0)]]
    /\ wire' = [k \in DOMAIN wire |-> BrokerHangsUp(wire, k)[k]]
    /\ log' = [log EXCEPT !.fate = [k \in Connections |->
                  IF k \in DOMAIN wire /\ wire[k].broker # "closed" THEN "shut down" ELSE @[k]]]

BrokerOpens ==
    /\ ~listening
    /\ listening' = TRUE
    /\ UNCHANGED <<wire, broker, log>>

BrokerNext ==
    \/ Accept
    \/ \E c \in Clients : Prune(c)
    \/ \E i \in Slots : KeepAliveExpires(i) \/ CloseSlot(i) \/ BrokerReceive(i) \/ BrokerEof(i)
    \/ BrokerCloses
    \/ BrokerOpens
=============================================================================
