------------------------------ MODULE MqttSystem ------------------------------
(* MQTT clients and the broker, joined by connections that may be cut.      *)
EXTENDS MqttClient, MqttBroker

vars == <<wire, listening, cli, app, broker, log>>

Init == WireInit /\ ClientInit /\ BrokerInit

Next ==
    \/ \E c \in Clients : ClientNext(c) /\ UNCHANGED <<listening, broker, log>>
    \/ BrokerNext /\ UNCHANGED <<cli, app>>
    \/ \E k \in Connections : Cut(k) /\ UNCHANGED <<cli, app, broker, log>>

(* The applications go on polling and connect() returns; the broker goes on *)
(* polling: it accepts, receives what arrives and closes what is marked.    *)
ClientPolls(c) ==
    /\ ClientReceive(c) \/ ConnectReturns(c) \/ ClientEof(c)
    /\ UNCHANGED <<listening, broker, log>>

BrokerPolls(i) ==
    /\ CloseSlot(i) \/ BrokerReceive(i) \/ BrokerEof(i)
    /\ UNCHANGED <<cli, app>>

(* Weak fairness of these two, with the enabling conditions written out. *)
ClientCan(c) ==
    LET s == cli[c] IN
    s.conn # 0 /\ (wire[s.conn].down # <<>> \/ s.phase = "acked" \/ EofAtClient(wire, s.conn))

BrokerCan(i) ==
    LET s == broker.slots[i] IN
    /\ s.conn # 0
    /\ s.closing \/ (~Overtaken(i) /\ (wire[s.conn].up # <<>> \/ EofAtBroker(wire, s.conn)))

Fairness ==
    /\ \A c \in Clients : []<>~ClientCan(c) \/ []<><<ClientPolls(c)>>_vars
    /\ WF_vars(Accept /\ UNCHANGED <<cli, app>>)
    /\ \A i \in Slots : []<>~BrokerCan(i) \/ []<><<BrokerPolls(i)>>_vars

Spec == Init /\ [][Next]_vars /\ Fairness

-----------------------------------------------------------------------------
Quality(m) == app.plan.pubs[m].qos
Published == 1..app.sent

(* A message published with QoS 2 is handed to the subscribers at most      *)
(* once, and reaches the callback of each of them at most once, whatever    *)
(* connections are cut and whatever is sent again.                          *)
AtMostOnce ==
    \A m \in Published :
        Quality(m) = 2 => log.fwd[m] <= 1 /\ \A c \in Clients : app.got[c][m] <= 1

(* When publish() of QoS 1 or 2 has been acknowledged, the broker has       *)
(* handed the message on.  A QoS 2 exchange that was resumed over a new     *)
(* connection is excepted: the broker forgets the half of it that it held.  *)
(* So is a client whose callback has called publish() inside connect():     *)
(* connect() may forget the entry while its acknowledgement is on the way,  *)
(* and that answers the next message with the same identifier.              *)
AckedIsForwarded ==
    app.nested \/ \A m \in app.done : log.fwd[m] > 0 \/ (Quality(m) = 2 /\ m \in app.resumed)

(* When the broker releases an outgoing message because the subscriber      *)
(* acknowledged it, the subscriber's callback has seen it.  Excepted are    *)
(* clients of which app.stale holds: one that resumed a session with QoS 2  *)
(* messages it had not released, as the broker counts identifiers from 1    *)
(* again and one of them hides a new message; and one that accepted a       *)
(* QoS 2 message in connect(), which then forgets what it accepted because  *)
(* the broker had reported no session.                                      *)
SettledIsDelivered ==
    app.stale \/ \A m \in log.settled \ {Will} : \E c \in Clients : app.got[c][m] > 0

(* Neither end ever rejects a packet of the other: no acknowledgement is    *)
(* unexpected and no table of QoS 2 messages is full (with the exceptions   *)
(* above: entries that nobody will release take up room).  Also excepted is *)
(* a client whose callback has called publish() inside connect(): connect() *)
(* forgets the new exchange or sends it a second time, and the answer that  *)
(* finds no exchange is an error.                                           *)
NoProtocolError == app.stale \/ app.nested \/ ~(app.error \/ log.error)

(* The will of a connection is published exactly once when the connection   *)
(* is lost, and never when the client has left with DISCONNECT.             *)
WillOnLossOnly ==
    \A k \in DOMAIN wire :
        /\ log.wills[k] <= 1
        /\ log.fate[k] = "left" => log.wills[k] = 0
        /\ log.fate[k] = "armed" /\ wire[k].broker = "closed" => log.wills[k] = 1

(* An exchange that is under way completes if the connection stays up.      *)
UnderWay(c, m) == \E i \in Used(cli[c].out) : cli[c].out[i].m = m
ExchangeCompletes ==
    \A c \in Clients, m \in Messages :
        (Ready(c) /\ UnderWay(c, m)) ~> (~UnderWay(c, m) \/ ~cli[c].connected)

(* ensure_session() says "Session is active; expiry starts when it          *)
(* disconnects": the session of a connected client exists and has no expiry *)
(* time.  Closing the slot that a client was taken over from breaks this.   *)
ExpiryWaitsForDisconnect ==
    \A i \in Slots : LET s == broker.slots[i] IN
        s.conn # 0 /\ s.id # NoOne /\ ~s.closing => broker.sess[s.id] = "active"
=============================================================================
