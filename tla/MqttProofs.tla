------------------------------ MODULE MqttProofs ------------------------------
(* Proofs about MqttSystem: when the broker publishes the will of a         *)
(* connection, and that it handed on a message before the publisher sees    *)
(* the acknowledgement.                                                     *)
EXTENDS MqttSystem, SequenceTheorems, FiniteSetTheorems, FunctionTheorems, WellFoundedInduction, TLAPS

(* The fields that matter here exist. *)
IsWire(w) ==
    /\ \E n \in 0 .. MaxConnections : DOMAIN w = 1 .. n
    /\ w = [k \in DOMAIN w |-> w[k]]
    /\ \A k \in DOMAIN w : "broker" \in DOMAIN w[k]

IsSlot(s) ==
    /\ {"conn", "level", "closing", "will", "opts", "id", "inc", "out", "next"} \subseteq DOMAIN s
    /\ s.level \in BOOLEAN

IsWorld(x) ==
    /\ {"b", "w", "log"} \subseteq DOMAIN x /\ {"slots", "sess", "subs", "retained"} \subseteq DOMAIN x.b
    /\ {"fate", "wills", "fwd", "settled", "error"} \subseteq DOMAIN x.log
    /\ x.b.slots = [i \in Slots |-> x.b.slots[i]] /\ \A i \in Slots : IsSlot(x.b.slots[i])
    /\ IsWire(x.w)
    /\ x.log.fate = [k \in Connections |-> x.log.fate[k]]
    /\ x.log.wills \in [Connections -> Nat]

(* The fields of a slot that decide on its will. *)
SameSlot(s, t) ==
    /\ t.conn = s.conn /\ t.level = s.level /\ t.id = s.id
    /\ t.closing = s.closing /\ t.will = s.will /\ t.opts = s.opts

(* The broker's ends of the connections are the same. *)
SameEnds(v, w) == DOMAIN w = DOMAIN v /\ \A k \in DOMAIN v : w[k].broker = v[k].broker

(* Nothing that decides on a will has changed from world x to y. *)
Quiet(x, y) ==
    /\ IsWorld(y) /\ SameEnds(x.w, y.w)
    /\ \A i \in Slots : SameSlot(x.b.slots[i], y.b.slots[i])
    /\ y.log.fate = x.log.fate /\ y.log.wills = x.log.wills

-----------------------------------------------------------------------------
(* The inductive invariant, of a world x *)

(* Slot s serves an open connection, of which no will is published.  If     *)
(* that connection has a will, the slot holds it; a client that left has    *)
(* closed the slot and withdrawn its will.                                  *)
HoldsWill(s) == s.level /\ s.opts.will /\ s.will
Withdrawn(s) == s.closing /\ ~s.will

Served(x, s) ==
    s.conn # 0 =>
        /\ s.conn \in DOMAIN x.w /\ x.w[s.conn].broker = "open" /\ x.log.wills[s.conn] = 0
        /\ x.log.fate[s.conn] = "armed" => HoldsWill(s)
        /\ x.log.fate[s.conn] = "left" => Withdrawn(s)

(* Each connection has one slot. *)
OneSlot(x) ==
    \A i, j \in Slots :
        x.b.slots[i].conn = x.b.slots[j].conn => i = j \/ x.b.slots[i].conn = 0

(* Nothing has happened to a connection that was not accepted, and a closed *)
(* one had its will published if it was lost.                               *)
Ends(x) ==
    \A k \in Connections :
        /\ k \notin DOMAIN x.w \/ x.w[k].broker = "backlog" =>
               x.log.fate[k] = "live" /\ x.log.wills[k] = 0
        /\ x.log.wills[k] <= 1
        /\ x.log.fate[k] = "left" => x.log.wills[k] = 0
        /\ k \in DOMAIN x.w /\ x.w[k].broker = "closed" /\ x.log.fate[k] = "armed" =>
               x.log.wills[k] = 1

(* While the broker visits a slot, and between visits: then no client that  *)
(* left has a slot.                                                         *)
Visiting(x) ==
    IsWorld(x) /\ (\A i \in Slots : Served(x, x.b.slots[i])) /\ OneSlot(x) /\ Ends(x)

Gone(x, i) == x.b.slots[i].conn # 0 /\ x.log.fate[x.b.slots[i].conn] = "left"

Settling(x, i) == Visiting(x) /\ x.b.slots[i].conn # 0 /\ \A j \in Slots \ {i} : ~Gone(x, j)

Steady(x) == Visiting(x) /\ \A i \in Slots : ~Gone(x, i)

WillInv == Steady(World)

-----------------------------------------------------------------------------
(* Connections *)

LEMMA UpdateKeepsEnds ==
  ASSUME NEW w, IsWire(w), NEW k, NEW v,
         k \in DOMAIN w => "broker" \in DOMAIN v /\ v.broker = w[k].broker
  PROVE  IsWire(Update(w, k, v)) /\ SameEnds(w, Update(w, k, v))
BY DEF IsWire, SameEnds, Update

LEMMA UpSideKeepsEnds ==
  ASSUME NEW w, IsWire(w), NEW k, NEW p
  PROVE  /\ IsWire(SendUp(w, k, p)) /\ SameEnds(w, SendUp(w, k, p))
         /\ IsWire(SendAllUp(w, k, p)) /\ SameEnds(w, SendAllUp(w, k, p))
         /\ IsWire(ReceiveUp(w, k)) /\ SameEnds(w, ReceiveUp(w, k))
<1>1. IsWire(SendUp(w, k, p)) /\ SameEnds(w, SendUp(w, k, p))
  BY DEF IsWire, SameEnds, SendUp
<1>2. IsWire(SendAllUp(w, k, p)) /\ SameEnds(w, SendAllUp(w, k, p))
  BY DEF IsWire, SameEnds, SendAllUp
<1>3. IsWire(ReceiveUp(w, k)) /\ SameEnds(w, ReceiveUp(w, k))
  BY DEF IsWire, SameEnds, ReceiveUp
<1>4. QED BY <1>1, <1>2, <1>3

LEMMA DownSideKeepsEnds ==
  ASSUME NEW w, IsWire(w), NEW k, NEW p
  PROVE  /\ IsWire(SendDown(w, k, p)) /\ SameEnds(w, SendDown(w, k, p))
         /\ IsWire(ReceiveDown(w, k)) /\ SameEnds(w, ReceiveDown(w, k))
         /\ IsWire(ClientHangsUp(w, k)) /\ SameEnds(w, ClientHangsUp(w, k))
<1>1. k \in DOMAIN w => "broker" \in DOMAIN WithDown(w[k], p) /\ WithDown(w[k], p).broker = w[k].broker
  BY DEF IsWire, WithDown
<1>2. IsWire(SendDown(w, k, p)) /\ SameEnds(w, SendDown(w, k, p))
  BY <1>1, UpdateKeepsEnds DEF SendDown
<1>3. IsWire(ReceiveDown(w, k)) /\ SameEnds(w, ReceiveDown(w, k))
  BY DEF IsWire, SameEnds, ReceiveDown
<1>4. IsWire(ClientHangsUp(w, k)) /\ SameEnds(w, ClientHangsUp(w, k))
  BY DEF IsWire, SameEnds, ClientHangsUp
<1>5. QED BY <1>2, <1>3, <1>4

(* A wire is a sequence, and a client that dials makes it longer by one     *)
(* connection in the backlog.                                               *)
LEMMA DialAdds ==
  ASSUME NEW w, IsWire(w), Len(w) < MaxConnections
  PROVE  /\ IsWire(Dial(w)) /\ DOMAIN Dial(w) = DOMAIN w \cup {Len(w) + 1} /\ Len(w) + 1 \notin DOMAIN w
         /\ \A k \in DOMAIN w : Dial(w)[k] = w[k]
         /\ Dial(w)[Len(w) + 1].broker = "backlog" /\ Dial(w)[Len(w) + 1] = Dialled /\ Len(w) \in Nat
<1>1. PICK n \in 0 .. MaxConnections : DOMAIN w = 1 .. n
  BY DEF IsWire
<1> DEFINE S == {w[k] : k \in 1 .. n}
<1>2. w \in Seq(S) /\ Len(w) = n
  <2>1. w = [k \in 1 .. n |-> w[k]]
    BY <1>1 DEF IsWire
  <2>2. QED BY <2>1
<1>3. w \in Seq(S \cup {Dialled})
  BY <1>2
<1>4. /\ DOMAIN Dial(w) = 1 .. n + 1 /\ Dial(w) = [k \in 1 .. n + 1 |-> Dial(w)[k]]
      /\ \A k \in 1 .. n : Dial(w)[k] = w[k]
      /\ Dial(w)[n + 1] = Dialled
  <2> DEFINE T == S \cup {Dialled}
  <2>0. Dialled \in T
    OBVIOUS
  <2> HIDE DEF T
  <2>1. /\ Dial(w) \in Seq(T) /\ Len(Dial(w)) = n + 1
        /\ \A k \in 1 .. n : Dial(w)[k] = w[k]
        /\ Dial(w)[n + 1] = Dialled
    BY <1>2, <1>3, <2>0, AppendProperties DEF Dial, T
  <2>2. DOMAIN Dial(w) = 1 .. n + 1 /\ Dial(w) = [k \in 1 .. n + 1 |-> Dial(w)[k]]
    BY <2>1
  <2>3. QED BY <2>1, <2>2
<1>5. Dialled.broker = "backlog" /\ "broker" \in DOMAIN Dialled
  BY DEF Dialled
<1>6. n + 1 \in 0 .. MaxConnections /\ n \in Nat
  BY <1>1, <1>2, MqttWireAssumption
<1>7. \A k \in 1 .. n + 1 : "broker" \in DOMAIN Dial(w)[k]
  BY <1>1, <1>4, <1>5, <1>6, SMTT(30) DEF IsWire
<1>8. IsWire(Dial(w))
  BY <1>4, <1>6, <1>7 DEF IsWire
<1>9. 1 .. n + 1 = (1 .. n) \cup {n + 1} /\ n + 1 \notin 1 .. n
  BY <1>6
<1>10. QED BY <1>1, <1>2, <1>4, <1>5, <1>6, <1>8, <1>9

-----------------------------------------------------------------------------
(* What the broker's operators leave alone *)

LEMMA QuietRefl == ASSUME NEW x, IsWorld(x) PROVE Quiet(x, x)
BY DEF Quiet, SameEnds, SameSlot

LEMMA QuietTrans ==
  ASSUME NEW x, NEW y, NEW z, Quiet(x, y), Quiet(y, z)
  PROVE  Quiet(x, z)
BY DEF Quiet, SameEnds, SameSlot

LEMMA SendQuiet ==
  ASSUME NEW x, IsWorld(x), NEW i, NEW p
  PROVE  Quiet(x, Send(x, i, p))
<1> DEFINE y == Send(x, i, p)
<1>1. y.w = SendDown(x.w, x.b.slots[i].conn, p) /\ y.b = x.b /\ y.log = x.log
      /\ {"b", "w", "log"} \subseteq DOMAIN y
  BY DEF Send, IsWorld
<1>2. IsWire(y.w) /\ SameEnds(x.w, y.w)
  BY <1>1, DownSideKeepsEnds DEF IsWorld
<1>3. QED BY <1>1, <1>2 DEF Quiet, IsWorld, SameSlot

(* A change of other fields of the broker, and of one slot's tables.        *)
LEMMA SessionQuiet ==
  ASSUME NEW x, IsWorld(x), NEW c, NEW v
  PROVE  /\ Quiet(x, ClearSession(x, c))
         /\ Quiet(x, [x EXCEPT !.b.sess[c] = v]) /\ Quiet(x, [x EXCEPT !.b.subs[c] = v])
         /\ Quiet(x, [x EXCEPT !.b.retained = v]) /\ Quiet(x, [x EXCEPT !.log.fwd[c] = @ + 1])
         /\ Quiet(x, [x EXCEPT !.log.settled = v])
<1>1. Quiet(x, ClearSession(x, c))
  BY DEF ClearSession, Quiet, IsWorld, SameSlot, SameEnds
<1>2. Quiet(x, [x EXCEPT !.b.sess[c] = v]) /\ Quiet(x, [x EXCEPT !.b.subs[c] = v])
  BY DEF Quiet, IsWorld, SameSlot, SameEnds
<1>3. Quiet(x, [x EXCEPT !.b.retained = v]) /\ Quiet(x, [x EXCEPT !.log.fwd[c] = @ + 1])
  BY DEF Quiet, IsWorld, SameSlot, SameEnds
<1>4. Quiet(x, [x EXCEPT !.log.settled = v])
  BY DEF Quiet, IsWorld, SameSlot, SameEnds
<1>5. QED BY <1>1, <1>2, <1>3, <1>4

LEMMA TablesQuiet ==
  ASSUME NEW x, IsWorld(x), NEW i \in Slots, NEW v, NEW u
  PROVE  /\ Quiet(x, [x EXCEPT !.b.slots[i].inc = v])
         /\ Quiet(x, [x EXCEPT !.b.slots[i].out = v])
         /\ Quiet(x, [x EXCEPT !.b.slots[i].out = v, !.log.settled = u])
<1>1. Quiet(x, [x EXCEPT !.b.slots[i].inc = v])
  BY DEF Quiet, IsWorld, IsSlot, SameSlot, SameEnds
<1>2. Quiet(x, [x EXCEPT !.b.slots[i].out = v])
  BY DEF Quiet, IsWorld, IsSlot, SameSlot, SameEnds
<1>3. Quiet(x, [x EXCEPT !.b.slots[i].out = v, !.log.settled = u])
  BY DEF Quiet, IsWorld, IsSlot, SameSlot, SameEnds
<1>4. QED BY <1>1, <1>2, <1>3

LEMMA EnteredSame ==
  ASSUME NEW s, IsSlot(s), NEW m, NEW q, NEW r
  PROVE  IsSlot(Entered(s, m, q, r)) /\ SameSlot(s, Entered(s, m, q, r))
<1>1. ASSUME NEW o, NEW n
      PROVE  IsSlot([s EXCEPT !.out = o, !.next = n]) /\ SameSlot(s, [s EXCEPT !.out = o, !.next = n])
  BY DEF IsSlot, SameSlot
<1>2. IsSlot(s) /\ SameSlot(s, s)
  BY DEF SameSlot
<1>3. QED BY Zenon, <1>1, <1>2 DEF Entered

LEMMA SendPublishToQuiet ==
  ASSUME NEW x, IsWorld(x), NEW q, NEW m, NEW r
  PROVE  Quiet(x, SendPublishTo(x, q, m, r))
<1> DEFINE sent == {i \in DOMAIN q : q[i] = 0 \/ Cardinality(x.b.slots[i].out) < MaxOutstanding}
           at(k) == CHOOSE i \in sent : x.b.slots[i].conn = k
           slots == [i \in Slots |-> IF i \in sent THEN Entered(x.b.slots[i], m, q[i], r) ELSE x.b.slots[i]]
           wires == [k \in DOMAIN x.w |->
                       IF \E i \in sent : x.b.slots[i].conn = k
                       THEN WithDown(x.w[k], Publication(x.b.slots[at(k)], m, q[at(k)], r)) ELSE x.w[k]]
           y == SendPublishTo(x, q, m, r)
<1>1. y = [x EXCEPT !.b.slots = slots, !.w = wires]
  BY DEF SendPublishTo
<1>2. \A i \in Slots : IsSlot(slots[i]) /\ SameSlot(x.b.slots[i], slots[i])
  <2>1. TAKE i \in Slots
  <2>2. IsSlot(x.b.slots[i]) /\ SameSlot(x.b.slots[i], x.b.slots[i])
    BY DEF IsWorld, SameSlot
  <2>3. QED BY <2>2, EnteredSame
<1>3. IsWire(wires) /\ SameEnds(x.w, wires)
  <2>1. ASSUME NEW k \in DOMAIN x.w, NEW p
        PROVE  "broker" \in DOMAIN WithDown(x.w[k], p) /\ WithDown(x.w[k], p).broker = x.w[k].broker
    BY DEF IsWorld, IsWire, WithDown
  <2>2. \A k \in DOMAIN x.w : "broker" \in DOMAIN wires[k] /\ wires[k].broker = x.w[k].broker
    BY <2>1 DEF IsWorld, IsWire
  <2>3. QED BY <2>2, ZenonT(60) DEF IsWorld, IsWire, SameEnds
<1> HIDE DEF slots, wires
<1>4. /\ y.b.slots = slots /\ y.w = wires /\ y.log = x.log
      /\ {"b", "w", "log"} \subseteq DOMAIN y /\ {"slots", "sess", "subs", "retained"} \subseteq DOMAIN y.b
  BY <1>1 DEF IsWorld
<1>5. slots = [i \in Slots |-> slots[i]]
  BY DEF slots
<1>6. QED BY <1>2, <1>3, <1>4, <1>5 DEF Quiet, IsWorld

LEMMA PublishMessageQuiet ==
  ASSUME NEW x, IsWorld(x), NEW m, NEW q, NEW r
  PROVE  Quiet(x, PublishMessage(x, m, q, r))
<1> DEFINE kept == CASE r = "no" -> x.b.retained
                     [] r = "store" -> {[m |-> m, qos |-> q]}
                     [] r = "clear" -> {}
           y == [x EXCEPT !.b.retained = kept]
           z == IF m = Will THEN y ELSE [y EXCEPT !.log.fwd[m] = @ + 1]
           to == [i \in Recipients(x) |-> Lower(q, Max(x.b.subs[x.b.slots[i].id]))]
<1> HIDE DEF kept
<1>1. Quiet(x, y)
  BY SessionQuiet
<1> HIDE DEF y
<1>2. Quiet(y, z)
  BY <1>1, QuietRefl, SessionQuiet DEF Quiet
<1> HIDE DEF z
<1>3. PublishMessage(x, m, q, r) = SendPublishTo(z, to, m, "no")
  BY DEF PublishMessage, kept, y, z
<1> HIDE DEF to
<1>4. Quiet(z, SendPublishTo(z, to, m, "no"))
  BY <1>2, SendPublishToQuiet DEF Quiet
<1>5. QED BY <1>1, <1>2, <1>3, <1>4, QuietTrans

LEMMA CloseStateQuiet ==
  ASSUME NEW x, IsWorld(x), NEW i \in Slots
  PROVE  Quiet(x, CloseState(x, i))
BY QuietRefl, SessionQuiet DEF CloseState

(* Handlers that touch neither the closing mark nor the will. *)
LEMMA PubrelQuiet ==
  ASSUME NEW x, IsWorld(x), NEW i \in Slots, NEW p
  PROVE  Quiet(x, HandleClientPubrel(x, i, p))
<1> DEFINE mine == {e \in x.b.slots[i].inc : e.id = p.id}
           e == CHOOSE f \in mine : TRUE
           y == IF mine = {} THEN x ELSE PublishMessage(x, e.m, 2, e.retain)
           rest == y.b.slots[i].inc \ mine
           z == [y EXCEPT !.b.slots[i].inc = rest]
<1>1. Quiet(x, y)
  BY QuietRefl, PublishMessageQuiet
<1>2. HandleClientPubrel(x, i, p) = Send(z, i, IdPacket("pubcomp", p.id))
  BY DEF HandleClientPubrel
<1> HIDE DEF y, rest
<1>3. Quiet(y, z)
  BY <1>1, TablesQuiet, ZenonT(60) DEF Quiet
<1> HIDE DEF z
<1>4. Quiet(z, Send(z, i, IdPacket("pubcomp", p.id)))
  BY <1>3, SendQuiet DEF Quiet
<1>5. QED BY <1>1, <1>2, <1>3, <1>4, QuietTrans

LEMMA SubscribeQuiet ==
  ASSUME NEW x, IsWorld(x), NEW i \in Slots, NEW p
  PROVE  Quiet(x, HandleSubscribe(x, i, p)) /\ Quiet(x, HandleUnsubscribe(x, i, p))
<1> DEFINE id == x.b.slots[i].id
           s == [x EXCEPT !.b.subs[id] = {p.qos}]
           u == [x EXCEPT !.b.subs[id] = {}]
           y == Send(s, i, IdPacket("suback", p.id))
           r == CHOOSE e \in x.b.retained : TRUE
           z == SendPublishTo(y, [j \in {i} |-> Lower(r.qos, p.qos)], r.m, "copy")
<1>1. Quiet(x, s) /\ Quiet(x, u)
  BY SessionQuiet
<1> HIDE DEF s, u
<1>2. Quiet(s, y) /\ Quiet(u, Send(u, i, IdPacket("unsuback", p.id)))
  BY <1>1, SendQuiet DEF Quiet
<1> HIDE DEF y
<1>3. Quiet(y, z)
  BY <1>2, SendPublishToQuiet DEF Quiet
<1> HIDE DEF z
<1>4. HandleSubscribe(x, i, p) = IF x.b.retained = {} THEN y ELSE z
  BY DEF HandleSubscribe, s, y, z
<1>5. HandleUnsubscribe(x, i, p) = Send(u, i, IdPacket("unsuback", p.id))
  BY DEF HandleUnsubscribe, u
<1>6. QED BY <1>1, <1>2, <1>3, <1>4, <1>5, QuietTrans

LEMMA AckQuiet ==
  ASSUME NEW x, IsWorld(x), NEW i \in Slots, NEW p, NEW expected
  PROVE  \/ HandleClientAck(x, i, p, expected) = Reject(x, i)
         \/ Quiet(x, HandleClientAck(x, i, p, expected))
<1> DEFINE mine == {e \in x.b.slots[i].out : e.id = p.id /\ e.state = expected}
           next == {[e EXCEPT !.state = "await_pubcomp"] : e \in mine}
           y == [x EXCEPT !.b.slots[i].out = (@ \ mine) \cup next]
           z == [x EXCEPT !.b.slots[i].out = @ \ mine,
                          !.log.settled = @ \cup {e.m : e \in {f \in mine : f.retain # "copy"}}]
<1>1. Quiet(x, y) /\ Quiet(x, z)
  BY Zenon, TablesQuiet
<1>2. HandleClientAck(x, i, p, expected)
        \in {Reject(x, i), Send(y, i, IdPacket("pubrel", p.id)), z}
  BY DEF HandleClientAck
<1> HIDE DEF y, z
<1>3. Quiet(y, Send(y, i, IdPacket("pubrel", p.id)))
  BY <1>1, SendQuiet DEF Quiet
<1>4. QED BY <1>1, <1>2, <1>3, QuietTrans

LEMMA PublishQuiet ==
  ASSUME NEW x, IsWorld(x), NEW i \in Slots, NEW p
  PROVE  \/ BHandlePublish(x, i, p) = Reject(x, i)
         \/ Quiet(x, BHandlePublish(x, i, p))
<1> DEFINE y == PublishMessage(x, p.m, p.qos, p.retain)
           z == [x EXCEPT !.b.slots[i].inc = @ \cup {[id |-> p.id, m |-> p.m, retain |-> p.retain]}]
<1>1. Quiet(x, y) /\ Quiet(x, z)
  BY Zenon, PublishMessageQuiet, TablesQuiet
<1>2. BHandlePublish(x, i, p) \in {y, Send(y, i, IdPacket("puback", p.id)), Send(x, i, IdPacket("pubrec", p.id)),
                                  Send(z, i, IdPacket("pubrec", p.id)), Reject(x, i)}
  BY DEF BHandlePublish
<1> HIDE DEF y, z
<1>3. /\ Quiet(y, Send(y, i, IdPacket("puback", p.id))) /\ Quiet(x, Send(x, i, IdPacket("pubrec", p.id)))
      /\ Quiet(z, Send(z, i, IdPacket("pubrec", p.id)))
  BY <1>1, SendQuiet DEF Quiet
<1>4. QED BY <1>1, <1>2, <1>3, QuietTrans

-----------------------------------------------------------------------------
(* What a visit does to the invariant *)

LEMMA SameWill ==
  ASSUME NEW s, NEW t, SameSlot(s, t)
  PROVE  t.conn = s.conn /\ (HoldsWill(s) => HoldsWill(t)) /\ (Withdrawn(s) => Withdrawn(t))
BY Zenon DEF SameSlot, HoldsWill, Withdrawn

LEMMA WireDomain ==
  ASSUME NEW x, IsWorld(x)
  PROVE  DOMAIN x.w \subseteq Connections /\ 0 \notin Connections
BY MqttWireAssumption DEF IsWorld, IsWire, Connections

LEMMA QuietKeeps ==
  ASSUME NEW x, NEW y, Visiting(x), Quiet(x, y)
  PROVE  Visiting(y) /\ \A i \in Slots : Gone(y, i) => Gone(x, i)
<1>1. \A i \in Slots :
          /\ y.b.slots[i].conn = x.b.slots[i].conn
          /\ HoldsWill(x.b.slots[i]) => HoldsWill(y.b.slots[i])
          /\ Withdrawn(x.b.slots[i]) => Withdrawn(y.b.slots[i])
  BY SameWill DEF Quiet
<1>2. \A i \in Slots : Gone(y, i) => Gone(x, i)
  BY <1>1 DEF Gone, Quiet
<1>3. OneSlot(y)
  BY <1>1 DEF OneSlot, Visiting
<1>4. Ends(y)
  BY DEF Ends, Visiting, Quiet, SameEnds
<1>5. ASSUME NEW i \in Slots
      PROVE  Served(y, y.b.slots[i])
  BY <1>1 DEF Served, Visiting, Quiet, SameEnds
<1>6. QED BY <1>2, <1>3, <1>4, <1>5 DEF Visiting, Quiet

(* Only the slot that is visited, and what is logged of its connection,     *)
(* has changed.                                                             *)
Changed(x, y, i, fate) ==
    /\ IsWorld(y) /\ y.w = x.w /\ y.log.wills = x.log.wills
    /\ \A j \in Slots \ {i} : y.b.slots[j] = x.b.slots[j]
    /\ y.b.slots[i].conn = x.b.slots[i].conn
    /\ y.log.fate = [x.log.fate EXCEPT ![x.b.slots[i].conn] = fate]

LEMMA ChangedKeeps ==
  ASSUME NEW x, NEW y, NEW i \in Slots, NEW fate, Settling(x, i), x.b.slots[i].conn # 0,
         Changed(x, y, i, fate), Served(y, y.b.slots[i])
  PROVE  Settling(y, i)
<1> DEFINE k == x.b.slots[i].conn
<1>1. k \in DOMAIN x.w /\ k \in Connections /\ x.w[k].broker = "open" /\ x.log.wills[k] = 0
  BY WireDomain DEF Settling, Visiting, Served
<1>2. \A j \in Slots : y.b.slots[j].conn = x.b.slots[j].conn
  BY DEF Changed
<1>3. OneSlot(y)
  BY <1>2 DEF OneSlot, Settling, Visiting
<1>4. \A n \in Connections \ {k} : y.log.fate[n] = x.log.fate[n]
  BY DEF Changed, Settling, Visiting, IsWorld
<1>5. Ends(y)
  BY <1>1, <1>4 DEF Ends, Changed, Settling, Visiting
<1>6. ASSUME NEW j \in Slots \ {i}
      PROVE  Served(y, y.b.slots[j]) /\ ~Gone(y, j)
  <2>1. y.b.slots[j] = x.b.slots[j] /\ x.b.slots[j].conn # k
    BY DEF Changed, Settling, Visiting, OneSlot
  <2>2. Served(x, x.b.slots[j]) /\ ~Gone(x, j)
    BY DEF Settling, Visiting
  <2>3. x.b.slots[j].conn # 0 => y.log.fate[x.b.slots[j].conn] = x.log.fate[x.b.slots[j].conn]
    BY <1>4, <2>1, <2>2, WireDomain DEF Served, Settling, Visiting
  <2>4. QED BY <2>1, <2>2, <2>3 DEF Served, Gone, Changed
<1>7. QED BY <1>3, <1>5, <1>6 DEF Settling, Visiting, Changed

LEMMA ClosingIs ==
  ASSUME NEW x, IsWorld(x), NEW i \in Slots
  PROVE  LET y == Closing(x, i)
             s == x.b.slots[i]
             t == y.b.slots[i]
         IN  /\ Changed(x, y, i, x.log.fate[s.conn]) /\ y.log = x.log
             /\ t.level = s.level /\ t.opts = s.opts /\ t.will = s.will /\ t.closing = TRUE /\ t.id = s.id
<1>1. x.log.fate = [x.log.fate EXCEPT ![x.b.slots[i].conn] = x.log.fate[x.b.slots[i].conn]]
  BY DEF IsWorld
<1>2. QED BY <1>1 DEF Closing, Changed, IsWorld, IsSlot

LEMMA ClosingKeeps ==
  ASSUME NEW x, NEW i \in Slots, Settling(x, i), x.b.slots[i].conn # 0
  PROVE  Settling(Closing(x, i), i)
<1> DEFINE y == Closing(x, i)
           s == x.b.slots[i]
           t == y.b.slots[i]
<1>1. /\ Changed(x, y, i, x.log.fate[s.conn]) /\ y.log = x.log
      /\ t.level = s.level /\ t.opts = s.opts /\ t.will = s.will /\ t.closing = TRUE
  BY ClosingIs DEF Settling, Visiting
<1>2. (HoldsWill(s) => HoldsWill(t)) /\ (Withdrawn(s) => Withdrawn(t))
  BY <1>1, Zenon DEF HoldsWill, Withdrawn
<1> HIDE DEF y
<1>3. Served(x, s)
  BY DEF Settling, Visiting
<1>4. Served(y, t)
  BY <1>1, <1>2, <1>3 DEF Served, Changed
<1>5. QED BY <1>1, <1>4, ChangedKeeps DEF y

LEMMA ErrorQuiet ==
  ASSUME NEW x, IsWorld(x)
  PROVE  Quiet(x, [x EXCEPT !.log.error = TRUE])
BY DEF Quiet, IsWorld, SameSlot, SameEnds

LEMMA QuietSettling ==
  ASSUME NEW x, NEW y, NEW i \in Slots, Settling(x, i), Quiet(x, y)
  PROVE  Settling(y, i)
BY QuietKeeps DEF Settling, Quiet, SameSlot

LEMMA RejectKeeps ==
  ASSUME NEW x, NEW i \in Slots, Settling(x, i), x.b.slots[i].conn # 0
  PROVE  Settling(Reject(x, i), i)
<1>1. Settling(Closing(x, i), i)
  BY ClosingKeeps
<1>2. Quiet(Closing(x, i), Reject(x, i))
  BY <1>1, ErrorQuiet DEF Reject, Settling, Visiting
<1>3. QED BY <1>1, <1>2, QuietSettling

Left(z, i, k) == [z EXCEPT !.b.slots[i].will = FALSE, !.log.fate[k] = "left"]

IsLeft(z, i, k, y) ==
    /\ IsWorld(y) /\ y.w = z.w /\ y.log.wills = z.log.wills
    /\ \A j \in Slots \ {i} : y.b.slots[j] = z.b.slots[j]
    /\ y.b.slots[i].conn = z.b.slots[i].conn /\ y.b.slots[i].closing = z.b.slots[i].closing
    /\ y.b.slots[i].will = FALSE
    /\ y.log.fate = [z.log.fate EXCEPT ![k] = "left"]

LEMMA LeftIs ==
  ASSUME NEW z, IsWorld(z), NEW i \in Slots, NEW k
  PROVE  IsLeft(z, i, k, Left(z, i, k))
<1> DEFINE y == Left(z, i, k)
<1>1. /\ y.w = z.w /\ y.b = [z.b EXCEPT !.slots[i].will = FALSE] /\ y.log = [z.log EXCEPT !.fate[k] = "left"]
      /\ {"b", "w", "log"} \subseteq DOMAIN y
  BY DEF IsWorld, Left
<1> HIDE DEF y
<1>2. /\ y.log.wills = z.log.wills /\ y.log.fate = [z.log.fate EXCEPT ![k] = "left"]
      /\ {"fate", "wills", "fwd", "settled", "error"} \subseteq DOMAIN y.log
          /\ y.log.fate = [n \in Connections |-> y.log.fate[n]]
  BY <1>1 DEF IsWorld
<1>3. y.b.slots = [z.b.slots EXCEPT ![i].will = FALSE] /\ {"slots", "sess", "subs", "retained"} \subseteq DOMAIN y.b
  BY <1>1 DEF IsWorld
<1>4. /\ y.b.slots = [j \in Slots |-> y.b.slots[j]] /\ \A j \in Slots : IsSlot(y.b.slots[j])
      /\ \A j \in Slots \ {i} : y.b.slots[j] = z.b.slots[j]
      /\ y.b.slots[i].conn = z.b.slots[i].conn /\ y.b.slots[i].closing = z.b.slots[i].closing
      /\ y.b.slots[i].will = FALSE
  BY <1>3 DEF IsWorld, IsSlot
<1>5. IsWorld(y)
  BY <1>1, <1>2, <1>3, <1>4 DEF IsWorld
<1>6. QED BY <1>1, <1>2, <1>4, <1>5 DEF y, IsLeft

(* DISCONNECT withdraws the will and closes the slot. *)
LEMMA DisconnectKeeps ==
  ASSUME NEW x, NEW i \in Slots, Settling(x, i), x.b.slots[i].conn # 0
  PROVE  Settling(HandleDisconnect(x, i), i)
<1> DEFINE y == HandleDisconnect(x, i)
           z == Closing(x, i)
           s == x.b.slots[i]
           t == y.b.slots[i]
<1>1. /\ Changed(x, z, i, x.log.fate[s.conn]) /\ z.log = x.log /\ z.b.slots[i].closing = TRUE
  BY ClosingIs DEF Settling, Visiting
<1> HIDE DEF z
<1>2. y = Left(z, i, s.conn)
  BY DEF HandleDisconnect, Left, z
<1>3. IsLeft(z, i, s.conn, y)
  BY <1>1, <1>2, LeftIs DEF Changed
<1> HIDE DEF y
<1>4. Changed(x, y, i, "left")
  BY <1>1, <1>3 DEF Changed, IsLeft
<1>5. Withdrawn(t)
  BY <1>1, <1>3, Zenon DEF Withdrawn, IsLeft
<1>6. /\ s.conn \in DOMAIN x.w /\ x.w[s.conn].broker = "open" /\ x.log.wills[s.conn] = 0
      /\ s.conn \in Connections
  BY WireDomain DEF Settling, Visiting, Served
<1>7. y.log.fate[s.conn] = "left"
  BY <1>4, <1>6 DEF Changed, Settling, Visiting, IsWorld
<1>8. Served(y, t)
  BY <1>4, <1>5, <1>6, <1>7 DEF Served, Changed
<1>9. QED BY <1>4, <1>8, ChangedKeeps DEF y
(* When a connection is lost the will is due, whatever was there before. *)
IsExpired(x, i, y) ==
    /\ Changed(x, y, i, x.log.fate[x.b.slots[i].conn]) /\ y.log = x.log
    /\ y.b.slots[i].level = x.b.slots[i].level /\ y.b.slots[i].opts = x.b.slots[i].opts
    /\ y.b.slots[i].will = TRUE

LEMMA ExpiredIs ==
  ASSUME NEW x, IsWorld(x), NEW i \in Slots
  PROVE  IsExpired(x, i, Expired(x, i))
<1> DEFINE y == Expired(x, i)
           z == Closing(x, i)
<1>1. /\ Changed(x, z, i, x.log.fate[x.b.slots[i].conn]) /\ z.log = x.log
      /\ z.b.slots[i].level = x.b.slots[i].level /\ z.b.slots[i].opts = x.b.slots[i].opts
  BY ClosingIs
<1> HIDE DEF z
<1>2. y = [z EXCEPT !.b.slots[i].will = TRUE]
  BY DEF Expired, z
<1>3. IsWorld(z)
  BY <1>1 DEF Changed
<1>4. /\ IsWorld(y) /\ y.w = z.w /\ y.log = z.log
      /\ \A j \in Slots \ {i} : y.b.slots[j] = z.b.slots[j]
      /\ y.b.slots[i].conn = z.b.slots[i].conn /\ y.b.slots[i].level = z.b.slots[i].level
      /\ y.b.slots[i].opts = z.b.slots[i].opts /\ y.b.slots[i].will = TRUE
  BY <1>2, <1>3, SMTT(30) DEF IsWorld, IsSlot
<1> HIDE DEF y
<1>5. Changed(x, y, i, x.log.fate[x.b.slots[i].conn])
  BY <1>1, <1>4 DEF Changed
<1>6. QED BY <1>1, <1>4, <1>5 DEF IsExpired, y

LEMMA ExpiredKeeps ==
  ASSUME NEW x, NEW i \in Slots, Steady(x), x.b.slots[i].conn # 0
  PROVE  Settling(Expired(x, i), i)
<1> DEFINE y == Expired(x, i)
           s == x.b.slots[i]
           t == y.b.slots[i]
<1>1. IsExpired(x, i, y)
  BY ExpiredIs DEF Steady, Visiting
<1>2. HoldsWill(s) => HoldsWill(t)
  BY <1>1, Zenon DEF HoldsWill, IsExpired
<1> HIDE DEF y
<1>3. Served(x, s) /\ ~Gone(x, i) /\ Settling(x, i)
  BY DEF Steady, Settling, Visiting
<1>4. Served(y, t)
  BY <1>1, <1>2, <1>3 DEF Served, Gone, Changed, IsExpired
<1>5. QED BY <1>1, <1>3, <1>4, ChangedKeeps DEF y, IsExpired

(* Connections that are taken over lose their will, and nothing else        *)
(* happens to the slot that takes over.                                     *)
Taken(x, i, id, k) == \E j \in Slots \ {i} : x.b.slots[j].conn = k /\ x.b.slots[j].id = id

IsTaken(x, i, id, y) ==
    /\ IsWorld(y) /\ y.w = x.w /\ y.log.wills = x.log.wills
    /\ \A j \in Slots : /\ y.b.slots[j].conn = x.b.slots[j].conn
                        /\ \/ j # i /\ x.b.slots[j].conn # 0 /\ x.b.slots[j].id = id
                           \/ y.b.slots[j] = x.b.slots[j]
    /\ \A k \in Connections :
          y.log.fate[k] = IF Taken(x, i, id, k) THEN "taken over" ELSE x.log.fate[k]

LEMMA TakeOverIs ==
  ASSUME NEW x, IsWorld(x), NEW i \in Slots, NEW id
  PROVE  IsTaken(x, i, id, TakeOver(x, i, id))
<1> DEFINE y == TakeOver(x, i, id)
           slots == [j \in Slots |-> IF j # i /\ x.b.slots[j].conn # 0 /\ x.b.slots[j].id = id
                                     THEN [x.b.slots[j] EXCEPT !.closing = TRUE, !.will = FALSE]
                                     ELSE x.b.slots[j]]
           fate == [k \in Connections |->
                      IF \E j \in Slots \ {i} : x.b.slots[j].conn = k /\ x.b.slots[j].id = id
                      THEN "taken over" ELSE x.log.fate[k]]
<1>1. y = [x EXCEPT !.b.slots = slots, !.log.fate = fate]
  BY DEF TakeOver, IsWorld
<1>2. \A j \in Slots : IsSlot(slots[j]) /\ slots[j].conn = x.b.slots[j].conn
  BY DEF IsWorld, IsSlot
<1>3. /\ slots = [j \in Slots |-> slots[j]]
      /\ \A j \in Slots : (j # i /\ x.b.slots[j].conn # 0 /\ x.b.slots[j].id = id) \/ slots[j] = x.b.slots[j]
  OBVIOUS
<1>4. /\ fate = [k \in Connections |-> fate[k]]
      /\ \A k \in Connections : fate[k] = IF Taken(x, i, id, k) THEN "taken over" ELSE x.log.fate[k]
  BY DEF Taken
<1> HIDE DEF slots, fate
<1>5. /\ y.w = x.w /\ y.log.wills = x.log.wills /\ y.b.slots = slots /\ y.log.fate = fate
      /\ {"b", "w", "log"} \subseteq DOMAIN y /\ {"slots", "sess", "subs", "retained"} \subseteq DOMAIN y.b
          /\ {"fate", "wills", "fwd", "settled", "error"} \subseteq DOMAIN y.log
  BY <1>1 DEF IsWorld
<1> HIDE DEF y
<1>6. IsWorld(y)
  BY Zenon, <1>2, <1>3, <1>4, <1>5 DEF IsWorld
<1>7. QED BY Zenon, <1>2, <1>3, <1>4, <1>5, <1>6 DEF y, IsTaken

LEMMA TakeOverKeeps ==
  ASSUME NEW x, NEW y, NEW i \in Slots, NEW id, Settling(x, i), x.b.slots[i].conn # 0, IsTaken(x, i, id, y)
  PROVE  /\ Settling(y, i) /\ y.b.slots[i] = x.b.slots[i]
         /\ y.log.fate[x.b.slots[i].conn] = x.log.fate[x.b.slots[i].conn]
<1>1. \A j \in Slots : x.b.slots[j].conn # 0 =>
        x.b.slots[j].conn \in DOMAIN x.w /\ x.w[x.b.slots[j].conn].broker = "open"
            /\ x.b.slots[j].conn \in Connections
  BY WireDomain DEF Settling, Visiting, Served
<1>2. \A j, n \in Slots : x.b.slots[j].conn = x.b.slots[n].conn => j = n \/ x.b.slots[j].conn = 0
  BY DEF Settling, Visiting, OneSlot
<1>3. OneSlot(y)
  <2>1. \A j \in Slots : y.b.slots[j].conn = x.b.slots[j].conn
    BY Zenon DEF IsTaken
  <2>2. QED BY <1>2, <2>1 DEF OneSlot
<1>4. y.b.slots[i] = x.b.slots[i]
  BY Zenon DEF IsTaken
<1>5. y.log.fate[x.b.slots[i].conn] = x.log.fate[x.b.slots[i].conn]
  BY Zenon, <1>1, <1>2 DEF IsTaken, Taken
<1>6. ASSUME NEW k \in Connections
      PROVE  y.log.fate[k] = x.log.fate[k]
             \/ (y.log.fate[k] = "taken over" /\ k \in DOMAIN x.w /\ x.w[k].broker = "open")
  <2>1. CASE Taken(x, i, id, k)
    <3>1. k # 0
      BY WireDomain DEF Settling, Visiting
    <3>2. k \in DOMAIN x.w /\ x.w[k].broker = "open"
      BY <1>1, <2>1, <3>1 DEF Taken
    <3>3. QED BY Zenon, <2>1, <3>2 DEF IsTaken
  <2>2. CASE ~Taken(x, i, id, k)
    BY Zenon, <2>2 DEF IsTaken
  <2>3. QED BY Zenon, <2>1, <2>2
<1>7. Ends(y)
  <2>1. y.w = x.w /\ y.log.wills = x.log.wills
    BY Zenon DEF IsTaken
  <2>2. QED BY Zenon, <1>6, <2>1 DEF Ends, Settling, Visiting
<1>8. ASSUME NEW j \in Slots
      PROVE  Served(y, y.b.slots[j]) /\ (j # i => ~Gone(y, j))
  <2> DEFINE k == x.b.slots[j].conn
  <2>1. Served(x, x.b.slots[j]) /\ (j # i => ~Gone(x, j)) /\ y.b.slots[j].conn = k
    BY Zenon DEF Settling, Visiting, IsTaken
  <2>2. CASE k = 0
    BY <2>1, <2>2 DEF Served, Gone
  <2>3. CASE k # 0 /\ j # i /\ x.b.slots[j].id = id
    <3>1. k \in Connections /\ y.log.fate[k] = "taken over"
      BY Zenon, <1>1, <2>3 DEF IsTaken, Taken
    <3>2. QED BY Zenon, <2>1, <3>1 DEF Served, Gone, IsTaken
  <2>4. CASE k # 0 /\ ~(j # i /\ x.b.slots[j].id = id)
    <3>1. y.b.slots[j] = x.b.slots[j]
      BY Zenon, <2>4 DEF IsTaken
    <3>2. k \in Connections /\ ~Taken(x, i, id, k)
      BY <1>1, <1>2, <2>4 DEF Taken
    <3>3. y.log.fate[k] = x.log.fate[k]
      BY Zenon, <3>2 DEF IsTaken
    <3>4. QED BY Zenon, <2>1, <3>1, <3>3 DEF Served, Gone, IsTaken
  <2>5. QED BY <2>2, <2>3, <2>4
<1>9. QED BY Zenon, <1>3, <1>4, <1>5, <1>7, <1>8 DEF Settling, Visiting, IsTaken

(* CONNECT is accepted once per connection. *)
Levelled(x, i) == [x EXCEPT !.b.slots[i].level = TRUE]

IsLevelled(x, i, y) ==
    /\ Changed(x, y, i, x.log.fate[x.b.slots[i].conn]) /\ y.log = x.log
    /\ y.b.slots[i].level = TRUE /\ y.b.slots[i].opts = x.b.slots[i].opts
    /\ y.b.slots[i].closing = x.b.slots[i].closing /\ y.b.slots[i].will = x.b.slots[i].will

LEMMA LevelledIs ==
  ASSUME NEW x, IsWorld(x), NEW i \in Slots
  PROVE  IsLevelled(x, i, Levelled(x, i))
<1> DEFINE y == Levelled(x, i)
<1>1. /\ y.w = x.w /\ y.log = x.log /\ y.b = [x.b EXCEPT !.slots[i].level = TRUE]
      /\ {"b", "w", "log"} \subseteq DOMAIN y
  BY DEF IsWorld, Levelled
<1> HIDE DEF y
<1>2. y.b.slots = [x.b.slots EXCEPT ![i].level = TRUE] /\ {"slots", "sess", "subs", "retained"} \subseteq DOMAIN y.b
  BY <1>1 DEF IsWorld
<1>3. /\ y.b.slots = [j \in Slots |-> y.b.slots[j]] /\ \A j \in Slots : IsSlot(y.b.slots[j])
      /\ \A j \in Slots \ {i} : y.b.slots[j] = x.b.slots[j]
      /\ y.b.slots[i].conn = x.b.slots[i].conn /\ y.b.slots[i].level = TRUE
      /\ y.b.slots[i].opts = x.b.slots[i].opts
  BY <1>2, ZenonT(60) DEF IsWorld, IsSlot
<1>4. y.b.slots[i].closing = x.b.slots[i].closing /\ y.b.slots[i].will = x.b.slots[i].will
  BY <1>2 DEF IsWorld, IsSlot
<1>5. IsWorld(y)
  BY ZenonT(30), <1>1, <1>2, <1>3 DEF IsWorld
<1>6. x.log.fate = [x.log.fate EXCEPT ![x.b.slots[i].conn] = x.log.fate[x.b.slots[i].conn]]
  BY DEF IsWorld
<1>7. QED BY <1>1, <1>3, <1>4, <1>5, <1>6 DEF IsLevelled, Changed, y

LEMMA LevelledKeeps ==
  ASSUME NEW x, NEW i \in Slots, Settling(x, i), x.b.slots[i].conn # 0
  PROVE  Settling(Levelled(x, i), i)
<1> DEFINE y == Levelled(x, i)
           s == x.b.slots[i]
           t == y.b.slots[i]
<1>1. IsLevelled(x, i, y)
  BY LevelledIs DEF Settling, Visiting
<1>2. (HoldsWill(s) => HoldsWill(t)) /\ (Withdrawn(s) => Withdrawn(t))
  BY <1>1, Zenon DEF HoldsWill, Withdrawn, IsLevelled
<1> HIDE DEF y
<1>3. Served(x, s)
  BY DEF Settling, Visiting
<1>4. Served(y, t)
  BY <1>1, <1>2, <1>3 DEF Served, Changed, IsLevelled
<1>5. QED BY <1>1, <1>4, ChangedKeeps DEF y, IsLevelled
Admitted(z, i, id, o, k) ==
    [z EXCEPT !.b.slots[i] = [@ EXCEPT !.id = id, !.opts = o, !.will = o.will],
              !.log.fate[k] = IF o.will THEN "armed" ELSE @]

IsAdmitted(z, i, o, k, y) ==
    /\ IsWorld(y) /\ y.w = z.w /\ y.log.wills = z.log.wills
    /\ \A j \in Slots \ {i} : y.b.slots[j] = z.b.slots[j]
    /\ y.b.slots[i].conn = z.b.slots[i].conn /\ y.b.slots[i].level = z.b.slots[i].level
    /\ y.b.slots[i].opts = o /\ y.b.slots[i].will = o.will
    /\ y.log.fate = [z.log.fate EXCEPT ![k] = IF o.will THEN "armed" ELSE z.log.fate[k]]

LEMMA AdmittedIs ==
  ASSUME NEW z, IsWorld(z), NEW i \in Slots, NEW id, NEW o, NEW k
  PROVE  IsAdmitted(z, i, o, k, Admitted(z, i, id, o, k))
<1> DEFINE f == IF o.will THEN "armed" ELSE z.log.fate[k]
           v == o.will
           s == [z.b.slots[i] EXCEPT !.id = id, !.opts = o, !.will = v]
           y == [z EXCEPT !.b.slots[i] = s, !.log.fate[k] = f]
<1>1. Admitted(z, i, id, o, k) = y
  BY DEF Admitted, IsWorld
<1> HIDE DEF f, v, s
<1>2. /\ y.w = z.w
      /\ y.b = [z.b EXCEPT !.slots[i] = s]
      /\ y.log = [z.log EXCEPT !.fate[k] = f]
      /\ {"b", "w", "log"} \subseteq DOMAIN y
  BY DEF IsWorld
<1> HIDE DEF y
<1>3. /\ y.log.wills = z.log.wills /\ y.log.fate = [z.log.fate EXCEPT ![k] = f]
      /\ {"fate", "wills", "fwd", "settled", "error"} \subseteq DOMAIN y.log
          /\ y.log.fate = [n \in Connections |-> y.log.fate[n]]
  BY <1>2 DEF IsWorld
<1>4. y.b.slots = [z.b.slots EXCEPT ![i] = s] /\ {"slots", "sess", "subs", "retained"} \subseteq DOMAIN y.b
  BY <1>2 DEF IsWorld
<1>5. /\ y.b.slots = [j \in Slots |-> y.b.slots[j]] /\ \A j \in Slots : IsSlot(y.b.slots[j])
      /\ \A j \in Slots \ {i} : y.b.slots[j] = z.b.slots[j]
      /\ y.b.slots[i].conn = z.b.slots[i].conn /\ y.b.slots[i].level = z.b.slots[i].level
      /\ y.b.slots[i].opts = o /\ y.b.slots[i].will = v
  BY <1>4, ZenonT(60) DEF IsWorld, IsSlot, s
<1>6. IsWorld(y)
  BY <1>2, <1>3, <1>4, <1>5 DEF IsWorld
<1>7. IsAdmitted(z, i, o, k, y)
  BY <1>2, <1>3, <1>5, <1>6 DEF IsAdmitted, f, v
<1>8. QED BY <1>1, <1>7

LEMMA AdmittedKeeps ==
  ASSUME NEW z, NEW i \in Slots, NEW o, NEW y, Settling(z, i), z.b.slots[i].conn # 0, z.b.slots[i].level = TRUE,
         IsAdmitted(z, i, o, z.b.slots[i].conn, y), z.log.fate[z.b.slots[i].conn] \notin {"armed", "left"}
  PROVE  Settling(y, i)
<1> DEFINE k == z.b.slots[i].conn
           f == IF o.will THEN "armed" ELSE z.log.fate[k]
           t == y.b.slots[i]
<1>1. /\ k \in DOMAIN z.w /\ z.w[k].broker = "open" /\ z.log.wills[k] = 0 /\ k \in Connections
  BY WireDomain DEF Settling, Visiting, Served
<1>2. Changed(z, y, i, f)
  BY DEF Changed, IsAdmitted
<1>3. y.log.fate[k] = f
  BY <1>1, <1>2 DEF Changed, Settling, Visiting, IsWorld
<1>4. t.level = z.b.slots[i].level /\ t.opts = o /\ t.will = o.will
  BY DEF IsAdmitted
<1>5. o.will => HoldsWill(t)
  BY <1>4, Zenon DEF HoldsWill
<1>6. f # "left" /\ (f = "armed" => o.will)
  OBVIOUS
<1> HIDE DEF f
<1>7. Served(y, t)
  BY <1>1, <1>2, <1>3, <1>5, <1>6 DEF Served, Changed
<1>8. QED BY <1>2, <1>7, ChangedKeeps

LEMMA ConnectKeeps ==
  ASSUME NEW x, NEW i \in Slots, NEW p, Steady(x), x.b.slots[i].conn # 0, ~x.b.slots[i].level
  PROVE  Settling(HandleConnect(x, i, p), i)
<1> DEFINE id == p.id
           o == p.opts
           k == x.b.slots[i].conn
           present == ~o.clean /\ x.b.sess[id] # "none"
           u == IF o.clean THEN ClearSession(x, id) ELSE x
           y == Levelled(u, i)
           v == [y EXCEPT !.b.sess[id] = "active"]
           z == TakeOver(v, i, id)
           a == Admitted(z, i, id, o, k)
<1>1. Settling(x, i) /\ k \in Connections /\ x.log.fate[k] \notin {"armed", "left"}
  <2>1. Settling(x, i) /\ ~Gone(x, i) /\ Served(x, x.b.slots[i]) /\ IsWorld(x)
    BY DEF Steady, Settling, Visiting
  <2>2. ~HoldsWill(x.b.slots[i])
    BY Zenon DEF HoldsWill
  <2>3. QED BY <2>1, <2>2, WireDomain DEF Gone, Served
<1>2. Quiet(x, u)
  BY <1>1, QuietRefl, SessionQuiet DEF Settling, Visiting
<1> HIDE DEF u
<1>3. Settling(u, i) /\ u.b.slots[i].conn = k /\ u.log.fate = x.log.fate
  BY <1>1, <1>2, QuietSettling DEF Quiet, SameSlot
<1>4. Settling(y, i) /\ IsLevelled(u, i, y)
  BY <1>3, LevelledKeeps, LevelledIs DEF Settling, Visiting
<1>5. HandleConnect(x, i, p) = IF y.b.sess[id] = "none" /\ SessionsFull(y)
                               THEN Closing(Send(y, i, Connack(FALSE, FALSE)), i)
                               ELSE Send(a, i, Connack(TRUE, present))
  BY DEF HandleConnect, u, Levelled, Admitted
<1> HIDE DEF y
<1>6. y.b.slots[i].conn = k /\ y.log = u.log /\ y.b.slots[i].level = TRUE
  BY <1>3, <1>4 DEF IsLevelled, Changed
<1>7. Settling(Closing(Send(y, i, Connack(FALSE, FALSE)), i), i)
  <2>1. Quiet(y, Send(y, i, Connack(FALSE, FALSE)))
    BY <1>4, SendQuiet DEF Settling, Visiting
  <2>2. /\ Settling(Send(y, i, Connack(FALSE, FALSE)), i)
        /\ Send(y, i, Connack(FALSE, FALSE)).b.slots[i].conn # 0
    BY <1>4, <1>6, <2>1, QuietSettling DEF Quiet, SameSlot
  <2>3. QED BY <2>2, ClosingKeeps
<1>8. Quiet(y, v)
  BY <1>4, SessionQuiet DEF Settling, Visiting
<1> HIDE DEF v
<1>9. Settling(v, i) /\ v.b.slots[i].conn = k /\ v.log.fate = x.log.fate /\ v.b.slots[i].level = TRUE
  BY <1>3, <1>4, <1>6, <1>8, QuietSettling DEF Quiet, SameSlot
<1>10. IsTaken(v, i, id, z)
  BY <1>9, TakeOverIs DEF Settling, Visiting
<1> HIDE DEF z, id
<1>11. /\ Settling(z, i) /\ z.b.slots[i].conn = k /\ z.b.slots[i].level = TRUE
       /\ z.log.fate[k] \notin {"armed", "left"}
  <2>1. v.b.slots[i].conn # 0
    BY <1>9
  <2>2. /\ Settling(z, i) /\ z.b.slots[i] = v.b.slots[i]
        /\ z.log.fate[v.b.slots[i].conn] = v.log.fate[v.b.slots[i].conn]
    <3>1. Settling(v, i)
      BY <1>9
    <3>2. QED BY <1>10, <2>1, <3>1, TakeOverKeeps
  <2>3. QED BY <1>1, <1>9, <2>2
<1>12. IsAdmitted(z, i, o, k, a)
  BY <1>11, AdmittedIs DEF Settling, Visiting
<1> HIDE DEF a
<1>13. Settling(a, i)
  BY <1>11, <1>12, AdmittedKeeps
<1>14. Quiet(a, Send(a, i, Connack(TRUE, present)))
  BY <1>13, SendQuiet DEF Settling, Visiting
<1>15. Settling(Send(a, i, Connack(TRUE, present)), i)
  BY <1>13, <1>14, QuietSettling
<1>16. QED BY <1>5, <1>7, <1>15

LEMMA PacketKeeps ==
  ASSUME NEW x, NEW i \in Slots, NEW p, Steady(x), x.b.slots[i].conn # 0
  PROVE  Settling(BHandlePacket(x, i, p), i)
<1> DEFINE y == BHandlePacket(x, i, p)
<1> SUFFICES Settling(y, i)
  OBVIOUS
<1>1. Settling(x, i) /\ IsWorld(x) /\ x.b.slots[i].level \in BOOLEAN
  BY DEF Steady, Settling, Visiting, IsWorld, IsSlot
<1>2. Settling(Reject(x, i), i)
  BY <1>1, RejectKeeps
<1>3. ASSUME y = Reject(x, i) \/ Quiet(x, y) PROVE Settling(y, i)
  BY <1>1, <1>2, <1>3, QuietSettling
<1>4. CASE x.b.slots[i].level = (p.type = "connect")
  <2>1. y = Reject(x, i)
    BY <1>4 DEF BHandlePacket
  <2>2. QED BY <1>3, <2>1
<1>5. CASE ~x.b.slots[i].level /\ p.type = "connect"
  <2>1. y = HandleConnect(x, i, p)
    BY <1>5 DEF BHandlePacket
  <2>2. QED BY <1>5, <2>1, ConnectKeeps
<1>6. CASE x.b.slots[i].level /\ p.type # "connect"
  <2>1. \/ y \in {BHandlePublish(x, i, p), HandleClientAck(x, i, p, "await_puback"),
                  HandleClientAck(x, i, p, "await_pubrec"), HandleClientAck(x, i, p, "await_pubcomp")}
        \/ y \in {HandleClientPubrel(x, i, p), HandleSubscribe(x, i, p), HandleUnsubscribe(x, i, p),
                  Send(x, i, [type |-> "pingresp"]), Reject(x, i)}
        \/ y = HandleDisconnect(x, i)
    BY Zenon, <1>6 DEF BHandlePacket
  <2> HIDE DEF y
  <2>2. CASE y \in {BHandlePublish(x, i, p), HandleClientAck(x, i, p, "await_puback"),
                    HandleClientAck(x, i, p, "await_pubrec"), HandleClientAck(x, i, p, "await_pubcomp")}
    BY <1>1, <1>3, <2>2, PublishQuiet, AckQuiet
  <2>3. CASE y \in {HandleClientPubrel(x, i, p), HandleSubscribe(x, i, p), HandleUnsubscribe(x, i, p),
                    Send(x, i, [type |-> "pingresp"]), Reject(x, i)}
    BY <1>1, <1>3, <2>3, PubrelQuiet, SubscribeQuiet, SendQuiet
  <2>4. CASE y = HandleDisconnect(x, i)
    BY <1>1, <2>4, DisconnectKeeps
  <2>5. QED BY <2>1, <2>2, <2>3, <2>4
<1>7. QED BY <1>1, <1>4, <1>5, <1>6

(* A visit ends: the will of a slot that closes is published if the slot    *)
(* holds one.                                                               *)
IsWilled(x, i, y) ==
    LET k == x.b.slots[i].conn IN
    /\ IsWorld(y) /\ SameEnds(x.w, y.w) /\ y.log.fate = x.log.fate
    /\ \A j \in Slots : SameSlot(x.b.slots[j], y.b.slots[j])
    /\ \A n \in Connections \ {k} : y.log.wills[n] = x.log.wills[n]
    /\ HoldsWill(x.b.slots[i]) => y.log.wills[k] = x.log.wills[k] + 1
    /\ Withdrawn(x.b.slots[i]) => y.log.wills[k] = x.log.wills[k]
    /\ y.log.wills[k] \in {x.log.wills[k], x.log.wills[k] + 1}

LEMMA PublishWillIs ==
  ASSUME NEW x, IsWorld(x), NEW i \in Slots, x.b.slots[i].conn \in Connections
  PROVE  IsWilled(x, i, PublishWill(x, i))
<1> DEFINE s == x.b.slots[i]
           k == s.conn
           z == PublishMessage(x, Will, 0, "no")
           y == [z EXCEPT !.log.wills[k] = @ + 1]
<1>1. PublishWill(x, i) = IF s.opts.will /\ s.will THEN y ELSE x
  BY DEF PublishWill
<1>2. Quiet(x, z)
  BY PublishMessageQuiet
<1> HIDE DEF z
<1>3. /\ IsWorld(y) /\ y.w = z.w /\ y.b = z.b /\ y.log.fate = z.log.fate
      /\ y.log.wills = [z.log.wills EXCEPT ![k] = @ + 1]
  BY <1>2 DEF Quiet, IsWorld
<1>4. /\ y.log.wills[k] = x.log.wills[k] + 1
      /\ \A n \in Connections \ {k} : y.log.wills[n] = x.log.wills[n]
  BY <1>2, <1>3 DEF Quiet, IsWorld
<1> HIDE DEF y
<1>5. /\ IsWorld(y) /\ SameEnds(x.w, y.w) /\ y.log.fate = x.log.fate
      /\ \A j \in Slots : SameSlot(x.b.slots[j], y.b.slots[j])
  BY <1>2, <1>3 DEF Quiet
<1>6. CASE s.opts.will /\ s.will
  <2>1. PublishWill(x, i) = y
    BY <1>1, <1>6
  <2>2. ~Withdrawn(s)
    BY <1>6, Zenon DEF Withdrawn
  <2>3. QED BY Zenon, <1>4, <1>5, <2>1, <2>2 DEF IsWilled
<1>7. CASE ~(s.opts.will /\ s.will)
  <2>1. PublishWill(x, i) = x
    BY <1>1, <1>7
  <2>2. ~HoldsWill(s)
    BY <1>7, Zenon DEF HoldsWill
  <2>3. Quiet(x, x)
    BY QuietRefl
  <2>4. QED BY <2>1, <2>2, <2>3 DEF IsWilled, Quiet
<1>8. QED BY <1>6, <1>7
(* The slot hangs up. *)
IsHungUp(x, i, y) ==
    LET k == x.b.slots[i].conn IN
    /\ IsWorld(y) /\ y.log = x.log /\ y.b.slots[i].conn = 0
    /\ \A j \in Slots \ {i} : y.b.slots[j] = x.b.slots[j]
    /\ DOMAIN y.w = DOMAIN x.w /\ y.w[k].broker = "closed"
    /\ \A n \in DOMAIN x.w \ {k} : y.w[n].broker = x.w[n].broker

LEMMA NewSlotIs == ASSUME NEW k PROVE IsSlot(NewSlot(k)) /\ NewSlot(k).conn = k /\ NewSlot(k).level = FALSE
BY DEF IsSlot, NewSlot

LEMMA HungUpIs ==
  ASSUME NEW x, IsWorld(x), NEW i \in Slots, x.b.slots[i].conn \in DOMAIN x.w
  PROVE  IsHungUp(x, i, HungUp(x, i))
<1> DEFINE k == x.b.slots[i].conn
           v == [x.w[k] EXCEPT !.broker = "closed", !.up = <<>>]
           w == Update(x.w, k, v)
           y == HungUp(x, i)
           new == NewSlot(0)
           slots == [x.b.slots EXCEPT ![i] = new]
<1>0. IsSlot(new) /\ new.conn = 0
  BY NewSlotIs
<1>1. v.broker = "closed" /\ "broker" \in DOMAIN v
  BY DEF IsWorld, IsWire
<1>2. w = BrokerHangsUp(x.w, k)
  BY DEF BrokerHangsUp
<1> HIDE DEF v
<1>3. /\ IsWire(w) /\ DOMAIN w = DOMAIN x.w /\ w[k].broker = "closed"
      /\ \A n \in DOMAIN x.w \ {k} : w[n].broker = x.w[n].broker
  BY <1>1 DEF IsWorld, IsWire, Update
<1> HIDE DEF w
<1>4. /\ y.w = w /\ y.b.slots = slots /\ y.log = x.log
      /\ {"b", "w", "log"} \subseteq DOMAIN y /\ {"slots", "sess", "subs", "retained"} \subseteq DOMAIN y.b
  BY <1>2 DEF IsWorld, HungUp
<1> HIDE DEF y, new
<1>5. /\ y.b.slots = [j \in Slots |-> y.b.slots[j]] /\ \A j \in Slots : IsSlot(y.b.slots[j])
      /\ y.b.slots[i].conn = 0 /\ \A j \in Slots \ {i} : y.b.slots[j] = x.b.slots[j]
  BY <1>0, <1>4 DEF IsWorld
<1>6. IsWorld(y)
  BY <1>3, <1>4, <1>5 DEF IsWorld
<1>7. IsHungUp(x, i, y)
  BY <1>3, <1>4, <1>5, <1>6 DEF IsHungUp
<1>8. QED BY <1>7 DEF y

LEMMA HungUpKeeps ==
  ASSUME NEW x, NEW i \in Slots, NEW y, NEW z, NEW v, Settling(x, i), x.b.slots[i].conn # 0,
         IsWilled(x, i, y), Quiet(y, z), IsHungUp(z, i, v)
  PROVE  Steady(v)
<1> DEFINE s == x.b.slots[i]
           k == s.conn
<1>1. /\ Served(x, s) /\ IsWorld(x) /\ IsWorld(v) /\ k \in DOMAIN x.w /\ k \in Connections
      /\ x.log.wills[k] = 0
  BY WireDomain DEF Settling, Visiting, Served, IsHungUp
<1>2. /\ DOMAIN v.w = DOMAIN x.w /\ v.w[k].broker = "closed"
      /\ \A n \in DOMAIN x.w \ {k} : v.w[n].broker = x.w[n].broker
  <2>1. z.b.slots[i].conn = k
    BY ZenonT(30) DEF Quiet, IsWilled, SameSlot
  <2>2. SameEnds(x.w, y.w) /\ SameEnds(y.w, z.w)
    BY ZenonT(30) DEF IsWilled, Quiet
  <2>3. QED BY <2>1, <2>2 DEF IsHungUp, SameEnds
<1>3. v.log.fate = x.log.fate /\ v.log.wills = y.log.wills
  BY Zenon DEF IsHungUp, Quiet, IsWilled
<1>4. /\ v.b.slots[i].conn = 0
      /\ \A j \in Slots \ {i} : /\ v.b.slots[j].conn = x.b.slots[j].conn
                                /\ HoldsWill(x.b.slots[j]) => HoldsWill(v.b.slots[j])
                                /\ Withdrawn(x.b.slots[j]) => Withdrawn(v.b.slots[j])
  <2>1. \A j \in Slots : SameSlot(x.b.slots[j], y.b.slots[j]) /\ SameSlot(y.b.slots[j], z.b.slots[j])
    BY ZenonT(30) DEF IsWilled, Quiet
  <2>2. v.b.slots[i].conn = 0 /\ \A j \in Slots \ {i} : v.b.slots[j] = z.b.slots[j]
    BY DEF IsHungUp
  <2>3. QED BY <2>1, <2>2, SameWill
<1>5. \A n \in Connections \ {k} : v.log.wills[n] = x.log.wills[n]
  BY Zenon, <1>3 DEF IsWilled
<1>6. /\ v.log.wills[k] \in {0, 1} /\ (x.log.fate[k] = "armed" => v.log.wills[k] = 1)
      /\ x.log.fate[k] = "left" => v.log.wills[k] = 0
  <2>1. /\ HoldsWill(s) => y.log.wills[k] = x.log.wills[k] + 1
        /\ Withdrawn(s) => y.log.wills[k] = x.log.wills[k]
        /\ y.log.wills[k] \in {x.log.wills[k], x.log.wills[k] + 1}
    BY ZenonT(60) DEF IsWilled
  <2>2. (x.log.fate[k] = "armed" => HoldsWill(s)) /\ (x.log.fate[k] = "left" => Withdrawn(s))
    BY <1>1, ZenonT(60) DEF Served
  <2> HIDE DEF s
  <2>3. QED BY <1>1, <1>3, <2>1, <2>2, SMTT(30)
<1>7. Ends(v)
  BY <1>1, <1>2, <1>3, <1>5, <1>6, SMTT(30) DEF Ends, Settling, Visiting
<1>8. OneSlot(v)
  BY <1>4 DEF OneSlot, Settling, Visiting
<1>9. ASSUME NEW j \in Slots
      PROVE  Served(v, v.b.slots[j]) /\ ~Gone(v, j)
  <2>1. CASE v.b.slots[j].conn = 0
    BY <2>1 DEF Served, Gone
  <2>2. CASE v.b.slots[j].conn # 0
    <3>1. j # i /\ v.b.slots[j].conn = x.b.slots[j].conn
      BY <1>4, <2>2
    <3>2. Served(x, x.b.slots[j]) /\ ~Gone(x, j) /\ x.b.slots[j].conn # k
      BY <2>2, <3>1 DEF Settling, Visiting, OneSlot
    <3>3. x.b.slots[j].conn \in DOMAIN x.w /\ x.b.slots[j].conn \in Connections \ {k}
      BY <1>1, <2>2, <3>1, <3>2, WireDomain DEF Served
    <3>4. QED BY <1>2, <1>3, <1>4, <1>5, <2>2, <3>1, <3>2, <3>3 DEF Served, Gone
  <2>3. QED BY <2>1, <2>2
<1>10. QED BY <1>1, <1>7, <1>8, <1>9 DEF Steady, Visiting

LEMMA AlikeSteady ==
  ASSUME NEW x, NEW y, Steady(x), y.b = x.b, y.w = x.w, y.log = x.log, {"b", "w", "log"} \subseteq DOMAIN y
  PROVE  Steady(y)
<1>1. IsWorld(x)
  BY DEF Steady, Visiting
<1>2. Quiet(x, y)
  BY <1>1 DEF Quiet, IsWorld, SameSlot, SameEnds
<1>3. QED BY <1>2, QuietKeeps DEF Steady

LEMMA VisitEnds ==
  ASSUME NEW x, NEW i \in Slots, Settling(x, i), x.b.slots[i].conn # 0, EndVisit(x, i)
  PROVE  WillInv'
<1> DEFINE y == PublishWill(x, i)
           z == CloseState(y, i)
           v == HungUp(z, i)
           u == IF x.b.slots[i].closing THEN v ELSE x
<1>1. broker' = u.b /\ wire' = u.w /\ log' = u.log
  BY DEF EndVisit
<1>2. x.b.slots[i].conn \in DOMAIN x.w /\ x.b.slots[i].conn \in Connections /\ IsWorld(x)
  BY WireDomain DEF Settling, Visiting, Served
<1>3. Steady(u)
  <2>1. CASE x.b.slots[i].closing
    <3>1. IsWilled(x, i, y)
      BY <1>2, PublishWillIs
    <3> HIDE DEF y
    <3>2. Quiet(y, z)
      BY <3>1, CloseStateQuiet DEF IsWilled
    <3> HIDE DEF z
    <3>3. z.b.slots[i].conn \in DOMAIN z.w /\ IsWorld(z)
      BY <1>2, <3>1, <3>2, ZenonT(60) DEF IsWilled, Quiet, SameSlot, SameEnds
    <3>4. IsHungUp(z, i, v)
      BY <3>3, HungUpIs
    <3> HIDE DEF v
    <3>5. Steady(v)
      BY <3>1, <3>2, <3>4, HungUpKeeps
    <3>6. QED BY <2>1, <3>5
  <2>2. CASE ~x.b.slots[i].closing
    <3>1. ~Withdrawn(x.b.slots[i])
      BY <2>2, Zenon DEF Withdrawn
    <3>2. Visiting(x) /\ Served(x, x.b.slots[i]) /\ \A j \in Slots \ {i} : ~Gone(x, j)
      BY DEF Settling, Visiting
    <3>3. ~Gone(x, i)
      BY <3>1, <3>2 DEF Gone, Served
    <3>4. Steady(x)
      BY <3>2, <3>3 DEF Steady
    <3>5. QED BY <2>2, <3>4
  <2>3. QED BY <2>1, <2>2
<1> HIDE DEF u
<1> DEFINE W == [b |-> broker', w |-> wire', log |-> log']
<1>4. W.b = u.b /\ W.w = u.w /\ W.log = u.log /\ {"b", "w", "log"} \subseteq DOMAIN W
  BY <1>1
<1>5. W = World'
  BY DEF World
<1> HIDE DEF W
<1>6. Steady(W)
  BY <1>3, <1>4, AlikeSteady
<1>7. QED BY <1>5, <1>6 DEF WillInv

-----------------------------------------------------------------------------
(* The steps of the broker *)

(* The keep-alive time of a slot passes, or its connection has ended. *)
LEMMA ExpiredStep ==
  ASSUME WillInv, NEW i \in Slots, Serving(i), EndVisit(Expired(World, i), i)
  PROVE  WillInv'
<1> DEFINE x == World
           y == Expired(x, i)
<1>1. Steady(x) /\ x.b.slots[i].conn # 0
  BY DEF WillInv, Serving, World
<1> HIDE DEF x
<1>2. Settling(y, i) /\ IsExpired(x, i, y)
  BY <1>1, ExpiredKeeps, ExpiredIs DEF Steady, Visiting
<1>3. y.b.slots[i].conn # 0
  BY <1>1, <1>2 DEF IsExpired, Changed
<1>4. EndVisit(y, i)
  BY DEF x
<1> HIDE DEF y
<1>5. QED BY <1>2, <1>3, <1>4, VisitEnds

LEMMA CloseSlotStep ==
  ASSUME WillInv, NEW i \in Slots, CloseSlot(i)
  PROVE  WillInv'
<1> DEFINE x == World
<1>1. Steady(x) /\ x.b.slots[i].conn # 0 /\ EndVisit(x, i)
  BY DEF WillInv, CloseSlot, Serving, World
<1> HIDE DEF x
<1>2. Settling(x, i)
  BY <1>1 DEF Steady, Settling
<1>3. QED BY <1>1, <1>2, VisitEnds

LEMMA ReceiveStep ==
  ASSUME WillInv, NEW i \in Slots, BrokerReceive(i)
  PROVE  WillInv'
<1> DEFINE k == broker.slots[i].conn
           x == World
           y == [x EXCEPT !.w = ReceiveUp(x.w, k)]
           p == Head(wire[k].up)
           z == BHandlePacket(y, i, p)
<1>1. Steady(x) /\ x.b.slots[i].conn # 0
  BY DEF WillInv, BrokerReceive, Serving, World
<1>2. EndVisit(z, i)
  BY DEF BrokerReceive
<1> HIDE DEF x, k, p
<1>3. y.b = x.b /\ y.log = x.log /\ y.w = ReceiveUp(x.w, k) /\ {"b", "w", "log"} \subseteq DOMAIN y
  BY <1>1 DEF Steady, Visiting, IsWorld
<1> HIDE DEF y
<1>4. IsWire(y.w) /\ SameEnds(x.w, y.w)
  BY <1>1, <1>3, UpSideKeepsEnds DEF Steady, Visiting, IsWorld
<1>5. Quiet(x, y)
  BY <1>1, <1>3, <1>4 DEF Quiet, Steady, Visiting, IsWorld, SameSlot
<1>6. Steady(y) /\ y.b.slots[i].conn # 0
  BY <1>1, <1>3, <1>5, QuietKeeps DEF Steady
<1>7. Settling(z, i)
  BY <1>6, PacketKeeps
<1>8. z.b.slots[i].conn # 0
  BY <1>7 DEF Settling
<1> HIDE DEF z
<1>9. QED BY <1>2, <1>7, <1>8, VisitEnds

(* A non-empty set of numbers has a smallest. *)
LEMMA MinIn ==
  ASSUME NEW S \in SUBSET Nat, S # {}
  PROVE  Min(S) \in S
<1> DEFINE R == {ss \in Nat \X Nat : ss[1] < ss[2]}
<1>1. IsWellFoundedOn(R, Nat)
  BY NatLessThanWellFounded DEF OpToRel
<1>2. PICK x \in S : \A y \in S : ~(<<y, x>> \in R)
  BY <1>1, WFMin
<1>3. \A y \in S : x <= y
  <2>1. TAKE y \in S
  <2>2. x \in Nat /\ y \in Nat /\ ~(<<y, x>> \in R)
    BY <1>2
  <2>3. ~(y < x)
    BY <2>2
  <2>4. QED BY <2>2, <2>3
<1>4. QED BY <1>3 DEF Min

LEMMA AcceptStep ==
  ASSUME WillInv, Accept
  PROVE  WillInv'
<1> DEFINE waiting == {n \in DOMAIN wire : wire[n].broker = "backlog"}
           free == {j \in Slots : ~Serving(j)}
           k == Min(waiting)
           i == Min(free)
           s == NewSlot(k)
           x == World
           y == [b |-> broker', w |-> wire', log |-> log']
<1>1. Steady(x) /\ IsWorld(x) /\ x.b = broker /\ x.w = wire /\ x.log = log
  BY DEF WillInv, Steady, Visiting, World
<1>2. k \in DOMAIN x.w /\ x.w[k].broker = "backlog" /\ k \in Connections /\ k # 0
  <2>1. waiting \in SUBSET Nat /\ waiting # {}
    BY <1>1, WireDomain DEF Accept, Connections
  <2>2. k \in waiting
    BY <2>1, MinIn
  <2>3. QED BY <1>1, <2>2, WireDomain
<1>3. i \in Slots /\ x.b.slots[i].conn = 0
  <2>1. free \in SUBSET Nat /\ free # {}
    BY DEF Accept, Slots
  <2>2. i \in free
    BY <2>1, MinIn
  <2>3. QED BY <1>1, <2>2 DEF Serving
<1>4. /\ y.b = [x.b EXCEPT !.slots[i] = s] /\ y.w = [x.w EXCEPT ![k].broker = "open"]
      /\ y.log = x.log /\ {"b", "w", "log"} \subseteq DOMAIN y
  BY <1>1 DEF Accept
<1> HIDE DEF waiting, free, k, i, x, y
<1>0. IsSlot(s) /\ s.conn = k
  BY NewSlotIs
<1> HIDE DEF s
<1>5. /\ {"slots", "sess", "subs", "retained"} \subseteq DOMAIN y.b /\ y.b.slots = [j \in Slots |-> y.b.slots[j]]
      /\ y.b.slots[i] = s /\ \A j \in Slots \ {i} : y.b.slots[j] = x.b.slots[j]
  BY <1>1, <1>3, <1>4 DEF IsWorld
<1>6. \A j \in Slots : IsSlot(y.b.slots[j])
  BY <1>0, <1>1, <1>5 DEF IsWorld
<1>7. /\ IsWire(y.w) /\ DOMAIN y.w = DOMAIN x.w /\ y.w[k].broker = "open"
      /\ \A n \in DOMAIN x.w \ {k} : y.w[n].broker = x.w[n].broker
  <2>1. IsWire(x.w)
    BY <1>1 DEF IsWorld
  <2>2. QED BY <1>2, <1>4, <2>1 DEF IsWire
<1>8. IsWorld(y)
  BY <1>1, <1>4, <1>5, <1>6, <1>7 DEF IsWorld
<1>9. Ends(y)
  BY <1>1, <1>2, <1>4, <1>7 DEF Ends, Steady, Visiting
<1>10. x.log.fate[k] = "live" /\ x.log.wills[k] = 0
  BY <1>1, <1>2 DEF Ends, Steady, Visiting
<1>11. \A j \in Slots : x.b.slots[j].conn # k
  BY <1>1, <1>2 DEF Steady, Visiting, Served
<1>12. OneSlot(y)
  BY <1>0, <1>1, <1>5, <1>11 DEF OneSlot, Steady, Visiting
<1>13. ASSUME NEW j \in Slots
       PROVE  Served(y, y.b.slots[j]) /\ ~Gone(y, j)
  <2>1. CASE j = i
    BY <1>0, <1>2, <1>4, <1>5, <1>7, <1>10, <2>1 DEF Served, Gone
  <2>2. CASE j # i
    <3>1. y.b.slots[j] = x.b.slots[j] /\ y.b.slots[j].conn # k
      BY <1>5, <1>11, <2>2
    <3>2. Served(x, x.b.slots[j]) /\ ~Gone(x, j)
      BY <1>1 DEF Steady, Visiting
    <3>3. QED BY <1>4, <1>7, <3>1, <3>2 DEF Served, Gone
  <2>3. QED BY <2>1, <2>2
<1>14. Steady(y)
  BY <1>8, <1>9, <1>12, <1>13 DEF Steady, Visiting
<1>15. y = World'
  BY DEF y, World
<1>16. QED BY <1>14, <1>15 DEF WillInv

(* close(): no slot is left, and no connection is open. *)
LEMMA BrokerClosesStep ==
  ASSUME WillInv, BrokerCloses
  PROVE  WillInv'
<1> DEFINE x == World
           y == [b |-> broker', w |-> wire', log |-> log']
           shut(n) == n \in DOMAIN x.w /\ x.w[n].broker # "closed"
           fate == [n \in Connections |-> IF shut(n) THEN "shut down" ELSE x.log.fate[n]]
<1>1. Steady(x) /\ IsWorld(x) /\ x.b = broker /\ x.w = wire /\ x.log = log
  BY DEF WillInv, Steady, Visiting, World
<1>2. /\ y.b = [x.b EXCEPT !.slots = [i \in Slots |-> NewSlot(0)]]
      /\ y.w = [n \in DOMAIN x.w |-> BrokerHangsUp(x.w, n)[n]]
      /\ y.log = [x.log EXCEPT !.fate = fate] /\ {"b", "w", "log"} \subseteq DOMAIN y
  BY Zenon, <1>1 DEF BrokerCloses
<1> HIDE DEF x, y, fate
<1>3. {"slots", "sess", "subs", "retained"} \subseteq DOMAIN y.b /\ y.b.slots = [i \in Slots |-> NewSlot(0)]
  BY <1>1, <1>2 DEF IsWorld
<1>4. \A i \in Slots : IsSlot(y.b.slots[i]) /\ y.b.slots[i].conn = 0
  BY <1>3, NewSlotIs
<1>5. IsWire(y.w) /\ DOMAIN y.w = DOMAIN x.w /\ \A n \in DOMAIN x.w : y.w[n].broker = "closed"
  <2>1. IsWire(x.w)
    BY <1>1 DEF IsWorld
  <2>2. ASSUME NEW n \in DOMAIN x.w
        PROVE  y.w[n] = [x.w[n] EXCEPT !.broker = "closed", !.up = <<>>]
    BY Zenon, <1>2 DEF BrokerHangsUp, Update
  <2>3. \A n \in DOMAIN x.w : "broker" \in DOMAIN y.w[n] /\ y.w[n].broker = "closed"
    BY Zenon, <2>1, <2>2 DEF IsWire
  <2>4. DOMAIN y.w = DOMAIN x.w /\ y.w = [n \in DOMAIN x.w |-> y.w[n]]
    BY <1>2
  <2>5. QED BY <2>1, <2>3, <2>4 DEF IsWire
<1>6. y.log.fate = fate /\ y.log.wills = x.log.wills
    /\ {"fate", "wills", "fwd", "settled", "error"} \subseteq DOMAIN y.log
  BY <1>1, <1>2 DEF IsWorld
<1>7. IsWorld(y)
  BY Zenon, <1>1, <1>2, <1>3, <1>4, <1>5, <1>6 DEF IsWorld, fate
<1>8. Ends(y)
  <2>1. SUFFICES ASSUME NEW n \in Connections
                 PROVE  /\ n \notin DOMAIN y.w \/ y.w[n].broker = "backlog" =>
                               y.log.fate[n] = "live" /\ y.log.wills[n] = 0
                        /\ y.log.wills[n] <= 1
                        /\ y.log.fate[n] = "left" => y.log.wills[n] = 0
                        /\ n \in DOMAIN y.w /\ y.w[n].broker = "closed" /\ y.log.fate[n] = "armed" =>
                               y.log.wills[n] = 1
    BY DEF Ends
  <2>2. /\ n \notin DOMAIN x.w => x.log.fate[n] = "live" /\ x.log.wills[n] = 0
        /\ x.log.wills[n] <= 1
        /\ x.log.fate[n] = "left" => x.log.wills[n] = 0
        /\ n \in DOMAIN x.w /\ x.w[n].broker = "closed" /\ x.log.fate[n] = "armed" => x.log.wills[n] = 1
    BY <1>1 DEF Steady, Visiting, Ends
  <2>3. y.log.fate[n] = IF shut(n) THEN "shut down" ELSE x.log.fate[n]
    BY Zenon, <1>6 DEF fate
  <2>4. QED BY Zenon, <1>5, <1>6, <2>2, <2>3
<1>9. OneSlot(y) /\ \A i \in Slots : Served(y, y.b.slots[i]) /\ ~Gone(y, i)
  BY <1>4 DEF OneSlot, Served, Gone
<1>10. Steady(y)
  BY <1>7, <1>8, <1>9 DEF Steady, Visiting
<1>11. y = World'
  BY DEF y, World
<1>12. QED BY <1>10, <1>11 DEF WillInv

-----------------------------------------------------------------------------
(* The steps of the clients and of the network: the broker's ends stay as   *)
(* they are, and a connection that appears waits in the backlog.            *)
Grown(v, w) ==
    /\ IsWire(w) /\ DOMAIN v \subseteq DOMAIN w
    /\ \A k \in DOMAIN v : w[k].broker = v[k].broker
    /\ \A k \in DOMAIN w \ DOMAIN v : w[k].broker = "backlog"

LEMMA GrownKeeps ==
  ASSUME NEW x, NEW y, Steady(x), y.b = x.b, y.log = x.log, {"b", "w", "log"} \subseteq DOMAIN y, Grown(x.w, y.w)
  PROVE  Steady(y)
<1>1. IsWorld(x) /\ IsWorld(y)
  BY DEF Steady, Visiting, IsWorld, Grown
<1>2. \A i \in Slots : Served(y, y.b.slots[i]) /\ ~Gone(y, i)
  BY SMTT(30) DEF Steady, Visiting, Served, Gone, Grown
<1>3. OneSlot(y)
  BY DEF Steady, Visiting, OneSlot
<1>4. Ends(y)
  BY <1>1, WireDomain DEF Steady, Visiting, Ends, Grown
<1>5. QED BY <1>1, <1>2, <1>3, <1>4 DEF Steady, Visiting

LEMMA GrownStep ==
  ASSUME WillInv, Grown(wire, wire'), UNCHANGED <<broker, log>>
  PROVE  WillInv'
<1> DEFINE x == World
           y == [b |-> broker', w |-> wire', log |-> log']
<1>1. Steady(x) /\ y.b = x.b /\ y.log = x.log /\ {"b", "w", "log"} \subseteq DOMAIN y /\ Grown(x.w, y.w)
  BY DEF WillInv, World
<1>2. y = World'
  BY DEF World
<1> HIDE DEF x, y
<1>3. Steady(y)
  BY <1>1, GrownKeeps
<1>4. QED BY <1>2, <1>3 DEF WillInv

LEMMA SameEndsGrow ==
  ASSUME NEW v, NEW w, IsWire(w), SameEnds(v, w)
  PROVE  Grown(v, w)
BY DEF Grown, SameEnds

LEMMA ClientStep ==
  ASSUME IsWire(wire), NEW c \in Clients, ClientNext(c)
  PROVE  Grown(wire, wire')
<1> DEFINE k == cli[c].conn
<1>1. Grown(wire, wire)
  BY SameEndsGrow DEF SameEnds
<1>2. ASSUME NEW j, NEW p
      PROVE  /\ Grown(wire, SendUp(wire, j, p)) /\ Grown(wire, SendAllUp(wire, j, p))
             /\ Grown(wire, ReceiveDown(wire, j)) /\ Grown(wire, SendUp(ReceiveDown(wire, j), j, p))
             /\ Grown(wire, ClientHangsUp(wire, j)) /\ Grown(wire, ClientHangsUp(SendUp(wire, j, p), j))
  <2>1. ASSUME NEW v, NEW w, SameEnds(wire, v), IsWire(v), SameEnds(v, w), IsWire(w)
        PROVE  Grown(wire, w)
    BY <2>1, SameEndsGrow DEF SameEnds
  <2>2. /\ IsWire(SendUp(wire, j, p)) /\ SameEnds(wire, SendUp(wire, j, p))
        /\ IsWire(ReceiveDown(wire, j)) /\ SameEnds(wire, ReceiveDown(wire, j))
    BY UpSideKeepsEnds, DownSideKeepsEnds
  <2>3. Grown(wire, SendUp(ReceiveDown(wire, j), j, p))
    BY <2>1, <2>2, UpSideKeepsEnds
  <2>4. Grown(wire, ClientHangsUp(SendUp(wire, j, p), j))
    BY <2>1, <2>2, DownSideKeepsEnds
  <2>5. QED BY <2>2, <2>3, <2>4, SameEndsGrow, UpSideKeepsEnds, DownSideKeepsEnds
<1>3. CASE Connect(c)
  <2> DEFINE v == Dial(wire)
             p == [type |-> "connect", id |-> c, opts |-> app.plan.opts[Len(wire) + 1]]
             w == SendUp(v, Len(wire) + 1, p)
  <2>1. wire' = w /\ Len(wire) < MaxConnections
    BY <1>3 DEF Connect
  <2>2. Grown(wire, v)
    BY <2>1, DialAdds DEF Grown
  <2> HIDE DEF v, p
  <2>3. IsWire(w) /\ SameEnds(v, w)
    BY <2>2, UpSideKeepsEnds DEF Grown
  <2>4. QED BY <2>1, <2>2, <2>3 DEF Grown, SameEnds
<1>4. CASE ConnectFails(c) \/ CallFails(c)
  BY <1>1, <1>4 DEF ConnectFails, CallFails
<1>5. CASE ConnectTimesOut(c) \/ Abort(c) \/ PingTimesOut(c)
  BY <1>2, <1>5 DEF ConnectTimesOut, Abort, PingTimesOut, ForceClose
<1>6. CASE ConnectReturns(c)
  BY <1>1, <1>2, <1>6 DEF ConnectReturns, ResendOutgoing
<1>7. CASE Publish(c)
  BY <1>2, <1>7 DEF Publish
<1>8. CASE Subscribe(c) \/ Unsubscribe(c)
  BY <1>2, <1>8 DEF Subscribe, Unsubscribe, Request
<1>9. CASE Disconnect(c) \/ Ping(c)
  BY <1>2, <1>9 DEF Disconnect, Ping
<1>10. CASE ClientReceive(c)
  BY <1>2, <1>10, SMTT(30) DEF ClientReceive, ForceClose
<1>11. CASE ClientEof(c)
  BY <1>2, <1>11 DEF ClientEof, ForceClose
<1>12. CASE CallbackPublishes(c)
  <2> DEFINE v == ReceiveDown(wire, k)
  <2>1. IsWire(v) /\ SameEnds(wire, v)
    BY DownSideKeepsEnds
  <2>2. PICK ps : wire' = SendAllUp(v, k, ps)
    BY <1>12 DEF CallbackPublishes
  <2> HIDE DEF v
  <2>3. IsWire(wire') /\ SameEnds(v, wire')
    BY <2>1, <2>2, UpSideKeepsEnds
  <2>4. SameEnds(wire, wire')
    BY <2>1, <2>3 DEF SameEnds
  <2>5. QED BY <2>3, <2>4, SameEndsGrow
<1>13. QED BY <1>3, <1>4, <1>5, <1>6, <1>7, <1>8, <1>9, <1>10, <1>11, <1>12 DEF ClientNext

LEMMA CutStep ==
  ASSUME IsWire(wire), NEW k, Cut(k)
  PROVE  Grown(wire, wire')
<1>1. wire' = [wire EXCEPT ![k] = [wire[k] EXCEPT !.cut = TRUE, !.up = <<>>, !.down = <<>>]]
  BY DEF Cut
<1>2. IsWire(wire') /\ SameEnds(wire, wire')
  BY <1>1 DEF IsWire, SameEnds
<1>3. QED BY <1>2, SameEndsGrow

LEMMA PruneStep ==
  ASSUME WillInv, NEW c \in Clients, Prune(c)
  PROVE  WillInv'
<1> DEFINE x == World
           z == ClearSession(x, c)
           y == [b |-> broker', w |-> wire', log |-> log']
<1>1. Steady(x) /\ IsWorld(x) /\ x.b = broker /\ x.w = wire /\ x.log = log
  BY DEF WillInv, Steady, Visiting, World
<1>2. y.b = z.b /\ y.w = x.w /\ y.log = x.log /\ {"b", "w", "log"} \subseteq DOMAIN y
  BY <1>1 DEF Prune
<1>3. y = World'
  BY DEF World
<1> HIDE DEF x, y
<1>4. Quiet(x, z) /\ z.w = x.w /\ z.log = x.log
  BY Zenon, <1>1, SessionQuiet DEF ClearSession, IsWorld
<1> HIDE DEF z
<1>5. Steady(z)
  BY <1>1, <1>4, QuietKeeps DEF Steady
<1>6. Steady(y)
  BY <1>2, <1>4, <1>5, AlikeSteady
<1>7. QED BY <1>3, <1>6 DEF WillInv

LEMMA WillInit == Init => WillInv
<1> SUFFICES ASSUME Init PROVE Steady(World)
  BY DEF WillInv
<1> DEFINE x == World
<1>1. /\ x.b.slots = [i \in Slots |-> NewSlot(0)] /\ x.w = <<>>
      /\ x.log.fate = [k \in Connections |-> "live"] /\ x.log.wills = [k \in Connections |-> 0]
      /\ {"b", "w", "log"} \subseteq DOMAIN x /\ {"slots", "sess", "subs", "retained"} \subseteq DOMAIN x.b
      /\ {"fate", "wills", "fwd", "settled", "error"} \subseteq DOMAIN x.log
  BY DEF Init, BrokerInit, WireInit, World
<1> HIDE DEF x
<1>2. \A i \in Slots : IsSlot(x.b.slots[i]) /\ x.b.slots[i].conn = 0
  BY <1>1, NewSlotIs
<1>3. IsWire(x.w) /\ DOMAIN x.w = {}
  <2>1. DOMAIN x.w = 1 .. 0 /\ x.w = [k \in DOMAIN x.w |-> x.w[k]]
    BY <1>1
  <2>2. 0 \in 0 .. MaxConnections
    BY MqttWireAssumption
  <2>3. QED BY <2>1, <2>2 DEF IsWire
<1>4. IsWorld(x)
  BY <1>1, <1>2, <1>3 DEF IsWorld
<1>5. Ends(x)
  BY <1>1, <1>3 DEF Ends
<1>6. OneSlot(x) /\ \A i \in Slots : Served(x, x.b.slots[i]) /\ ~Gone(x, i)
  BY <1>2 DEF OneSlot, Served, Gone
<1>7. QED BY <1>4, <1>5, <1>6 DEF Steady, Visiting, x

LEMMA WillStep == WillInv /\ [Next]_vars => WillInv'
<1> SUFFICES ASSUME WillInv, [Next]_vars PROVE WillInv'
  OBVIOUS
<1>1. IsWire(wire)
  BY DEF WillInv, Steady, Visiting, IsWorld, World
<1>2. Grown(wire, wire)
  BY <1>1, SameEndsGrow DEF SameEnds
<1>3. ASSUME NEW c \in Clients, ClientNext(c), UNCHANGED <<listening, broker, log>>
      PROVE  WillInv'
  BY <1>1, <1>3, ClientStep, GrownStep
<1>4. CASE BrokerNext
  <2>1. CASE Accept
    BY <2>1, AcceptStep
  <2>2. ASSUME NEW c \in Clients, Prune(c) PROVE WillInv'
    BY <2>2, PruneStep
  <2>3. ASSUME NEW i \in Slots, KeepAliveExpires(i) PROVE WillInv'
    BY <2>3, ExpiredStep DEF KeepAliveExpires
  <2>4. ASSUME NEW i \in Slots, CloseSlot(i) PROVE WillInv'
    BY <2>4, CloseSlotStep
  <2>5. ASSUME NEW i \in Slots, BrokerReceive(i) PROVE WillInv'
    BY <2>5, ReceiveStep
  <2>6. ASSUME NEW i \in Slots, BrokerEof(i) PROVE WillInv'
    BY <2>6, ExpiredStep DEF BrokerEof
  <2>7. CASE BrokerCloses
    BY <2>7, BrokerClosesStep
  <2>8. CASE BrokerOpens
    BY <1>2, <2>8, GrownStep DEF BrokerOpens
  <2>9. QED BY <1>4, <2>1, <2>2, <2>3, <2>4, <2>5, <2>6, <2>7, <2>8 DEF BrokerNext
<1>5. ASSUME NEW k \in Connections, Cut(k), UNCHANGED <<cli, app, broker, log>>
      PROVE  WillInv'
  BY <1>1, <1>5, CutStep, GrownStep
<1>6. CASE UNCHANGED vars
  BY <1>2, <1>6, GrownStep DEF vars
<1>7. QED BY <1>3, <1>4, <1>5, <1>6 DEF Next

(* The broker publishes the will of a connection at most once, never when   *)
(* the client has left with DISCONNECT, and exactly once when a connection  *)
(* with a will ends in any other way than by a take-over or by close().     *)
THEOREM MqttWillOnLossOnly == Spec => []WillOnLossOnly
<1>1. WillInv => WillOnLossOnly
  <2> DEFINE x == World
  <2> SUFFICES ASSUME Steady(x) PROVE WillOnLossOnly
    BY DEF WillInv
  <2>1. x.w = wire /\ x.log = log
    BY DEF World
  <2> HIDE DEF x
  <2>2. Ends(x) /\ DOMAIN x.w \subseteq Connections
    BY WireDomain DEF Steady, Visiting
  <2>3. QED BY <2>1, <2>2 DEF Ends, WillOnLossOnly
<1>2. QED BY WillInit, WillStep, <1>1, PTL DEF Spec
-----------------------------------------------------------------------------

(* Sequences of packets *)
IsSeq(q) == \E S : q \in Seq(S)

LEMMA AppendIs ==
  ASSUME NEW q, IsSeq(q), NEW p
  PROVE  /\ IsSeq(Append(q, p)) /\ Len(q) \in Nat /\ DOMAIN q = 1 .. Len(q)
         /\ DOMAIN Append(q, p) = 1 .. Len(q) + 1 /\ Append(q, p)[Len(q) + 1] = p
         /\ \A j \in 1 .. Len(q) : Append(q, p)[j] = q[j]
<1>1. PICK S : q \in Seq(S)
  BY DEF IsSeq
<1> DEFINE T == S \cup {p}
<1>2. q \in Seq(T) /\ p \in T
  BY <1>1
<1> HIDE DEF T
<1>3. Append(q, p) \in Seq(T)
  BY <1>2
<1>4. QED BY <1>2, <1>3, AppendProperties DEF IsSeq

LEMMA TailIs ==
  ASSUME NEW q, IsSeq(q), q # <<>>
  PROVE  /\ IsSeq(Tail(q)) /\ Len(q) \in Nat \ {0} /\ DOMAIN q = 1 .. Len(q) /\ Head(q) = q[1]
         /\ DOMAIN Tail(q) = 1 .. Len(q) - 1 /\ \A j \in 1 .. Len(q) - 1 : Tail(q)[j] = q[j + 1]
<1>1. PICK S : q \in Seq(S)
  BY DEF IsSeq
<1>2. /\ Tail(q) \in Seq(S) /\ Len(Tail(q)) = Len(q) - 1
      /\ \A j \in 1 .. Len(Tail(q)) : Tail(q)[j] = q[j + 1] /\ Len(q) \in Nat \ {0}
  BY <1>1, HeadTailProperties
<1>3. Len(q) \in Nat \ {0}
  BY <1>1
<1>4. QED BY <1>1, <1>2, <1>3 DEF IsSeq

LEMMA ConcatIs ==
  ASSUME NEW q, IsSeq(q), NEW r, IsSeq(r)
  PROVE  /\ IsSeq(q \o r) /\ Len(q) \in Nat /\ DOMAIN q = 1 .. Len(q)
         /\ Len(r) \in Nat /\ DOMAIN r = 1 .. Len(r)
         /\ DOMAIN (q \o r) = 1 .. Len(q) + Len(r)
         /\ \A j \in 1 .. Len(q) + Len(r) : (q \o r)[j] = IF j <= Len(q) THEN q[j] ELSE r[j - Len(q)]
<1>1. PICK S : q \in Seq(S)
  BY DEF IsSeq
<1>2. PICK T : r \in Seq(T)
  BY DEF IsSeq
<1> DEFINE U == S \cup T
<1>3. q \in Seq(U) /\ r \in Seq(U)
  BY <1>1, <1>2
<1> HIDE DEF U
<1>4. q \o r \in Seq(U) /\ Len(q \o r) = Len(q) + Len(r)
  BY <1>3, ConcatProperties
<1>5. QED BY <1>3, <1>4, ConcatProperties DEF IsSeq

LEMMA EmptyIs == IsSeq(<<>>) /\ ToSet(<<>>) = {} /\ DOMAIN <<>> = {}
BY DEF IsSeq, ToSet

LEMMA SetOfAppend ==
  ASSUME NEW q, IsSeq(q), NEW p
  PROVE  ToSet(Append(q, p)) = ToSet(q) \cup {p}
BY AppendIs DEF ToSet

LEMMA SetOfTail ==
  ASSUME NEW q, IsSeq(q), q # <<>>
  PROVE  ToSet(Tail(q)) \subseteq ToSet(q) /\ Head(q) \in ToSet(q) /\ ToSet(q) = ToSet(Tail(q)) \cup {Head(q)}
<1>1. \A j \in DOMAIN q : j = 1 \/ (j - 1 \in DOMAIN Tail(q) /\ Tail(q)[j - 1] = q[j])
  BY TailIs
<1>2. \A j \in DOMAIN Tail(q) : j + 1 \in DOMAIN q /\ Tail(q)[j] = q[j + 1]
  BY TailIs
<1>3. 1 \in DOMAIN q /\ Head(q) = q[1]
  BY TailIs
<1>4. QED BY <1>1, <1>2, <1>3 DEF ToSet

LEMMA SetOfConcat ==
  ASSUME NEW q, IsSeq(q), NEW r, IsSeq(r)
  PROVE  ToSet(q \o r) = ToSet(q) \cup ToSet(r)
<1> DEFINE t == q \o r
           n == Len(q)
           m == Len(r)
<1>1. /\ n \in Nat /\ DOMAIN q = 1 .. n /\ m \in Nat /\ DOMAIN r = 1 .. m /\ DOMAIN t = 1 .. n + m
      /\ \A j \in 1 .. n + m : t[j] = IF j <= n THEN q[j] ELSE r[j - n]
  BY ConcatIs
<1> HIDE DEF t, n, m
<1>2. \A j \in DOMAIN t : \/ j \in DOMAIN q /\ t[j] = q[j]
                          \/ j - n \in DOMAIN r /\ t[j] = r[j - n]
  BY <1>1
<1>3. \A j \in DOMAIN q : j \in DOMAIN t /\ t[j] = q[j]
  BY <1>1
<1>4. \A j \in DOMAIN r : j + n \in DOMAIN t /\ t[j + n] = r[j]
  BY <1>1
<1>5. ToSet(t) = ToSet(q) \cup ToSet(r)
  BY <1>2, <1>3, <1>4 DEF ToSet
<1>6. QED BY <1>5 DEF t

-----------------------------------------------------------------------------
(* Packets of the types K with identifier id: tokens of one exchange. *)
Tok(p, K, id) == p.type \in K /\ p.id = id
NoTok(q, K, id) == \A p \in ToSet(q) : ~Tok(p, K, id)
OneTok(q, K, id) == \A i, j \in DOMAIN q : Tok(q[i], K, id) /\ Tok(q[j], K, id) => i = j

LEMMA TokEmpty == ASSUME NEW K, NEW id PROVE NoTok(<<>>, K, id) /\ OneTok(<<>>, K, id)
BY EmptyIs DEF NoTok, OneTok

LEMMA TokAppend ==
  ASSUME NEW q, IsSeq(q), NEW p, NEW K, NEW id
  PROVE  /\ NoTok(q, K, id) /\ ~Tok(p, K, id) => NoTok(Append(q, p), K, id)
         /\ OneTok(q, K, id) /\ (~Tok(p, K, id) \/ NoTok(q, K, id)) => OneTok(Append(q, p), K, id)
<1>1. NoTok(q, K, id) /\ ~Tok(p, K, id) => NoTok(Append(q, p), K, id)
  BY SetOfAppend DEF NoTok
<1>2. ASSUME OneTok(q, K, id), ~Tok(p, K, id) \/ NoTok(q, K, id)
      PROVE  OneTok(Append(q, p), K, id)
  <2>1. \A j \in DOMAIN q : q[j] \in ToSet(q)
    BY DEF ToSet
  <2>2. \A j \in DOMAIN Append(q, p) : \/ j \in DOMAIN q /\ Append(q, p)[j] = q[j]
                                       \/ j = Len(q) + 1 /\ Append(q, p)[j] = p
    BY AppendIs
  <2>3. QED BY <1>2, <2>1, <2>2 DEF OneTok, NoTok
<1>3. QED BY <1>1, <1>2

LEMMA TokTail ==
  ASSUME NEW q, IsSeq(q), q # <<>>, NEW K, NEW id
  PROVE  /\ NoTok(q, K, id) => NoTok(Tail(q), K, id)
         /\ OneTok(q, K, id) => OneTok(Tail(q), K, id)
         /\ OneTok(q, K, id) /\ Tok(Head(q), K, id) => NoTok(Tail(q), K, id)
<1>1. NoTok(q, K, id) => NoTok(Tail(q), K, id)
  BY SetOfTail DEF NoTok
<1>2. \A j \in DOMAIN Tail(q) : j \in Int /\ j > 0 /\ j + 1 \in DOMAIN q /\ Tail(q)[j] = q[j + 1]
  BY TailIs
<1>3. OneTok(q, K, id) => OneTok(Tail(q), K, id)
  <2> SUFFICES ASSUME OneTok(q, K, id), NEW i \in DOMAIN Tail(q), NEW j \in DOMAIN Tail(q),
                      Tok(Tail(q)[i], K, id), Tok(Tail(q)[j], K, id)
               PROVE  i = j
    BY DEF OneTok
  <2>1. i + 1 = j + 1
    BY <1>2 DEF OneTok
  <2>2. QED BY <1>2, <2>1
<1>4. ASSUME OneTok(q, K, id), Tok(Head(q), K, id)
      PROVE  NoTok(Tail(q), K, id)
  <2>1. 1 \in DOMAIN q /\ Head(q) = q[1]
    BY TailIs
  <2>2. ASSUME NEW j \in DOMAIN Tail(q), Tok(Tail(q)[j], K, id) PROVE FALSE
    <3>1. j + 1 = 1
      BY <1>2, <1>4, <2>1, <2>2 DEF OneTok
    <3>2. QED BY <1>2, <3>1
  <2>3. QED BY <2>2 DEF NoTok, ToSet
<1>5. QED BY <1>1, <1>3, <1>4
-----------------------------------------------------------------------------

(* A sequence with packets taken out. *)
Thinner(q, r) ==
    IsSeq(r) /\ ToSet(r) \subseteq ToSet(q) /\ \A K, id : OneTok(q, K, id) => OneTok(r, K, id)

LEMMA Thins ==
  ASSUME NEW q, IsSeq(q)
  PROVE  Thinner(q, q) /\ Thinner(q, <<>>) /\ (q # <<>> => Thinner(q, Tail(q)))
<1>1. Thinner(q, q)
  BY DEF Thinner
<1>2. Thinner(q, <<>>)
  BY EmptyIs, TokEmpty DEF Thinner
<1>3. q # <<>> => Thinner(q, Tail(q))
  BY TailIs, SetOfTail, TokTail DEF Thinner
<1>4. QED BY <1>1, <1>2, <1>3

LEMMA ThinNoTok ==
  ASSUME NEW q, NEW r, Thinner(q, r), NEW K, NEW id, NoTok(q, K, id)
  PROVE  NoTok(r, K, id)
BY DEF Thinner, NoTok

(* A connection, and the tokens of types U that go up and D that go down. *)
IsConn(v) ==
    /\ {"up", "down", "client", "broker", "cut"} \subseteq DOMAIN v
    /\ IsSeq(v.up) /\ IsSeq(v.down)

Idle(v, U, D, id) == NoTok(v.up, U, id) /\ NoTok(v.down, D, id)
Single(v, U, D, id) ==
    /\ OneTok(v.up, U, id) /\ OneTok(v.down, D, id)
    /\ NoTok(v.up, U, id) \/ NoTok(v.down, D, id)

SameSides(v, u) == u.client = v.client /\ u.broker = v.broker /\ u.cut = v.cut

WithUp(v, p) ==
    IF v.cut \/ v.broker = "closed" THEN v ELSE [v EXCEPT !.up = Append(@, p)]

UpRest(v) == [v EXCEPT !.up = Tail(@)]
DownRest(v) == [v EXCEPT !.down = Tail(@)]

(* Packets were taken off connection v. *)
Shrunk(v, u) == IsConn(u) /\ Thinner(v.up, u.up) /\ Thinner(v.down, u.down)

LEMMA ShrunkTok ==
  ASSUME NEW v, NEW u, Shrunk(v, u), NEW U, NEW D, NEW id
  PROVE  (Idle(v, U, D, id) => Idle(u, U, D, id)) /\ (Single(v, U, D, id) => Single(u, U, D, id))
BY ThinNoTok DEF Shrunk, Thinner, Idle, Single

LEMMA UpRestIs ==
  ASSUME NEW v, IsConn(v), v.up # <<>>
  PROVE  /\ Shrunk(v, UpRest(v)) /\ SameSides(v, UpRest(v)) /\ UpRest(v).down = v.down
         /\ UpRest(v).up = Tail(v.up) /\ Head(v.up) \in ToSet(v.up)
         /\ \A U, D, id : Single(v, U, D, id) /\ Tok(Head(v.up), U, id) => Idle(UpRest(v), U, D, id)
<1> DEFINE u == UpRest(v)
<1>1. /\ u.up = Tail(v.up) /\ u.down = v.down /\ SameSides(v, u)
      /\ {"up", "down", "client", "broker", "cut"} \subseteq DOMAIN u
  BY DEF UpRest, IsConn, SameSides
<1> HIDE DEF u
<1>2. Shrunk(v, u)
  BY <1>1, Thins DEF Shrunk, IsConn, Thinner
<1>3. ASSUME NEW U, NEW D, NEW id, Single(v, U, D, id), Tok(Head(v.up), U, id)
      PROVE  Idle(u, U, D, id)
  <2>1. NoTok(u.up, U, id)
    BY <1>1, <1>3, TokTail DEF IsConn, Single
  <2>2. Head(v.up) \in ToSet(v.up)
    BY SetOfTail DEF IsConn
  <2>3. NoTok(u.down, D, id)
    BY <1>1, <1>3, <2>2 DEF Single, NoTok
  <2>4. QED BY <2>1, <2>3 DEF Idle
<1>4. QED BY <1>1, <1>2, <1>3, SetOfTail DEF u, IsConn

LEMMA DownRestIs ==
  ASSUME NEW v, IsConn(v), v.down # <<>>
  PROVE  /\ Shrunk(v, DownRest(v)) /\ SameSides(v, DownRest(v)) /\ DownRest(v).up = v.up
         /\ DownRest(v).down = Tail(v.down) /\ Head(v.down) \in ToSet(v.down)
         /\ \A U, D, id : Single(v, U, D, id) /\ Tok(Head(v.down), D, id) => Idle(DownRest(v), U, D, id)
<1> DEFINE u == DownRest(v)
<1>1. /\ u.down = Tail(v.down) /\ u.up = v.up /\ SameSides(v, u)
      /\ {"up", "down", "client", "broker", "cut"} \subseteq DOMAIN u
  BY DEF DownRest, IsConn, SameSides
<1> HIDE DEF u
<1>2. Shrunk(v, u)
  BY <1>1, Thins DEF Shrunk, IsConn, Thinner
<1>3. ASSUME NEW U, NEW D, NEW id, Single(v, U, D, id), Tok(Head(v.down), D, id)
      PROVE  Idle(u, U, D, id)
  <2>1. NoTok(u.down, D, id)
    BY <1>1, <1>3, TokTail DEF IsConn, Single
  <2>2. Head(v.down) \in ToSet(v.down)
    BY SetOfTail DEF IsConn
  <2>3. NoTok(u.up, U, id)
    BY <1>1, <1>3, <2>2 DEF Single, NoTok
  <2>4. QED BY <2>1, <2>3 DEF Idle
<1>4. QED BY <1>1, <1>2, <1>3, SetOfTail DEF u, IsConn

(* A packet is put on a connection. *)
LEMMA WithUpIs ==
  ASSUME NEW v, IsConn(v), NEW p
  PROVE  LET u == WithUp(v, p) IN
         /\ IsConn(u) /\ SameSides(v, u) /\ u.down = v.down
         /\ ToSet(v.up) \subseteq ToSet(u.up) /\ ToSet(u.up) \subseteq ToSet(v.up) \cup {p}
         /\ \A U, D, id : Idle(v, U, D, id) /\ ~Tok(p, U, id) => Idle(u, U, D, id)
         /\ \A U, D, id : Single(v, U, D, id) /\ (~Tok(p, U, id) \/ Idle(v, U, D, id)) => Single(u, U, D, id)
<1> DEFINE u == WithUp(v, p)
<1>1. CASE u = v
  BY <1>1 DEF SameSides
<1>2. CASE u = [v EXCEPT !.up = Append(@, p)]
  <2>1. /\ u.up = Append(v.up, p) /\ u.down = v.down /\ SameSides(v, u)
        /\ {"up", "down", "client", "broker", "cut"} \subseteq DOMAIN u
    BY <1>2 DEF IsConn, SameSides
  <2> HIDE DEF u
  <2>2. IsConn(u) /\ ToSet(u.up) = ToSet(v.up) \cup {p}
    BY <2>1, AppendIs, SetOfAppend DEF IsConn
  <2>3. ASSUME NEW U, NEW D, NEW id, Idle(v, U, D, id), ~Tok(p, U, id)
        PROVE  Idle(u, U, D, id)
    BY <2>1, <2>3, TokAppend DEF Idle, IsConn
  <2>4. ASSUME NEW U, NEW D, NEW id, Single(v, U, D, id), ~Tok(p, U, id) \/ Idle(v, U, D, id)
        PROVE  Single(u, U, D, id)
    <3>1. OneTok(u.up, U, id)
      BY <2>1, <2>4, TokAppend DEF Single, Idle, IsConn
    <3>2. NoTok(u.up, U, id) \/ NoTok(u.down, D, id)
      BY <2>1, <2>4, TokAppend DEF Single, Idle, IsConn
    <3>3. QED BY <2>1, <2>4, <3>1, <3>2 DEF Single
  <2>5. QED BY <2>1, <2>2, <2>3, <2>4 DEF u
<1>3. u \in {v, [v EXCEPT !.up = Append(@, p)]}
  BY DEF WithUp
<1>4. QED BY <1>1, <1>2, <1>3

LEMMA WithDownIs ==
  ASSUME NEW v, IsConn(v), NEW p
  PROVE  LET u == WithDown(v, p) IN
         /\ IsConn(u) /\ SameSides(v, u) /\ u.up = v.up
         /\ ToSet(v.down) \subseteq ToSet(u.down) /\ ToSet(u.down) \subseteq ToSet(v.down) \cup {p}
         /\ \A U, D, id : Idle(v, U, D, id) /\ ~Tok(p, D, id) => Idle(u, U, D, id)
         /\ \A U, D, id : Single(v, U, D, id) /\ (~Tok(p, D, id) \/ Idle(v, U, D, id)) => Single(u, U, D, id)
<1> DEFINE u == WithDown(v, p)
<1>1. CASE u = v
  BY <1>1 DEF SameSides
<1>2. CASE u = [v EXCEPT !.down = Append(@, p)]
  <2>1. /\ u.down = Append(v.down, p) /\ u.up = v.up /\ SameSides(v, u)
        /\ {"up", "down", "client", "broker", "cut"} \subseteq DOMAIN u
    BY <1>2 DEF IsConn, SameSides
  <2> HIDE DEF u
  <2>2. IsConn(u) /\ ToSet(u.down) = ToSet(v.down) \cup {p}
    BY <2>1, AppendIs, SetOfAppend DEF IsConn
  <2>3. ASSUME NEW U, NEW D, NEW id, Idle(v, U, D, id), ~Tok(p, D, id)
        PROVE  Idle(u, U, D, id)
    BY <2>1, <2>3, TokAppend DEF Idle, IsConn
  <2>4. ASSUME NEW U, NEW D, NEW id, Single(v, U, D, id), ~Tok(p, D, id) \/ Idle(v, U, D, id)
        PROVE  Single(u, U, D, id)
    <3>1. OneTok(u.down, D, id)
      BY <2>1, <2>4, TokAppend DEF Single, Idle, IsConn
    <3>2. NoTok(u.up, U, id) \/ NoTok(u.down, D, id)
      BY <2>1, <2>4, TokAppend DEF Single, Idle, IsConn
    <3>3. QED BY <2>1, <2>4, <3>1, <3>2 DEF Single
  <2>5. QED BY <2>1, <2>2, <2>3, <2>4 DEF u
<1>3. u \in {v, [v EXCEPT !.down = Append(@, p)]}
  BY DEF WithDown
<1>4. QED BY <1>1, <1>2, <1>3
-----------------------------------------------------------------------------
(* The exchanges that a client starts.  The token of an exchange of QoS 1   *)
(* or 2 is at one place: on its way up, on its way down, or with an end.    *)
Ids == 1 .. IdMax
UpA == {"publish", "pubrel"}
DownA == {"puback", "pubrec", "pubcomp"}

IsClient(s) ==
    /\ {"conn", "phase", "connected", "ping", "clean", "keep", "present", "out", "inc", "req", "next"}
           \subseteq DOMAIN s
    /\ (s.phase # "idle" \/ s.connected => s.conn # 0) /\ s.next \in Nat
    /\ s.out = [i \in Entries |-> s.out[i]]
    /\ \A i \in Used(s.out) : {"state", "id", "qos", "retain", "m"} \subseteq DOMAIN s.out[i]

First(q) == IF q = 1 THEN "await_puback" ELSE "await_pubrec"

(* The entry of an outgoing message, in the history a of the applications. *)
EntryOK(e, a) ==
    /\ e.id \in Ids /\ e.m \in Messages /\ e.m <= a.sent /\ e.qos = a.plan.pubs[e.m].qos
    /\ \/ e.qos = 1 /\ e.state = "await_puback"
       \/ e.qos = 2 /\ e.state \in {"await_pubrec", "await_pubcomp"}

Tables(s, a) ==
    /\ \A i \in Used(s.out) : EntryOK(s.out[i], a)
    /\ \A i, j \in Used(s.out) : s.out[i].id = s.out[j].id => i = j

Awaits(s, id, st) == \E i \in Used(s.out) : s.out[i].id = id /\ s.out[i].state = st

(* What a packet on its way says about the client. *)
UpOK(s, p) ==
    /\ p.type = "publish" =>
         \/ p.qos = 0 /\ p.id = 0
         \/ \E i \in Used(s.out) : LET e == s.out[i] IN
               e.id = p.id /\ e.m = p.m /\ e.qos = p.qos /\ e.state = First(p.qos)
    /\ p.type = "pubrel" => Awaits(s, p.id, "await_pubcomp") /\ p = IdPacket("pubrel", p.id)

DownOK(s, p) ==
    /\ p.type = "puback" => Awaits(s, p.id, "await_puback") /\ p = IdPacket("puback", p.id)
    /\ p.type = "pubrec" => Awaits(s, p.id, "await_pubrec") /\ p = IdPacket("pubrec", p.id)
    /\ p.type = "pubcomp" => Awaits(s, p.id, "await_pubcomp") /\ p = IdPacket("pubcomp", p.id)

Talk(s, v) ==
    /\ \A p \in ToSet(v.up) : UpOK(s, p)
    /\ \A p \in ToSet(v.down) : DownOK(s, p)
    /\ \A id \in Ids : Single(v, UpA, DownA, id)
    /\ s.phase # "idle" => \A id \in Ids : Idle(v, UpA, DownA, id)
    /\ s.phase # "wait" => v.broker # "backlog"
    /\ v.broker = "backlog" => v.down = <<>>

(* inc is the broker's table of the QoS 2 messages it holds for the client, *)
(* resumed are the messages that were sent again over a new connection.     *)
Link(s, v, inc, resumed) ==
    /\ \A e \in inc : \E i \in Used(s.out) : s.out[i].id = e.id /\ s.out[i].m = e.m /\ s.out[i].qos = 2
    /\ \A e \in inc : IdPacket("pubcomp", e.id) \notin ToSet(v.down)
    /\ s.phase # "idle" => inc = {}
    /\ \A i \in Used(s.out) :
         /\ s.out[i].m \notin resumed
         /\ IdPacket("pubrec", s.out[i].id) \in ToSet(v.down) \/ IdPacket("pubrel", s.out[i].id) \in ToSet(v.up)
         => \E e \in inc : e.id = s.out[i].id /\ e.m = s.out[i].m

Forwarded(s, v, fwd, resumed) ==
    \A i \in Used(s.out) : LET o == s.out[i] IN
       /\ IdPacket("puback", o.id) \in ToSet(v.down) => fwd[o.m] > 0
       /\ IdPacket("pubcomp", o.id) \in ToSet(v.down) => fwd[o.m] > 0 \/ o.m \in resumed

LEMMA IdPacketIs == ASSUME NEW t, NEW id PROVE IdPacket(t, id).type = t /\ IdPacket(t, id).id = id
BY DEF IdPacket

LEMMA ShrunkTalk ==
  ASSUME NEW s, NEW v, NEW u, Talk(s, v), Shrunk(v, u),
         u.broker = "backlog" => v.broker = "backlog"
  PROVE  Talk(s, u)
<1>1. \A id \in Ids : Single(u, UpA, DownA, id) /\ (Idle(v, UpA, DownA, id) => Idle(u, UpA, DownA, id))
  BY ShrunkTok DEF Talk
<1>2. ToSet(u.up) \subseteq ToSet(v.up) /\ ToSet(u.down) \subseteq ToSet(v.down) /\ IsSeq(u.down)
  BY DEF Shrunk, Thinner
<1>3. u.broker = "backlog" => u.down = <<>>
  <2>1. ASSUME u.broker = "backlog" PROVE ToSet(u.down) = {}
    BY <1>2, <2>1, EmptyIs DEF Talk
  <2>2. u.down # <<>> => ToSet(u.down) # {}
    BY <1>2, SetOfTail
  <2>3. QED BY <2>1, <2>2
<1>4. QED BY <1>1, <1>2, <1>3 DEF Talk

LEMMA ShrunkLink ==
  ASSUME NEW s, NEW v, NEW u, Shrunk(v, u), NEW inc, NEW resumed, NEW fwd
  PROVE  /\ Link(s, v, inc, resumed) => Link(s, u, inc, resumed)
         /\ Forwarded(s, v, fwd, resumed) => Forwarded(s, u, fwd, resumed)
<1>1. ToSet(u.up) \subseteq ToSet(v.up) /\ ToSet(u.down) \subseteq ToSet(v.down)
  BY DEF Shrunk, Thinner
<1>2. QED BY <1>1 DEF Link, Forwarded

(* The broker sends a packet of another exchange. *)
LEMMA ForeignDown ==
  ASSUME NEW s, NEW v, IsConn(v), Talk(s, v), v.broker # "backlog", NEW p, p.type \notin DownA
  PROVE  /\ IsConn(WithDown(v, p)) /\ Talk(s, WithDown(v, p))
         /\ \A inc, resumed : Link(s, v, inc, resumed) => Link(s, WithDown(v, p), inc, resumed)
         /\ \A fwd, resumed : Forwarded(s, v, fwd, resumed) => Forwarded(s, WithDown(v, p), fwd, resumed)
<1> DEFINE u == WithDown(v, p)
<1>1. /\ IsConn(u) /\ SameSides(v, u) /\ u.up = v.up
      /\ ToSet(u.down) \subseteq ToSet(v.down) \cup {p}
      /\ \A U, D, id : Idle(v, U, D, id) /\ ~Tok(p, D, id) => Idle(u, U, D, id)
      /\ \A U, D, id : Single(v, U, D, id) /\ (~Tok(p, D, id) \/ Idle(v, U, D, id)) => Single(u, U, D, id)
  BY WithDownIs
<1> HIDE DEF u
<1>2. \A id : ~Tok(p, DownA, id)
  BY DEF Tok
<1>3. \A t \in DownA : \A id : IdPacket(t, id) \in ToSet(u.down) => IdPacket(t, id) \in ToSet(v.down)
  BY <1>1, IdPacketIs
<1>4. DownOK(s, p)
  BY DEF DownOK, DownA
<1>5. Talk(s, u)
  BY <1>1, <1>2, <1>4 DEF Talk, SameSides
<1>6. ASSUME NEW inc, NEW resumed, Link(s, v, inc, resumed) PROVE Link(s, u, inc, resumed)
  BY <1>1, <1>3, <1>6 DEF Link, DownA
<1>7. ASSUME NEW fwd, NEW resumed, Forwarded(s, v, fwd, resumed) PROVE Forwarded(s, u, fwd, resumed)
  BY <1>3, <1>7 DEF Forwarded, DownA
<1>8. QED BY <1>1, <1>5, <1>6, <1>7 DEF u

(* The broker answers in an exchange that is in its hands. *)
LEMMA AnswerDown ==
  ASSUME NEW s, NEW v, IsConn(v), Talk(s, v), v.broker # "backlog", NEW t \in DownA, NEW id \in Ids,
         Idle(v, UpA, DownA, id), DownOK(s, IdPacket(t, id)), s.phase = "idle"
  PROVE  LET u == WithDown(v, IdPacket(t, id)) IN
         /\ IsConn(u) /\ Talk(s, u) /\ u.up = v.up /\ ToSet(u.down) \subseteq ToSet(v.down) \cup {IdPacket(t, id)}
<1> DEFINE p == IdPacket(t, id)
           u == WithDown(v, p)
<1>1. /\ IsConn(u) /\ SameSides(v, u) /\ u.up = v.up
      /\ ToSet(u.down) \subseteq ToSet(v.down) \cup {p}
      /\ \A U, D, n : Single(v, U, D, n) /\ (~Tok(p, D, n) \/ Idle(v, U, D, n)) => Single(u, U, D, n)
  BY WithDownIs
<1> HIDE DEF u
<1>2. \A n : Tok(p, DownA, n) => n = id
  BY IdPacketIs DEF Tok
<1> HIDE DEF p
<1>3. \A n \in Ids : Single(u, UpA, DownA, n)
  BY <1>1, <1>2 DEF Talk
<1>4. DownOK(s, p)
  BY DEF p
<1>5. Talk(s, u)
  BY <1>1, <1>3, <1>4 DEF Talk, SameSides
<1>6. QED BY <1>1, <1>5 DEF u, p
-----------------------------------------------------------------------------

Alive(t, k) == t.conn = k /\ ~t.closing

(* A slot serves an open connection. *)
Open(x) == \A i \in Slots : x.b.slots[i].conn # 0 =>
              x.b.slots[i].conn \in DOMAIN x.w /\ x.w[x.b.slots[i].conn].broker = "open"

Based(x) ==
    /\ IsWorld(x) /\ Open(x) /\ OneSlot(x)
    /\ \A k \in DOMAIN x.w : IsConn(x.w[k])
    /\ x.log.fwd \in [Messages -> Nat]

(* Client s is connected in world x. *)
Party(x, s, a) ==
    LET v == x.w[s.conn] IN
    /\ Talk(s, v) /\ Forwarded(s, v, x.log.fwd, a.resumed)
    /\ \A i \in Slots : Alive(x.b.slots[i], s.conn) => Link(s, v, x.b.slots[i].inc, a.resumed)

Dialler(cl, x) ==
    /\ cl = [c \in Clients |-> cl[c]]
    /\ \A c \in Clients : IsClient(cl[c]) /\ (cl[c].conn # 0 => cl[c].conn \in DOMAIN x.w)
    /\ \A c, d \in Clients : cl[c].conn = cl[d].conn => c = d \/ cl[c].conn = 0

Exchanges(x, cl, a) ==
    /\ Dialler(cl, x)
    /\ \A c \in Clients : Tables(cl[c], a) /\ (cl[c].conn # 0 => Party(x, cl[c], a))

(* What a step of the broker does to a connection that it does not answer. *)
Calm(v, u) ==
    \/ Shrunk(v, u) /\ u.broker = v.broker
    \/ v.broker # "backlog" /\ \E p : p.type \notin DownA /\ u = WithDown(v, p)

Grows(x, y) == y.log.fwd \in [Messages -> Nat] /\ \A m \in Messages : y.log.fwd[m] >= x.log.fwd[m]

(* ... and to the slots of such a connection. *)
SameTables(s, t) == t.conn = s.conn /\ (~t.closing => ~s.closing) /\ t.inc = s.inc

CalmWorld(x, y) ==
    /\ IsWorld(y) /\ DOMAIN y.w = DOMAIN x.w /\ Grows(x, y)
    /\ \A k \in DOMAIN x.w : Calm(x.w[k], y.w[k])
    /\ \A i \in Slots : SameTables(x.b.slots[i], y.b.slots[i])

LEMMA ConnRefl == ASSUME NEW v, IsConn(v) PROVE Shrunk(v, v)
BY Thins DEF Shrunk, IsConn

LEMMA CalmConn ==
  ASSUME NEW v, NEW u, IsConn(v), Calm(v, u)
  PROVE  /\ IsConn(u) /\ u.broker = v.broker /\ ToSet(u.up) \subseteq ToSet(v.up)
         /\ \A id : Idle(v, UpA, DownA, id) => Idle(u, UpA, DownA, id)
<1>1. CASE Shrunk(v, u) /\ u.broker = v.broker
  BY <1>1, ShrunkTok DEF Shrunk, Thinner
<1>2. ASSUME NEW p, p.type \notin DownA, u = WithDown(v, p)
      PROVE  /\ IsConn(u) /\ u.broker = v.broker /\ ToSet(u.up) \subseteq ToSet(v.up)
             /\ \A id : Idle(v, UpA, DownA, id) => Idle(u, UpA, DownA, id)
  <2>1. \A id : ~Tok(p, DownA, id)
    BY <1>2 DEF Tok
  <2>2. QED BY <1>2, <2>1, WithDownIs DEF SameSides
<1>3. QED BY <1>1, <1>2 DEF Calm

LEMMA CalmTalk ==
  ASSUME NEW s, NEW v, NEW u, IsConn(v), Calm(v, u), Talk(s, v)
  PROVE  /\ Talk(s, u)
         /\ \A inc, resumed : Link(s, v, inc, resumed) => Link(s, u, inc, resumed)
         /\ \A fwd, resumed : Forwarded(s, v, fwd, resumed) => Forwarded(s, u, fwd, resumed)
<1>1. CASE Shrunk(v, u) /\ u.broker = v.broker
  BY <1>1, ShrunkTalk, ShrunkLink
<1>2. ASSUME v.broker # "backlog", NEW p, p.type \notin DownA, u = WithDown(v, p)
      PROVE  /\ Talk(s, u)
             /\ \A inc, resumed : Link(s, v, inc, resumed) => Link(s, u, inc, resumed)
             /\ \A fwd, resumed : Forwarded(s, v, fwd, resumed) => Forwarded(s, u, fwd, resumed)
  BY <1>2, ForeignDown
<1>3. QED BY <1>1, <1>2 DEF Calm

LEMMA MoreForwarded ==
  ASSUME NEW s, NEW a, Tables(s, a), NEW v, NEW x, NEW y, x.log.fwd \in [Messages -> Nat], Grows(x, y), NEW resumed,
         Forwarded(s, v, x.log.fwd, resumed)
  PROVE  Forwarded(s, v, y.log.fwd, resumed)
<1>1. \A i \in Used(s.out) : s.out[i].m \in Messages
  BY DEF Tables, EntryOK
<1>2. \A m \in Messages : x.log.fwd[m] > 0 => y.log.fwd[m] > 0
  BY DEF Grows
<1>3. QED BY <1>1, <1>2 DEF Forwarded

LEMMA CalmBased ==
  ASSUME NEW x, NEW y, Based(x), CalmWorld(x, y)
  PROVE  Based(y)
<1>1. \A k \in DOMAIN x.w : IsConn(y.w[k]) /\ y.w[k].broker = x.w[k].broker
  BY CalmConn DEF Based, CalmWorld
<1>2. Open(y)
  BY <1>1 DEF Open, Based, CalmWorld, SameTables
<1>3. OneSlot(y)
  BY DEF OneSlot, Based, CalmWorld, SameTables
<1>4. QED BY <1>1, <1>2, <1>3 DEF Based, CalmWorld, Grows

LEMMA CalmParty ==
  ASSUME NEW x, NEW y, Based(x), CalmWorld(x, y), NEW s, NEW a, Tables(s, a), s.conn \in DOMAIN x.w, Party(x, s, a)
  PROVE  Party(y, s, a)
<1> DEFINE v == x.w[s.conn]
           u == y.w[s.conn]
<1>1. IsConn(v) /\ Calm(v, u) /\ Talk(s, v)
  BY DEF Based, CalmWorld, Party
<1>2. Talk(s, u) /\ Forwarded(s, u, x.log.fwd, a.resumed)
  BY <1>1, CalmTalk DEF Party
<1>3. Forwarded(s, u, y.log.fwd, a.resumed)
  BY <1>2, MoreForwarded DEF Based, CalmWorld
<1>4. ASSUME NEW i \in Slots, Alive(y.b.slots[i], s.conn)
      PROVE  Link(s, u, y.b.slots[i].inc, a.resumed)
  <2>1. Alive(x.b.slots[i], s.conn) /\ y.b.slots[i].inc = x.b.slots[i].inc
    BY <1>4 DEF Alive, CalmWorld, SameTables
  <2>2. QED BY <1>1, <2>1, CalmTalk DEF Party
<1>5. QED BY <1>2, <1>3, <1>4 DEF Party

LEMMA CalmExchanges ==
  ASSUME NEW x, NEW y, Based(x), CalmWorld(x, y), NEW cl, NEW a, Exchanges(x, cl, a)
  PROVE  Exchanges(y, cl, a)
BY CalmParty DEF Exchanges, Dialler, CalmWorld

(* The broker answers over connection k, other connections stay calm. *)
CalmBut(x, y, k) ==
    /\ IsWorld(y) /\ DOMAIN y.w = DOMAIN x.w /\ Grows(x, y) /\ IsConn(y.w[k]) /\ y.w[k].broker = x.w[k].broker
    /\ \A n \in DOMAIN x.w \ {k} : Calm(x.w[n], y.w[n])
    /\ \A i \in Slots : /\ y.b.slots[i].conn = x.b.slots[i].conn
                        /\ x.b.slots[i].conn # k => SameTables(x.b.slots[i], y.b.slots[i])

LEMMA ButBased ==
  ASSUME NEW x, NEW y, NEW k, Based(x), CalmBut(x, y, k)
  PROVE  Based(y)
<1>1. \A n \in DOMAIN x.w : IsConn(y.w[n]) /\ y.w[n].broker = x.w[n].broker
  BY CalmConn DEF Based, CalmBut
<1>2. Open(y)
  BY <1>1 DEF Open, Based, CalmBut
<1>3. OneSlot(y)
  BY DEF OneSlot, Based, CalmBut
<1>4. QED BY <1>1, <1>2, <1>3 DEF Based, CalmBut, Grows

LEMMA ButExchanges ==
  ASSUME NEW x, NEW y, NEW k, Based(x), CalmBut(x, y, k), NEW cl, NEW a, Exchanges(x, cl, a),
         \A c \in Clients : cl[c].conn = k => Party(y, cl[c], a)
  PROVE  Exchanges(y, cl, a)
<1>1. ASSUME NEW c \in Clients, cl[c].conn # 0, cl[c].conn # k
      PROVE  Party(y, cl[c], a)
  <2> DEFINE s == cl[c]
             v == x.w[s.conn]
             u == y.w[s.conn]
  <2>1. IsConn(v) /\ Calm(v, u) /\ Talk(s, v) /\ Tables(s, a) /\ Party(x, s, a)
    BY <1>1 DEF Based, CalmBut, Party, Exchanges, Dialler
  <2>2. Talk(s, u) /\ Forwarded(s, u, x.log.fwd, a.resumed)
    BY <2>1, CalmTalk DEF Party
  <2>3. Forwarded(s, u, y.log.fwd, a.resumed)
    BY <2>1, <2>2, MoreForwarded DEF Based, CalmBut
  <2>4. ASSUME NEW i \in Slots, Alive(y.b.slots[i], s.conn)
        PROVE  Link(s, u, y.b.slots[i].inc, a.resumed)
    <3>1. Alive(x.b.slots[i], s.conn) /\ y.b.slots[i].inc = x.b.slots[i].inc
      BY <1>1, <2>4 DEF Alive, CalmBut, SameTables
    <3>2. QED BY <2>1, <3>1, CalmTalk DEF Party
  <2>5. QED BY <2>2, <2>3, <2>4 DEF Party
<1>2. QED BY <1>1 DEF Exchanges, Dialler, CalmBut
-----------------------------------------------------------------------------

(* Neither the connections nor the tables of incoming messages change, and  *)
(* nothing is forwarded.                                                    *)
Plain(x, y) ==
    /\ IsWorld(y) /\ y.w = x.w /\ y.log.fwd = x.log.fwd
    /\ \A i \in Slots : SameTables(x.b.slots[i], y.b.slots[i])

LEMMA PlainCalm ==
  ASSUME NEW x, NEW y, Based(x), Plain(x, y)
  PROVE  CalmWorld(x, y)
<1>1. \A k \in DOMAIN x.w : Calm(x.w[k], y.w[k])
  BY ConnRefl DEF Based, Plain, Calm
<1>2. Grows(x, y)
  BY DEF Grows, Based, Plain
<1>3. QED BY <1>1, <1>2 DEF CalmWorld, Plain

LEMMA SessionPlain ==
  ASSUME NEW x, IsWorld(x), NEW c, NEW v
  PROVE  /\ Plain(x, ClearSession(x, c))
         /\ Plain(x, [x EXCEPT !.b.sess[c] = v]) /\ Plain(x, [x EXCEPT !.b.subs[c] = v])
         /\ Plain(x, [x EXCEPT !.b.retained = v]) /\ Plain(x, [x EXCEPT !.log.error = v])
<1>1. IsWorld(ClearSession(x, c)) /\ IsWorld([x EXCEPT !.b.sess[c] = v]) /\ IsWorld([x EXCEPT !.b.subs[c] = v])
      /\ IsWorld([x EXCEPT !.b.retained = v])
  BY SessionQuiet DEF Quiet
<1>2. Plain(x, ClearSession(x, c))
  BY <1>1 DEF Plain, ClearSession, IsWorld, SameTables
<1>3. Plain(x, [x EXCEPT !.b.sess[c] = v]) /\ Plain(x, [x EXCEPT !.b.subs[c] = v])
  BY <1>1 DEF Plain, IsWorld, SameTables
<1>4. Plain(x, [x EXCEPT !.b.retained = v])
  BY <1>1 DEF Plain, IsWorld, SameTables
<1>5. Plain(x, [x EXCEPT !.log.error = v])
  BY DEF Plain, IsWorld, SameTables
<1>6. QED BY <1>2, <1>3, <1>4, <1>5

(* A slot's other fields change. *)
LEMMA SlotPlain ==
  ASSUME NEW x, IsWorld(x), NEW i \in Slots, NEW v, NEW u
  PROVE  /\ Plain(x, [x EXCEPT !.b.slots[i].out = v])
         /\ Plain(x, [x EXCEPT !.b.slots[i].out = v, !.log.settled = u])
<1>1. IsWorld([x EXCEPT !.b.slots[i].out = v]) /\ IsWorld([x EXCEPT !.b.slots[i].out = v, !.log.settled = u])
  BY Zenon, TablesQuiet DEF Quiet
<1>2. Plain(x, [x EXCEPT !.b.slots[i].out = v])
  BY <1>1 DEF Plain, IsWorld, IsSlot, SameTables
<1>3. Plain(x, [x EXCEPT !.b.slots[i].out = v, !.log.settled = u])
  BY <1>1 DEF Plain, IsWorld, IsSlot, SameTables
<1>4. QED BY <1>2, <1>3

LEMMA ClosingPlain ==
  ASSUME NEW x, IsWorld(x), NEW i \in Slots
  PROVE  Plain(x, Closing(x, i)) /\ Closing(x, i).b.slots[i].closing = TRUE
<1> DEFINE y == Closing(x, i)
<1>1. IsWorld(y) /\ y.w = x.w /\ y.log = x.log /\ y.b.slots[i].closing = TRUE
  BY ClosingIs DEF Changed
<1>2. \A j \in Slots : SameTables(x.b.slots[j], y.b.slots[j])
  BY DEF Closing, IsWorld, IsSlot, SameTables
<1> HIDE DEF y
<1>3. Plain(x, y)
  BY <1>1, <1>2 DEF Plain
<1>4. QED BY <1>1, <1>3 DEF y

LEMMA PlainTrans ==
  ASSUME NEW x, NEW y, NEW z, Plain(x, y), Plain(y, z)
  PROVE  Plain(x, z)
BY DEF Plain, SameTables

LEMMA PlainRefl == ASSUME NEW x, IsWorld(x) PROVE Plain(x, x)
BY DEF Plain, SameTables

LEMMA RejectPlain ==
  ASSUME NEW x, IsWorld(x), NEW i \in Slots
  PROVE  Plain(x, Reject(x, i))
<1>1. Plain(x, Closing(x, i))
  BY ClosingPlain
<1>2. Plain(Closing(x, i), Reject(x, i))
  BY <1>1, SessionPlain DEF Reject, Plain
<1>3. QED BY <1>1, <1>2, PlainTrans

LEMMA WillFieldPlain ==
  ASSUME NEW x, IsWorld(x), NEW i \in Slots, NEW k, NEW v
  PROVE  Plain(x, Left(x, i, k)) /\ Plain(x, [x EXCEPT !.b.slots[i].will = v]) /\ Plain(x, Levelled(x, i))
<1>1. IsWorld(Left(x, i, k))
  BY LeftIs DEF IsLeft
<1>2. Plain(x, Left(x, i, k))
  BY <1>1 DEF Plain, Left, IsWorld, IsSlot, SameTables
<1>3. IsWorld([x EXCEPT !.b.slots[i].will = v])
  BY SMTT(30) DEF IsWorld, IsSlot
<1>4. Plain(x, [x EXCEPT !.b.slots[i].will = v])
  BY <1>3 DEF Plain, IsWorld, IsSlot, SameTables
<1>5. IsWorld(Levelled(x, i))
  BY LevelledIs DEF IsLevelled, Changed
<1>6. Plain(x, Levelled(x, i))
  BY <1>5 DEF Plain, Levelled, IsWorld, IsSlot, SameTables
<1>7. QED BY <1>2, <1>4, <1>6

LEMMA TakeOverPlain ==
  ASSUME NEW x, IsWorld(x), NEW i \in Slots, NEW id
  PROVE  Plain(x, TakeOver(x, i, id))
<1> DEFINE y == TakeOver(x, i, id)
           slots == [j \in Slots |-> IF j # i /\ x.b.slots[j].conn # 0 /\ x.b.slots[j].id = id
                                     THEN [x.b.slots[j] EXCEPT !.closing = TRUE, !.will = FALSE]
                                     ELSE x.b.slots[j]]
<1>1. IsWorld(y) /\ y.w = x.w
  BY Zenon, TakeOverIs DEF IsTaken
<1>2. y.b.slots = slots /\ y.log.fwd = x.log.fwd
  BY Zenon DEF TakeOver, IsWorld
<1>3. \A j \in Slots : SameTables(x.b.slots[j], slots[j])
  BY DEF IsWorld, IsSlot, SameTables
<1> HIDE DEF y, slots
<1>4. Plain(x, y)
  BY <1>1, <1>2, <1>3 DEF Plain
<1>5. QED BY <1>4 DEF y

LEMMA AdmittedPlain ==
  ASSUME NEW z, IsWorld(z), NEW i \in Slots, NEW id, NEW o, NEW k
  PROVE  Plain(z, Admitted(z, i, id, o, k))
<1> DEFINE f == IF o.will THEN "armed" ELSE z.log.fate[k]
           v == o.will
           s == [z.b.slots[i] EXCEPT !.id = id, !.opts = o, !.will = v]
           y == [z EXCEPT !.b.slots[i] = s, !.log.fate[k] = f]
<1>1. Admitted(z, i, id, o, k) = y
  BY DEF Admitted, IsWorld
<1>0. IsWorld(Admitted(z, i, id, o, k))
  BY AdmittedIs DEF IsAdmitted
<1> HIDE DEF y
<1>2. IsWorld(y)
  BY <1>0, <1>1
<1> USE DEF y
<1> HIDE DEF f, v
<1>3. SameTables(z.b.slots[i], s)
  BY DEF IsWorld, IsSlot, SameTables
<1> HIDE DEF s
<1>4. y.w = z.w /\ y.log.fwd = z.log.fwd /\ y.b.slots = [z.b.slots EXCEPT ![i] = s]
  BY DEF IsWorld
<1> HIDE DEF y
<1>5. \A j \in Slots : SameTables(z.b.slots[j], y.b.slots[j])
  BY <1>3, <1>4 DEF IsWorld, SameTables
<1>6. Plain(z, y)
  BY <1>2, <1>4, <1>5 DEF Plain
<1>7. QED BY <1>1, <1>6

LEMMA CloseStatePlain ==
  ASSUME NEW x, IsWorld(x), NEW i \in Slots
  PROVE  Plain(x, CloseState(x, i))
BY PlainRefl, SessionPlain DEF CloseState

LEMMA SendCalm ==
  ASSUME NEW x, Based(x), NEW i \in Slots, NEW p, p.type \notin DownA
  PROVE  CalmWorld(x, Send(x, i, p))
<1> DEFINE y == Send(x, i, p)
           k == x.b.slots[i].conn
<1>1. IsWorld(y)
  BY SendQuiet DEF Quiet, Based
<1>2. y.w = Update(x.w, k, WithDown(x.w[k], p)) /\ y.b = x.b /\ y.log = x.log
  BY DEF Send, SendDown, Based, IsWorld
<1> HIDE DEF y
<1>3. DOMAIN y.w = DOMAIN x.w /\ \A n \in DOMAIN x.w : y.w[n] = IF n = k THEN WithDown(x.w[k], p) ELSE x.w[n]
  BY <1>2 DEF Update
<1>4. k \in DOMAIN x.w => x.w[k].broker = "open"
  <2>1. k \in DOMAIN x.w => k # 0
    BY WireDomain DEF Based
  <2>2. QED BY <2>1 DEF Based, Open
<1>5. \A n \in DOMAIN x.w : Calm(x.w[n], y.w[n])
  BY <1>3, <1>4, ConnRefl DEF Calm, Based
<1>6. \A j \in Slots : SameTables(x.b.slots[j], y.b.slots[j])
  BY <1>2 DEF SameTables
<1>7. Grows(x, y)
  BY <1>2 DEF Grows, Based
<1>8. CalmWorld(x, y)
  BY <1>1, <1>3, <1>5, <1>6, <1>7 DEF CalmWorld
<1>9. QED BY <1>8 DEF y

LEMMA SendPublishToCalm ==
  ASSUME NEW x, Based(x), NEW q, DOMAIN q \subseteq Slots, NEW m, NEW r
  PROVE  CalmWorld(x, SendPublishTo(x, q, m, r))
<1> DEFINE sent == {i \in DOMAIN q : q[i] = 0 \/ Cardinality(x.b.slots[i].out) < MaxOutstanding}
           at(k) == CHOOSE i \in sent : x.b.slots[i].conn = k
           slots == [i \in Slots |-> IF i \in sent THEN Entered(x.b.slots[i], m, q[i], r) ELSE x.b.slots[i]]
           wires == [k \in DOMAIN x.w |->
                       IF \E i \in sent : x.b.slots[i].conn = k
                       THEN WithDown(x.w[k], Publication(x.b.slots[at(k)], m, q[at(k)], r)) ELSE x.w[k]]
           y == SendPublishTo(x, q, m, r)
<1>1. y = [x EXCEPT !.b.slots = slots, !.w = wires]
  BY DEF SendPublishTo
<1>2. IsWorld(y)
  BY SendPublishToQuiet DEF Quiet, Based
<1>3. y.b.slots = slots /\ y.w = wires /\ y.log = x.log
  BY <1>1 DEF Based, IsWorld
<1> HIDE DEF y
<1>4. ASSUME NEW i \in Slots
      PROVE  SameTables(x.b.slots[i], slots[i])
  <2>1. IsSlot(x.b.slots[i])
    BY DEF Based, IsWorld
  <2>2. ASSUME NEW o, NEW n PROVE SameTables(x.b.slots[i], [x.b.slots[i] EXCEPT !.out = o, !.next = n])
    BY <2>1 DEF IsSlot, SameTables
  <2>3. SameTables(x.b.slots[i], x.b.slots[i])
    BY DEF SameTables
  <2>4. SameTables(x.b.slots[i], Entered(x.b.slots[i], m, q[i], r))
    BY Zenon, <2>2, <2>3 DEF Entered
  <2>5. QED BY <2>3, <2>4
<1>5. ASSUME NEW k \in DOMAIN x.w
      PROVE  Calm(x.w[k], wires[k])
  <2>1. IsConn(x.w[k]) /\ k # 0
    BY WireDomain DEF Based
  <2>2. CASE \E i \in sent : x.b.slots[i].conn = k
    <3>1. x.w[k].broker = "open"
      BY <2>1, <2>2 DEF Based, Open
    <3>2. Publication(x.b.slots[at(k)], m, q[at(k)], r).type = "publish"
      BY DEF Publication
    <3> DEFINE p == Publication(x.b.slots[at(k)], m, q[at(k)], r)
    <3> HIDE DEF p
    <3>3. wires[k] = WithDown(x.w[k], p)
      BY <2>2 DEF p
    <3>4. p.type \notin DownA
      BY <3>2 DEF p, DownA
    <3>5. QED BY Zenon, <3>1, <3>3, <3>4 DEF Calm
  <2>3. CASE ~\E i \in sent : x.b.slots[i].conn = k
    <3>1. wires[k] = x.w[k]
      BY <2>3
    <3>2. QED BY Zenon, <2>1, <3>1, ConnRefl DEF Calm
  <2>4. QED BY <2>2, <2>3
<1>6. DOMAIN wires = DOMAIN x.w
  OBVIOUS
<1> HIDE DEF slots, wires
<1>7. Grows(x, y)
  BY <1>3 DEF Grows, Based
<1>8. CalmWorld(x, y)
  BY <1>2, <1>3, <1>4, <1>5, <1>6, <1>7 DEF CalmWorld
<1>9. QED BY <1>8 DEF y
-----------------------------------------------------------------------------

(* A step of the broker that leaves the clients' exchanges as they are. *)
Mild(x, y) ==
    /\ Grows(x, y) /\ DOMAIN y.w = DOMAIN x.w /\ Based(y)
    /\ \A k \in DOMAIN x.w :
         /\ y.w[k].broker = x.w[k].broker
         /\ \A id : Idle(x.w[k], UpA, DownA, id) => Idle(y.w[k], UpA, DownA, id)
    /\ \A i \in Slots : SameTables(x.b.slots[i], y.b.slots[i])
    /\ \A cl, a : Exchanges(x, cl, a) => Exchanges(y, cl, a)

LEMMA CalmMild ==
  ASSUME NEW x, NEW y, Based(x), CalmWorld(x, y)
  PROVE  Mild(x, y)
<1>1. Based(y)
  BY CalmBased
<1>2. \A k \in DOMAIN x.w :
         /\ y.w[k].broker = x.w[k].broker
         /\ \A id : Idle(x.w[k], UpA, DownA, id) => Idle(y.w[k], UpA, DownA, id)
  BY CalmConn DEF Based, CalmWorld
<1>3. \A cl, a : Exchanges(x, cl, a) => Exchanges(y, cl, a)
  BY CalmExchanges
<1>4. QED BY <1>1, <1>2, <1>3 DEF Mild, CalmWorld

LEMMA MildTrans ==
  ASSUME NEW x, NEW y, NEW z, x.log.fwd \in [Messages -> Nat], Mild(x, y), Mild(y, z)
  PROVE  Mild(x, z)
<1>1. Grows(x, z)
  BY DEF Mild, Grows
<1>2. \A i \in Slots : SameTables(x.b.slots[i], z.b.slots[i])
  BY DEF Mild, SameTables
<1>3. QED BY <1>1, <1>2 DEF Mild

LEMMA MildRefl == ASSUME NEW x, Based(x) PROVE Mild(x, x)
BY DEF Mild, Grows, SameTables, Based

LEMMA PlainMild ==
  ASSUME NEW x, NEW y, Based(x), Plain(x, y)
  PROVE  Mild(x, y)
BY PlainCalm, CalmMild

LEMMA PublishMessageMild ==
  ASSUME NEW x, Based(x), NEW m, NEW q, NEW r
  PROVE  /\ Mild(x, PublishMessage(x, m, q, r))
         /\ m \in Messages => PublishMessage(x, m, q, r).log.fwd[m] > 0
<1> DEFINE kept == CASE r = "no" -> x.b.retained
                     [] r = "store" -> {[m |-> m, qos |-> q]}
                     [] r = "clear" -> {}
           y == [x EXCEPT !.b.retained = kept]
           z == IF m = Will THEN y ELSE [y EXCEPT !.log.fwd[m] = @ + 1]
           to == [i \in Recipients(x) |-> Lower(q, Max(x.b.subs[x.b.slots[i].id]))]
<1> HIDE DEF kept
<1>1. Mild(x, y)
  BY SessionPlain, PlainMild DEF Based
<1> HIDE DEF y
<1>2. Mild(y, z) /\ (m \in Messages => z.log.fwd[m] > 0)
  <2>1. Based(y)
    BY <1>1 DEF Mild
  <2>2. CASE m = Will
    <3>1. z = y /\ m \notin Messages
      BY <2>2, MqttWireAssumption DEF Will, Messages
    <3>2. QED BY <2>1, <3>1, MildRefl
  <2>3. CASE m # Will
    <3> DEFINE u == [y EXCEPT !.log.fwd[m] = @ + 1]
    <3>1. IsWorld(u)
      BY <2>1, SessionQuiet DEF Quiet, Based
    <3>2. u.w = y.w /\ u.b = y.b /\ u.log.fwd = [y.log.fwd EXCEPT ![m] = @ + 1]
      BY <2>1 DEF Based, IsWorld
    <3> HIDE DEF u
    <3>3. Grows(y, u) /\ (m \in Messages => u.log.fwd[m] > 0)
      <4> DEFINE f == y.log.fwd
      <4>1. f \in [Messages -> Nat] /\ u.log.fwd = [f EXCEPT ![m] = @ + 1]
        BY <2>1, <3>2 DEF Based
      <4> HIDE DEF f
      <4> DEFINE g == u.log.fwd
      <4> HIDE DEF g
      <4>4. /\ DOMAIN g = Messages /\ g = [n \in Messages |-> g[n]]
            /\ \A n \in Messages : f[n] \in Nat /\ g[n] = IF n = m THEN f[n] + 1 ELSE f[n]
        BY <4>1 DEF g
      <4>5. \A n \in Messages : g[n] \in Nat /\ g[n] >= f[n] /\ (n = m => g[n] > 0)
        BY <4>4
      <4>6. g \in [Messages -> Nat]
        BY <4>4, <4>5
      <4>2. /\ u.log.fwd \in [Messages -> Nat] /\ \A n \in Messages : u.log.fwd[n] >= f[n]
            /\ m \in Messages => u.log.fwd[m] > 0
        BY <4>5, <4>6 DEF g
      <4>3. QED BY <4>2 DEF Grows, f
    <3>4. \A k \in DOMAIN y.w : Calm(y.w[k], u.w[k])
      BY <2>1, <3>2, ConnRefl DEF Based, Calm
    <3>5. CalmWorld(y, u)
      BY <3>1, <3>2, <3>3, <3>4 DEF CalmWorld, SameTables
    <3>6. z = u
      BY <2>3 DEF u
    <3>7. QED BY <2>1, <3>3, <3>5, <3>6, CalmMild
  <2>4. QED BY <2>2, <2>3
<1> HIDE DEF z
<1>3. PublishMessage(x, m, q, r) = SendPublishTo(z, to, m, "no")
  BY DEF PublishMessage, kept, y, z
<1>4. DOMAIN to \subseteq Slots
  BY DEF Recipients
<1> HIDE DEF to
<1>5. CalmWorld(z, SendPublishTo(z, to, m, "no"))
  BY <1>2, <1>4, SendPublishToCalm DEF Mild
<1>6. Mild(z, SendPublishTo(z, to, m, "no"))
  BY <1>2, <1>5, CalmMild DEF Mild
<1>7. Mild(x, z)
  BY <1>1, <1>2, MildTrans DEF Based
<1>8. m \in Messages => SendPublishTo(z, to, m, "no").log.fwd[m] > 0
  BY <1>2, <1>5 DEF CalmWorld, Grows, Mild, Based
<1>9. QED BY <1>3, <1>6, <1>7, <1>8, MildTrans DEF Based

(* Slot i still serves its connection, and the clients' exchanges are well. *)
Firm(x, y, i, cl, a) ==
    Based(y) /\ Exchanges(y, cl, a) /\ Grows(x, y) /\ y.b.slots[i].conn = x.b.slots[i].conn

LEMMA MildFirm ==
  ASSUME NEW x, NEW y, Mild(x, y), NEW cl, NEW a, Exchanges(x, cl, a), NEW i \in Slots
  PROVE  Firm(x, y, i, cl, a)
BY DEF Mild, Firm, SameTables

LEMMA FirmTrans ==
  ASSUME NEW x, NEW y, NEW z, NEW cl, NEW a, NEW i, Based(x), Firm(x, y, i, cl, a), Firm(y, z, i, cl, a)
  PROVE  Firm(x, z, i, cl, a)
<1>1. Grows(x, z)
  BY DEF Firm, Grows, Based
<1>2. QED BY <1>1 DEF Firm

-----------------------------------------------------------------------------
(* The broker answers in an exchange that is in its hands.  Client s is the *)
(* one at the other end of the connection of slot i.                        *)
MayAnswer(x, s, a, i, t, id) ==
    LET inc == x.b.slots[i].inc IN
    /\ id \in Ids /\ s.phase = "idle"
    /\ Idle(x.w[s.conn], UpA, DownA, id) /\ DownOK(s, IdPacket(t, id))
    /\ \A j \in Used(s.out) : s.out[j].id = id =>
         /\ t = "puback" => x.log.fwd[s.out[j].m] > 0
         /\ t = "pubcomp" => x.log.fwd[s.out[j].m] > 0 \/ s.out[j].m \in a.resumed
         /\ t = "pubrec" => s.out[j].m \in a.resumed \/ \E e \in inc : e.id = id /\ e.m = s.out[j].m
    /\ t = "pubcomp" => \A e \in inc : e.id # id

LEMMA IdPacketEq ==
  ASSUME NEW t, NEW u, NEW i, NEW j, IdPacket(t, i) = IdPacket(u, j)
  PROVE  t = u /\ i = j
BY IdPacketIs

LEMMA AnswerOk ==
  ASSUME NEW x, NEW cl, NEW a, Based(x), Exchanges(x, cl, a), NEW i \in Slots, x.b.slots[i].conn # 0,
         NEW t \in DownA, NEW id,
         \A c \in Clients : cl[c].conn = x.b.slots[i].conn => MayAnswer(x, cl[c], a, i, t, id)
  PROVE  Firm(x, Send(x, i, IdPacket(t, id)), i, cl, a)
<1> DEFINE p == IdPacket(t, id)
           y == Send(x, i, p)
           k == x.b.slots[i].conn
           v == x.w[k]
           u == WithDown(v, p)
<1>1. IsWorld(y)
  BY SendQuiet DEF Quiet, Based
<1>2. y.w = Update(x.w, k, WithDown(x.w[k], p)) /\ y.b = x.b /\ y.log = x.log
  BY DEF Send, SendDown, Based, IsWorld
<1> HIDE DEF y
<1>3. DOMAIN y.w = DOMAIN x.w /\ \A n \in DOMAIN x.w : y.w[n] = IF n = k THEN u ELSE x.w[n]
  BY <1>2 DEF Update
<1>4. k \in DOMAIN x.w /\ v.broker = "open" /\ IsConn(v)
  BY DEF Based, Open
<1>5. IsConn(u) /\ SameSides(v, u) /\ u.up = v.up /\ ToSet(u.down) \subseteq ToSet(v.down) \cup {p}
  BY ZenonT(30), <1>4, WithDownIs
<1>6. CalmBut(x, y, k)
  <2>1. Grows(x, y)
    BY <1>2 DEF Grows, Based
  <2>2. \A n \in DOMAIN x.w \ {k} : Calm(x.w[n], y.w[n])
    BY <1>3, ConnRefl DEF Calm, Based
  <2>3. \A j \in Slots : SameTables(x.b.slots[j], y.b.slots[j])
    BY <1>2 DEF SameTables
  <2>4. y.w[k] = u
    BY <1>3, <1>4
  <2> HIDE DEF u
  <2>5. QED BY Zenon, <1>1, <1>3, <1>5, <2>1, <2>2, <2>3, <2>4 DEF CalmBut, SameSides, SameTables
<1>7. ASSUME NEW c \in Clients, cl[c].conn = k
      PROVE  Party(y, cl[c], a)
  <2> DEFINE s == cl[c]
             inc == x.b.slots[i].inc
  <2>1. MayAnswer(x, s, a, i, t, id) /\ Party(x, s, a)
    BY <1>7 DEF Exchanges
  <2>2. Talk(s, v) /\ Forwarded(s, v, x.log.fwd, a.resumed)
    BY <1>7, <2>1 DEF Party
  <2>3. Talk(s, u)
    BY ZenonT(30), <1>4, <1>7, <2>1, <2>2, AnswerDown DEF MayAnswer
  <2> HIDE DEF u, p
  <2>4. Forwarded(s, u, x.log.fwd, a.resumed)
    <3>1. \A n \in Ids : \A r : IdPacket(r, n) \in ToSet(u.down) => IdPacket(r, n) \in ToSet(v.down) \/ (r = t
        /\ n = id)
      BY <1>5, IdPacketEq DEF p
    <3>2. \A j \in Used(s.out) : s.out[j].id \in Ids
      BY DEF Exchanges, Tables, EntryOK
    <3>3. QED BY Zenon, <2>1, <2>2, <3>1, <3>2 DEF Forwarded, MayAnswer
  <2>5. ASSUME NEW j \in Slots, Alive(y.b.slots[j], k)
        PROVE  Link(s, u, y.b.slots[j].inc, a.resumed)
    <3>1. j = i
      BY <1>2, <2>5 DEF Alive, Based, OneSlot
    <3>2. Link(s, v, inc, a.resumed) /\ y.b.slots[j].inc = inc
      BY <1>2, <1>7, <2>1, <2>5, <3>1 DEF Party, Alive
    <3>3. \A n, r : IdPacket(r, n) \in ToSet(u.down) => IdPacket(r, n) \in ToSet(v.down) \/ (r = t /\ n = id)
      BY <1>5, IdPacketEq DEF p
    <3> HIDE DEF inc
    <3>4. \A e \in inc : IdPacket("pubcomp", e.id) \notin ToSet(u.down)
      BY <2>1, <3>2, <3>3 DEF Link, MayAnswer, inc
    <3>5. \A n \in Used(s.out) :
         /\ s.out[n].m \notin a.resumed
         /\ IdPacket("pubrec", s.out[n].id) \in ToSet(u.down) \/ IdPacket("pubrel", s.out[n].id) \in ToSet(u.up)
         => \E e \in inc : e.id = s.out[n].id /\ e.m = s.out[n].m
      <4> SUFFICES ASSUME NEW n \in Used(s.out), s.out[n].m \notin a.resumed,
                          \/ IdPacket("pubrec", s.out[n].id) \in ToSet(u.down)
                          \/ IdPacket("pubrel", s.out[n].id) \in ToSet(u.up)
                   PROVE  \E e \in inc : e.id = s.out[n].id /\ e.m = s.out[n].m
        OBVIOUS
      <4>1. CASE t = "pubrec" /\ s.out[n].id = id
        BY <2>1, <4>1 DEF MayAnswer, inc
      <4>2. CASE ~(t = "pubrec" /\ s.out[n].id = id)
        <5>1. \/ IdPacket("pubrec", s.out[n].id) \in ToSet(v.down)
              \/ IdPacket("pubrel", s.out[n].id) \in ToSet(v.up)
          BY ZenonT(30), <1>5, <3>3, <4>2
        <5>2. QED BY ZenonT(30), <3>2, <5>1 DEF Link
      <4>3. QED BY <4>1, <4>2
    <3>6. QED BY <3>2, <3>4, <3>5 DEF Link
  <2>6. y.w[s.conn] = u
    BY <1>3, <1>4, <1>7 DEF u, p
  <2>7. QED BY <1>2, <1>7, <2>3, <2>4, <2>5, <2>6 DEF Party
<1>8. Firm(x, y, i, cl, a)
  BY ZenonT(30), <1>6, <1>7, ButBased, ButExchanges DEF Firm, CalmBut
<1>9. QED BY <1>8 DEF y, p
-----------------------------------------------------------------------------

(* The broker has just taken packet p of client s from the connection of slot i. *)
Received(x, s, a, i, p) ==
    /\ UpOK(s, p)
    /\ \A id \in Ids : Tok(p, UpA, id) => Idle(x.w[s.conn], UpA, DownA, id) /\ s.phase = "idle"
    /\ p.type = "pubrel" =>
         \A j \in Used(s.out) : s.out[j].id = p.id =>
            s.out[j].m \in a.resumed \/ \E e \in x.b.slots[i].inc : e.id = p.id /\ e.m = s.out[j].m

(* The table of incoming messages of slot i becomes inc. *)
WithInc(x, i, inc) == [x EXCEPT !.b.slots[i].inc = inc]

LEMMA IncOk ==
  ASSUME NEW x, NEW cl, NEW a, Based(x), Exchanges(x, cl, a), NEW i \in Slots, x.b.slots[i].conn # 0, NEW inc,
         \A c \in Clients : cl[c].conn = x.b.slots[i].conn /\ ~x.b.slots[i].closing =>
            Link(cl[c], x.w[x.b.slots[i].conn], inc, a.resumed),
         NEW y, y = WithInc(x, i, inc)
  PROVE  /\ Firm(x, y, i, cl, a) /\ y.w = x.w /\ y.log = x.log
         /\ y.b.slots[i].inc = inc /\ y.b.slots[i].conn = x.b.slots[i].conn
<1> DEFINE k == x.b.slots[i].conn
<1>1. IsWorld(y)
  BY Zenon, TablesQuiet DEF Quiet, Based, WithInc
<1>2. y.w = x.w /\ y.log = x.log /\ y.b.slots = [x.b.slots EXCEPT ![i].inc = inc]
  BY DEF Based, IsWorld, WithInc
<1>3. /\ y.b.slots[i].inc = inc /\ y.b.slots[i].conn = k /\ y.b.slots[i].closing = x.b.slots[i].closing
      /\ \A j \in Slots \ {i} : y.b.slots[j] = x.b.slots[j]
  BY <1>2 DEF Based, IsWorld, IsSlot
<1>4. CalmBut(x, y, k)
  <2>1. Grows(x, y)
    BY <1>2 DEF Grows, Based
  <2>2. \A n \in DOMAIN x.w \ {k} : Calm(x.w[n], y.w[n])
    BY <1>2, ConnRefl DEF Calm, Based
  <2>3. k \in DOMAIN x.w /\ IsConn(x.w[k])
    BY DEF Based, Open
  <2>4. \A j \in Slots : /\ y.b.slots[j].conn = x.b.slots[j].conn
                         /\ x.b.slots[j].conn # k => SameTables(x.b.slots[j], y.b.slots[j])
    BY <1>3 DEF SameTables
  <2>5. QED BY <1>1, <1>2, <2>1, <2>2, <2>3, <2>4 DEF CalmBut
<1>5. ASSUME NEW c \in Clients, cl[c].conn = k
      PROVE  Party(y, cl[c], a)
  <2>1. Party(x, cl[c], a) /\ (~x.b.slots[i].closing => Link(cl[c], x.w[k], inc, a.resumed))
    BY <1>5 DEF Exchanges
  <2>2. \A j \in Slots : Alive(y.b.slots[j], k) => j = i
    BY <1>3 DEF Alive, Based, OneSlot
  <2>3. QED BY ZenonT(30), <1>2, <1>3, <1>5, <2>1, <2>2 DEF Party, Alive
<1>6. Firm(x, y, i, cl, a)
  <2>1. Based(y) /\ Exchanges(y, cl, a)
    BY <1>4, <1>5, ButBased, ButExchanges
  <2>2. QED BY <1>3, <1>4, <2>1 DEF Firm, CalmBut
<1>7. QED BY <1>2, <1>3, <1>6

LEMMA PublishOk ==
  ASSUME NEW x, NEW cl, NEW a, Based(x), Exchanges(x, cl, a), NEW i \in Slots, x.b.slots[i].conn # 0,
         ~x.b.slots[i].closing, NEW p, p.type = "publish",
         \A c \in Clients : cl[c].conn = x.b.slots[i].conn => Received(x, cl[c], a, i, p)
  PROVE  Firm(x, BHandlePublish(x, i, p), i, cl, a)
<1> DEFINE k == x.b.slots[i].conn
           known == \E e \in x.b.slots[i].inc : e.id = p.id
           y == PublishMessage(x, p.m, p.qos, p.retain)
           new == [id |-> p.id, m |-> p.m, retain |-> p.retain]
           inc == x.b.slots[i].inc \cup {new}
           z == [x EXCEPT !.b.slots[i].inc = inc]
           u == BHandlePublish(x, i, p)
<1> SUFFICES Firm(x, u, i, cl, a)
  OBVIOUS
<1>1. \/ p.qos = 0 /\ u = y
      \/ p.qos = 1 /\ u = Send(y, i, IdPacket("puback", p.id))
      \/ p.qos = 2 /\ known /\ u = Send(x, i, IdPacket("pubrec", p.id))
      \/ p.qos = 2 /\ u = Send(z, i, IdPacket("pubrec", p.id))
      \/ u = Reject(x, i)
  BY DEF BHandlePublish
<1> HIDE DEF u
<1>2. Mild(x, y) /\ (p.m \in Messages => y.log.fwd[p.m] > 0)
  BY PublishMessageMild
<1> HIDE DEF y
<1>3. ASSUME NEW c \in Clients, cl[c].conn = k, p.qos \in {1, 2}
      PROVE  LET s == cl[c] IN
             /\ p.id \in Ids /\ s.phase = "idle" /\ Idle(x.w[k], UpA, DownA, p.id)
             /\ Awaits(s, p.id, First(p.qos)) /\ p.m \in Messages /\ s.conn = k
             /\ \A j \in Used(s.out) : s.out[j].id = p.id => s.out[j].m = p.m /\ s.out[j].qos = p.qos
             /\ Link(s, x.w[k], x.b.slots[i].inc, a.resumed)
  <2> DEFINE s == cl[c]
  <2>1. Received(x, s, a, i, p) /\ Tables(s, a) /\ Party(x, s, a)
    BY <1>3 DEF Exchanges
  <2>2. PICK j \in Used(s.out) : s.out[j].id = p.id /\ s.out[j].m = p.m /\ s.out[j].qos = p.qos
      /\ s.out[j].state = First(p.qos)
    BY <1>3, <2>1 DEF Received, UpOK
  <2>3. p.id \in Ids /\ p.m \in Messages /\ Awaits(s, p.id, First(p.qos))
    BY <2>1, <2>2 DEF Tables, EntryOK, Awaits
  <2>4. Tok(p, UpA, p.id)
    BY DEF Tok, UpA
  <2>5. Link(s, x.w[k], x.b.slots[i].inc, a.resumed)
    BY <1>3, <2>1 DEF Party, Alive
  <2>6. \A n \in Used(s.out) : s.out[n].id = p.id => n = j
    BY <2>1, <2>2 DEF Tables
  <2>7. QED BY <1>3, <2>1, <2>2, <2>3, <2>4, <2>5, <2>6 DEF Received
<1>4. CASE p.qos = 0 /\ u = y
  BY <1>2, <1>4, MildFirm
<1>5. CASE p.qos = 1 /\ u = Send(y, i, IdPacket("puback", p.id))
  <2>1. Based(y) /\ Exchanges(y, cl, a) /\ y.b.slots[i].conn = k /\ k \in DOMAIN x.w
    BY <1>2 DEF Mild, SameTables, Based, Open
  <2>2. ASSUME NEW c \in Clients, cl[c].conn = k
        PROVE  MayAnswer(y, cl[c], a, i, "puback", p.id)
    <3>1. Idle(y.w[k], UpA, DownA, p.id)
      BY <1>2, <1>3, <1>5, <2>1, <2>2 DEF Mild
    <3>2. DownOK(cl[c], IdPacket("puback", p.id))
      BY <1>3, <1>5, <2>2, IdPacketIs DEF DownOK, First
    <3>3. QED BY <1>2, <1>3, <1>5, <2>2, <3>1, <3>2 DEF MayAnswer
  <2>3. Firm(y, u, i, cl, a)
    BY <1>5, <2>1, <2>2, AnswerOk DEF DownA
  <2>4. QED BY <1>2, <2>3, MildFirm, FirmTrans
<1>6. CASE p.qos = 2 /\ known /\ u = Send(x, i, IdPacket("pubrec", p.id))
  <2>1. PICK f \in x.b.slots[i].inc : f.id = p.id
    BY <1>6
  <2>2. ASSUME NEW c \in Clients, cl[c].conn = k
        PROVE  MayAnswer(x, cl[c], a, i, "pubrec", p.id)
    <3>1. DownOK(cl[c], IdPacket("pubrec", p.id))
      BY <1>3, <1>6, <2>2, IdPacketIs DEF DownOK, First
    <3>2. \A j \in Used(cl[c].out) : cl[c].out[j].id = p.id => f.m = cl[c].out[j].m
      BY <1>3, <1>6, <2>1, <2>2 DEF Link
    <3>3. QED BY <1>3, <1>6, <2>1, <2>2, <3>1, <3>2 DEF MayAnswer
  <2>3. QED BY <1>6, <2>2, AnswerOk DEF DownA
<1>7. CASE p.qos = 2 /\ u = Send(z, i, IdPacket("pubrec", p.id))
  <2>1. new.id = p.id /\ new.m = p.m
    OBVIOUS
  <2> HIDE DEF new
  <2>2. ASSUME NEW c \in Clients, cl[c].conn = k
        PROVE  Link(cl[c], x.w[k], inc, a.resumed)
    <3> DEFINE s == cl[c]
    <3>1. Link(s, x.w[k], x.b.slots[i].inc, a.resumed) /\ s.phase = "idle" /\ Awaits(s, p.id, First(p.qos))
      BY <1>3, <1>7, <2>2
    <3>2. \E j \in Used(s.out) : s.out[j].id = new.id /\ s.out[j].m = new.m /\ s.out[j].qos = 2
      BY <1>3, <1>7, <2>1, <2>2 DEF Awaits
    <3>3. IdPacket("pubcomp", new.id) \notin ToSet(x.w[k].down)
      BY <1>3, <1>7, <2>1, <2>2, IdPacketIs DEF Idle, NoTok, Tok, DownA
    <3>4. QED BY Zenon, <3>1, <3>2, <3>3 DEF Link
  <2> HIDE DEF inc
  <2>6. z = WithInc(x, i, inc)
    BY DEF WithInc
  <2> HIDE DEF z
  <2>3. Firm(x, z, i, cl, a) /\ Based(z) /\ Exchanges(z, cl, a) /\ z.w = x.w /\ z.log = x.log
      /\ z.b.slots[i].inc = inc /\ z.b.slots[i].conn = k
    BY <2>2, <2>6, IncOk DEF Firm
  <2>4. ASSUME NEW c \in Clients, cl[c].conn = k
        PROVE  MayAnswer(z, cl[c], a, i, "pubrec", p.id)
    <3>1. DownOK(cl[c], IdPacket("pubrec", p.id))
      BY <1>3, <1>7, <2>4, IdPacketIs DEF DownOK, First
    <3>2. new \in inc
      BY DEF inc
    <3>3. QED BY <1>3, <1>7, <2>1, <2>3, <2>4, <3>1, <3>2 DEF MayAnswer
  <2>5. Firm(z, u, i, cl, a)
    BY <1>7, <2>3, <2>4, AnswerOk DEF DownA
  <2>7. QED BY <2>3, <2>5, FirmTrans
<1>8. CASE u = Reject(x, i)
  <2>1. Mild(x, Reject(x, i))
    BY RejectPlain, PlainMild DEF Based
  <2>2. QED BY <1>8, <2>1, MildFirm
<1>9. QED BY <1>1, <1>4, <1>5, <1>6, <1>7, <1>8

LEMMA PubrelOk ==
  ASSUME NEW x, NEW cl, NEW a, Based(x), Exchanges(x, cl, a), NEW i \in Slots, x.b.slots[i].conn # 0,
         ~x.b.slots[i].closing, NEW p, p.type = "pubrel",
         \A c \in Clients : cl[c].conn = x.b.slots[i].conn => Received(x, cl[c], a, i, p)
  PROVE  Firm(x, HandleClientPubrel(x, i, p), i, cl, a)
<1> DEFINE k == x.b.slots[i].conn
           mine == {e \in x.b.slots[i].inc : e.id = p.id}
           e == CHOOSE f \in mine : TRUE
           y == IF mine = {} THEN x ELSE PublishMessage(x, e.m, 2, e.retain)
           rest == y.b.slots[i].inc \ mine
           z == [y EXCEPT !.b.slots[i].inc = rest]
<1>1. Mild(x, y) /\ (mine # {} /\ e.m \in Messages => y.log.fwd[e.m] > 0)
  BY Zenon, PublishMessageMild, MildRefl
<1>2. HandleClientPubrel(x, i, p) = Send(z, i, IdPacket("pubcomp", p.id))
  BY DEF HandleClientPubrel
<1>3. mine # {} => e \in mine
  OBVIOUS
<1> HIDE DEF y, e
<1>4. Based(y) /\ Exchanges(y, cl, a) /\ y.b.slots[i].conn = k /\ y.b.slots[i].inc = x.b.slots[i].inc
    /\ k \in DOMAIN x.w
  BY <1>1 DEF Mild, SameTables, Based, Open
<1>5. ASSUME NEW c \in Clients, cl[c].conn = k
      PROVE  LET s == cl[c] IN
             /\ p.id \in Ids /\ s.phase = "idle" /\ Idle(y.w[k], UpA, DownA, p.id)
             /\ Awaits(s, p.id, "await_pubcomp") /\ s.conn = k
             /\ \A j \in Used(s.out) : s.out[j].id = p.id => s.out[j].m \in a.resumed \/ mine # {}
             /\ \A j \in Used(s.out) : s.out[j].id = p.id /\ mine # {} => y.log.fwd[s.out[j].m] > 0
             /\ Link(s, x.w[k], x.b.slots[i].inc, a.resumed)
  <2> DEFINE s == cl[c]
  <2>1. Received(x, s, a, i, p) /\ Tables(s, a) /\ Party(x, s, a)
    BY <1>5 DEF Exchanges
  <2>2. Awaits(s, p.id, "await_pubcomp") /\ p.id \in Ids
    BY <2>1 DEF Received, UpOK, Awaits, Tables, EntryOK
  <2>3. Tok(p, UpA, p.id)
    BY DEF Tok, UpA
  <2>4. Idle(y.w[k], UpA, DownA, p.id) /\ s.phase = "idle"
    BY <1>1, <1>4, <1>5, <2>1, <2>2, <2>3 DEF Received, Mild
  <2>5. Link(s, x.w[k], x.b.slots[i].inc, a.resumed)
    BY <1>5, <2>1 DEF Party, Alive
  <2>6. ASSUME NEW j \in Used(s.out), s.out[j].id = p.id, mine # {} PROVE y.log.fwd[s.out[j].m] > 0
    <3>1. e \in x.b.slots[i].inc /\ e.id = p.id
      BY <1>3, <2>6
    <3>2. s.out[j].m = e.m /\ e.m \in Messages
      BY <2>1, <2>5, <2>6, <3>1 DEF Link, Tables, EntryOK
    <3>3. QED BY <1>1, <2>6, <3>2
  <2>7. \A j \in Used(s.out) : s.out[j].id = p.id => s.out[j].m \in a.resumed \/ mine # {}
    BY <2>1 DEF Received
  <2>8. QED BY Zenon, <1>5, <2>2, <2>4, <2>5, <2>6, <2>7
<1>6. \A f \in rest : f \in x.b.slots[i].inc /\ f.id # p.id
  BY <1>4
<1>7. \A f \in x.b.slots[i].inc : f.id # p.id => f \in rest
  BY <1>4
<1> HIDE DEF rest
<1>8. ASSUME NEW c \in Clients, cl[c].conn = k
      PROVE  ~y.b.slots[i].closing => Link(cl[c], y.w[k], rest, a.resumed)
  <2> DEFINE s == cl[c]
             inc == x.b.slots[i].inc
  <2>1. Party(y, s, a) /\ Tables(s, a)
    BY <1>4, <1>8 DEF Exchanges
  <2>2. ~y.b.slots[i].closing => Link(s, y.w[k], inc, a.resumed)
    BY <1>4, <1>8, <2>1 DEF Party, Alive
  <2>3. CASE Link(s, y.w[k], inc, a.resumed)
    <3>1. ASSUME NEW j \in Used(s.out), s.out[j].m \notin a.resumed,
                 \/ IdPacket("pubrec", s.out[j].id) \in ToSet(y.w[k].down)
                 \/ IdPacket("pubrel", s.out[j].id) \in ToSet(y.w[k].up)
          PROVE  \E f \in rest : f.id = s.out[j].id /\ f.m = s.out[j].m
      <4>1. s.out[j].id # p.id
        <5>1. Idle(y.w[k], UpA, DownA, p.id)
          BY <1>5, <1>8
        <5>2. IdPacket("pubrec", p.id) \notin ToSet(y.w[k].down)
          BY <5>1, IdPacketIs DEF Idle, NoTok, Tok, DownA
        <5>3. IdPacket("pubrel", p.id) \notin ToSet(y.w[k].up)
          BY <5>1, IdPacketIs DEF Idle, NoTok, Tok, UpA
        <5>4. QED BY <3>1, <5>2, <5>3
      <4>2. PICK f \in inc : f.id = s.out[j].id /\ f.m = s.out[j].m
        BY Zenon, <2>3, <3>1 DEF Link
      <4>3. QED BY <1>7, <4>1, <4>2
    <3>2. QED BY Zenon, <1>5, <1>6, <1>8, <2>3, <3>1 DEF Link
  <2>4. QED BY <2>2, <2>3
<1>12. z = WithInc(y, i, rest)
  BY DEF WithInc
<1> HIDE DEF z
<1>9. Firm(y, z, i, cl, a) /\ Based(z) /\ Exchanges(z, cl, a) /\ z.w = y.w /\ z.log = y.log
    /\ z.b.slots[i].inc = rest /\ z.b.slots[i].conn = k
  BY <1>4, <1>8, <1>12, IncOk DEF Firm
<1>10. ASSUME NEW c \in Clients, cl[c].conn = k
       PROVE  MayAnswer(z, cl[c], a, i, "pubcomp", p.id)
  <2>1. DownOK(cl[c], IdPacket("pubcomp", p.id))
    BY <1>5, <1>10, IdPacketIs DEF DownOK
  <2>2. QED BY <1>5, <1>6, <1>9, <1>10, <2>1 DEF MayAnswer
<1>11. Firm(z, HandleClientPubrel(x, i, p), i, cl, a)
  BY <1>2, <1>9, <1>10, AnswerOk DEF DownA
<1>13. Firm(x, y, i, cl, a)
  BY <1>1, MildFirm
<1>14. Firm(x, z, i, cl, a)
  BY <1>9, <1>13, FirmTrans
<1>15. QED BY <1>11, <1>14, FirmTrans
-----------------------------------------------------------------------------

LEMMA SendMild ==
  ASSUME NEW x, Based(x), NEW i \in Slots, NEW p, p.type \notin DownA
  PROVE  Mild(x, Send(x, i, p))
BY SendCalm, CalmMild

LEMMA AckMild ==
  ASSUME NEW x, Based(x), NEW i \in Slots, NEW p, NEW expected
  PROVE  Mild(x, HandleClientAck(x, i, p, expected))
<1> DEFINE mine == {e \in x.b.slots[i].out : e.id = p.id /\ e.state = expected}
           next == {[e EXCEPT !.state = "await_pubcomp"] : e \in mine}
           y == [x EXCEPT !.b.slots[i].out = (@ \ mine) \cup next]
           z == [x EXCEPT !.b.slots[i].out = @ \ mine,
                          !.log.settled = @ \cup {e.m : e \in {f \in mine : f.retain # "copy"}}]
           u == HandleClientAck(x, i, p, expected)
<1> SUFFICES Mild(x, u)
  OBVIOUS
<1>1. Plain(x, y) /\ Plain(x, z)
  BY Zenon, SlotPlain DEF Based
<1>2. u \in {Reject(x, i), Send(y, i, IdPacket("pubrel", p.id)), z}
  BY DEF HandleClientAck
<1> HIDE DEF y, z, u
<1>3. Mild(x, y) /\ Mild(x, z) /\ Mild(x, Reject(x, i))
  BY <1>1, RejectPlain, PlainMild DEF Based
<1>4. Mild(y, Send(y, i, IdPacket("pubrel", p.id)))
  <2>1. IdPacket("pubrel", p.id).type \notin DownA
    BY IdPacketIs DEF DownA
  <2>2. QED BY <1>3, <2>1, SendMild DEF Mild
<1>5. QED BY <1>2, <1>3, <1>4, MildTrans DEF Based

LEMMA SubscribeMild ==
  ASSUME NEW x, Based(x), NEW i \in Slots, NEW p
  PROVE  Mild(x, HandleSubscribe(x, i, p)) /\ Mild(x, HandleUnsubscribe(x, i, p))
<1> DEFINE id == x.b.slots[i].id
           s == [x EXCEPT !.b.subs[id] = {p.qos}]
           u == [x EXCEPT !.b.subs[id] = {}]
           y == Send(s, i, IdPacket("suback", p.id))
           r == CHOOSE e \in x.b.retained : TRUE
           to == [j \in {i} |-> Lower(r.qos, p.qos)]
           z == SendPublishTo(y, to, r.m, "copy")
<1>1. Mild(x, s) /\ Mild(x, u)
  BY SessionPlain, PlainMild DEF Based
<1>4. HandleSubscribe(x, i, p) = IF x.b.retained = {} THEN y ELSE z
  BY DEF HandleSubscribe
<1>5. HandleUnsubscribe(x, i, p) = Send(u, i, IdPacket("unsuback", p.id))
  BY DEF HandleUnsubscribe
<1> HIDE DEF s, u
<1>2. Mild(s, y) /\ Mild(u, Send(u, i, IdPacket("unsuback", p.id)))
  <2>1. IdPacket("suback", p.id).type \notin DownA /\ IdPacket("unsuback", p.id).type \notin DownA
    BY IdPacketIs DEF DownA
  <2>2. QED BY ZenonT(30), <1>1, <2>1, SendMild DEF Mild
<1>6. DOMAIN to \subseteq Slots
  OBVIOUS
<1> HIDE DEF y, to, r
<1>3. Mild(y, z)
  BY <1>2, <1>6, SendPublishToCalm, CalmMild DEF Mild
<1> HIDE DEF z
<1>7. Mild(x, y) /\ Mild(x, Send(u, i, IdPacket("unsuback", p.id)))
  BY <1>1, <1>2, MildTrans DEF Based
<1>8. Mild(x, z)
  BY <1>3, <1>7, MildTrans DEF Based
<1>9. QED BY <1>4, <1>5, <1>7, <1>8

LEMMA ConnectMild ==
  ASSUME NEW x, Based(x), NEW i \in Slots, NEW p
  PROVE  Mild(x, HandleConnect(x, i, p))
<1> DEFINE id == p.id
           o == p.opts
           k == x.b.slots[i].conn
           present == ~o.clean /\ x.b.sess[id] # "none"
           u == IF o.clean THEN ClearSession(x, id) ELSE x
           y == Levelled(u, i)
           v == [y EXCEPT !.b.sess[id] = "active"]
           z == TakeOver(v, i, id)
           a == Admitted(z, i, id, o, k)
           n == Send(y, i, Connack(FALSE, FALSE))
<1>1. HandleConnect(x, i, p) = IF y.b.sess[id] = "none" /\ SessionsFull(y)
                               THEN Closing(n, i)
                               ELSE Send(a, i, Connack(TRUE, present))
  BY DEF HandleConnect, Levelled, Admitted
<1>2. Mild(x, u)
  <2>1. Plain(x, ClearSession(x, id))
    BY SessionPlain DEF Based
  <2>2. Mild(x, ClearSession(x, id)) /\ Mild(x, x)
    BY <2>1, PlainMild, MildRefl
  <2>3. QED BY <2>2
<1> HIDE DEF u
<1>3. Mild(u, y)
  BY <1>2, WillFieldPlain, PlainMild DEF Mild, Based
<1> HIDE DEF y
<1>4. Mild(y, v)
  <2>1. Based(y) /\ IsWorld(y)
    BY <1>3 DEF Mild, Based
  <2>2. Plain(y, v)
    BY <2>1, SessionPlain
  <2>3. QED BY <2>1, <2>2, PlainMild
<1> HIDE DEF v
<1>5. Mild(v, z)
  <2>1. Based(v) /\ IsWorld(v)
    BY <1>4 DEF Mild, Based
  <2>2. Plain(v, z)
    BY <2>1, TakeOverPlain
  <2>3. QED BY <2>1, <2>2, PlainMild
<1> HIDE DEF z
<1>6. Mild(z, a)
  <2>1. Based(z) /\ IsWorld(z)
    BY <1>5 DEF Mild, Based
  <2>2. Plain(z, a)
    BY <2>1, AdmittedPlain
  <2>3. QED BY <2>1, <2>2, PlainMild
<1> HIDE DEF a
<1>7. \A q, r : Connack(q, r).type \notin DownA
  BY DEF Connack, DownA
<1>8. Mild(a, Send(a, i, Connack(TRUE, present))) /\ Mild(y, n)
  <2>1. Based(a) /\ Based(y)
    BY <1>3, <1>6 DEF Mild
  <2>2. Connack(TRUE, present).type \notin DownA /\ Connack(FALSE, FALSE).type \notin DownA
    BY Zenon, <1>7
  <2> HIDE DEF present
  <2>3. QED BY <2>1, <2>2, SendMild
<1> HIDE DEF n
<1>9. Mild(n, Closing(n, i))
  BY Zenon, <1>8, ClosingPlain, PlainMild DEF Mild, Based
<1>10. x.log.fwd \in [Messages -> Nat] /\ Mild(x, y)
  BY <1>2, <1>3, MildTrans DEF Based
<1>11. Mild(x, n)
  BY <1>8, <1>10, MildTrans
<1>12. Mild(x, Closing(n, i))
  BY <1>9, <1>10, <1>11, MildTrans
<1>13. Mild(x, v)
  BY <1>4, <1>10, MildTrans
<1>14. Mild(x, z)
  BY <1>5, <1>10, <1>13, MildTrans
<1>15. Mild(x, a)
  BY <1>6, <1>10, <1>14, MildTrans
<1>16. Mild(x, Send(a, i, Connack(TRUE, present)))
  BY <1>8, <1>10, <1>15, MildTrans
<1>17. QED BY <1>1, <1>12, <1>16

LEMMA DisconnectMild ==
  ASSUME NEW x, Based(x), NEW i \in Slots
  PROVE  Mild(x, HandleDisconnect(x, i))
<1> DEFINE y == Closing(x, i)
           k == x.b.slots[i].conn
<1>1. HandleDisconnect(x, i) = Left(y, i, k)
  BY DEF HandleDisconnect, Left
<1>2. Plain(x, y)
  BY ClosingPlain DEF Based
<1> HIDE DEF y
<1>3. Plain(y, Left(y, i, k))
  BY ZenonT(30), <1>2, WillFieldPlain DEF Plain
<1>4. QED BY <1>1, <1>2, <1>3, PlainTrans, PlainMild

(* A received packet is handled. *)
LEMMA PacketOk ==
  ASSUME NEW x, NEW cl, NEW a, Based(x), Exchanges(x, cl, a), NEW i \in Slots, x.b.slots[i].conn # 0,
         ~x.b.slots[i].closing, NEW p,
         \A c \in Clients : cl[c].conn = x.b.slots[i].conn => Received(x, cl[c], a, i, p)
  PROVE  Firm(x, BHandlePacket(x, i, p), i, cl, a)
<1> DEFINE y == BHandlePacket(x, i, p)
<1> SUFFICES Firm(x, y, i, cl, a)
  OBVIOUS
<1>1. \/ p.type = "publish" /\ y = BHandlePublish(x, i, p)
      \/ p.type = "pubrel" /\ y = HandleClientPubrel(x, i, p)
      \/ y \in {HandleClientAck(x, i, p, "await_puback"), HandleClientAck(x, i, p, "await_pubrec"),
                HandleClientAck(x, i, p, "await_pubcomp"), HandleSubscribe(x, i, p), HandleUnsubscribe(x, i, p)}
      \/ y \in {Send(x, i, [type |-> "pingresp"]), Reject(x, i), HandleDisconnect(x, i), HandleConnect(x, i, p)}
  <2>1. x.b.slots[i].level \in BOOLEAN
    BY DEF Based, IsWorld, IsSlot
  <2>2. QED BY Zenon, <2>1 DEF BHandlePacket
<1> HIDE DEF y
<1>2. Mild(x, y) => Firm(x, y, i, cl, a)
  BY MildFirm
<1>3. CASE p.type = "publish" /\ y = BHandlePublish(x, i, p)
  BY <1>3, PublishOk
<1>4. CASE p.type = "pubrel" /\ y = HandleClientPubrel(x, i, p)
  BY <1>4, PubrelOk
<1>5. CASE y \in {HandleClientAck(x, i, p, "await_puback"), HandleClientAck(x, i, p, "await_pubrec"),
                HandleClientAck(x, i, p, "await_pubcomp"), HandleSubscribe(x, i, p), HandleUnsubscribe(x, i, p)}
  BY <1>2, <1>5, AckMild, SubscribeMild
<1>6. CASE y \in {Send(x, i, [type |-> "pingresp"]), Reject(x, i), HandleDisconnect(x, i), HandleConnect(x, i, p)}
  <2>1. Mild(x, Reject(x, i))
    BY RejectPlain, PlainMild DEF Based
  <2>2. Mild(x, Send(x, i, [type |-> "pingresp"]))
    BY SendMild DEF DownA
  <2>3. QED BY <1>2, <1>6, <2>1, <2>2, DisconnectMild, ConnectMild
<1>7. QED BY <1>1, <1>3, <1>4, <1>5, <1>6

-----------------------------------------------------------------------------
(* The end of a visit *)
LEMMA HungUpOk ==
  ASSUME NEW x, NEW cl, NEW a, Based(x), Exchanges(x, cl, a), NEW i \in Slots, x.b.slots[i].conn # 0
  PROVE  Based(HungUp(x, i)) /\ Exchanges(HungUp(x, i), cl, a)
<1> DEFINE k == x.b.slots[i].conn
           y == HungUp(x, i)
           u == [x.w[k] EXCEPT !.broker = "closed", !.up = <<>>]
<1>1. k \in DOMAIN x.w /\ IsConn(x.w[k])
  BY DEF Based, Open
<1>2. IsHungUp(x, i, y)
  BY <1>1, HungUpIs DEF Based
<1>3. y.w = Update(x.w, k, u)
  BY DEF HungUp, BrokerHangsUp, Based, IsWorld
<1> HIDE DEF y
<1>4. /\ IsWorld(y) /\ y.log = x.log /\ y.b.slots[i].conn = 0
      /\ \A j \in Slots \ {i} : y.b.slots[j] = x.b.slots[j]
      /\ DOMAIN y.w = DOMAIN x.w
      /\ \A n \in DOMAIN x.w : y.w[n] = IF n = k THEN u ELSE x.w[n]
  BY ZenonT(30), <1>2, <1>3 DEF IsHungUp, Update
<1>5. Shrunk(x.w[k], u) /\ u.broker = "closed"
  <2>1. u.up = <<>> /\ u.down = x.w[k].down /\ u.broker = "closed"
      /\ {"up", "down", "client", "broker", "cut"} \subseteq DOMAIN u
    BY ZenonT(30), <1>1 DEF IsConn
  <2> HIDE DEF u
  <2>2. Thinner(x.w[k].up, u.up) /\ Thinner(x.w[k].down, u.down)
    BY Zenon, <1>1, <2>1, Thins DEF IsConn
  <2>3. QED BY ZenonT(30), <1>1, <2>1, <2>2 DEF Shrunk, IsConn, Thinner
<1> HIDE DEF u
<1>6. \A j \in Slots \ {i} : x.b.slots[j].conn # 0 => x.b.slots[j].conn # k
  BY DEF Based, OneSlot
<1>7. Based(y)
  <2>1. Open(y)
    BY <1>4, <1>6 DEF Open, Based
  <2>2. OneSlot(y)
    BY <1>4 DEF OneSlot, Based
  <2>3. \A n \in DOMAIN y.w : IsConn(y.w[n])
    BY <1>4, <1>5 DEF Based, Shrunk
  <2>4. QED BY <1>4, <2>1, <2>2, <2>3 DEF Based
<1>8. ASSUME NEW c \in Clients, cl[c].conn # 0
      PROVE  Party(y, cl[c], a)
  <2> DEFINE s == cl[c]
  <2>1. Party(x, s, a) /\ s.conn \in DOMAIN x.w
    BY <1>8 DEF Exchanges, Dialler
  <2>2. \A j \in Slots : Alive(y.b.slots[j], s.conn) => j # i /\ y.b.slots[j] = x.b.slots[j]
    BY <1>4, <1>8 DEF Alive
  <2>3. CASE s.conn # k
    BY <1>4, <2>1, <2>2, <2>3 DEF Party
  <2>4. CASE s.conn = k
    <3>1. Talk(s, u) /\ Forwarded(s, u, x.log.fwd, a.resumed)
      BY <1>5, <2>1, <2>4, ShrunkTalk, ShrunkLink DEF Party
    <3>2. \A j \in Slots : ~Alive(y.b.slots[j], s.conn)
      BY <1>6, <1>8, <2>2, <2>4 DEF Alive
    <3>3. QED BY <1>1, <1>4, <2>4, <3>1, <3>2 DEF Party
  <2>5. QED BY <2>3, <2>4
<1>9. Exchanges(y, cl, a)
  BY <1>4, <1>8 DEF Exchanges, Dialler
<1>10. QED BY <1>7, <1>9 DEF y

LEMMA PublishWillMild ==
  ASSUME NEW x, Based(x), NEW i \in Slots, x.b.slots[i].conn # 0
  PROVE  Mild(x, PublishWill(x, i))
<1> DEFINE s == x.b.slots[i]
           k == s.conn
           z == PublishMessage(x, Will, 0, "no")
           y == [z EXCEPT !.log.wills[k] = @ + 1]
<1>1. PublishWill(x, i) = IF s.opts.will /\ s.will THEN y ELSE x
  BY DEF PublishWill
<1>2. Mild(x, z) /\ k \in Connections
  BY PublishMessageMild, WireDomain DEF Based, Open
<1> HIDE DEF z
<1>3. /\ IsWorld(y) /\ y.w = z.w /\ y.b = z.b /\ y.log.fwd = z.log.fwd
  BY <1>2 DEF Mild, Based, IsWorld
<1> HIDE DEF y
<1>4. Plain(z, y)
  BY <1>3 DEF Plain, SameTables
<1>5. Mild(z, y)
  BY <1>2, <1>4, PlainMild DEF Mild
<1>6. QED BY <1>1, <1>2, <1>5, MildTrans, MildRefl DEF Based

LEMMA AlikeOk ==
  ASSUME NEW x, NEW y, NEW cl, NEW a, Based(x), Exchanges(x, cl, a),
         y.b = x.b, y.w = x.w, y.log = x.log, {"b", "w", "log"} \subseteq DOMAIN y
  PROVE  Based(y) /\ Exchanges(y, cl, a)
<1>1. Plain(x, y)
  BY DEF Plain, Based, IsWorld, SameTables
<1>2. QED BY <1>1, PlainMild DEF Mild

LEMMA VisitOk ==
  ASSUME NEW x, NEW cl, NEW a, Based(x), Exchanges(x, cl, a), NEW i \in Slots, x.b.slots[i].conn # 0, EndVisit(x, i)
  PROVE  Based(World') /\ Exchanges(World', cl, a) /\ Grows(x, World')
<1> DEFINE y == PublishWill(x, i)
           z == CloseState(y, i)
           v == HungUp(z, i)
           u == IF x.b.slots[i].closing THEN v ELSE x
           W == [b |-> broker', w |-> wire', log |-> log']
<1>1. broker' = u.b /\ wire' = u.w /\ log' = u.log
  BY DEF EndVisit
<1>2. Based(u) /\ Exchanges(u, cl, a) /\ Grows(x, u)
  <2>1. Mild(x, y)
    BY PublishWillMild
  <2> HIDE DEF y
  <2>2. Mild(y, z)
    BY <2>1, CloseStatePlain, PlainMild DEF Mild, Based
  <2> HIDE DEF z
  <2>3. Mild(x, z)
    BY <2>1, <2>2, MildTrans DEF Based
  <2>4. z.b.slots[i].conn # 0 /\ Based(z) /\ Exchanges(z, cl, a) /\ Grows(x, z)
    BY <2>3 DEF Mild, SameTables
  <2>5. v.log = z.log
    BY <2>4 DEF HungUp, Based, IsWorld
  <2>6. Based(v) /\ Exchanges(v, cl, a)
    BY <2>4, HungUpOk
  <2> HIDE DEF v
  <2>7. Grows(x, v) /\ Grows(x, x)
    BY <2>4, <2>5 DEF Grows, Based
  <2>8. QED BY <2>6, <2>7
<1> HIDE DEF u
<1>4. W.b = u.b /\ W.w = u.w /\ W.log = u.log /\ {"b", "w", "log"} \subseteq DOMAIN W
  BY <1>1
<1>5. W = World'
  BY DEF World
<1> HIDE DEF W
<1>6. Based(W) /\ Exchanges(W, cl, a) /\ Grows(x, W)
  BY <1>2, <1>4, AlikeOk DEF Grows
<1>7. QED BY <1>5, <1>6
-----------------------------------------------------------------------------

AppOK(a) ==
    /\ {"plan", "sent", "calls", "got", "done", "resumed", "stale", "error"} \subseteq DOMAIN a
    /\ a.plan \in Scenarios /\ a.sent \in Nat

(* What the application was told is true. *)
Acked(x, a) ==
    \A m \in a.done : m \in Messages /\ (x.log.fwd[m] > 0 \/ (a.plan.pubs[m].qos = 2 /\ m \in a.resumed))

ExchangeInv == Based(World) /\ Exchanges(World, cli, app) /\ AppOK(app) /\ Acked(World, app)

LEMMA BrokerKeeps ==
  ASSUME ExchangeInv, UNCHANGED <<cli, app>>, Based(World'), Exchanges(World', cli, app), Grows(World, World')
  PROVE  ExchangeInv'
<1> DEFINE x == World
           y == World'
<1>1. Based(x) /\ Grows(x, y) /\ Acked(x, app)
  BY DEF ExchangeInv
<1> HIDE DEF x, y
<1>2. Acked(y, app)
  BY <1>1 DEF Acked, Based, Grows
<1>3. cli' = cli /\ app' = app /\ AppOK(app)
  BY DEF ExchangeInv
<1>4. Based(World') /\ Exchanges(World', cli', app') /\ AppOK(app') /\ Acked(World', app')
  BY <1>2, <1>3 DEF y
<1>5. QED BY <1>4 DEF ExchangeInv

LEMMA ExpiredOk ==
  ASSUME ExchangeInv, UNCHANGED <<cli, app>>, NEW i \in Slots, Serving(i), EndVisit(Expired(World, i), i)
  PROVE  ExchangeInv'
<1> DEFINE x == World
           z == Closing(x, i)
           y == [z EXCEPT !.b.slots[i].will = TRUE]
<1>1. Based(x) /\ Exchanges(x, cli, app) /\ x.b.slots[i].conn # 0
  BY DEF ExchangeInv, Serving, World
<1>2. EndVisit(y, i)
  BY DEF Expired
<1> HIDE DEF x
<1>3. Mild(x, z)
  BY <1>1, ClosingPlain, PlainMild DEF Based
<1> HIDE DEF z
<1>4. Based(z) /\ IsWorld(z)
  BY <1>3 DEF Mild, Based
<1>5. Plain(z, y)
  BY <1>4, WillFieldPlain
<1> HIDE DEF y
<1>6. Mild(x, y)
  BY <1>1, <1>3, <1>4, <1>5, PlainMild, MildTrans DEF Based
<1>7. Based(y) /\ Exchanges(y, cli, app) /\ y.b.slots[i].conn # 0 /\ Grows(x, y)
  BY <1>1, <1>6 DEF Mild, SameTables
<1>8. Based(World') /\ Exchanges(World', cli, app) /\ Grows(y, World')
  BY <1>2, <1>7, VisitOk
<1>9. Grows(x, World')
  BY <1>1, <1>7, <1>8 DEF Grows, Based
<1>10. QED BY <1>8, <1>9, BrokerKeeps DEF x

LEMMA CloseSlotOk ==
  ASSUME ExchangeInv, UNCHANGED <<cli, app>>, NEW i \in Slots, CloseSlot(i)
  PROVE  ExchangeInv'
<1> DEFINE x == World
<1>1. Based(x) /\ Exchanges(x, cli, app) /\ x.b.slots[i].conn # 0 /\ EndVisit(x, i)
  BY DEF ExchangeInv, CloseSlot, Serving, World
<1> HIDE DEF x
<1>2. Based(World') /\ Exchanges(World', cli, app) /\ Grows(x, World')
  BY <1>1, VisitOk
<1>3. QED BY <1>2, BrokerKeeps DEF x

(* A packet is taken off the connection of slot i. *)
Read(x, k) == [x EXCEPT !.w = ReceiveUp(x.w, k)]

LEMMA ReceiveUpIs ==
  ASSUME NEW x, Based(x), NEW k \in DOMAIN x.w
  PROVE  LET y == Read(x, k) IN
         /\ y.b = x.b /\ y.log = x.log /\ DOMAIN y.w = DOMAIN x.w /\ IsWorld(y)
         /\ \A n \in DOMAIN x.w : y.w[n] = IF n = k THEN UpRest(x.w[k]) ELSE x.w[n]
<1> DEFINE y == Read(x, k)
           u == UpRest(x.w[k])
<1>1. y.b = x.b /\ y.log = x.log /\ y.w = ReceiveUp(x.w, k) /\ {"b", "w", "log"} \subseteq DOMAIN y
  BY DEF Based, IsWorld, Read
<1>2. ReceiveUp(x.w, k) = [x.w EXCEPT ![k] = u]
  BY DEF ReceiveUp, UpRest
<1> HIDE DEF y, u
<1>3. DOMAIN y.w = DOMAIN x.w /\ \A n \in DOMAIN x.w : y.w[n] = IF n = k THEN u ELSE x.w[n]
  BY <1>1, <1>2 DEF Based, IsWorld, IsWire
<1>4. IsWire(y.w)
  BY <1>1, UpSideKeepsEnds DEF Based, IsWorld
<1>5. IsWorld(y)
  BY <1>1, <1>4 DEF Based, IsWorld
<1>6. QED BY <1>1, <1>3, <1>5 DEF y, u

LEMMA ReceivedOk ==
  ASSUME NEW x, NEW cl, NEW a, Based(x), Exchanges(x, cl, a), NEW i \in Slots,
         x.b.slots[i].conn # 0, ~x.b.slots[i].closing,
         NEW y, y = Read(x, x.b.slots[i].conn), x.w[x.b.slots[i].conn].up # <<>>
  PROVE  /\ Mild(x, y) /\ y.b = x.b
         /\ \A c \in Clients : cl[c].conn = x.b.slots[i].conn =>
               Received(y, cl[c], a, i, Head(x.w[x.b.slots[i].conn].up))
<1> DEFINE k == x.b.slots[i].conn
           v == x.w[k]
           u == UpRest(v)
           p == Head(v.up)
<1>1. k \in DOMAIN x.w /\ IsConn(v)
  BY DEF Based, Open
<1>2. /\ y.b = x.b /\ y.log = x.log /\ DOMAIN y.w = DOMAIN x.w /\ IsWorld(y)
      /\ \A n \in DOMAIN x.w : y.w[n] = IF n = k THEN u ELSE x.w[n]
  BY <1>1, ReceiveUpIs
<1>3. /\ Shrunk(v, u) /\ SameSides(v, u) /\ u.down = v.down /\ p \in ToSet(v.up)
      /\ \A U, D, id : Single(v, U, D, id) /\ Tok(p, U, id) => Idle(u, U, D, id)
  BY ZenonT(30), <1>1, UpRestIs
<1> HIDE DEF u, p
<1>4. CalmWorld(x, y)
  <2>1. \A n \in DOMAIN x.w : Calm(x.w[n], y.w[n])
    BY ZenonT(30), <1>2, <1>3, ConnRefl DEF Calm, Based, SameSides
  <2>2. Grows(x, y)
    BY <1>2 DEF Grows, Based
  <2>3. QED BY <1>2, <2>1, <2>2 DEF CalmWorld, SameTables
<1>5. ASSUME NEW c \in Clients, cl[c].conn = k
      PROVE  Received(y, cl[c], a, i, p)
  <2> DEFINE s == cl[c]
  <2>1. Talk(s, v) /\ Link(s, v, x.b.slots[i].inc, a.resumed) /\ Tables(s, a)
    BY <1>5 DEF Exchanges, Party, Alive
  <2>2. UpOK(s, p)
    BY ZenonT(30), <1>3, <2>1 DEF Talk
  <2>3. ASSUME NEW id \in Ids, Tok(p, UpA, id) PROVE Idle(u, UpA, DownA, id) /\ s.phase = "idle"
    <3>1. ~Idle(v, UpA, DownA, id)
      BY ZenonT(30), <1>3, <2>3 DEF Idle, NoTok
    <3>2. QED BY ZenonT(30), <1>3, <2>1, <2>3, <3>1 DEF Talk
  <2>4. ASSUME p.type = "pubrel", NEW j \in Used(s.out), s.out[j].id = p.id
        PROVE  s.out[j].m \in a.resumed \/ \E e \in x.b.slots[i].inc : e.id = p.id /\ e.m = s.out[j].m
    <3>1. IdPacket("pubrel", p.id) \in ToSet(v.up)
      BY Zenon, <1>3, <2>2, <2>4 DEF UpOK
    <3>2. QED BY ZenonT(30), <2>1, <2>4, <3>1 DEF Link
  <2>5. QED BY ZenonT(30), <1>1, <1>2, <1>5, <2>2, <2>3, <2>4 DEF Received
<1>6. QED BY ZenonT(30), <1>2, <1>4, <1>5, CalmMild DEF p

LEMMA ReceiveOk ==
  ASSUME ExchangeInv, UNCHANGED <<cli, app>>, NEW i \in Slots, BrokerReceive(i)
  PROVE  ExchangeInv'
<1> DEFINE x == World
           k == x.b.slots[i].conn
           y == Read(x, k)
           p == Head(x.w[k].up)
           z == BHandlePacket(y, i, p)
<1>1. /\ Based(x) /\ Exchanges(x, cli, app) /\ x.b.slots[i].conn # 0 /\ ~x.b.slots[i].closing
      /\ x.w[k].up # <<>> /\ EndVisit(z, i)
  <2>1. Based(x) /\ Exchanges(x, cli, app) /\ x.b = broker /\ x.w = wire
    BY DEF ExchangeInv, World
  <2>2. EndVisit(z, i)
    BY DEF BrokerReceive, Read, World
  <2> HIDE DEF x, z
  <2>3. QED BY <2>1, <2>2 DEF BrokerReceive, Serving
<1> HIDE DEF x, y, p
<1>2. /\ Mild(x, y) /\ y.b = x.b
      /\ \A c \in Clients : cli[c].conn = k => Received(y, cli[c], app, i, p)
  BY Zenon, <1>1, ReceivedOk DEF y, p
<1>3. Based(y) /\ Exchanges(y, cli, app) /\ Grows(x, y) /\ y.b.slots[i].conn # 0 /\ ~y.b.slots[i].closing
  BY <1>1, <1>2 DEF Mild
<1>4. Firm(y, z, i, cli, app)
  BY <1>2, <1>3, PacketOk
<1>5. Based(z) /\ Exchanges(z, cli, app) /\ Grows(y, z) /\ z.b.slots[i].conn # 0
  BY <1>3, <1>4 DEF Firm
<1> HIDE DEF z
<1>6. Based(World') /\ Exchanges(World', cli, app) /\ Grows(z, World')
  BY <1>1, <1>5, VisitOk
<1>7. Grows(x, World')
  BY <1>1, <1>3, <1>5, <1>6 DEF Grows, Based
<1>8. QED BY <1>6, <1>7, BrokerKeeps DEF x
-----------------------------------------------------------------------------

LEMMA PruneOk ==
  ASSUME ExchangeInv, UNCHANGED <<cli, app>>, NEW c \in Clients, Prune(c)
  PROVE  ExchangeInv'
<1> DEFINE x == World
           z == ClearSession(x, c)
           y == [b |-> broker', w |-> wire', log |-> log']
<1>1. Based(x) /\ Exchanges(x, cli, app) /\ x.b = broker /\ x.w = wire /\ x.log = log
  BY DEF ExchangeInv, World
<1>2. y.b = z.b /\ y.w = x.w /\ y.log = x.log /\ {"b", "w", "log"} \subseteq DOMAIN y
  BY <1>1 DEF Prune
<1>3. y = World'
  BY DEF World
<1> HIDE DEF x, y
<1>4. z.w = x.w /\ z.log = x.log
  BY <1>1 DEF ClearSession, Based, IsWorld
<1>5. Mild(x, z)
  BY <1>1, SessionPlain, PlainMild DEF Based
<1> HIDE DEF z
<1>6. Based(z) /\ Exchanges(z, cli, app)
  BY <1>1, <1>5 DEF Mild
<1>7. Based(y) /\ Exchanges(y, cli, app)
  BY <1>2, <1>4, <1>6, AlikeOk
<1>8. Grows(x, y)
  BY <1>1, <1>2 DEF Grows, Based
<1>9. QED BY <1>3, <1>7, <1>8, BrokerKeeps DEF x

(* The broker's invariant gives the frame of the next world. *)
LEMMA SteadyBased ==
  ASSUME NEW y, Steady(y), \A k \in DOMAIN y.w : IsConn(y.w[k]), y.log.fwd \in [Messages -> Nat]
  PROVE  Based(y)
BY DEF Steady, Visiting, Served, Based, Open

LEMMA AcceptOk ==
  ASSUME ExchangeInv, UNCHANGED <<cli, app>>, WillInv', Accept
  PROVE  ExchangeInv'
<1> DEFINE waiting == {n \in DOMAIN wire : wire[n].broker = "backlog"}
           free == {j \in Slots : ~Serving(j)}
           k == Min(waiting)
           i == Min(free)
           x == World
           y == [b |-> broker', w |-> wire', log |-> log']
           u == [x.w[k] EXCEPT !.broker = "open"]
<1>1. Based(x) /\ IsWorld(x) /\ Exchanges(x, cli, app) /\ x.b = broker /\ x.w = wire /\ x.log = log
  BY DEF ExchangeInv, World, Based
<1>2. k \in DOMAIN x.w /\ x.w[k].broker = "backlog" /\ k # 0
  <2>1. waiting \in SUBSET Nat /\ waiting # {}
    BY <1>1, WireDomain DEF Accept, Connections
  <2>2. k \in waiting
    BY <2>1, MinIn
  <2>3. QED BY <1>1, <2>2, WireDomain
<1>3. i \in Slots
  <2>1. free \in SUBSET Nat /\ free # {}
    BY DEF Accept, Slots
  <2>2. i \in free
    BY <2>1, MinIn
  <2>3. QED BY <2>2
<1>4. /\ y.b = [x.b EXCEPT !.slots[i] = NewSlot(k)] /\ y.w = [x.w EXCEPT ![k].broker = "open"]
      /\ y.log = x.log
  BY <1>1 DEF Accept
<1>5. y = World'
  BY DEF World
<1> HIDE DEF waiting, free, k, i, x, y
<1>6. /\ y.b.slots[i] = NewSlot(k) /\ \A j \in Slots \ {i} : y.b.slots[j] = x.b.slots[j]
  BY <1>1, <1>3, <1>4 DEF IsWorld
<1>7. NewSlot(k).inc = {} /\ NewSlot(k).conn = k
  BY DEF NewSlot
<1>8. DOMAIN y.w = DOMAIN x.w /\ \A n \in DOMAIN x.w : y.w[n] = IF n = k THEN u ELSE x.w[n]
  BY <1>1, <1>2, <1>4 DEF IsWorld, IsWire
<1>9. IsConn(u) /\ u.up = x.w[k].up /\ u.down = x.w[k].down /\ u.broker = "open" /\ IsConn(x.w[k])
  BY <1>1, <1>2 DEF Based, IsConn
<1> HIDE DEF u
<1>10. Based(y)
  <2>1. Steady(y)
    BY <1>5 DEF WillInv
  <2>2. QED BY <1>1, <1>4, <1>8, <1>9, <2>1, SteadyBased DEF Based
<1>11. ASSUME NEW c \in Clients, cli[c].conn # 0
       PROVE  Party(y, cli[c], app)
  <2> DEFINE s == cli[c]
  <2>1. Party(x, s, app) /\ s.conn \in DOMAIN x.w /\ Tables(s, app)
    BY <1>1, <1>11 DEF Exchanges, Dialler
  <2>2. CASE s.conn # k
    <3>1. \A j \in Slots : Alive(y.b.slots[j], s.conn) => y.b.slots[j] = x.b.slots[j]
      BY <1>6, <1>7, <2>2 DEF Alive
    <3>2. QED BY <1>4, <1>8, <2>1, <2>2, <3>1 DEF Party
  <2>3. CASE s.conn = k
    <3>1. Talk(s, x.w[k]) /\ s.phase = "wait" /\ Forwarded(s, x.w[k], x.log.fwd, app.resumed)
      BY <1>2, <2>1, <2>3 DEF Party, Talk
    <3>2. Shrunk(x.w[k], u)
      BY <1>9, Thins DEF Shrunk, IsConn
    <3>3. Talk(s, u) /\ Forwarded(s, u, y.log.fwd, app.resumed)
      BY <1>4, <1>9, <3>1, <3>2, ShrunkTalk, ShrunkLink
    <3>4. Link(s, u, {}, app.resumed)
      <4>1. ASSUME NEW j \in Used(s.out)
            PROVE  /\ IdPacket("pubrec", s.out[j].id) \notin ToSet(u.down)
                   /\ IdPacket("pubrel", s.out[j].id) \notin ToSet(u.up)
        <5>1. Idle(u, UpA, DownA, s.out[j].id)
          BY <2>1, <3>1, <3>3 DEF Talk, Tables, EntryOK
        <5>2. IdPacket("pubrec", s.out[j].id) \notin ToSet(u.down)
          BY <5>1, IdPacketIs DEF Idle, NoTok, Tok, DownA
        <5>3. IdPacket("pubrel", s.out[j].id) \notin ToSet(u.up)
          BY <5>1, IdPacketIs DEF Idle, NoTok, Tok, UpA
        <5>4. QED BY <5>2, <5>3
      <4>2. QED BY <4>1 DEF Link
    <3>5. \A j \in Slots : Alive(y.b.slots[j], s.conn) => j = i
      BY <1>2, <1>3, <1>6, <1>7, <1>10, <2>3 DEF Alive, Based, OneSlot
    <3>6. y.w[s.conn] = u
      BY <1>2, <1>8, <2>3
    <3>7. y.b.slots[i].inc = {}
      BY <1>6, <1>7
    <3>8. \A j \in Slots : Alive(y.b.slots[j], s.conn) => Link(s, u, y.b.slots[j].inc, app.resumed)
      BY <3>4, <3>5, <3>7
    <3>9. QED BY <3>3, <3>6, <3>8 DEF Party
  <2>4. QED BY <2>2, <2>3
<1>12. Exchanges(y, cli, app) /\ Grows(x, y)
  BY <1>1, <1>4, <1>8, <1>11 DEF Exchanges, Dialler, Grows, Based
<1>13. QED BY <1>5, <1>10, <1>12, BrokerKeeps DEF x

LEMMA BrokerClosesOk ==
  ASSUME ExchangeInv, UNCHANGED <<cli, app>>, WillInv', BrokerCloses
  PROVE  ExchangeInv'
<1> DEFINE x == World
           y == [b |-> broker', w |-> wire', log |-> log']
           shut(n) == n \in DOMAIN x.w /\ x.w[n].broker # "closed"
           fate == [n \in Connections |-> IF shut(n) THEN "shut down" ELSE x.log.fate[n]]
<1>1. Based(x) /\ IsWorld(x) /\ Exchanges(x, cli, app) /\ x.b = broker /\ x.w = wire /\ x.log = log
  BY DEF ExchangeInv, World, Based
<1>2. /\ y.b = [x.b EXCEPT !.slots = [i \in Slots |-> NewSlot(0)]]
      /\ y.w = [n \in DOMAIN x.w |-> BrokerHangsUp(x.w, n)[n]]
      /\ y.log = [x.log EXCEPT !.fate = fate]
  BY Zenon, <1>1 DEF BrokerCloses
<1>3. y = World'
  BY DEF World
<1> HIDE DEF x, y, fate
<1>4. \A i \in Slots : y.b.slots[i].conn = 0
  <2>1. y.b.slots = [i \in Slots |-> NewSlot(0)]
    BY <1>1, <1>2 DEF IsWorld
  <2>2. QED BY <2>1, NewSlotIs
<1>5. y.log.fwd = x.log.fwd
  BY <1>1, <1>2 DEF IsWorld
<1>6. DOMAIN y.w = DOMAIN x.w
  BY <1>2
<1>7. ASSUME NEW n \in DOMAIN x.w
      PROVE  IsConn(x.w[n]) /\ Shrunk(x.w[n], y.w[n]) /\ y.w[n].broker = "closed"
  <2>0. IsConn(x.w[n])
    BY <1>1 DEF Based
  <2>1. y.w[n] = [x.w[n] EXCEPT !.broker = "closed", !.up = <<>>]
    BY Zenon, <1>2 DEF BrokerHangsUp, Update
  <2>2. /\ y.w[n].up = <<>> /\ y.w[n].down = x.w[n].down /\ y.w[n].broker = "closed"
        /\ {"up", "down", "client", "broker", "cut"} \subseteq DOMAIN y.w[n]
    BY <2>0, <2>1 DEF IsConn
  <2>3. Thinner(x.w[n].up, y.w[n].up) /\ Thinner(x.w[n].down, y.w[n].down)
    BY <2>0, <2>2, Thins DEF IsConn
  <2>4. QED BY <2>0, <2>2, <2>3 DEF Shrunk, IsConn, Thinner
<1>8. Based(y)
  <2>1. Steady(y)
    BY <1>3 DEF WillInv
  <2>2. QED BY <1>1, <1>5, <1>6, <1>7, <2>1, SteadyBased DEF Based, Shrunk
<1>9. ASSUME NEW c \in Clients, cli[c].conn # 0
       PROVE  Party(y, cli[c], app)
  <2> DEFINE s == cli[c]
             k == s.conn
  <2>1. Party(x, s, app) /\ k \in DOMAIN x.w
    BY <1>1, <1>9 DEF Exchanges, Dialler
  <2>2. Talk(s, y.w[k]) /\ Forwarded(s, y.w[k], y.log.fwd, app.resumed)
    BY <1>5, <1>7, <2>1, ShrunkTalk, ShrunkLink DEF Party
  <2>3. \A j \in Slots : ~Alive(y.b.slots[j], k)
    BY <1>4, <1>9 DEF Alive
  <2>4. QED BY <2>2, <2>3 DEF Party
<1>10. Exchanges(y, cli, app) /\ Grows(x, y)
  BY <1>1, <1>5, <1>6, <1>9 DEF Exchanges, Dialler, Grows, Based
<1>11. QED BY <1>3, <1>8, <1>10, BrokerKeeps DEF x

(* Every step of the broker. *)
LEMMA BrokerOk ==
  ASSUME ExchangeInv, UNCHANGED <<cli, app>>, WillInv', BrokerNext
  PROVE  ExchangeInv'
<1>1. CASE Accept
  BY <1>1, AcceptOk
<1>2. ASSUME NEW c \in Clients, Prune(c) PROVE ExchangeInv'
  BY <1>2, PruneOk
<1>3. ASSUME NEW i \in Slots, KeepAliveExpires(i) PROVE ExchangeInv'
  BY <1>3, ExpiredOk DEF KeepAliveExpires
<1>4. ASSUME NEW i \in Slots, CloseSlot(i) PROVE ExchangeInv'
  BY <1>4, CloseSlotOk
<1>5. ASSUME NEW i \in Slots, BrokerReceive(i) PROVE ExchangeInv'
  BY <1>5, ReceiveOk
<1>6. ASSUME NEW i \in Slots, BrokerEof(i) PROVE ExchangeInv'
  BY <1>6, ExpiredOk DEF BrokerEof
<1>7. CASE BrokerCloses
  BY <1>7, BrokerClosesOk
<1>8. CASE BrokerOpens
  <2>1. World' = World
    BY <1>8 DEF BrokerOpens, World
  <2>2. cli' = cli /\ app' = app
    OBVIOUS
  <2>3. QED BY <2>1, <2>2 DEF ExchangeInv
<1>9. QED BY <1>1, <1>2, <1>3, <1>4, <1>5, <1>6, <1>7, <1>8 DEF BrokerNext
-----------------------------------------------------------------------------

(* From w to v, connection k becomes u. *)
Only(w, v, k, u) == DOMAIN v = DOMAIN w /\ \A n \in DOMAIN w : v[n] = IF n = k THEN u ELSE w[n]

(* The applications go on. *)
Later(a, b) ==
    /\ b.plan = a.plan /\ b.sent \in Nat /\ b.sent >= a.sent /\ a.resumed \subseteq b.resumed
    /\ AppOK(a) /\ AppOK(b)

LEMMA LaterTables ==
  ASSUME NEW s, NEW a, NEW b, Tables(s, a), Later(a, b)
  PROVE  Tables(s, b)
BY DEF Tables, EntryOK, Later, AppOK, Messages

LEMMA LaterParty ==
  ASSUME NEW x, NEW s, NEW a, NEW b, Party(x, s, a), Later(a, b)
  PROVE  Party(x, s, b)
<1>1. \A v, fwd : Forwarded(s, v, fwd, a.resumed) => Forwarded(s, v, fwd, b.resumed)
  BY DEF Later, Forwarded
<1>2. \A v, inc : Link(s, v, inc, a.resumed) => Link(s, v, inc, b.resumed)
  BY DEF Later, Link
<1>3. QED BY <1>1, <1>2 DEF Party

Moves(cl, cm, c, t) ==
    cm = [d \in Clients |-> cm[d]] /\ cm[c] = t /\ \A d \in Clients \ {c} : cm[d] = cl[d]

(* Only client c moves, and only on its own connection or on a new one. *)
LEMMA MoveOk ==
  ASSUME NEW x, NEW y, NEW cl, NEW cm, NEW a, NEW b, NEW c \in Clients, NEW t,
         y.b = x.b, y.log = x.log, Exchanges(x, cl, a), Moves(cl, cm, c, t),
         DOMAIN x.w \subseteq DOMAIN y.w, \A n \in DOMAIN x.w : n # cl[c].conn => y.w[n] = x.w[n],
         \/ t.conn = 0 \/ (t.conn = cl[c].conn /\ t.conn \in DOMAIN x.w) \/ t.conn \in DOMAIN y.w \ DOMAIN x.w,
         Later(a, b), IsClient(t), Tables(t, b), t.conn # 0 => Party(y, t, b)
  PROVE  Exchanges(y, cm, b)
<1>1. cm = [d \in Clients |-> cm[d]] /\ cm[c] = t /\ \A d \in Clients \ {c} : cm[d] = cl[d]
  BY DEF Moves
<1>2. \A d \in Clients \ {c} : cl[d].conn # 0 => cl[d].conn \in DOMAIN x.w /\ cl[d].conn # cl[c].conn
  BY DEF Exchanges, Dialler
<1>3. \A d \in Clients : IsClient(cm[d]) /\ (cm[d].conn # 0 => cm[d].conn \in DOMAIN y.w)
  BY <1>1, <1>2 DEF Exchanges, Dialler
<1>4. \A d, e \in Clients : cm[d].conn = cm[e].conn => d = e \/ cm[d].conn = 0
  BY <1>1, <1>2 DEF Exchanges, Dialler
<1>5. ASSUME NEW d \in Clients \ {c}, cl[d].conn # 0 PROVE Party(y, cl[d], b)
  <2>1. Party(x, cl[d], b)
    BY <1>5, LaterParty DEF Exchanges
  <2>2. y.w[cl[d].conn] = x.w[cl[d].conn]
    BY <1>2, <1>5
  <2>3. QED BY <2>1, <2>2 DEF Party
<1>6. \A d \in Clients : Tables(cm[d], b)
  BY <1>1, LaterTables DEF Exchanges
<1>7. QED BY <1>1, <1>3, <1>4, <1>5, <1>6 DEF Exchanges, Dialler

(* A step of client c: its record becomes t, its connection becomes u. *)
OwnParty(t, u, resumed) ==
    /\ Talk(t, u) /\ Forwarded(t, u, log.fwd, resumed)
    /\ \A i \in Slots : Alive(broker.slots[i], t.conn) => Link(t, u, broker.slots[i].inc, resumed)

LEMMA OwnParts ==
  ASSUME ExchangeInv, NEW c \in Clients
  PROVE  LET s == cli[c] IN
         /\ IsClient(s) /\ Tables(s, app) /\ AppOK(app) /\ IsWire(wire) /\ log.fwd \in [Messages -> Nat]
         /\ cli = [d \in Clients |-> cli[d]] /\ Acked(World, app) /\ 0 \notin DOMAIN wire
         /\ s.conn # 0 => /\ s.conn \in DOMAIN wire /\ IsConn(wire[s.conn])
                          /\ OwnParty(s, wire[s.conn], app.resumed)
<1> DEFINE x == World
<1>1. Based(x) /\ Exchanges(x, cli, app) /\ AppOK(app) /\ Acked(x, app)
  BY DEF ExchangeInv
<1>2. x.b = broker /\ x.w = wire /\ x.log = log
  BY DEF World
<1> HIDE DEF x
<1>3. IsWire(wire) /\ log.fwd \in [Messages -> Nat] /\ 0 \notin DOMAIN wire
  BY <1>1, <1>2, WireDomain DEF Based, IsWorld
<1>4. IsClient(cli[c]) /\ Tables(cli[c], app) /\ cli = [d \in Clients |-> cli[d]]
  BY <1>1 DEF Exchanges, Dialler
<1>5. cli[c].conn # 0 => cli[c].conn \in DOMAIN wire /\ Party(x, cli[c], app) /\ IsConn(wire[cli[c].conn])
  BY <1>1, <1>2 DEF Exchanges, Dialler, Based
<1>6. QED BY <1>1, <1>2, <1>3, <1>4, <1>5 DEF Party, OwnParty, x

LEMMA OwnStep ==
  ASSUME ExchangeInv, WillInv', UNCHANGED <<broker, log>>, NEW c \in Clients, NEW t, NEW u,
         cli' = [cli EXCEPT ![c] = t], Only(wire, wire', cli[c].conn, u),
         cli[c].conn # 0 => IsConn(u), t.conn \in {0, cli[c].conn},
         Later(app, app'), IsClient(t), Tables(t, app'), t.conn # 0 => OwnParty(t, u, app'.resumed),
         \A m \in app'.done : \/ m \in app.done
                              \/ m \in Messages /\ (log.fwd[m] > 0 \/ (app'.plan.pubs[m].qos = 2
                                  /\ m \in app'.resumed))
  PROVE  ExchangeInv'
<1> DEFINE x == World
           y == World'
           k == cli[c].conn
           cm == cli'
           b == app'
<1>1. Based(x) /\ Exchanges(x, cli, app) /\ AppOK(app) /\ Acked(x, app) /\ x.b = broker /\ x.w = wire /\ x.log = log
  BY DEF ExchangeInv, World
<1>2. y.b = broker /\ y.w = wire' /\ y.log = log /\ Steady(y)
  BY DEF World, WillInv
<1> HIDE DEF x, y, cm, b
<1>3. DOMAIN y.w = DOMAIN x.w /\ \A n \in DOMAIN x.w : y.w[n] = IF n = k THEN u ELSE x.w[n]
  BY <1>1, <1>2 DEF Only
<1>4. k # 0 => k \in DOMAIN x.w
  BY <1>1 DEF Exchanges, Dialler
<1>5. 0 \notin DOMAIN x.w
  BY <1>1, WireDomain DEF Based
<1>6. Based(y)
  BY <1>1, <1>2, <1>3, <1>4, <1>5, SteadyBased DEF Based
<1>7. t.conn # 0 => Party(y, t, b)
  BY <1>2, <1>3, <1>4 DEF OwnParty, Party, b
<1>8. Exchanges(y, cm, b)
  <2>1. y.b = x.b /\ y.log = x.log /\ Later(app, b) /\ Tables(t, b)
    BY <1>1, <1>2 DEF cm, b
  <2>5. Moves(cli, cm, c, t)
    BY <1>1 DEF Exchanges, Dialler, Moves, cm
  <2>2. \A n \in DOMAIN x.w : n # cli[c].conn => y.w[n] = x.w[n]
    BY <1>3
  <2>3. t.conn = 0 \/ (t.conn = cli[c].conn /\ t.conn \in DOMAIN x.w)
    BY <1>4
  <2>4. QED BY <1>1, <1>3, <1>7, <2>1, <2>2, <2>3, <2>5, MoveOk
<1>9. AppOK(b) /\ Acked(y, b)
  <2>1. AppOK(b) /\ b.plan = app.plan /\ app.resumed \subseteq b.resumed
    BY DEF Later, b
  <2>2. \A m \in b.done : \/ m \in app.done
                          \/ m \in Messages /\ (log.fwd[m] > 0 \/ (b.plan.pubs[m].qos = 2 /\ m \in b.resumed))
    BY DEF b
  <2>3. QED BY <1>1, <1>2, <2>1, <2>2 DEF Acked
<1>10. QED BY <1>6, <1>8, <1>9 DEF ExchangeInv, y, cm, b

-----------------------------------------------------------------------------
(* What the operations on a connection do to it *)
HungConn(v) == [v EXCEPT !.client = "closed", !.down = <<>>]

LEMMA SendUpIs ==
  ASSUME NEW w, IsWire(w), NEW k \in DOMAIN w, NEW p
  PROVE  /\ Only(w, SendUp(w, k, p), k, WithUp(w[k], p))
         /\ Only(w, ReceiveDown(w, k), k, DownRest(w[k]))
         /\ Only(w, ClientHangsUp(w, k), k, HungConn(w[k]))
<1>1. Only(w, SendUp(w, k, p), k, WithUp(w[k], p))
  <2>1. CASE w[k].cut \/ w[k].broker = "closed"
    BY <2>1 DEF SendUp, WithUp, Only
  <2>2. CASE ~(w[k].cut \/ w[k].broker = "closed")
    <3> DEFINE u == [w[k] EXCEPT !.up = Append(@, p)]
    <3>1. SendUp(w, k, p) = [w EXCEPT ![k] = u] /\ WithUp(w[k], p) = u
      BY <2>2 DEF SendUp, WithUp
    <3> HIDE DEF u
    <3>2. QED BY <3>1 DEF Only, IsWire
  <2>3. QED BY <2>1, <2>2
<1>2. Only(w, ReceiveDown(w, k), k, DownRest(w[k]))
  <2> DEFINE u == DownRest(w[k])
  <2>1. ReceiveDown(w, k) = [w EXCEPT ![k] = u]
    BY DEF ReceiveDown, DownRest
  <2> HIDE DEF u
  <2>2. Only(w, ReceiveDown(w, k), k, u)
    BY <2>1 DEF Only, IsWire
  <2>3. QED BY <2>2 DEF u
<1>3. Only(w, ClientHangsUp(w, k), k, HungConn(w[k]))
  <2> DEFINE u == HungConn(w[k])
  <2>1. ClientHangsUp(w, k) = [w EXCEPT ![k] = u]
    BY DEF ClientHangsUp, HungConn
  <2> HIDE DEF u
  <2>2. Only(w, ClientHangsUp(w, k), k, u)
    BY <2>1 DEF Only, IsWire
  <2>3. QED BY <2>2 DEF u
<1>4. QED BY <1>1, <1>2, <1>3

LEMMA OnlyTwice ==
  ASSUME NEW w, NEW v, NEW z, NEW k \in DOMAIN w, NEW u, NEW t, Only(w, v, k, u), Only(v, z, k, t)
  PROVE  Only(w, z, k, t) /\ v[k] = u
BY DEF Only

LEMMA HungConnIs ==
  ASSUME NEW v, IsConn(v)
  PROVE  /\ IsConn(HungConn(v)) /\ HungConn(v).broker = v.broker /\ HungConn(v).up = v.up
         /\ HungConn(v).down = <<>> /\ HungConn(v).cut = v.cut /\ HungConn(v).client = "closed"
<1> DEFINE u == HungConn(v)
<1>1. /\ u.up = v.up /\ u.down = <<>> /\ u.broker = v.broker /\ u.cut = v.cut /\ u.client = "closed"
      /\ {"up", "down", "client", "broker", "cut"} \subseteq DOMAIN u
  BY DEF HungConn, IsConn
<1> HIDE DEF u
<1>2. IsConn(u)
  BY <1>1, EmptyIs DEF IsConn
<1>3. QED BY <1>1, <1>2 DEF u

(* Fields of a client's record that say nothing about its exchanges. *)
SameClient(s, t) == IsClient(t) /\ t.conn = s.conn /\ t.phase = s.phase /\ t.out = s.out

LEMMA SameOwn ==
  ASSUME NEW s, NEW t, SameClient(s, t)
  PROVE  /\ \A a : Tables(s, a) => Tables(t, a)
         /\ \A u, r : OwnParty(s, u, r) => OwnParty(t, u, r)
<1>1. t.out = s.out /\ t.phase = s.phase /\ t.conn = s.conn
  BY DEF SameClient
<1>2. \A a : Tables(s, a) => Tables(t, a)
  BY <1>1 DEF Tables
<1>3. \A u : Talk(s, u) => Talk(t, u)
  BY <1>1 DEF Talk, UpOK, DownOK, Awaits
<1>4. \A u, fwd, r : Forwarded(s, u, fwd, r) => Forwarded(t, u, fwd, r)
  BY <1>1 DEF Forwarded
<1>5. \A u, inc, r : Link(s, u, inc, r) => Link(t, u, inc, r)
  BY <1>1 DEF Link
<1>6. QED BY <1>1, <1>2, <1>3, <1>4, <1>5 DEF OwnParty

(* Nothing about the application changes but its plan goes on. *)
LEMMA LaterRefl == ASSUME NEW a, AppOK(a) PROVE Later(a, a)
BY DEF Later, AppOK

(* The client lets go of its connection. *)
LEMMA HangUpOk ==
  ASSUME ExchangeInv, WillInv', UNCHANGED <<broker, log>>, NEW c \in Clients, NEW t, NEW u,
         cli' = [cli EXCEPT ![c] = t], Only(wire, wire', cli[c].conn, u), cli[c].conn # 0 => IsConn(u),
         IsClient(t), t.conn = 0, t.out = cli[c].out \/ Used(t.out) = {},
         Later(app, app'), app'.done = app.done
  PROVE  ExchangeInv'
<1>1. Tables(cli[c], app')
  BY OwnParts, LaterTables
<1>2. Tables(t, app')
  BY <1>1 DEF Tables
<1>3. QED BY <1>2, OwnStep
-----------------------------------------------------------------------------

LEMMA ForceClosedIs ==
  ASSUME NEW s, IsClient(s)
  PROVE  IsClient(ForceClosed(s)) /\ ForceClosed(s).conn = 0 /\ ForceClosed(s).out = s.out
<1> DEFINE t == ForceClosed(s)
<1>1. /\ t.conn = 0 /\ t.phase = "idle" /\ t.connected = FALSE /\ t.out = s.out /\ t.next = s.next
      /\ DOMAIN t = DOMAIN s
  BY DEF ForceClosed, IsClient
<1> HIDE DEF t
<1>2. IsClient(t)
  BY <1>1 DEF IsClient
<1>3. QED BY <1>1, <1>2 DEF t

LEMMA ForceCloseOk ==
  ASSUME ExchangeInv, WillInv', UNCHANGED <<broker, log>>, NEW c \in Clients, cli[c].conn # 0, ForceClose(c),
         Later(app, app'), app'.done = app.done
  PROVE  ExchangeInv'
<1> DEFINE t == ForceClosed(cli[c])
           k == cli[c].conn
           u == HungConn(wire[k])
<1>1. IsClient(cli[c]) /\ k \in DOMAIN wire /\ IsConn(wire[k]) /\ IsWire(wire)
  BY OwnParts
<1>2. cli' = [cli EXCEPT ![c] = t] /\ wire' = ClientHangsUp(wire, k)
  BY DEF ForceClose
<1>3. Only(wire, wire', k, u) /\ IsConn(u)
  BY <1>1, <1>2, SendUpIs, HungConnIs
<1>4. IsClient(t) /\ t.conn = 0 /\ t.out = cli[c].out
  BY <1>1, ForceClosedIs
<1> HIDE DEF t, u
<1>5. QED BY <1>2, <1>3, <1>4, HangUpOk

LEMMA LeavingOk ==
  ASSUME ExchangeInv, WillInv', UNCHANGED <<broker, log>>, NEW c \in Clients,
         ConnectTimesOut(c) \/ Abort(c) \/ PingTimesOut(c) \/ Disconnect(c) \/ ClientEof(c)
  PROVE  ExchangeInv'
<1> DEFINE s == cli[c]
           k == s.conn
<1>1. /\ IsClient(s) /\ AppOK(app) /\ IsWire(wire) /\ cli = [d \in Clients |-> cli[d]]
      /\ k # 0 => k \in DOMAIN wire /\ IsConn(wire[k])
  BY OwnParts
<1>2. k # 0
  BY <1>1 DEF IsClient, ConnectTimesOut, Abort, PingTimesOut, Disconnect, ClientEof, Ready
<1>3. app' = app
  BY DEF ConnectTimesOut, Abort, PingTimesOut, Disconnect, ClientEof
<1>4. Later(app, app') /\ app'.done = app.done
  BY <1>1, <1>3, LaterRefl
<1>5. CASE ForceClose(c)
  BY <1>2, <1>4, <1>5, ForceCloseOk
<1>6. CASE Disconnect(c)
  <2> DEFINE p == [type |-> "disconnect"]
             v == SendUp(wire, k, p)
             t == ForceClosed(s)
             u == WithUp(wire[k], p)
  <2>1. cli' = [cli EXCEPT ![c] = t] /\ wire' = ClientHangsUp(v, k)
    BY <1>6 DEF Disconnect
  <2> HIDE DEF p
  <2>2. Only(wire, v, k, u) /\ IsConn(u) /\ IsWire(v)
    BY <1>1, <1>2, SendUpIs, WithUpIs, UpSideKeepsEnds
  <2>3. Only(v, wire', k, HungConn(v[k])) /\ v[k] = u
    BY <1>1, <1>2, <2>1, <2>2, SendUpIs DEF Only
  <2>4. Only(wire, wire', k, HungConn(u)) /\ IsConn(HungConn(u))
    BY <1>1, <1>2, <2>2, <2>3, OnlyTwice, HungConnIs
  <2>5. IsClient(t) /\ t.conn = 0 /\ t.out = cli[c].out
    BY <1>1, ForceClosedIs
  <2> HIDE DEF t, u
  <2>6. QED BY <1>4, <2>1, <2>4, <2>5, HangUpOk
<1>7. CASE ClientEof(c) /\ ~ForceClose(c)
  <2> DEFINE t == [s EXCEPT !.conn = 0, !.connected = FALSE]
             u == HungConn(wire[k])
  <2>1. s.phase = "idle" /\ wire' = ClientHangsUp(wire, k)
      /\ cli' = [cli EXCEPT ![c].conn = 0, ![c].connected = FALSE]
    BY <1>7 DEF ClientEof
  <2>2. cli' = [cli EXCEPT ![c] = t]
    BY <1>1, <2>1
  <2>3. IsClient(t) /\ t.conn = 0 /\ t.out = cli[c].out
    <3>1. /\ t.conn = 0 /\ t.phase = "idle" /\ t.connected = FALSE /\ t.out = s.out /\ t.next = s.next
          /\ DOMAIN t = DOMAIN s
      BY <1>1, <2>1 DEF IsClient
    <3> HIDE DEF t
    <3>2. QED BY <1>1, <3>1 DEF IsClient
  <2>4. Only(wire, wire', k, u) /\ IsConn(u)
    BY <1>1, <1>2, <2>1, SendUpIs, HungConnIs
  <2> HIDE DEF t, u
  <2>5. QED BY <1>4, <2>2, <2>3, <2>4, HangUpOk
<1>8. QED BY <1>5, <1>6, <1>7 DEF ConnectTimesOut, Abort, PingTimesOut

LEMMA CutOk ==
  ASSUME ExchangeInv, WillInv', UNCHANGED <<cli, app, broker, log>>, NEW k, Cut(k)
  PROVE  ExchangeInv'
<1> DEFINE x == World
           y == World'
           u == [x.w[k] EXCEPT !.cut = TRUE, !.up = <<>>, !.down = <<>>]
<1>1. Based(x) /\ Exchanges(x, cli, app) /\ x.b = broker /\ x.w = wire /\ x.log = log
  BY DEF ExchangeInv, World
<1>2. y.b = broker /\ y.w = wire' /\ y.log = log /\ Steady(y)
  BY DEF World, WillInv
<1>3. k \in DOMAIN x.w /\ y.w = [x.w EXCEPT ![k] = u]
  BY <1>1, <1>2 DEF Cut
<1> HIDE DEF x, y
<1>4. DOMAIN y.w = DOMAIN x.w /\ y.w[k] = u /\ \A n \in DOMAIN x.w \ {k} : y.w[n] = x.w[n]
  BY <1>1, <1>3 DEF Based, IsWorld, IsWire
<1>5. Shrunk(x.w[k], u) /\ u.broker = x.w[k].broker
  <2>0. IsConn(x.w[k])
    BY <1>1, <1>3 DEF Based
  <2>1. /\ u.up = <<>> /\ u.down = <<>> /\ u.broker = x.w[k].broker
        /\ {"up", "down", "client", "broker", "cut"} \subseteq DOMAIN u
    BY <2>0 DEF IsConn
  <2> HIDE DEF u
  <2>2. Thinner(x.w[k].up, u.up) /\ Thinner(x.w[k].down, u.down)
    BY <2>0, <2>1, Thins DEF IsConn
  <2>3. QED BY <2>0, <2>1, <2>2 DEF Shrunk, IsConn, Thinner
<1> HIDE DEF u
<1>6. \A n \in DOMAIN x.w : Calm(x.w[n], y.w[n])
  BY <1>1, <1>4, <1>5, ConnRefl DEF Calm, Based
<1>7. CalmWorld(x, y)
  BY <1>1, <1>2, <1>4, <1>6 DEF CalmWorld, Steady, Visiting, SameTables, Grows, Based
<1>8. Based(y) /\ Exchanges(y, cli, app) /\ Grows(x, y)
  BY <1>1, <1>7, CalmBased, CalmExchanges DEF CalmWorld
<1>9. QED BY <1>8, BrokerKeeps DEF x, y
-----------------------------------------------------------------------------

(* The client sends a packet that starts or answers no exchange of its own. *)
LEMMA ForeignUp ==
  ASSUME NEW s, NEW v, IsConn(v), NEW p, UpOK(s, p), p.type # "pubrel", \A id \in Ids : ~Tok(p, UpA, id)
  PROVE  /\ IsConn(WithUp(v, p))
         /\ \A r : OwnParty(s, v, r) => OwnParty(s, WithUp(v, p), r)
<1> DEFINE u == WithUp(v, p)
<1>1. /\ IsConn(u) /\ SameSides(v, u) /\ u.down = v.down
      /\ ToSet(u.up) \subseteq ToSet(v.up) \cup {p}
      /\ \A U, D, id : Idle(v, U, D, id) /\ ~Tok(p, U, id) => Idle(u, U, D, id)
      /\ \A U, D, id : Single(v, U, D, id) /\ (~Tok(p, U, id) \/ Idle(v, U, D, id)) => Single(u, U, D, id)
  BY WithUpIs
<1> HIDE DEF u
<1>2. \A id : IdPacket("pubrel", id) \in ToSet(u.up) => IdPacket("pubrel", id) \in ToSet(v.up)
  BY <1>1, IdPacketIs
<1>3. Talk(s, v) => Talk(s, u)
  BY <1>1 DEF Talk, SameSides
<1>4. ASSUME NEW inc, NEW r, Link(s, v, inc, r) PROVE Link(s, u, inc, r)
  BY <1>1, <1>2, <1>4 DEF Link
<1>5. ASSUME NEW fwd, NEW r, Forwarded(s, v, fwd, r) PROVE Forwarded(s, u, fwd, r)
  BY <1>1, <1>5 DEF Forwarded
<1>6. QED BY <1>1, <1>3, <1>4, <1>5 DEF OwnParty, u

(* A step that changes neither the exchanges nor the history, and sends     *)
(* such a packet or nothing.                                                *)
LEMMA SideStep ==
  ASSUME ExchangeInv, WillInv', UNCHANGED <<broker, log>>, NEW c \in Clients, NEW t, NEW u,
         cli' = [cli EXCEPT ![c] = t], Only(wire, wire', cli[c].conn, u), cli[c].conn # 0, IsConn(u),
         SameClient(cli[c], t), Later(app, app'), app'.done = app.done, app'.resumed = app.resumed,
         OwnParty(cli[c], wire[cli[c].conn], app.resumed) => OwnParty(cli[c], u, app.resumed)
  PROVE  ExchangeInv'
<1>1. Tables(cli[c], app') /\ OwnParty(cli[c], u, app'.resumed)
  BY OwnParts, LaterTables
<1>2. Tables(t, app') /\ OwnParty(t, u, app'.resumed)
  BY <1>1, SameOwn
<1>3. IsClient(t) /\ t.conn = cli[c].conn
  BY DEF SameClient
<1>4. QED BY <1>2, <1>3, OwnStep

LEMMA PingOk ==
  ASSUME ExchangeInv, WillInv', UNCHANGED <<broker, log>>, NEW c \in Clients, Ping(c)
  PROVE  ExchangeInv'
<1> DEFINE s == cli[c]
           k == s.conn
           p == [type |-> "pingreq"]
           t == [s EXCEPT !.ping = TRUE]
           u == WithUp(wire[k], p)
<1>1. /\ IsClient(s) /\ AppOK(app) /\ IsWire(wire) /\ cli = [d \in Clients |-> cli[d]]
      /\ k # 0 => k \in DOMAIN wire /\ IsConn(wire[k])
  BY OwnParts
<1>2. k # 0 /\ cli' = [cli EXCEPT ![c].ping = TRUE] /\ wire' = SendUp(wire, k, p) /\ app' = app
  BY <1>1 DEF Ping, Ready, IsClient
<1>3. cli' = [cli EXCEPT ![c] = t]
  BY <1>1, <1>2
<1>4. SameClient(s, t)
  <2>1. t.conn = s.conn /\ t.phase = s.phase /\ t.out = s.out /\ t.connected = s.connected /\ t.next = s.next
      /\ DOMAIN t = DOMAIN s
    BY <1>1 DEF IsClient
  <2> HIDE DEF t
  <2>2. QED BY <1>1, <2>1 DEF SameClient, IsClient
<1>5. UpOK(s, p) /\ p.type # "pubrel" /\ \A id \in Ids : ~Tok(p, UpA, id)
  BY DEF UpOK, Tok, UpA
<1> HIDE DEF t, p, u
<1>6. Only(wire, wire', k, u) /\ IsConn(u) /\ \A r : OwnParty(s, wire[k], r) => OwnParty(s, u, r)
  BY <1>1, <1>2, <1>5, SendUpIs, ForeignUp DEF u
<1>7. Later(app, app')
  BY <1>1, <1>2, LaterRefl
<1>8. QED BY <1>2, <1>3, <1>4, <1>6, <1>7, SideStep

LEMMA AfterId == ASSUME NEW i \in Nat, NEW n \in Nat PROVE After(i, n) \in Ids
<1>1. IdMax \in Nat \ {0}
  BY MqttWireAssumption
<1>2. i + n - 1 \in Int
  OBVIOUS
<1> DEFINE j == i + n - 1
<1> HIDE DEF j
<1>3. j % IdMax \in 0 .. IdMax - 1
  BY <1>1, <1>2 DEF j
<1>4. QED BY <1>1, <1>3 DEF After, Ids, j
LEMMA Fresh ==
  ASSUME NEW s, IsClient(s), AllocateIdentifier(s) # 0
  PROVE  AllocateIdentifier(s) \in Ids \ Busy(s)
<1> DEFINE free == {n \in 1 .. IdMax : After(s.next, n) \notin Busy(s)}
<1>1. free # {} /\ AllocateIdentifier(s) = After(s.next, Min(free))
  BY DEF AllocateIdentifier
<1>2. IdMax \in Nat /\ s.next \in Nat
  BY MqttWireAssumption DEF IsClient
<1>3. free \in SUBSET Nat
  BY <1>2
<1>4. Min(free) \in free
  BY <1>1, <1>3, MinIn
<1>5. Min(free) \in Nat /\ After(s.next, Min(free)) \notin Busy(s)
  BY <1>3, <1>4
<1> HIDE DEF free
<1>6. QED BY <1>1, <1>2, <1>5, AfterId

(* An identifier that no entry has is not on its way. *)
LEMMA UnusedIdle ==
  ASSUME NEW s, NEW v, Talk(s, v), NEW id \in Ids, \A i \in Used(s.out) : s.out[i].id # id
  PROVE  Idle(v, UpA, DownA, id)
<1>1. id # 0
  BY MqttWireAssumption DEF Ids
<1>2. ASSUME NEW p \in ToSet(v.up) PROVE ~Tok(p, UpA, id)
  <2>1. UpOK(s, p)
    BY DEF Talk
  <2>2. QED BY <1>1, <2>1 DEF UpOK, Awaits, Tok, UpA
<1>3. ASSUME NEW p \in ToSet(v.down) PROVE ~Tok(p, DownA, id)
  <2>1. DownOK(s, p)
    BY DEF Talk
  <2>2. QED BY <2>1 DEF DownOK, Awaits, Tok, DownA
<1>4. QED BY <1>2, <1>3 DEF Idle, NoTok

(* A token packet is sent in an exchange that has none on its way. *)
LEMMA TokenUp ==
  ASSUME NEW s, NEW v, IsConn(v), Talk(s, v), NEW p, UpOK(s, p), Idle(v, UpA, DownA, p.id), s.phase = "idle"
  PROVE  LET u == WithUp(v, p) IN
         IsConn(u) /\ Talk(s, u) /\ u.down = v.down /\ ToSet(u.up) \subseteq ToSet(v.up) \cup {p}
<1> DEFINE u == WithUp(v, p)
<1>1. /\ IsConn(u) /\ SameSides(v, u) /\ u.down = v.down
      /\ ToSet(u.up) \subseteq ToSet(v.up) \cup {p}
      /\ \A U, D, id : Single(v, U, D, id) /\ (~Tok(p, U, id) \/ Idle(v, U, D, id)) => Single(u, U, D, id)
  BY WithUpIs
<1> HIDE DEF u
<1>2. \A id : Tok(p, UpA, id) => id = p.id
  BY DEF Tok
<1>3. \A id \in Ids : Single(u, UpA, DownA, id)
  BY <1>1, <1>2 DEF Talk
<1>4. Talk(s, u)
  BY <1>1, <1>3 DEF Talk, SameSides
<1>5. QED BY <1>1, <1>4 DEF u

IsTable(out) == out = [i \in Entries |-> out[i]]

(* Client t is client s with a new entry i. *)
OneMore(s, t, i, e) ==
    /\ t.conn = s.conn /\ t.phase = s.phase /\ i \in Entries \ Used(s.out) /\ e.state # "free"
    /\ t.out = [s.out EXCEPT ![i] = e]

LEMMA OneMoreIs ==
  ASSUME NEW s, NEW t, NEW i, NEW e, IsClient(s), OneMore(s, t, i, e)
  PROVE  /\ Used(t.out) = Used(s.out) \cup {i} /\ t.out[i] = e
         /\ \A j \in Used(s.out) : t.out[j] = s.out[j] /\ j # i
         /\ IsTable(t.out)
<1>1. i \in Entries \ Used(s.out) /\ e.state # "free" /\ s.out = [j \in Entries |-> s.out[j]]
    /\ t.out = [s.out EXCEPT ![i] = e]
  BY DEF OneMore, IsClient
<1>2. t.out = [j \in Entries |-> t.out[j]] /\ \A j \in Entries : t.out[j] = IF j = i THEN e ELSE s.out[j]
  BY <1>1
<1>3. Used(t.out) = Used(s.out) \cup {i}
  <2> DEFINE o == t.out
             n == s.out
  <2>1. i \in Entries /\ e.state # "free" /\ \A j \in Entries : o[j] = IF j = i THEN e ELSE n[j]
    BY <1>1, <1>2
  <2> HIDE DEF o, n
  <2>2. Used(o) = Used(n) \cup {i}
    BY <2>1 DEF Used
  <2>3. QED BY <2>2 DEF o, n
<1>4. \A j \in Used(s.out) : j \in Entries /\ j # i
  BY <1>1 DEF Used
<1>5. QED BY <1>1, <1>2, <1>3, <1>4 DEF IsTable

LEMMA OneMoreOwn ==
  ASSUME NEW s, NEW t, NEW i, NEW e, IsClient(s), OneMore(s, t, i, e), NEW a, NEW r,
         NEW v, IsConn(v), OwnParty(s, v, r), s.phase = "idle", e.id \in Ids,
         \A j \in Used(s.out) : s.out[j].id # e.id,
         NEW p, p.type = "publish", p.id = e.id, p.m = e.m, p.qos = e.qos, e.state = First(e.qos)
  PROVE  IsConn(WithUp(v, p)) /\ OwnParty(t, WithUp(v, p), r)
<1> DEFINE u == WithUp(v, p)
<1>1. /\ Used(t.out) = Used(s.out) \cup {i} /\ t.out[i] = e
      /\ \A j \in Used(s.out) : t.out[j] = s.out[j] /\ j # i
  BY OneMoreIs
<1>2. t.conn = s.conn /\ t.phase = s.phase
  BY DEF OneMore
<1>3. ASSUME NEW q, UpOK(s, q) PROVE UpOK(t, q)
  <2>1. \A st : Awaits(s, q.id, st) => Awaits(t, q.id, st)
    BY <1>1 DEF Awaits
  <2>2. \A j \in Used(s.out) : j \in Used(t.out) /\ t.out[j] = s.out[j]
    BY <1>1
  <2>3. QED BY <1>3, <2>1, <2>2 DEF UpOK
<1>4. \A q : DownOK(s, q) => DownOK(t, q)
  BY <1>1 DEF DownOK, Awaits
<1>5. Talk(s, v)
  BY DEF OwnParty
<1>6. Talk(t, v) /\ Idle(v, UpA, DownA, p.id)
  BY <1>2, <1>3, <1>4, <1>5, UnusedIdle DEF Talk
<1>7. UpOK(t, p)
  BY <1>1 DEF UpOK
<1>8. IsConn(u) /\ Talk(t, u) /\ u.down = v.down /\ ToSet(u.up) \subseteq ToSet(v.up) \cup {p}
  BY <1>2, <1>6, <1>7, TokenUp
<1> HIDE DEF u
<1>9. \A id : IdPacket("pubrel", id) \in ToSet(u.up) => IdPacket("pubrel", id) \in ToSet(v.up)
  BY <1>8, IdPacketIs
<1>10. \A ty \in DownA : IdPacket(ty, e.id) \notin ToSet(v.down)
  BY <1>6, IdPacketIs DEF Idle, NoTok, Tok
<1>11. IdPacket("pubrel", e.id) \notin ToSet(v.up)
  BY <1>6, IdPacketIs DEF Idle, NoTok, Tok, UpA
<1>12. ASSUME NEW inc, Link(s, v, inc, r) PROVE Link(t, u, inc, r)
  BY <1>1, <1>2, <1>8, <1>9, <1>10, <1>11, <1>12 DEF Link, DownA
<1>13. Forwarded(t, u, log.fwd, r)
  BY <1>1, <1>8, <1>10 DEF Forwarded, OwnParty, DownA
<1>14. QED BY <1>2, <1>8, <1>12, <1>13 DEF OwnParty, u
LEMMA PlanIs ==
  ASSUME AppOK(app), NEW m \in DOMAIN app.plan.pubs
  PROVE  m \in Messages /\ app.plan.pubs[m].qos \in 0 .. 2 /\ MaxMessages \in Nat
<1>1. app.plan \in Scenarios
  BY DEF AppOK
<1>2. Len(app.plan.pubs) \in 1 .. MaxMessages /\ MaxMessages \in Nat
      /\ app.plan.pubs \in Seq([qos : Qualities, retain : {"no", "store", "clear"}])
  BY <1>1, MqttClientAssumption, MqttWireAssumption DEF Messages
<1>3. app.plan.pubs[m] \in [qos : Qualities, retain : {"no", "store", "clear"}] /\ m \in 1 .. Len(app.plan.pubs)
  <2> DEFINE P == [qos : Qualities, retain : {"no", "store", "clear"}]
             r == app.plan.pubs
  <2>1. r \in Seq(P) /\ m \in DOMAIN r
    BY <1>2
  <2> HIDE DEF P, r
  <2>2. m \in 1 .. Len(r) /\ r[m] \in P
    BY <2>1
  <2>3. QED BY <2>2 DEF P, r
<1>4. QED BY <1>2, <1>3 DEF Messages, Qualities

LEMMA FreeEntry ==
  ASSUME NEW out, Used(out) # Entries
  PROVE  Min(Entries \ Used(out)) \in Entries \ Used(out)
<1>1. MaxOutstanding \in Nat
  BY MqttWireAssumption
<1> DEFINE S == Entries \ Used(out)
<1>2. S \in SUBSET Nat /\ S # {}
  BY <1>1 DEF Entries, Used
<1> HIDE DEF S
<1>3. QED BY <1>2, MinIn DEF S

(* publish(), with the entry and the packet written out. *)
LEMMA PublishIs ==
  ASSUME NEW c \in Clients, Publish(c)
  PROVE  LET s == cli[c]
             m == app.sent + 1
             q == app.plan.pubs[m].qos
             i == Min(Entries \ Used(s.out))
             e == [state |-> IF q = 1 THEN "await_puback" ELSE "await_pubrec",
                   id |-> IF q = 0 THEN 0 ELSE AllocateIdentifier(s), qos |-> q,
                   retain |-> app.plan.pubs[m].retain, m |-> m]
         IN  /\ s.connected /\ s.phase = "idle" /\ m \in DOMAIN app.plan.pubs
             /\ q > 0 => Used(s.out) # Entries /\ e.id # 0
             /\ cli' = [cli EXCEPT ![c] = IF q = 0 THEN s ELSE [s EXCEPT !.out[i] = e, !.next = e.id]]
             /\ wire' = SendUp(wire, s.conn, PublishPacket(e, FALSE))
             /\ app' = [app EXCEPT !.sent = m]
BY DEF Publish, Ready, CanPublish, Entering, NextEntry

LEMMA ClientPublishOk ==
  ASSUME ExchangeInv, WillInv', UNCHANGED <<broker, log>>, NEW c \in Clients, Publish(c)
  PROVE  ExchangeInv'
<1> DEFINE s == cli[c]
           k == s.conn
           m == app.sent + 1
           q == app.plan.pubs[m].qos
           i == Min(Entries \ Used(s.out))
           e == [state |-> IF q = 1 THEN "await_puback" ELSE "await_pubrec",
                 id |-> IF q = 0 THEN 0 ELSE AllocateIdentifier(s), qos |-> q, retain |-> app.plan.pubs[m].retain,
                     m |-> m]
           p == PublishPacket(e, FALSE)
           u == WithUp(wire[k], p)
<1>1. /\ IsClient(s) /\ AppOK(app) /\ IsWire(wire) /\ cli = [d \in Clients |-> cli[d]] /\ Tables(s, app)
      /\ k # 0 => k \in DOMAIN wire /\ IsConn(wire[k]) /\ OwnParty(s, wire[k], app.resumed)
  BY OwnParts
<1>2. /\ s.connected /\ s.phase = "idle" /\ m \in DOMAIN app.plan.pubs
      /\ q > 0 => Used(s.out) # Entries /\ e.id # 0
      /\ cli' = [cli EXCEPT ![c] = IF q = 0 THEN s ELSE [s EXCEPT !.out[i] = e, !.next = e.id]]
      /\ wire' = SendUp(wire, k, p)
      /\ app' = [app EXCEPT !.sent = m]
  BY PublishIs
<1>3. k # 0 /\ m \in Messages /\ q \in 0 .. 2 /\ app.sent \in Nat
  BY <1>1, <1>2, PlanIs DEF IsClient, AppOK
<1>4. /\ p.type = "publish" /\ p.id = e.id /\ p.m = e.m /\ p.qos = e.qos /\ e.qos = q /\ e.m = m
      /\ e.state = First(q) /\ e.state # "free" /\ {"state", "id", "qos", "retain", "m"} \subseteq DOMAIN e
      /\ e.id = IF q = 0 THEN 0 ELSE AllocateIdentifier(s)
  BY DEF PublishPacket, First
<1> HIDE DEF e, p
<1>5. Only(wire, wire', k, u)
  BY <1>1, <1>2, <1>3, SendUpIs
<1>6. Later(app, app') /\ app'.done = app.done /\ app'.resumed = app.resumed /\ app'.sent = m /\ app'.plan = app.plan
  BY <1>1, <1>2, <1>3 DEF Later, AppOK
<1>7. CASE q = 0
  <2>1. UpOK(s, p) /\ p.type # "pubrel" /\ \A id \in Ids : ~Tok(p, UpA, id)
    BY <1>4, <1>7, MqttWireAssumption DEF UpOK, Tok, Ids
  <2>2. IsConn(u) /\ \A r : OwnParty(s, wire[k], r) => OwnParty(s, u, r)
    BY <1>1, <1>3, <2>1, ForeignUp
  <2>3. cli' = [cli EXCEPT ![c] = s] /\ SameClient(s, s)
    BY <1>1, <1>2, <1>7 DEF SameClient
  <2> HIDE DEF u
  <2>4. QED BY <1>3, <1>5, <1>6, <2>2, <2>3, SideStep
<1>8. CASE q # 0
  <2> DEFINE t == [s EXCEPT !.out = [s.out EXCEPT ![i] = e], !.next = e.id]
  <2>1. cli' = [cli EXCEPT ![c] = t]
    BY <1>1, <1>2, <1>8
  <2>2. i \in Entries \ Used(s.out) /\ e.id \in Ids \ Busy(s)
    <3>1. Used(s.out) # Entries /\ AllocateIdentifier(s) # 0
      BY <1>2, <1>3, <1>4, <1>8
    <3>2. QED BY <1>1, <1>4, <1>8, <3>1, FreeEntry, Fresh
  <2>3. t.conn = k /\ t.phase = s.phase /\ t.connected = s.connected /\ t.out = [s.out EXCEPT ![i] = e]
      /\ t.next = e.id /\ DOMAIN t = DOMAIN s
    BY <1>1 DEF IsClient
  <2> HIDE DEF t, i
  <2>4. OneMore(s, t, i, e)
    BY <1>4, <2>2, <2>3 DEF OneMore
  <2>5. /\ Used(t.out) = Used(s.out) \cup {i} /\ t.out[i] = e
        /\ \A j \in Used(s.out) : t.out[j] = s.out[j] /\ j # i
        /\ IsTable(t.out)
    BY <1>1, <2>4, OneMoreIs
  <2>6. \A j \in Used(s.out) : s.out[j].id # e.id
    BY <2>2 DEF Busy
  <2>7. e.id \in Nat
    BY <2>2, MqttWireAssumption DEF Ids
  <2>8. IsClient(t)
    BY <1>1, <1>4, <2>3, <2>5, <2>7 DEF IsClient, IsTable
  <2>9. EntryOK(e, app')
    BY <1>3, <1>4, <1>6, <1>8, <2>2 DEF EntryOK, First
  <2>10. Tables(s, app')
    BY <1>1, <1>6, LaterTables
  <2>11. Tables(t, app')
    BY <2>5, <2>6, <2>9, <2>10 DEF Tables
  <2>12. IsConn(u) /\ OwnParty(t, u, app'.resumed)
    <3>1. e.id \in Ids /\ e.state = First(e.qos) /\ OwnParty(s, wire[k], app'.resumed)
      BY <1>1, <1>3, <1>4, <1>6, <2>2
    <3>2. QED BY <1>1, <1>2, <1>3, <1>4, <2>4, <2>6, <3>1, OneMoreOwn
  <2> HIDE DEF u
  <2>13. QED BY <1>3, <1>5, <1>6, <2>1, <2>3, <2>8, <2>11, <2>12, OwnStep
<1>9. QED BY <1>7, <1>8
-----------------------------------------------------------------------------

LEMMA RequestOk ==
  ASSUME ExchangeInv, WillInv', UNCHANGED <<broker, log>>, NEW c \in Clients,
         NEW ty \in {"subscribe", "unsubscribe"}, NEW q, Request(c, ty, q)
  PROVE  ExchangeInv'
<1> DEFINE s == cli[c]
           k == s.conn
           id == AllocateIdentifier(s)
           t == [s EXCEPT !.req = @ \cup {[id |-> id, type |-> ty]}, !.next = id]
           p == [type |-> ty, id |-> id, qos |-> q]
           u == WithUp(wire[k], p)
<1>1. /\ IsClient(s) /\ AppOK(app) /\ IsWire(wire) /\ cli = [d \in Clients |-> cli[d]]
      /\ k # 0 => k \in DOMAIN wire /\ IsConn(wire[k])
  BY OwnParts
<1>2. /\ s.connected /\ s.phase = "idle" /\ id # 0
      /\ cli' = [cli EXCEPT ![c].req = @ \cup {[id |-> id, type |-> ty]}, ![c].next = id]
      /\ wire' = SendUp(wire, k, p)
      /\ app' = [app EXCEPT !.calls = NextCall]
  BY DEF Request, Ready
<1>3. cli' = [cli EXCEPT ![c] = t]
  BY <1>1, <1>2
<1>4. p.type = ty
  OBVIOUS
<1>5. id \in Ids
  BY <1>1, <1>2, Fresh
<1>6. id \in Nat
  BY <1>5, MqttWireAssumption DEF Ids
<1> HIDE DEF id, p
<1>7. SameClient(s, t)
  <2>1. t.conn = s.conn /\ t.phase = s.phase /\ t.out = s.out /\ t.connected = s.connected /\ t.next = id
      /\ DOMAIN t = DOMAIN s
    BY <1>1 DEF IsClient
  <2> HIDE DEF t
  <2>2. QED BY <1>1, <1>6, <2>1 DEF SameClient, IsClient
<1>8. UpOK(s, p) /\ p.type # "pubrel" /\ \A n \in Ids : ~Tok(p, UpA, n)
  BY <1>4 DEF UpOK, Tok, UpA
<1>9. k # 0
  BY <1>1, <1>2 DEF IsClient
<1> HIDE DEF t
<1>10. Only(wire, wire', k, u) /\ IsConn(u) /\ \A r : OwnParty(s, wire[k], r) => OwnParty(s, u, r)
  BY <1>1, <1>2, <1>8, <1>9, SendUpIs, ForeignUp
<1> HIDE DEF u
<1>11. Later(app, app') /\ app'.done = app.done /\ app'.resumed = app.resumed
  BY <1>1, <1>2 DEF Later, AppOK
<1>12. QED BY <1>3, <1>7, <1>9, <1>10, <1>11, SideStep

LEMMA OnlyRefl == ASSUME NEW w, NEW k PROVE Only(w, w, k, w[k])
BY DEF Only

LEMMA CallFailsOk ==
  ASSUME ExchangeInv, WillInv', UNCHANGED <<broker, log>>, NEW c \in Clients, CallFails(c)
  PROVE  ExchangeInv'
<1> DEFINE s == cli[c]
           k == s.conn
           id == AllocateIdentifier(s)
           t == [s EXCEPT !.next = id]
           u == wire[k]
<1>1. /\ IsClient(s) /\ AppOK(app) /\ IsWire(wire) /\ cli = [d \in Clients |-> cli[d]]
      /\ k # 0 => k \in DOMAIN wire /\ IsConn(wire[k])
  BY OwnParts
<1>2. /\ s.connected /\ s.phase = "idle" /\ id # 0
      /\ cli' = [cli EXCEPT ![c].next = id]
      /\ wire' = wire
      /\ app' = app \/ app' = [app EXCEPT !.calls = NextCall]
  BY DEF CallFails, Ready
<1>3. cli' = [cli EXCEPT ![c] = t]
  BY <1>1, <1>2
<1>5. id \in Ids
  BY <1>1, <1>2, Fresh
<1>6. id \in Nat
  BY <1>5, MqttWireAssumption DEF Ids
<1> HIDE DEF id
<1>7. SameClient(s, t)
  <2>1. t.conn = s.conn /\ t.phase = s.phase /\ t.out = s.out /\ t.connected = s.connected /\ t.next = id
      /\ DOMAIN t = DOMAIN s
    BY <1>1 DEF IsClient
  <2> HIDE DEF t
  <2>2. QED BY <1>1, <1>6, <2>1 DEF SameClient, IsClient
<1>9. k # 0
  BY <1>1, <1>2 DEF IsClient
<1> HIDE DEF t
<1>10. Only(wire, wire', k, u) /\ IsConn(u)
  BY <1>1, <1>2, <1>9, OnlyRefl
<1>11. Later(app, app') /\ app'.done = app.done /\ app'.resumed = app.resumed
  BY <1>1, <1>2 DEF Later, AppOK
<1>12. QED BY <1>3, <1>7, <1>9, <1>10, <1>11, SideStep

-----------------------------------------------------------------------------
(* connect() *)
LEMMA NoneUsed == Used(NewClient.out) = {} /\ IsTable(NewClient.out)
BY DEF NewClient, Used, Free, IsTable

(* Client t is client s that has dialled connection k, or none when k = 0. *)
Dialling(s, t, k, ph) ==
    /\ t.conn = k /\ t.phase = ph /\ t.connected = FALSE /\ t.next = s.next /\ DOMAIN t = DOMAIN s
    /\ t.out = s.out \/ t.out = NewClient.out

LEMMA DiallingIs ==
  ASSUME NEW s, NEW t, NEW k, NEW ph, IsClient(s), Dialling(s, t, k, ph), ph # "idle" => k # 0
  PROVE  /\ IsClient(t) /\ t.conn = k /\ t.phase = ph
         /\ \A a : Tables(s, a) => Tables(t, a)
<1>1. t.out = s.out \/ (Used(t.out) = {} /\ IsTable(t.out))
  BY NoneUsed DEF Dialling
<1>2. IsClient(t)
  BY <1>1 DEF Dialling, IsClient, IsTable
<1>3. QED BY <1>1, <1>2 DEF Dialling, Tables

LEMMA ForgetfulIs ==
  ASSUME NEW s, IsClient(s), NEW o
  PROVE  LET t == Forgetful(s, o) IN
         /\ t.conn = s.conn /\ t.phase = s.phase /\ t.next = s.next /\ DOMAIN t = DOMAIN s
         /\ t.out = s.out \/ t.out = NewClient.out
<1> DEFINE n == NewClient.out
<1> HIDE DEF n
<1>1. Forgetful(s, o) = IF o.clean THEN [s EXCEPT !.out = n, !.inc = {}, !.req = {}] ELSE s
  BY DEF Forgetful, n
<1>2. QED BY <1>1 DEF IsClient, n

LEMMA ConnectFailsOk ==
  ASSUME ExchangeInv, WillInv', UNCHANGED <<broker, log>>, NEW c \in Clients, ConnectFails(c)
  PROVE  ExchangeInv'
<1> DEFINE s == cli[c]
           o == app.plan.opts[Len(wire) + 1]
           f == Forgetful(s, o)
           t == [f EXCEPT !.connected = FALSE, !.clean = o.clean, !.keep = o.keep]
<1>1. IsClient(s) /\ AppOK(app) /\ Tables(s, app) /\ cli = [d \in Clients |-> cli[d]] /\ 0 \notin DOMAIN wire
  BY OwnParts
<1>2. s.conn = 0 /\ s.phase = "idle" /\ cli' = [cli EXCEPT ![c] = [Forgetful(@, o) EXCEPT
                 !.connected = FALSE, !.clean = o.clean, !.keep = o.keep]] /\ wire' = wire /\ app' = app
  BY DEF ConnectFails
<1> HIDE DEF o
<1>3. cli' = [cli EXCEPT ![c] = t]
  BY <1>1, <1>2
<1>4. /\ f.conn = s.conn /\ f.phase = s.phase /\ f.next = s.next /\ DOMAIN f = DOMAIN s
      /\ f.out = s.out \/ f.out = NewClient.out
  BY <1>1, ForgetfulIs
<1> HIDE DEF f
<1>5. Dialling(s, t, 0, "idle")
  <2>1. /\ t.conn = f.conn /\ t.phase = f.phase /\ t.next = f.next /\ DOMAIN t = DOMAIN f /\ t.connected = FALSE
        /\ t.out = f.out
    BY <1>1, <1>4 DEF IsClient
  <2> HIDE DEF t
  <2>2. QED BY <1>2, <1>4, <2>1 DEF Dialling
<1> HIDE DEF t
<1>6. IsClient(t) /\ t.conn = 0 /\ Tables(t, app)
  BY <1>1, <1>5, DiallingIs
<1>7. Only(wire, wire', cli[c].conn, wire[cli[c].conn])
  BY <1>2, OnlyRefl
<1>8. Later(app, app') /\ app'.done = app.done /\ Tables(t, app')
  BY <1>1, <1>2, <1>6, LaterRefl
<1>9. QED BY <1>2, <1>3, <1>6, <1>7, <1>8, OwnStep
(* A connection that was just dialled. *)
LEMMA DialledIs ==
  ASSUME NEW p, p.type = "connect"
  PROVE  LET u == WithUp(Dialled, p) IN
         /\ IsConn(u) /\ u.broker = "backlog" /\ u.down = <<>>
         /\ \A q \in ToSet(u.up) : q = p
         /\ \A id : Idle(u, UpA, DownA, id) /\ Single(u, UpA, DownA, id)
<1> DEFINE d == Dialled
           u == WithUp(d, p)
<1>1. d.up = <<>> /\ d.down = <<>> /\ d.broker = "backlog"
    /\ {"up", "down", "client", "broker", "cut"} \subseteq DOMAIN d
  BY DEF Dialled
<1> HIDE DEF d
<1>2. IsConn(d) /\ ToSet(d.up) = {}
  BY <1>1, EmptyIs DEF IsConn
<1>3. \A id : Idle(d, UpA, DownA, id) /\ Single(d, UpA, DownA, id) /\ ~Tok(p, UpA, id)
  BY <1>1, TokEmpty DEF Idle, Single, Tok, UpA
<1>4. /\ IsConn(u) /\ SameSides(d, u) /\ u.down = d.down /\ ToSet(u.up) \subseteq ToSet(d.up) \cup {p}
      /\ \A U, D, id : Idle(d, U, D, id) /\ ~Tok(p, U, id) => Idle(u, U, D, id)
      /\ \A U, D, id : Single(d, U, D, id) /\ (~Tok(p, U, id) \/ Idle(d, U, D, id)) => Single(u, U, D, id)
  BY <1>2, WithUpIs
<1> HIDE DEF u
<1>5. \A id : Idle(u, UpA, DownA, id) /\ Single(u, UpA, DownA, id)
  BY <1>3, <1>4
<1>6. QED BY <1>1, <1>2, <1>4, <1>5 DEF SameSides, d, u

LEMMA ConnectOk ==
  ASSUME ExchangeInv, WillInv', UNCHANGED <<broker, log>>, NEW c \in Clients, Connect(c)
  PROVE  ExchangeInv'
<1> DEFINE s == cli[c]
           x == World
           y == World'
           k == Len(wire) + 1
           o == app.plan.opts[k]
           p == [type |-> "connect", id |-> c, opts |-> o]
           f == Forgetful(s, o)
           t == [f EXCEPT !.conn = k, !.phase = "wait", !.connected = FALSE, !.clean = o.clean, !.keep = o.keep]
           u == WithUp(Dialled, p)
           cm == cli'
<1>1. /\ IsClient(s) /\ AppOK(app) /\ Tables(s, app) /\ cli = [d \in Clients |-> cli[d]] /\ 0 \notin DOMAIN wire
      /\ IsWire(wire)
  BY OwnParts
<1>2. /\ s.conn = 0 /\ Len(wire) < MaxConnections /\ app' = app
      /\ cli' = [cli EXCEPT ![c] = [Forgetful(@, o) EXCEPT
                  !.conn = k, !.phase = "wait", !.connected = FALSE, !.clean = o.clean, !.keep = o.keep]]
      /\ wire' = SendUp(Dial(wire), k, p)
  BY DEF Connect
<1>3. p.type = "connect"
  OBVIOUS
<1> HIDE DEF o, p
<1>4. cm = [cli EXCEPT ![c] = t]
  BY <1>1, <1>2
<1>5. /\ f.conn = s.conn /\ f.phase = s.phase /\ f.next = s.next /\ DOMAIN f = DOMAIN s
      /\ f.out = s.out \/ f.out = NewClient.out
  BY <1>1, ForgetfulIs
<1> HIDE DEF f, cm
<1>6. Dialling(s, t, k, "wait")
  <2>1. /\ t.conn = k /\ t.phase = "wait" /\ t.next = f.next /\ DOMAIN t = DOMAIN f /\ t.connected = FALSE
        /\ t.out = f.out
    BY <1>1, <1>5 DEF IsClient
  <2> HIDE DEF t
  <2>2. QED BY <1>5, <2>1 DEF Dialling
<1> HIDE DEF t
<1>7. /\ IsWire(Dial(wire)) /\ DOMAIN Dial(wire) = DOMAIN wire \cup {k} /\ k \notin DOMAIN wire
      /\ \A n \in DOMAIN wire : Dial(wire)[n] = wire[n]
      /\ Dial(wire)[k] = Dialled /\ k # 0
  <2>1. IsWire(wire) /\ Len(wire) < MaxConnections
    BY <1>1, <1>2
  <2>2. /\ IsWire(Dial(wire)) /\ DOMAIN Dial(wire) = DOMAIN wire \cup {k} /\ k \notin DOMAIN wire
        /\ \A n \in DOMAIN wire : Dial(wire)[n] = wire[n]
        /\ Dial(wire)[k] = Dialled /\ Len(wire) \in Nat
    BY <2>1, DialAdds
  <2>3. QED BY <2>2
<1>8. IsClient(t) /\ t.conn = k /\ t.phase = "wait" /\ Tables(t, app)
  BY <1>1, <1>6, <1>7, DiallingIs
<1> HIDE DEF k
<1>9. Only(Dial(wire), wire', k, u)
  BY <1>2, <1>7, SendUpIs
<1>10. /\ DOMAIN wire' = DOMAIN wire \cup {k} /\ wire'[k] = u
       /\ \A n \in DOMAIN wire : wire'[n] = wire[n]
  BY <1>7, <1>9 DEF Only
<1>11. /\ IsConn(u) /\ u.broker = "backlog" /\ u.down = <<>>
       /\ \A q \in ToSet(u.up) : q = p
       /\ \A id : Idle(u, UpA, DownA, id) /\ Single(u, UpA, DownA, id)
  BY <1>3, DialledIs
<1> HIDE DEF u
<1>12. Based(x) /\ Exchanges(x, cli, app) /\ x.b = broker /\ x.w = wire /\ x.log = log /\ Acked(x, app)
  BY DEF ExchangeInv, World
<1>13. y.b = broker /\ y.w = wire' /\ y.log = log /\ Steady(y)
  BY DEF World, WillInv
<1> HIDE DEF x, y
<1>14. Based(y)
  <2>1. \A n \in DOMAIN y.w : IsConn(y.w[n])
    BY <1>10, <1>11, <1>12, <1>13 DEF Based
  <2>2. QED BY <1>12, <1>13, <2>1, SteadyBased DEF Based
<1>15. Party(y, t, app)
  <2>1. y.w[t.conn] = u
    BY <1>8, <1>10, <1>13
  <2>2. Talk(t, u)
    <3>1. \A q \in ToSet(u.up) : UpOK(t, q)
      BY <1>3, <1>11 DEF UpOK
    <3>2. \A q \in ToSet(u.down) : DownOK(t, q)
      BY <1>11, EmptyIs
    <3>3. QED BY <1>8, <1>11, <3>1, <3>2 DEF Talk
  <2>3. Forwarded(t, u, y.log.fwd, app.resumed)
    BY <1>11, EmptyIs DEF Forwarded
  <2>4. \A i \in Slots : ~Alive(y.b.slots[i], t.conn)
    BY <1>7, <1>8, <1>12, <1>13 DEF Alive, Based, Open
  <2>5. QED BY <2>1, <2>2, <2>3, <2>4 DEF Party
<1>16. Exchanges(y, cm, app)
  <2>1. Moves(cli, cm, c, t)
    BY <1>1, <1>4 DEF Moves
  <2>2. y.b = x.b /\ y.log = x.log /\ DOMAIN x.w \subseteq DOMAIN y.w
        /\ \A n \in DOMAIN x.w : n # cli[c].conn => y.w[n] = x.w[n]
    BY <1>10, <1>12, <1>13
  <2>3. t.conn \in DOMAIN y.w \ DOMAIN x.w
    BY <1>7, <1>8, <1>10, <1>12, <1>13
  <2>4. Later(app, app)
    BY <1>1, LaterRefl
  <2>5. QED BY <1>8, <1>12, <1>15, <2>1, <2>2, <2>3, <2>4, MoveOk
<1>17. Acked(y, app)
  BY <1>12, <1>13 DEF Acked
<1>18. QED BY <1>1, <1>2, <1>14, <1>16, <1>17 DEF ExchangeInv, y, cm
-----------------------------------------------------------------------------

(* The entries in use, in order, each once. *)
LEMMA NthIs ==
  ASSUME NEW S \in SUBSET Entries
  PROVE  /\ Cardinality(S) \in Nat
         /\ \A j \in 1 .. Cardinality(S) : Nth(S, j) \in S
         /\ \A i, j \in 1 .. Cardinality(S) : Nth(S, i) = Nth(S, j) => i = j
<1> DEFINE n == Cardinality(S)
           upto(i) == {h \in S : h <= i}
           f == [i \in S |-> Cardinality(upto(i))]
           T == 1 .. n
<1>1. MaxOutstanding \in Nat
  BY MqttWireAssumption
<1>2. IsFiniteSet(S) /\ n \in Nat /\ \A i \in S : i \in Nat
  <2>1. IsFiniteSet(1 .. MaxOutstanding)
    BY <1>1, FS_Interval
  <2>2. IsFiniteSet(S)
    BY <2>1, FS_Subset DEF Entries
  <2>3. QED BY <2>2, FS_CardinalityType DEF Entries
<1>3. ASSUME NEW i \in S PROVE IsFiniteSet(upto(i)) /\ Cardinality(upto(i)) \in T
  <2>1. upto(i) \in SUBSET S /\ i \in upto(i)
    BY <1>2
  <2>2. IsFiniteSet(upto(i)) /\ Cardinality(upto(i)) <= n
    BY <1>2, <2>1, FS_Subset
  <2>3. Cardinality(upto(i)) \in Nat /\ Cardinality(upto(i)) # 0
    BY <2>1, <2>2, FS_CardinalityType, FS_EmptySet
  <2> HIDE DEF upto
  <2>4. QED BY <1>2, <2>2, <2>3
<1>4. f \in [S -> T]
  BY <1>3
<1>5. ASSUME NEW i \in S, NEW j \in S, f[i] = f[j], i < j PROVE FALSE
  <2>1. upto(i) \in SUBSET upto(j) /\ j \in upto(j) /\ j \notin upto(i)
    BY <1>2, <1>5
  <2>2. IsFiniteSet(upto(j)) /\ Cardinality(upto(i)) = Cardinality(upto(j))
    BY <1>3, <1>5
  <2> HIDE DEF upto
  <2>3. upto(i) = upto(j)
    BY <2>1, <2>2, FS_Subset
  <2>4. QED BY <2>1, <2>3
<1>6. \A i, j \in S : f[i] = f[j] => i = j
  <2> SUFFICES ASSUME NEW i \in S, NEW j \in S, f[i] = f[j], i # j PROVE FALSE
    OBVIOUS
  <2>1. i < j \/ j < i
    BY <1>2
  <2> HIDE DEF f
  <2>2. QED BY <1>5, <2>1
<1> HIDE DEF f
<1>7. f \in Injection(S, T)
  BY <1>4, <1>6, Fun_IsInj
<1>8. IsFiniteSet(T) /\ Cardinality(T) = n
  BY <1>2, FS_Interval
<1> HIDE DEF T
<1>9. f \in Surjection(S, T)
  BY <1>7, <1>8, FS_Injection
<1>10. \A j \in T : \E i \in S : f[i] = j
  BY <1>9, Fun_SurjectionProperties
<1>11. \A j \in T : Nth(S, j) \in S /\ f[Nth(S, j)] = j
  BY <1>10 DEF Nth, f
<1>12. QED BY <1>2, <1>11 DEF T
LEMMA TokConcat ==
  ASSUME NEW q, IsSeq(q), NEW r, IsSeq(r), NEW K, NEW id, NoTok(q, K, id), OneTok(r, K, id)
  PROVE  OneTok(q \o r, K, id)
<1> DEFINE t == q \o r
           n == Len(q)
           m == Len(r)
<1>1. /\ n \in Nat /\ DOMAIN q = 1 .. n /\ m \in Nat /\ DOMAIN r = 1 .. m /\ DOMAIN t = 1 .. n + m
      /\ \A j \in 1 .. n + m : t[j] = IF j <= n THEN q[j] ELSE r[j - n]
  BY ConcatIs
<1> HIDE DEF t, n, m
<1>2. \A j \in DOMAIN t : \/ j \in DOMAIN q /\ t[j] = q[j]
                          \/ j - n \in DOMAIN r /\ t[j] = r[j - n] /\ j \in Int
  BY <1>1
<1>3. \A j \in DOMAIN q : q[j] \in ToSet(q)
  BY DEF ToSet
<1>4. ASSUME NEW i \in DOMAIN t, NEW j \in DOMAIN t, Tok(t[i], K, id), Tok(t[j], K, id)
      PROVE  i = j
  <2>1. i - n \in DOMAIN r /\ t[i] = r[i - n] /\ j - n \in DOMAIN r /\ t[j] = r[j - n] /\ i \in Int /\ j \in Int
    BY <1>2, <1>3, <1>4 DEF NoTok
  <2>2. i - n = j - n
    BY <1>4, <2>1 DEF OneTok
  <2>3. QED BY <1>1, <2>1, <2>2
<1>5. OneTok(t, K, id)
  BY <1>4 DEF OneTok
<1>6. QED BY <1>5 DEF t

WithAllUp(v, ps) ==
    IF v.cut \/ v.broker = "closed" THEN v ELSE [v EXCEPT !.up = @ \o ps]

LEMMA SendAllUpIs ==
  ASSUME NEW w, IsWire(w), NEW k \in DOMAIN w, NEW ps
  PROVE  Only(w, SendAllUp(w, k, ps), k, WithAllUp(w[k], ps))
<1>1. CASE w[k].cut \/ w[k].broker = "closed"
  BY <1>1 DEF SendAllUp, WithAllUp, Only
<1>2. CASE ~(w[k].cut \/ w[k].broker = "closed")
  <2> DEFINE u == [w[k] EXCEPT !.up = @ \o ps]
  <2>1. SendAllUp(w, k, ps) = [w EXCEPT ![k] = u] /\ WithAllUp(w[k], ps) = u
    BY <1>2 DEF SendAllUp, WithAllUp
  <2> HIDE DEF u
  <2>2. QED BY <2>1 DEF Only, IsWire
<1>3. QED BY <1>1, <1>2

LEMMA WithAllUpIs ==
  ASSUME NEW v, IsConn(v), NEW ps, IsSeq(ps)
  PROVE  LET u == WithAllUp(v, ps) IN
         /\ IsConn(u) /\ SameSides(v, u) /\ u.down = v.down
         /\ ToSet(v.up) \subseteq ToSet(u.up) /\ ToSet(u.up) \subseteq ToSet(v.up) \cup ToSet(ps)
         /\ \A U, D, id : Idle(v, U, D, id) /\ OneTok(ps, U, id) => Single(u, U, D, id)
<1> DEFINE u == WithAllUp(v, ps)
<1>0. \A U, D, id : Idle(v, U, D, id) => OneTok(v.up, U, id) /\ OneTok(v.down, D, id)
  BY DEF Idle, NoTok, OneTok, ToSet
<1>1. CASE u = v
  BY <1>0, <1>1 DEF SameSides, Single, Idle
<1>2. CASE u = [v EXCEPT !.up = @ \o ps]
  <2>1. /\ u.up = v.up \o ps /\ u.down = v.down /\ SameSides(v, u)
        /\ {"up", "down", "client", "broker", "cut"} \subseteq DOMAIN u
    BY <1>2 DEF IsConn, SameSides
  <2> HIDE DEF u
  <2>2. IsConn(u) /\ ToSet(u.up) = ToSet(v.up) \cup ToSet(ps)
    BY <2>1, ConcatIs, SetOfConcat DEF IsConn
  <2>3. ASSUME NEW U, NEW D, NEW id, Idle(v, U, D, id), OneTok(ps, U, id)
        PROVE  Single(u, U, D, id)
    <3>1. OneTok(u.up, U, id)
      BY <2>1, <2>3, TokConcat DEF Idle, IsConn
    <3>2. QED BY <1>0, <2>1, <2>3, <3>1 DEF Single, Idle
  <2>4. QED BY <2>1, <2>2, <2>3 DEF u
<1>3. u \in {v, [v EXCEPT !.up = @ \o ps]}
  BY DEF WithAllUp
<1>4. QED BY <1>1, <1>2, <1>3

(* What resend_outgoing() sends. *)
Resent(out) == [j \in 1 .. Cardinality(Used(out)) |-> Resend(out[Nth(Used(out), j)])]

LEMMA ResendIs ==
  ASSUME NEW e
  PROVE  LET p == Resend(e) IN
         /\ p.id = e.id /\ p.type \in UpA
         /\ e.state # "await_pubcomp" => p.type = "publish" /\ p.m = e.m /\ p.qos = e.qos
         /\ e.state = "await_pubcomp" => p = IdPacket("pubrel", e.id) /\ p.type = "pubrel"
BY IdPacketIs DEF Resend, PublishPacket, UpA

LEMMA ResentIs ==
  ASSUME NEW s, IsClient(s), NEW a, Tables(s, a)
  PROVE  LET ps == Resent(s.out) IN
         /\ IsSeq(ps)
         /\ \A p \in ToSet(ps) : \E i \in Used(s.out) : p = Resend(s.out[i])
         /\ \A id : OneTok(ps, UpA, id)
<1> DEFINE out == s.out
           S == Used(out)
           n == Cardinality(S)
           ps == Resent(out)
<1>1. S \in SUBSET Entries
  BY DEF Used
<1>2. \A i, j \in S : out[i].id = out[j].id => i = j
  BY DEF Tables
<1> HIDE DEF S, out
<1>3. n \in Nat /\ (\A j \in 1 .. n : Nth(S, j) \in S) /\ \A i, j \in 1 .. n : Nth(S, i) = Nth(S, j) => i = j
  BY <1>1, NthIs
<1>4. ps = [j \in 1 .. n |-> Resend(out[Nth(S, j)])]
  BY DEF Resent, S
<1> HIDE DEF n, ps
<1>5. IsSeq(ps)
  <2> DEFINE T == {Resend(out[Nth(S, j)]) : j \in 1 .. n}
  <2>1. ps \in [1 .. n -> T]
    BY <1>4
  <2> HIDE DEF T
  <2>2. ps \in Seq(T)
    BY <1>3, <2>1
  <2>3. QED BY <2>2 DEF IsSeq
<1>6. DOMAIN ps = 1 .. n /\ \A j \in 1 .. n : ps[j] = Resend(out[Nth(S, j)]) /\ ps[j].id = out[Nth(S, j)].id
  BY <1>4, ResendIs
<1>7. \A p \in ToSet(ps) : \E i \in S : p = Resend(out[i])
  BY <1>3, <1>6 DEF ToSet
<1>8. \A id : OneTok(ps, UpA, id)
  BY <1>2, <1>3, <1>6 DEF OneTok, Tok
<1>9. QED BY <1>5, <1>7, <1>8 DEF ps, S, out
LEMMA ResumeOwn ==
  ASSUME NEW s, IsClient(s), NEW a, Tables(s, a), NEW v, IsConn(v), NEW r, OwnParty(s, v, r), s.phase = "acked",
         NEW t, t.conn = s.conn, t.out = s.out, t.phase = "idle",
         NEW q, r \subseteq q, \A i \in Used(s.out) : s.out[i].m \in q
  PROVE  IsConn(WithAllUp(v, Resent(s.out))) /\ OwnParty(t, WithAllUp(v, Resent(s.out)), q)
<1> DEFINE ps == Resent(s.out)
           u == WithAllUp(v, ps)
<1>1. /\ IsSeq(ps)
      /\ \A p \in ToSet(ps) : \E i \in Used(s.out) : p = Resend(s.out[i])
      /\ \A id : OneTok(ps, UpA, id)
  BY ResentIs
<1> HIDE DEF ps
<1>2. /\ IsConn(u) /\ SameSides(v, u) /\ u.down = v.down /\ ToSet(u.up) \subseteq ToSet(v.up) \cup ToSet(ps)
      /\ \A U, D, id : Idle(v, U, D, id) /\ OneTok(ps, U, id) => Single(u, U, D, id)
  BY <1>1, WithAllUpIs
<1> HIDE DEF u
<1>3. Talk(s, v) /\ \A id \in Ids : Idle(v, UpA, DownA, id)
  BY DEF OwnParty, Talk
<1>4. \A p : (UpOK(s, p) => UpOK(t, p)) /\ (DownOK(s, p) => DownOK(t, p))
  BY DEF UpOK, DownOK, Awaits
<1>5. ASSUME NEW p \in ToSet(ps) PROVE UpOK(s, p)
  <2>1. PICK i \in Used(s.out) : p = Resend(s.out[i])
    BY <1>1
  <2> DEFINE e == s.out[i]
  <2>2. EntryOK(e, a)
    BY DEF Tables
  <2> HIDE DEF e
  <2>3. /\ p.id = e.id /\ p.type \in UpA
        /\ e.state # "await_pubcomp" => p.type = "publish" /\ p.m = e.m /\ p.qos = e.qos
        /\ e.state = "await_pubcomp" => p = IdPacket("pubrel", e.id) /\ p.type = "pubrel"
    BY <2>1, ResendIs DEF e
  <2>4. CASE e.state = "await_pubcomp"
    BY <2>3, <2>4 DEF UpOK, Awaits, e
  <2>5. CASE e.state # "await_pubcomp"
    <3>1. e.id = p.id /\ e.m = p.m /\ e.qos = p.qos /\ e.state = First(p.qos)
      BY <2>2, <2>3, <2>5 DEF EntryOK, First
    <3>2. QED BY <2>3, <2>5, <3>1 DEF UpOK, e
  <2>6. QED BY <2>4, <2>5
<1>6. Talk(t, u)
  <2>1. \A p \in ToSet(u.up) : UpOK(t, p)
    BY <1>2, <1>3, <1>4, <1>5 DEF Talk
  <2>2. \A p \in ToSet(u.down) : DownOK(t, p)
    BY <1>2, <1>3, <1>4 DEF Talk
  <2>3. \A id \in Ids : Single(u, UpA, DownA, id)
    BY <1>1, <1>2, <1>3
  <2>4. QED BY <1>2, <1>3, <2>1, <2>2, <2>3 DEF Talk, SameSides
<1>7. Forwarded(t, u, log.fwd, q)
  BY <1>2 DEF OwnParty, Forwarded
<1>8. ASSUME NEW inc, Link(s, v, inc, r) PROVE Link(t, u, inc, q)
  <2>1. inc = {}
    BY <1>8 DEF Link
  <2>2. QED BY <2>1 DEF Link
<1>9. QED BY <1>2, <1>6, <1>7, <1>8 DEF OwnParty, u, ps

LEMMA ForgetOwn ==
  ASSUME NEW s, NEW a, Tables(s, a), NEW v, NEW r, OwnParty(s, v, r), s.phase = "acked",
         NEW t, t.conn = s.conn, Used(t.out) = {}, t.phase = "idle"
  PROVE  OwnParty(t, v, r)
<1>1. Talk(s, v) /\ \A id \in Ids : Idle(v, UpA, DownA, id)
  BY DEF OwnParty, Talk
<1>2. \A i \in Used(s.out) : s.out[i].id \in Ids
  BY DEF Tables, EntryOK
<1>3. ASSUME NEW p \in ToSet(v.up) PROVE UpOK(t, p)
  <2>1. UpOK(s, p) /\ \A id \in Ids : ~Tok(p, UpA, id)
    BY <1>1 DEF Talk, Idle, NoTok
  <2>2. QED BY <1>2, <2>1 DEF UpOK, Awaits, Tok, UpA
<1>4. ASSUME NEW p \in ToSet(v.down) PROVE DownOK(t, p)
  <2>1. DownOK(s, p) /\ \A id \in Ids : ~Tok(p, DownA, id)
    BY <1>1 DEF Talk, Idle, NoTok
  <2>2. QED BY <1>2, <2>1 DEF DownOK, Awaits, Tok, DownA
<1>5. Talk(t, v)
  BY <1>1, <1>3, <1>4 DEF Talk
<1>6. Forwarded(t, v, log.fwd, r)
  BY DEF Forwarded
<1>7. ASSUME NEW inc, Link(s, v, inc, r) PROVE Link(t, v, inc, r)
  <2>1. inc = {}
    BY <1>7 DEF Link
  <2>2. QED BY <2>1 DEF Link
<1>8. QED BY <1>5, <1>6, <1>7 DEF OwnParty

LEMMA ConnectReturnsOk ==
  ASSUME ExchangeInv, WillInv', UNCHANGED <<broker, log>>, NEW c \in Clients, ConnectReturns(c)
  PROVE  ExchangeInv'
<1> DEFINE s == cli[c]
           k == s.conn
           v == wire[k]
<1>1. /\ IsClient(s) /\ AppOK(app) /\ IsWire(wire) /\ cli = [d \in Clients |-> cli[d]] /\ Tables(s, app)
      /\ k # 0 => k \in DOMAIN wire /\ IsConn(v) /\ OwnParty(s, v, app.resumed)
  BY OwnParts
<1>2. s.phase = "acked" /\ k # 0
  BY <1>1 DEF ConnectReturns, IsClient
<1>3. CASE /\ cli' = [cli EXCEPT ![c].phase = "idle"]
           /\ wire' = ResendOutgoing(wire, s.conn, s.out)
           /\ app' = [app EXCEPT !.resumed = @ \cup {s.out[i].m : i \in Used(s.out)}]
  <2> DEFINE t == [s EXCEPT !.phase = "idle"]
             u == WithAllUp(v, Resent(s.out))
  <2>1. cli' = [cli EXCEPT ![c] = t]
    BY <1>1, <1>3
  <2>2. t.conn = k /\ t.phase = "idle" /\ t.connected = s.connected /\ t.out = s.out /\ t.next = s.next
      /\ DOMAIN t = DOMAIN s
    BY <1>1 DEF IsClient
  <2> HIDE DEF t
  <2>3. IsClient(t)
    BY <1>1, <1>2, <2>2 DEF IsClient
  <2>4. wire' = SendAllUp(wire, k, Resent(s.out))
    BY <1>3 DEF ResendOutgoing, Resent
  <2>5. Only(wire, wire', k, u)
    BY <1>1, <1>2, <2>4, SendAllUpIs
  <2>6. /\ Later(app, app') /\ app'.done = app.done /\ app.resumed \subseteq app'.resumed
        /\ \A i \in Used(s.out) : s.out[i].m \in app'.resumed
    BY <1>1, <1>3 DEF Later, AppOK
  <2>7. IsConn(u) /\ OwnParty(t, u, app'.resumed)
    BY <1>1, <1>2, <2>2, <2>6, ResumeOwn
  <2>8. Tables(s, app')
    BY <1>1, <2>6, LaterTables
  <2>9. Tables(t, app')
    BY <2>2, <2>8 DEF Tables
  <2> HIDE DEF u
  <2>10. QED BY <1>2, <2>1, <2>2, <2>3, <2>5, <2>6, <2>7, <2>9, OwnStep
<1>4. CASE /\ cli' = [cli EXCEPT ![c].phase = "idle", ![c].out = NewClient.out, ![c].inc = {}]
           /\ wire' = wire /\ app' = app
  <2> DEFINE n == NewClient.out
             t == [s EXCEPT !.phase = "idle", !.out = n, !.inc = {}]
  <2>0. Used(n) = {} /\ IsTable(n)
    BY NoneUsed
  <2>1. cli' = [cli EXCEPT ![c] = t]
    BY <1>1, <1>4
  <2> HIDE DEF n
  <2>2. t.conn = k /\ t.phase = "idle" /\ t.connected = s.connected /\ t.out = n /\ t.next = s.next
      /\ DOMAIN t = DOMAIN s
    BY <1>1 DEF IsClient
  <2> HIDE DEF t
  <2>3. IsClient(t) /\ Used(t.out) = {}
    BY <1>1, <1>2, <2>0, <2>2 DEF IsClient, IsTable
  <2>4. Only(wire, wire', k, v)
    BY <1>4, OnlyRefl
  <2>5. Later(app, app') /\ app'.done = app.done /\ app'.resumed = app.resumed
    BY <1>1, <1>4, LaterRefl
  <2>6. OwnParty(t, v, app'.resumed)
    BY <1>1, <1>2, <2>2, <2>3, <2>5, ForgetOwn
  <2>7. Tables(t, app')
    BY <2>3 DEF Tables
  <2>8. QED BY <1>1, <1>2, <2>1, <2>2, <2>3, <2>4, <2>5, <2>6, <2>7, OwnStep
<1>5. QED BY <1>3, <1>4 DEF ConnectReturns
-----------------------------------------------------------------------------

(* What handling a packet comes to, for the exchanges of client s: nothing, *)
(* the end of connect()'s wait, the end of an exchange, or its second half. *)
Aside(s, r) ==
    /\ SameClient(s, r.s) /\ r.acked = {}
    /\ r.send = <<>> \/ r.send[1].type \in {"puback", "pubrec", "pubcomp"}

Admits(s, r) ==
    /\ s.phase = "wait" /\ IsClient(r.s) /\ r.s.conn = s.conn /\ r.s.phase = "acked" /\ r.s.out = s.out
    /\ r.acked = {} /\ r.send = <<>>

Ends1(s, r, i, p) ==
    /\ i \in Used(s.out) /\ s.out[i].id = p.id
    /\ \/ p.type = "puback" /\ s.out[i].state = "await_puback"
       \/ p.type = "pubcomp" /\ s.out[i].state = "await_pubcomp"
    /\ r.s.conn = s.conn /\ r.s.phase = s.phase /\ IsClient(r.s) /\ r.s.out = [s.out EXCEPT ![i] = Free]
    /\ r.acked = {s.out[i].m} /\ r.send = <<>>

Halves(s, r, i, p) ==
    /\ i \in Used(s.out) /\ s.out[i].id = p.id /\ p.type = "pubrec" /\ s.out[i].state = "await_pubrec"
    /\ r.s.conn = s.conn /\ r.s.phase = s.phase /\ IsClient(r.s)
    /\ r.s.out = [s.out EXCEPT ![i] = [@ EXCEPT !.state = "await_pubcomp"]]
    /\ r.acked = {} /\ r.send = <<IdPacket("pubrel", p.id)>>

LEMMA AckIs ==
  ASSUME NEW s, IsClient(s), NEW p, NEW st, NEW r, r = HandleAck(s, p, st), r.ok,
         \/ p.type = "puback" /\ st = "await_puback"
         \/ p.type = "pubrec" /\ st = "await_pubrec"
         \/ p.type = "pubcomp" /\ st = "await_pubcomp"
  PROVE  \E i : Ends1(s, r, i, p) \/ Halves(s, r, i, p)
<1> DEFINE found == {j \in FindOutgoing(s, p.id) : s.out[j].state = st}
           i == CHOOSE j \in found : TRUE
<1>1. found # {}
  BY DEF HandleAck, Rejected
<1>2. i \in found
  BY <1>1
<1>3. i \in Used(s.out) /\ i \in Entries /\ s.out[i].id = p.id /\ s.out[i].state = st
  BY <1>2 DEF FindOutgoing, Used
<1>4. CASE p.type = "pubrec"
  <2> DEFINE n == [s.out EXCEPT ![i] = [@ EXCEPT !.state = "await_pubcomp"]]
             t == [s EXCEPT !.out = n]
  <2>1. r = Handled([s EXCEPT !.out[i].state = "await_pubcomp"], <<IdPacket("pubrel", p.id)>>)
    BY <1>1, <1>4 DEF HandleAck
  <2>2. [s EXCEPT !.out[i].state = "await_pubcomp"] = t
    OBVIOUS
  <2> HIDE DEF i
  <2>3. /\ \A j \in Entries : n[j] = IF j = i THEN [s.out[i] EXCEPT !.state = "await_pubcomp"] ELSE s.out[j]
        /\ IsTable(n)
    BY <1>3 DEF IsClient, IsTable
  <2>4. \A j \in Used(n) : {"state", "id", "qos", "retain", "m"} \subseteq DOMAIN n[j]
    <3>1. \A j \in Used(s.out) : {"state", "id", "qos", "retain", "m"} \subseteq DOMAIN s.out[j]
      BY DEF IsClient
    <3>2. DOMAIN [s.out[i] EXCEPT !.state = "await_pubcomp"] = DOMAIN s.out[i]
      OBVIOUS
    <3>3. \A j \in Used(n) : j \in Entries /\ (j # i => j \in Used(s.out))
      BY <2>3 DEF Used
    <3> HIDE DEF n
    <3>4. QED BY <1>3, <2>3, <3>1, <3>2, <3>3
  <2>5. t.conn = s.conn /\ t.phase = s.phase /\ t.connected = s.connected /\ t.out = n /\ t.next = s.next
      /\ DOMAIN t = DOMAIN s
    BY DEF IsClient
  <2>6. r.s = t /\ r.acked = {} /\ r.send = <<IdPacket("pubrel", p.id)>>
    BY <2>1, <2>2 DEF Handled
  <2>7. n = [s.out EXCEPT ![i] = [@ EXCEPT !.state = "await_pubcomp"]]
    OBVIOUS
  <2> HIDE DEF t, n
  <2>8. IsClient(t)
    BY <2>3, <2>4, <2>5 DEF IsClient, IsTable
  <2>9. Halves(s, r, i, p)
    BY <1>3, <1>4, <2>5, <2>6, <2>7, <2>8 DEF Halves
  <2>10. QED BY <2>9
<1>5. CASE p.type # "pubrec"
  <2> DEFINE n == [s.out EXCEPT ![i] = Free]
             t == [s EXCEPT !.out = n]
  <2>1. r = [Handled([s EXCEPT !.out[i] = Free], <<>>) EXCEPT !.acked = {s.out[i].m}]
    BY <1>1, <1>5 DEF HandleAck
  <2>2. [s EXCEPT !.out[i] = Free] = t
    OBVIOUS
  <2> HIDE DEF i
  <2>3. /\ \A j \in Entries : n[j] = IF j = i THEN Free ELSE s.out[j]
        /\ IsTable(n)
    BY <1>3 DEF IsClient, IsTable
  <2>4. \A j \in Used(n) : {"state", "id", "qos", "retain", "m"} \subseteq DOMAIN n[j]
    <3>1. \A j \in Used(s.out) : {"state", "id", "qos", "retain", "m"} \subseteq DOMAIN s.out[j]
      BY DEF IsClient
    <3>2. \A j \in Used(n) : j \in Entries /\ j # i /\ j \in Used(s.out)
      BY <2>3 DEF Used, Free
    <3> HIDE DEF n
    <3>3. QED BY <1>3, <2>3, <3>1, <3>2
  <2>5. t.conn = s.conn /\ t.phase = s.phase /\ t.connected = s.connected /\ t.out = n /\ t.next = s.next
      /\ DOMAIN t = DOMAIN s
    BY DEF IsClient
  <2>6. r.s = t /\ r.acked = {s.out[i].m} /\ r.send = <<>>
    BY <2>1, <2>2 DEF Handled
  <2>7. n = [s.out EXCEPT ![i] = Free]
    OBVIOUS
  <2> HIDE DEF t, n
  <2>8. IsClient(t)
    BY <2>3, <2>4, <2>5 DEF IsClient, IsTable
  <2>9. Ends1(s, r, i, p)
    BY <1>3, <1>5, <2>5, <2>6, <2>7, <2>8 DEF Ends1
  <2>10. QED BY <2>9
<1>6. QED BY <1>4, <1>5
LEMMA AsideSame ==
  ASSUME NEW s, IsClient(s), NEW t, t.conn = s.conn, t.phase = s.phase, t.connected = s.connected,
         t.out = s.out, t.next = s.next, DOMAIN t = DOMAIN s
  PROVE  SameClient(s, t)
BY DEF SameClient, IsClient

LEMMA RejectedIs == ASSUME NEW s PROVE Rejected(s).ok = FALSE /\ Rejected(s).acked = {}
BY DEF Rejected

LEMMA AsideIs ==
  ASSUME NEW s, IsClient(s), NEW t, t = s \/ SameClient(s, t), NEW r, r.s = t, r.acked = {},
         r.send = <<>> \/ \E id : \E ty \in {"puback", "pubrec", "pubcomp"} : r.send = <<IdPacket(ty, id)>>
  PROVE  Aside(s, r)
BY IdPacketIs DEF Aside, SameClient

LEMMA ClientPublishAside ==
  ASSUME NEW s, IsClient(s), NEW p, NEW r, r = HandlePublish(s, p), r.ok
  PROVE  Aside(s, r)
<1>1. CASE p.qos = 2 /\ Known(s, p.id)
  <2>1. r = Handled(s, <<IdPacket("pubrec", p.id)>>)
    BY <1>1 DEF HandlePublish
  <2>2. r.s = s /\ r.acked = {} /\ r.send = <<IdPacket("pubrec", p.id)>>
    BY <2>1 DEF Handled
  <2>3. QED BY <2>2, AsideIs
<1>2. CASE p.qos \in {0, 1}
  <2> DEFINE q == IF p.qos = 1 THEN <<IdPacket("puback", p.id)>> ELSE <<>>
             d == {[m |-> p.m, retain |-> p.retain]}
  <2>1. r = [Handled(s, q) EXCEPT !.deliver = d]
    BY <1>2 DEF HandlePublish
  <2>2. r.s = s /\ r.acked = {} /\ r.send = q
    BY <2>1 DEF Handled
  <2>3. QED BY <2>2, AsideIs
<1>3. CASE p.qos = 2 /\ ~Known(s, p.id) /\ Cardinality(s.inc) < MaxOutstanding
  <2> DEFINE z == s.inc \cup {[id |-> p.id, m |-> p.m, retain |-> p.retain]}
             t == [s EXCEPT !.inc = z]
  <2>1. r = Handled(t, <<IdPacket("pubrec", p.id)>>)
    BY <1>3 DEF HandlePublish
  <2> HIDE DEF z
  <2>2. SameClient(s, t)
    <3>1. /\ t.conn = s.conn /\ t.phase = s.phase /\ t.connected = s.connected
          /\ t.out = s.out /\ t.next = s.next /\ DOMAIN t = DOMAIN s
      BY DEF IsClient
    <3> HIDE DEF t
    <3>2. QED BY <3>1, AsideSame
  <2> HIDE DEF t
  <2>3. r.s = t /\ r.acked = {} /\ r.send = <<IdPacket("pubrec", p.id)>>
    BY <2>1 DEF Handled
  <2>4. QED BY <2>2, <2>3, AsideIs
<1>4. QED
  <2>1. CASE ~(p.qos = 2 /\ Known(s, p.id)) /\ ~(p.qos \in {0, 1})
             /\ ~(p.qos = 2 /\ ~Known(s, p.id) /\ Cardinality(s.inc) < MaxOutstanding)
    <3>1. r = Rejected(s)
      BY <2>1 DEF HandlePublish
    <3>2. QED BY <3>1, RejectedIs
  <2>2. QED BY <1>1, <1>2, <1>3, <2>1

LEMMA OthersAside ==
  ASSUME NEW s, IsClient(s), NEW p, NEW r, r.ok,
         \/ r = HandlePubrel(s, p)
         \/ \E ty : r = HandleRequestAck(s, p, ty)
         \/ r = HandlePingresp(s)
  PROVE  Aside(s, r)
<1>1. CASE r = HandlePubrel(s, p)
  <2> DEFINE mine == {e \in s.inc : e.id = p.id}
             z == s.inc \ mine
             t == [s EXCEPT !.inc = z]
             d == {[m |-> e.m, retain |-> e.retain] : e \in mine}
  <2>1. r = [Handled(t, <<IdPacket("pubcomp", p.id)>>) EXCEPT !.deliver = d]
    BY <1>1 DEF HandlePubrel
  <2> HIDE DEF z, d
  <2>2. SameClient(s, t)
    <3>1. /\ t.conn = s.conn /\ t.phase = s.phase /\ t.connected = s.connected
          /\ t.out = s.out /\ t.next = s.next /\ DOMAIN t = DOMAIN s
      BY DEF IsClient
    <3> HIDE DEF t
    <3>2. QED BY <3>1, AsideSame
  <2> HIDE DEF t
  <2>3. r.s = t /\ r.acked = {} /\ r.send = <<IdPacket("pubcomp", p.id)>>
    BY <2>1 DEF Handled
  <2>4. QED BY <2>2, <2>3, AsideIs
<1>2. ASSUME NEW ty, r = HandleRequestAck(s, p, ty) PROVE Aside(s, r)
  <2> DEFINE z == s.req \ {[id |-> p.id, type |-> ty]}
             t == [s EXCEPT !.req = z]
  <2>1. r = Handled(t, <<>>) \/ r = Rejected(s)
    BY <1>2 DEF HandleRequestAck
  <2>2. r = Handled(t, <<>>)
    BY <2>1, RejectedIs
  <2> HIDE DEF z
  <2>3. SameClient(s, t)
    <3>1. /\ t.conn = s.conn /\ t.phase = s.phase /\ t.connected = s.connected
          /\ t.out = s.out /\ t.next = s.next /\ DOMAIN t = DOMAIN s
      BY DEF IsClient
    <3> HIDE DEF t
    <3>2. QED BY <3>1, AsideSame
  <2> HIDE DEF t
  <2>4. r.s = t /\ r.acked = {} /\ r.send = <<>>
    BY <2>2 DEF Handled
  <2>5. QED BY <2>3, <2>4, AsideIs
<1>3. CASE r = HandlePingresp(s)
  <2> DEFINE t == [s EXCEPT !.ping = FALSE]
  <2>1. r = Handled(t, <<>>) \/ r = Rejected(s)
    BY <1>3 DEF HandlePingresp
  <2>2. r = Handled(t, <<>>)
    BY <2>1, RejectedIs
  <2>3. SameClient(s, t)
    <3>1. /\ t.conn = s.conn /\ t.phase = s.phase /\ t.connected = s.connected
          /\ t.out = s.out /\ t.next = s.next /\ DOMAIN t = DOMAIN s
      BY DEF IsClient
    <3> HIDE DEF t
    <3>2. QED BY <3>1, AsideSame
  <2> HIDE DEF t
  <2>4. r.s = t /\ r.acked = {} /\ r.send = <<>>
    BY <2>2 DEF Handled
  <2>5. QED BY <2>3, <2>4, AsideIs
<1>4. QED BY <1>1, <1>2, <1>3
LEMMA ConnackIs ==
  ASSUME NEW s, IsClient(s), s.conn # 0, NEW p, NEW r, r = HandleConnack(s, p), r.ok
  PROVE  Admits(s, r)
<1> DEFINE t == [s EXCEPT !.phase = "acked", !.connected = TRUE, !.present = p.present]
<1>1. s.phase = "wait" /\ r = Handled(t, <<>>)
  BY RejectedIs DEF HandleConnack
<1>2. /\ t.conn = s.conn /\ t.phase = "acked" /\ t.connected = TRUE
      /\ t.out = s.out /\ t.next = s.next /\ DOMAIN t = DOMAIN s
  BY DEF IsClient
<1> HIDE DEF t
<1>3. IsClient(t)
  BY <1>2 DEF IsClient
<1>4. r.s = t /\ r.acked = {} /\ r.send = <<>>
  BY <1>1 DEF Handled
<1>5. QED BY <1>1, <1>2, <1>3, <1>4 DEF Admits

LEMMA HandleIs ==
  ASSUME NEW s, IsClient(s), s.conn # 0, NEW p, NEW r, r = HandlePacket(s, p), r.ok
  PROVE  \/ Aside(s, r) \/ Admits(s, r)
         \/ \E i : Ends1(s, r, i, p) \/ Halves(s, r, i, p)
<1>1. CASE p.type = "connack"
  <2>1. r = HandleConnack(s, p)
    BY <1>1 DEF HandlePacket
  <2>2. QED BY <2>1, ConnackIs
<1>2. CASE p.type = "publish"
  <2>1. r = HandlePublish(s, p)
    BY <1>2 DEF HandlePacket
  <2>2. QED BY <2>1, ClientPublishAside
<1>3. CASE p.type = "puback"
  <2>1. r = HandleAck(s, p, "await_puback")
    BY <1>3 DEF HandlePacket
  <2>2. QED BY <1>3, <2>1, AckIs
<1>4. CASE p.type = "pubrec"
  <2>1. r = HandleAck(s, p, "await_pubrec")
    BY <1>4 DEF HandlePacket
  <2>2. QED BY <1>4, <2>1, AckIs
<1>5. CASE p.type = "pubcomp"
  <2>1. r = HandleAck(s, p, "await_pubcomp")
    BY <1>5 DEF HandlePacket
  <2>2. QED BY <1>5, <2>1, AckIs
<1>6. CASE p.type \in {"pubrel", "suback", "unsuback", "pingresp"}
  <2>1. \/ r = HandlePubrel(s, p) \/ r = HandleRequestAck(s, p, "subscribe")
        \/ r = HandleRequestAck(s, p, "unsubscribe") \/ r = HandlePingresp(s)
    BY Zenon, <1>6 DEF HandlePacket
  <2>2. QED BY <2>1, OthersAside
<1>7. CASE p.type \notin {"connack", "publish", "puback", "pubrec", "pubcomp", "pubrel", "suback", "unsuback",
    "pingresp"}
  <2>1. r = Rejected(s)
    BY Zenon, <1>7 DEF HandlePacket
  <2>2. QED BY <2>1, RejectedIs
<1>8. QED BY <1>1, <1>2, <1>3, <1>4, <1>5, <1>6, <1>7

LEMMA NotOk ==
  ASSUME NEW s, NEW p, NEW r, r = HandlePacket(s, p), ~r.ok
  PROVE  r = Rejected(s)
<1>2. CASE p.type = "connack"
  <2>1. r = HandleConnack(s, p)
    BY <1>2 DEF HandlePacket
  <2>2. QED BY <2>1 DEF HandleConnack, Handled
<1>3. CASE p.type = "publish"
  <2>1. r = HandlePublish(s, p)
    BY <1>3 DEF HandlePacket
  <2>2. QED BY <2>1 DEF HandlePublish, Handled
<1>4. CASE p.type \in {"puback", "pubrec", "pubcomp"}
  <2>1. \E st : r = HandleAck(s, p, st)
    BY <1>4 DEF HandlePacket
  <2>2. QED BY <2>1 DEF HandleAck, Handled
<1>5. CASE p.type \in {"pubrel", "suback", "unsuback", "pingresp"}
  <2>1. \/ r = HandlePubrel(s, p) \/ r = HandleRequestAck(s, p, "subscribe")
        \/ r = HandleRequestAck(s, p, "unsubscribe") \/ r = HandlePingresp(s)
    BY Zenon, <1>5 DEF HandlePacket
  <2>2. r # HandlePubrel(s, p)
    BY DEF HandlePubrel, Handled
  <2>3. QED BY <2>1, <2>2 DEF HandleRequestAck, HandlePingresp, Handled
<1>6. CASE p.type \notin {"connack", "publish", "puback", "pubrec", "pubcomp", "pubrel", "suback", "unsuback",
    "pingresp"}
  BY <1>6 DEF HandlePacket
<1>7. QED BY <1>2, <1>3, <1>4, <1>5, <1>6
-----------------------------------------------------------------------------

(* The client takes a packet off its connection v. *)
LEMMA TakenOff ==
  ASSUME NEW s, NEW v, IsConn(v), v.down # <<>>, NEW r, OwnParty(s, v, r)
  PROVE  LET p == Head(v.down)
             w == DownRest(v) IN
         /\ IsConn(w) /\ OwnParty(s, w, r) /\ p \in ToSet(v.down) /\ w.up = v.up /\ SameSides(v, w)
         /\ ToSet(w.down) \subseteq ToSet(v.down) /\ v.broker # "backlog" /\ DownOK(s, p)
         /\ \A id \in Ids : Tok(p, DownA, id) => Idle(w, UpA, DownA, id) /\ s.phase = "idle"
<1> DEFINE p == Head(v.down)
           w == DownRest(v)
<1>1. /\ Shrunk(v, w) /\ SameSides(v, w) /\ w.up = v.up /\ p \in ToSet(v.down)
      /\ \A U, D, id : Single(v, U, D, id) /\ Tok(p, D, id) => Idle(w, U, D, id)
  BY DownRestIs
<1> HIDE DEF p, w
<1>2. IsConn(w) /\ ToSet(w.down) \subseteq ToSet(v.down)
  BY <1>1 DEF Shrunk, Thinner
<1>3. Talk(s, v) /\ DownOK(s, p) /\ v.broker # "backlog"
  BY <1>1 DEF OwnParty, Talk
<1>4. OwnParty(s, w, r)
  BY <1>1, <1>3, ShrunkTalk, ShrunkLink DEF OwnParty, SameSides
<1>5. ASSUME NEW id \in Ids, Tok(p, DownA, id) PROVE Idle(w, UpA, DownA, id) /\ s.phase = "idle"
  <2>1. Single(v, UpA, DownA, id) /\ ~Idle(v, UpA, DownA, id)
    BY <1>1, <1>3, <1>5 DEF Talk, Idle, NoTok
  <2>2. QED BY <1>1, <1>3, <1>5, <2>1 DEF Talk
<1>6. QED BY <1>1, <1>2, <1>3, <1>4, <1>5 DEF p, w

LEMMA AdmitsOwn ==
  ASSUME NEW s, NEW t, NEW u, NEW r, OwnParty(s, u, r), u.broker # "backlog", s.phase = "wait",
         t.conn = s.conn, t.out = s.out, t.phase = "acked"
  PROVE  OwnParty(t, u, r)
<1>1. \A p : (UpOK(s, p) => UpOK(t, p)) /\ (DownOK(s, p) => DownOK(t, p))
  BY DEF UpOK, DownOK, Awaits
<1>2. Talk(t, u)
  BY <1>1 DEF OwnParty, Talk
<1>3. Forwarded(t, u, log.fwd, r)
  BY DEF OwnParty, Forwarded
<1>4. \A inc : Link(s, u, inc, r) => Link(t, u, inc, r)
  BY DEF Link
<1>5. QED BY <1>2, <1>3, <1>4 DEF OwnParty

(* An exchange is over: nothing is on its way and the broker holds nothing. *)
LEMMA EndsOwn ==
  ASSUME NEW s, NEW t, NEW u, NEW r, OwnParty(s, u, r), NEW a, Tables(s, a), NEW i \in Used(s.out),
         Idle(u, UpA, DownA, s.out[i].id), t.conn = s.conn, t.phase = s.phase,
         Used(t.out) = Used(s.out) \ {i}, \A j \in Used(s.out) \ {i} : t.out[j] = s.out[j],
         \A n \in Slots : Alive(broker.slots[n], s.conn) => \A e \in broker.slots[n].inc : e.id # s.out[i].id
  PROVE  OwnParty(t, u, r) /\ Tables(t, a)
<1> DEFINE id == s.out[i].id
<1>1. id \in Ids /\ id # 0 /\ \A j \in Used(s.out) : s.out[j].id = id => j = i
  BY MqttWireAssumption DEF Tables, EntryOK, Ids
<1> HIDE DEF id
<1>2. \A j \in Used(s.out) : s.out[j].id # id => j \in Used(t.out) /\ t.out[j] = s.out[j]
  BY DEF id
<1>3. ASSUME NEW p \in ToSet(u.up) PROVE UpOK(t, p)
  <2>1. UpOK(s, p) /\ ~Tok(p, UpA, id)
    BY DEF OwnParty, Talk, Idle, NoTok, id
  <2>2. \A st : p.id # id /\ Awaits(s, p.id, st) => Awaits(t, p.id, st)
    BY <1>2 DEF Awaits
  <2>3. p.type \in UpA => p.id # id
    BY <2>1 DEF Tok
  <2>4. QED BY <1>2, <2>1, <2>2, <2>3 DEF UpOK, UpA
<1>4. ASSUME NEW p \in ToSet(u.down) PROVE DownOK(t, p)
  <2>1. DownOK(s, p) /\ ~Tok(p, DownA, id)
    BY DEF OwnParty, Talk, Idle, NoTok, id
  <2>2. \A st : p.id # id /\ Awaits(s, p.id, st) => Awaits(t, p.id, st)
    BY <1>2 DEF Awaits
  <2>3. p.type \in DownA => p.id # id
    BY <2>1 DEF Tok
  <2>4. QED BY <2>1, <2>2, <2>3 DEF DownOK, DownA
<1>5. Talk(t, u)
  BY <1>3, <1>4 DEF OwnParty, Talk
<1>6. Forwarded(t, u, log.fwd, r)
  BY DEF OwnParty, Forwarded
<1>7. ASSUME NEW inc, Link(s, u, inc, r), \A e \in inc : e.id # id PROVE Link(t, u, inc, r)
  BY <1>2, <1>7 DEF Link
<1>8. Tables(t, a)
  BY DEF Tables
<1>9. QED BY <1>5, <1>6, <1>7, <1>8 DEF OwnParty, id

(* The second half of a QoS 2 exchange begins. *)
LEMMA HalvesOwn ==
  ASSUME NEW s, NEW t, NEW w, IsConn(w), NEW r, OwnParty(s, w, r), NEW a, Tables(s, a), NEW i \in Used(s.out),
         Idle(w, UpA, DownA, s.out[i].id), t.conn = s.conn, t.phase = s.phase, s.phase = "idle",
         Used(t.out) = Used(s.out), \A j \in Used(s.out) \ {i} : t.out[j] = s.out[j],
         s.out[i].state = "await_pubrec", t.out[i].state = "await_pubcomp",
         t.out[i].id = s.out[i].id, t.out[i].m = s.out[i].m, t.out[i].qos = s.out[i].qos,
         \A n \in Slots : Alive(broker.slots[n], s.conn) =>
            s.out[i].m \in r \/ \E e \in broker.slots[n].inc : e.id = s.out[i].id /\ e.m = s.out[i].m
  PROVE  LET u == WithUp(w, IdPacket("pubrel", s.out[i].id)) IN
         IsConn(u) /\ OwnParty(t, u, r) /\ Tables(t, a)
<1> DEFINE id == s.out[i].id
           p == IdPacket("pubrel", id)
           u == WithUp(w, p)
<1>1. id \in Ids /\ id # 0 /\ \A j \in Used(s.out) : s.out[j].id = id => j = i
  BY MqttWireAssumption DEF Tables, EntryOK, Ids
<1>2. \A j \in Used(s.out) : t.out[j].id = s.out[j].id /\ t.out[j].m = s.out[j].m /\ t.out[j].qos = s.out[j].qos
  OBVIOUS
<1>3. p.type = "pubrel" /\ p.id = id
  BY IdPacketIs
<1> HIDE DEF id
<1>4. \A j \in Used(s.out) : s.out[j].id # id => j \in Used(t.out) /\ t.out[j] = s.out[j]
  BY DEF id
<1>5. ASSUME NEW q \in ToSet(w.up) PROVE UpOK(t, q)
  <2>1. UpOK(s, q) /\ ~Tok(q, UpA, id)
    BY DEF OwnParty, Talk, Idle, NoTok, id
  <2>2. \A st : q.id # id /\ Awaits(s, q.id, st) => Awaits(t, q.id, st)
    BY <1>4 DEF Awaits
  <2>3. q.type \in UpA => q.id # id
    BY <2>1 DEF Tok
  <2>4. QED BY <1>4, <2>1, <2>2, <2>3 DEF UpOK, UpA
<1>6. ASSUME NEW q \in ToSet(w.down) PROVE DownOK(t, q)
  <2>1. DownOK(s, q) /\ ~Tok(q, DownA, id)
    BY DEF OwnParty, Talk, Idle, NoTok, id
  <2>2. \A st : q.id # id /\ Awaits(s, q.id, st) => Awaits(t, q.id, st)
    BY <1>4 DEF Awaits
  <2>3. q.type \in DownA => q.id # id
    BY <2>1 DEF Tok
  <2>4. QED BY <2>1, <2>2, <2>3 DEF DownOK, DownA
<1>7. Talk(t, w)
  BY <1>5, <1>6 DEF OwnParty, Talk
<1>8. UpOK(t, p)
  <2>1. Awaits(t, id, "await_pubcomp")
    BY DEF Awaits, id
  <2>2. QED BY <1>3, <2>1 DEF UpOK, p
<1>9. IsConn(u) /\ Talk(t, u) /\ u.down = w.down /\ ToSet(u.up) \subseteq ToSet(w.up) \cup {p}
  <2>1. Idle(w, UpA, DownA, p.id)
    BY <1>3 DEF id
  <2> HIDE DEF p
  <2>2. QED BY <1>7, <1>8, <2>1, TokenUp
<1>10. \A n : IdPacket("pubrel", n) \in ToSet(u.up) => IdPacket("pubrel", n) \in ToSet(w.up) \/ n = id
  BY <1>3, <1>9, IdPacketIs
<1> HIDE DEF p, u
<1>11. Forwarded(t, u, log.fwd, r)
  BY <1>2, <1>9 DEF OwnParty, Forwarded
<1>12. ASSUME NEW inc, Link(s, w, inc, r), s.out[i].m \in r \/ \E e \in inc : e.id = id /\ e.m = s.out[i].m
       PROVE  Link(t, u, inc, r)
  <2>1. \A e \in inc : \E j \in Used(t.out) : t.out[j].id = e.id /\ t.out[j].m = e.m /\ t.out[j].qos = 2
    BY <1>2, <1>12 DEF Link
  <2>2. \A j \in Used(t.out) :
           /\ t.out[j].m \notin r
           /\ IdPacket("pubrec", t.out[j].id) \in ToSet(u.down) \/ IdPacket("pubrel", t.out[j].id) \in ToSet(u.up)
           => \E e \in inc : e.id = t.out[j].id /\ e.m = t.out[j].m
    <3> SUFFICES ASSUME NEW j \in Used(s.out), s.out[j].m \notin r,
                        IdPacket("pubrec", s.out[j].id) \in ToSet(w.down)
                            \/ IdPacket("pubrel", s.out[j].id) \in ToSet(u.up)
                 PROVE  \E e \in inc : e.id = s.out[j].id /\ e.m = s.out[j].m
      BY <1>2, <1>9
    <3>1. CASE s.out[j].id = id
      BY <1>1, <1>12, <3>1
    <3>2. CASE s.out[j].id # id
      BY <1>10, <1>12, <3>2 DEF Link
    <3>3. QED BY <3>1, <3>2
  <2>3. QED BY <1>9, <1>12, <2>1, <2>2 DEF Link
<1>13. Tables(t, a)
  <2>1. \A j \in Used(t.out) : EntryOK(t.out[j], a)
    BY DEF Tables, EntryOK
  <2>2. QED BY <1>2, <2>1 DEF Tables
<1>14. QED BY <1>9, <1>11, <1>12, <1>13 DEF OwnParty, u, p, id
LEMMA ObservedIs ==
  ASSUME AppOK(app), NEW c, NEW r, NEW p, app' = Observed(c, r, p)
  PROVE  Later(app, app') /\ app'.done = app.done \cup r.acked /\ app'.resumed = app.resumed /\ app'.plan = app.plan
<1>1. /\ app'.plan = app.plan /\ app'.sent = app.sent /\ app'.resumed = app.resumed
      /\ app'.done = app.done \cup r.acked /\ DOMAIN app' = DOMAIN app
  BY DEF Observed, AppOK
<1>2. QED BY <1>1 DEF Later, AppOK

(* After the packet was taken off connection k, what is sent. *)
LEMMA ReplyIs ==
  ASSUME IsWire(wire), NEW k \in DOMAIN wire, NEW p
  PROVE  /\ Only(wire, ReceiveDown(wire, k), k, DownRest(wire[k]))
         /\ Only(wire, SendUp(ReceiveDown(wire, k), k, p), k, WithUp(DownRest(wire[k]), p))
<1> DEFINE w == ReceiveDown(wire, k)
           u == DownRest(wire[k])
<1>1. Only(wire, w, k, u) /\ IsWire(w)
  BY SendUpIs, DownSideKeepsEnds
<1> HIDE DEF w, u
<1>2. k \in DOMAIN w /\ w[k] = u
  BY <1>1 DEF Only
<1>3. Only(w, SendUp(w, k, p), k, WithUp(w[k], p))
  BY <1>1, <1>2, SendUpIs
<1>4. Only(wire, SendUp(w, k, p), k, WithUp(u, p))
  BY <1>1, <1>2, <1>3, OnlyTwice
<1>5. QED BY <1>1, <1>4 DEF w, u

LEMMA ClientReceiveOk ==
  ASSUME ExchangeInv, WillInv', UNCHANGED <<broker, log>>, NEW c \in Clients, ClientReceive(c)
  PROVE  ExchangeInv'
<1> DEFINE s == cli[c]
           k == s.conn
           v == wire[k]
           w == DownRest(v)
           p == Head(v.down)
           r == HandlePacket(s, p)
           t == r.s
<1>1. /\ IsClient(s) /\ AppOK(app) /\ IsWire(wire) /\ cli = [d \in Clients |-> cli[d]] /\ Tables(s, app)
      /\ k # 0 => k \in DOMAIN wire /\ IsConn(v) /\ OwnParty(s, v, app.resumed)
  BY OwnParts
<1>2. /\ k # 0 /\ v.down # <<>> /\ app' = Observed(c, r, p)
      /\ \/ /\ r.ok
            /\ cli' = [cli EXCEPT ![c] = t]
            /\ wire' = IF r.send = <<>> THEN ReceiveDown(wire, k)
                       ELSE SendUp(ReceiveDown(wire, k), k, r.send[1])
         \/ ~r.ok /\ ForceClose(c)
  BY DEF ClientReceive
<1> HIDE DEF r
<1>3. Later(app, app') /\ app'.done = app.done \cup r.acked /\ app'.resumed = app.resumed /\ app'.plan = app.plan
  BY <1>1, <1>2, ObservedIs
<1>4. CASE ~r.ok
  <2>1. app'.done = app.done
    BY <1>3, <1>4, NotOk, RejectedIs DEF r
  <2>2. QED BY Zenon, <1>2, <1>3, <1>4, <2>1, ForceCloseOk
<1>5. CASE r.ok
  <2>1. /\ IsConn(w) /\ OwnParty(s, w, app.resumed) /\ p \in ToSet(v.down) /\ w.up = v.up /\ SameSides(v, w)
        /\ ToSet(w.down) \subseteq ToSet(v.down) /\ v.broker # "backlog" /\ DownOK(s, p)
        /\ \A id \in Ids : Tok(p, DownA, id) => Idle(w, UpA, DownA, id) /\ s.phase = "idle"
    BY <1>1, <1>2, TakenOff
  <2>2. /\ cli' = [cli EXCEPT ![c] = t]
        /\ r.send = <<>> => Only(wire, wire', k, w)
        /\ r.send # <<>> => Only(wire, wire', k, WithUp(w, r.send[1]))
    BY <1>1, <1>2, <1>5, ReplyIs
  <2>3. \/ Aside(s, r) \/ Admits(s, r)
        \/ \E i : Ends1(s, r, i, p) \/ Halves(s, r, i, p)
    BY Zenon, <1>1, <1>2, <1>5, HandleIs DEF r
  <2>4. Tables(s, app') /\ OwnParty(s, w, app'.resumed)
    BY <1>1, <1>3, <2>1, LaterTables
  <2> HIDE DEF w, p, t
  <2>5. CASE Aside(s, r)
    <3>1. SameClient(s, t) /\ app'.done = app.done
      BY <1>3, <2>5 DEF Aside, t
    <3>2. CASE r.send = <<>>
      BY <1>2, <1>3, <2>1, <2>2, <3>1, <3>2, SideStep
    <3>3. CASE r.send # <<>>
      <4> DEFINE q == r.send[1]
                 u == WithUp(w, q)
      <4>1. q.type \in {"puback", "pubrec", "pubcomp"}
        BY <2>5, <3>3 DEF Aside
      <4>2. UpOK(s, q) /\ q.type # "pubrel" /\ \A id \in Ids : ~Tok(q, UpA, id)
        BY <4>1 DEF UpOK, Tok, UpA
      <4> HIDE DEF q
      <4>3. IsConn(u) /\ OwnParty(s, u, app.resumed)
        BY <2>1, <4>2, ForeignUp
      <4>4. Only(wire, wire', k, u)
        BY <2>2, <3>3 DEF q
      <4> HIDE DEF u
      <4>5. QED BY <1>2, <1>3, <2>2, <3>1, <4>3, <4>4, SideStep
    <3>4. QED BY <3>2, <3>3
  <2>6. CASE Admits(s, r)
    <3>1. /\ s.phase = "wait" /\ IsClient(t) /\ t.conn = k /\ t.phase = "acked" /\ t.out = s.out
          /\ app'.done = app.done /\ Only(wire, wire', k, w)
      BY <1>3, <2>2, <2>6 DEF Admits, t
    <3>2. OwnParty(t, w, app'.resumed)
      BY <2>1, <2>4, <3>1, AdmitsOwn DEF SameSides
    <3>3. Tables(t, app')
      BY <2>4, <3>1 DEF Tables
    <3>4. QED BY <1>2, <1>3, <2>1, <2>2, <3>1, <3>2, <3>3, OwnStep
  <2>7. ASSUME NEW i, Ends1(s, r, i, p) PROVE ExchangeInv'
    <3>1. /\ i \in Used(s.out) /\ s.out[i].id = p.id
          /\ \/ p.type = "puback" /\ s.out[i].state = "await_puback"
             \/ p.type = "pubcomp" /\ s.out[i].state = "await_pubcomp"
          /\ t.conn = k /\ t.phase = s.phase /\ IsClient(t) /\ t.out = [s.out EXCEPT ![i] = Free]
          /\ app'.done = app.done \cup {s.out[i].m} /\ Only(wire, wire', k, w)
      BY <1>3, <2>2, <2>7 DEF Ends1, t
    <3>2. Used(t.out) = Used(s.out) \ {i} /\ \A j \in Used(s.out) \ {i} : t.out[j] = s.out[j]
      <4> DEFINE n == t.out
                 o == s.out
      <4>1. \A j \in Entries : n[j] = IF j = i THEN Free ELSE o[j]
        BY <1>1, <3>1 DEF IsClient
      <4> HIDE DEF n, o
      <4>2. Used(n) = Used(o) \ {i} /\ \A j \in Used(o) \ {i} : n[j] = o[j]
        BY <4>1 DEF Used, Free
      <4>3. QED BY <4>2 DEF n, o
    <3>3. EntryOK(s.out[i], app)
      BY <1>1, <3>1 DEF Tables
    <3>4. Idle(w, UpA, DownA, s.out[i].id)
      BY <2>1, <3>1, <3>3 DEF Tok, EntryOK, DownA
    <3>5. p = IdPacket(p.type, p.id)
      BY <2>1, <3>1 DEF DownOK
    <3>6. ASSUME NEW n \in Slots, Alive(broker.slots[n], k), NEW e \in broker.slots[n].inc, e.id = s.out[i].id
          PROVE  FALSE
      <4>1. Link(s, v, broker.slots[n].inc, app.resumed)
        BY <1>1, <1>2, <3>6 DEF OwnParty
      <4>2. s.out[i].qos = 2
        BY <1>1, <3>1, <3>6, <4>1 DEF Link, Tables
      <4>3. p.type = "pubcomp"
        BY <3>1, <3>3, <4>2 DEF EntryOK
      <4>4. QED BY <2>1, <3>1, <3>5, <3>6, <4>1, <4>3 DEF Link
    <3>7. OwnParty(t, w, app'.resumed) /\ Tables(t, app')
      <4>1. i \in Used(s.out) /\ t.conn = s.conn /\ t.phase = s.phase
        BY <3>1
      <4>2. \A n \in Slots : Alive(broker.slots[n], s.conn) => \A e \in broker.slots[n].inc : e.id # s.out[i].id
        BY <3>6
      <4> HIDE DEF s
      <4>3. QED BY <2>4, <3>2, <3>4, <4>1, <4>2, EndsOwn
    <3>8. s.out[i].m \in Messages /\ (log.fwd[s.out[i].m] > 0 \/ (app.plan.pubs[s.out[i].m].qos = 2
        /\ s.out[i].m \in app.resumed))
      <4>1. Forwarded(s, v, log.fwd, app.resumed)
        BY <1>1, <1>2 DEF OwnParty
      <4>2. p.type = "puback" => IdPacket("puback", s.out[i].id) \in ToSet(v.down)
        BY <2>1, <3>1, <3>5
      <4>3. p.type = "pubcomp" => IdPacket("pubcomp", s.out[i].id) \in ToSet(v.down)
        BY <2>1, <3>1, <3>5
      <4>4. QED BY Zenon, <3>1, <3>3, <4>1, <4>2, <4>3 DEF Forwarded, EntryOK
    <3>9. QED BY <1>2, <1>3, <2>1, <2>2, <3>1, <3>7, <3>8, OwnStep
  <2>8. ASSUME NEW i, Halves(s, r, i, p) PROVE ExchangeInv'
    <3> DEFINE q == IdPacket("pubrel", s.out[i].id)
               u == WithUp(w, q)
    <3>1. /\ i \in Used(s.out) /\ s.out[i].id = p.id /\ p.type = "pubrec" /\ s.out[i].state = "await_pubrec"
          /\ t.conn = k /\ t.phase = s.phase /\ IsClient(t)
          /\ t.out = [s.out EXCEPT ![i] = [@ EXCEPT !.state = "await_pubcomp"]]
          /\ app'.done = app.done
      BY <1>3, <2>8 DEF Halves, t
    <3>2. Only(wire, wire', k, u)
      <4>1. r.send = <<IdPacket("pubrel", p.id)>>
        BY <2>8 DEF Halves
      <4>2. r.send # <<>> /\ r.send[1] = IdPacket("pubrel", p.id)
        BY <4>1
      <4>3. QED BY <2>2, <3>1, <4>2
    <3>3. EntryOK(s.out[i], app)
      BY <1>1, <3>1 DEF Tables
    <3>4. /\ Used(t.out) = Used(s.out) /\ \A j \in Used(s.out) \ {i} : t.out[j] = s.out[j]
          /\ t.out[i].state = "await_pubcomp" /\ t.out[i].id = s.out[i].id /\ t.out[i].m = s.out[i].m
          /\ t.out[i].qos = s.out[i].qos
      <4> DEFINE n == t.out
                 o == s.out
                 e == [o[i] EXCEPT !.state = "await_pubcomp"]
      <4>1. i \in Entries /\ \A j \in Entries : n[j] = IF j = i THEN e ELSE o[j]
        BY <1>1, <3>1 DEF IsClient, Used
      <4>2. {"state", "id", "qos", "retain", "m"} \subseteq DOMAIN o[i]
        BY <1>1, <3>1 DEF IsClient
      <4>3. e.state = "await_pubcomp" /\ e.id = o[i].id /\ e.m = o[i].m /\ e.qos = o[i].qos
        BY <4>2
      <4>4. o[i].state # "free"
        BY <3>1
      <4> HIDE DEF n, o, e
      <4>5. Used(n) = Used(o) /\ \A j \in Used(o) \ {i} : n[j] = o[j]
        BY <4>1, <4>3, <4>4 DEF Used
      <4>6. QED BY <4>1, <4>3, <4>5 DEF n, o
    <3>5. Idle(w, UpA, DownA, s.out[i].id) /\ s.phase = "idle"
      BY <2>1, <3>1, <3>3 DEF Tok, EntryOK, DownA
    <3>6. IdPacket("pubrec", s.out[i].id) \in ToSet(v.down)
      BY <2>1, <3>1 DEF DownOK
    <3>7. \A n \in Slots : Alive(broker.slots[n], s.conn) =>
             s.out[i].m \in app'.resumed \/ \E e \in broker.slots[n].inc : e.id = s.out[i].id /\ e.m = s.out[i].m
      BY <1>1, <1>2, <1>3, <3>1, <3>6 DEF OwnParty, Link
    <3>8. IsConn(u) /\ OwnParty(t, u, app'.resumed) /\ Tables(t, app')
      <4>1. i \in Used(s.out) /\ t.conn = s.conn /\ t.phase = s.phase /\ s.out[i].state = "await_pubrec" /\ IsConn(w)
        BY <2>1, <3>1
      <4> HIDE DEF s
      <4>2. QED BY <2>4, <3>4, <3>5, <3>7, <4>1, HalvesOwn
    <3> HIDE DEF u
    <3>9. QED BY <1>2, <1>3, <2>2, <3>1, <3>2, <3>8, OwnStep
  <2>9. QED BY <2>3, <2>5, <2>6, <2>7, <2>8
<1>6. QED BY <1>4, <1>5
-----------------------------------------------------------------------------

(* No callback has called publish() inside connect(). *)
Unnested == ~app.nested
HasNested == "nested" \in DOMAIN app

LEMMA NestedPublish ==
  ASSUME HasNested, NEW c \in Clients, CallbackPublishes(c)
  PROVE  app'.nested
BY DEF HasNested, CallbackPublishes, Observed

LEMMA NestedStays ==
  ASSUME HasNested, [Next]_vars
  PROVE  HasNested' /\ (Unnested' => Unnested)
<1>1. CASE app' = app
  BY <1>1 DEF HasNested, Unnested
<1>2. ASSUME NEW c \in Clients, ClientNext(c), app' # app PROVE HasNested' /\ (Unnested' => Unnested)
  <2>1. CASE CallbackPublishes(c)
    BY <2>1 DEF HasNested, Unnested, CallbackPublishes, Observed
  <2>2. CASE ClientReceive(c)
    BY <2>2 DEF HasNested, Unnested, ClientReceive, Observed
  <2>3. CASE ~CallbackPublishes(c) /\ ~ClientReceive(c)
    BY Zenon, <1>2, <2>3 DEF HasNested, Unnested, ClientNext, Connect, ConnectFails, ConnectTimesOut,
       ConnectReturns, Publish, Subscribe, Unsubscribe, Request, CallFails, Disconnect, Abort, Ping,
       PingTimesOut, ClientEof
  <2>4. QED BY <2>1, <2>2, <2>3
<1>3. QED BY <1>1, <1>2 DEF Next, vars

LEMMA ClientOk ==
  ASSUME ExchangeInv, WillInv', UNCHANGED <<broker, log>>, NEW c \in Clients, ClientNext(c),
         HasNested, Unnested'
  PROVE  ExchangeInv'
<1>1. CASE Connect(c)
  BY <1>1, ConnectOk
<1>2. CASE ConnectFails(c)
  BY <1>2, ConnectFailsOk
<1>3. CASE ConnectReturns(c)
  BY <1>3, ConnectReturnsOk
<1>4. CASE Publish(c)
  BY <1>4, ClientPublishOk
<1>5. CASE Subscribe(c)
  BY <1>5, RequestOk DEF Subscribe
<1>6. CASE Unsubscribe(c)
  BY <1>6, RequestOk DEF Unsubscribe
<1>7. CASE CallFails(c)
  BY <1>7, CallFailsOk
<1>8. CASE Ping(c)
  BY <1>8, PingOk
<1>9. CASE ClientReceive(c)
  BY <1>9, ClientReceiveOk
<1>10. CASE ConnectTimesOut(c) \/ Abort(c) \/ PingTimesOut(c) \/ Disconnect(c) \/ ClientEof(c)
  BY <1>10, LeavingOk
<1>11. CASE CallbackPublishes(c)
  BY <1>11, NestedPublish DEF Unnested
<1>12. QED BY <1>1, <1>2, <1>3, <1>4, <1>5, <1>6, <1>7, <1>8, <1>9, <1>10, <1>11 DEF ClientNext

LEMMA ExchangeInit == Init => ExchangeInv
<1> SUFFICES ASSUME Init PROVE ExchangeInv
  OBVIOUS
<1> DEFINE x == World
<1>1. /\ x.w = <<>> /\ x.log.fwd = [m \in Messages |-> 0] /\ Steady(x)
      /\ cli = [c \in Clients |-> NewClient] /\ \E s \in Scenarios : app = NewApp(s)
  BY WillInit DEF Init, BrokerInit, WireInit, ClientInit, World, WillInv
<1> HIDE DEF x
<1>2. Based(x)
  BY <1>1, EmptyIs, SteadyBased
<1>3. AppOK(app) /\ app.done = {}
  BY <1>1 DEF AppOK, NewApp
<1>4. IsClient(NewClient) /\ NewClient.conn = 0 /\ Used(NewClient.out) = {}
  <2> DEFINE n == NewClient
  <2>1. /\ n.conn = 0 /\ n.phase = "idle" /\ n.connected = FALSE /\ n.next = 0
        /\ {"conn", "phase", "connected", "ping", "clean", "keep", "present", "out", "inc", "req",
            "next"} \subseteq DOMAIN n
    BY DEF NewClient
  <2>2. Used(n.out) = {} /\ IsTable(n.out)
    BY NoneUsed
  <2> HIDE DEF n
  <2>3. IsClient(n)
    BY <2>1, <2>2 DEF IsClient, IsTable
  <2>4. QED BY <2>1, <2>2, <2>3 DEF n
<1>5. \A c \in Clients : IsClient(cli[c]) /\ cli[c].conn = 0 /\ Used(cli[c].out) = {}
  BY <1>1, <1>4
<1>6. cli = [c \in Clients |-> cli[c]]
  BY <1>1
<1>7. \A c \in Clients : Tables(cli[c], app)
  BY <1>5 DEF Tables
<1>8. Exchanges(x, cli, app)
  BY <1>5, <1>6, <1>7 DEF Exchanges, Dialler
<1>9. QED BY <1>2, <1>3, <1>8 DEF ExchangeInv, Acked, x

LEMMA ExchangeStep == WillInv' /\ ExchangeInv /\ HasNested /\ Unnested' /\ [Next]_vars => ExchangeInv'
<1> SUFFICES ASSUME WillInv', ExchangeInv, HasNested, Unnested', [Next]_vars PROVE ExchangeInv'
  OBVIOUS
<1>1. ASSUME NEW c \in Clients, ClientNext(c), UNCHANGED <<listening, broker, log>> PROVE ExchangeInv'
  BY <1>1, ClientOk
<1>2. CASE BrokerNext /\ UNCHANGED <<cli, app>>
  BY <1>2, BrokerOk
<1>3. ASSUME NEW k \in Connections, Cut(k), UNCHANGED <<cli, app, broker, log>> PROVE ExchangeInv'
  BY <1>3, CutOk
<1>4. CASE UNCHANGED vars
  <2>1. World' = World
    BY <1>4 DEF World, vars
  <2>2. QED BY <1>4, <2>1 DEF ExchangeInv, vars
<1>5. QED BY <1>1, <1>2, <1>3, <1>4 DEF Next

(* ExchangeInv is an invariant until a callback does so. *)
UnnestedInv == HasNested /\ (Unnested => ExchangeInv)

LEMMA UnnestedInit == Init => UnnestedInv
<1>1. Init => HasNested
  BY DEF Init, ClientInit, NewApp, HasNested
<1>2. QED BY <1>1, ExchangeInit DEF UnnestedInv

LEMMA UnnestedStep == WillInv' /\ UnnestedInv /\ [Next]_vars => UnnestedInv'
BY ExchangeStep, NestedStays DEF UnnestedInv

(* When publish() of QoS 1 or 2 has been acknowledged, the broker has       *)
(* handed the message on, unless the QoS 2 exchange was resumed over a new  *)
(* connection, or a callback has called publish() inside connect().         *)
THEOREM MqttAckedIsForwarded == Spec => []AckedIsForwarded
<1>1. UnnestedInv => AckedIsForwarded
  BY DEF UnnestedInv, Unnested, ExchangeInv, Acked, AckedIsForwarded, Quality, World
<1>2. QED BY WillInit, WillStep, UnnestedInit, UnnestedStep, <1>1, PTL DEF Spec
=============================================================================
