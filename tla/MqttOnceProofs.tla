---------------------------- MODULE MqttOnceProofs ----------------------------
(* Proof about MqttSystem: a message published with QoS 2 is handed on at   *)
(* most once and reaches each client's callback at most once.               *)
EXTENDS MqttProofs

(* The way of one message of QoS 2 from its publisher to the broker.        *)
Live(t) == t.conn # 0 /\ ~t.closing

(* If message m is or will be published, it is of QoS 2. *)
Two(m, a) == m \in Messages /\ (m <= a.sent => a.plan.pubs[m].qos = 2)
Known2(m, a) == m \in Messages /\ m <= a.sent

IsPub(p) == p.type = "publish"

PubOK(p, a) ==
    IsPub(p) => /\ Known2(p.m, a) /\ p.qos = a.plan.pubs[p.m].qos
                /\ p.qos = 2 => p.id \in Ids

(* What comes from a client, over a connection that may have been given up. *)
UpSound(v, a) ==
    /\ \A p \in ToSet(v.up) : PubOK(p, a)
    /\ \A id \in Ids : OneTok(v.up, UpA, id)
    /\ \A p, q \in ToSet(v.up) : IsPub(p) /\ IsPub(q) /\ p.m = q.m /\ p.qos = 2 => p.id = q.id
    /\ v.broker = "backlog" => \A p \in ToSet(v.up) : p.type \notin UpA

Has(t, m) == \E e \in t.inc : e.m = m
Comes(v, m) == \E p \in ToSet(v.up) : IsPub(p) /\ p.m = m

(* The broker holds message m for the client of slot i, or may receive it.  *)
Carries(x, i, m) ==
    LET t == x.b.slots[i] IN Live(t) /\ (Has(t, m) \/ Comes(x.w[t.conn], m))

SlotSound(t, v, a) ==
    /\ \A e \in t.inc : Known2(e.m, a) /\ a.plan.pubs[e.m].qos = 2
    /\ \A e, f \in t.inc : e.id = f.id \/ e.m = f.m => e = f
    /\ \A e \in t.inc : ~Comes(v, e.m)
    /\ ~t.level => t.inc = {} /\ \A p \in ToSet(v.up) : p.type \notin UpA

Entry(s, m) == \E i \in Used(s.out) : s.out[i].m = m
Wants(s, m) == \E i \in Used(s.out) : s.out[i].m = m /\ s.out[i].state = "await_pubrec"
Connacked(q) == \E p \in ToSet(q) : p.type = "connack"

Streams(x, a) == \A k \in DOMAIN x.w : UpSound(x.w[k], a)

Serves(x, a) ==
    \A i \in Slots : Live(x.b.slots[i]) => SlotSound(x.b.slots[i], x.w[x.b.slots[i].conn], a)

(* Of two slots that serve the same client one is about to be closed. *)
OneSession(x) ==
    \A i, j \in Slots : LET s == x.b.slots[i]
                            t == x.b.slots[j]
                        IN  Live(s) /\ Live(t) /\ s.level /\ t.level /\ s.id = t.id => i = j

Unsent(x, a) == \A m \in Messages : m > a.sent => x.log.fwd[m] = 0

(* Message m is at one place before it is forwarded, and at none afterwards. *)
OnePlace(x, cl, m) ==
    /\ x.log.fwd[m] <= 1
    /\ \A i \in Slots : Carries(x, i, m) => x.log.fwd[m] = 0
    /\ \A i, j \in Slots : Carries(x, i, m) /\ Carries(x, j, m) => i = j
    /\ \A c \in Clients : Wants(cl[c], m) => x.log.fwd[m] = 0
    /\ \A c \in Clients, i \in Slots : Entry(cl[c], m) /\ Carries(x, i, m) => x.b.slots[i].id = c

Distinct(cl) ==
    \A c, d \in Clients : \A i \in Used(cl[c].out), j \in Used(cl[d].out) :
        cl[c].out[i].m = cl[d].out[j].m => c = d /\ i = j

(* Who released a message does not send it again. *)
Releases(x, cl) ==
    \A i \in Slots : Live(x.b.slots[i]) =>
        \A e \in x.b.slots[i].inc, p \in ToSet(x.w[x.b.slots[i].conn].up) :
            p.type = "pubrel" /\ p.id = e.id => \A c \in Clients : ~Wants(cl[c], e.m)

(* The client of a slot is the one at the other end. *)
Greeted(c, s, v, t) ==
    /\ t.level => t.id = c
    /\ s.phase # "wait" \/ Connacked(v.down) => t.level

Greets(x, cl) ==
    \A c \in Clients : cl[c].conn # 0 =>
        /\ \A p \in ToSet(x.w[cl[c].conn].up) : p.type = "connect" => p.id = c
        /\ \A i \in Slots : Live(x.b.slots[i]) /\ x.b.slots[i].conn = cl[c].conn =>
              Greeted(c, cl[c], x.w[cl[c].conn], x.b.slots[i])

UpInv(x, cl, a) ==
    /\ Streams(x, a) /\ Serves(x, a) /\ OneSession(x) /\ Unsent(x, a)
    /\ \A m \in Messages : Two(m, a) => OnePlace(x, cl, m)
    /\ Distinct(cl) /\ Releases(x, cl) /\ Greets(x, cl)

(* The way of a message from the broker to a subscriber: its copies. *)
Bears(e, m) == e.m = m /\ e.retain # "copy"
IsCopy(p, m) == IsPub(p) /\ Bears(p, m)
NoCopy(q, m) == \A p \in ToSet(q) : ~IsCopy(p, m)
OneCopy(q, m) == \A i, j \in DOMAIN q : IsCopy(q[i], m) /\ IsCopy(q[j], m) => i = j
NoHeld(inc, m) == \A e \in inc : ~Bears(e, m)
OneHeld(inc, m) == \A e, f \in inc : Bears(e, m) /\ Bears(f, m) => e = f

(* inc is what the client holds, q what comes to it, n how often its        *)
(* callback has seen message m.                                             *)
Half(inc, q, n, fwd, m) ==
    /\ n \in 0 .. 1
    /\ OneHeld(inc, m) /\ OneCopy(q, m) /\ (NoHeld(inc, m) \/ NoCopy(q, m))
    /\ fwd = 0 => n = 0
    /\ fwd = 0 \/ n = 1 => NoHeld(inc, m) /\ NoCopy(q, m)

DownOf(x, s) == IF s.conn = 0 THEN <<>> ELSE x.w[s.conn].down

DownInv(x, cl, a) ==
    \A c \in Clients, m \in Messages :
        Two(m, a) => Half(cl[c].inc, DownOf(x, cl[c]), a.got[c][m], x.log.fwd[m], m)
-----------------------------------------------------------------------------
(* Sequences and copies *)
LEMMA CopyEmpty == ASSUME NEW m PROVE NoCopy(<<>>, m) /\ OneCopy(<<>>, m)
BY EmptyIs DEF NoCopy, OneCopy

LEMMA CopyAppend ==
  ASSUME NEW q, IsSeq(q), NEW p, NEW m
  PROVE  /\ NoCopy(q, m) /\ ~IsCopy(p, m) => NoCopy(Append(q, p), m)
         /\ OneCopy(q, m) /\ (~IsCopy(p, m) \/ NoCopy(q, m)) => OneCopy(Append(q, p), m)
<1>1. NoCopy(q, m) /\ ~IsCopy(p, m) => NoCopy(Append(q, p), m)
  BY SetOfAppend DEF NoCopy
<1>2. ASSUME OneCopy(q, m), ~IsCopy(p, m) \/ NoCopy(q, m)
      PROVE  OneCopy(Append(q, p), m)
  <2>1. \A j \in DOMAIN q : q[j] \in ToSet(q)
    BY DEF ToSet
  <2>2. \A j \in DOMAIN Append(q, p) : \/ j \in DOMAIN q /\ Append(q, p)[j] = q[j]
                                       \/ j = Len(q) + 1 /\ Append(q, p)[j] = p
    BY AppendIs
  <2>3. QED BY <1>2, <2>1, <2>2 DEF OneCopy, NoCopy
<1>3. QED BY <1>1, <1>2

LEMMA CopyTail ==
  ASSUME NEW q, IsSeq(q), q # <<>>, NEW m
  PROVE  /\ NoCopy(q, m) => NoCopy(Tail(q), m)
         /\ OneCopy(q, m) => OneCopy(Tail(q), m)
         /\ OneCopy(q, m) /\ IsCopy(Head(q), m) => NoCopy(Tail(q), m)
<1>1. NoCopy(q, m) => NoCopy(Tail(q), m)
  BY SetOfTail DEF NoCopy
<1>2. \A j \in DOMAIN Tail(q) : j \in Int /\ j > 0 /\ j + 1 \in DOMAIN q /\ Tail(q)[j] = q[j + 1]
  BY TailIs
<1>3. OneCopy(q, m) => OneCopy(Tail(q), m)
  <2> SUFFICES ASSUME OneCopy(q, m), NEW i \in DOMAIN Tail(q), NEW j \in DOMAIN Tail(q),
                      IsCopy(Tail(q)[i], m), IsCopy(Tail(q)[j], m)
               PROVE  i = j
    BY DEF OneCopy
  <2>1. i + 1 = j + 1
    BY <1>2 DEF OneCopy
  <2>2. QED BY <1>2, <2>1
<1>4. ASSUME OneCopy(q, m), IsCopy(Head(q), m)
      PROVE  NoCopy(Tail(q), m)
  <2>1. 1 \in DOMAIN q /\ Head(q) = q[1]
    BY TailIs
  <2>2. ASSUME NEW j \in DOMAIN Tail(q), IsCopy(Tail(q)[j], m) PROVE FALSE
    <3>1. j + 1 = 1
      BY <1>2, <1>4, <2>1, <2>2 DEF OneCopy
    <3>2. QED BY <1>2, <3>1
  <2>3. QED BY <2>2 DEF NoCopy, ToSet
<1>5. QED BY <1>1, <1>3, <1>4
-----------------------------------------------------------------------------
(* What a step of the broker that admits nobody and accepts no message does *)
(* to one direction; the messages in M are forwarded.                       *)
Tender(q, r, M) ==
    \A m \in Messages \ M : (NoCopy(q, m) => NoCopy(r, m)) /\ (OneCopy(q, m) => OneCopy(r, m))

Calmer(x, y, i) ==
    LET s == x.b.slots[i]
        t == y.b.slots[i]
    IN  Live(t) => /\ Live(s) /\ t.conn = s.conn /\ t.id = s.id /\ t.level = s.level /\ t.inc \subseteq s.inc
                   /\ Connacked(y.w[s.conn].down) => Connacked(x.w[s.conn].down)

Tends(x, y, M) ==
    /\ DOMAIN y.w = DOMAIN x.w /\ \A k \in DOMAIN x.w : Tender(x.w[k].down, y.w[k].down, M)
    /\ \A m \in Messages \ M : y.log.fwd[m] = x.log.fwd[m]

Hush(x, y, M) ==
    /\ Tends(x, y, M) /\ \A i \in Slots : Calmer(x, y, i)
    /\ \A k \in DOMAIN x.w :
         Thinner(x.w[k].up, y.w[k].up) /\ (y.w[k].broker = "backlog" => x.w[k].broker = "backlog")

LEMMA HushTrans ==
  ASSUME NEW x, NEW y, NEW z, NEW M, NEW N, Hush(x, y, M), Hush(y, z, N)
  PROVE  Hush(x, z, M \cup N)
<1>1. DOMAIN z.w = DOMAIN x.w
  BY DEF Hush, Tends
<1>2. ASSUME NEW k \in DOMAIN x.w
      PROVE  /\ Thinner(x.w[k].up, z.w[k].up)
             /\ z.w[k].broker = "backlog" => x.w[k].broker = "backlog"
             /\ Tender(x.w[k].down, z.w[k].down, M \cup N)
  <2>1. Thinner(x.w[k].up, y.w[k].up) /\ Thinner(y.w[k].up, z.w[k].up)
    BY DEF Hush, Tends
  <2>2. Thinner(x.w[k].up, z.w[k].up)
    BY <2>1 DEF Thinner
  <2>3. Tender(x.w[k].down, y.w[k].down, M) /\ Tender(y.w[k].down, z.w[k].down, N)
    BY DEF Hush, Tends
  <2>4. Tender(x.w[k].down, z.w[k].down, M \cup N)
    BY <2>3 DEF Tender
  <2>5. QED BY <2>2, <2>4 DEF Hush, Tends
<1>3. ASSUME NEW i \in Slots PROVE Calmer(x, z, i)
  BY DEF Hush, Tends, Calmer
<1>4. \A m \in Messages \ (M \cup N) : z.log.fwd[m] = x.log.fwd[m]
  BY DEF Hush, Tends
<1>5. QED BY <1>1, <1>2, <1>3, <1>4 DEF Hush, Tends

LEMMA UpThin ==
  ASSUME NEW v, NEW u, NEW a, UpSound(v, a), Thinner(v.up, u.up), u.broker = "backlog" => v.broker = "backlog"
  PROVE  UpSound(u, a)
BY DEF UpSound, Thinner

LEMMA HushCarries ==
  ASSUME NEW x, NEW y, NEW M, Based(x), Hush(x, y, M), NEW i \in Slots, Live(y.b.slots[i])
  PROVE  /\ Live(x.b.slots[i]) /\ x.b.slots[i].conn \in DOMAIN x.w /\ y.b.slots[i].conn = x.b.slots[i].conn
         /\ ToSet(y.w[y.b.slots[i].conn].up) \subseteq ToSet(x.w[x.b.slots[i].conn].up)
         /\ y.b.slots[i].inc \subseteq x.b.slots[i].inc
         /\ \A m : Carries(y, i, m) => Carries(x, i, m)
<1>1. Live(x.b.slots[i]) /\ y.b.slots[i].conn = x.b.slots[i].conn /\ y.b.slots[i].inc \subseteq x.b.slots[i].inc
  BY DEF Hush, Tends, Calmer
<1>2. x.b.slots[i].conn \in DOMAIN x.w
  BY <1>1 DEF Based, Open, Live
<1>3. ToSet(y.w[y.b.slots[i].conn].up) \subseteq ToSet(x.w[x.b.slots[i].conn].up)
  BY <1>1, <1>2 DEF Hush, Tends, Thinner
<1>4. QED BY <1>1, <1>2, <1>3 DEF Carries, Has, Comes

(* Message m has been forwarded and is nowhere any more. *)
Spent(y, cl, m) ==
    /\ y.log.fwd[m] <= 1
    /\ \A i \in Slots : ~Carries(y, i, m)
    /\ \A c \in Clients : ~Wants(cl[c], m)

LEMMA HushUp ==
  ASSUME NEW x, NEW y, NEW M, NEW cl, NEW a, Based(x), Hush(x, y, M), UpInv(x, cl, a), Dialler(cl, x),
         \A m \in M \cap Messages : m <= a.sent /\ (Two(m, a) => Spent(y, cl, m)), a.sent \in Nat
  PROVE  UpInv(y, cl, a)
<1>1. Streams(y, a)
  BY UpThin DEF UpInv, Streams, Hush, Tends
<1>2. ASSUME NEW i \in Slots, Live(y.b.slots[i]) PROVE SlotSound(y.b.slots[i], y.w[y.b.slots[i].conn], a)
  <2> DEFINE s == x.b.slots[i]
             t == y.b.slots[i]
             v == x.w[s.conn]
             u == y.w[t.conn]
  <2>1. Live(s) /\ t.inc \subseteq s.inc /\ ToSet(u.up) \subseteq ToSet(v.up)
    BY <1>2, HushCarries
  <2>2. SlotSound(s, v, a)
    BY <2>1 DEF UpInv, Serves
  <2>3. t.level = s.level
    BY <1>2 DEF Hush, Tends, Calmer
  <2> HIDE DEF s, t, u, v
  <2>4. SlotSound(t, u, a)
    BY <2>1, <2>2, <2>3 DEF SlotSound, Comes
  <2>5. QED BY <2>4 DEF t, u
<1>3. OneSession(y)
  BY DEF UpInv, OneSession, Hush, Tends, Calmer
<1>4. Unsent(y, a)
  <2>1. ASSUME NEW m \in Messages, m > a.sent PROVE y.log.fwd[m] = 0
    <3>1. m \notin M
      BY <2>1 DEF Messages
    <3>2. QED BY <2>1, <3>1 DEF UpInv, Unsent, Hush, Tends
  <2>2. QED BY <2>1 DEF Unsent
<1>5. ASSUME NEW m \in Messages, Two(m, a) PROVE OnePlace(y, cl, m)
  <2>1. CASE m \in M
    BY <1>5, <2>1 DEF Spent, OnePlace, Entry, Wants
  <2>2. CASE m \notin M
    <3>1. y.log.fwd[m] = x.log.fwd[m] /\ OnePlace(x, cl, m)
      BY <1>5, <2>2 DEF UpInv, Hush, Tends
    <3>2. \A i \in Slots : Carries(y, i, m) => Carries(x, i, m) /\ y.b.slots[i].id = x.b.slots[i].id
      <4>1. ASSUME NEW i \in Slots, Carries(y, i, m) PROVE Carries(x, i, m) /\ y.b.slots[i].id = x.b.slots[i].id
        <5>1. Live(y.b.slots[i])
          BY <4>1 DEF Carries
        <5>2. QED BY <4>1, <5>1, HushCarries DEF Hush, Tends, Calmer
      <4>2. QED BY <4>1
    <3>3. QED BY <3>1, <3>2 DEF OnePlace
  <2>3. QED BY <2>1, <2>2
<1>6. Releases(y, cl)
  <2>1. ASSUME NEW i \in Slots, Live(y.b.slots[i]), NEW e \in y.b.slots[i].inc,
               NEW p \in ToSet(y.w[y.b.slots[i].conn].up), p.type = "pubrel", p.id = e.id
        PROVE  \A c \in Clients : ~Wants(cl[c], e.m)
    <3>1. Live(x.b.slots[i]) /\ e \in x.b.slots[i].inc /\ p \in ToSet(x.w[x.b.slots[i].conn].up)
      BY <2>1, HushCarries
    <3>2. QED BY <2>1, <3>1 DEF UpInv, Releases
  <2>2. QED BY <2>1 DEF Releases
<1>7. Greets(y, cl)
  <2>1. ASSUME NEW c \in Clients, cl[c].conn # 0
        PROVE  /\ \A p \in ToSet(y.w[cl[c].conn].up) : p.type = "connect" => p.id = c
               /\ \A i \in Slots : Live(y.b.slots[i]) /\ y.b.slots[i].conn = cl[c].conn =>
                     Greeted(c, cl[c], y.w[cl[c].conn], y.b.slots[i])
    <3>1. cl[c].conn \in DOMAIN x.w
      BY <2>1 DEF Dialler
    <3>2. ToSet(y.w[cl[c].conn].up) \subseteq ToSet(x.w[cl[c].conn].up)
      BY <3>1 DEF Hush, Tends, Thinner
    <3>3. \A p \in ToSet(y.w[cl[c].conn].up) : p.type = "connect" => p.id = c
      BY <2>1, <3>2 DEF UpInv, Greets
    <3>4. ASSUME NEW i \in Slots, Live(y.b.slots[i]), y.b.slots[i].conn = cl[c].conn
          PROVE  Greeted(c, cl[c], y.w[cl[c].conn], y.b.slots[i])
      <4>1. Calmer(x, y, i)
        BY DEF Hush, Tends
      <4>2. Live(x.b.slots[i]) /\ x.b.slots[i].conn = cl[c].conn
        BY <3>4, <4>1 DEF Calmer
      <4>3. Greeted(c, cl[c], x.w[cl[c].conn], x.b.slots[i])
        BY <2>1, <4>2 DEF UpInv, Greets
      <4>4. QED BY <3>4, <4>1, <4>2, <4>3 DEF Greeted, Calmer
    <3>5. QED BY <3>3, <3>4
  <2>2. QED BY <2>1 DEF Greets
<1>8. QED BY <1>1, <1>2, <1>3, <1>4, <1>5, <1>6, <1>7 DEF UpInv, Serves

(* A message that is forwarded starts its way down, at most one copy on     *)
(* each connection.                                                         *)
Starts(x, y, m) ==
    /\ x.log.fwd[m] = 0 /\ y.log.fwd[m] # 0
    /\ \A k \in DOMAIN x.w : NoCopy(x.w[k].down, m) => OneCopy(y.w[k].down, m)

LEMMA TendsDown ==
  ASSUME NEW x, NEW y, NEW M, NEW cl, NEW a, Tends(x, y, M), DownInv(x, cl, a), Dialler(cl, x),
         \A m \in M \cap Messages : Two(m, a) => Starts(x, y, m)
  PROVE  DownInv(y, cl, a)
<1> SUFFICES ASSUME NEW c \in Clients, NEW m \in Messages, Two(m, a)
             PROVE  Half(cl[c].inc, DownOf(y, cl[c]), a.got[c][m], y.log.fwd[m], m)
  BY DEF DownInv
<1> DEFINE q == DownOf(x, cl[c])
           r == DownOf(y, cl[c])
           inc == cl[c].inc
           n == a.got[c][m]
<1>1. Half(inc, q, n, x.log.fwd[m], m)
  BY DEF DownInv
<1>2. CASE m \notin M
  <2>1. y.log.fwd[m] = x.log.fwd[m]
    BY <1>2 DEF Tends
  <2>2. (NoCopy(q, m) => NoCopy(r, m)) /\ (OneCopy(q, m) => OneCopy(r, m))
    <3>1. CASE cl[c].conn = 0
      BY <3>1 DEF DownOf
    <3>2. CASE cl[c].conn # 0
      BY <1>2, <3>2 DEF DownOf, Dialler, Tends, Tender
    <3>3. QED BY <3>1, <3>2
  <2> HIDE DEF q, r, inc, n
  <2>3. Half(inc, r, n, x.log.fwd[m], m)
    BY <1>1, <2>2 DEF Half
  <2>4. QED BY <2>1, <2>3 DEF r, inc, n
<1>3. CASE m \in M
  <2>1. Starts(x, y, m)
    BY <1>3
  <2>2. NoCopy(q, m) /\ NoHeld(inc, m) /\ n = 0
    BY <1>1, <2>1 DEF Half, Starts
  <2>3. OneCopy(r, m)
    <3>1. CASE cl[c].conn = 0
      BY <3>1, CopyEmpty DEF DownOf
    <3>2. CASE cl[c].conn # 0
      BY <2>1, <2>2, <3>2 DEF DownOf, Dialler, Starts
    <3>3. QED BY <3>1, <3>2
  <2> HIDE DEF q, r, inc, n
  <2>4. OneHeld(inc, m)
    BY <2>2 DEF NoHeld, OneHeld
  <2>5. Half(inc, r, n, y.log.fwd[m], m)
    BY <2>1, <2>2, <2>3, <2>4 DEF Half, Starts
  <2>6. QED BY <2>5 DEF r, inc, n
<1>4. QED BY <1>2, <1>3
-----------------------------------------------------------------------------
LEMMA NoneOrOne == ASSUME NEW q, NEW m, NoCopy(q, m) PROVE OneCopy(q, m)
BY DEF NoCopy, OneCopy, ToSet

(* At most one packet is sent down a connection, a copy of a message of M   *)
(* or of none.                                                              *)
Told(v, u, M) ==
    \/ u = v
    \/ \E p : p.type # "connack" /\ (\A m \in Messages \ M : ~IsCopy(p, m)) /\ u = WithDown(v, p)

LEMMA WithDownQueue ==
  ASSUME NEW v, IsConn(v), NEW p
  PROVE  WithDown(v, p).down = v.down \/ WithDown(v, p).down = Append(v.down, p)
BY DEF WithDown, IsConn

LEMMA ToldIs ==
  ASSUME NEW v, IsConn(v), NEW u, NEW M, Told(v, u, M)
  PROVE  /\ u.up = v.up /\ u.broker = v.broker /\ Tender(v.down, u.down, M)
         /\ Connacked(u.down) => Connacked(v.down)
         /\ \A m : NoCopy(v.down, m) => OneCopy(u.down, m)
<1>1. CASE u = v
  BY <1>1, NoneOrOne DEF Tender
<1>2. CASE u # v
  <2>1. PICK p : p.type # "connack" /\ (\A m \in Messages \ M : ~IsCopy(p, m)) /\ u = WithDown(v, p)
    BY <1>2 DEF Told
  <2>2. u.up = v.up /\ u.broker = v.broker
    BY <2>1, WithDownIs DEF SameSides
  <2>3. IsSeq(v.down)
    BY DEF IsConn
  <2>4. CASE u.down = v.down
    BY <2>2, <2>4, NoneOrOne DEF Tender
  <2>5. CASE u.down = Append(v.down, p)
    <3>1. Tender(v.down, u.down, M)
      BY <2>1, <2>3, <2>5, CopyAppend DEF Tender
    <3>2. Connacked(u.down) => Connacked(v.down)
      BY <2>1, <2>3, <2>5, SetOfAppend DEF Connacked
    <3>3. \A m : NoCopy(v.down, m) => OneCopy(u.down, m)
      BY <2>3, <2>5, CopyAppend, NoneOrOne
    <3>4. QED BY <2>2, <3>1, <3>2, <3>3
  <2>6. QED BY <2>1, <2>4, <2>5, WithDownQueue
<1>3. QED BY <1>1, <1>2

SameHalf(s, t) ==
    /\ t.conn = s.conn /\ t.inc \subseteq s.inc
    /\ ~t.closing => ~s.closing /\ t.id = s.id /\ t.level = s.level

LEMMA SelfThinner == ASSUME NEW v, IsConn(v) PROVE Thinner(v.up, v.up)
BY Thins DEF IsConn

LEMMA DownHush ==
  ASSUME NEW x, NEW y, NEW M, Based(x), DOMAIN y.w = DOMAIN x.w,
         \A k \in DOMAIN x.w : Told(x.w[k], y.w[k], M),
         \A i \in Slots : SameHalf(x.b.slots[i], y.b.slots[i]),
         \A m \in Messages \ M : y.log.fwd[m] = x.log.fwd[m]
  PROVE  /\ Hush(x, y, M)
         /\ \A m, k : k \in DOMAIN x.w /\ NoCopy(x.w[k].down, m) => OneCopy(y.w[k].down, m)
<1>1. ASSUME NEW k \in DOMAIN x.w
      PROVE  /\ y.w[k].up = x.w[k].up /\ y.w[k].broker = x.w[k].broker
             /\ Tender(x.w[k].down, y.w[k].down, M)
             /\ Connacked(y.w[k].down) => Connacked(x.w[k].down)
             /\ \A m : NoCopy(x.w[k].down, m) => OneCopy(y.w[k].down, m)
             /\ Thinner(x.w[k].up, y.w[k].up)
  <2>1. IsConn(x.w[k]) /\ Told(x.w[k], y.w[k], M)
    BY DEF Based
  <2> DEFINE v == x.w[k]
             u == y.w[k]
  <2> HIDE DEF v, u
  <2>2. /\ u.up = v.up /\ u.broker = v.broker /\ Tender(v.down, u.down, M)
        /\ Connacked(u.down) => Connacked(v.down)
        /\ \A m : NoCopy(v.down, m) => OneCopy(u.down, m)
    BY <2>1, ToldIs DEF v, u
  <2>3. Thinner(v.up, u.up)
    BY <2>1, <2>2, SelfThinner DEF v
  <2>4. QED BY <2>2, <2>3 DEF v, u
<1>2. ASSUME NEW i \in Slots PROVE Calmer(x, y, i)
  <2> SUFFICES ASSUME Live(y.b.slots[i])
               PROVE  LET s == x.b.slots[i]
                          t == y.b.slots[i]
                      IN  /\ Live(s) /\ t.conn = s.conn /\ t.id = s.id /\ t.level = s.level /\ t.inc \subseteq s.inc
                          /\ Connacked(y.w[s.conn].down) => Connacked(x.w[s.conn].down)
    BY DEF Calmer
  <2>1. Live(x.b.slots[i])
    BY DEF SameHalf, Live
  <2>2. x.b.slots[i].conn \in DOMAIN x.w
    BY <2>1 DEF Based, Open, Live
  <2>3. QED BY <1>1, <2>1, <2>2 DEF SameHalf, Live
<1>3. Tends(x, y, M)
  BY <1>1 DEF Tends
<1>4. QED BY <1>1, <1>2, <1>3 DEF Hush

(* A step that sends nothing and forwards nothing. *)
LEMMA PlainHush ==
  ASSUME NEW x, NEW y, Based(x), Plain(x, y),
         \A i \in Slots : ~y.b.slots[i].closing =>
            y.b.slots[i].id = x.b.slots[i].id /\ y.b.slots[i].level = x.b.slots[i].level
  PROVE  Hush(x, y, {})
<1>1. \A k \in DOMAIN x.w : Told(x.w[k], y.w[k], {})
  BY DEF Plain, Told
<1>2. \A i \in Slots : SameHalf(x.b.slots[i], y.b.slots[i])
  BY DEF Plain, SameTables, SameHalf
<1>3. DOMAIN y.w = DOMAIN x.w /\ \A m \in Messages \ {} : y.log.fwd[m] = x.log.fwd[m]
  BY DEF Plain
<1>4. QED BY <1>1, <1>2, <1>3, DownHush

LEMMA QuietHush ==
  ASSUME NEW x, NEW y, Based(x), Plain(x, y), Quiet(x, y)
  PROVE  Hush(x, y, {})
BY PlainHush DEF Quiet, SameSlot

LEMMA HushRefl == ASSUME NEW x, Based(x) PROVE Hush(x, x, {})
<1>1. Plain(x, x) /\ Quiet(x, x)
  BY PlainRefl, QuietRefl DEF Based
<1>2. QED BY <1>1, QuietHush

LEMMA ClosingHush ==
  ASSUME NEW x, Based(x), NEW i \in Slots
  PROVE  /\ Hush(x, Closing(x, i), {}) /\ Hush(x, Reject(x, i), {})
         /\ Based(Closing(x, i)) /\ Based(Reject(x, i))
<1> DEFINE y == Closing(x, i)
           z == Reject(x, i)
<1>1. IsWorld(x)
  BY DEF Based
<1>2. Plain(x, y) /\ Based(y)
  BY <1>1, ClosingPlain, PlainCalm, CalmBased
<1>3. Changed(x, y, i, x.log.fate[x.b.slots[i].conn]) /\ y.b.slots[i].level = x.b.slots[i].level
      /\ y.b.slots[i].id = x.b.slots[i].id
  BY <1>1, ClosingIs
<1>4. Plain(x, z) /\ Based(z)
  BY <1>1, RejectPlain, PlainCalm, CalmBased
<1>5. z = [y EXCEPT !.log.error = TRUE]
  BY DEF Reject
<1>6. IsWorld(y)
  BY <1>2 DEF Based
<1>7. z.b = y.b
  BY <1>5, <1>6 DEF IsWorld
<1> HIDE DEF y, z
<1>8. \A j \in Slots : y.b.slots[j].id = x.b.slots[j].id /\ y.b.slots[j].level = x.b.slots[j].level
  BY <1>3 DEF Changed
<1>9. Hush(x, y, {}) /\ Hush(x, z, {})
  BY <1>2, <1>4, <1>7, <1>8, PlainHush
<1>10. QED BY <1>2, <1>4, <1>9 DEF y, z

LEMMA SendHush ==
  ASSUME NEW x, Based(x), NEW i \in Slots, NEW p, p.type # "connack", \A m \in Messages : ~IsCopy(p, m)
  PROVE  Hush(x, Send(x, i, p), {})
<1> DEFINE y == Send(x, i, p)
           k == x.b.slots[i].conn
<1>1. y.w = Update(x.w, k, WithDown(x.w[k], p)) /\ y.b = x.b /\ y.log = x.log
  BY DEF Send, SendDown, Based, IsWorld
<1> HIDE DEF y
<1>2. DOMAIN y.w = DOMAIN x.w /\ \A n \in DOMAIN x.w : y.w[n] = IF n = k THEN WithDown(x.w[k], p) ELSE x.w[n]
  BY <1>1 DEF Update
<1>3. \A n \in DOMAIN x.w : Told(x.w[n], y.w[n], {})
  BY <1>2 DEF Told
<1>4. \A j \in Slots : SameHalf(x.b.slots[j], y.b.slots[j])
  BY <1>1 DEF SameHalf
<1>5. Hush(x, y, {})
  BY Zenon, <1>1, <1>2, <1>3, <1>4, DownHush
<1>6. QED BY <1>5 DEF y

LEMMA IdPacketHush ==
  ASSUME NEW x, Based(x), NEW i \in Slots, NEW t, t \notin {"publish", "connack"}, NEW id
  PROVE  Hush(x, Send(x, i, IdPacket(t, id)), {})
<1> DEFINE p == IdPacket(t, id)
<1>1. p.type # "connack" /\ \A m \in Messages : ~IsCopy(p, m)
  BY IdPacketIs DEF IsCopy, IsPub
<1> HIDE DEF p
<1>2. Hush(x, Send(x, i, p), {})
  BY <1>1, SendHush
<1>3. QED BY <1>2 DEF p
-----------------------------------------------------------------------------
LEMMA HushChain ==
  ASSUME NEW x, NEW y, NEW z, NEW M, \/ Hush(x, y, {}) /\ Hush(y, z, M)
                                     \/ Hush(x, y, M) /\ Hush(y, z, {})
  PROVE  Hush(x, z, M)
<1>1. {} \cup M = M /\ M \cup {} = M
  OBVIOUS
<1>2. Hush(x, z, {} \cup M) \/ Hush(x, z, M \cup {})
  BY HushTrans
<1>3. QED BY <1>1, <1>2

LEMMA SendPublishToHush ==
  ASSUME NEW x, Based(x), NEW q, DOMAIN q \subseteq Slots, NEW m, NEW r, NEW M, r = "copy" \/ M = {m}
  PROVE  LET y == SendPublishTo(x, q, m, r) IN
         /\ Hush(x, y, M) /\ Based(y) /\ y.log = x.log
         /\ \A n, k : k \in DOMAIN x.w /\ NoCopy(x.w[k].down, n) => OneCopy(y.w[k].down, n)
<1> DEFINE sent == {i \in DOMAIN q : q[i] = 0 \/ Cardinality(x.b.slots[i].out) < MaxOutstanding}
           at(k) == CHOOSE i \in sent : x.b.slots[i].conn = k
           slots == [i \in Slots |-> IF i \in sent THEN Entered(x.b.slots[i], m, q[i], r) ELSE x.b.slots[i]]
           wires == [k \in DOMAIN x.w |->
                       IF \E i \in sent : x.b.slots[i].conn = k
                       THEN WithDown(x.w[k], Publication(x.b.slots[at(k)], m, q[at(k)], r)) ELSE x.w[k]]
           y == SendPublishTo(x, q, m, r)
<1>1. y = [x EXCEPT !.b.slots = slots, !.w = wires]
  BY DEF SendPublishTo
<1>2. CalmWorld(x, y) /\ Quiet(x, y)
  BY SendPublishToCalm, SendPublishToQuiet DEF Based
<1>3. y.w = wires /\ y.log = x.log
  BY <1>1 DEF Based, IsWorld
<1> HIDE DEF y
<1>4. ASSUME NEW k \in DOMAIN x.w PROVE Told(x.w[k], wires[k], M)
  <2>1. CASE \E i \in sent : x.b.slots[i].conn = k
    <3> DEFINE p == Publication(x.b.slots[at(k)], m, q[at(k)], r)
    <3>1. p.type = "publish" /\ p.m = m /\ p.retain = r
      BY DEF Publication
    <3>2. wires[k] = WithDown(x.w[k], p)
      BY <2>1
    <3> HIDE DEF p, wires
    <3>3. \A n \in Messages \ M : ~IsCopy(p, n)
      BY <3>1 DEF IsCopy, Bears
    <3>4. p.type # "connack"
      BY <3>1
    <3>5. QED BY Zenon, <3>2, <3>3, <3>4 DEF Told
  <2>2. CASE ~\E i \in sent : x.b.slots[i].conn = k
    <3>1. wires[k] = x.w[k]
      BY <2>2
    <3>2. QED BY Zenon, <3>1 DEF Told
  <2>3. QED BY <2>1, <2>2
<1> HIDE DEF wires
<1>5. \A i \in Slots : SameHalf(x.b.slots[i], y.b.slots[i])
  BY <1>2 DEF CalmWorld, SameTables, Quiet, SameSlot, SameHalf
<1>6. DOMAIN y.w = DOMAIN x.w
  BY <1>2 DEF CalmWorld
<1>7. /\ Hush(x, y, M)
      /\ \A n, k : k \in DOMAIN x.w /\ NoCopy(x.w[k].down, n) => OneCopy(y.w[k].down, n)
  BY <1>3, <1>4, <1>5, <1>6, DownHush
<1>8. Based(y)
  BY <1>2, CalmBased
<1>9. QED BY <1>3, <1>7, <1>8 DEF y

LEMMA PublishMessageHush ==
  ASSUME NEW x, Based(x), NEW m, NEW q, NEW r
  PROVE  LET y == PublishMessage(x, m, q, r) IN
         /\ Hush(x, y, {m}) /\ Based(y) /\ (m \in Messages => y.log.fwd[m] = x.log.fwd[m] + 1)
         /\ \A n, k : k \in DOMAIN x.w /\ NoCopy(x.w[k].down, n) => OneCopy(y.w[k].down, n)
<1> DEFINE kept == CASE r = "no" -> x.b.retained
                     [] r = "store" -> {[m |-> m, qos |-> q]}
                     [] r = "clear" -> {}
           y == [x EXCEPT !.b.retained = kept]
           u == [y EXCEPT !.log.fwd[m] = @ + 1]
           z == IF m = Will THEN y ELSE u
           to == [i \in Recipients(x) |-> Lower(q, Max(x.b.subs[x.b.slots[i].id]))]
           v == SendPublishTo(z, to, m, "no")
<1> HIDE DEF kept
<1>1. Plain(x, y) /\ Quiet(x, y) /\ Based(y) /\ y.w = x.w /\ y.log = x.log
  <2>1. Plain(x, y) /\ Quiet(x, y)
    BY SessionPlain, SessionQuiet DEF Based
  <2>2. y.w = x.w /\ y.log = x.log
    BY DEF Based, IsWorld
  <2> HIDE DEF y
  <2>3. QED BY <2>1, <2>2, PlainMild DEF Mild
<1> HIDE DEF y
<1>2. /\ IsWorld(u) /\ u.w = y.w /\ u.b = y.b /\ u.log.fwd = [y.log.fwd EXCEPT ![m] = @ + 1]
      /\ Based(u)
  <2>1. IsWorld(u)
    BY <1>1, SessionQuiet DEF Quiet
  <2>2. u.w = y.w /\ u.b = y.b /\ u.log.fwd = [y.log.fwd EXCEPT ![m] = @ + 1]
    BY <1>1 DEF Based, IsWorld
  <2> HIDE DEF u
  <2>3. u.log.fwd \in [Messages -> Nat]
    <3> DEFINE f == y.log.fwd
    <3>1. f \in [Messages -> Nat]
      BY <1>1 DEF Based
    <3> HIDE DEF f
    <3> DEFINE g == [f EXCEPT ![m] = @ + 1]
    <3>2. g = [n \in Messages |-> IF n = m THEN f[n] + 1 ELSE f[n]]
      BY <3>1
    <3> HIDE DEF g
    <3>4. g \in [Messages -> Nat]
      BY <3>1, <3>2
    <3>3. QED BY <2>2, <3>4 DEF f, g
  <2>4. QED BY <1>1, <2>1, <2>2, <2>3 DEF Based, Open, OneSlot
<1>3. m \in Messages => u.log.fwd[m] = x.log.fwd[m] + 1
  BY <1>1, <1>2 DEF Based
<1>4. \A n \in Messages \ {m} : u.log.fwd[n] = x.log.fwd[n]
  BY <1>1, <1>2 DEF Based
<1> HIDE DEF u
<1>5. /\ Based(z) /\ z.w = x.w /\ z.b = y.b
      /\ (m \in Messages => z.log.fwd[m] = x.log.fwd[m] + 1)
      /\ \A n \in Messages \ {m} : z.log.fwd[n] = x.log.fwd[n]
  <2>1. m \in Messages => m # Will
    BY DEF Messages, Will
  <2>2. QED BY <1>1, <1>2, <1>3, <1>4, <2>1
<1> HIDE DEF z
<1>6. Hush(x, z, {m})
  <2>1. \A k \in DOMAIN x.w : Told(x.w[k], z.w[k], {m})
    BY <1>5 DEF Told
  <2>2. \A i \in Slots : SameHalf(x.b.slots[i], z.b.slots[i])
    BY <1>1, <1>5 DEF Plain, SameTables, Quiet, SameSlot, SameHalf
  <2>3. QED BY <1>5, <2>1, <2>2, DownHush
<1>7. PublishMessage(x, m, q, r) = v
  BY DEF PublishMessage, kept, y, u, z
<1>8. DOMAIN to \subseteq Slots
  BY DEF Recipients
<1> HIDE DEF to
<1>9. /\ Hush(z, v, {m}) /\ Based(v) /\ v.log = z.log
      /\ \A n, k : k \in DOMAIN z.w /\ NoCopy(z.w[k].down, n) => OneCopy(v.w[k].down, n)
  BY <1>5, <1>8, SendPublishToHush
<1> HIDE DEF v
<1>10. Hush(x, v, {m})
  <2>1. {m} \cup {m} = {m}
    OBVIOUS
  <2>2. QED BY <1>6, <1>9, <2>1, HushTrans
<1>11. QED BY <1>5, <1>7, <1>9, <1>10
-----------------------------------------------------------------------------
(* Steps that only let go. *)
LEMMA PlainBased ==
  ASSUME NEW x, NEW y, Based(x), Plain(x, y)
  PROVE  Based(y)
BY PlainMild DEF Mild

LEMMA CloseStateHush ==
  ASSUME NEW x, Based(x), NEW i \in Slots
  PROVE  Hush(x, CloseState(x, i), {}) /\ Based(CloseState(x, i))
<1>1. Plain(x, CloseState(x, i)) /\ Quiet(x, CloseState(x, i))
  BY CloseStatePlain, CloseStateQuiet DEF Based
<1>2. QED BY <1>1, QuietHush, PlainBased

LEMMA PublishWillHush ==
  ASSUME NEW x, Based(x), NEW i \in Slots, x.b.slots[i].conn # 0
  PROVE  Hush(x, PublishWill(x, i), {Will}) /\ Based(PublishWill(x, i))
<1> DEFINE s == x.b.slots[i]
           k == s.conn
           z == PublishMessage(x, Will, 0, "no")
           y == [z EXCEPT !.log.wills[k] = @ + 1]
<1>1. PublishWill(x, i) = IF s.opts.will /\ s.will THEN y ELSE x
  BY DEF PublishWill
<1>2. Hush(x, z, {Will}) /\ Based(z) /\ k \in Connections
  <2>1. Hush(x, z, {Will}) /\ Based(z)
    BY PublishMessageHush
  <2>2. k \in DOMAIN x.w /\ IsWorld(x)
    BY DEF Based, Open
  <2>3. QED BY <2>1, <2>2, WireDomain
<1> HIDE DEF z
<1>3. /\ IsWorld(y) /\ y.w = z.w /\ y.b = z.b /\ y.log.fwd = z.log.fwd
  BY <1>2 DEF Based, IsWorld
<1> HIDE DEF y
<1>4. Plain(z, y)
  BY <1>3 DEF Plain, SameTables
<1>5. Hush(z, y, {}) /\ Based(y)
  BY <1>2, <1>3, <1>4, PlainHush, PlainBased
<1>6. Hush(x, y, {Will})
  BY <1>2, <1>5, HushChain
<1>7. Hush(x, x, {Will})
  BY HushRefl, HushTrans, HushChain DEF Hush, Tends, Tender
<1>8. QED BY <1>1, <1>5, <1>6, <1>7

(* Connections lose packets, slots are given up. *)
LEMMA LessHush ==
  ASSUME NEW x, NEW y, Based(x), DOMAIN y.w = DOMAIN x.w, y.log.fwd = x.log.fwd,
         \A k \in DOMAIN x.w : Shrunk(x.w[k], y.w[k]) /\ (y.w[k].broker = "backlog" => x.w[k].broker = "backlog")
                               /\ \A m : OneCopy(x.w[k].down, m) => OneCopy(y.w[k].down, m),
         \A i \in Slots : Live(y.b.slots[i]) => y.b.slots[i] = x.b.slots[i]
  PROVE  Hush(x, y, {})
<1>1. ASSUME NEW k \in DOMAIN x.w
      PROVE  /\ Tender(x.w[k].down, y.w[k].down, {})
             /\ Connacked(y.w[k].down) => Connacked(x.w[k].down)
  BY DEF Shrunk, Thinner, NoCopy, Tender, Connacked
<1>2. ASSUME NEW i \in Slots PROVE Calmer(x, y, i)
  <2>1. Live(y.b.slots[i]) => x.b.slots[i].conn \in DOMAIN x.w
    BY DEF Based, Open, Live
  <2>2. QED BY <1>1, <2>1 DEF Calmer
<1>3. Tends(x, y, {})
  BY <1>1 DEF Tends
<1>4. QED BY <1>2, <1>3 DEF Hush, Shrunk

LEMMA HungUpHush ==
  ASSUME NEW x, Based(x), NEW i \in Slots, x.b.slots[i].conn # 0
  PROVE  Hush(x, HungUp(x, i), {})
<1> DEFINE k == x.b.slots[i].conn
           y == HungUp(x, i)
           u == [x.w[k] EXCEPT !.broker = "closed", !.up = <<>>]
<1>1. k \in DOMAIN x.w /\ IsConn(x.w[k])
  BY DEF Based, Open
<1>2. IsHungUp(x, i, y)
  BY <1>1, HungUpIs DEF Based
<1>3. y.w = Update(x.w, k, u)
  BY DEF HungUp, BrokerHangsUp, Based, IsWorld
<1> HIDE DEF y
<1>4. /\ y.log = x.log /\ y.b.slots[i].conn = 0
      /\ \A j \in Slots \ {i} : y.b.slots[j] = x.b.slots[j]
      /\ DOMAIN y.w = DOMAIN x.w
      /\ \A n \in DOMAIN x.w : y.w[n] = IF n = k THEN u ELSE x.w[n]
  BY ZenonT(30), <1>2, <1>3 DEF IsHungUp, Update
<1>5. Shrunk(x.w[k], u) /\ u.broker = "closed" /\ u.down = x.w[k].down
  <2>1. u.up = <<>> /\ u.down = x.w[k].down /\ u.broker = "closed"
      /\ {"up", "down", "client", "broker", "cut"} \subseteq DOMAIN u
    BY ZenonT(30), <1>1 DEF IsConn
  <2> HIDE DEF u
  <2>2. Thinner(x.w[k].up, u.up) /\ Thinner(x.w[k].down, u.down)
    BY Zenon, <1>1, <2>1, Thins DEF IsConn
  <2>3. QED BY ZenonT(30), <1>1, <2>1, <2>2 DEF Shrunk, IsConn, Thinner
<1> HIDE DEF u
<1>6. \A n \in DOMAIN x.w : Shrunk(x.w[n], x.w[n])
  BY ConnRefl DEF Based
<1>7. \A j \in Slots : Live(y.b.slots[j]) => y.b.slots[j] = x.b.slots[j]
  BY <1>4 DEF Live
<1>8. ASSUME NEW n \in DOMAIN x.w
      PROVE  /\ Shrunk(x.w[n], y.w[n]) /\ (y.w[n].broker = "backlog" => x.w[n].broker = "backlog")
             /\ \A m : OneCopy(x.w[n].down, m) => OneCopy(y.w[n].down, m)
  <2>1. CASE n = k
    BY Zenon, <1>4, <1>5, <2>1
  <2>2. CASE n # k
    BY <1>4, <1>6, <2>2
  <2>3. QED BY <2>1, <2>2
<1>9. Hush(x, y, {})
  BY <1>4, <1>7, <1>8, LessHush
<1>10. QED BY <1>9 DEF y

LEMMA ReadHush ==
  ASSUME NEW x, Based(x), NEW k \in DOMAIN x.w, x.w[k].up # <<>>
  PROVE  Hush(x, Read(x, k), {})
<1> DEFINE y == Read(x, k)
           u == UpRest(x.w[k])
<1>1. /\ y.b = x.b /\ y.log = x.log /\ DOMAIN y.w = DOMAIN x.w
      /\ \A n \in DOMAIN x.w : y.w[n] = IF n = k THEN u ELSE x.w[n]
  BY ReceiveUpIs
<1>2. IsConn(x.w[k])
  BY DEF Based
<1>3. Shrunk(x.w[k], u) /\ u.broker = x.w[k].broker /\ u.down = x.w[k].down
  BY <1>2, UpRestIs DEF SameSides
<1> HIDE DEF y, u
<1>4. \A n \in DOMAIN x.w : Shrunk(x.w[n], x.w[n])
  BY ConnRefl DEF Based
<1>5. ASSUME NEW n \in DOMAIN x.w
      PROVE  /\ Shrunk(x.w[n], y.w[n]) /\ (y.w[n].broker = "backlog" => x.w[n].broker = "backlog")
             /\ \A m : OneCopy(x.w[n].down, m) => OneCopy(y.w[n].down, m)
  <2>1. CASE n = k
    BY <1>1, <1>3, <2>1
  <2>2. CASE n # k
    BY <1>1, <1>4, <2>2
  <2>3. QED BY <2>1, <2>2
<1>6. Hush(x, y, {})
  BY <1>1, <1>5, LessHush
<1>7. QED BY <1>6 DEF y
-----------------------------------------------------------------------------
(* Handlers that admit nobody and accept no message *)
LEMMA AckHush ==
  ASSUME NEW x, Based(x), NEW i \in Slots, NEW p, NEW expected
  PROVE  LET y == HandleClientAck(x, i, p, expected) IN Hush(x, y, {}) /\ Based(y)
<1> DEFINE mine == {e \in x.b.slots[i].out : e.id = p.id /\ e.state = expected}
           next == {[e EXCEPT !.state = "await_pubcomp"] : e \in mine}
           y == [x EXCEPT !.b.slots[i].out = (@ \ mine) \cup next]
           z == [x EXCEPT !.b.slots[i].out = @ \ mine,
                          !.log.settled = @ \cup {e.m : e \in {f \in mine : f.retain # "copy"}}]
           u == HandleClientAck(x, i, p, expected)
<1> SUFFICES Hush(x, u, {}) /\ Based(u)
  OBVIOUS
<1>1. Plain(x, y) /\ Plain(x, z) /\ Quiet(x, y) /\ Quiet(x, z)
  BY Zenon, SlotPlain, TablesQuiet DEF Based
<1>2. u \in {Reject(x, i), Send(y, i, IdPacket("pubrel", p.id)), z}
  BY DEF HandleClientAck
<1>5. Mild(x, u)
  BY AckMild
<1> HIDE DEF y, z, u
<1>3. Hush(x, y, {}) /\ Hush(x, z, {}) /\ Hush(x, Reject(x, i), {}) /\ Based(y)
  BY <1>1, QuietHush, ClosingHush, PlainBased
<1>4. Hush(x, Send(y, i, IdPacket("pubrel", p.id)), {})
  <2>1. Hush(y, Send(y, i, IdPacket("pubrel", p.id)), {})
    BY <1>3, IdPacketHush
  <2>2. QED BY <1>3, <2>1, HushChain
<1>6. QED BY <1>2, <1>3, <1>4, <1>5 DEF Mild

LEMMA SubscribeHush ==
  ASSUME NEW x, Based(x), NEW i \in Slots, NEW p
  PROVE  /\ Hush(x, HandleSubscribe(x, i, p), {}) /\ Based(HandleSubscribe(x, i, p))
         /\ Hush(x, HandleUnsubscribe(x, i, p), {}) /\ Based(HandleUnsubscribe(x, i, p))
<1> DEFINE id == x.b.slots[i].id
           s == [x EXCEPT !.b.subs[id] = {p.qos}]
           u == [x EXCEPT !.b.subs[id] = {}]
           y == Send(s, i, IdPacket("suback", p.id))
           n == Send(u, i, IdPacket("unsuback", p.id))
           r == CHOOSE e \in x.b.retained : TRUE
           to == [j \in {i} |-> Lower(r.qos, p.qos)]
           z == SendPublishTo(y, to, r.m, "copy")
<1>1. Plain(x, s) /\ Plain(x, u) /\ Quiet(x, s) /\ Quiet(x, u)
  BY SessionPlain, SessionQuiet DEF Based
<1>2. HandleSubscribe(x, i, p) = IF x.b.retained = {} THEN y ELSE z
  BY DEF HandleSubscribe
<1>3. HandleUnsubscribe(x, i, p) = n
  BY DEF HandleUnsubscribe
<1>4. DOMAIN to \subseteq Slots
  OBVIOUS
<1> HIDE DEF s, u
<1>5. Hush(x, s, {}) /\ Hush(x, u, {}) /\ Based(s) /\ Based(u)
  BY <1>1, QuietHush, PlainBased
<1>6. Hush(s, y, {}) /\ Hush(u, n, {})
  BY Zenon, <1>5, IdPacketHush
<1>7. Based(y) /\ Based(n)
  <2>1. IdPacket("suback", p.id).type \notin DownA /\ IdPacket("unsuback", p.id).type \notin DownA
    BY IdPacketIs DEF DownA
  <2>2. QED BY ZenonT(30), <1>5, <2>1, SendMild DEF Mild
<1> HIDE DEF y, n, to, r
<1>8. Hush(y, z, {}) /\ Based(z)
  BY <1>4, <1>7, SendPublishToHush
<1> HIDE DEF z
<1>9. Hush(x, y, {}) /\ Hush(x, n, {})
  BY <1>5, <1>6, HushChain
<1>10. Hush(x, z, {})
  BY <1>8, <1>9, HushChain
<1>11. QED BY <1>2, <1>3, <1>7, <1>8, <1>9, <1>10

LEMMA DisconnectHush ==
  ASSUME NEW x, Based(x), NEW i \in Slots
  PROVE  Hush(x, HandleDisconnect(x, i), {}) /\ Based(HandleDisconnect(x, i))
<1> DEFINE y == Closing(x, i)
           k == x.b.slots[i].conn
           z == Left(y, i, k)
<1>1. HandleDisconnect(x, i) = z
  BY DEF HandleDisconnect, Left
<1>2. Hush(x, y, {}) /\ Based(y) /\ y.b.slots[i].closing = TRUE
  BY ClosingHush, ClosingPlain DEF Based
<1> HIDE DEF y
<1>3. Plain(y, z) /\ IsLeft(y, i, k, z)
  BY <1>2, WillFieldPlain, LeftIs DEF Based
<1> HIDE DEF z
<1>4. \A j \in Slots : ~z.b.slots[j].closing =>
            z.b.slots[j].id = y.b.slots[j].id /\ z.b.slots[j].level = y.b.slots[j].level
  BY <1>2, <1>3 DEF IsLeft
<1>5. Hush(y, z, {}) /\ Based(z)
  BY <1>2, <1>3, <1>4, PlainHush, PlainBased
<1>6. QED BY <1>1, <1>2, <1>5, HushChain

LEMMA PingHush ==
  ASSUME NEW x, Based(x), NEW i \in Slots
  PROVE  LET y == Send(x, i, [type |-> "pingresp"]) IN Hush(x, y, {}) /\ Based(y)
<1> DEFINE p == [type |-> "pingresp"]
<1>1. p.type = "pingresp"
  OBVIOUS
<1> HIDE DEF p
<1>2. p.type # "connack" /\ p.type \notin DownA /\ \A m \in Messages : ~IsCopy(p, m)
  BY <1>1 DEF IsCopy, IsPub, DownA
<1>3. Hush(x, Send(x, i, p), {}) /\ Based(Send(x, i, p))
  BY <1>2, SendHush, SendMild DEF Mild
<1>4. QED BY <1>3 DEF p

(* The keep-alive time of a slot passes, or its connection has ended. *)
LEMMA ExpiredHush ==
  ASSUME NEW x, Based(x), NEW i \in Slots
  PROVE  Hush(x, Expired(x, i), {}) /\ Based(Expired(x, i)) /\ Expired(x, i).b.slots[i].conn = x.b.slots[i].conn
<1> DEFINE y == Closing(x, i)
           z == [y EXCEPT !.b.slots[i].will = TRUE]
<1>1. Expired(x, i) = z
  BY DEF Expired
<1>2. Hush(x, y, {}) /\ Based(y) /\ y.b.slots[i].closing = TRUE /\ Plain(x, y)
  BY ClosingHush, ClosingPlain DEF Based
<1> HIDE DEF y
<1>3. Plain(y, z)
  BY <1>2, WillFieldPlain DEF Based
<1>4. \A j \in Slots : z.b.slots[j].id = y.b.slots[j].id /\ z.b.slots[j].level = y.b.slots[j].level
  BY <1>2 DEF Based, IsWorld, IsSlot
<1> HIDE DEF z
<1>5. Hush(y, z, {}) /\ Based(z)
  BY <1>2, <1>3, <1>4, PlainHush, PlainBased
<1>6. z.b.slots[i].conn = x.b.slots[i].conn
  BY <1>2, <1>3 DEF Plain, SameTables
<1>7. QED BY <1>1, <1>2, <1>5, <1>6, HushChain
-----------------------------------------------------------------------------
(* The invariant, with the frame that the lemmas need. *)
Once(x, cl, a) ==
    Based(x) /\ Dialler(cl, x) /\ a.sent \in Nat /\ UpInv(x, cl, a) /\ DownInv(x, cl, a)

LEMMA HushOnce ==
  ASSUME NEW x, NEW y, NEW M, NEW cl, NEW a, Once(x, cl, a), Hush(x, y, M), Based(y),
         \A m \in M \cap Messages : m <= a.sent /\ (Two(m, a) => Spent(y, cl, m) /\ Starts(x, y, m))
  PROVE  Once(y, cl, a)
<1>1. UpInv(y, cl, a)
  BY HushUp DEF Once
<1>2. DownInv(y, cl, a)
  BY TendsDown DEF Once, Hush
<1>3. Dialler(cl, y)
  BY DEF Once, Dialler, Hush, Tends
<1>4. QED BY <1>1, <1>2, <1>3 DEF Once

LEMMA LetGo ==
  ASSUME NEW x, NEW y, NEW M, NEW cl, NEW a, Once(x, cl, a), Hush(x, y, M), Based(y), M \cap Messages = {}
  PROVE  Once(y, cl, a)
BY HushOnce

(* What is known of a packet that was taken off the connection of slot i. *)
PublishHand(x, cl, a, i, p) ==
    LET t == x.b.slots[i]
        v == x.w[t.conn]
    IN  /\ PubOK(p, a)
        /\ p.qos = 2 =>
             /\ x.log.fwd[p.m] = 0 /\ NoTok(v.up, UpA, p.id) /\ ~Comes(v, p.m)
             /\ \A e \in t.inc : e.m # p.m
             /\ \A j \in Slots : ~Carries(x, j, p.m)
             /\ \A c \in Clients : Entry(cl[c], p.m) => t.id = c

Hand(x, cl, a, i, p) ==
    /\ IsPub(p) => PublishHand(x, cl, a, i, p)
    /\ p.type = "pubrel" => \A e \in x.b.slots[i].inc : e.id = p.id => \A c \in Clients : ~Wants(cl[c], e.m)
    /\ p.type = "connect" => \A c \in Clients : cl[c].conn = x.b.slots[i].conn => p.id = c

LEMMA HeadIs ==
  ASSUME NEW v, IsConn(v), v.up # <<>>
  PROVE  LET p == Head(v.up) IN
         /\ p \in ToSet(v.up) /\ ToSet(UpRest(v).up) \subseteq ToSet(v.up)
         /\ \A K, id : OneTok(v.up, K, id) /\ Tok(p, K, id) => NoTok(UpRest(v).up, K, id)
<1>1. UpRest(v).up = Tail(v.up)
  BY UpRestIs
<1>2. IsSeq(v.up)
  BY DEF IsConn
<1>3. QED BY <1>1, <1>2, SetOfTail, TokTail

LEMMA PublishInHand ==
  ASSUME NEW x, NEW cl, NEW a, Once(x, cl, a), NEW i \in Slots, Live(x.b.slots[i]),
         NEW k, k = x.b.slots[i].conn, x.w[k].up # <<>>, NEW p, p = Head(x.w[k].up), IsPub(p),
         NEW y, y = Read(x, k)
  PROVE  PublishHand(y, cl, a, i, p)
<1> DEFINE v == x.w[k]
           u == y.w[k]
           t == x.b.slots[i]
           m == p.m
<1>1. Based(x) /\ UpInv(x, cl, a) /\ k \in DOMAIN x.w /\ IsConn(v)
  BY ZenonT(30) DEF Once, Based, Open, Live
<1>2. y.b = x.b /\ y.log = x.log /\ u = UpRest(v)
  BY ZenonT(30), <1>1, ReceiveUpIs
<1>3. /\ p \in ToSet(v.up) /\ ToSet(u.up) \subseteq ToSet(v.up)
      /\ \A K, id : OneTok(v.up, K, id) /\ Tok(p, K, id) => NoTok(u.up, K, id)
  BY ZenonT(30), <1>1, <1>2, HeadIs
<1>4. UpSound(v, a) /\ SlotSound(t, v, a)
  BY ZenonT(30), <1>1 DEF UpInv, Streams, Serves
<1>5. PubOK(p, a)
  BY ZenonT(30), <1>3, <1>4 DEF UpSound
<1>6. ASSUME p.qos = 2
      PROVE  /\ x.log.fwd[m] = 0 /\ NoTok(u.up, UpA, p.id) /\ ~Comes(u, m)
             /\ \A e \in t.inc : e.m # m
             /\ \A j \in Slots : ~Carries(y, j, m)
             /\ \A c \in Clients : Entry(cl[c], m) => t.id = c
  <2>1. Two(m, a) /\ m \in Messages /\ p.id \in Ids
    BY ZenonT(30), <1>5, <1>6 DEF PubOK, Known2, Two
  <2>2. OnePlace(x, cl, m)
    BY ZenonT(30), <1>1, <2>1 DEF UpInv
  <2>3. Comes(v, m)
    BY ZenonT(30), <1>3 DEF Comes
  <2>4. Carries(x, i, m)
    BY ZenonT(30), <2>3 DEF Carries
  <2>5. \A e \in t.inc : e.m # m
    BY ZenonT(30), <1>4, <2>3 DEF SlotSound
  <2>6. NoTok(u.up, UpA, p.id)
    BY ZenonT(30), <1>3, <1>4, <2>1 DEF UpSound, Tok, UpA, IsPub
  <2>7. ~Comes(u, m)
    <3>1. ASSUME NEW q \in ToSet(u.up), IsPub(q), q.m = m PROVE FALSE
      <4>1. q \in ToSet(v.up)
        BY Zenon, <1>3
      <4>2. q.id = p.id
        BY Zenon, <1>3, <1>4, <1>6, <3>1, <4>1 DEF UpSound
      <4>3. Tok(q, UpA, p.id)
        BY ZenonT(30), <3>1, <4>2 DEF Tok, UpA, IsPub
      <4>4. QED BY ZenonT(30), <2>6, <4>3 DEF NoTok
    <3>2. QED BY ZenonT(30), <3>1 DEF Comes
  <2>8. \A j \in Slots : ~Carries(y, j, m)
    <3>1. ASSUME NEW j \in Slots, Carries(y, j, m) PROVE FALSE
      <4>1. Hush(x, y, {})
        BY ZenonT(30), <1>1, ReadHush
      <4>2. Carries(x, j, m)
        BY ZenonT(30), <1>1, <3>1, <4>1, HushCarries DEF Carries
      <4>3. j = i
        BY ZenonT(30), <2>2, <2>4, <4>2 DEF OnePlace
      <4>4. ~Carries(y, i, m)
        BY ZenonT(30), <1>2, <2>5, <2>7 DEF Carries, Has
      <4>5. QED BY ZenonT(30), <3>1, <4>3, <4>4
    <3>2. QED BY ZenonT(30), <3>1
  <2>9. QED BY ZenonT(30), <2>2, <2>4, <2>5, <2>6, <2>7, <2>8 DEF OnePlace
<1>7. QED BY ZenonT(30), <1>2, <1>5, <1>6 DEF PublishHand

LEMMA InHand ==
  ASSUME NEW x, NEW cl, NEW a, Once(x, cl, a), NEW i \in Slots, Live(x.b.slots[i]),
         NEW k, k = x.b.slots[i].conn, x.w[k].up # <<>>, NEW p, p = Head(x.w[k].up), NEW y, y = Read(x, k)
  PROVE  y.b = x.b /\ Hand(y, cl, a, i, p) /\ (Based(y) => Once(y, cl, a))
<1>1. Based(x) /\ UpInv(x, cl, a) /\ k \in DOMAIN x.w /\ IsConn(x.w[k]) /\ k # 0
  BY DEF Once, Based, Open, Live
<1>2. y.b = x.b
  BY <1>1, ReceiveUpIs
<1>3. p \in ToSet(x.w[k].up)
  BY <1>1, HeadIs
<1>4. IsPub(p) => PublishHand(y, cl, a, i, p)
  BY ZenonT(30), PublishInHand
<1>5. p.type = "pubrel" => \A e \in x.b.slots[i].inc : e.id = p.id => \A c \in Clients : ~Wants(cl[c], e.m)
  BY ZenonT(30), <1>1, <1>3 DEF UpInv, Releases
<1>6. p.type = "connect" => \A c \in Clients : cl[c].conn = x.b.slots[i].conn => p.id = c
  BY Zenon, <1>1, <1>3 DEF UpInv, Greets
<1>7. Hush(x, y, {})
  BY <1>1, ReadHush
<1>8. Based(y) => Once(y, cl, a)
  BY <1>7, LetGo
<1>9. QED BY Zenon, <1>2, <1>4, <1>5, <1>6, <1>8 DEF Hand
-----------------------------------------------------------------------------
LEMMA WithIncIs ==
  ASSUME NEW x, Based(x), NEW i \in Slots, NEW inc
  PROVE  LET y == WithInc(x, i, inc) IN
         /\ Based(y) /\ y.w = x.w /\ y.log = x.log /\ y.b.slots[i].inc = inc
         /\ \A j \in Slots : /\ SameSlot(x.b.slots[j], y.b.slots[j])
                             /\ j # i => y.b.slots[j] = x.b.slots[j]
<1> DEFINE y == WithInc(x, i, inc)
<1>1. y = [x EXCEPT !.b.slots[i].inc = inc]
  BY DEF WithInc
<1>2. Quiet(x, y)
  <2> DEFINE z == [x EXCEPT !.b.slots[i].inc = inc]
  <2>1. Quiet(x, z)
    BY Zenon, TablesQuiet DEF Based
  <2>2. QED BY Zenon, <1>1, <2>1
<1>3. y.w = x.w /\ y.log = x.log
  BY <1>1 DEF Based, IsWorld
<1>4. y.b.slots[i].inc = inc /\ \A j \in Slots \ {i} : y.b.slots[j] = x.b.slots[j]
  BY <1>1 DEF Based, IsWorld, IsSlot
<1> HIDE DEF y
<1>5. Based(y)
  BY <1>2, <1>3 DEF Based, Quiet, SameSlot, Open, OneSlot
<1>6. QED BY <1>2, <1>3, <1>4, <1>5 DEF Quiet, y

LEMMA DropHush ==
  ASSUME NEW x, Based(x), NEW i \in Slots, NEW inc, inc \subseteq x.b.slots[i].inc
  PROVE  Hush(x, WithInc(x, i, inc), {})
<1> DEFINE y == WithInc(x, i, inc)
<1>1. /\ y.w = x.w /\ y.log = x.log /\ y.b.slots[i].inc = inc
      /\ \A j \in Slots : /\ SameSlot(x.b.slots[j], y.b.slots[j])
                          /\ j # i => y.b.slots[j] = x.b.slots[j]
  BY WithIncIs
<1> HIDE DEF y
<1>2. \A j \in Slots : SameHalf(x.b.slots[j], y.b.slots[j])
  BY <1>1 DEF SameSlot, SameHalf
<1>3. \A k \in DOMAIN x.w : Told(x.w[k], y.w[k], {})
  BY <1>1 DEF Told
<1>4. Hush(x, y, {})
  BY <1>1, <1>2, <1>3, DownHush
<1>5. QED BY <1>4 DEF y

(* The broker accepts a message of QoS 2. *)
LEMMA StoreSlot ==
  ASSUME NEW t, NEW v, NEW a, SlotSound(t, v, a), NEW e, \A f \in t.inc : f.id # e.id /\ f.m # e.m,
         Known2(e.m, a), a.plan.pubs[e.m].qos = 2, ~Comes(v, e.m),
         NEW u, u.inc = t.inc \cup {e}, u.level = TRUE
  PROVE  SlotSound(u, v, a)
<1>1. \A f \in u.inc : f = e \/ f \in t.inc
  OBVIOUS
<1>2. \A f, g \in u.inc : f.id = g.id \/ f.m = g.m => f = g
  BY <1>1 DEF SlotSound
<1>3. \A f \in u.inc : Known2(f.m, a) /\ a.plan.pubs[f.m].qos = 2 /\ ~Comes(v, f.m)
  BY <1>1 DEF SlotSound
<1>4. QED BY <1>2, <1>3 DEF SlotSound

LEMMA SamePlace ==
  ASSUME NEW x, NEW y, NEW cl, NEW m, OnePlace(x, cl, m), y.log.fwd[m] = x.log.fwd[m],
         \A i \in Slots : Carries(y, i, m) => Carries(x, i, m) /\ y.b.slots[i].id = x.b.slots[i].id
  PROVE  OnePlace(y, cl, m)
BY DEF OnePlace

(* From world x to y only the table of slot i has grown, by entry e. *)
Stored(x, y, i, e) ==
    /\ Based(y) /\ y.w = x.w /\ y.log = x.log /\ y.b.slots[i].inc = x.b.slots[i].inc \cup {e}
    /\ \A j \in Slots : LET s == x.b.slots[j]
                             t == y.b.slots[j]
                         IN  /\ t.conn = s.conn /\ t.id = s.id /\ t.level = s.level /\ t.closing = s.closing
                             /\ j # i => t.inc = s.inc

LEMMA StoredIs ==
  ASSUME NEW x, Based(x), NEW i \in Slots, NEW e
  PROVE  Stored(x, WithInc(x, i, x.b.slots[i].inc \cup {e}), i, e)
<1> DEFINE inc == x.b.slots[i].inc \cup {e}
           y == WithInc(x, i, inc)
<1> HIDE DEF inc
<1>1. /\ Based(y) /\ y.w = x.w /\ y.log = x.log /\ y.b.slots[i].inc = inc
      /\ \A j \in Slots : /\ SameSlot(x.b.slots[j], y.b.slots[j])
                          /\ j # i => y.b.slots[j] = x.b.slots[j]
  BY WithIncIs
<1> HIDE DEF y
<1>2. Stored(x, y, i, e)
  BY <1>1 DEF Stored, SameSlot, inc
<1>3. QED BY <1>2 DEF y, inc

LEMMA StoredCarries ==
  ASSUME NEW x, NEW y, NEW i \in Slots, NEW e, Stored(x, y, i, e), NEW j \in Slots, NEW n, Carries(y, j, n)
  PROVE  Carries(x, j, n) \/ (j = i /\ n = e.m)
<1> DEFINE s == x.b.slots[j]
           t == y.b.slots[j]
<1>1. t.conn = s.conn /\ t.closing = s.closing /\ (j # i => t.inc = s.inc) /\ y.w = x.w
      /\ (j = i => t.inc = s.inc \cup {e})
  BY DEF Stored
<1>2. Live(t) /\ (Has(t, n) \/ Comes(y.w[t.conn], n))
  BY DEF Carries
<1> HIDE DEF s, t
<1>3. Live(s)
  BY <1>1, <1>2 DEF Live
<1>4. Has(t, n) => Has(s, n) \/ (j = i /\ n = e.m)
  BY <1>1 DEF Has
<1>5. (Has(s, n) \/ Comes(x.w[s.conn], n)) \/ (j = i /\ n = e.m)
  BY <1>1, <1>2, <1>4
<1>6. QED BY <1>3, <1>5 DEF Carries, s

LEMMA StoreUp ==
  ASSUME NEW x, NEW cl, NEW a, Once(x, cl, a), NEW i \in Slots, Live(x.b.slots[i]), x.b.slots[i].level = TRUE,
         NEW p, IsPub(p), PublishHand(x, cl, a, i, p), p.qos = 2, \A f \in x.b.slots[i].inc : f.id # p.id,
         NEW e, e.id = p.id, e.m = p.m, NEW y, Stored(x, y, i, e)
  PROVE  Once(y, cl, a)
<1> DEFINE t == x.b.slots[i]
           k == t.conn
           v == x.w[k]
           m == p.m
<1>1. Based(x) /\ UpInv(x, cl, a) /\ DownInv(x, cl, a) /\ Dialler(cl, x) /\ a.sent \in Nat
  BY DEF Once
<1>2. Streams(x, a) /\ Serves(x, a) /\ OneSession(x) /\ Unsent(x, a) /\ Distinct(cl)
      /\ Releases(x, cl) /\ Greets(x, cl)
  BY <1>1 DEF UpInv
<1>3. /\ x.log.fwd[m] = 0 /\ NoTok(v.up, UpA, p.id) /\ ~Comes(v, m)
      /\ \A f \in t.inc : f.m # m
      /\ \A j \in Slots : ~Carries(x, j, m)
      /\ \A c \in Clients : Entry(cl[c], m) => t.id = c
      /\ Known2(m, a) /\ a.plan.pubs[m].qos = 2
  BY DEF PublishHand, PubOK
<1>4. /\ Based(y) /\ y.w = x.w /\ y.log = x.log /\ y.b.slots[i].inc = t.inc \cup {e}
      /\ \A j \in Slots : /\ y.b.slots[j].conn = x.b.slots[j].conn /\ y.b.slots[j].id = x.b.slots[j].id
                          /\ y.b.slots[j].level = x.b.slots[j].level
                          /\ Live(y.b.slots[j]) = Live(x.b.slots[j])
                          /\ j # i => y.b.slots[j].inc = x.b.slots[j].inc
  BY DEF Stored, Live
<1>5. Serves(y, a)
  <2>1. ASSUME NEW j \in Slots, Live(y.b.slots[j]), j # i PROVE SlotSound(y.b.slots[j], y.w[y.b.slots[j].conn], a)
    <3>1. SlotSound(x.b.slots[j], x.w[x.b.slots[j].conn], a)
      BY <1>2, <1>4, <2>1 DEF Serves
    <3>2. QED BY <1>4, <2>1, <3>1 DEF SlotSound
  <2>2. SlotSound(t, v, a)
    BY <1>2 DEF Serves
  <2>3. SlotSound(y.b.slots[i], v, a)
    <3> DEFINE u == y.b.slots[i]
    <3>1. u.inc = t.inc \cup {e} /\ u.level = TRUE
      BY <1>4
    <3>2. \A f \in t.inc : f.id # e.id /\ f.m # e.m
      BY <1>3
    <3>3. Known2(e.m, a) /\ a.plan.pubs[e.m].qos = 2 /\ ~Comes(v, e.m)
      BY <1>3
    <3> HIDE DEF u, t, v
    <3>4. SlotSound(u, v, a)
      BY <2>2, <3>1, <3>2, <3>3, StoreSlot
    <3>5. QED BY <3>4 DEF u
  <2>4. QED BY <1>4, <2>1, <2>3 DEF Serves
<1>6. ASSUME NEW n \in Messages, Two(n, a) PROVE OnePlace(y, cl, n)
  <2>1. OnePlace(x, cl, n)
    BY <1>1, <1>6 DEF UpInv
  <2>2. CASE n = m
    <3>1. \A j \in Slots : Carries(y, j, n) => j = i
      BY <1>3, <2>2, StoredCarries
    <3>2. y.log.fwd[n] = 0 /\ \A c \in Clients : Entry(cl[c], n) => y.b.slots[i].id = c
      BY <1>3, <1>4, <2>2
    <3>3. QED BY <3>1, <3>2 DEF OnePlace
  <2>3. CASE n # m
    <3>1. \A j \in Slots : Carries(y, j, n) => Carries(x, j, n) /\ y.b.slots[j].id = x.b.slots[j].id
      BY <1>4, <2>3, StoredCarries
    <3>2. QED BY <1>4, <2>1, <3>1, SamePlace
  <2>4. QED BY <2>2, <2>3
<1>7. Releases(y, cl)
  <2>1. ASSUME NEW j \in Slots, Live(y.b.slots[j]), NEW f \in y.b.slots[j].inc,
               NEW q \in ToSet(y.w[y.b.slots[j].conn].up), q.type = "pubrel", q.id = f.id
        PROVE  \A c \in Clients : ~Wants(cl[c], f.m)
    <3>1. CASE f \in x.b.slots[j].inc
      BY <1>2, <1>4, <2>1, <3>1 DEF Releases
    <3>2. CASE f \notin x.b.slots[j].inc
      <4>1. j = i /\ f = e
        BY <1>4, <2>1, <3>2
      <4>2. q \in ToSet(v.up)
        BY <1>4, <2>1, <4>1
      <4>3. Tok(q, UpA, p.id)
        BY <2>1, <4>1 DEF Tok, UpA
      <4>4. QED BY <1>3, <4>2, <4>3 DEF NoTok
    <3>3. QED BY <3>1, <3>2
  <2>2. QED BY <2>1 DEF Releases
<1>8. Streams(y, a) /\ Unsent(y, a)
  BY <1>2, <1>4 DEF Streams, Unsent
<1>9. OneSession(y)
  BY <1>2, <1>4 DEF OneSession
<1>10. Greets(y, cl)
  <2>1. ASSUME NEW c \in Clients, cl[c].conn # 0, NEW j \in Slots, Live(y.b.slots[j]), y.b.slots[j].conn = cl[c].conn
        PROVE  Greeted(c, cl[c], y.w[cl[c].conn], y.b.slots[j])
    <3>1. Greeted(c, cl[c], x.w[cl[c].conn], x.b.slots[j])
      BY <1>2, <1>4, <2>1 DEF Greets
    <3>2. QED BY <1>4, <3>1 DEF Greeted
  <2>2. \A c \in Clients : cl[c].conn # 0 => \A q \in ToSet(y.w[cl[c].conn].up) : q.type = "connect" => q.id = c
    BY <1>2, <1>4 DEF Greets
  <2>3. QED BY <2>1, <2>2 DEF Greets
<1>11. UpInv(y, cl, a)
  BY <1>2, <1>5, <1>6, <1>7, <1>8, <1>9, <1>10 DEF UpInv
<1>12. DownInv(y, cl, a)
  BY <1>1, <1>4 DEF DownInv, DownOf
<1>13. Dialler(cl, y)
  BY <1>1, <1>4 DEF Dialler
<1>14. QED BY <1>1, <1>4, <1>11, <1>12, <1>13 DEF Once
-----------------------------------------------------------------------------
LEMMA SendBased ==
  ASSUME NEW x, Based(x), NEW i \in Slots, NEW p
  PROVE  Based(Send(x, i, p))
<1> DEFINE y == Send(x, i, p)
           k == x.b.slots[i].conn
<1>1. y.w = Update(x.w, k, WithDown(x.w[k], p)) /\ y.b = x.b /\ y.log = x.log
  BY DEF Send, SendDown, Based, IsWorld
<1>2. IsWorld(y)
  BY SendQuiet DEF Quiet, Based
<1> HIDE DEF y
<1>3. DOMAIN y.w = DOMAIN x.w /\ \A n \in DOMAIN x.w : y.w[n] = IF n = k THEN WithDown(x.w[k], p) ELSE x.w[n]
  BY <1>1 DEF Update
<1>4. \A n \in DOMAIN x.w : IsConn(y.w[n]) /\ y.w[n].broker = x.w[n].broker
  BY <1>3, WithDownIs DEF Based, SameSides
<1>5. Open(y) /\ OneSlot(y)
  <2>1. Open(x) /\ OneSlot(x)
    BY DEF Based
  <2>2. y.b = x.b /\ DOMAIN y.w = DOMAIN x.w
    BY <1>1, <1>3
  <2>3. Open(y)
    BY <1>4, <2>1, <2>2 DEF Open
  <2>4. OneSlot(y)
    BY <2>1, <2>2 DEF OneSlot
  <2>5. QED BY <2>3, <2>4
<1>6. x.log.fwd \in [Messages -> Nat]
  BY DEF Based
<1>7. Based(y)
  BY Zenon, <1>1, <1>2, <1>3, <1>4, <1>5, <1>6 DEF Based
<1>8. QED BY <1>7 DEF y

LEMMA IdPacketOnce ==
  ASSUME NEW x, NEW cl, NEW a, Once(x, cl, a), NEW i \in Slots, NEW t, t \notin {"publish", "connack"}, NEW id
  PROVE  Once(Send(x, i, IdPacket(t, id)), cl, a)
<1> DEFINE y == Send(x, i, IdPacket(t, id))
<1>1. Hush(x, y, {}) /\ Based(y)
  BY IdPacketHush, SendBased DEF Once
<1> HIDE DEF y
<1>2. Once(y, cl, a)
  BY <1>1, LetGo
<1>3. QED BY <1>2 DEF y

(* A message of QoS 0 or 1 is handed on. *)
LEMMA HandedOn ==
  ASSUME NEW x, NEW cl, NEW a, Once(x, cl, a), NEW p, IsPub(p), PubOK(p, a), p.qos # 2
  PROVE  Once(PublishMessage(x, p.m, p.qos, p.retain), cl, a)
<1> DEFINE y == PublishMessage(x, p.m, p.qos, p.retain)
<1>1. Hush(x, y, {p.m}) /\ Based(y)
  BY PublishMessageHush DEF Once
<1> HIDE DEF y
<1>2. p.m <= a.sent /\ ~Two(p.m, a)
  BY DEF PubOK, Known2, Two
<1>3. Once(y, cl, a)
  BY <1>1, <1>2, HushOnce
<1>4. QED BY <1>3 DEF y

LEMMA PublishOnce ==
  ASSUME NEW x, NEW cl, NEW a, Once(x, cl, a), NEW i \in Slots, Live(x.b.slots[i]), x.b.slots[i].level = TRUE,
         NEW p, IsPub(p), Hand(x, cl, a, i, p)
  PROVE  Once(BHandlePublish(x, i, p), cl, a)
<1> DEFINE s == x.b.slots[i]
           known == \E f \in s.inc : f.id = p.id
           e == [id |-> p.id, m |-> p.m, retain |-> p.retain]
           n == PublishMessage(x, p.m, p.qos, p.retain)
           inc == s.inc \cup {e}
           z == WithInc(x, i, inc)
           y == BHandlePublish(x, i, p)
<1> SUFFICES Once(y, cl, a)
  OBVIOUS
<1>1. PublishHand(x, cl, a, i, p) /\ PubOK(p, a)
  BY DEF Hand, PublishHand
<1>2. \/ p.qos # 2 /\ y = n
      \/ p.qos # 2 /\ y = Send(n, i, IdPacket("puback", p.id))
      \/ y = Send(x, i, IdPacket("pubrec", p.id))
      \/ p.qos = 2 /\ ~known /\ y = Send(z, i, IdPacket("pubrec", p.id))
      \/ y = Reject(x, i)
  BY DEF BHandlePublish, WithInc
<1>3. e.id = p.id /\ e.m = p.m
  OBVIOUS
<1>4. Stored(x, z, i, e)
  BY StoredIs DEF Once
<1> HIDE DEF y, z, e, n
<1>5. CASE p.qos # 2 /\ y \in {n, Send(n, i, IdPacket("puback", p.id))}
  <2>1. Once(n, cl, a)
    BY <1>1, <1>5, HandedOn DEF n
  <2>2. QED BY <1>5, <2>1, IdPacketOnce
<1>6. CASE y = Send(x, i, IdPacket("pubrec", p.id))
  BY <1>6, IdPacketOnce
<1>7. CASE p.qos = 2 /\ ~known /\ y = Send(z, i, IdPacket("pubrec", p.id))
  <2>1. \A f \in s.inc : f.id # p.id
    BY <1>7
  <2>2. Once(z, cl, a)
    BY <1>1, <1>3, <1>4, <1>7, <2>1, StoreUp
  <2>3. QED BY <1>7, <2>2, IdPacketOnce
<1>8. CASE y = Reject(x, i)
  <2>1. Based(x)
    BY DEF Once
  <2>2. Hush(x, y, {}) /\ Based(y)
    BY <1>8, <2>1, ClosingHush
  <2>3. QED BY <2>2, LetGo
<1>9. QED BY <1>2, <1>5, <1>6, <1>7, <1>8

(* The broker releases a message of QoS 2: from then on it is nowhere. *)
LEMMA PubrelOnce ==
  ASSUME NEW x, NEW cl, NEW a, Once(x, cl, a), NEW i \in Slots, Live(x.b.slots[i]),
         NEW p, p.type = "pubrel", Hand(x, cl, a, i, p)
  PROVE  Once(HandleClientPubrel(x, i, p), cl, a)
<1> DEFINE t == x.b.slots[i]
           v == x.w[t.conn]
           mine == {f \in t.inc : f.id = p.id}
           e == CHOOSE f \in mine : TRUE
           n == PublishMessage(x, e.m, 2, e.retain)
           y == IF mine = {} THEN x ELSE n
           rest == y.b.slots[i].inc \ mine
           z == WithInc(y, i, rest)
<1>1. HandleClientPubrel(x, i, p) = Send(z, i, IdPacket("pubcomp", p.id))
  BY DEF HandleClientPubrel, WithInc
<1>2. mine # {} => e \in mine
  OBVIOUS
<1> HIDE DEF e
<1> DEFINE em == e.m
           er == e.retain
<1>3. Based(x) /\ UpInv(x, cl, a)
  BY DEF Once
<1>12. n = PublishMessage(x, em, 2, er)
  OBVIOUS
<1> HIDE DEF em, er
<1>13. /\ Hush(x, PublishMessage(x, em, 2, er), {em}) /\ Based(PublishMessage(x, em, 2, er))
       /\ em \in Messages => PublishMessage(x, em, 2, er).log.fwd[em] = x.log.fwd[em] + 1
       /\ \A m2, k : k \in DOMAIN x.w
           /\ NoCopy(x.w[k].down, m2) => OneCopy(PublishMessage(x, em, 2, er).w[k].down, m2)
  BY <1>3, PublishMessageHush
<1> USE DEF em
<1> HIDE DEF n
<1>10. /\ Hush(x, n, {e.m}) /\ Based(n) /\ (e.m \in Messages => n.log.fwd[e.m] = x.log.fwd[e.m] + 1)
       /\ \A k \in DOMAIN x.w : NoCopy(x.w[k].down, e.m) => OneCopy(n.w[k].down, e.m)
  BY <1>12, <1>13
<1>4. Based(y)
  BY <1>3, <1>10
<1>5. mine # {} => y = n
  OBVIOUS
<1> HIDE DEF y
<1>6. rest \subseteq y.b.slots[i].inc
  OBVIOUS
<1>7. Hush(y, z, {}) /\ Based(z) /\ z.w = y.w /\ z.log = y.log /\ z.b.slots[i].inc = rest
  BY <1>4, <1>6, DropHush, WithIncIs
<1> HIDE DEF z
<1>8. CASE mine = {}
  <2>1. y = x
    BY <1>8 DEF y
  <2>2. Once(z, cl, a)
    BY <1>7, <2>1, LetGo
  <2>3. QED BY <1>1, <2>2, IdPacketOnce
<1>9. CASE mine # {}
  <2> DEFINE m == e.m
  <2>1. e \in t.inc /\ e.id = p.id
    BY <1>2, <1>9
  <2>2. SlotSound(t, v, a)
    BY <1>3 DEF UpInv, Serves
  <2>3. Two(m, a) /\ m \in Messages /\ m <= a.sent
    BY <2>1, <2>2 DEF SlotSound, Known2, Two
  <2>4. OnePlace(x, cl, m)
    BY <1>3, <2>3 DEF UpInv
  <2>5. Carries(x, i, m)
    BY <2>1 DEF Carries, Has
  <2>6. x.log.fwd[m] = 0 /\ \A j \in Slots : Carries(x, j, m) => j = i
    BY <2>4, <2>5 DEF OnePlace
  <2>7. Hush(x, z, {m})
    BY <1>5, <1>7, <1>9, <1>10, HushChain
  <2>8. ASSUME NEW j \in Slots, Carries(z, j, m) PROVE FALSE
    <3>1. /\ Live(z.b.slots[j]) /\ Carries(x, j, m)
          /\ ToSet(z.w[z.b.slots[j].conn].up) \subseteq ToSet(x.w[x.b.slots[j].conn].up)
          /\ z.b.slots[j].inc \subseteq x.b.slots[j].inc
      BY Zenon, <1>3, <2>7, <2>8, HushCarries DEF Carries
    <3>2. j = i
      BY <2>6, <3>1
    <3>3. ~Comes(z.w[z.b.slots[i].conn], m)
      BY <2>1, <2>2, <3>1, <3>2 DEF SlotSound, Comes
    <3>4. ~Has(z.b.slots[i], m)
      <4>1. ASSUME NEW f \in z.b.slots[i].inc, f.m = m PROVE FALSE
        <5>1. f \in t.inc /\ f \notin mine
          BY <1>7, <3>1, <3>2, <4>1
        <5>2. f = e
          BY <2>1, <2>2, <4>1, <5>1 DEF SlotSound
        <5>3. QED BY <2>1, <5>1, <5>2
      <4>2. QED BY <4>1 DEF Has
    <3>5. QED BY <2>8, <3>2, <3>3, <3>4 DEF Carries
  <2>9. \A c \in Clients : ~Wants(cl[c], m)
    BY <2>1 DEF Hand
  <2>10. z.log.fwd[m] = 1
    BY <1>5, <1>7, <1>9, <1>10, <2>3, <2>6
  <2>11. Spent(z, cl, m)
    BY <2>8, <2>9, <2>10 DEF Spent
  <2>12. Starts(x, z, m)
    BY <1>5, <1>7, <1>9, <1>10, <2>6, <2>10 DEF Starts
  <2> HIDE DEF m
  <2>13. \A h \in {m} \cap Messages : h <= a.sent /\ (Two(h, a) => Spent(z, cl, h) /\ Starts(x, z, h))
    BY <2>3, <2>11, <2>12
  <2>14. Once(z, cl, a)
    BY <1>7, <2>7, <2>13, HushOnce
  <2>15. QED BY <1>1, <2>14, IdPacketOnce
<1>11. QED BY <1>8, <1>9
-----------------------------------------------------------------------------
(* The steps of HandleConnect, slot by slot. *)
SameSession(s, t) == t.conn = s.conn /\ t.inc = s.inc /\ t.level = s.level /\ t.id = s.id /\ t.closing = s.closing

LEMMA QuietSession ==
  ASSUME NEW x, NEW y, Plain(x, y), Quiet(x, y)
  PROVE  \A j \in Slots : SameSession(x.b.slots[j], y.b.slots[j])
BY DEF Plain, Quiet, SameTables, SameSlot, SameSession

LEMMA LevelledSlots ==
  ASSUME NEW x, IsWorld(x), NEW i \in Slots
  PROVE  LET s == x.b.slots[i]
             t == Levelled(x, i).b.slots[i]
         IN  /\ \A j \in Slots : j # i => Levelled(x, i).b.slots[j] = x.b.slots[j]
             /\ t.level = TRUE /\ t.conn = s.conn /\ t.inc = s.inc /\ t.id = s.id /\ t.closing = s.closing
BY DEF Levelled, IsWorld, IsSlot

LEMMA TakenSlots ==
  ASSUME NEW x, IsWorld(x), NEW i \in Slots, NEW id
  PROVE  LET y == TakeOver(x, i, id) IN
         /\ y.b.slots[i] = x.b.slots[i]
         /\ \A j \in Slots : LET s == x.b.slots[j]
                                 t == y.b.slots[j]
                             IN  /\ t = s \/ t.closing = TRUE
                                 /\ j # i /\ s.conn # 0 /\ s.id = id => t.closing = TRUE
<1> DEFINE y == TakeOver(x, i, id)
           slots == [j \in Slots |-> IF j # i /\ x.b.slots[j].conn # 0 /\ x.b.slots[j].id = id
                                     THEN [x.b.slots[j] EXCEPT !.closing = TRUE, !.will = FALSE]
                                     ELSE x.b.slots[j]]
<1>1. y.b.slots = slots
  BY Zenon DEF TakeOver, IsWorld
<1>2. \A j \in Slots : [x.b.slots[j] EXCEPT !.closing = TRUE, !.will = FALSE].closing = TRUE
  BY DEF IsWorld, IsSlot
<1>3. slots[i] = x.b.slots[i]
  OBVIOUS
<1>4. ASSUME NEW j \in Slots
      PROVE  LET s == x.b.slots[j]
                 t == slots[j]
             IN  /\ t = s \/ t.closing = TRUE
                 /\ j # i /\ s.conn # 0 /\ s.id = id => t.closing = TRUE
  BY <1>2
<1> HIDE DEF y, slots
<1>5. QED BY <1>1, <1>3, <1>4 DEF y

LEMMA AdmittedSlots ==
  ASSUME NEW z, IsWorld(z), NEW i \in Slots, NEW id, NEW o, NEW k
  PROVE  LET s == z.b.slots[i]
             t == Admitted(z, i, id, o, k).b.slots[i]
         IN  /\ \A j \in Slots : j # i => Admitted(z, i, id, o, k).b.slots[j] = z.b.slots[j]
             /\ t.level = s.level /\ t.conn = s.conn /\ t.inc = s.inc /\ t.id = id /\ t.closing = s.closing
<1> DEFINE f == IF o.will THEN "armed" ELSE z.log.fate[k]
           v == o.will
           s == [z.b.slots[i] EXCEPT !.id = id, !.opts = o, !.will = v]
           y == [z EXCEPT !.b.slots[i] = s, !.log.fate[k] = f]
<1>1. Admitted(z, i, id, o, k) = y
  BY DEF Admitted, IsWorld
<1> HIDE DEF f, v
<1>2. s.level = z.b.slots[i].level /\ s.conn = z.b.slots[i].conn /\ s.inc = z.b.slots[i].inc /\ s.id = id
      /\ s.closing = z.b.slots[i].closing
  BY DEF IsWorld, IsSlot
<1> HIDE DEF s
<1>3. y.b.slots = [z.b.slots EXCEPT ![i] = s]
  BY DEF IsWorld
<1> HIDE DEF y
<1>4. y.b.slots[i] = s /\ \A j \in Slots : j # i => y.b.slots[j] = z.b.slots[j]
  BY <1>3 DEF IsWorld
<1>5. QED BY <1>1, <1>2, <1>4

(* Slot i answers CONNECT of client id: it is given up, or it serves that   *)
(* client and no other slot does.                                           *)
Greetings(x, y, i) ==
    LET k == x.b.slots[i].conn IN
    /\ DOMAIN y.w = DOMAIN x.w /\ y.log.fwd = x.log.fwd
    /\ \A n \in DOMAIN x.w : /\ y.w[n].up = x.w[n].up /\ y.w[n].broker = x.w[n].broker
                             /\ Tender(x.w[n].down, y.w[n].down, {}) /\ (n # k => y.w[n] = x.w[n])

Welcomed(x, y, i, id) ==
    /\ \A j \in Slots : /\ y.b.slots[j].conn = x.b.slots[j].conn /\ y.b.slots[j].inc = x.b.slots[j].inc
                        /\ ~y.b.slots[j].closing => ~x.b.slots[j].closing
                        /\ j # i /\ ~y.b.slots[j].closing => SameSession(x.b.slots[j], y.b.slots[j])
    /\ ~y.b.slots[i].closing =>
         /\ y.b.slots[i].level = TRUE /\ y.b.slots[i].id = id
         /\ \A j \in Slots : j # i /\ Live(y.b.slots[j]) => y.b.slots[j].id # id

LEMMA WelcomeUp ==
  ASSUME NEW x, NEW cl, NEW a, Once(x, cl, a), NEW i \in Slots, Live(x.b.slots[i]), x.b.slots[i].level = FALSE,
         NEW id, \A c \in Clients : cl[c].conn = x.b.slots[i].conn => id = c,
         NEW y, Based(y), Greetings(x, y, i), Welcomed(x, y, i, id)
  PROVE  UpInv(y, cl, a)
<1> DEFINE k == x.b.slots[i].conn
<1>1. Based(x) /\ UpInv(x, cl, a) /\ Dialler(cl, x)
  BY DEF Once
<1>2. DOMAIN y.w = DOMAIN x.w /\ y.log.fwd = x.log.fwd
      /\ \A n \in DOMAIN x.w : y.w[n].up = x.w[n].up /\ y.w[n].broker = x.w[n].broker /\ (n # k => y.w[n] = x.w[n])
  BY DEF Greetings
<1>3. ASSUME NEW j \in Slots, Live(y.b.slots[j])
      PROVE  /\ Live(x.b.slots[j]) /\ x.b.slots[j].conn \in DOMAIN x.w
             /\ y.b.slots[j].conn = x.b.slots[j].conn /\ y.b.slots[j].inc = x.b.slots[j].inc
             /\ j # i => x.b.slots[j].conn # k /\ SameSession(x.b.slots[j], y.b.slots[j])
             /\ y.w[y.b.slots[j].conn].up = x.w[x.b.slots[j].conn].up
  <2>1. /\ Live(x.b.slots[j]) /\ y.b.slots[j].conn = x.b.slots[j].conn /\ y.b.slots[j].inc = x.b.slots[j].inc
        /\ j # i => SameSession(x.b.slots[j], y.b.slots[j])
    BY <1>3 DEF Welcomed, Live
  <2>2. x.b.slots[j].conn \in DOMAIN x.w /\ (j # i => x.b.slots[j].conn # k)
    BY <1>1, <2>1 DEF Based, Open, OneSlot, Live
  <2>3. QED BY <1>2, <2>1, <2>2
<1>4. ASSUME NEW j \in Slots, NEW m, Carries(y, j, m) PROVE Carries(x, j, m)
  BY <1>3, <1>4 DEF Carries, Has, Comes
<1>5. SlotSound(x.b.slots[i], x.w[k], a)
  BY <1>1 DEF UpInv, Serves
<1>6. \A m : ~Carries(x, i, m)
  BY <1>5 DEF SlotSound, Carries, Has, Comes, IsPub, UpA
<1>7. Streams(y, a)
  BY <1>1, <1>2 DEF UpInv, Streams, UpSound
<1>8. Serves(y, a)
  <2> SUFFICES ASSUME NEW j \in Slots, Live(y.b.slots[j])
               PROVE  SlotSound(y.b.slots[j], y.w[y.b.slots[j].conn], a)
    BY DEF Serves
  <2>1. SlotSound(x.b.slots[j], x.w[x.b.slots[j].conn], a)
    BY <1>1, <1>3 DEF UpInv, Serves
  <2>2. CASE j = i
    <3>1. y.b.slots[j].level = TRUE
      BY <2>2 DEF Welcomed, Live
    <3>2. QED BY <1>3, <2>1, <3>1 DEF SlotSound, Comes
  <2>3. CASE j # i
    BY <1>3, <2>1, <2>3 DEF SlotSound, Comes, SameSession
  <2>4. QED BY <2>2, <2>3
<1>9. OneSession(y)
  <2>1. ASSUME NEW j \in Slots, NEW h \in Slots, Live(y.b.slots[j]), Live(y.b.slots[h]), y.b.slots[j].level,
               y.b.slots[h].level, y.b.slots[j].id = y.b.slots[h].id, j # h
        PROVE  FALSE
    <3>1. CASE j = i
      BY <2>1, <3>1 DEF Welcomed, Live
    <3>2. CASE h = i
      BY <2>1, <3>2 DEF Welcomed, Live
    <3>3. CASE j # i /\ h # i
      BY <1>1, <1>3, <2>1, <3>3 DEF UpInv, OneSession, SameSession
    <3>4. QED BY <3>1, <3>2, <3>3
  <2>2. QED BY <2>1 DEF OneSession
<1>10. Unsent(y, a)
  BY <1>1, <1>2 DEF UpInv, Unsent
<1>11. ASSUME NEW m \in Messages, Two(m, a) PROVE OnePlace(y, cl, m)
  <2>1. OnePlace(x, cl, m)
    BY <1>1, <1>11 DEF UpInv
  <2>2. \A j \in Slots : Carries(y, j, m) => Carries(x, j, m) /\ y.b.slots[j].id = x.b.slots[j].id
    <3>1. ASSUME NEW j \in Slots, Carries(y, j, m)
          PROVE  Carries(x, j, m) /\ y.b.slots[j].id = x.b.slots[j].id
      <4>1. j # i /\ Carries(x, j, m)
        BY <1>4, <1>6, <3>1
      <4>2. QED BY <1>3, <3>1, <4>1 DEF SameSession, Carries
    <3>2. QED BY <3>1
  <2>3. QED BY <1>2, <2>1, <2>2, SamePlace
<1>12. Distinct(cl)
  BY <1>1 DEF UpInv
<1>13. Releases(y, cl)
  BY <1>1, <1>3 DEF UpInv, Releases
<1>14. Greets(y, cl)
  <2> SUFFICES ASSUME NEW c \in Clients, cl[c].conn # 0
               PROVE  /\ \A p \in ToSet(y.w[cl[c].conn].up) : p.type = "connect" => p.id = c
                      /\ \A j \in Slots : Live(y.b.slots[j]) /\ y.b.slots[j].conn = cl[c].conn =>
                            Greeted(c, cl[c], y.w[cl[c].conn], y.b.slots[j])
    BY DEF Greets
  <2>1. cl[c].conn \in DOMAIN x.w
    BY <1>1 DEF Dialler
  <2>2. \A p \in ToSet(y.w[cl[c].conn].up) : p.type = "connect" => p.id = c
    BY <1>1, <1>2, <2>1 DEF UpInv, Greets
  <2>3. ASSUME NEW j \in Slots, Live(y.b.slots[j]), y.b.slots[j].conn = cl[c].conn
        PROVE  Greeted(c, cl[c], y.w[cl[c].conn], y.b.slots[j])
    <3>1. CASE j = i
      BY <1>3, <2>3, <3>1 DEF Greeted, Welcomed, Live
    <3>2. CASE j # i
      <4>1. Greeted(c, cl[c], x.w[cl[c].conn], x.b.slots[j])
        BY <1>1, <1>3, <2>3 DEF UpInv, Greets
      <4>2. y.w[cl[c].conn] = x.w[cl[c].conn]
        BY <1>2, <1>3, <2>1, <2>3, <3>2
      <4>3. QED BY <1>3, <2>3, <3>2, <4>1, <4>2 DEF Greeted, SameSession
    <3>3. QED BY <3>1, <3>2
  <2>4. QED BY <2>2, <2>3
<1>15. QED BY <1>7, <1>8, <1>9, <1>10, <1>11, <1>12, <1>13, <1>14 DEF UpInv

LEMMA ConnackTender ==
  ASSUME NEW v, IsConn(v), NEW p, ~IsPub(p)
  PROVE  Tender(v.down, WithDown(v, p).down, {})
<1>1. WithDown(v, p).down = v.down \/ WithDown(v, p).down = Append(v.down, p)
  BY WithDownQueue
<1>2. \A m : ~IsCopy(p, m)
  BY DEF IsCopy
<1>3. IsSeq(v.down)
  BY DEF IsConn
<1>4. QED BY <1>1, <1>2, <1>3, CopyAppend DEF Tender

LEMMA SendGreets ==
  ASSUME NEW x, Based(x), NEW i \in Slots, NEW y, y.w = x.w, y.log.fwd = x.log.fwd, Based(y),
         y.b.slots[i].conn = x.b.slots[i].conn, NEW p, ~IsPub(p)
  PROVE  LET z == Send(y, i, p) IN Greetings(x, z, i) /\ Based(z) /\ z.b = y.b
<1> DEFINE z == Send(y, i, p)
           k == x.b.slots[i].conn
<1>1. z.w = Update(y.w, k, WithDown(y.w[k], p)) /\ z.b = y.b /\ z.log = y.log
  BY DEF Send, SendDown, Based, IsWorld
<1>2. Based(z)
  BY SendBased
<1> HIDE DEF z
<1>3. DOMAIN z.w = DOMAIN x.w /\ \A n \in DOMAIN x.w : z.w[n] = IF n = k THEN WithDown(x.w[k], p) ELSE x.w[n]
  BY <1>1 DEF Update
<1>4. ASSUME NEW n \in DOMAIN x.w
      PROVE  /\ z.w[n].up = x.w[n].up /\ z.w[n].broker = x.w[n].broker
             /\ Tender(x.w[n].down, z.w[n].down, {}) /\ (n # k => z.w[n] = x.w[n])
  <2>1. IsConn(x.w[n])
    BY DEF Based
  <2>2. CASE n = k
    <3>1. /\ WithDown(x.w[n], p).up = x.w[n].up /\ WithDown(x.w[n], p).broker = x.w[n].broker
          /\ Tender(x.w[n].down, WithDown(x.w[n], p).down, {})
      BY <2>1, WithDownIs, ConnackTender DEF SameSides
    <3>2. z.w[n] = WithDown(x.w[n], p)
      BY <1>3, <2>2
    <3>3. QED BY Zenon, <2>2, <3>1, <3>2
  <2>3. CASE n # k
    <3>1. z.w[n] = x.w[n]
      BY <1>3, <2>3
    <3>2. QED BY <3>1 DEF Tender
  <2>4. QED BY <2>2, <2>3
<1>5. z.log.fwd = x.log.fwd
  BY <1>1
<1>6. Greetings(x, z, i)
  BY <1>3, <1>4, <1>5 DEF Greetings
<1>7. QED BY <1>1, <1>2, <1>6 DEF z

LEMMA ClosingSlots ==
  ASSUME NEW x, IsWorld(x), NEW i \in Slots
  PROVE  LET y == Closing(x, i) IN
         /\ y.w = x.w /\ y.log = x.log /\ \A j \in Slots : j # i => y.b.slots[j] = x.b.slots[j]
         /\ y.b.slots[i].conn = x.b.slots[i].conn /\ y.b.slots[i].inc = x.b.slots[i].inc
         /\ y.b.slots[i].closing = TRUE
<1>1. Changed(x, Closing(x, i), i, x.log.fate[x.b.slots[i].conn]) /\ Closing(x, i).log = x.log
      /\ Closing(x, i).b.slots[i].closing = TRUE
  BY Zenon, ClosingIs
<1>2. Plain(x, Closing(x, i))
  BY ClosingPlain
<1>3. QED BY <1>1, <1>2 DEF Changed, Plain, SameTables

LEMMA ConnectWelcomes ==
  ASSUME NEW x, Based(x), NEW i \in Slots, Live(x.b.slots[i]), NEW p
  PROVE  LET y == HandleConnect(x, i, p) IN Based(y) /\ Greetings(x, y, i) /\ Welcomed(x, y, i, p.id)
<1> DEFINE id == p.id
           o == p.opts
           k == x.b.slots[i].conn
           present == ~o.clean /\ x.b.sess[id] # "none"
           u == IF o.clean THEN ClearSession(x, id) ELSE x
           y == Levelled(u, i)
           v == [y EXCEPT !.b.sess[id] = "active"]
           z == TakeOver(v, i, id)
           a == Admitted(z, i, id, o, k)
           r == Connack(FALSE, FALSE)
           q == Connack(TRUE, present)
           n == Send(y, i, r)
           h == HandleConnect(x, i, p)
<1>1. h = Closing(n, i) \/ h = Send(a, i, q)
  BY Zenon DEF HandleConnect, Levelled, Admitted
<1>2. ~IsPub(r) /\ ~IsPub(q)
  BY DEF Connack, IsPub
<1> HIDE DEF r, q, h
<1>3. Plain(x, u) /\ IsWorld(u) /\ \A j \in Slots : SameSession(x.b.slots[j], u.b.slots[j])
  <2>1. IsWorld(x)
    BY DEF Based
  <2>2. Plain(x, u) /\ Quiet(x, u)
    BY <2>1, SessionPlain, SessionQuiet, PlainRefl, QuietRefl
  <2>3. QED BY <2>2, QuietSession DEF Plain
<1> HIDE DEF u
<1>4. /\ Plain(u, y) /\ IsWorld(y) /\ \A j \in Slots : j # i => y.b.slots[j] = u.b.slots[j]
      /\ y.b.slots[i].level = TRUE /\ y.b.slots[i].conn = u.b.slots[i].conn /\ y.b.slots[i].inc = u.b.slots[i].inc
      /\ y.b.slots[i].closing = u.b.slots[i].closing
  BY ZenonT(30), <1>3, WillFieldPlain, LevelledSlots DEF Plain
<1> HIDE DEF y
<1>5. Plain(y, v) /\ IsWorld(v) /\ \A j \in Slots : SameSession(y.b.slots[j], v.b.slots[j])
  <2>1. Plain(y, v) /\ Quiet(y, v)
    BY <1>4, SessionPlain, SessionQuiet
  <2>2. QED BY <2>1, QuietSession DEF Plain
<1> HIDE DEF v, id
<1>6. /\ Plain(v, z) /\ IsWorld(z) /\ z.b.slots[i] = v.b.slots[i]
      /\ \A j \in Slots : LET s == v.b.slots[j]
                              t == z.b.slots[j]
                          IN  /\ t = s \/ t.closing = TRUE
                              /\ j # i /\ s.conn # 0 /\ s.id = id => t.closing = TRUE
  BY ZenonT(30), <1>5, TakeOverPlain, TakenSlots DEF Plain
<1> HIDE DEF z
<1>7. /\ Plain(z, a) /\ \A j \in Slots : j # i => a.b.slots[j] = z.b.slots[j]
      /\ a.b.slots[i].level = z.b.slots[i].level /\ a.b.slots[i].id = id
  BY <1>6, AdmittedPlain, AdmittedSlots
<1> HIDE DEF a
<1>8. Plain(x, y) /\ Plain(x, a)
  BY <1>3, <1>4, <1>5, <1>6, <1>7, PlainTrans
<1>9. Based(y) /\ Based(a)
  BY <1>8, PlainBased
<1>10. CASE h = Closing(n, i)
  <2>1. Greetings(x, n, i) /\ Based(n) /\ n.b = y.b
    BY <1>2, <1>8, <1>9, SendGreets DEF Plain, SameTables
  <2> HIDE DEF n
  <2>2. IsWorld(n)
    BY <2>1 DEF Based
  <2>3. /\ h.w = n.w /\ h.log = n.log /\ \A j \in Slots : j # i => h.b.slots[j] = n.b.slots[j]
        /\ h.b.slots[i].conn = n.b.slots[i].conn /\ h.b.slots[i].inc = n.b.slots[i].inc
        /\ h.b.slots[i].closing = TRUE
    BY <1>10, <2>2, ClosingSlots
  <2>4. Based(h)
    BY <1>10, <2>1, ClosingHush
  <2>5. Greetings(x, h, i)
    BY <2>1, <2>3 DEF Greetings
  <2>6. Welcomed(x, h, i, id)
    BY <1>3, <1>4, <2>1, <2>3 DEF Welcomed, SameSession, Live
  <2>7. QED BY <2>4, <2>5, <2>6 DEF h, id
<1>11. CASE h = Send(a, i, q)
  <2>1. Greetings(x, h, i) /\ Based(h) /\ h.b = a.b
    BY <1>2, <1>8, <1>9, <1>11, SendGreets DEF Plain, SameTables
  <2>2. \A j \in Slots : a.b.slots[j].conn = x.b.slots[j].conn /\ a.b.slots[j].inc = x.b.slots[j].inc
                         /\ (~a.b.slots[j].closing => ~x.b.slots[j].closing)
    BY <1>8 DEF Plain, SameTables
  <2>3. \A j \in Slots : j # i /\ ~a.b.slots[j].closing => SameSession(x.b.slots[j], a.b.slots[j])
    <3>1. ASSUME NEW j \in Slots, j # i, ~a.b.slots[j].closing
          PROVE  SameSession(x.b.slots[j], a.b.slots[j])
      <4>1. a.b.slots[j] = v.b.slots[j]
        BY <1>6, <1>7, <3>1
      <4>2. y.b.slots[j] = u.b.slots[j]
        BY <1>4, <3>1
      <4>3. SameSession(x.b.slots[j], u.b.slots[j]) /\ SameSession(y.b.slots[j], v.b.slots[j])
        BY <1>3, <1>5
      <4>4. QED BY Zenon, <4>1, <4>2, <4>3 DEF SameSession
    <3>2. QED BY <3>1
  <2>4. a.b.slots[i].level = TRUE
    BY <1>4, <1>5, <1>6, <1>7 DEF SameSession
  <2>5. \A j \in Slots : j # i /\ Live(a.b.slots[j]) => a.b.slots[j].id # id
    <3>1. ASSUME NEW j \in Slots, j # i, Live(a.b.slots[j]), a.b.slots[j].id = id PROVE FALSE
      <4>1. a.b.slots[j] = z.b.slots[j]
        BY <1>7, <3>1
      <4>2. z.b.slots[j] = v.b.slots[j]
        BY <1>6, <3>1, <4>1 DEF Live
      <4>3. v.b.slots[j].closing = TRUE
        BY <1>6, <3>1, <4>1, <4>2 DEF Live
      <4>4. QED BY <3>1, <4>1, <4>2, <4>3 DEF Live
    <3>2. QED BY <3>1
  <2>6. Welcomed(x, h, i, id)
    BY <1>7, <2>1, <2>2, <2>3, <2>4, <2>5 DEF Welcomed
  <2>7. QED BY <2>1, <2>6 DEF h, id
<1>12. QED BY <1>1, <1>10, <1>11

LEMMA ConnectOnce ==
  ASSUME NEW x, NEW cl, NEW a, Once(x, cl, a), NEW i \in Slots, Live(x.b.slots[i]), x.b.slots[i].level = FALSE,
         NEW p, p.type = "connect", Hand(x, cl, a, i, p)
  PROVE  Once(HandleConnect(x, i, p), cl, a)
<1> DEFINE y == HandleConnect(x, i, p)
<1>1. Based(x) /\ DownInv(x, cl, a) /\ Dialler(cl, x) /\ a.sent \in Nat
  BY DEF Once
<1>2. Based(y) /\ Greetings(x, y, i) /\ Welcomed(x, y, i, p.id)
  BY <1>1, ConnectWelcomes
<1>3. \A c \in Clients : cl[c].conn = x.b.slots[i].conn => p.id = c
  BY DEF Hand
<1> HIDE DEF y
<1>4. UpInv(y, cl, a)
  BY <1>2, <1>3, WelcomeUp
<1>5. Tends(x, y, {})
  BY <1>2 DEF Greetings, Tends
<1>6. DownInv(y, cl, a)
  BY <1>1, <1>5, TendsDown
<1>7. Dialler(cl, y)
  BY <1>1, <1>2 DEF Greetings, Dialler
<1>8. QED BY <1>1, <1>2, <1>4, <1>6, <1>7 DEF Once, y
-----------------------------------------------------------------------------
LEMMA PacketOnce ==
  ASSUME NEW x, NEW cl, NEW a, Once(x, cl, a), NEW i \in Slots, Live(x.b.slots[i]), NEW p, Hand(x, cl, a, i, p)
  PROVE  Once(BHandlePacket(x, i, p), cl, a)
<1> DEFINE y == BHandlePacket(x, i, p)
           t == x.b.slots[i]
<1> SUFFICES Once(y, cl, a)
  OBVIOUS
<1>1. Based(x) /\ t.level \in BOOLEAN
  BY DEF Once, Based, IsWorld, IsSlot
<1>2. \/ t.level = TRUE /\ p.type = "publish" /\ y = BHandlePublish(x, i, p)
      \/ t.level = TRUE /\ p.type = "pubrel" /\ y = HandleClientPubrel(x, i, p)
      \/ t.level = FALSE /\ p.type = "connect" /\ y = HandleConnect(x, i, p)
      \/ y \in {HandleClientAck(x, i, p, "await_puback"), HandleClientAck(x, i, p, "await_pubrec"),
                HandleClientAck(x, i, p, "await_pubcomp"), HandleSubscribe(x, i, p), HandleUnsubscribe(x, i, p)}
      \/ y \in {Send(x, i, [type |-> "pingresp"]), Reject(x, i), HandleDisconnect(x, i)}
  BY Zenon, <1>1 DEF BHandlePacket
<1> HIDE DEF y
<1>3. Hush(x, y, {}) /\ Based(y) => Once(y, cl, a)
  BY LetGo
<1>4. CASE t.level = TRUE /\ p.type = "publish" /\ y = BHandlePublish(x, i, p)
  <2>1. IsPub(p)
    BY <1>4 DEF IsPub
  <2>2. QED BY <1>4, <2>1, PublishOnce
<1>5. CASE t.level = TRUE /\ p.type = "pubrel" /\ y = HandleClientPubrel(x, i, p)
  BY <1>5, PubrelOnce
<1>6. CASE t.level = FALSE /\ p.type = "connect" /\ y = HandleConnect(x, i, p)
  BY <1>6, ConnectOnce
<1>7. CASE y \in {HandleClientAck(x, i, p, "await_puback"), HandleClientAck(x, i, p, "await_pubrec"),
                HandleClientAck(x, i, p, "await_pubcomp"), HandleSubscribe(x, i, p), HandleUnsubscribe(x, i, p)}
  BY <1>1, <1>3, <1>7, AckHush, SubscribeHush
<1>8. CASE y \in {Send(x, i, [type |-> "pingresp"]), Reject(x, i), HandleDisconnect(x, i)}
  <2>1. Hush(x, y, {}) /\ Based(y)
    BY <1>1, <1>8, PingHush, ClosingHush, DisconnectHush
  <2>2. QED BY <1>3, <2>1
<1>9. QED BY <1>2, <1>4, <1>5, <1>6, <1>7, <1>8

LEMMA VisitOnce ==
  ASSUME NEW x, NEW cl, NEW a, Once(x, cl, a), NEW i \in Slots, x.b.slots[i].conn # 0, EndVisit(x, i), Based(World')
  PROVE  Once(World', cl, a)
<1> DEFINE y == PublishWill(x, i)
           z == CloseState(y, i)
           v == HungUp(z, i)
           u == IF x.b.slots[i].closing THEN v ELSE x
           W == [b |-> broker', w |-> wire', log |-> log']
<1>1. broker' = u.b /\ wire' = u.w /\ log' = u.log
  BY DEF EndVisit
<1>2. Based(x)
  BY DEF Once
<1>3. Hush(x, y, {Will}) /\ Based(y)
  BY <1>2, PublishWillHush
<1>4. y.b.slots[i].conn # 0
  BY <1>2, PublishWillMild DEF Mild, SameTables
<1> HIDE DEF y
<1>5. Hush(y, z, {}) /\ Based(z)
  BY <1>3, CloseStateHush
<1>6. z.b.slots[i].conn # 0
  BY <1>3, <1>4, CloseStatePlain DEF Plain, SameTables, Based
<1> HIDE DEF z
<1>7. Hush(x, z, {Will})
  BY <1>3, <1>5, HushChain
<1>8. Hush(z, v, {})
  BY <1>5, <1>6, HungUpHush
<1> HIDE DEF v
<1>9. Hush(x, v, {Will})
  BY <1>7, <1>8, HushChain
<1>10. W = World'
  BY DEF World
<1>11. W.b = u.b /\ W.w = u.w /\ W.log = u.log
  BY <1>1
<1> HIDE DEF u, W
<1>12. {Will} \cap Messages = {}
  BY MqttWireAssumption DEF Will, Messages
<1>13. Hush(x, W, {Will})
  <2>1. Hush(x, u, {Will})
    <3>1. Hush(x, x, {Will})
      BY <1>2, HushRefl DEF Hush, Tends, Tender
    <3>2. QED BY <1>9, <3>1 DEF u
  <2>2. QED BY <1>11, <2>1 DEF Hush, Tends, Calmer
<1>14. Once(W, cl, a)
  BY <1>10, <1>12, <1>13, LetGo
<1>15. QED BY <1>10, <1>14
-----------------------------------------------------------------------------
(* The steps of the broker, and the network. *)
LEMMA ExpiredOnce ==
  ASSUME NEW x, x = World, NEW cl, NEW a, Once(x, cl, a), NEW i \in Slots, Serving(i), EndVisit(Expired(x, i), i),
         Based(World')
  PROVE  Once(World', cl, a)
<1> DEFINE y == Expired(x, i)
<1>1. Based(x) /\ x.b.slots[i].conn # 0
  BY DEF Once, Serving, World
<1>2. Hush(x, y, {}) /\ Based(y) /\ y.b.slots[i].conn # 0
  BY <1>1, ExpiredHush
<1> HIDE DEF y
<1>3. Once(y, cl, a)
  BY <1>2, LetGo
<1>4. EndVisit(y, i)
  BY DEF y
<1>5. QED BY <1>2, <1>3, <1>4, VisitOnce

LEMMA ReceiveOnce ==
  ASSUME NEW x, x = World, NEW cl, NEW a, Once(x, cl, a), Exchanges(x, cl, a), NEW i \in Slots, BrokerReceive(i),
         Based(World')
  PROVE  Once(World', cl, a)
<1> DEFINE k == x.b.slots[i].conn
           y == Read(x, k)
           p == Head(x.w[k].up)
           z == BHandlePacket(y, i, p)
<1>1. Based(x) /\ k # 0 /\ ~x.b.slots[i].closing /\ x.w[k].up # <<>> /\ EndVisit(z, i)
  <2>1. Based(x) /\ x.b = broker /\ x.w = wire
    BY DEF Once, World
  <2>2. EndVisit(z, i)
    BY DEF BrokerReceive, Read, World
  <2> HIDE DEF z
  <2>3. QED BY <2>1, <2>2 DEF BrokerReceive, Serving
<1>2. Live(x.b.slots[i])
  BY <1>1 DEF Live
<1> HIDE DEF y, p
<1>3. Mild(x, y) /\ y.b = x.b /\ \A c \in Clients : cl[c].conn = k => Received(y, cl[c], a, i, p)
  BY Zenon, <1>1, ReceivedOk DEF y, p
<1>4. Hand(y, cl, a, i, p) /\ (Based(y) => Once(y, cl, a))
  BY Zenon, <1>1, <1>2, InHand DEF y, p
<1>5. Once(y, cl, a) /\ Live(y.b.slots[i]) /\ Based(y)
  BY <1>2, <1>3, <1>4 DEF Mild
<1>6. Once(z, cl, a)
  BY <1>4, <1>5, PacketOnce
<1>7. z.b.slots[i].conn # 0
  <2>1. Exchanges(y, cl, a) /\ y.b.slots[i].conn = k /\ ~y.b.slots[i].closing
    BY <1>1, <1>3 DEF Mild
  <2>2. Firm(y, z, i, cl, a)
    BY <1>1, <1>3, <1>5, <2>1, PacketOk
  <2>3. QED BY <1>1, <2>1, <2>2 DEF Firm
<1> HIDE DEF z
<1>8. QED BY <1>1, <1>6, <1>7, VisitOnce

LEMMA PruneOnce ==
  ASSUME NEW x, x = World, NEW cl, NEW a, Once(x, cl, a), NEW c \in Clients, Prune(c), Based(World')
  PROVE  Once(World', cl, a)
<1> DEFINE z == ClearSession(x, c)
           y == World'
<1>1. Based(x) /\ IsWorld(x) /\ x.b = broker /\ x.w = wire /\ x.log = log
  BY DEF Once, World, Based
<1>2. y.b = z.b /\ y.w = x.w /\ y.log = x.log
  BY <1>1 DEF Prune, World
<1> HIDE DEF y
<1>3. z.w = x.w /\ z.log = x.log
  BY <1>1 DEF ClearSession, IsWorld
<1>4. Plain(x, z) /\ Quiet(x, z)
  BY <1>1, SessionPlain, SessionQuiet
<1> HIDE DEF z
<1>5. Hush(x, z, {})
  BY <1>1, <1>4, QuietHush
<1>6. Hush(x, y, {})
  BY <1>2, <1>3, <1>5 DEF Hush, Tends, Calmer
<1>7. QED BY <1>6, LetGo DEF y

LEMMA BrokerClosesOnce ==
  ASSUME NEW x, x = World, NEW cl, NEW a, Once(x, cl, a), BrokerCloses, Based(World')
  PROVE  Once(World', cl, a)
<1> DEFINE y == World'
           shut(n) == n \in DOMAIN x.w /\ x.w[n].broker # "closed"
           fate == [n \in Connections |-> IF shut(n) THEN "shut down" ELSE x.log.fate[n]]
<1>1. Based(x) /\ IsWorld(x) /\ x.b = broker /\ x.w = wire /\ x.log = log
  BY DEF Once, World, Based
<1>2. /\ y.b = [x.b EXCEPT !.slots = [i \in Slots |-> NewSlot(0)]]
      /\ y.w = [n \in DOMAIN x.w |-> BrokerHangsUp(x.w, n)[n]]
      /\ y.log = [x.log EXCEPT !.fate = fate]
  BY Zenon, <1>1 DEF BrokerCloses, World
<1> HIDE DEF y, fate
<1>3. \A i \in Slots : y.b.slots[i].conn = 0
  <2>1. y.b.slots = [i \in Slots |-> NewSlot(0)]
    BY <1>1, <1>2 DEF IsWorld
  <2>2. QED BY <2>1, NewSlotIs
<1>4. y.log.fwd = x.log.fwd /\ DOMAIN y.w = DOMAIN x.w
  BY <1>1, <1>2 DEF IsWorld
<1>5. ASSUME NEW n \in DOMAIN x.w
      PROVE  /\ Shrunk(x.w[n], y.w[n]) /\ (y.w[n].broker = "backlog" => x.w[n].broker = "backlog")
             /\ \A m : OneCopy(x.w[n].down, m) => OneCopy(y.w[n].down, m)
  <2>0. IsConn(x.w[n])
    BY <1>1 DEF Based
  <2>1. y.w[n] = [x.w[n] EXCEPT !.broker = "closed", !.up = <<>>]
    BY Zenon, <1>2 DEF BrokerHangsUp, Update
  <2>2. /\ y.w[n].up = <<>> /\ y.w[n].down = x.w[n].down /\ y.w[n].broker = "closed"
        /\ {"up", "down", "client", "broker", "cut"} \subseteq DOMAIN y.w[n]
    BY <2>0, <2>1 DEF IsConn
  <2>3. Thinner(x.w[n].up, y.w[n].up) /\ Thinner(x.w[n].down, y.w[n].down)
    BY <2>0, <2>2, Thins DEF IsConn
  <2>4. Shrunk(x.w[n], y.w[n])
    BY <2>0, <2>2, <2>3 DEF Shrunk, IsConn, Thinner
  <2>5. QED BY <2>2, <2>4
<1>6. \A i \in Slots : Live(y.b.slots[i]) => y.b.slots[i] = x.b.slots[i]
  BY <1>3 DEF Live
<1>7. Hush(x, y, {})
  BY <1>1, <1>4, <1>5, <1>6, LessHush
<1>8. QED BY <1>7, LetGo DEF y

LEMMA CutOnce ==
  ASSUME NEW x, x = World, NEW cl, NEW a, Once(x, cl, a), UNCHANGED <<broker, log>>, NEW k, Cut(k), Based(World')
  PROVE  Once(World', cl, a)
<1> DEFINE y == World'
           u == [x.w[k] EXCEPT !.cut = TRUE, !.up = <<>>, !.down = <<>>]
<1>1. Based(x) /\ x.b = broker /\ x.w = wire /\ x.log = log
  BY DEF Once, World
<1>2. y.b = x.b /\ y.w = wire' /\ y.log = x.log
  BY <1>1 DEF World
<1> HIDE DEF y
<1>3. k \in DOMAIN x.w /\ y.w = [x.w EXCEPT ![k] = u]
  <2>1. k \in DOMAIN wire /\ wire' = [wire EXCEPT ![k].cut = TRUE, ![k].up = <<>>, ![k].down = <<>>]
    BY DEF Cut
  <2> DEFINE w == x.w
  <2>2. w = wire
    BY <1>1
  <2>3. wire' = [w EXCEPT ![k] = [w[k] EXCEPT !.cut = TRUE, !.up = <<>>, !.down = <<>>]]
    BY <2>1, <2>2
  <2>4. QED BY <1>2, <2>1, <2>2, <2>3
<1>4. DOMAIN y.w = DOMAIN x.w /\ y.w[k] = u /\ \A n \in DOMAIN x.w \ {k} : y.w[n] = x.w[n]
  BY <1>1, <1>3 DEF Based, IsWorld, IsWire
<1>5. Shrunk(x.w[k], u) /\ u.broker = x.w[k].broker /\ u.down = <<>>
  <2>0. IsConn(x.w[k])
    BY <1>1, <1>3 DEF Based
  <2>1. /\ u.up = <<>> /\ u.down = <<>> /\ u.broker = x.w[k].broker
        /\ {"up", "down", "client", "broker", "cut"} \subseteq DOMAIN u
    BY <2>0 DEF IsConn
  <2> HIDE DEF u
  <2>2. Thinner(x.w[k].up, u.up) /\ Thinner(x.w[k].down, u.down)
    BY <2>0, <2>1, Thins DEF IsConn
  <2>3. QED BY <2>0, <2>1, <2>2 DEF Shrunk, IsConn, Thinner
<1> HIDE DEF u
<1>6. \A n \in DOMAIN x.w : Shrunk(x.w[n], x.w[n])
  BY <1>1, ConnRefl DEF Based
<1>7. \A n \in DOMAIN x.w : /\ Shrunk(x.w[n], y.w[n]) /\ (y.w[n].broker = "backlog" => x.w[n].broker = "backlog")
                            /\ \A m : OneCopy(x.w[n].down, m) => OneCopy(y.w[n].down, m)
  BY <1>4, <1>5, <1>6, CopyEmpty
<1>8. Hush(x, y, {})
  BY <1>1, <1>2, <1>4, <1>7, LessHush
<1>9. QED BY <1>8, LetGo DEF y

(* Slot i is given connection k, which has waited. *)
Accepted(x, y, i, k) ==
    /\ k \in DOMAIN x.w /\ x.w[k].broker = "backlog" /\ k # 0 /\ y.log = x.log /\ DOMAIN y.w = DOMAIN x.w
    /\ \A n \in DOMAIN x.w : n # k => y.w[n] = x.w[n]
    /\ y.w[k].up = x.w[k].up /\ y.w[k].down = x.w[k].down /\ y.w[k].broker = "open"
    /\ \A j \in Slots \ {i} : y.b.slots[j] = x.b.slots[j]
    /\ y.b.slots[i].conn = k /\ y.b.slots[i].inc = {} /\ y.b.slots[i].level = FALSE

LEMMA AcceptUp ==
  ASSUME NEW x, NEW cl, NEW a, Once(x, cl, a), Exchanges(x, cl, a), NEW i \in Slots, NEW k,
         NEW y, Based(y), Accepted(x, y, i, k)
  PROVE  UpInv(y, cl, a)
<1>0. /\ k \in DOMAIN x.w /\ x.w[k].broker = "backlog" /\ k # 0 /\ y.log = x.log /\ DOMAIN y.w = DOMAIN x.w
      /\ \A n \in DOMAIN x.w : n # k => y.w[n] = x.w[n]
      /\ y.w[k].up = x.w[k].up /\ y.w[k].down = x.w[k].down /\ y.w[k].broker = "open"
      /\ \A j \in Slots \ {i} : y.b.slots[j] = x.b.slots[j]
      /\ y.b.slots[i].conn = k /\ y.b.slots[i].inc = {} /\ y.b.slots[i].level = FALSE
  BY DEF Accepted
<1>1. Based(x) /\ UpInv(x, cl, a) /\ Dialler(cl, x)
  BY DEF Once
<1>2. \A n \in DOMAIN x.w : y.w[n].up = x.w[n].up /\ y.w[n].down = x.w[n].down
                            /\ (y.w[n].broker = "backlog" => x.w[n].broker = "backlog")
  BY <1>0
<1>3. \A j \in Slots \ {i} : /\ y.b.slots[j] = x.b.slots[j]
                             /\ Live(y.b.slots[j]) => y.b.slots[j].conn \in DOMAIN x.w /\ y.b.slots[j].conn # k
                                                      /\ y.w[y.b.slots[j].conn] = x.w[y.b.slots[j].conn]
  <2>1. ASSUME NEW j \in Slots \ {i}, Live(y.b.slots[j])
        PROVE  y.b.slots[j].conn \in DOMAIN x.w /\ y.b.slots[j].conn # k
    BY <1>0, <1>1, <2>1 DEF Based, Open, Live
  <2>2. QED BY <1>0, <2>1
<1>4. \A p \in ToSet(x.w[k].up) : p.type \notin UpA
  BY <1>0, <1>1 DEF UpInv, Streams, UpSound
<1>5. \A m : ~Carries(y, i, m)
  BY <1>0, <1>2, <1>4 DEF Carries, Has, Comes, IsPub, UpA
<1>6. Streams(y, a)
  BY <1>0, <1>1, <1>2 DEF UpInv, Streams, UpSound
<1>7. Serves(y, a)
  <2> SUFFICES ASSUME NEW j \in Slots, Live(y.b.slots[j])
               PROVE  SlotSound(y.b.slots[j], y.w[y.b.slots[j].conn], a)
    BY DEF Serves
  <2>1. CASE j # i
    BY <1>0, <1>1, <1>3, <2>1 DEF UpInv, Serves
  <2>2. CASE j = i
    BY <1>0, <1>2, <1>4, <2>2 DEF SlotSound
  <2>3. QED BY <1>0, <2>1, <2>2
<1>8. OneSession(y)
  <2>1. \A j \in Slots : y.b.slots[j].level => j # i
    BY <1>0
  <2>2. QED BY <1>0, <1>1, <1>3, <2>1 DEF UpInv, OneSession
<1>9. Unsent(y, a)
  BY <1>0, <1>1 DEF UpInv, Unsent
<1>10. ASSUME NEW m \in Messages, Two(m, a) PROVE OnePlace(y, cl, m)
  <2>1. OnePlace(x, cl, m)
    BY <1>0, <1>1, <1>10 DEF UpInv
  <2>2. \A j \in Slots : Carries(y, j, m) => Carries(x, j, m) /\ y.b.slots[j].id = x.b.slots[j].id
    BY <1>0, <1>3, <1>5 DEF Carries
  <2>3. QED BY <1>0, <2>1, <2>2, SamePlace
<1>11. Distinct(cl)
  BY <1>0, <1>1 DEF UpInv
<1>12. Releases(y, cl)
  BY <1>0, <1>1, <1>3 DEF UpInv, Releases
<1>13. Greets(y, cl)
  <2> SUFFICES ASSUME NEW c \in Clients, cl[c].conn # 0
               PROVE  /\ \A p \in ToSet(y.w[cl[c].conn].up) : p.type = "connect" => p.id = c
                      /\ \A j \in Slots : Live(y.b.slots[j]) /\ y.b.slots[j].conn = cl[c].conn =>
                            Greeted(c, cl[c], y.w[cl[c].conn], y.b.slots[j])
    BY DEF Greets
  <2>1. cl[c].conn \in DOMAIN x.w
    BY <1>0, <1>1 DEF Dialler
  <2>2. \A p \in ToSet(y.w[cl[c].conn].up) : p.type = "connect" => p.id = c
    BY <1>0, <1>1, <1>2, <2>1 DEF UpInv, Greets
  <2>3. ASSUME NEW j \in Slots, Live(y.b.slots[j]), y.b.slots[j].conn = cl[c].conn
        PROVE  Greeted(c, cl[c], y.w[cl[c].conn], y.b.slots[j])
    <3>1. CASE j # i
      BY <1>0, <1>1, <1>3, <2>3, <3>1 DEF UpInv, Greets
    <3>2. CASE j = i
      <4>1. Talk(cl[c], x.w[k])
        BY <1>0, <2>3, <3>2 DEF Exchanges, Party
      <4>2. cl[c].phase = "wait" /\ x.w[k].down = <<>>
        BY <1>0, <4>1 DEF Talk
      <4>3. ~Connacked(y.w[k].down)
        BY <1>0, <4>2, EmptyIs DEF Connacked
      <4>4. QED BY <1>0, <2>3, <3>2, <4>2, <4>3 DEF Greeted
    <3>3. QED BY <3>1, <3>2
  <2>4. QED BY <2>2, <2>3
<1>14. QED BY <1>0, <1>6, <1>7, <1>8, <1>9, <1>10, <1>11, <1>12, <1>13 DEF UpInv

LEMMA AcceptOnce ==
  ASSUME NEW x, x = World, NEW cl, NEW a, Once(x, cl, a), Exchanges(x, cl, a), Accept, Based(World')
  PROVE  Once(World', cl, a)
<1> DEFINE waiting == {n \in DOMAIN wire : wire[n].broker = "backlog"}
           free == {j \in Slots : ~Serving(j)}
           k == Min(waiting)
           i == Min(free)
           y == World'
           u == [x.w[k] EXCEPT !.broker = "open"]
<1>1. Based(x) /\ IsWorld(x) /\ x.b = broker /\ x.w = wire /\ x.log = log
  BY DEF Once, World, Based
<1>2. k \in DOMAIN x.w /\ x.w[k].broker = "backlog" /\ k # 0
  <2>1. waiting \in SUBSET Nat /\ waiting # {}
    BY <1>1, WireDomain DEF Accept, Connections
  <2>2. k \in waiting
    BY <2>1, MinIn
  <2>3. QED BY <1>1, <2>2, WireDomain
<1>3. i \in Slots
  <2>1. free \in SUBSET Nat /\ free # {}
    BY DEF Accept, Slots
  <2>2. i \in free
    BY <2>1, MinIn
  <2>3. QED BY <2>2
<1>4. /\ y.b = [x.b EXCEPT !.slots[i] = NewSlot(k)] /\ y.w = [x.w EXCEPT ![k].broker = "open"]
      /\ y.log = x.log
  <2>1. broker' = [x.b EXCEPT !.slots[i] = NewSlot(k)] /\ wire' = [x.w EXCEPT ![k].broker = "open"] /\ log' = x.log
    BY <1>1 DEF Accept
  <2> HIDE DEF i, k
  <2>2. QED BY <2>1 DEF World
<1> HIDE DEF waiting, free, k, i, y
<1>6. /\ y.b.slots[i] = NewSlot(k) /\ \A j \in Slots \ {i} : y.b.slots[j] = x.b.slots[j]
  BY <1>1, <1>3, <1>4 DEF IsWorld
<1>7. NewSlot(k).inc = {} /\ NewSlot(k).conn = k /\ NewSlot(k).level = FALSE
  BY DEF NewSlot
<1>8. DOMAIN y.w = DOMAIN x.w /\ \A n \in DOMAIN x.w : y.w[n] = IF n = k THEN u ELSE x.w[n]
  BY <1>1, <1>2, <1>4 DEF IsWorld, IsWire
<1>9. u.up = x.w[k].up /\ u.down = x.w[k].down /\ u.broker = "open"
  BY <1>1, <1>2 DEF Based, IsConn
<1> HIDE DEF u
<1>10. \A n \in DOMAIN x.w : (n # k => y.w[n] = x.w[n]) /\ y.w[n].down = x.w[n].down
  BY <1>8, <1>9
<1>11. Based(y)
  BY DEF y
<1>12. UpInv(y, cl, a)
  <2>1. \A n \in DOMAIN x.w : n # k => y.w[n] = x.w[n]
    BY <1>10
  <2>2. y.w[k].up = x.w[k].up /\ y.w[k].down = x.w[k].down /\ y.w[k].broker = "open"
    BY <1>2, <1>8, <1>9
  <2>3. y.b.slots[i].conn = k /\ y.b.slots[i].inc = {} /\ y.b.slots[i].level = FALSE
    BY <1>6, <1>7
  <2>4. k \in DOMAIN x.w /\ x.w[k].broker = "backlog" /\ k # 0 /\ i \in Slots /\ DOMAIN y.w = DOMAIN x.w
        /\ y.log = x.log /\ \A j \in Slots \ {i} : y.b.slots[j] = x.b.slots[j]
    BY <1>2, <1>3, <1>4, <1>6, <1>8
  <2>5. Accepted(x, y, i, k)
    BY <2>1, <2>2, <2>3, <2>4 DEF Accepted
  <2>6. QED BY <1>3, <1>11, <2>5, AcceptUp
<1>13. Tends(x, y, {})
  BY <1>4, <1>8, <1>10 DEF Tends, Tender
<1>14. DownInv(y, cl, a)
  BY <1>13, TendsDown DEF Once
<1>15. Dialler(cl, y) /\ a.sent \in Nat
  BY <1>8 DEF Once, Dialler
<1>16. QED BY <1>11, <1>12, <1>14, <1>15 DEF Once, y

(* Every step of the broker. *)
LEMMA BrokerOnce ==
  ASSUME NEW x, x = World, NEW cl, NEW a, Once(x, cl, a), Exchanges(x, cl, a), BrokerNext, Based(World')
  PROVE  Once(World', cl, a)
<1>1. CASE Accept
  BY <1>1, AcceptOnce
<1>2. ASSUME NEW c \in Clients, Prune(c) PROVE Once(World', cl, a)
  BY <1>2, PruneOnce
<1>3. ASSUME NEW i \in Slots, KeepAliveExpires(i) PROVE Once(World', cl, a)
  BY <1>3, ExpiredOnce DEF KeepAliveExpires
<1>4. ASSUME NEW i \in Slots, CloseSlot(i) PROVE Once(World', cl, a)
  <2>1. x.b.slots[i].conn # 0 /\ EndVisit(x, i)
    BY <1>4 DEF CloseSlot, Serving, World
  <2>2. QED BY <2>1, VisitOnce
<1>5. ASSUME NEW i \in Slots, BrokerReceive(i) PROVE Once(World', cl, a)
  BY <1>5, ReceiveOnce
<1>6. ASSUME NEW i \in Slots, BrokerEof(i) PROVE Once(World', cl, a)
  BY <1>6, ExpiredOnce DEF BrokerEof
<1>7. CASE BrokerCloses
  BY <1>7, BrokerClosesOnce
<1>8. CASE BrokerOpens
  BY <1>8 DEF BrokerOpens, World
<1>9. QED BY <1>1, <1>2, <1>3, <1>4, <1>5, <1>6, <1>7, <1>8 DEF BrokerNext
-----------------------------------------------------------------------------
(* A step of client c, from s to t, in the history from a to b. *)
Onward(a, b) == b.plan = a.plan /\ a.sent \in Nat /\ b.sent \in Nat /\ a.sent <= b.sent

OneMoves(x, y, cl, cm, c, a, b) ==
    /\ y.b = x.b /\ y.log = x.log /\ Onward(a, b)
    /\ \A d \in Clients : d # c => cm[d] = cl[d]
    /\ DOMAIN x.w \subseteq DOMAIN y.w /\ \A n \in DOMAIN x.w : n # cl[c].conn => y.w[n] = x.w[n]

(* Entries stay, go on or are given back, and at most one is new. *)
Keeps(s, t, j) ==
    /\ j \in Used(s.out) /\ t.out[j].m = s.out[j].m
    /\ t.out[j].state = "await_pubrec" => s.out[j].state = "await_pubrec"

TableMoves(s, t, a) ==
    /\ \A j \in Used(t.out) : Keeps(s, t, j) \/ t.out[j].m = a.sent + 1
    /\ \A j, h \in Used(t.out) : t.out[j].m = a.sent + 1 /\ t.out[h].m = a.sent + 1 => j = h

(* What the packets in P say to slot i. *)
Says(x, cm, c, i, P) ==
    \A p \in P :
       /\ IsPub(p) /\ p.qos = 2 =>
             x.log.fwd[p.m] = 0 /\ Entry(cm[c], p.m) /\ \A j \in Slots : ~Carries(x, j, p.m)
       /\ p.type = "pubrel" =>
             \A e \in x.b.slots[i].inc : e.id = p.id => \A d \in Clients : ~Wants(cm[d], e.m)

(* The client sends the packets in P. *)
WireMoves(x, y, cl, cm, c, b, P) ==
    LET s == cl[c]
        t == cm[c]
        v == x.w[s.conn]
        u == y.w[s.conn]
    IN  /\ s.conn # 0 => /\ s.conn \in DOMAIN x.w /\ UpSound(u, b) /\ ToSet(u.up) \subseteq ToSet(v.up) \cup P
                         /\ t.conn \in {0, s.conn}
                         /\ t.conn = s.conn /\ (t.phase # "wait" \/ Connacked(u.down)) =>
                               s.phase # "wait" \/ Connacked(v.down)
        /\ \A p \in P : p.type # "connect" /\ (p.type \in UpA => s.phase # "wait")
        /\ s.conn # 0 => \A i \in Slots : Live(x.b.slots[i]) /\ x.b.slots[i].conn = s.conn => Says(x, cm, c, i, P)
        /\ s.conn = 0 => t.conn = 0 \/ t.conn \in DOMAIN y.w \ DOMAIN x.w
        /\ \A n \in DOMAIN y.w \ DOMAIN x.w :
              UpSound(y.w[n], b) /\ \A p \in ToSet(y.w[n].up) : p.type = "connect" => p.id = c

Acts(x, y, cl, cm, c, a, b, P) ==
    /\ Based(x) /\ UpInv(x, cl, a) /\ Exchanges(x, cl, a) /\ OneMoves(x, y, cl, cm, c, a, b)
    /\ TableMoves(cl[c], cm[c], a) /\ WireMoves(x, y, cl, cm, c, b, P)

LEMMA OnwardIs ==
  ASSUME NEW a, NEW b, Onward(a, b)
  PROVE  /\ \A m : Known2(m, a) => Known2(m, b)
         /\ \A m : Two(m, b) => Two(m, a)
         /\ \A p : PubOK(p, a) => PubOK(p, b)
         /\ \A v : UpSound(v, a) => UpSound(v, b)
<1>1. \A m : Known2(m, a) => Known2(m, b)
  BY DEF Onward, Known2, Messages
<1>2. \A m : Two(m, b) => Two(m, a)
  BY DEF Onward, Two, Messages
<1>3. \A p : PubOK(p, a) => PubOK(p, b)
  BY <1>1 DEF Onward, PubOK
<1>4. \A v : UpSound(v, a) => UpSound(v, b)
  BY <1>3 DEF UpSound
<1>5. QED BY <1>1, <1>2, <1>3, <1>4

EntryMoved(cl, cm, c, a, d, m) ==
    /\ Entry(cm[d], m) => Entry(cl[d], m) \/ (d = c /\ m = a.sent + 1)
    /\ Wants(cm[d], m) => Wants(cl[d], m) \/ m = a.sent + 1

LEMMA EntryMoves ==
  ASSUME NEW x, NEW y, NEW cl, NEW cm, NEW c \in Clients, NEW a, NEW b, NEW P, Acts(x, y, cl, cm, c, a, b, P)
  PROVE  \A d \in Clients : \A m : EntryMoved(cl, cm, c, a, d, m)
<1> SUFFICES ASSUME NEW d \in Clients, NEW m PROVE EntryMoved(cl, cm, c, a, d, m)
  OBVIOUS
<1>1. CASE d # c
  BY <1>1 DEF Acts, OneMoves, EntryMoved
<1>2. CASE d = c
  BY <1>2 DEF Acts, TableMoves, Keeps, Entry, Wants, EntryMoved
<1>3. QED BY <1>1, <1>2

(* What a live slot may receive after the step. *)
SlotMoved(x, y, cl, cm, c, b, P, i) ==
    LET k == x.b.slots[i].conn IN
    /\ k # 0 /\ k \in DOMAIN x.w
    /\ k # cl[c].conn => y.w[k] = x.w[k]
    /\ k = cl[c].conn => Says(x, cm, c, i, P) /\ ToSet(y.w[k].up) \subseteq ToSet(x.w[k].up) \cup P
        /\ UpSound(y.w[k], b)
    /\ \A m : Carries(y, i, m) =>
          Carries(x, i, m) \/ (k = cl[c].conn /\ \E p \in P : p \in ToSet(y.w[k].up) /\ IsPub(p) /\ p.m = m)

LEMMA SlotMoves ==
  ASSUME NEW x, NEW y, NEW cl, NEW cm, NEW c \in Clients, NEW a, NEW b, NEW P, Acts(x, y, cl, cm, c, a, b, P)
  PROVE  \A i \in Slots : Live(x.b.slots[i]) => SlotMoved(x, y, cl, cm, c, b, P, i)
<1> SUFFICES ASSUME NEW i \in Slots, Live(x.b.slots[i]) PROVE SlotMoved(x, y, cl, cm, c, b, P, i)
  OBVIOUS
<1> DEFINE k == x.b.slots[i].conn
<1>1. k # 0 /\ k \in DOMAIN x.w
  BY DEF Acts, Based, Open, Live
<1>2. k # cl[c].conn => y.w[k] = x.w[k]
  BY <1>1 DEF Acts, OneMoves
<1>3. k = cl[c].conn => Says(x, cm, c, i, P) /\ ToSet(y.w[k].up) \subseteq ToSet(x.w[k].up) \cup P
    /\ UpSound(y.w[k], b)
  BY <1>1 DEF Acts, WireMoves
<1>4. y.b = x.b
  BY DEF Acts, OneMoves
<1>5. \A m : Carries(y, i, m) =>
         Carries(x, i, m) \/ (k = cl[c].conn /\ \E p \in P : p \in ToSet(y.w[k].up) /\ IsPub(p) /\ p.m = m)
  BY Zenon, <1>2, <1>3, <1>4 DEF Carries, Comes
<1>6. QED BY <1>1, <1>2, <1>3, <1>5 DEF SlotMoved

LEMMA CarriesKnown ==
  ASSUME NEW x, NEW cl, NEW a, Based(x), UpInv(x, cl, a), NEW i \in Slots, NEW m, Carries(x, i, m)
  PROVE  Known2(m, a)
<1> DEFINE t == x.b.slots[i]
           v == x.w[t.conn]
<1>1. Live(t) /\ t.conn \in DOMAIN x.w /\ (Has(t, m) \/ Comes(v, m))
  BY DEF Carries, Live, Based, Open
<1>2. SlotSound(t, v, a) /\ UpSound(v, a)
  BY <1>1 DEF UpInv, Serves, Streams
<1>3. Has(t, m) => Known2(m, a)
  BY <1>2 DEF SlotSound, Has
<1>4. Comes(v, m) => Known2(m, a)
  BY Zenon, <1>2 DEF UpSound, PubOK, Comes
<1>5. QED BY <1>1, <1>3, <1>4

(* A slot's table and what comes to it stay sound. *)
LEMMA MoveServes ==
  ASSUME NEW x, NEW y, NEW cl, NEW cm, NEW c \in Clients, NEW a, NEW b, NEW P, Acts(x, y, cl, cm, c, a, b, P)
  PROVE  Serves(y, b)
<1>0. UpInv(x, cl, a) /\ OneMoves(x, y, cl, cm, c, a, b) /\ WireMoves(x, y, cl, cm, c, b, P)
  BY DEF Acts
<1> SUFFICES ASSUME NEW i \in Slots, Live(x.b.slots[i])
             PROVE  SlotSound(x.b.slots[i], y.w[x.b.slots[i].conn], b)
  BY <1>0 DEF Serves, OneMoves
<1> DEFINE t == x.b.slots[i]
           k == t.conn
           v == x.w[k]
           u == y.w[k]
<1>1. /\ k # 0 /\ k \in DOMAIN x.w /\ (k # cl[c].conn => u = v)
      /\ k = cl[c].conn => Says(x, cm, c, i, P) /\ ToSet(u.up) \subseteq ToSet(v.up) \cup P /\ UpSound(u, b)
  <2>1. SlotMoved(x, y, cl, cm, c, b, P, i)
    BY SlotMoves
  <2>2. QED BY <2>1 DEF SlotMoved
<1>2. SlotSound(t, v, a)
  BY <1>0 DEF UpInv, Serves
<1>3. \A e \in t.inc : Known2(e.m, b) /\ b.plan.pubs[e.m].qos = 2
  BY <1>0, <1>2, OnwardIs DEF SlotSound, OneMoves, Onward
<1>4. \A e, f \in t.inc : e.id = f.id \/ e.m = f.m => e = f
  BY <1>2 DEF SlotSound
<1>5. ASSUME NEW e \in t.inc PROVE ~Comes(u, e.m)
  <2>1. ~Comes(v, e.m)
    BY <1>2 DEF SlotSound
  <2>2. CASE k # cl[c].conn
    BY <1>1, <2>1, <2>2
  <2>3. CASE k = cl[c].conn
    <3>1. Carries(x, i, e.m)
      BY DEF Carries, Has
    <3>2. ASSUME NEW p \in ToSet(u.up), IsPub(p), p.m = e.m PROVE FALSE
      <4>1. p \in P
        BY <1>1, <2>1, <2>3, <3>2 DEF Comes
      <4>2. p.qos = 2
        BY <1>1, <1>3, <2>3, <3>2 DEF UpSound, PubOK
      <4>3. ~Carries(x, i, p.m)
        BY <1>1, <2>3, <3>2, <4>1, <4>2 DEF Says
      <4>4. QED BY <3>1, <3>2, <4>3
    <3>3. QED BY <3>2 DEF Comes
  <2>4. QED BY <2>2, <2>3
<1>6. ASSUME ~t.level PROVE t.inc = {} /\ \A p \in ToSet(u.up) : p.type \notin UpA
  <2>1. t.inc = {} /\ \A p \in ToSet(v.up) : p.type \notin UpA
    BY <1>2, <1>6 DEF SlotSound
  <2>2. CASE k # cl[c].conn
    BY Zenon, <1>1, <2>1, <2>2
  <2>3. CASE k = cl[c].conn
    <3>1. cl[c].phase = "wait"
      BY <1>0, <1>1, <1>6, <2>3 DEF UpInv, Greets, Greeted
    <3>2. \A p \in P : p.type \notin UpA
      BY <1>0, <3>1 DEF WireMoves
    <3>3. QED BY <1>1, <2>1, <2>3, <3>2
  <2>4. QED BY <2>2, <2>3
<1>7. QED BY <1>3, <1>4, <1>5, <1>6 DEF SlotSound

LEMMA MovePlace ==
  ASSUME NEW x, NEW y, NEW cl, NEW cm, NEW c \in Clients, NEW a, NEW b, NEW P, Acts(x, y, cl, cm, c, a, b, P),
         Distinct(cm), NEW m \in Messages, Two(m, b)
  PROVE  OnePlace(y, cm, m)
<1>0. /\ Based(x) /\ UpInv(x, cl, a) /\ Exchanges(x, cl, a) /\ OneMoves(x, y, cl, cm, c, a, b)
      /\ WireMoves(x, y, cl, cm, c, b, P)
  BY DEF Acts
<1>1. OnePlace(x, cl, m)
  BY <1>0, OnwardIs DEF UpInv, OneMoves
<1>2. y.b = x.b /\ y.log = x.log
  BY <1>0 DEF OneMoves
<1> DEFINE New(i) == x.b.slots[i].conn = cl[c].conn /\ Live(x.b.slots[i]) /\ x.log.fwd[m] = 0 /\ Entry(cm[c], m)
                     /\ (\A j \in Slots : ~Carries(x, j, m)) /\ x.b.slots[i].id = c
<1>3. ASSUME NEW i \in Slots, Carries(y, i, m)
      PROVE  Carries(x, i, m) \/ New(i)
  <2> DEFINE k == x.b.slots[i].conn
  <2>1. Live(x.b.slots[i])
    BY <1>2, <1>3 DEF Carries
  <2>2. /\ k # 0 /\ k \in DOMAIN x.w
        /\ k = cl[c].conn => Says(x, cm, c, i, P) /\ UpSound(y.w[k], b)
        /\ Carries(x, i, m) \/ (k = cl[c].conn /\ \E p \in P : p \in ToSet(y.w[k].up) /\ IsPub(p) /\ p.m = m)
    <3>1. SlotMoved(x, y, cl, cm, c, b, P, i)
      BY <2>1, SlotMoves
    <3>2. QED BY <1>3, <3>1 DEF SlotMoved
  <2>3. ASSUME k = cl[c].conn, NEW p \in P, p \in ToSet(y.w[k].up), IsPub(p), p.m = m
        PROVE  New(i)
    <3>1. p.qos = 2
      BY <2>2, <2>3 DEF UpSound, PubOK, Two, Known2
    <3>2. x.log.fwd[m] = 0 /\ Entry(cm[c], m) /\ \A j \in Slots : ~Carries(x, j, m)
      BY <2>2, <2>3, <3>1 DEF Says
    <3>3. p.type \in UpA /\ cl[c].phase # "wait"
      BY <1>0, <2>3 DEF WireMoves, IsPub, UpA
    <3>4. x.b.slots[i].id = c
      BY <1>0, <2>1, <2>2, <2>3, <3>3 DEF UpInv, Greets, Greeted
    <3>5. QED BY <2>1, <2>3, <3>2, <3>4
  <2>4. QED BY <2>2, <2>3
<1>4. \A i \in Slots : Carries(y, i, m) => y.log.fwd[m] = 0
  BY <1>1, <1>2, <1>3 DEF OnePlace
<1>5. ASSUME NEW i \in Slots, NEW j \in Slots, Carries(y, i, m), Carries(y, j, m)
      PROVE  i = j
  <2>1. Carries(x, i, m) /\ Carries(x, j, m) => i = j
    BY <1>1 DEF OnePlace
  <2>2. New(i) /\ New(j) => i = j
    BY <1>0 DEF Based, OneSlot, Live
  <2>3. QED BY <1>3, <1>5, <2>1, <2>2
<1>6. ASSUME NEW d \in Clients, Wants(cm[d], m) PROVE y.log.fwd[m] = 0
  <2>1. Wants(cl[d], m) \/ m = a.sent + 1
    <3>1. EntryMoved(cl, cm, c, a, d, m)
      BY EntryMoves
    <3>2. QED BY <1>6, <3>1 DEF EntryMoved
  <2>2. m = a.sent + 1 => x.log.fwd[m] = 0
    BY <1>0 DEF UpInv, Unsent, OneMoves, Onward
  <2>3. QED BY <1>1, <1>2, <2>1, <2>2 DEF OnePlace
<1>7. ASSUME NEW d \in Clients, NEW i \in Slots, Entry(cm[d], m), Carries(y, i, m)
      PROVE  y.b.slots[i].id = d
  <2>1. Entry(cl[d], m) \/ m = a.sent + 1
    <3>1. EntryMoved(cl, cm, c, a, d, m)
      BY EntryMoves
    <3>2. QED BY <1>7, <3>1 DEF EntryMoved
  <2>2. CASE New(i)
    <3>1. d = c
      BY <1>7, <2>2 DEF Distinct, Entry
    <3>2. QED BY <1>2, <2>2, <3>1
  <2>3. CASE Carries(x, i, m)
    <3>1. m \in Nat /\ m <= a.sent /\ a.sent \in Nat
      BY <1>0, <2>3, CarriesKnown DEF Known2, OneMoves, Onward, Messages
    <3>2. Entry(cl[d], m)
      BY <2>1, <3>1
    <3>3. QED BY <1>1, <1>2, <2>3, <3>2 DEF OnePlace
  <2>4. QED BY <1>3, <1>7, <2>2, <2>3
<1>8. y.log.fwd[m] <= 1
  BY <1>1, <1>2 DEF OnePlace
<1>9. QED BY <1>4, <1>5, <1>6, <1>7, <1>8 DEF OnePlace
-----------------------------------------------------------------------------
LEMMA MoveReleases ==
  ASSUME NEW x, NEW y, NEW cl, NEW cm, NEW c \in Clients, NEW a, NEW b, NEW P, Acts(x, y, cl, cm, c, a, b, P)
  PROVE  Releases(y, cm)
<1>0. UpInv(x, cl, a) /\ OneMoves(x, y, cl, cm, c, a, b)
  BY DEF Acts
<1> SUFFICES ASSUME NEW i \in Slots, Live(x.b.slots[i]), NEW e \in x.b.slots[i].inc,
                    NEW p \in ToSet(y.w[x.b.slots[i].conn].up), p.type = "pubrel", p.id = e.id,
                    NEW d \in Clients
             PROVE  ~Wants(cm[d], e.m)
  BY <1>0 DEF Releases, OneMoves
<1> DEFINE k == x.b.slots[i].conn
<1>1. /\ k # cl[c].conn => y.w[k] = x.w[k]
      /\ k = cl[c].conn => Says(x, cm, c, i, P) /\ ToSet(y.w[k].up) \subseteq ToSet(x.w[k].up) \cup P
  <2>1. SlotMoved(x, y, cl, cm, c, b, P, i)
    BY SlotMoves
  <2>2. QED BY Zenon, <2>1 DEF SlotMoved
<1>2. CASE p \in ToSet(x.w[k].up)
  <2>1. ~Wants(cl[d], e.m)
    BY <1>0, <1>2 DEF UpInv, Releases
  <2>2. e.m \in Messages /\ e.m <= a.sent
    BY <1>0 DEF UpInv, Serves, SlotSound, Known2
  <2>3. Wants(cm[d], e.m) => Wants(cl[d], e.m) \/ e.m = a.sent + 1
    <3>1. EntryMoved(cl, cm, c, a, d, e.m)
      BY EntryMoves
    <3>2. QED BY <3>1 DEF EntryMoved
  <2>4. e.m # a.sent + 1
    BY <1>0, <2>2 DEF OneMoves, Onward, Messages
  <2>5. QED BY <2>1, <2>3, <2>4
<1>3. CASE p \notin ToSet(x.w[k].up)
  <2>1. k = cl[c].conn /\ p \in P /\ Says(x, cm, c, i, P)
    BY Zenon, <1>1, <1>3
  <2>2. QED BY <2>1 DEF Says
<1>4. QED BY <1>2, <1>3

LEMMA MoveGreets ==
  ASSUME NEW x, NEW y, NEW cl, NEW cm, NEW c \in Clients, NEW a, NEW b, NEW P, Acts(x, y, cl, cm, c, a, b, P)
  PROVE  Greets(y, cm)
<1>0. /\ Based(x) /\ Greets(x, cl) /\ Dialler(cl, x) /\ OneMoves(x, y, cl, cm, c, a, b)
      /\ WireMoves(x, y, cl, cm, c, b, P)
  BY DEF Acts, UpInv, Exchanges
<1>1. y.b = x.b
  BY <1>0 DEF OneMoves
<1> DEFINE Good(d) ==
      /\ \A p \in ToSet(y.w[cm[d].conn].up) : p.type = "connect" => p.id = d
      /\ \A i \in Slots : Live(x.b.slots[i]) /\ x.b.slots[i].conn = cm[d].conn =>
            Greeted(d, cm[d], y.w[cm[d].conn], x.b.slots[i])
<1>2. ASSUME NEW d \in Clients, d # c, cm[d].conn # 0 PROVE Good(d)
  <2>1. cm[d] = cl[d] /\ cl[d].conn # cl[c].conn /\ cl[d].conn \in DOMAIN x.w
    BY <1>0, <1>2 DEF OneMoves, Dialler
  <2>2. y.w[cl[d].conn] = x.w[cl[d].conn]
    BY <1>0, <2>1 DEF OneMoves
  <2>3. QED BY <1>0, <1>2, <2>1, <2>2 DEF Greets
<1>3. ASSUME cm[c].conn # 0 PROVE Good(c)
  <2> DEFINE k == cm[c].conn
  <2>1. CASE cl[c].conn = 0
    <3>1. k \in DOMAIN y.w \ DOMAIN x.w
      BY <1>0, <1>3, <2>1 DEF WireMoves
    <3>2. \A i \in Slots : x.b.slots[i].conn # k
      BY <1>0, <1>3, <3>1 DEF Based, Open
    <3>3. \A p \in ToSet(y.w[k].up) : p.type = "connect" => p.id = c
      BY <1>0, <3>1 DEF WireMoves
    <3>4. QED BY <3>2, <3>3
  <2>2. CASE cl[c].conn # 0
    <3>1. /\ k = cl[c].conn /\ ToSet(y.w[k].up) \subseteq ToSet(x.w[k].up) \cup P
          /\ cm[c].phase # "wait" \/ Connacked(y.w[k].down) => cl[c].phase # "wait" \/ Connacked(x.w[k].down)
          /\ \A p \in P : p.type # "connect"
      BY <1>0, <1>3, <2>2 DEF WireMoves
    <3>2. \A p \in ToSet(x.w[k].up) : p.type = "connect" => p.id = c
      BY <1>0, <2>2, <3>1 DEF Greets
    <3>3. \A i \in Slots : Live(x.b.slots[i]) /\ x.b.slots[i].conn = k => Greeted(c, cl[c], x.w[k], x.b.slots[i])
      BY <1>0, <2>2, <3>1 DEF Greets
    <3>4. QED BY <3>1, <3>2, <3>3 DEF Greeted
  <2>3. QED BY <2>1, <2>2
<1>4. QED BY <1>1, <1>2, <1>3 DEF Greets

LEMMA MoveDistinct ==
  ASSUME NEW x, NEW y, NEW cl, NEW cm, NEW c \in Clients, NEW a, NEW b, NEW P, Acts(x, y, cl, cm, c, a, b, P)
  PROVE  Distinct(cm)
<1>0. Distinct(cl) /\ OneMoves(x, y, cl, cm, c, a, b) /\ TableMoves(cl[c], cm[c], a) /\ Exchanges(x, cl, a)
  BY DEF Acts, UpInv
<1>1. \A d \in Clients : \A i \in Used(cl[d].out) : cl[d].out[i].m # a.sent + 1
  BY <1>0 DEF Exchanges, Tables, EntryOK, OneMoves, Onward, Messages
<1> SUFFICES ASSUME NEW d \in Clients, NEW e \in Clients, NEW i \in Used(cm[d].out), NEW j \in Used(cm[e].out),
                    cm[d].out[i].m = cm[e].out[j].m
             PROVE  d = e /\ i = j
  BY DEF Distinct
<1> DEFINE Old(f, h) == h \in Used(cl[f].out) /\ cm[f].out[h].m = cl[f].out[h].m
           New(f, h) == f = c /\ cm[f].out[h].m = a.sent + 1
<1>2. \A f \in Clients : \A h \in Used(cm[f].out) : Old(f, h) \/ New(f, h)
  BY <1>0 DEF OneMoves, TableMoves, Keeps
<1>3. CASE Old(d, i) /\ Old(e, j)
  <2>1. Distinct(cl)
    BY <1>0
  <2>2. i \in Used(cl[d].out) /\ j \in Used(cl[e].out) /\ cl[d].out[i].m = cl[e].out[j].m
    BY <1>3
  <2>3. \A h \in Used(cl[d].out), g \in Used(cl[e].out) : cl[d].out[h].m = cl[e].out[g].m => d = e /\ h = g
    BY <2>1 DEF Distinct
  <2>4. QED BY <2>2, <2>3
<1>4. CASE New(d, i) /\ New(e, j)
  BY <1>0, <1>4 DEF TableMoves
<1>5. ~(Old(d, i) /\ New(e, j)) /\ ~(New(d, i) /\ Old(e, j))
  BY <1>1
<1>6. QED BY <1>2, <1>3, <1>4, <1>5

LEMMA MoveUp ==
  ASSUME NEW x, NEW y, NEW cl, NEW cm, NEW c \in Clients, NEW a, NEW b, NEW P, Acts(x, y, cl, cm, c, a, b, P)
  PROVE  UpInv(y, cm, b)
<1>0. Based(x) /\ UpInv(x, cl, a) /\ OneMoves(x, y, cl, cm, c, a, b) /\ WireMoves(x, y, cl, cm, c, b, P)
  BY DEF Acts
<1>1. Streams(y, b)
  <2>1. ASSUME NEW k \in DOMAIN x.w PROVE UpSound(y.w[k], b)
    <3>1. UpSound(x.w[k], b)
      BY <1>0, OnwardIs DEF UpInv, Streams, OneMoves
    <3>2. k # 0
      BY <1>0, WireDomain DEF Based
    <3>3. QED BY <1>0, <3>1, <3>2 DEF OneMoves, WireMoves
  <2>2. \A k \in DOMAIN y.w \ DOMAIN x.w : UpSound(y.w[k], b)
    BY <1>0 DEF WireMoves
  <2>3. QED BY <2>1, <2>2 DEF Streams
<1>2. Unsent(y, b)
  BY <1>0 DEF UpInv, Unsent, OneMoves, Onward, Messages
<1>3. OneSession(y)
  BY <1>0 DEF UpInv, OneSession, OneMoves
<1>4. Distinct(cm)
  BY MoveDistinct
<1>5. \A m \in Messages : Two(m, b) => OnePlace(y, cm, m)
  BY <1>4, MovePlace
<1>6. Serves(y, b) /\ Releases(y, cm) /\ Greets(y, cm)
  BY MoveServes, MoveReleases, MoveGreets
<1>7. QED BY <1>1, <1>2, <1>3, <1>4, <1>5, <1>6 DEF UpInv
-----------------------------------------------------------------------------
(* What client c holds and has seen, after the step. *)
OwnHalf(s, q, n, fwd, b) == \A m \in Messages : Two(m, b) => Half(s.inc, q, n[m], fwd[m], m)

OthersHear(c, a, b) ==
    \A d \in Clients, m \in Messages : d # c /\ Two(m, a) => b.got[d][m] = a.got[d][m]

LEMMA MoveOnce ==
  ASSUME NEW x, NEW y, NEW cl, NEW cm, NEW c \in Clients, NEW a, NEW b, NEW P, Once(x, cl, a),
         Acts(x, y, cl, cm, c, a, b, P), Based(y), Dialler(cm, y), OthersHear(c, a, b),
         OwnHalf(cm[c], DownOf(y, cm[c]), b.got[c], y.log.fwd, b)
  PROVE  Once(y, cm, b)
<1>0. OneMoves(x, y, cl, cm, c, a, b) /\ DownInv(x, cl, a) /\ Dialler(cl, x)
  BY DEF Acts, Once
<1>1. UpInv(y, cm, b)
  BY MoveUp
<1>2. \A m \in Messages : Two(m, b) => Two(m, a)
  BY <1>0, OnwardIs DEF OneMoves
<1>3. ASSUME NEW d \in Clients, d # c, NEW m \in Messages, Two(m, b)
      PROVE  Half(cm[d].inc, DownOf(y, cm[d]), b.got[d][m], y.log.fwd[m], m)
  <2>1. Half(cl[d].inc, DownOf(x, cl[d]), a.got[d][m], x.log.fwd[m], m)
    BY <1>0, <1>2, <1>3 DEF DownInv
  <2>2. cm[d] = cl[d] /\ y.log = x.log /\ b.got[d][m] = a.got[d][m]
    BY <1>0, <1>2, <1>3 DEF OneMoves, OthersHear
  <2>3. cl[d].conn # 0 => y.w[cl[d].conn] = x.w[cl[d].conn]
    BY <1>0, <1>3 DEF OneMoves, Dialler
  <2>4. DownOf(y, cm[d]) = DownOf(x, cl[d])
    BY <2>2, <2>3 DEF DownOf
  <2>5. QED BY <2>1, <2>2, <2>4
<1>4. DownInv(y, cm, b)
  BY <1>3 DEF DownInv, OwnHalf
<1>5. b.sent \in Nat
  BY <1>0 DEF OneMoves, Onward
<1>6. QED BY <1>1, <1>4, <1>5 DEF Once

(* A step of client c on its own connection, which becomes u. *)
OwnWire(x, s, t, cm, c, u, b, P) ==
    LET v == x.w[s.conn] IN
    /\ s.conn = 0 => t.conn = 0
    /\ s.conn # 0 =>
         /\ UpSound(u, b) /\ ToSet(u.up) \subseteq ToSet(v.up) \cup P /\ t.conn \in {0, s.conn}
         /\ t.conn = s.conn /\ (t.phase # "wait" \/ Connacked(u.down)) => s.phase # "wait" \/ Connacked(v.down)
         /\ \A i \in Slots : Live(x.b.slots[i]) /\ x.b.slots[i].conn = s.conn => Says(x, cm, c, i, P)
    /\ \A p \in P : p.type # "connect" /\ (p.type \in UpA => s.phase # "wait")

Turn(x, s, t, cm, c, u, a, b, P) ==
    /\ Onward(a, b) /\ TableMoves(s, t, a) /\ OwnWire(x, s, t, cm, c, u, b, P) /\ OthersHear(c, a, b)
    /\ OwnHalf(t, IF t.conn = 0 THEN <<>> ELSE u.down, b.got[c], x.log.fwd, b)

LEMMA OwnOnce ==
  ASSUME NEW x, x = World, Once(x, cli, app), ExchangeInv, ExchangeInv', UNCHANGED <<broker, log>>,
         NEW c \in Clients, NEW t, NEW u, NEW P, cli' = [cli EXCEPT ![c] = t], Only(wire, wire', cli[c].conn, u),
         NEW cm, cm = cli', NEW b, b = app', Turn(x, cli[c], t, cm, c, u, app, b, P)
  PROVE  Once(World', cli', app')
<1> DEFINE y == World'
           cl == cli
           a == app
           k == cl[c].conn
<1>1. x.b = broker /\ x.w = wire /\ x.log = log /\ y.b = broker /\ y.w = wire' /\ y.log = log
  BY DEF World
<1>2. Based(y) /\ Dialler(cm, y) /\ Exchanges(x, cl, a)
  BY DEF ExchangeInv, Exchanges
<1>3. cm[c] = t /\ \A d \in Clients : d # c => cm[d] = cl[d]
  BY <1>2 DEF Exchanges, Dialler
<1>4. DOMAIN y.w = DOMAIN x.w /\ \A n \in DOMAIN x.w : y.w[n] = IF n = k THEN u ELSE x.w[n]
  BY <1>1 DEF Only
<1>5. k # 0 => k \in DOMAIN x.w
  BY <1>2 DEF Exchanges, Dialler
<1>11. UpInv(x, cl, a) /\ Based(x)
  BY DEF Once
<1> HIDE DEF y
<1>6. OneMoves(x, y, cl, cm, c, a, b)
  BY <1>1, <1>3, <1>4 DEF OneMoves, Turn
<1>7. WireMoves(x, y, cl, cm, c, b, P)
  BY <1>3, <1>4, <1>5 DEF WireMoves, Turn, OwnWire
<1>8. Acts(x, y, cl, cm, c, a, b, P)
  BY <1>2, <1>3, <1>6, <1>7, <1>11 DEF Acts, Turn
<1>9. OwnHalf(cm[c], DownOf(y, cm[c]), b.got[c], y.log.fwd, b)
  <2>1. DownOf(y, cm[c]) = IF t.conn = 0 THEN <<>> ELSE u.down
    BY <1>3, <1>4, <1>5 DEF DownOf, Turn, OwnWire
  <2>2. QED BY <1>1, <1>3, <2>1 DEF Turn
<1>10. Once(y, cm, b)
  BY ZenonT(30), <1>2, <1>8, <1>9, MoveOnce DEF Turn
<1>12. QED BY <1>10 DEF y
-----------------------------------------------------------------------------
LEMMA SoundSame ==
  ASSUME NEW v, NEW a, UpSound(v, a), NEW u, u.up = v.up, u.broker = v.broker
  PROVE  UpSound(u, a)
BY DEF UpSound

(* A packet is sent up a sound connection. *)
LEMMA SendSound ==
  ASSUME NEW v, NEW a, UpSound(v, a), IsConn(v), NEW p, PubOK(p, a), p.type \in UpA => v.broker # "backlog",
         \A id \in Ids : Tok(p, UpA, id) => NoTok(v.up, UpA, id),
         IsPub(p) /\ p.qos = 2 => ~Comes(v, p.m)
  PROVE  UpSound(WithUp(v, p), a)
<1> DEFINE u == WithUp(v, p)
<1>1. (u.up = v.up \/ u.up = Append(v.up, p)) /\ u.broker = v.broker
  BY DEF WithUp, IsConn
<1> HIDE DEF u
<1>2. CASE u.up = v.up
  BY <1>1, <1>2, SoundSame DEF u
<1>3. CASE u.up = Append(v.up, p)
  <2>1. IsSeq(v.up) /\ ToSet(u.up) = ToSet(v.up) \cup {p}
    BY <1>3, SetOfAppend DEF IsConn
  <2>2. \A q \in ToSet(u.up) : PubOK(q, a)
    BY <2>1 DEF UpSound
  <2>3. \A id \in Ids : OneTok(u.up, UpA, id)
    BY <1>3, <2>1, TokAppend DEF UpSound
  <2>4. ASSUME NEW q \in ToSet(v.up), IsPub(p), IsPub(q), p.m = q.m, p.qos = 2 \/ q.qos = 2 PROVE FALSE
    <3>1. p.qos = 2
      BY <2>4 DEF UpSound, PubOK
    <3>2. QED BY <2>4, <3>1 DEF Comes
  <2>5. \A q, r \in ToSet(u.up) : IsPub(q) /\ IsPub(r) /\ q.m = r.m /\ q.qos = 2 => q.id = r.id
    BY <2>1, <2>4 DEF UpSound
  <2>6. u.broker = "backlog" => \A q \in ToSet(u.up) : q.type \notin UpA
    BY <1>1, <2>1 DEF UpSound
  <2>7. UpSound(u, a)
    BY <2>2, <2>3, <2>5, <2>6 DEF UpSound
  <2>8. QED BY <2>7 DEF u
<1>4. QED BY <1>1, <1>2, <1>3

LEMMA QuietSound ==
  ASSUME NEW v, NEW a, UpSound(v, a), IsConn(v), NEW p, p.type \notin UpA
  PROVE  UpSound(WithUp(v, p), a)
<1>1. PubOK(p, a) /\ ~IsPub(p) /\ \A id \in Ids : ~Tok(p, UpA, id)
  BY DEF PubOK, IsPub, Tok, UpA
<1>2. QED BY <1>1, SendSound

LEMMA LessHalf ==
  ASSUME NEW inc, NEW q, NEW n, NEW fwd, NEW m, Half(inc, q, n, fwd, m), NEW jnc, jnc \subseteq inc
  PROVE  Half(jnc, q, n, fwd, m) /\ Half(jnc, <<>>, n, fwd, m)
<1>1. OneHeld(jnc, m) /\ (NoHeld(inc, m) => NoHeld(jnc, m))
  BY DEF Half, OneHeld, NoHeld
<1>2. NoCopy(<<>>, m) /\ OneCopy(<<>>, m)
  BY CopyEmpty
<1>3. QED BY <1>1, <1>2 DEF Half

LEMMA KeepTable ==
  ASSUME NEW s, NEW t, NEW a, Tables(s, a), a.sent \in Nat, t.out = s.out \/ Used(t.out) = {}
  PROVE  TableMoves(s, t, a)
BY DEF TableMoves, Keeps, Tables, EntryOK, Messages

(* A step that concerns no exchange: packets may be sent, the client may    *)
(* let go of its connection, and of what it remembers.                      *)
Rests(s, t, v, u, a, b, P) ==
    /\ b.plan = a.plan /\ b.sent = a.sent /\ b.got = a.got
    /\ t.out = s.out \/ Used(t.out) = {}
    /\ t.inc \subseteq s.inc /\ t.conn \in {0, s.conn} /\ (t.conn # 0 => t.phase = s.phase \/ s.phase # "wait")
    /\ \A p \in P : p.type \notin UpA /\ p.type # "connect"
    /\ s.conn # 0 => UpSound(u, a) /\ ToSet(u.up) \subseteq ToSet(v.up) \cup P /\ (t.conn = 0 \/ u.down = v.down)

LEMMA RestsTurn ==
  ASSUME NEW x, NEW cl, NEW a, Once(x, cl, a), NEW c \in Clients, NEW cm, Exchanges(x, cl, a),
         NEW t, NEW u, NEW b, NEW P, Rests(cl[c], t, x.w[cl[c].conn], u, a, b, P)
  PROVE  Turn(x, cl[c], t, cm, c, u, a, b, P)
<1> DEFINE s == cl[c]
<1>1. a.sent \in Nat /\ DownInv(x, cl, a) /\ Tables(s, a)
  BY DEF Once, Exchanges
<1>2. Onward(a, b) /\ OthersHear(c, a, b)
  BY <1>1 DEF Rests, Onward, OthersHear
<1>3. TableMoves(s, t, a)
  BY <1>1, KeepTable DEF Rests
<1>8. \A m : Two(m, b) = Two(m, a)
  BY DEF Two, Rests
<1>4. \A p \in P : ~IsPub(p) /\ p.type # "pubrel" /\ p.type # "connect" /\ p.type \notin UpA
  BY DEF Rests, IsPub, UpA
<1>5. \A i : Says(x, cm, c, i, P)
  BY <1>4 DEF Says
<1>9. s.conn # 0 => UpSound(u, b)
  BY <1>2, OnwardIs DEF Rests
<1>6. OwnWire(x, s, t, cm, c, u, b, P)
  BY <1>4, <1>5, <1>9 DEF OwnWire, Rests
<1>7. OwnHalf(t, IF t.conn = 0 THEN <<>> ELSE u.down, b.got[c], x.log.fwd, b)
  <2> SUFFICES ASSUME NEW m \in Messages, Two(m, b)
               PROVE  Half(t.inc, IF t.conn = 0 THEN <<>> ELSE u.down, b.got[c][m], x.log.fwd[m], m)
    BY DEF OwnHalf
  <2>1. Half(s.inc, DownOf(x, s), b.got[c][m], x.log.fwd[m], m)
    BY <1>1, <1>8 DEF DownInv, Rests
  <2>2. Half(t.inc, DownOf(x, s), b.got[c][m], x.log.fwd[m], m) /\ Half(t.inc, <<>>, b.got[c][m], x.log.fwd[m], m)
    BY <2>1, LessHalf DEF Rests
  <2>3. t.conn = 0 \/ u.down = DownOf(x, s)
    BY DEF Rests, DownOf
  <2>4. QED BY <2>2, <2>3
<1> QED BY <1>2, <1>3, <1>6, <1>7 DEF Turn

LEMMA RestsOnce ==
  ASSUME NEW x, x = World, Once(x, cli, app), ExchangeInv, ExchangeInv', UNCHANGED <<broker, log>>,
         NEW c \in Clients, NEW t, NEW u, NEW P, cli' = [cli EXCEPT ![c] = t], Only(wire, wire', cli[c].conn, u),
         NEW b, b = app', Rests(cli[c], t, wire[cli[c].conn], u, app, b, P)
  PROVE  Once(World', cli', app')
<1>1. x.w = wire
  BY DEF World
<1>2. Exchanges(x, cli, app)
  BY DEF ExchangeInv
<1>3. Turn(x, cli[c], t, cli', c, u, app, b, P)
  BY <1>1, <1>2, RestsTurn
<1>4. QED BY <1>3, OwnOnce
-----------------------------------------------------------------------------
LEMMA OwnSound ==
  ASSUME NEW x, x = World, Once(x, cli, app), ExchangeInv, NEW c \in Clients, cli[c].conn # 0
  PROVE  UpSound(wire[cli[c].conn], app)
<1>1. x.w = wire /\ cli[c].conn \in DOMAIN wire
  BY OwnParts DEF World
<1>2. QED BY <1>1 DEF Once, UpInv, Streams

LEMMA LeavingOnce ==
  ASSUME NEW x, x = World, Once(x, cli, app), ExchangeInv, ExchangeInv', UNCHANGED <<broker, log>>, NEW c \in Clients,
         ConnectTimesOut(c) \/ Abort(c) \/ PingTimesOut(c) \/ Disconnect(c) \/ ClientEof(c)
  PROVE  Once(World', cli', app')
<1> DEFINE s == cli[c]
           k == s.conn
           v == wire[k]
<1>1. /\ IsClient(s) /\ AppOK(app) /\ IsWire(wire) /\ cli = [d \in Clients |-> cli[d]]
      /\ k # 0 => k \in DOMAIN wire /\ IsConn(v)
  BY OwnParts
<1>2. k # 0 /\ app' = app
  BY <1>1 DEF IsClient, ConnectTimesOut, Abort, PingTimesOut, Disconnect, ClientEof, Ready
<1>3. UpSound(v, app)
  BY <1>2, OwnSound
<1>4. UpSound(HungConn(v), app) /\ HungConn(v).up = v.up
  BY <1>1, <1>2, <1>3, HungConnIs, SoundSame
<1>5. ForceClosed(s).conn = 0 /\ ForceClosed(s).out = s.out /\ ForceClosed(s).inc = s.inc
  BY <1>1 DEF ForceClosed, IsClient
<1>6. CASE ForceClose(c)
  <2> DEFINE t == ForceClosed(s)
             u == HungConn(v)
  <2>1. cli' = [cli EXCEPT ![c] = t] /\ Only(wire, wire', k, u)
    BY <1>1, <1>2, <1>6, SendUpIs DEF ForceClose
  <2>2. \A b : b = app => Rests(s, t, v, u, app, b, {})
    BY <1>4, <1>5 DEF Rests
  <2> HIDE DEF t, u
  <2>3. Rests(s, t, v, u, app, app', {})
    BY <1>2, <2>2
  <2>4. QED BY <2>1, <2>3, RestsOnce
<1>7. CASE Disconnect(c)
  <2> DEFINE p == [type |-> "disconnect"]
             z == SendUp(wire, k, p)
             t == ForceClosed(s)
             w == WithUp(v, p)
             u == HungConn(w)
  <2>1. cli' = [cli EXCEPT ![c] = t] /\ wire' = ClientHangsUp(z, k)
    BY <1>7 DEF Disconnect
  <2>0. p.type \notin UpA /\ p.type # "connect"
    BY DEF UpA
  <2> HIDE DEF p
  <2>2. Only(wire, z, k, w) /\ IsConn(w) /\ IsWire(z) /\ UpSound(w, app) /\ ToSet(w.up) \subseteq ToSet(v.up) \cup {p}
    BY <1>1, <1>2, <1>3, <2>0, SendUpIs, WithUpIs, UpSideKeepsEnds, QuietSound
  <2>3. Only(z, wire', k, HungConn(z[k])) /\ z[k] = w
    BY <1>1, <1>2, <2>1, <2>2, SendUpIs DEF Only
  <2>4. Only(wire, wire', k, u)
    BY <1>1, <1>2, <2>2, <2>3, OnlyTwice
  <2>5. UpSound(u, app) /\ u.up = w.up
    BY <2>2, HungConnIs, SoundSame
  <2>6. \A b : b = app => Rests(s, t, v, u, app, b, {p})
    BY <1>5, <2>0, <2>2, <2>5 DEF Rests
  <2> HIDE DEF t, u
  <2>7. Rests(s, t, v, u, app, app', {p})
    BY <1>2, <2>6
  <2>8. QED BY <2>1, <2>4, <2>7, RestsOnce
<1>8. CASE ClientEof(c) /\ ~ForceClose(c)
  <2> DEFINE t == [s EXCEPT !.conn = 0, !.connected = FALSE]
             u == HungConn(v)
  <2>1. wire' = ClientHangsUp(wire, k) /\ cli' = [cli EXCEPT ![c].conn = 0, ![c].connected = FALSE]
    BY <1>8 DEF ClientEof
  <2>2. cli' = [cli EXCEPT ![c] = t]
    BY <1>1, <2>1
  <2>3. t.conn = 0 /\ t.out = s.out /\ t.inc = s.inc
    BY <1>1 DEF IsClient
  <2>4. Only(wire, wire', k, u)
    BY <1>1, <1>2, <2>1, SendUpIs
  <2>5. \A b : b = app => Rests(s, t, v, u, app, b, {})
    BY <1>4, <2>3 DEF Rests
  <2> HIDE DEF t, u
  <2>6. Rests(s, t, v, u, app, app', {})
    BY <1>2, <2>5
  <2>7. QED BY <2>2, <2>4, <2>6, RestsOnce
<1>9. QED BY <1>6, <1>7, <1>8 DEF ConnectTimesOut, Abort, PingTimesOut

LEMMA ForgetfulKeeps ==
  ASSUME NEW s, IsClient(s), NEW o
  PROVE  LET t == Forgetful(s, o) IN t.inc \subseteq s.inc /\ (t.out = s.out \/ Used(t.out) = {})
<1> DEFINE n == NewClient.out
<1>1. Used(n) = {}
  BY NoneUsed
<1> HIDE DEF n
<1>2. Forgetful(s, o) = IF o.clean THEN [s EXCEPT !.out = n, !.inc = {}, !.req = {}] ELSE s
  BY DEF Forgetful, n
<1>3. QED BY <1>1, <1>2 DEF IsClient

LEMMA ConnectFailsOnce ==
  ASSUME NEW x, x = World, Once(x, cli, app), ExchangeInv, ExchangeInv', UNCHANGED <<broker, log>>, NEW c \in Clients,
         ConnectFails(c)
  PROVE  Once(World', cli', app')
<1> DEFINE s == cli[c]
           o == app.plan.opts[Len(wire) + 1]
           f == Forgetful(s, o)
           t == [f EXCEPT !.connected = FALSE, !.clean = o.clean, !.keep = o.keep]
           u == wire[s.conn]
<1>1. IsClient(s) /\ AppOK(app) /\ Tables(s, app) /\ cli = [d \in Clients |-> cli[d]] /\ 0 \notin DOMAIN wire
  BY OwnParts
<1>2. s.conn = 0 /\ s.phase = "idle" /\ cli' = [cli EXCEPT ![c] = [Forgetful(@, o) EXCEPT
                 !.connected = FALSE, !.clean = o.clean, !.keep = o.keep]] /\ wire' = wire /\ app' = app
  BY DEF ConnectFails
<1> HIDE DEF o
<1>3. cli' = [cli EXCEPT ![c] = t]
  BY <1>1, <1>2
<1>4. f.conn = s.conn /\ f.inc \subseteq s.inc /\ (f.out = s.out \/ Used(f.out) = {}) /\ DOMAIN f = DOMAIN s
  BY <1>1, ForgetfulIs, ForgetfulKeeps
<1> HIDE DEF f
<1>5. t.conn = f.conn /\ t.inc = f.inc /\ t.out = f.out
  BY <1>1, <1>4 DEF IsClient
<1> HIDE DEF t
<1>6. \A b : b = app => Rests(s, t, wire[s.conn], u, app, b, {})
  BY <1>2, <1>4, <1>5 DEF Rests
<1>7. Only(wire, wire', s.conn, u)
  BY <1>2, OnlyRefl
<1> HIDE DEF u
<1>8. Rests(s, t, wire[s.conn], u, app, app', {})
  BY <1>2, <1>6
<1>9. QED BY <1>3, <1>7, <1>8, RestsOnce
-----------------------------------------------------------------------------
(* A call that leaves the client's exchanges as they are: it sends packet p *)
(* or nothing. *)
LEMMA CallOnce ==
  ASSUME NEW x, x = World, Once(x, cli, app), ExchangeInv, ExchangeInv', UNCHANGED <<broker, log>>, NEW c \in Clients,
         cli[c].conn # 0, NEW t, cli' = [cli EXCEPT ![c] = t],
         t.conn = cli[c].conn, t.phase = cli[c].phase, t.out = cli[c].out, t.inc = cli[c].inc,
         NEW p, p.type \notin UpA, p.type # "connect",
         wire' = wire \/ wire' = SendUp(wire, cli[c].conn, p),
         app' = app \/ app' = [app EXCEPT !.calls = NextCall]
  PROVE  Once(World', cli', app')
<1> DEFINE s == cli[c]
           k == s.conn
           v == wire[k]
<1>1. AppOK(app) /\ IsWire(wire) /\ k \in DOMAIN wire /\ IsConn(v) /\ UpSound(v, app)
  BY OwnParts, OwnSound
<1>2. app'.plan = app.plan /\ app'.sent = app.sent /\ app'.got = app.got
  BY <1>1 DEF AppOK
<1>3. ASSUME NEW u, UpSound(u, app), ToSet(u.up) \subseteq ToSet(v.up) \cup {p}, u.down = v.down,
             Only(wire, wire', k, u)
      PROVE  Once(World', cli', app')
  <2>1. Rests(s, t, v, u, app, app', {p})
    <3>1. \A b : b.plan = app.plan /\ b.sent = app.sent /\ b.got = app.got => Rests(s, t, v, u, app, b, {p})
      BY <1>3 DEF Rests
    <3>2. QED BY <1>2, <3>1
  <2>2. QED BY <1>3, <2>1, RestsOnce
<1>4. CASE wire' = wire
  BY <1>1, <1>3, <1>4, OnlyRefl
<1>5. CASE wire' = SendUp(wire, k, p)
  <2>1. Only(wire, wire', k, WithUp(v, p))
    BY <1>1, <1>5, SendUpIs
  <2>2. UpSound(WithUp(v, p), app) /\ ToSet(WithUp(v, p).up) \subseteq ToSet(v.up) \cup {p}
      /\ WithUp(v, p).down = v.down
    BY <1>1, QuietSound, WithUpIs
  <2>3. QED BY <1>3, <2>1, <2>2
<1>6. QED BY <1>4, <1>5

LEMMA PingOnce ==
  ASSUME NEW x, x = World, Once(x, cli, app), ExchangeInv, ExchangeInv', UNCHANGED <<broker, log>>, NEW c \in Clients,
         Ping(c)
  PROVE  Once(World', cli', app')
<1> DEFINE s == cli[c]
           p == [type |-> "pingreq"]
           t == [s EXCEPT !.ping = TRUE]
<1>1. IsClient(s) /\ cli = [d \in Clients |-> cli[d]]
  BY OwnParts
<1>2. s.conn # 0 /\ cli' = [cli EXCEPT ![c].ping = TRUE] /\ wire' = SendUp(wire, s.conn, p) /\ app' = app
  BY <1>1 DEF Ping, Ready, IsClient
<1>3. cli' = [cli EXCEPT ![c] = t]
  BY <1>1, <1>2
<1>4. t.conn = s.conn /\ t.phase = s.phase /\ t.out = s.out /\ t.inc = s.inc
  BY <1>1 DEF IsClient
<1>5. p.type \notin UpA /\ p.type # "connect"
  BY DEF UpA
<1> HIDE DEF t, p
<1>6. QED BY <1>2, <1>3, <1>4, <1>5, CallOnce

LEMMA RequestOnce ==
  ASSUME NEW x, x = World, Once(x, cli, app), ExchangeInv, ExchangeInv', UNCHANGED <<broker, log>>, NEW c \in Clients,
         NEW ty \in {"subscribe", "unsubscribe"}, NEW q, Request(c, ty, q)
  PROVE  Once(World', cli', app')
<1> DEFINE s == cli[c]
           id == AllocateIdentifier(s)
           t == [s EXCEPT !.req = @ \cup {[id |-> id, type |-> ty]}, !.next = id]
           p == [type |-> ty, id |-> id, qos |-> q]
<1>1. IsClient(s) /\ cli = [d \in Clients |-> cli[d]]
  BY OwnParts
<1>2. /\ s.connected /\ s.phase = "idle"
      /\ cli' = [cli EXCEPT ![c].req = @ \cup {[id |-> id, type |-> ty]}, ![c].next = id]
      /\ wire' = SendUp(wire, s.conn, p)
      /\ app' = [app EXCEPT !.calls = NextCall]
  BY DEF Request, Ready
<1>3. cli' = [cli EXCEPT ![c] = t]
  BY <1>1, <1>2
<1>4. p.type \notin UpA /\ p.type # "connect"
  BY DEF UpA
<1> HIDE DEF id, p
<1>5. t.conn = s.conn /\ t.phase = s.phase /\ t.out = s.out /\ t.inc = s.inc
  BY <1>1 DEF IsClient
<1>6. s.conn # 0
  BY <1>1, <1>2 DEF IsClient
<1> HIDE DEF t
<1>7. QED BY <1>2, <1>3, <1>4, <1>5, <1>6, CallOnce

LEMMA CallFailsOnce ==
  ASSUME NEW x, x = World, Once(x, cli, app), ExchangeInv, ExchangeInv', UNCHANGED <<broker, log>>, NEW c \in Clients,
         CallFails(c)
  PROVE  Once(World', cli', app')
<1> DEFINE s == cli[c]
           id == AllocateIdentifier(s)
           t == [s EXCEPT !.next = id]
           p == [type |-> "none"]
<1>1. IsClient(s) /\ cli = [d \in Clients |-> cli[d]]
  BY OwnParts
<1>2. /\ s.connected /\ cli' = [cli EXCEPT ![c].next = id] /\ wire' = wire
      /\ app' = app \/ app' = [app EXCEPT !.calls = NextCall]
  BY DEF CallFails, Ready
<1>3. cli' = [cli EXCEPT ![c] = t]
  BY <1>1, <1>2
<1>4. p.type \notin UpA /\ p.type # "connect"
  BY DEF UpA
<1> HIDE DEF id, p
<1>5. t.conn = s.conn /\ t.phase = s.phase /\ t.out = s.out /\ t.inc = s.inc
  BY <1>1 DEF IsClient
<1>6. s.conn # 0
  BY <1>1, <1>2 DEF IsClient
<1> HIDE DEF t
<1>7. QED BY <1>2, <1>3, <1>4, <1>5, <1>6, CallOnce
-----------------------------------------------------------------------------
LEMMA DialSound ==
  ASSUME NEW p, p.type = "connect", NEW a
  PROVE  UpSound(WithUp(Dialled, p), a)
<1> DEFINE u == WithUp(Dialled, p)
<1>1. (\A q \in ToSet(u.up) : q = p) /\ \A id : Single(u, UpA, DownA, id)
  BY DialledIs
<1> HIDE DEF u
<1>2. \A q \in ToSet(u.up) : ~IsPub(q) /\ q.type \notin UpA
  BY <1>1 DEF IsPub, UpA
<1>3. UpSound(u, a)
  BY <1>1, <1>2 DEF UpSound, PubOK, Single
<1>4. QED BY <1>3 DEF u

(* The client dials. *)
LEMMA DialOnce ==
  ASSUME NEW x, x = World, Once(x, cli, app), ExchangeInv, ExchangeInv', UNCHANGED <<broker, log>>, NEW c \in Clients,
         Connect(c)
  PROVE  Once(World', cli', app')
<1> DEFINE s == cli[c]
           y == World'
           k == Len(wire) + 1
           o == app.plan.opts[k]
           p == [type |-> "connect", id |-> c, opts |-> o]
           f == Forgetful(s, o)
           t == [f EXCEPT !.conn = k, !.phase = "wait", !.connected = FALSE, !.clean = o.clean, !.keep = o.keep]
           u == WithUp(Dialled, p)
           cm == cli'
           b == app'
<1>1. IsClient(s) /\ AppOK(app) /\ Tables(s, app) /\ cli = [d \in Clients |-> cli[d]] /\ IsWire(wire)
  BY OwnParts
<1>2. /\ s.conn = 0 /\ Len(wire) < MaxConnections /\ app' = app
      /\ cli' = [cli EXCEPT ![c] = [Forgetful(@, o) EXCEPT
                  !.conn = k, !.phase = "wait", !.connected = FALSE, !.clean = o.clean, !.keep = o.keep]]
      /\ wire' = SendUp(Dial(wire), k, p)
  BY DEF Connect
<1>3. p.type = "connect" /\ p.id = c
  OBVIOUS
<1> HIDE DEF o, p
<1>4. cm = [cli EXCEPT ![c] = t]
  BY <1>1, <1>2
<1>5. f.inc \subseteq s.inc /\ (f.out = s.out \/ Used(f.out) = {}) /\ DOMAIN f = DOMAIN s
  BY <1>1, ForgetfulIs, ForgetfulKeeps
<1> HIDE DEF f, cm
<1>6. t.conn = k /\ t.inc = f.inc /\ t.out = f.out
  BY <1>1, <1>5 DEF IsClient
<1> HIDE DEF t
<1>7. /\ IsWire(Dial(wire)) /\ DOMAIN Dial(wire) = DOMAIN wire \cup {k} /\ k \notin DOMAIN wire
      /\ \A n \in DOMAIN wire : Dial(wire)[n] = wire[n]
      /\ Dial(wire)[k] = Dialled
  <2>1. IsWire(wire) /\ Len(wire) < MaxConnections
    BY <1>1, <1>2
  <2>2. QED BY <2>1, DialAdds
<1>14. k # 0
  BY <1>1, <1>2, DialAdds
<1> HIDE DEF k
<1>8. Only(Dial(wire), wire', k, u)
  BY <1>2, <1>7, SendUpIs
<1>9. DOMAIN wire' = DOMAIN wire \cup {k} /\ wire'[k] = u /\ \A n \in DOMAIN wire : wire'[n] = wire[n]
  BY <1>7, <1>8 DEF Only
<1>10. /\ u.down = <<>> /\ (\A q \in ToSet(u.up) : q = p) /\ UpSound(u, app)
  BY <1>3, DialledIs, DialSound
<1> HIDE DEF u
<1>11. x.b = broker /\ x.w = wire /\ x.log = log /\ y.b = broker /\ y.w = wire' /\ y.log = log
  BY DEF World
<1>12. Based(y) /\ Dialler(cm, y) /\ Exchanges(x, cli, app)
  BY DEF ExchangeInv, Exchanges, cm
<1> HIDE DEF y
<1>13. UpInv(x, cli, app) /\ Based(x) /\ DownInv(x, cli, app) /\ app.sent \in Nat
  BY DEF Once
<1>15. b = app
  BY <1>2
<1> HIDE DEF b
<1>16. cm[c] = t /\ \A d \in Clients : d # c => cm[d] = cli[d]
  BY <1>1, <1>4
<1>17. OneMoves(x, y, cli, cm, c, app, app)
  BY <1>9, <1>11, <1>13, <1>16 DEF OneMoves, Onward
<1>18. TableMoves(s, t, app)
  BY <1>1, <1>5, <1>6, <1>13, KeepTable
<1>19. WireMoves(x, y, cli, cm, c, app, {})
  BY <1>2, <1>3, <1>6, <1>7, <1>9, <1>10, <1>11, <1>16 DEF WireMoves
<1>20. Acts(x, y, cli, cm, c, app, app, {})
  BY <1>12, <1>13, <1>16, <1>17, <1>18, <1>19 DEF Acts
<1>21. OwnHalf(t, DownOf(y, t), app.got[c], y.log.fwd, app)
  <2>1. DownOf(y, t) = <<>>
    BY <1>6, <1>9, <1>10, <1>11 DEF DownOf
  <2>2. \A m \in Messages : Two(m, app) => Half(s.inc, DownOf(x, s), app.got[c][m], x.log.fwd[m], m)
    BY <1>13 DEF DownInv
  <2>3. \A m \in Messages : Two(m, app) => Half(t.inc, <<>>, app.got[c][m], x.log.fwd[m], m)
    BY <1>5, <1>6, <2>2, LessHalf
  <2>4. QED BY <1>11, <2>1, <2>3 DEF OwnHalf
<1>22. OthersHear(c, app, app)
  BY DEF OthersHear
<1>23. Once(y, cm, app)
  BY <1>12, <1>16, <1>20, <1>21, <1>22, MoveOnce
<1>24. QED BY <1>15, <1>23 DEF y, cm, b

LEMMA ForgetOnce ==
  ASSUME NEW x, x = World, Once(x, cli, app), ExchangeInv, ExchangeInv', UNCHANGED <<broker, log>>, NEW c \in Clients,
         cli[c].phase = "acked", cli' = [cli EXCEPT ![c].phase = "idle", ![c].out = NewClient.out, ![c].inc = {}],
         wire' = wire, app' = app
  PROVE  Once(World', cli', app')
<1> DEFINE s == cli[c]
           k == s.conn
           v == wire[k]
           n == NewClient.out
           t == [s EXCEPT !.phase = "idle", !.out = n, !.inc = {}]
<1>1. IsClient(s) /\ cli = [d \in Clients |-> cli[d]]
  BY OwnParts
<1>2. k # 0
  BY <1>1 DEF IsClient
<1>3. UpSound(v, app)
  BY <1>2, OwnSound
<1>4. Used(n) = {}
  BY NoneUsed
<1>5. cli' = [cli EXCEPT ![c] = t]
  BY <1>1
<1> HIDE DEF n
<1>6. t.conn = k /\ t.phase = "idle" /\ t.inc = {} /\ t.out = n
  BY <1>1 DEF IsClient
<1> HIDE DEF t
<1>7. \A b : b = app => Rests(s, t, v, v, app, b, {})
  BY <1>3, <1>4, <1>6 DEF Rests
<1>8. Rests(s, t, v, v, app, app', {})
  BY <1>7
<1>9. Only(wire, wire', k, v)
  BY OnlyRefl
<1>10. QED BY <1>5, <1>8, <1>9, RestsOnce
-----------------------------------------------------------------------------
(* What resend_outgoing() sends, packet by packet. *)
LEMMA ResentPacket ==
  ASSUME NEW s, IsClient(s), NEW a, Tables(s, a), NEW p \in ToSet(Resent(s.out))
  PROVE  \E i \in Used(s.out) : LET e == s.out[i] IN
            /\ p.type \in UpA /\ p.id = e.id /\ EntryOK(e, a)
            /\ IsPub(p) => p.m = e.m /\ p.qos = e.qos /\ e.state # "await_pubcomp" /\ PubOK(p, a)
<1>1. PICK i \in Used(s.out) : p = Resend(s.out[i])
  BY ResentIs
<1> DEFINE e == s.out[i]
<1>2. EntryOK(e, a)
  BY DEF Tables
<1> HIDE DEF e
<1>3. /\ p.id = e.id /\ p.type \in UpA
      /\ e.state # "await_pubcomp" => p.m = e.m /\ p.qos = e.qos
      /\ e.state = "await_pubcomp" => p.type = "pubrel"
  BY <1>1, ResendIs DEF e
<1>4. IsPub(p) => p.m = e.m /\ p.qos = e.qos /\ e.state # "await_pubcomp"
  BY <1>3 DEF IsPub
<1>5. IsPub(p) => PubOK(p, a)
  BY <1>2, <1>3, <1>4 DEF PubOK, EntryOK, Known2
<1>6. QED BY <1>2, <1>3, <1>4, <1>5 DEF e

LEMMA ResentSound ==
  ASSUME NEW s, IsClient(s), NEW a, Tables(s, a), NEW v, IsConn(v), UpSound(v, a), Talk(s, v), s.phase = "acked",
         \A i, j \in Used(s.out) : s.out[i].m = s.out[j].m => i = j
  PROVE  UpSound(WithAllUp(v, Resent(s.out)), a)
<1> DEFINE ps == Resent(s.out)
           u == WithAllUp(v, ps)
<1>1. IsSeq(ps) /\ \A id : OneTok(ps, UpA, id)
  BY ResentIs
<1>2. \A p \in ToSet(ps) : \E i \in Used(s.out) : LET e == s.out[i] IN
            /\ p.type \in UpA /\ p.id = e.id /\ EntryOK(e, a)
            /\ IsPub(p) => p.m = e.m /\ p.qos = e.qos /\ e.state # "await_pubcomp" /\ PubOK(p, a)
  BY ResentPacket
<1> HIDE DEF ps
<1>3. /\ u.broker = v.broker /\ ToSet(u.up) \subseteq ToSet(v.up) \cup ToSet(ps)
      /\ \A id : Idle(v, UpA, DownA, id) => Single(u, UpA, DownA, id)
  BY <1>1, WithAllUpIs DEF SameSides
<1> HIDE DEF u
<1>4. v.broker # "backlog" /\ \A id \in Ids : Idle(v, UpA, DownA, id)
  BY DEF Talk
<1>5. \A p \in ToSet(u.up) : PubOK(p, a)
  BY <1>2, <1>3 DEF UpSound, PubOK
<1>6. \A id \in Ids : OneTok(u.up, UpA, id)
  BY <1>3, <1>4 DEF Single
<1>7. \A p \in ToSet(v.up) : ~(IsPub(p) /\ p.qos = 2)
  BY <1>4 DEF UpSound, PubOK, Idle, NoTok, Tok, IsPub, UpA
<1>8. ASSUME NEW p \in ToSet(u.up), NEW q \in ToSet(u.up), IsPub(p), IsPub(q), p.m = q.m, p.qos = 2
      PROVE  p.id = q.id
  <2>1. q.qos = 2
    BY <1>5, <1>8 DEF PubOK
  <2>2. p \in ToSet(ps) /\ q \in ToSet(ps)
    BY <1>3, <1>7, <1>8, <2>1
  <2>3. PICK i \in Used(s.out) : p.id = s.out[i].id /\ p.m = s.out[i].m
    BY <1>2, <1>8, <2>2
  <2>4. PICK j \in Used(s.out) : q.id = s.out[j].id /\ q.m = s.out[j].m
    BY <1>2, <1>8, <2>2
  <2>5. i = j
    BY <1>8, <2>3, <2>4
  <2>6. QED BY <2>3, <2>4, <2>5
<1>9. UpSound(u, a)
  BY <1>3, <1>4, <1>5, <1>6, <1>8 DEF UpSound
<1>10. QED BY <1>9 DEF u, ps

(* When connect() returns, the broker holds nothing of what is sent again. *)
LEMMA ResumeSays ==
  ASSUME NEW x, NEW cl, NEW a, Based(x), UpInv(x, cl, a), Exchanges(x, cl, a), NEW c \in Clients,
         cl[c].conn # 0, cl[c].phase = "acked", NEW cm, cm[c].out = cl[c].out,
         NEW i \in Slots, Live(x.b.slots[i]), x.b.slots[i].conn = cl[c].conn
  PROVE  Says(x, cm, c, i, ToSet(Resent(cl[c].out)))
<1> DEFINE s == cl[c]
           t == x.b.slots[i]
           v == x.w[s.conn]
           P == ToSet(Resent(s.out))
<1>1. IsClient(s) /\ Tables(s, a) /\ Party(x, s, a)
  BY DEF Exchanges, Dialler
<1>2. t.inc = {}
  BY <1>1 DEF Party, Alive, Live, Link
<1>3. \A p \in P : p.type = "pubrel" \/ (IsPub(p) => \E j \in Used(s.out) :
            p.m = s.out[j].m /\ p.qos = s.out[j].qos /\ s.out[j].state # "await_pubcomp" /\ EntryOK(s.out[j], a))
  BY <1>1, ResentPacket
<1>4. t.level /\ t.id = c
  BY DEF UpInv, Greets, Greeted
<1> HIDE DEF P
<1>5. ASSUME NEW p \in P, IsPub(p), p.qos = 2
      PROVE  x.log.fwd[p.m] = 0 /\ Entry(cm[c], p.m) /\ \A j \in Slots : ~Carries(x, j, p.m)
  <2> DEFINE m == p.m
  <2>1. PICK j \in Used(s.out) :
            m = s.out[j].m /\ p.qos = s.out[j].qos /\ s.out[j].state # "await_pubcomp" /\ EntryOK(s.out[j], a)
    BY <1>3, <1>5 DEF IsPub
  <2>2. m \in Messages /\ Two(m, a) /\ s.out[j].state = "await_pubrec"
    BY <1>5, <2>1 DEF EntryOK, Two
  <2> HIDE DEF m
  <2>3. OnePlace(x, cl, m)
    BY <2>2 DEF UpInv
  <2>4. Wants(s, m) /\ Entry(s, m) /\ Entry(cm[c], m)
    BY <2>1, <2>2 DEF Wants, Entry
  <2>5. x.log.fwd[m] = 0
    BY <2>3, <2>4 DEF OnePlace
  <2>6. ASSUME NEW h \in Slots, Carries(x, h, m) PROVE FALSE
    <3> DEFINE r == x.b.slots[h]
               w == x.w[r.conn]
    <3>1. r.id = c /\ Live(r) /\ (Has(r, m) \/ Comes(w, m))
      BY <2>3, <2>4, <2>6 DEF OnePlace, Carries
    <3>2. SlotSound(r, w, a)
      BY <3>1 DEF UpInv, Serves
    <3>3. r.level
      BY Zenon, <3>1, <3>2 DEF SlotSound, Has, Comes, IsPub, UpA
    <3>4. h = i
      BY <1>4, <3>1, <3>3 DEF UpInv, OneSession
    <3>5. Comes(v, m)
      BY <1>2, <3>1, <3>4 DEF Has
    <3>6. UpSound(v, a)
      BY DEF UpInv, Streams, Based, Open, Live
    <3>7. PICK q \in ToSet(v.up) : IsPub(q) /\ q.m = m
      BY <3>5 DEF Comes
    <3>8. q.qos = 2 /\ q.id \in Ids
      BY <2>2, <3>6, <3>7 DEF UpSound, PubOK, Two, Known2
    <3>9. Idle(v, UpA, DownA, q.id)
      BY <1>1, <3>8 DEF Party, Talk
    <3>10. QED BY <3>7, <3>9 DEF Idle, NoTok, Tok, IsPub, UpA
  <2>7. QED BY <2>4, <2>5, <2>6 DEF m
<1>6. Says(x, cm, c, i, P)
  BY <1>2, <1>5 DEF Says
<1>7. QED BY <1>6 DEF P

LEMMA ResumeOnce ==
  ASSUME NEW x, x = World, Once(x, cli, app), ExchangeInv, ExchangeInv', UNCHANGED <<broker, log>>, NEW c \in Clients,
         cli[c].phase = "acked", cli' = [cli EXCEPT ![c].phase = "idle"],
         wire' = ResendOutgoing(wire, cli[c].conn, cli[c].out),
         app' = [app EXCEPT !.resumed = @ \cup {cli[c].out[i].m : i \in Used(cli[c].out)}]
  PROVE  Once(World', cli', app')
<1> DEFINE s == cli[c]
           k == s.conn
           v == wire[k]
           t == [s EXCEPT !.phase = "idle"]
           P == ToSet(Resent(s.out))
           u == WithAllUp(v, Resent(s.out))
           b == app'
           cm == cli'
<1>1. /\ IsClient(s) /\ AppOK(app) /\ IsWire(wire) /\ cli = [d \in Clients |-> cli[d]] /\ Tables(s, app)
      /\ k # 0 => k \in DOMAIN wire /\ IsConn(v) /\ OwnParty(s, v, app.resumed)
  BY OwnParts
<1>2. k # 0
  BY <1>1 DEF IsClient
<1>3. cm = [cli EXCEPT ![c] = t]
  BY <1>1
<1>4. t.conn = k /\ t.phase = "idle" /\ t.out = s.out /\ t.inc = s.inc
  BY <1>1 DEF IsClient
<1> HIDE DEF t
<1>5. wire' = SendAllUp(wire, k, Resent(s.out))
  BY DEF ResendOutgoing, Resent
<1>6. Only(wire, wire', k, u)
  BY <1>1, <1>2, <1>5, SendAllUpIs
<1>7. b.plan = app.plan /\ b.sent = app.sent /\ b.got = app.got
  BY <1>1 DEF AppOK
<1> HIDE DEF b
<1>8. Based(x) /\ UpInv(x, cli, app) /\ DownInv(x, cli, app) /\ app.sent \in Nat
  BY DEF Once
<1>9. Exchanges(x, cli, app) /\ x.w = wire
  BY DEF ExchangeInv, World
<1>10. UpSound(u, app)
  <2>1. UpSound(v, app) /\ Talk(s, v)
    BY <1>1, <1>2, OwnSound DEF OwnParty
  <2>2. \A i, j \in Used(s.out) : s.out[i].m = s.out[j].m => i = j
    BY <1>8 DEF UpInv, Distinct
  <2>3. QED BY <1>1, <1>2, <2>1, <2>2, ResentSound
<1>11. ToSet(u.up) \subseteq ToSet(v.up) \cup P /\ u.down = v.down
  BY <1>1, <1>2, ResentIs, WithAllUpIs
<1>12. \A p \in P : p.type \in UpA /\ p.type # "connect"
  <2>1. \A p \in P : p.type \in UpA
    BY <1>1, ResentPacket
  <2> HIDE DEF P
  <2>2. QED BY <2>1 DEF UpA
<1>13. cm[c] = t
  BY <1>1, <1>3
<1> HIDE DEF cm
<1>14. \A i \in Slots : Live(x.b.slots[i]) /\ x.b.slots[i].conn = k => Says(x, cm, c, i, P)
  BY <1>2, <1>4, <1>8, <1>9, <1>13, ResumeSays
<1> HIDE DEF P, u
<1>15. Onward(app, b) /\ OthersHear(c, app, b)
  BY <1>7, <1>8 DEF Onward, OthersHear
<1>16. TableMoves(s, t, app)
  BY <1>1, <1>4, <1>8, KeepTable
<1>17. UpSound(u, b)
  BY <1>10, <1>15, OnwardIs
<1>18. OwnWire(x, s, t, cm, c, u, b, P)
  BY <1>2, <1>4, <1>9, <1>11, <1>12, <1>14, <1>17 DEF OwnWire
<1>19. OwnHalf(t, IF t.conn = 0 THEN <<>> ELSE u.down, b.got[c], x.log.fwd, b)
  BY <1>2, <1>4, <1>7, <1>8, <1>9, <1>11 DEF OwnHalf, DownInv, DownOf, Two
<1>20. Turn(x, s, t, cm, c, u, app, b, P)
  BY <1>15, <1>16, <1>18, <1>19 DEF Turn
<1>21. QED BY <1>3, <1>6, <1>20, OwnOnce DEF cm, b

LEMMA ConnectReturnsOnce ==
  ASSUME NEW x, x = World, Once(x, cli, app), ExchangeInv, ExchangeInv', UNCHANGED <<broker, log>>, NEW c \in Clients,
         ConnectReturns(c)
  PROVE  Once(World', cli', app')
BY Zenon, ForgetOnce, ResumeOnce DEF ConnectReturns
-----------------------------------------------------------------------------
(* A new message m of client c goes up its connection as packet p. *)
NewPublish(s, t, p, m, a, b, q) ==
    /\ m = a.sent + 1 /\ m \in Messages /\ q = a.plan.pubs[m].qos
    /\ b.plan = a.plan /\ b.sent = m /\ b.got = a.got
    /\ s.conn # 0 /\ s.phase = "idle" /\ t.conn = s.conn /\ t.phase = s.phase /\ t.inc = s.inc
    /\ IsPub(p) /\ p.m = m /\ p.qos = q
    /\ q = 0 => p.id = 0 /\ t.out = s.out
    /\ q # 0 => /\ p.id \in Ids /\ (\A i \in Used(s.out) : s.out[i].id # p.id)
                /\ \E i \in Entries \ Used(s.out) :
                     /\ Used(t.out) = Used(s.out) \cup {i} /\ t.out[i].m = m
                     /\ \A j \in Used(s.out) : t.out[j] = s.out[j]

LEMMA PublishTurn ==
  ASSUME NEW x, NEW cl, NEW a, Once(x, cl, a), Exchanges(x, cl, a), NEW c \in Clients, NEW cm,
         NEW t, NEW p, NEW m, NEW q \in 0 .. 2, NEW b, NewPublish(cl[c], t, p, m, a, b, q), cm[c] = t
  PROVE  Turn(x, cl[c], t, cm, c, WithUp(x.w[cl[c].conn], p), a, b, {p})
<1> DEFINE s == cl[c]
           v == x.w[s.conn]
           u == WithUp(v, p)
<1>1. /\ a.sent \in Nat /\ DownInv(x, cl, a) /\ UpInv(x, cl, a) /\ Based(x) /\ Dialler(cl, x)
      /\ Tables(s, a)
  BY DEF Once, Exchanges
<1>2. s.conn \in DOMAIN x.w /\ IsConn(v) /\ UpSound(v, a) /\ Talk(s, v)
  BY <1>1 DEF NewPublish, Dialler, Based, UpInv, Streams, Exchanges, Party
<1>3. Onward(a, b) /\ OthersHear(c, a, b)
  BY <1>1 DEF NewPublish, Onward, OthersHear
<1>4. \A i \in Used(s.out) : s.out[i].m \in Messages /\ s.out[i].m <= a.sent
  BY <1>1 DEF Tables, EntryOK
<1>5. TableMoves(s, t, a)
  <2>1. CASE q = 0
    BY <1>1, <2>1, KeepTable DEF NewPublish
  <2>2. CASE q # 0
    <3>1. PICK i \in Entries \ Used(s.out) : /\ Used(t.out) = Used(s.out) \cup {i} /\ t.out[i].m = m
                                             /\ \A j \in Used(s.out) : t.out[j] = s.out[j]
      BY <2>2 DEF NewPublish
    <3>2. m = a.sent + 1
      BY DEF NewPublish
    <3>3. \A j \in Used(s.out) : Keeps(s, t, j) /\ t.out[j].m # a.sent + 1
      BY <1>1, <1>4, <3>1 DEF Keeps, Messages
    <3>4. QED BY <3>1, <3>2, <3>3 DEF TableMoves
  <2>3. QED BY <2>1, <2>2
<1>6. ~Comes(v, m) /\ \A i \in Slots : ~Carries(x, i, m)
  <2>1. ~Known2(m, a)
    BY <1>1 DEF NewPublish, Known2, Messages
  <2>2. ~Comes(v, m)
    BY <1>2, <2>1 DEF Comes, UpSound, PubOK
  <2>3. QED BY <1>1, <2>1, <2>2, CarriesKnown
<1>7. p.type \in UpA /\ p.type # "connect" /\ p.type # "pubrel"
  BY DEF NewPublish, IsPub, UpA
<1>8. UpSound(u, b)
  <2>1. UpSound(v, b)
    BY <1>2, <1>3, OnwardIs
  <2>2. PubOK(p, b)
    BY <1>1 DEF PubOK, Known2, NewPublish, Messages
  <2>3. v.broker # "backlog"
    BY <1>2 DEF Talk, NewPublish
  <2>4. \A id \in Ids : Tok(p, UpA, id) => NoTok(v.up, UpA, id)
    <3>1. CASE q = 0
      BY <3>1 DEF NewPublish, Tok, Ids
    <3>2. CASE q # 0
      <4>1. p.id \in Ids /\ \A i \in Used(s.out) : s.out[i].id # p.id
        BY <3>2 DEF NewPublish
      <4>2. Idle(v, UpA, DownA, p.id)
        BY <1>2, <4>1, UnusedIdle
      <4>3. QED BY <4>2 DEF Idle, Tok
    <3>3. QED BY <3>1, <3>2
  <2>5. p.m = m
    BY DEF NewPublish
  <2>6. QED BY <1>2, <1>6, <2>1, <2>2, <2>3, <2>4, <2>5, SendSound
<1>9. ToSet(u.up) \subseteq ToSet(v.up) \cup {p} /\ u.down = v.down
  BY <1>2, WithUpIs
<1>10. ASSUME NEW i PROVE Says(x, cm, c, i, {p})
  <2>1. CASE q = 2
    <3>1. x.log.fwd[m] = 0
      BY <1>1 DEF UpInv, Unsent, NewPublish, Messages
    <3>2. Entry(t, m)
      BY <2>1 DEF NewPublish, Entry
    <3>3. QED BY <1>6, <1>7, <3>1, <3>2 DEF Says, NewPublish
  <2>2. CASE q # 2
    BY <1>7, <2>2 DEF Says, NewPublish
  <2>3. QED BY <2>1, <2>2
<1> HIDE DEF u
<1>11. OwnWire(x, s, t, cm, c, u, b, {p})
  BY <1>7, <1>8, <1>9, <1>10 DEF OwnWire, NewPublish
<1>12. OwnHalf(t, IF t.conn = 0 THEN <<>> ELSE u.down, b.got[c], x.log.fwd, b)
  <2>1. \A h \in Messages : Two(h, b) => Half(s.inc, DownOf(x, s), a.got[c][h], x.log.fwd[h], h)
    BY <1>1, <1>3, OnwardIs DEF DownInv
  <2>2. DownOf(x, s) = u.down /\ t.conn # 0 /\ t.inc = s.inc /\ b.got = a.got
    BY <1>9 DEF DownOf, NewPublish
  <2>3. QED BY <2>1, <2>2 DEF OwnHalf
<1>13. Turn(x, s, t, cm, c, u, a, b, {p})
  BY <1>3, <1>5, <1>11, <1>12 DEF Turn
<1>14. QED BY <1>13 DEF u

LEMMA ClientPublishOnce ==
  ASSUME NEW x, x = World, Once(x, cli, app), ExchangeInv, ExchangeInv', UNCHANGED <<broker, log>>, NEW c \in Clients,
         Publish(c)
  PROVE  Once(World', cli', app')
<1> DEFINE s == cli[c]
           k == s.conn
           v == wire[k]
           m == app.sent + 1
           q == app.plan.pubs[m].qos
           r == app.plan.pubs[m].retain
           slot == Min(Entries \ Used(s.out))
           e == [state |-> IF q = 1 THEN "await_puback" ELSE "await_pubrec",
                 id |-> IF q = 0 THEN 0 ELSE AllocateIdentifier(s), qos |-> q, retain |-> r, m |-> m]
           p == PublishPacket(e, FALSE)
           b == app'
           cm == cli'
           u == WithUp(v, p)
<1>1. /\ IsClient(s) /\ AppOK(app) /\ IsWire(wire) /\ cli = [d \in Clients |-> cli[d]]
      /\ k # 0 => k \in DOMAIN wire /\ IsConn(v)
  BY OwnParts
<1>2. /\ s.connected /\ s.phase = "idle" /\ m \in DOMAIN app.plan.pubs
      /\ q > 0 => Used(s.out) # Entries /\ e.id # 0
      /\ cli' = [cli EXCEPT ![c] = IF q = 0 THEN s ELSE [s EXCEPT !.out[slot] = e, !.next = e.id]]
      /\ wire' = SendUp(wire, k, p)
      /\ app' = [app EXCEPT !.sent = m]
  BY PublishIs
<1>3. k # 0 /\ m \in Messages /\ q \in 0 .. 2
  BY <1>1, <1>2, PlanIs DEF IsClient
<1>4. IsPub(p) /\ p.m = m /\ p.qos = q /\ p.id = e.id
  BY DEF PublishPacket, IsPub
<1>5. e.m = m /\ e.state # "free" /\ (q = 0 => e.id = 0) /\ (q # 0 => e.id = AllocateIdentifier(s))
  OBVIOUS
<1> HIDE DEF p, e
<1>6. Only(wire, wire', k, u)
  BY <1>1, <1>2, <1>3, SendUpIs
<1>7. b.plan = app.plan /\ b.sent = m /\ b.got = app.got
  BY <1>1, <1>2 DEF AppOK
<1>8. x.w = wire /\ Exchanges(x, cli, app)
  BY DEF World, ExchangeInv
<1>9. \E t : cm = [cli EXCEPT ![c] = t] /\ NewPublish(s, t, p, m, app, b, q)
  <2>1. CASE q = 0
    <3>1. cm = [cli EXCEPT ![c] = s]
      BY <1>1, <1>2, <2>1
    <3>2. NewPublish(s, s, p, m, app, b, q)
      BY <1>2, <1>3, <1>4, <1>5, <1>7, <2>1 DEF NewPublish
    <3>3. QED BY <3>1, <3>2
  <2>2. CASE q # 0
    <3> DEFINE t == [s EXCEPT !.out = [s.out EXCEPT ![slot] = e], !.next = e.id]
    <3>0. slot \in Entries \ Used(s.out) /\ e.id # 0
      BY <1>2, <1>3, <2>2, FreeEntry
    <3> HIDE DEF slot
    <3>1. cm = [cli EXCEPT ![c] = t]
      BY Zenon, <1>1, <1>2, <2>2 DEF IsClient
    <3>2. t.conn = s.conn /\ t.phase = s.phase /\ t.inc = s.inc /\ t.out = [s.out EXCEPT ![slot] = e]
      BY <1>1 DEF IsClient
    <3> HIDE DEF t
    <3>3. OneMore(s, t, slot, e)
      BY <1>5, <3>0, <3>2 DEF OneMore
    <3>4. /\ Used(t.out) = Used(s.out) \cup {slot} /\ t.out[slot] = e
          /\ \A j \in Used(s.out) : t.out[j] = s.out[j]
      BY <1>1, <3>3, OneMoreIs
    <3>5. e.id \in Ids /\ \A i \in Used(s.out) : s.out[i].id # e.id
      BY <1>1, <1>5, <2>2, <3>0, Fresh DEF Busy
    <3> HIDE DEF q, m, b
    <3>6. NewPublish(s, t, p, m, app, b, q)
      <4>1. t.out[slot].m = m
        BY <1>5, <3>4
      <4>2. m = app.sent + 1 /\ q = app.plan.pubs[m].qos
        BY DEF m, q
      <4>3. QED BY <1>2, <1>3, <1>4, <1>5, <1>7, <2>2, <3>0, <3>2, <3>4, <3>5, <4>1, <4>2 DEF NewPublish
    <3>7. QED BY <3>1, <3>6
  <2>3. QED BY <2>1, <2>2
<1> HIDE DEF q, m, b
<1>10. PICK t : cm = [cli EXCEPT ![c] = t] /\ NewPublish(s, t, p, m, app, b, q)
  BY <1>9
<1>11. cm[c] = t
  BY <1>1, <1>10
<1> HIDE DEF cm
<1>12. Turn(x, s, t, cm, c, u, app, b, {p})
  BY <1>3, <1>8, <1>10, <1>11, PublishTurn
<1> HIDE DEF u
<1>13. QED BY <1>6, <1>10, <1>12, OwnOnce DEF cm, b
-----------------------------------------------------------------------------
(* What handling packet p does to the messages that client s holds, and     *)
(* what its callback sees.                                                  *)
Copied(e, p) == e.m = p.m /\ e.retain = p.retain
Seen(mine) == {[m |-> e.m, retain |-> e.retain] : e \in mine}

Hears(s, p, r) ==
    \/ r.deliver = {} /\ r.s.inc = s.inc
    \/ IsPub(p) /\ r.deliver = {} /\ \E e : Copied(e, p) /\ r.s.inc = s.inc \cup {e}
    \/ IsPub(p) /\ r.s.inc = s.inc /\ \E e : Copied(e, p) /\ r.deliver = {e}
    \/ \E mine \in SUBSET s.inc : r.s.inc = s.inc \ mine /\ r.deliver = Seen(mine)

LEMMA HandledHears ==
  ASSUME NEW s, NEW t, t.inc = s.inc, NEW send, NEW p
  PROVE  Hears(s, p, Handled(t, send))
BY DEF Hears, Handled

LEMMA AckHears ==
  ASSUME NEW s, IsClient(s), NEW p, NEW st, NEW r, r = HandleAck(s, p, st), r.ok
  PROVE  Hears(s, p, r)
<1> DEFINE found == {j \in FindOutgoing(s, p.id) : s.out[j].state = st}
           i == CHOOSE j \in found : TRUE
<1>1. found # {}
  BY DEF HandleAck, Rejected
<1>2. CASE p.type = "pubrec"
  <2> DEFINE t == [s EXCEPT !.out[i].state = "await_pubcomp"]
  <2>1. r = Handled(t, <<IdPacket("pubrel", p.id)>>)
    BY <1>1, <1>2 DEF HandleAck
  <2> HIDE DEF i
  <2>2. t.inc = s.inc
    BY DEF IsClient
  <2> HIDE DEF t
  <2>3. QED BY <2>1, <2>2, HandledHears
<1>3. CASE p.type # "pubrec"
  <2> DEFINE t == [s EXCEPT !.out[i] = Free]
  <2>1. r = [Handled(t, <<>>) EXCEPT !.acked = {s.out[i].m}]
    BY <1>1, <1>3 DEF HandleAck
  <2> HIDE DEF i
  <2>2. t.inc = s.inc
    BY DEF IsClient
  <2> HIDE DEF t
  <2>3. r.deliver = {} /\ r.s = t
    BY <2>1 DEF Handled
  <2>4. QED BY <2>2, <2>3 DEF Hears
<1>4. QED BY <1>2, <1>3

LEMMA PublishHears ==
  ASSUME NEW s, IsClient(s), NEW p, IsPub(p), NEW r, r = HandlePublish(s, p), r.ok
  PROVE  Hears(s, p, r)
<1>1. CASE p.qos = 2 /\ Known(s, p.id)
  <2>1. r = Handled(s, <<IdPacket("pubrec", p.id)>>)
    BY <1>1 DEF HandlePublish
  <2>2. QED BY <2>1, HandledHears
<1>2. CASE p.qos \in {0, 1}
  <2> DEFINE q == IF p.qos = 1 THEN <<IdPacket("puback", p.id)>> ELSE <<>>
             e == [m |-> p.m, retain |-> p.retain]
  <2>1. r = [Handled(s, q) EXCEPT !.deliver = {e}]
    BY <1>2 DEF HandlePublish
  <2>2. Copied(e, p)
    BY DEF Copied
  <2> HIDE DEF e
  <2>3. r.s = s /\ r.deliver = {e}
    BY <2>1 DEF Handled
  <2>4. QED BY <2>2, <2>3 DEF Hears
<1>3. CASE p.qos = 2 /\ ~Known(s, p.id) /\ Cardinality(s.inc) < MaxOutstanding
  <2> DEFINE e == [id |-> p.id, m |-> p.m, retain |-> p.retain]
             z == s.inc \cup {e}
             t == [s EXCEPT !.inc = z]
  <2>1. r = Handled(t, <<IdPacket("pubrec", p.id)>>)
    BY <1>3 DEF HandlePublish
  <2>2. Copied(e, p)
    BY DEF Copied
  <2> HIDE DEF e
  <2>3. t.inc = s.inc \cup {e}
    BY DEF IsClient
  <2> HIDE DEF t
  <2>4. r.s = t /\ r.deliver = {}
    BY <2>1 DEF Handled
  <2>5. QED BY <2>2, <2>3, <2>4 DEF Hears
<1>4. CASE ~(p.qos = 2 /\ Known(s, p.id)) /\ ~(p.qos \in {0, 1})
           /\ ~(p.qos = 2 /\ ~Known(s, p.id) /\ Cardinality(s.inc) < MaxOutstanding)
  <2>1. r = Rejected(s)
    BY <1>4 DEF HandlePublish
  <2>2. QED BY <2>1, RejectedIs
<1>5. QED BY <1>1, <1>2, <1>3, <1>4

LEMMA PubrelHears ==
  ASSUME NEW s, IsClient(s), NEW p, NEW r, r = HandlePubrel(s, p)
  PROVE  Hears(s, p, r)
<1> DEFINE mine == {e \in s.inc : e.id = p.id}
           z == s.inc \ mine
           t == [s EXCEPT !.inc = z]
<1>1. r = [Handled(t, <<IdPacket("pubcomp", p.id)>>) EXCEPT !.deliver = Seen(mine)]
  BY DEF HandlePubrel, Seen
<1>2. mine \in SUBSET s.inc
  OBVIOUS
<1> HIDE DEF mine
<1>3. t.inc = s.inc \ mine
  BY DEF IsClient
<1> HIDE DEF t
<1>4. r.s = t /\ r.deliver = Seen(mine)
  BY <1>1 DEF Handled
<1>5. QED BY <1>2, <1>3, <1>4 DEF Hears

LEMMA OthersHears ==
  ASSUME NEW s, IsClient(s), NEW p, NEW r, r.ok,
         (\E ty : r = HandleRequestAck(s, p, ty)) \/ r = HandlePingresp(s)
  PROVE  Hears(s, p, r)
<1>1. ASSUME NEW ty, r = HandleRequestAck(s, p, ty) PROVE Hears(s, p, r)
  <2> DEFINE z == s.req \ {[id |-> p.id, type |-> ty]}
             t == [s EXCEPT !.req = z]
  <2>1. r = Handled(t, <<>>) \/ r = Rejected(s)
    BY <1>1 DEF HandleRequestAck
  <2>2. r = Handled(t, <<>>)
    BY <2>1, RejectedIs
  <2> HIDE DEF z
  <2>3. t.inc = s.inc
    BY DEF IsClient
  <2> HIDE DEF t
  <2>4. QED BY <2>2, <2>3, HandledHears
<1>2. CASE r = HandlePingresp(s)
  <2> DEFINE t == [s EXCEPT !.ping = FALSE]
  <2>1. r = Handled(t, <<>>) \/ r = Rejected(s)
    BY <1>2 DEF HandlePingresp
  <2>2. r = Handled(t, <<>>)
    BY <2>1, RejectedIs
  <2>3. t.inc = s.inc
    BY DEF IsClient
  <2> HIDE DEF t
  <2>4. QED BY <2>2, <2>3, HandledHears
<1>3. QED BY <1>1, <1>2

LEMMA ConnackHears ==
  ASSUME NEW s, IsClient(s), NEW p, NEW r, r = HandleConnack(s, p), r.ok
  PROVE  Hears(s, p, r)
<1> DEFINE t == [s EXCEPT !.phase = "acked", !.connected = TRUE, !.present = p.present]
<1>1. r = Handled(t, <<>>)
  BY RejectedIs DEF HandleConnack
<1>2. t.inc = s.inc
  BY DEF IsClient
<1> HIDE DEF t
<1>3. QED BY <1>1, <1>2, HandledHears

LEMMA HandleHears ==
  ASSUME NEW s, IsClient(s), s.conn # 0, NEW p, NEW r, r = HandlePacket(s, p), r.ok
  PROVE  Hears(s, p, r) /\ (r.s.phase = s.phase \/ p.type = "connack")
<1>1. CASE p.type = "connack"
  <2>1. r = HandleConnack(s, p)
    BY <1>1 DEF HandlePacket
  <2>2. QED BY <1>1, <2>1, ConnackHears
<1>2. CASE p.type = "publish"
  <2>1. r = HandlePublish(s, p)
    BY <1>2 DEF HandlePacket
  <2>2. Aside(s, r)
    BY <2>1, ClientPublishAside
  <2>3. QED BY <1>2, <2>1, <2>2, PublishHears DEF IsPub, Aside, SameClient
<1>3. ASSUME NEW st, r = HandleAck(s, p, st),
             \/ p.type = "puback" /\ st = "await_puback"
             \/ p.type = "pubrec" /\ st = "await_pubrec"
             \/ p.type = "pubcomp" /\ st = "await_pubcomp"
      PROVE  Hears(s, p, r) /\ r.s.phase = s.phase
  <2>1. \E i : Ends1(s, r, i, p) \/ Halves(s, r, i, p)
    BY <1>3, AckIs
  <2>2. r.s.phase = s.phase
    BY <2>1 DEF Ends1, Halves
  <2>3. QED BY <1>3, <2>2, AckHears
<1>4. CASE p.type = "puback"
  <2>1. r = HandleAck(s, p, "await_puback")
    BY <1>4 DEF HandlePacket
  <2>2. QED BY <1>3, <1>4, <2>1
<1>5. CASE p.type = "pubrec"
  <2>1. r = HandleAck(s, p, "await_pubrec")
    BY <1>5 DEF HandlePacket
  <2>2. QED BY <1>3, <1>5, <2>1
<1>6. CASE p.type = "pubcomp"
  <2>1. r = HandleAck(s, p, "await_pubcomp")
    BY <1>6 DEF HandlePacket
  <2>2. QED BY <1>3, <1>6, <2>1
<1>7. CASE p.type \in {"pubrel", "suback", "unsuback", "pingresp"}
  <2>1. \/ r = HandlePubrel(s, p) \/ r = HandleRequestAck(s, p, "subscribe")
        \/ r = HandleRequestAck(s, p, "unsubscribe") \/ r = HandlePingresp(s)
    BY Zenon, <1>7 DEF HandlePacket
  <2>2. Aside(s, r)
    BY <2>1, OthersAside
  <2>3. Hears(s, p, r)
    BY <2>1, PubrelHears, OthersHears
  <2>4. QED BY <2>2, <2>3 DEF Aside, SameClient
<1>8. CASE p.type \notin {"connack", "publish", "puback", "pubrec", "pubcomp", "pubrel", "suback", "unsuback",
    "pingresp"}
  <2>1. r = Rejected(s)
    BY Zenon, <1>8 DEF HandlePacket
  <2>2. QED BY <2>1, RejectedIs
<1>9. QED BY <1>1, <1>2, <1>4, <1>5, <1>6, <1>7, <1>8

(* The way of a message goes on when the client takes packet p. *)
LEMMA HeardIs ==
  ASSUME NEW r, NEW m
  PROVE  /\ (\A d \in r.deliver : ~Bears(d, m)) => Heard(r, m) = 0
         /\ \A e : e \in r.deliver /\ Bears(e, m) /\ (\A d \in r.deliver : Bears(d, m) => d = e) => Heard(r, m) = 1
<1> DEFINE H == {d \in r.deliver : d.m = m /\ d.retain # "copy"}
<1>1. Heard(r, m) = Cardinality(H)
  BY DEF Heard
<1>2. H = {d \in r.deliver : Bears(d, m)}
  BY DEF Bears
<1> HIDE DEF H
<1>3. ASSUME \A d \in r.deliver : ~Bears(d, m) PROVE Heard(r, m) = 0
  <2>1. H = {}
    BY <1>2, <1>3
  <2>2. QED BY <1>1, <2>1, FS_EmptySet
<1>4. ASSUME NEW e \in r.deliver, Bears(e, m), \A d \in r.deliver : Bears(d, m) => d = e PROVE Heard(r, m) = 1
  <2>1. H = {e}
    BY <1>2, <1>4
  <2>2. QED BY <1>1, <2>1, FS_Singleton
<1>5. QED BY <1>3, <1>4

LEMMA HearHalf ==
  ASSUME NEW s, NEW q, IsSeq(q), q # <<>>, NEW p, p = Head(q), NEW n, NEW fwd, NEW m, Half(s.inc, q, n, fwd, m),
         NEW r, Hears(s, p, r)
  PROVE  Half(r.s.inc, Tail(q), n + Heard(r, m), fwd, m)
<1>1. /\ n \in 0 .. 1 /\ OneHeld(s.inc, m) /\ OneCopy(q, m) /\ (NoHeld(s.inc, m) \/ NoCopy(q, m))
      /\ (fwd = 0 => n = 0) /\ (fwd = 0 \/ n = 1 => NoHeld(s.inc, m) /\ NoCopy(q, m))
  BY DEF Half
<1>2. /\ OneCopy(Tail(q), m) /\ (NoCopy(q, m) => NoCopy(Tail(q), m))
      /\ IsCopy(p, m) => NoCopy(Tail(q), m) /\ ~NoCopy(q, m)
  <2>1. p \in ToSet(q)
    BY SetOfTail
  <2>2. QED BY <1>1, <2>1, CopyTail DEF NoCopy
<1>3. \A e : Copied(e, p) /\ IsPub(p) => (Bears(e, m) <=> IsCopy(p, m))
  BY DEF Copied, Bears, IsCopy
<1>4. CASE r.deliver = {} /\ r.s.inc = s.inc
  <2>1. Heard(r, m) = 0
    BY <1>4, HeardIs
  <2>2. QED BY <1>1, <1>2, <1>4, <2>1 DEF Half
<1>5. ASSUME NEW e, IsPub(p), r.deliver = {}, Copied(e, p), r.s.inc = s.inc \cup {e}
      PROVE  Half(r.s.inc, Tail(q), n + Heard(r, m), fwd, m)
  <2>1. Heard(r, m) = 0
    BY <1>5, HeardIs
  <2>2. CASE Bears(e, m)
    <3>1. NoCopy(Tail(q), m) /\ NoHeld(s.inc, m) /\ fwd # 0 /\ n = 0
      BY <1>1, <1>2, <1>3, <1>5, <2>2
    <3>2. OneHeld(r.s.inc, m)
      BY <1>5, <3>1 DEF OneHeld, NoHeld
    <3>3. QED BY <1>2, <2>1, <3>1, <3>2 DEF Half
  <2>3. CASE ~Bears(e, m)
    <3>1. OneHeld(r.s.inc, m) /\ (NoHeld(s.inc, m) => NoHeld(r.s.inc, m))
      BY <1>1, <1>5, <2>3 DEF OneHeld, NoHeld
    <3>2. QED BY <1>1, <1>2, <2>1, <3>1 DEF Half
  <2>4. QED BY <2>2, <2>3
<1>6. ASSUME NEW e, IsPub(p), r.s.inc = s.inc, Copied(e, p), r.deliver = {e}
      PROVE  Half(r.s.inc, Tail(q), n + Heard(r, m), fwd, m)
  <2>1. CASE Bears(e, m)
    <3>1. Heard(r, m) = 1
      BY <1>6, <2>1, HeardIs
    <3>2. NoCopy(Tail(q), m) /\ NoHeld(s.inc, m) /\ fwd # 0 /\ n = 0
      BY <1>1, <1>2, <1>3, <1>6, <2>1
    <3>3. QED BY <1>1, <1>2, <1>6, <3>1, <3>2 DEF Half
  <2>2. CASE ~Bears(e, m)
    <3>1. Heard(r, m) = 0
      BY <1>6, <2>2, HeardIs
    <3>2. QED BY <1>1, <1>2, <1>6, <3>1 DEF Half
  <2>3. QED BY <2>1, <2>2
<1>7. ASSUME NEW mine \in SUBSET s.inc, r.s.inc = s.inc \ mine, r.deliver = Seen(mine)
      PROVE  Half(r.s.inc, Tail(q), n + Heard(r, m), fwd, m)
  <2>1. OneHeld(r.s.inc, m) /\ (NoHeld(s.inc, m) => NoHeld(r.s.inc, m))
    BY <1>1, <1>7 DEF OneHeld, NoHeld
  <2>2. CASE \A e \in mine : ~Bears(e, m)
    <3>1. Heard(r, m) = 0
      BY <1>7, <2>2, HeardIs DEF Seen, Bears
    <3>2. QED BY <1>1, <1>2, <2>1, <3>1 DEF Half
  <2>3. ASSUME NEW e \in mine, Bears(e, m)
        PROVE  Half(r.s.inc, Tail(q), n + Heard(r, m), fwd, m)
    <3> DEFINE d == [m |-> e.m, retain |-> e.retain]
    <3>1. ~NoHeld(s.inc, m) /\ NoHeld(r.s.inc, m)
      BY <1>1, <1>7, <2>3 DEF OneHeld, NoHeld
    <3>2. NoCopy(q, m) /\ fwd # 0 /\ n = 0
      BY <1>1, <3>1
    <3>3. d \in r.deliver /\ Bears(d, m)
      BY <1>7, <2>3 DEF Seen, Bears
    <3>4. \A f \in mine : Bears(f, m) => f = e
      BY <1>1, <2>3 DEF OneHeld
    <3>5. \A g \in r.deliver : Bears(g, m) => g = d
      BY <1>7, <3>4 DEF Seen, Bears
    <3>6. Heard(r, m) = 1
      BY <3>3, <3>5, HeardIs
    <3>7. QED BY <1>2, <2>1, <3>1, <3>2, <3>6 DEF Half
  <2>4. QED BY <2>2, <2>3
<1>8. QED BY <1>4, <1>5, <1>6, <1>7 DEF Hears
-----------------------------------------------------------------------------
(* Client c handled a packet, with result r: what the callbacks have seen. *)
Hearing(c, r, a, b) ==
    /\ b.plan = a.plan /\ b.sent = a.sent
    /\ \A d \in Clients, m \in Messages : b.got[d][m] = a.got[d][m] + IF d = c THEN Heard(r, m) ELSE 0

LEMMA ObservedHearing ==
  ASSUME AppOK(app), NEW c, NEW r, NEW p, NEW b, b = Observed(c, r, p)
  PROVE  Hearing(c, r, app, b)
<1> DEFINE g == [d \in Clients |-> [m \in Messages |-> app.got[d][m] + IF d = c THEN Heard(r, m) ELSE 0]]
<1>1. b.plan = app.plan /\ b.sent = app.sent /\ b.got = g
  BY DEF Observed, AppOK
<1>2. \A d \in Clients, m \in Messages : g[d][m] = app.got[d][m] + IF d = c THEN Heard(r, m) ELSE 0
  OBVIOUS
<1> HIDE DEF g
<1>3. QED BY <1>1, <1>2 DEF Hearing

LEMMA HearingIs ==
  ASSUME NEW x, NEW cl, NEW a, Once(x, cl, a), NEW c \in Clients, NEW r, NEW b, Hearing(c, r, a, b)
  PROVE  /\ Onward(a, b) /\ OthersHear(c, a, b)
         /\ \A m : Two(m, b) = Two(m, a)
         /\ \A v : UpSound(v, a) => UpSound(v, b)
<1>1. a.sent \in Nat /\ DownInv(x, cl, a)
  BY DEF Once
<1>2. Onward(a, b)
  BY <1>1 DEF Hearing, Onward
<1>3. ASSUME NEW d \in Clients, NEW m \in Messages, d # c, Two(m, a) PROVE b.got[d][m] = a.got[d][m]
  <2>1. a.got[d][m] \in 0 .. 1
    BY <1>1, <1>3 DEF DownInv, Half
  <2>2. QED BY <1>3, <2>1 DEF Hearing
<1>4. \A m : Two(m, b) = Two(m, a)
  BY DEF Two, Hearing
<1>5. QED BY <1>2, <1>3, <1>4, OnwardIs DEF OthersHear

LEMMA HearingHalf ==
  ASSUME NEW x, NEW cl, NEW a, Once(x, cl, a), NEW c \in Clients, NEW r, NEW b, Hearing(c, r, a, b),
         NEW q, q = DownOf(x, cl[c]), IsSeq(q), q # <<>>, NEW p, p = Head(q), Hears(cl[c], p, r)
  PROVE  OwnHalf(r.s, Tail(q), b.got[c], x.log.fwd, b)
<1> SUFFICES ASSUME NEW m \in Messages, Two(m, b)
             PROVE  Half(r.s.inc, Tail(q), b.got[c][m], x.log.fwd[m], m)
  BY DEF OwnHalf
<1>1. DownInv(x, cl, a) /\ Two(m, a)
  BY HearingIs DEF Once
<1>2. Half(cl[c].inc, q, a.got[c][m], x.log.fwd[m], m)
  BY <1>1 DEF DownInv
<1>3. Half(r.s.inc, Tail(q), a.got[c][m] + Heard(r, m), x.log.fwd[m], m)
  BY <1>2, HearHalf
<1>4. b.got[c][m] = a.got[c][m] + Heard(r, m)
  BY DEF Hearing
<1>5. QED BY <1>3, <1>4

(* The client takes packet p off its connection, which becomes u, and says  *)
(* what is in P.                                                            *)
Answers(x, s, v, u, p, r, cm, c, a, P) ==
    /\ Hears(s, p, r) /\ r.s.conn = s.conn /\ (r.s.phase = s.phase \/ p.type = "connack") /\ TableMoves(s, r.s, a)
    /\ u.down = Tail(v.down) /\ UpSound(u, a) /\ ToSet(u.up) \subseteq ToSet(v.up) \cup P
    /\ \A q \in P : q.type # "connect" /\ (q.type \in UpA => s.phase # "wait")
    /\ \A i \in Slots : Live(x.b.slots[i]) /\ x.b.slots[i].conn = s.conn => Says(x, cm, c, i, P)

LEMMA AnswersTurn ==
  ASSUME NEW x, NEW cl, NEW a, Once(x, cl, a), NEW c \in Clients, NEW r, NEW b, Hearing(c, r, a, b),
         cl[c].conn # 0, NEW v, v = x.w[cl[c].conn], IsConn(v), v.down # <<>>, NEW p, p = Head(v.down),
         NEW u, NEW cm, NEW P, Answers(x, cl[c], v, u, p, r, cm, c, a, P)
  PROVE  Turn(x, cl[c], r.s, cm, c, u, a, b, P)
<1> DEFINE s == cl[c]
           t == r.s
<1>1. Onward(a, b) /\ OthersHear(c, a, b) /\ UpSound(u, b)
  BY HearingIs DEF Answers
<1>2. TableMoves(s, t, a) /\ t.conn = s.conn /\ Hears(s, p, r)
  BY DEF Answers
<1>3. IsSeq(v.down) /\ p \in ToSet(v.down) /\ ToSet(Tail(v.down)) \subseteq ToSet(v.down)
  BY SetOfTail DEF IsConn
<1>4. t.phase # "wait" \/ Connacked(u.down) => s.phase # "wait" \/ Connacked(v.down)
  BY <1>3 DEF Answers, Connacked
<1>5. OwnWire(x, s, t, cm, c, u, b, P)
  BY <1>1, <1>2, <1>4 DEF OwnWire, Answers
<1>6. v.down = DownOf(x, s)
  BY DEF DownOf
<1>7. OwnHalf(t, Tail(v.down), b.got[c], x.log.fwd, b)
  BY <1>2, <1>3, <1>6, HearingHalf
<1>8. t.conn # 0 /\ u.down = Tail(v.down)
  BY DEF Answers
<1>9. QED BY <1>1, <1>2, <1>5, <1>7, <1>8 DEF Turn
-----------------------------------------------------------------------------
(* What an acknowledgement does to the table o of the client: entry i is    *)
(* given back, or goes on to its second half.                               *)
HalfDone(o, n, i) ==
    /\ i \in Used(o) /\ Used(n) = Used(o) /\ \A j \in Used(o) \ {i} : n[j] = o[j]
    /\ n[i].state = "await_pubcomp" /\ n[i].m = o[i].m

LEMMA EndsTable ==
  ASSUME NEW s, IsClient(s), NEW r, NEW i, NEW p, Ends1(s, r, i, p), NEW a, Tables(s, a), a.sent \in Nat
  PROVE  TableMoves(s, r.s, a)
<1> DEFINE n == r.s.out
           o == s.out
<1>1. \A j \in Entries : n[j] = IF j = i THEN Free ELSE o[j]
  BY DEF IsClient, Ends1
<1>2. \A j \in Used(o) : EntryOK(o[j], a)
  BY DEF Tables
<1> HIDE DEF n, o
<1>3. \A j \in Used(n) : j \in Used(o) /\ n[j] = o[j]
  BY <1>1 DEF Used, Free
<1>4. \A j \in Used(n) : n[j].m # a.sent + 1
  BY <1>2, <1>3 DEF EntryOK, Messages
<1>5. QED BY <1>3, <1>4 DEF TableMoves, Keeps, n, o

LEMMA HalvesDone ==
  ASSUME NEW s, IsClient(s), NEW r, NEW i, NEW p, Halves(s, r, i, p)
  PROVE  HalfDone(s.out, r.s.out, i)
<1> DEFINE n == r.s.out
           o == s.out
           e == [o[i] EXCEPT !.state = "await_pubcomp"]
<1>1. i \in Used(o) /\ i \in Entries /\ \A j \in Entries : n[j] = IF j = i THEN e ELSE o[j]
  BY DEF IsClient, Used, Halves
<1>2. {"state", "id", "qos", "retain", "m"} \subseteq DOMAIN o[i]
  BY <1>1 DEF IsClient
<1>3. e.state = "await_pubcomp" /\ e.m = o[i].m
  BY <1>2
<1> HIDE DEF n, o, e
<1>4. Used(n) = Used(o) /\ \A j \in Used(o) \ {i} : n[j] = o[j]
  BY <1>1, <1>3 DEF Used
<1>5. QED BY <1>1, <1>3, <1>4 DEF n, o, HalfDone

LEMMA HalvesTable ==
  ASSUME NEW s, NEW t, NEW i, HalfDone(s.out, t.out, i), NEW a, Tables(s, a), a.sent \in Nat
  PROVE  TableMoves(s, t, a)
<1>1. \A j \in Used(s.out) : s.out[j].m # a.sent + 1
  BY DEF Tables, EntryOK, Messages
<1>2. \A j \in Used(t.out) : j \in Used(s.out) /\ t.out[j].m = s.out[j].m
          /\ (t.out[j].state = "await_pubrec" => s.out[j].state = "await_pubrec")
  BY DEF HalfDone
<1>3. QED BY <1>1, <1>2 DEF TableMoves, Keeps

(* PUBREL: the client wants the broker to hold the message no more. *)
LEMMA HalvesSays ==
  ASSUME NEW x, NEW cl, NEW a, Once(x, cl, a), Exchanges(x, cl, a), NEW c \in Clients, cl[c].conn # 0,
         NEW cm, NEW i, HalfDone(cl[c].out, cm[c].out, i), \A d \in Clients : d # c => cm[d] = cl[d],
         NEW n \in Slots, Live(x.b.slots[n]), x.b.slots[n].conn = cl[c].conn
  PROVE  Says(x, cm, c, n, {IdPacket("pubrel", cl[c].out[i].id)})
<1> DEFINE s == cl[c]
           id == s.out[i].id
           p == IdPacket("pubrel", id)
           inc == x.b.slots[n].inc
           v == x.w[s.conn]
<1>1. p.type = "pubrel" /\ p.id = id
  BY IdPacketIs
<1> HIDE DEF p
<1>2. Tables(s, a) /\ Link(s, v, inc, a.resumed) /\ Distinct(cl)
  BY DEF Exchanges, Party, Alive, Live, Once, UpInv
<1>3. i \in Used(s.out)
  BY DEF HalfDone
<1>4. ASSUME NEW e \in inc, e.id = id, NEW d \in Clients, Wants(cm[d], e.m) PROVE FALSE
  <2>1. PICK j \in Used(s.out) : s.out[j].id = e.id /\ s.out[j].m = e.m
    BY <1>2 DEF Link
  <2>2. e.m = s.out[i].m
    BY <1>2, <1>3, <1>4, <2>1 DEF Tables
  <2>3. PICK h \in Used(cm[d].out) : cm[d].out[h].m = e.m /\ cm[d].out[h].state = "await_pubrec"
    BY <1>4 DEF Wants
  <2>4. CASE d = c
    <3>1. h \in Used(s.out) /\ s.out[h].m = s.out[i].m /\ h # i
      BY <2>2, <2>3, <2>4 DEF HalfDone
    <3>2. QED BY <1>2, <1>3, <3>1 DEF Distinct
  <2>5. CASE d # c
    <3>1. h \in Used(cl[d].out) /\ cl[d].out[h].m = s.out[i].m
      BY <2>2, <2>3, <2>5
    <3>2. QED BY <1>2, <1>3, <2>5, <3>1 DEF Distinct
  <2>6. QED BY <2>4, <2>5
<1>5. QED BY <1>1, <1>4 DEF Says, IsPub, p

(* The packet is rejected: the client closes its connection. *)
LEMMA RefusedTurn ==
  ASSUME NEW x, NEW cl, NEW a, Once(x, cl, a), Exchanges(x, cl, a), NEW c \in Clients, cl[c].conn # 0,
         NEW r, r.deliver = {}, NEW b, Hearing(c, r, a, b), NEW cm,
         NEW t, t.conn = 0, t.out = cl[c].out, t.inc = cl[c].inc,
         NEW u, UpSound(u, a), u.up = x.w[cl[c].conn].up
  PROVE  Turn(x, cl[c], t, cm, c, u, a, b, {})
<1> DEFINE s == cl[c]
<1>1. a.sent \in Nat /\ DownInv(x, cl, a) /\ Tables(s, a)
  BY DEF Once, Exchanges
<1>2. Onward(a, b) /\ OthersHear(c, a, b) /\ UpSound(u, b) /\ \A m : Two(m, b) = Two(m, a)
  BY HearingIs
<1>3. TableMoves(s, t, a)
  BY <1>1, KeepTable
<1>4. OwnWire(x, s, t, cm, c, u, b, {})
  BY <1>2 DEF OwnWire, Says
<1>5. ASSUME NEW m \in Messages, Two(m, b) PROVE Half(t.inc, <<>>, b.got[c][m], x.log.fwd[m], m)
  <2>1. Half(s.inc, DownOf(x, s), a.got[c][m], x.log.fwd[m], m)
    BY <1>1, <1>2, <1>5 DEF DownInv
  <2>2. Heard(r, m) = 0
    BY HeardIs
  <2>3. b.got[c][m] = a.got[c][m]
    BY <2>1, <2>2 DEF Hearing, Half
  <2>4. QED BY <2>1, <2>3, LessHalf
<1>6. OwnHalf(t, IF t.conn = 0 THEN <<>> ELSE u.down, b.got[c], x.log.fwd, b)
  BY <1>5 DEF OwnHalf
<1>7. QED BY <1>2, <1>3, <1>4, <1>6 DEF Turn
-----------------------------------------------------------------------------
LEMMA QuietSays ==
  ASSUME NEW P, \A q \in P : q.type \notin {"publish", "pubrel"}, NEW x, NEW cm, NEW c, NEW i
  PROVE  Says(x, cm, c, i, P)
BY DEF Says, IsPub

(* Packet p was taken off connection v, which became w, then u. *)
Took(s, v, w, p, a) ==
    /\ IsConn(v) /\ v.down # <<>> /\ UpSound(v, a) /\ p = Head(v.down) /\ w = DownRest(v) /\ v.broker # "backlog"
    /\ \A id \in Ids : Tok(p, DownA, id) => Idle(w, UpA, DownA, id) /\ s.phase = "idle"

Replied(s, w, u, p, r) ==
    r.ok /\ r = HandlePacket(s, p) /\ u = IF r.send = <<>> THEN w ELSE WithUp(w, r.send[1])

Becomes(cl, cm, c, r) == cm[c] = r.s /\ \A d \in Clients : d # c => cm[d] = cl[d]

LEMMA RepliedHears ==
  ASSUME NEW s, IsClient(s), s.conn # 0, NEW w, NEW u, NEW p, NEW r, Replied(s, w, u, p, r)
  PROVE  Hears(s, p, r) /\ (r.s.phase = s.phase \/ p.type = "connack")
BY HandleHears DEF Replied

(* The ways of handling a packet, and what the client answers. *)
LEMMA ReplyAnswers ==
  ASSUME NEW x, NEW cl, NEW a, Once(x, cl, a), Exchanges(x, cl, a), NEW c \in Clients, cl[c].conn # 0,
         NEW v, NEW w, NEW u, NEW p, NEW r, Took(cl[c], v, w, p, a), Replied(cl[c], w, u, p, r),
         NEW cm, Becomes(cl, cm, c, r)
  PROVE  \E P : Answers(x, cl[c], v, u, p, r, cm, c, a, P)
<1> DEFINE s == cl[c]
<1>0. cm[c] = r.s /\ \A d \in Clients : d # c => cm[d] = cl[d]
  BY DEF Becomes
<1>1. IsClient(s) /\ Tables(s, a) /\ a.sent \in Nat
  BY DEF Once, Exchanges, Dialler
<1>2. Hears(s, p, r) /\ (r.s.phase = s.phase \/ p.type = "connack")
  BY <1>1, RepliedHears
<1>3. IsConn(w) /\ w.up = v.up /\ w.down = Tail(v.down) /\ w.broker = v.broker
  BY DownRestIs DEF Shrunk, SameSides, Took
<1>4. UpSound(w, a)
  BY <1>3, SoundSame DEF Took
<1>5. \/ Aside(s, r) \/ Admits(s, r)
      \/ \E i : Ends1(s, r, i, p) \/ Halves(s, r, i, p)
  <2>1. r.ok /\ r = HandlePacket(s, p)
    BY DEF Replied
  <2>2. QED BY Zenon, <1>1, <2>1, HandleIs
<1>6. ASSUME r.send = <<>>, r.s.conn = s.conn, TableMoves(s, r.s, a) PROVE Answers(x, s, v, u, p, r, cm, c, a, {})
  BY <1>2, <1>3, <1>4, <1>6, QuietSays DEF Answers, Replied
<1>7. CASE Aside(s, r)
  <2>1. r.s.conn = s.conn /\ TableMoves(s, r.s, a)
    BY <1>1, <1>7, KeepTable DEF Aside, SameClient
  <2>2. CASE r.send # <<>>
    <3> DEFINE q == r.send[1]
    <3>1. q.type \in {"puback", "pubrec", "pubcomp"}
      BY <1>7, <2>2 DEF Aside
    <3>2. q.type \notin UpA /\ q.type # "connect" /\ q.type \notin {"publish", "pubrel"}
      BY <3>1 DEF UpA
    <3>3. u = WithUp(w, q)
      BY <2>2 DEF Replied
    <3> HIDE DEF q
    <3>4. UpSound(u, a)
      BY <1>3, <1>4, <3>2, <3>3, QuietSound
    <3>7. u.down = w.down /\ ToSet(u.up) \subseteq ToSet(v.up) \cup {q}
      BY <1>3, <3>3, WithUpIs
    <3>5. Answers(x, s, v, u, p, r, cm, c, a, {q})
      BY <1>2, <1>3, <2>1, <3>2, <3>4, <3>7, QuietSays DEF Answers
    <3>6. QED BY <3>5
  <2>3. QED BY <1>6, <2>1, <2>2
<1>8. CASE Admits(s, r)
  <2>1. r.send = <<>> /\ r.s.conn = s.conn /\ TableMoves(s, r.s, a)
    BY <1>1, <1>8, KeepTable DEF Admits
  <2>2. QED BY <1>6, <2>1
<1>9. ASSUME NEW i, Ends1(s, r, i, p) PROVE \E P : Answers(x, s, v, u, p, r, cm, c, a, P)
  <2>1. r.send = <<>> /\ r.s.conn = s.conn
    BY <1>9 DEF Ends1
  <2>2. TableMoves(s, r.s, a)
    BY <1>1, <1>9, EndsTable
  <2>3. QED BY <1>6, <2>1, <2>2
<1>10. ASSUME NEW i, Halves(s, r, i, p) PROVE \E P : Answers(x, s, v, u, p, r, cm, c, a, P)
  <2> DEFINE id == s.out[i].id
             q == IdPacket("pubrel", id)
  <2>1. /\ i \in Used(s.out) /\ id = p.id /\ p.type = "pubrec" /\ r.s.conn = s.conn
        /\ r.send = <<IdPacket("pubrel", p.id)>>
    BY <1>10 DEF Halves
  <2>2. id \in Ids
    BY <1>1, <2>1 DEF Tables, EntryOK
  <2>3. Idle(w, UpA, DownA, id) /\ s.phase = "idle"
    BY <2>1, <2>2 DEF Tok, DownA, Took
  <2>4. HalfDone(s.out, r.s.out, i)
    BY <1>1, <1>10, HalvesDone
  <2>5. TableMoves(s, r.s, a)
    BY <1>1, <2>4, HalvesTable
  <2>6. \A n \in Slots : Live(x.b.slots[n]) /\ x.b.slots[n].conn = s.conn => Says(x, cm, c, n, {q})
    <3> SUFFICES ASSUME NEW n \in Slots, Live(x.b.slots[n]), x.b.slots[n].conn = s.conn PROVE Says(x, cm, c, n, {q})
      OBVIOUS
    <3>1. HalfDone(cl[c].out, cm[c].out, i)
      BY <1>0, <2>4
    <3>2. Says(x, cm, c, n, {IdPacket("pubrel", cl[c].out[i].id)})
      BY Zenon, <1>0, <3>1, HalvesSays
    <3>3. QED BY <3>2
  <2>7. q.type = "pubrel" /\ q.id = id
    BY DEF IdPacket
  <2>8. r.send # <<>> /\ r.send[1] = q
    BY <2>1
  <2> HIDE DEF q
  <2>9. u = WithUp(w, q)
    BY <2>8 DEF Replied
  <2>10. PubOK(q, a) /\ ~IsPub(q) /\ q.type # "connect"
    BY <2>7 DEF PubOK, IsPub
  <2>11. \A n \in Ids : Tok(q, UpA, n) => NoTok(w.up, UpA, n)
    BY <2>3, <2>7 DEF Tok, Idle
  <2>12. w.broker # "backlog"
    BY <1>3 DEF Took
  <2>15. UpSound(u, a)
    BY Zenon, <1>3, <1>4, <2>9, <2>10, <2>11, <2>12, SendSound
  <2>16. u.down = w.down /\ ToSet(u.up) \subseteq ToSet(v.up) \cup {q}
    BY <1>3, <2>9, WithUpIs
  <2>13. Answers(x, s, v, u, p, r, cm, c, a, {q})
    BY <1>2, <1>3, <2>1, <2>3, <2>5, <2>6, <2>10, <2>15, <2>16 DEF Answers
  <2>14. QED BY <2>13
<1>11. QED BY <1>5, <1>7, <1>8, <1>9, <1>10

LEMMA ClientReceiveOnce ==
  ASSUME NEW x, x = World, Once(x, cli, app), ExchangeInv, ExchangeInv', UNCHANGED <<broker, log>>, NEW c \in Clients,
         ClientReceive(c)
  PROVE  Once(World', cli', app')
<1> DEFINE s == cli[c]
           k == s.conn
           v == wire[k]
           w == DownRest(v)
           p == Head(v.down)
           r == HandlePacket(s, p)
<1>1. /\ IsClient(s) /\ AppOK(app) /\ IsWire(wire) /\ cli = [d \in Clients |-> cli[d]]
      /\ k # 0 => k \in DOMAIN wire /\ IsConn(v) /\ OwnParty(s, v, app.resumed)
  BY OwnParts
<1>2. /\ k # 0 /\ v.down # <<>> /\ app' = Observed(c, r, p)
      /\ \/ /\ r.ok
            /\ cli' = [cli EXCEPT ![c] = r.s]
            /\ wire' = IF r.send = <<>> THEN ReceiveDown(wire, k)
                       ELSE SendUp(ReceiveDown(wire, k), k, r.send[1])
         \/ ~r.ok /\ ForceClose(c)
  BY DEF ClientReceive
<1>3. UpSound(v, app) /\ x.w = wire /\ Exchanges(x, cli, app)
  BY Zenon, <1>2, OwnSound DEF World, ExchangeInv
<1> DEFINE b == app'
<1>4. b = Observed(c, r, p)
  BY <1>2
<1> HIDE DEF b, r
<1>5. Hearing(c, r, app, b)
  BY <1>1, <1>4, ObservedHearing
<1>6. b = app'
  BY DEF b
<1>7. CASE ~r.ok
  <2> DEFINE t == ForceClosed(s)
             u == HungConn(v)
  <2>1. cli' = [cli EXCEPT ![c] = t] /\ Only(wire, wire', k, u)
    BY <1>1, <1>2, <1>7, SendUpIs DEF ForceClose
  <2>2. UpSound(u, app) /\ u.up = v.up
    BY <1>1, <1>2, <1>3, HungConnIs, SoundSame
  <2>3. t.conn = 0 /\ t.out = s.out /\ t.inc = s.inc
    BY <1>1 DEF ForceClosed, IsClient
  <2>4. r.deliver = {}
    BY <1>7, NotOk DEF r, Rejected
  <2> HIDE DEF t, u
  <2>5. Turn(x, s, t, cli', c, u, app, b, {})
    BY <1>2, <1>3, <1>5, <2>2, <2>3, <2>4, RefusedTurn
  <2>6. QED BY <1>6, <2>1, <2>5, OwnOnce
<1>8. CASE r.ok
  <2> DEFINE u == IF r.send = <<>> THEN w ELSE WithUp(w, r.send[1])
             t == r.s
             cm == cli'
  <2>1. /\ p \in ToSet(v.down) /\ v.broker # "backlog"
        /\ \A id \in Ids : Tok(p, DownA, id) => Idle(w, UpA, DownA, id) /\ s.phase = "idle"
    BY <1>1, <1>2, TakenOff
  <2>2. Only(wire, wire', k, u) /\ cli' = [cli EXCEPT ![c] = t]
    BY <1>1, <1>2, <1>8, ReplyIs
  <2>3. Becomes(cli, cm, c, r)
    BY <1>1, <2>2 DEF Becomes
  <2>4. Replied(s, w, u, p, r)
    BY <1>8 DEF r, Replied
  <2>5. cm = cli'
    OBVIOUS
  <2>6. Took(s, v, w, p, app) /\ p = Head(v.down) /\ v = x.w[k]
    BY <1>1, <1>2, <1>3, <2>1 DEF Took
  <2> HIDE DEF u, cm, p, w
  <2>7. \E P : Answers(x, s, v, u, p, r, cm, c, app, P)
    BY Zenon, <1>2, <1>3, <2>3, <2>4, <2>6, ReplyAnswers
  <2>8. PICK P : Answers(x, s, v, u, p, r, cm, c, app, P)
    BY <2>7
  <2>9. Turn(x, s, t, cm, c, u, app, b, P)
    BY <1>1, <1>2, <1>5, <2>6, <2>8, AnswersTurn
  <2>10. QED BY <1>6, <2>2, <2>5, <2>9, OwnOnce
<1>9. QED BY <1>2, <1>7, <1>8
-----------------------------------------------------------------------------
OnceInv == Once(World, cli, app) /\ app.sent <= MaxMessages

LEMMA ClientOnce ==
  ASSUME NEW x, x = World, Once(x, cli, app), ExchangeInv, ExchangeInv', UNCHANGED <<broker, log>>, NEW c \in Clients,
         ClientNext(c), HasNested, Unnested'
  PROVE  Once(World', cli', app')
<1>1. CASE Connect(c)
  BY <1>1, DialOnce
<1>2. CASE ConnectFails(c)
  BY <1>2, ConnectFailsOnce
<1>3. CASE ConnectReturns(c)
  BY <1>3, ConnectReturnsOnce
<1>4. CASE Publish(c)
  BY <1>4, ClientPublishOnce
<1>5. CASE Subscribe(c)
  BY <1>5, RequestOnce DEF Subscribe
<1>6. CASE Unsubscribe(c)
  BY <1>6, RequestOnce DEF Unsubscribe
<1>7. CASE CallFails(c)
  BY <1>7, CallFailsOnce
<1>8. CASE Ping(c)
  BY <1>8, PingOnce
<1>9. CASE ClientReceive(c)
  BY <1>9, ClientReceiveOnce
<1>10. CASE ConnectTimesOut(c) \/ Abort(c) \/ PingTimesOut(c) \/ Disconnect(c) \/ ClientEof(c)
  BY <1>10, LeavingOnce
<1>11. CASE CallbackPublishes(c)
  BY <1>11, NestedPublish DEF Unnested
<1>12. QED BY <1>1, <1>2, <1>3, <1>4, <1>5, <1>6, <1>7, <1>8, <1>9, <1>10, <1>11 DEF ClientNext

(* No more is published than the plan holds. *)
LEMMA SentStays ==
  ASSUME ExchangeInv, app.sent <= MaxMessages, NEW c \in Clients, ClientNext(c), HasNested, Unnested'
  PROVE  app'.sent <= MaxMessages
<1>1. AppOK(app) /\ MaxMessages \in Nat
  BY MqttWireAssumption DEF ExchangeInv
<1>2. CASE Publish(c)
  <2>1. app'.sent = app.sent + 1 /\ app.sent + 1 \in DOMAIN app.plan.pubs
    BY <1>1, <1>2 DEF Publish, CanPublish, AppOK
  <2>2. QED BY <1>1, <2>1, PlanIs DEF Messages
<1>3. CASE ~Publish(c)
  <2>0. ~CallbackPublishes(c)
    BY NestedPublish DEF Unnested
  <2>1. app'.sent = app.sent
    BY Zenon, <1>1, <1>3, <2>0 DEF AppOK, ClientNext, Connect, ConnectFails, ConnectReturns, Subscribe, Unsubscribe,
        Request,
       CallFails, Ping, ClientReceive, Observed, ConnectTimesOut, Abort, PingTimesOut, Disconnect, ClientEof
  <2>2. QED BY <2>1
<1>4. QED BY <1>2, <1>3

LEMMA OnceInit == Init => OnceInv
<1> SUFFICES ASSUME Init PROVE OnceInv
  OBVIOUS
<1> DEFINE x == World
<1>1. /\ x.w = <<>> /\ x.log.fwd = [m \in Messages |-> 0] /\ \A i \in Slots : x.b.slots[i].conn = 0
      /\ cli = [c \in Clients |-> NewClient] /\ \E s \in Scenarios : app = NewApp(s)
  BY DEF Init, BrokerInit, WireInit, ClientInit, World, NewSlot
<1>2. Based(x) /\ Dialler(cli, x)
  BY ExchangeInit DEF ExchangeInv, Exchanges
<1> HIDE DEF x
<1>3. DOMAIN x.w = {}
  BY <1>1, EmptyIs
<1>5. \A i \in Slots : ~Live(x.b.slots[i])
  BY <1>1 DEF Live
<1>6. \A c \in Clients : Used(cli[c].out) = {} /\ cli[c].inc = {} /\ cli[c].conn = 0
  BY <1>1, NoneUsed DEF NewClient
<1>7. app.sent = 0 /\ \A c \in Clients, m \in Messages : app.got[c][m] = 0
  BY <1>1 DEF NewApp
<1>8. UpInv(x, cli, app)
  <2>1. Streams(x, app) /\ Serves(x, app) /\ OneSession(x) /\ Releases(x, cli)
    BY <1>3, <1>5 DEF Streams, Serves, OneSession, Releases
  <2>2. Unsent(x, app)
    BY <1>1 DEF Unsent
  <2>3. Distinct(cli) /\ Greets(x, cli)
    BY <1>6 DEF Distinct, Greets
  <2>4. \A m \in Messages : OnePlace(x, cli, m)
    BY <1>1, <1>5, <1>6 DEF OnePlace, Carries, Wants, Entry
  <2>5. QED BY <2>1, <2>2, <2>3, <2>4 DEF UpInv
<1>9. DownInv(x, cli, app)
  <2>1. \A m : Half({}, <<>>, 0, 0, m)
    BY CopyEmpty DEF Half, OneHeld, NoHeld
  <2>2. QED BY <1>1, <1>6, <1>7, <2>1 DEF DownInv, DownOf
<1>10. QED BY <1>2, <1>7, <1>8, <1>9, MqttWireAssumption DEF OnceInv, Once, x

LEMMA OnceStep == ExchangeInv /\ ExchangeInv' /\ OnceInv /\ HasNested /\ Unnested' /\ [Next]_vars => OnceInv'
<1> SUFFICES ASSUME ExchangeInv, ExchangeInv', OnceInv, HasNested, Unnested', [Next]_vars PROVE OnceInv'
  OBVIOUS
<1> DEFINE x == World
<1>1. Once(x, cli, app) /\ Exchanges(x, cli, app) /\ Based(World') /\ x = World /\ app.sent <= MaxMessages
  BY DEF ExchangeInv, OnceInv
<1> HIDE DEF x
<1>2. ASSUME NEW c \in Clients, ClientNext(c), UNCHANGED <<listening, broker, log>> PROVE OnceInv'
  <2>1. Once(World', cli', app')
    BY <1>1, <1>2, ClientOnce
  <2>2. QED BY <1>1, <1>2, <2>1, SentStays DEF OnceInv
<1>3. CASE BrokerNext /\ UNCHANGED <<cli, app>>
  <2>1. Once(World', cli, app)
    BY <1>1, <1>3, BrokerOnce
  <2>2. QED BY <1>1, <1>3, <2>1 DEF OnceInv
<1>4. ASSUME NEW k \in Connections, Cut(k), UNCHANGED <<cli, app, broker, log>> PROVE OnceInv'
  <2>1. Once(World', cli, app)
    BY <1>1, <1>4, CutOnce
  <2>2. QED BY <1>1, <1>4, <2>1 DEF OnceInv
<1>5. CASE UNCHANGED vars
  <2>1. World' = World
    BY <1>5 DEF World, vars
  <2>2. QED BY <1>5, <2>1 DEF OnceInv, vars
<1>6. QED BY <1>2, <1>3, <1>4, <1>5 DEF Next

LEMMA UnnestedOnceStep ==
  UnnestedInv /\ UnnestedInv' /\ (Unnested => OnceInv) /\ [Next]_vars => (Unnested => OnceInv)'
BY OnceStep, NestedStays DEF UnnestedInv

(* A message published with QoS 2 is handed to the subscribers at most      *)
(* once, and reaches the callback of each of them at most once, whatever    *)
(* connections are cut and whatever is sent again, as long as no message    *)
(* callback has called publish() inside connect().                          *)
THEOREM MqttAtMostOnce == Spec => [](~app.nested => AtMostOnce)
<1>1. OnceInv => AtMostOnce
  <2> SUFFICES ASSUME OnceInv, NEW m \in Published, Quality(m) = 2
               PROVE  log.fwd[m] <= 1 /\ \A c \in Clients : app.got[c][m] <= 1
    BY DEF AtMostOnce
  <2>1. UpInv(World, cli, app) /\ DownInv(World, cli, app) /\ app.sent \in Nat /\ app.sent <= MaxMessages
    BY DEF OnceInv, Once
  <2>2. m \in Messages /\ Two(m, app)
    BY <2>1, MqttWireAssumption DEF Published, Messages, Two, Quality
  <2>3. OnePlace(World, cli, m)
    BY <2>1, <2>2 DEF UpInv
  <2>4. \A c \in Clients : app.got[c][m] \in 0 .. 1
    BY <2>1, <2>2 DEF DownInv, Half
  <2>5. QED BY <2>3, <2>4 DEF OnePlace, World
<1>2. (Unnested => OnceInv) => (~app.nested => AtMostOnce)
  BY <1>1 DEF Unnested
<1>3. Init => (Unnested => OnceInv)
  BY OnceInit
<1>4. QED BY WillInit, WillStep, UnnestedInit, UnnestedStep, UnnestedOnceStep, <1>2, <1>3, PTL DEF Spec
=============================================================================
