------------------------------ MODULE CoapProofs ------------------------------
(* Machine-checked theorems about CoapSystem, for any clients and requests,  *)
(* any sizes of the tables, any limit of retransmissions and of requests,    *)
(* and any loss, repetition, delay and reordering of the datagrams.          *)
EXTENDS CoapSystem, SequenceTheorems, FiniteSetTheorems, WellFoundedInduction, TLAPS

USE CoapWireAssumption, CoapClientAssumption, CoapServerAssumption

-----------------------------------------------------------------------------
(* Types *)

Paths == {"resource", "unknown", "critical"}
Codes == Paths \cup {"empty", "content", "not_found", "service_unavailable", "bad_option"}
Types == {"CON", "NON", "ACK", "RST"}
Kinds == {"response", "time_out", "cancelled"}
Origins == {<<>>} \cup (Clients \X Nat)

(* A datagram in the network, from or to a client. *)
Wire ==
    [dir : {"up", "down"}, peer : Clients, type : Types, mid : Nat,
     token : Nat, code : Codes, observe : BOOLEAN, of : Origins]

Exchange == [active : BOOLEAN, mid : Nat, retransmissions : Nat, acknowledged : BOOLEAN,
             waited : BOOLEAN]

Client == [ex : [Slots -> Exchange], recent : Seq(Nat), next : Nat \ {0}]

Application ==
    [outcome : Seq(Seq(Kinds)), heard : SUBSET (Nat \X Wire), again : SUBSET Wire,
     rejected : SUBSET Wire, forgotten : SUBSET Nat, orphans : SUBSET Nat]

CacheEntry == [peer : Clients, mid : Nat, reply : Wire]
PendingEntry == [active : BOOLEAN, sent : Wire \cup {NoDatagram}, retries : Nat]

Server ==
    [recent : Seq(CacheEntry), pending : [Pending -> PendingEntry],
     count : [Clients -> Nat], next : Nat, failures : Nat]

Done ==
    [runs : [Clients -> Seq(Nat)], forgotten : SUBSET (Clients \X Nat), acked : SUBSET Wire]

TypeOK ==
    /\ plan \in Scenario
    /\ net \subseteq Wire
    /\ cli \in [Clients -> Client]
    /\ app \in [Clients -> Application]
    /\ \A c \in Clients : Len(app[c].outcome) = Len(plan.asks[c])
    /\ srv \in Server
    /\ done \in Done
    /\ \A c \in Clients : Len(done.runs[c]) = Len(plan.asks[c])

-----------------------------------------------------------------------------
(* The constructors of datagrams *)

IsReply(d, c, m) ==
    /\ d.dir = "down" /\ d.type \in {"ACK", "NON"}
    /\ d.peer = c /\ d.mid = m /\ d.of = <<c, m>>

LEMMA AskType ==
  ASSUME plan \in Scenario, NEW c \in Clients, NEW m \in Ids(c)
  PROVE  /\ m \in Nat /\ Ask(c, m).type \in {"CON", "NON"} /\ Ask(c, m).token \in Nat
         /\ Ask(c, m).observe \in BOOLEAN /\ Ask(c, m).path \in Paths
<1>1. plan.asks \in [Clients -> Seq(Request)]
  BY DEF Scenario
<1>2. plan.asks[c] \in Seq(Request) /\ m \in 1 .. Len(plan.asks[c])
  BY <1>1 DEF Ids
<1>3. plan.asks[c][m] \in Request /\ m \in Nat
  BY <1>2, ElementOfSeq
<1>4. QED BY <1>3 DEF Ask, Request, Paths

LEMMA IdsType ==
  ASSUME plan \in Scenario, NEW c \in Clients
  PROVE  Len(plan.asks[c]) \in Nat /\ Ids(c) = 1 .. Len(plan.asks[c]) /\ Ids(c) \subseteq Nat
<1>1. plan.asks \in [Clients -> Seq(Request)]
  BY DEF Scenario
<1>2. plan.asks[c] \in Seq(Request)
  BY <1>1
<1>3. QED BY <1>2 DEF Ids

LEMMA DatagramIs ==
  ASSUME NEW dir \in {"up", "down"}, NEW peer \in Clients, NEW type \in Types, NEW mid \in Nat,
         NEW token \in Nat, NEW code \in Codes, NEW observe \in BOOLEAN, NEW of \in Origins,
         NEW d, d = Datagram(dir, peer, type, mid, token, code, observe, of)
  PROVE  /\ d \in Wire
         /\ d.dir = dir /\ d.peer = peer /\ d.type = type /\ d.mid = mid
         /\ d.token = token /\ d.code = code /\ d.observe = observe /\ d.of = of
BY DEF Datagram, Wire

LEMMA RequestOfIs ==
  ASSUME plan \in Scenario, NEW c \in Clients, NEW m \in Ids(c)
  PROVE  /\ RequestOf(c, m) \in Wire /\ RequestOf(c, m).dir = "up"
         /\ RequestOf(c, m).type \in {"CON", "NON"}
         /\ RequestOf(c, m).peer = c /\ RequestOf(c, m).mid = m
<1> DEFINE r == Ask(c, m)
<1>1. r.type \in Types /\ r.path \in Codes /\ <<c, m>> \in Origins
  BY AskType DEF Types, Codes, Origins
<1>2. RequestOf(c, m) = Datagram("up", c, r.type, m, r.token, r.path, r.observe, <<c, m>>)
  BY DEF RequestOf
<1> HIDE DEF r
<1>3. r.type \in {"CON", "NON"} /\ r.token \in Nat /\ r.observe \in BOOLEAN /\ m \in Nat
  BY AskType DEF r
<1>4. QED BY <1>1, <1>2, <1>3, DatagramIs

LEMMA ControlIs ==
  ASSUME NEW dir \in {"up", "down"}, NEW c \in Clients, NEW type \in {"ACK", "RST"}, NEW m \in Nat
  PROVE  /\ Control(dir, c, type, m) \in Wire /\ Control(dir, c, type, m).dir = dir
         /\ Control(dir, c, type, m).type = type /\ Control(dir, c, type, m).peer = c
         /\ Control(dir, c, type, m).mid = m /\ Control(dir, c, type, m).code = "empty"
<1>1. type \in Types /\ "empty" \in Codes /\ <<>> \in Origins
  BY DEF Types, Codes, Origins
<1>2. QED BY <1>1 DEF Control, Datagram, Wire

LEMMA ReplyIs ==
  ASSUME plan \in Scenario, NEW c \in Clients, NEW m \in Ids(c),
         NEW code \in Codes, NEW observe \in BOOLEAN
  PROVE  Reply(c, m, code, observe) \in Wire /\ IsReply(Reply(c, m, code, observe), c, m)
<1> DEFINE r == Ask(c, m)
<1> DEFINE type == IF r.type = "CON" THEN "ACK" ELSE "NON"
<1>1. type \in {"ACK", "NON"} /\ type \in Types /\ <<c, m>> \in Origins /\ r.token \in Nat /\ m \in Nat
  BY AskType DEF Types, Origins
<1>2. Reply(c, m, code, observe) = Datagram("down", c, type, m, r.token, code, observe, <<c, m>>)
  BY DEF Reply
<1> HIDE DEF r, type
<1>3. QED BY <1>1, <1>2, DatagramIs DEF IsReply

LEMMA SeparateIs ==
  ASSUME plan \in Scenario, NEW c \in Clients, NEW m \in Ids(c),
         NEW type \in {"CON", "NON"}, NEW id \in Nat
  PROVE  /\ Separate(c, m, type, id) \in Wire /\ Separate(c, m, type, id).dir = "down"
         /\ Separate(c, m, type, id).type = type /\ Separate(c, m, type, id).peer = c
         /\ Separate(c, m, type, id).mid = id
<1> DEFINE r == Ask(c, m)
<1>1. /\ type \in Types /\ "content" \in Codes /\ <<c, m>> \in Origins /\ r.token \in Nat
      /\ r.observe \in BOOLEAN
  BY AskType DEF Types, Codes, Origins
<1>2. Separate(c, m, type, id) = Datagram("down", c, type, id, r.token, "content", r.observe, <<c, m>>)
  BY DEF Separate
<1> HIDE DEF r
<1>3. QED BY <1>1, <1>2, DatagramIs

(* Addressing a reply to the peer it has changes nothing. *)
LEMMA SamePeer == ASSUME NEW d \in Wire PROVE [d EXCEPT !.peer = d.peer] = d
BY DEF Wire

LEMMA WireFields ==
  ASSUME NEW d \in Wire
  PROVE  d.peer \in Clients /\ d.mid \in Nat /\ d.type \in Types
         /\ d.observe \in BOOLEAN
BY DEF Wire

-----------------------------------------------------------------------------
(* The tables of recent messages *)

LEMMA UnexpiredIs ==
  ASSUME NEW S, NEW seq \in Seq(S), NEW k \in Expirable(seq)
  PROVE  Unexpired(seq, k) \in Seq(S) /\ ToSet(Unexpired(seq, k)) \subseteq ToSet(seq)
<1> DEFINE u == SubSeq(seq, k + 1, Len(seq))
<1>1. Len(seq) \in Nat /\ k \in 0 .. Len(seq)
  BY DEF Expirable
<1>2. \A i \in k + 1 .. Len(seq) : i \in 1 .. Len(seq) /\ seq[i] \in S
  BY <1>1
<1>3. /\ u \in Seq(S) /\ Len(u) = IF k + 1 <= Len(seq) THEN Len(seq) - (k + 1) + 1 ELSE 0
      /\ \A i \in 1 .. Len(seq) - (k + 1) + 1 : u[i] = seq[(k + 1) + i - 1]
  BY <1>1, <1>2, SubSeqProperties
<1>4. \A i \in 1 .. Len(u) : i \in 1 .. Len(seq) - (k + 1) + 1 /\ (k + 1) + i - 1 \in 1 .. Len(seq)
  BY <1>1, <1>3
<1>5. DOMAIN u = 1 .. Len(u) /\ DOMAIN seq = 1 .. Len(seq)
  BY <1>3, LenProperties
<1>6. QED BY <1>3, <1>4, <1>5 DEF Unexpired, ToSet

LEMMA LatestIs ==
  ASSUME NEW S, NEW seq \in Seq(S), NEW e \in S, NEW n \in Nat \ {0}
  PROVE  /\ Latest(Append(seq, e), n) \in Seq(S) /\ e \in ToSet(Latest(Append(seq, e), n))
         /\ ToSet(Latest(Append(seq, e), n)) \subseteq ToSet(seq) \cup {e}
<1> DEFINE a == Append(seq, e)
<1> DEFINE l == Len(seq) + 1
<1> DEFINE b == IF l > n THEN l - n + 1 ELSE 1
<1> DEFINE u == SubSeq(a, b, l)
<1>1. /\ a \in Seq(S) /\ Len(a) = l /\ l \in Nat \ {0} /\ a[l] = e
      /\ \A i \in 1 .. Len(seq) : a[i] = seq[i]
  BY AppendProperties
<1>2. b \in 1 .. l
  BY <1>1
<1>3. \A i \in b .. l : i \in 1 .. l /\ a[i] \in S
  BY <1>1, <1>2, ElementOfSeq
<1>4. /\ u \in Seq(S) /\ Len(u) = IF b <= l THEN l - b + 1 ELSE 0
      /\ \A i \in 1 .. l - b + 1 : u[i] = a[b + i - 1]
  <2> HIDE DEF a, b
  <2>1. QED BY <1>1, <1>2, <1>3, SubSeqProperties
<1> HIDE DEF a, b, u
<1>5. Len(u) = l - b + 1 /\ Len(u) \in 1 .. Len(u) /\ b + Len(u) - 1 = l
  BY <1>1, <1>2, <1>4
<1>6. u[Len(u)] = e
  BY <1>1, <1>4, <1>5, SMTT(30)
<1>7. \A i \in 1 .. Len(u) : b + i - 1 \in 1 .. l /\ u[i] = a[b + i - 1]
  BY <1>1, <1>2, <1>4, <1>5
<1>8. DOMAIN u = 1 .. Len(u) /\ DOMAIN seq = 1 .. Len(seq)
  BY <1>4, LenProperties
<1>9. \A i \in 1 .. l : a[i] \in ToSet(seq) \cup {e}
  <2>1. TAKE i \in 1 .. l
  <2>2. CASE i = l
    BY <1>1, <2>2
  <2>3. CASE i # l
    <3>1. i \in 1 .. Len(seq)
      BY <1>1, <2>3
    <3>2. QED BY <1>1, <1>8, <3>1 DEF ToSet
  <2>4. QED BY <2>2, <2>3
<1>10. Latest(Append(seq, e), n) = u
  BY <1>1 DEF Latest, a, b, u
<1>11. ToSet(u) = {u[i] : i \in 1 .. Len(u)}
  BY <1>8 DEF ToSet
<1>12. e \in ToSet(u)
  BY <1>5, <1>6, <1>11
<1>13. ToSet(u) \subseteq ToSet(seq) \cup {e}
  <2>1. \A i \in 1 .. Len(u) : u[i] \in ToSet(seq) \cup {e}
    BY <1>7, <1>9
  <2>2. QED BY <1>11, <2>1
<1>14. QED BY <1>4, <1>10, <1>12, <1>13

LEMMA HasMinimum == ASSUME NEW T \in SUBSET Nat, T # {} PROVE \E s \in T : \A t \in T : s <= t
<1> DEFINE R == {ss \in Nat \X Nat : ss[1] < ss[2]}
<1>1. IsWellFoundedOn(R, Nat)
  BY NatLessThanWellFounded DEF OpToRel
<1>2. PICK x \in T : \A y \in T : ~(<<y, x>> \in R)
  BY <1>1, WFMin
<1>3. ASSUME NEW y \in T PROVE x <= y
  <2>1. x \in Nat /\ y \in Nat /\ ~(<<y, x>> \in R)
    BY <1>2
  <2>2. ~(y < x)
    BY <2>1
  <2>3. QED BY <2>1, <2>2
<1>4. QED BY <1>3

-----------------------------------------------------------------------------
(* The table of exchanges *)

LEMMA FreedIs ==
  ASSUME NEW z \in Client, NEW s \in Slots
  PROVE  /\ Freed(z, s) \in Client
         /\ Freed(z, s).recent = z.recent /\ Freed(z, s).next = z.next
         /\ ~Freed(z, s).ex[s].active /\ Freed(z, s).ex[s].mid = z.ex[s].mid
         /\ \A t \in Slots : t # s => Freed(z, s).ex[t] = z.ex[t]
<1> DEFINE e == [z.ex[s] EXCEPT !.active = FALSE]
<1> DEFINE f == [z.ex EXCEPT ![s] = e]
<1>1. Freed(z, s) = [z EXCEPT !.ex = f]
  BY DEF Freed, Client
<1>2. z.ex \in [Slots -> Exchange] /\ z.ex[s] \in Exchange
  BY DEF Client
<1>3. e \in Exchange /\ e.mid = z.ex[s].mid /\ e.active = FALSE
  BY <1>2 DEF Exchange
<1> HIDE DEF e
<1>4. f \in [Slots -> Exchange] /\ f[s] = e /\ \A t \in Slots : t # s => f[t] = z.ex[t]
  BY <1>2, <1>3
<1> HIDE DEF f
<1>5. /\ Freed(z, s) \in Client /\ Freed(z, s).ex = f
      /\ Freed(z, s).recent = z.recent /\ Freed(z, s).next = z.next
  BY <1>1, <1>4 DEF Client
<1>6. QED BY <1>3, <1>4, <1>5

(* A request is refused, or it takes a free slot. *)
LEMMA StartedIs ==
  ASSUME plan \in Scenario, NEW c \in Clients, NEW z \in Client
  PROVE  /\ Started(c, z) \in Client /\ Started(c, z).recent = z.recent
         /\ \/ Started(c, z) = z /\ ~CanSend(c, z)
            \/ /\ z.next \in Ids(c) /\ Started(c, z).next = z.next + 1 /\ CanSend(c, z)
               /\ \E slot \in Slots :
                     /\ ~z.ex[slot].active
                     /\ Started(c, z).ex[slot].active /\ Started(c, z).ex[slot].mid = z.next
                     /\ \A t \in Slots : t # slot => Started(c, z).ex[t] = z.ex[t]
<1>1. CASE ~CanSend(c, z)
  BY <1>1 DEF Started
<1>2. CASE CanSend(c, z)
  <2> DEFINE slot == CHOOSE s \in find_free(c, z) : \A t \in find_free(c, z) : s <= t
  <2>1. find_free(c, z) \in SUBSET Nat /\ find_free(c, z) # {}
    BY <1>2 DEF CanSend, find_free, Slots
  <2>2. slot \in find_free(c, z)
    BY <2>1, HasMinimum
  <2>3. slot \in Slots /\ ~z.ex[slot].active
    BY <2>2 DEF find_free, Active
  <2> DEFINE f == [z.ex EXCEPT ![slot] = Entry(z.next)]
  <2>4. Started(c, z) = [z EXCEPT !.ex = f, !.next = z.next + 1]
    BY <1>2 DEF Started, Client
  <2> HIDE DEF slot
  <2>5. z.next \in Ids(c) /\ z.next + 1 \in Nat \ {0} /\ z.next \in Nat
    BY <1>2 DEF CanSend, Client
  <2>6. Entry(z.next) \in Exchange /\ Entry(z.next).active /\ Entry(z.next).mid = z.next
    BY <2>5 DEF Entry, Exchange
  <2>7. z.ex \in [Slots -> Exchange]
    BY DEF Client
  <2>8. f \in [Slots -> Exchange] /\ f[slot] = Entry(z.next) /\ \A t \in Slots : t # slot => f[t] = z.ex[t]
    BY <2>3, <2>6, <2>7
  <2> HIDE DEF f
  <2>10. /\ Started(c, z) \in Client /\ Started(c, z).next = z.next + 1
         /\ Started(c, z).recent = z.recent /\ Started(c, z).ex = f
    BY <2>4, <2>5, <2>8 DEF Client
  <2>11. /\ Started(c, z).ex[slot].active /\ Started(c, z).ex[slot].mid = z.next
         /\ \A t \in Slots : t # slot => Started(c, z).ex[t] = z.ex[t]
    BY <2>6, <2>8, <2>10
  <2>12. QED BY <1>2, <2>3, <2>5, <2>10, <2>11
<1>3. QED BY <1>1, <1>2

LEMMA ReactedIs ==
  ASSUME plan \in Scenario, NEW c \in Clients, NEW z \in Client, NEW s \in Slots, NEW reaction
  PROVE  /\ Reacted(c, z, s, reaction) \in Client /\ Completed(c, z, s, reaction) \in Client
         /\ Reacted(c, z, s, reaction).recent = z.recent
         /\ Completed(c, z, s, reaction).recent = z.recent
         /\ Completed(c, z, s, reaction).next = Reacted(c, z, s, reaction).next
         /\ \/ Reacted(c, z, s, reaction).next = z.next
            \/ Reacted(c, z, s, reaction).next = z.next + 1 /\ z.next \in Ids(c)
<1> DEFINE y == IF reaction \in {"cancel", "resend"} THEN Freed(z, s) ELSE z
<1>1. y \in Client /\ y.recent = z.recent /\ y.next = z.next
  BY FreedIs
<1>2. Reacted(c, z, s, reaction) = IF reaction \in {"send", "resend"} THEN Started(c, y) ELSE y
  BY DEF Reacted
<1> HIDE DEF y
<1>3. /\ Started(c, y) \in Client /\ Started(c, y).recent = y.recent
      /\ Started(c, y).next = y.next \/ (Started(c, y).next = y.next + 1 /\ y.next \in Ids(c))
  BY <1>1, StartedIs
<1>4. /\ Reacted(c, z, s, reaction) \in Client
      /\ Reacted(c, z, s, reaction).recent = z.recent
      /\ \/ Reacted(c, z, s, reaction).next = z.next
         \/ Reacted(c, z, s, reaction).next = z.next + 1 /\ z.next \in Ids(c)
  BY <1>1, <1>2, <1>3
<1>5. QED BY <1>4, FreedIs DEF Completed

-----------------------------------------------------------------------------
(* What the application is told *)

(* Outcomes o, after an end of exchange m. *)
Ended(o, m, kind) == [o EXCEPT ![m] = Append(o[m], kind)]

LEMMA EndedIs ==
  ASSUME NEW o \in Seq(Seq(Kinds)), NEW m \in 1 .. Len(o), NEW kind \in Kinds
  PROVE  /\ Ended(o, m, kind) \in Seq(Seq(Kinds)) /\ Len(Ended(o, m, kind)) = Len(o)
         /\ Len(Ended(o, m, kind)[m]) = Len(o[m]) + 1
         /\ \A l \in 1 .. Len(o) : l # m => Ended(o, m, kind)[l] = o[l]
<1>1. o[m] \in Seq(Kinds)
  BY ElementOfSeq
<1>2. Append(o[m], kind) \in Seq(Kinds) /\ Len(Append(o[m], kind)) = Len(o[m]) + 1
  BY <1>1, AppendProperties
<1>3. /\ Ended(o, m, kind) \in Seq(Seq(Kinds)) /\ Len(Ended(o, m, kind)) = Len(o)
      /\ \A l \in 1 .. Len(o) : Ended(o, m, kind)[l] = IF l = m THEN Append(o[m], kind) ELSE o[l]
  BY <1>2, ExceptSeq DEF Ended
<1>4. QED BY <1>2, <1>3

(* Only outcomes and orphans change. *)
SameNews(a, b) ==
    /\ b.heard = a.heard /\ b.again = a.again
    /\ b.rejected = a.rejected /\ b.forgotten = a.forgotten

(* b is a, after the callback was told of the end of the exchange in slot s. *)
IsOutcome(c, z, s, reaction, a, kind, b) ==
    /\ b \in Application /\ Len(b.outcome) = Len(a.outcome) /\ SameNews(a, b)
    /\ b.outcome = Ended(a.outcome, z.ex[s].mid, kind)
    /\ b.orphans = IF Reacted(c, z, s, reaction).ex[s].mid # z.ex[s].mid
                   THEN a.orphans \cup {Reacted(c, z, s, reaction).ex[s].mid} ELSE a.orphans

LEMMA OutcomeIs ==
  ASSUME plan \in Scenario, NEW c \in Clients, NEW z \in Client, NEW s \in Slots, NEW reaction,
         NEW a \in Application, NEW kind \in Kinds, z.ex[s].mid \in 1 .. Len(a.outcome),
         NEW b, b = Outcome(c, z, s, reaction, a, kind)
  PROVE  IsOutcome(c, z, s, reaction, a, kind, b)
<1> DEFINE own == z.ex[s].mid
<1> DEFINE mine == Reacted(c, z, s, reaction).ex[s].mid
<1> DEFINE r == IF mine # own THEN a.orphans \cup {mine} ELSE a.orphans
<1>1. b = [a EXCEPT !.outcome = Ended(a.outcome, own, kind), !.orphans = r]
  BY DEF Outcome, Application, Ended
<1>2. mine \in Nat
  <2>1. Reacted(c, z, s, reaction) \in Client
    BY ReactedIs
  <2>2. QED BY <2>1 DEF Client, Exchange
<1> HIDE DEF mine
<1>3. r \in SUBSET Nat
  BY <1>2 DEF Application
<1> HIDE DEF r
<1>4. Ended(a.outcome, own, kind) \in Seq(Seq(Kinds)) /\ Len(Ended(a.outcome, own, kind)) = Len(a.outcome)
  <2>1. a.outcome \in Seq(Seq(Kinds))
    BY DEF Application
  <2>2. QED BY <2>1, EndedIs
<1>5. b \in Application /\ SameNews(a, b) /\ b.outcome = Ended(a.outcome, own, kind) /\ b.orphans = r
  BY <1>1, <1>3, <1>4 DEF Application, SameNews
<1>6. QED BY <1>4, <1>5 DEF r, mine, IsOutcome

LEMMA CancelledIs ==
  ASSUME NEW a \in Application, NEW m \in 1 .. Len(a.outcome), NEW kind \in Kinds,
         NEW b, b = [a EXCEPT !.outcome = Ended(a.outcome, m, kind)]
  PROVE  /\ b \in Application /\ Len(b.outcome) = Len(a.outcome) /\ SameNews(a, b)
         /\ b.outcome = Ended(a.outcome, m, kind) /\ b.orphans = a.orphans
<1>1. Ended(a.outcome, m, kind) \in Seq(Seq(Kinds)) /\ Len(Ended(a.outcome, m, kind)) = Len(a.outcome)
  <2>1. a.outcome \in Seq(Seq(Kinds))
    BY DEF Application
  <2>2. QED BY <2>1, EndedIs
<1>2. b \in Application /\ SameNews(a, b) /\ b.outcome = Ended(a.outcome, m, kind) /\ b.orphans = a.orphans
  BY <1>1 DEF Application, SameNews
<1>3. QED BY <1>1, <1>2

-----------------------------------------------------------------------------
(* Exchanges are ended once *)

(* Exchanges of client state z, with outcomes o and orphans r: an active   *)
(* one has no outcome and its own identifier, any other has one outcome.   *)
TableInv(z, o, r) ==
    /\ z.next - 1 <= Len(o)
    /\ \A s \in Slots : z.ex[s].active => z.ex[s].mid \in 1 .. z.next - 1 /\ o[z.ex[s].mid] = <<>>
    /\ \A s, t \in Slots : z.ex[s].active /\ z.ex[t].active /\ z.ex[s].mid = z.ex[t].mid => s = t
    /\ \A m \in 1 .. z.next - 1 :
          m \in r \/ Len(o[m]) = 1 \/ \E s \in Slots : z.ex[s].active /\ z.ex[s].mid = m
    /\ \A m \in z.next .. Len(o) : o[m] = <<>>

(* Only what is active, and for which request, matters. *)
LEMMA TableSame ==
  ASSUME NEW z, NEW y, NEW o, NEW r, TableInv(z, o, r), y.next = z.next,
         \A s \in Slots : /\ y.ex[s].active <=> z.ex[s].active
                          /\ z.ex[s].active => y.ex[s].mid = z.ex[s].mid
  PROVE  TableInv(y, o, r)
BY DEF TableInv

LEMMA TableEnd ==
  ASSUME NEW z \in Client, NEW a \in Application, NEW r, TableInv(z, a.outcome, r),
         NEW s \in Slots, z.ex[s].active, NEW kind \in Kinds,
         NEW o, o = Ended(a.outcome, z.ex[s].mid, kind)
  PROVE  TableInv(Freed(z, s), o, r)
<1> DEFINE y == Freed(z, s)
<1> DEFINE m == z.ex[s].mid
<1>1. z.next \in Nat /\ Len(a.outcome) \in Nat /\ z.next - 1 <= Len(a.outcome)
  BY DEF TableInv, Client, Application
<1>2. m \in 1 .. z.next - 1 /\ a.outcome[m] = << >>
  BY DEF TableInv
<1>3. m \in 1 .. Len(a.outcome)
  BY <1>1, <1>2
<1>4. /\ Len(o) = Len(a.outcome) /\ Len(o[m]) = 1
      /\ \A l \in 1 .. Len(a.outcome) : l # m => o[l] = a.outcome[l]
  <2>1. /\ Len(o) = Len(a.outcome) /\ Len(o[m]) = Len(a.outcome[m]) + 1
        /\ \A l \in 1 .. Len(a.outcome) : l # m => o[l] = a.outcome[l]
    <3>1. a.outcome \in Seq(Seq(Kinds))
      BY DEF Application
    <3>2. ASSUME NEW p, NEW i \in 1 .. Len(p), p = a.outcome, i = m
          PROVE  /\ Len(Ended(p, i, kind)) = Len(p) /\ Len(Ended(p, i, kind)[i]) = Len(p[i]) + 1
                 /\ \A l \in 1 .. Len(p) : l # i => Ended(p, i, kind)[l] = p[l]
      <4>1. p \in Seq(Seq(Kinds))
        BY <3>1, <3>2
      <4>2. QED BY <4>1, EndedIs
    <3>3. QED BY <1>3, <3>2
  <2>2. Len(a.outcome[m]) = 0
    BY <1>2
  <2>3. QED BY <2>1, <2>2
<1>5. /\ y.next = z.next /\ ~y.ex[s].active
      /\ \A t \in Slots : t # s => y.ex[t] = z.ex[t]
  BY FreedIs
<1> HIDE DEF y
<1>6. \A t \in Slots : y.ex[t].active => t # s /\ z.ex[t].active /\ y.ex[t] = z.ex[t] /\ z.ex[t].mid # m
  BY <1>5 DEF TableInv
<1>7. \A t \in Slots : y.ex[t].active => y.ex[t].mid \in 1 .. z.next - 1 /\ o[y.ex[t].mid] = << >>
  <2>1. TAKE t \in Slots
  <2>2. HAVE y.ex[t].active
  <2>3. z.ex[t].mid \in 1 .. z.next - 1 /\ a.outcome[z.ex[t].mid] = << >> /\ z.ex[t].mid # m /\ y.ex[t] = z.ex[t]
    BY <1>6, <2>2 DEF TableInv
  <2>4. z.ex[t].mid \in 1 .. Len(a.outcome)
    BY <1>1, <2>3
  <2>5. QED BY <1>4, <2>3, <2>4
<1>8. \A t, u \in Slots : y.ex[t].active /\ y.ex[u].active /\ y.ex[t].mid = y.ex[u].mid => t = u
  BY <1>6 DEF TableInv
<1>9. \A l \in 1 .. z.next - 1 :
        l \in r \/ Len(o[l]) = 1 \/ \E t \in Slots : y.ex[t].active /\ y.ex[t].mid = l
  <2>1. TAKE l \in 1 .. z.next - 1
  <2>2. CASE l = m
    BY <1>4, <2>2
  <2>3. CASE l # m
    <3>1. l \in 1 .. Len(a.outcome)
      BY <1>1
    <3>2. o[l] = a.outcome[l]
      BY <1>4, <2>3, <3>1
    <3>3. l \in r \/ Len(a.outcome[l]) = 1 \/ \E t \in Slots : z.ex[t].active /\ z.ex[t].mid = l
      BY DEF TableInv
    <3>4. QED BY <1>5, <2>3, <3>2, <3>3
  <2>4. QED BY <2>2, <2>3
<1>10. \A l \in z.next .. Len(o) : o[l] = << >>
  <2>1. TAKE l \in z.next .. Len(o)
  <2>2. l \in z.next .. Len(a.outcome) /\ l # m /\ l \in 1 .. Len(a.outcome)
    BY <1>1, <1>2, <1>4 DEF Client
  <2>3. QED BY <1>4, <2>2 DEF TableInv
<1>11. QED BY <1>1, <1>4, <1>5, <1>7, <1>8, <1>9, <1>10 DEF TableInv, y

LEMMA TableStart ==
  ASSUME plan \in Scenario, NEW c \in Clients, NEW z \in Client, NEW o, NEW r, TableInv(z, o, r),
         Len(o) = Len(plan.asks[c])
  PROVE  TableInv(Started(c, z), o, r)
<1> DEFINE y == Started(c, z)
<1>1. CASE y = z
  BY <1>1
<1>2. CASE y # z
  <2>1. PICK slot \in Slots :
           /\ ~z.ex[slot].active /\ y.ex[slot].active /\ y.ex[slot].mid = z.next
           /\ \A t \in Slots : t # slot => y.ex[t] = z.ex[t]
    BY <1>2, StartedIs
  <2>2. y.next = z.next + 1 /\ z.next \in Ids(c)
    BY <1>2, StartedIs
  <2> HIDE DEF y
  <2>3. z.next \in Nat \ {0} /\ Len(o) \in Nat /\ z.next \in 1 .. Len(o) /\ y.next - 1 = z.next
    BY <2>2, IdsType DEF Client
  <2>4. \A n \in Nat : \A i \in 1 .. n : i \in 1 .. n - 1 \/ i = n
    OBVIOUS
  <2>5. \A t \in Slots : z.ex[t].active => z.ex[t].mid \in 1 .. z.next - 1 /\ z.ex[t].mid # z.next
    BY <2>3 DEF TableInv
  <2>6. z.next \in z.next .. Len(o) /\ o[z.next] = << >>
    BY <2>3 DEF TableInv
  <2>7. y.next - 1 <= Len(o)
    BY <2>3
  <2>8. \A t \in Slots : y.ex[t].active => y.ex[t].mid \in 1 .. y.next - 1 /\ o[y.ex[t].mid] = << >>
    <3>1. TAKE t \in Slots
    <3>2. HAVE y.ex[t].active
    <3>3. CASE t = slot
      BY <2>1, <2>3, <2>6, <3>3
    <3>4. CASE t # slot
      <4>1. y.ex[t] = z.ex[t] /\ z.ex[t].active
        BY <2>1, <3>2, <3>4
      <4>2. z.ex[t].mid \in 1 .. z.next - 1 /\ o[z.ex[t].mid] = << >>
        BY <4>1 DEF TableInv
      <4>3. z.ex[t].mid \in 1 .. z.next
        BY <2>3, <4>2
      <4>4. QED BY <2>3, <4>1, <4>2, <4>3
    <3>5. QED BY <3>3, <3>4
  <2>9. \A t, u \in Slots : y.ex[t].active /\ y.ex[u].active /\ y.ex[t].mid = y.ex[u].mid => t = u
    <3>1. \A t \in Slots : t # slot /\ y.ex[t].active => z.ex[t].active /\ y.ex[t].mid = z.ex[t].mid
                                                         /\ y.ex[t].mid # z.next
      BY <2>1, <2>5
    <3>2. QED BY <2>1, <3>1 DEF TableInv
  <2>10. \A m \in 1 .. y.next - 1 :
           m \in r \/ Len(o[m]) = 1 \/ \E t \in Slots : y.ex[t].active /\ y.ex[t].mid = m
    <3>1. TAKE m \in 1 .. y.next - 1
    <3>2. CASE m = z.next
      BY <2>1, <3>2
    <3>3. CASE m # z.next
      <4>1. m \in 1 .. z.next - 1
        BY <2>3, <2>4, <3>3
      <4>2. m \in r \/ Len(o[m]) = 1 \/ \E t \in Slots : z.ex[t].active /\ z.ex[t].mid = m
        BY <4>1 DEF TableInv
      <4>3. QED BY <2>1, <4>2
    <3>4. QED BY <3>2, <3>3
  <2>11. \A m \in y.next .. Len(o) : o[m] = << >>
    <3>1. \A m \in y.next .. Len(o) : m \in z.next .. Len(o)
      BY <2>2, <2>3
    <3>2. QED BY <3>1 DEF TableInv
  <2>12. TableInv(y, o, r)
    BY <2>7, <2>8, <2>9, <2>10, <2>11 DEF TableInv
  <2>13. QED BY <2>12 DEF y
<1>3. QED BY <1>1, <1>2

(* A request that lost its slot to the end of a callback is an orphan. *)
LEMMA TableOrphan ==
  ASSUME NEW z \in Client, NEW o, NEW r, TableInv(z, o, r), NEW s \in Slots, z.ex[s].active
  PROVE  TableInv(Freed(z, s), o, r \cup {z.ex[s].mid})
<1> DEFINE y == Freed(z, s)
<1>1. y.next = z.next /\ ~y.ex[s].active /\ \A t \in Slots : t # s => y.ex[t] = z.ex[t]
  BY FreedIs
<1> HIDE DEF y
<1>2. \A t \in Slots : y.ex[t].active => z.ex[t].active /\ y.ex[t] = z.ex[t]
  BY <1>1
<1>3. \A m \in 1 .. z.next - 1 :
        m \in r \cup {z.ex[s].mid} \/ Len(o[m]) = 1 \/ \E t \in Slots : y.ex[t].active /\ y.ex[t].mid = m
  <2>1. TAKE m \in 1 .. z.next - 1
  <2>2. m \in r \/ Len(o[m]) = 1 \/ \E t \in Slots : z.ex[t].active /\ z.ex[t].mid = m
    BY DEF TableInv
  <2>3. QED BY <1>1, <2>2
<1>4. TableInv(y, o, r \cup {z.ex[s].mid})
  BY <1>1, <1>2, <1>3 DEF TableInv
<1>5. QED BY <1>4 DEF y

LEMMA TableFreedAgain ==
  ASSUME NEW z \in Client, NEW o, NEW r, TableInv(z, o, r), NEW s \in Slots, ~z.ex[s].active
  PROVE  TableInv(Freed(z, s), o, r)
<1>1. /\ Freed(z, s).next = z.next /\ ~Freed(z, s).ex[s].active
      /\ \A t \in Slots : t # s => Freed(z, s).ex[t] = z.ex[t]
  BY FreedIs
<1>2. \A t \in Slots : /\ Freed(z, s).ex[t].active <=> z.ex[t].active
                       /\ z.ex[t].active => Freed(z, s).ex[t].mid = z.ex[t].mid
  BY <1>1
<1>3. QED BY <1>1, <1>2, TableSame

LEMMA StartedKeeps ==
  ASSUME plan \in Scenario, NEW c \in Clients, NEW z \in Client, NEW s \in Slots
  PROVE  /\ z.ex[s].active => Started(c, z).ex[s] = z.ex[s]
         /\ \/ Started(c, z).ex[s] = z.ex[s]
            \/ Started(c, z).ex[s].active /\ Started(c, z).ex[s].mid = z.next
BY StartedIs

LEMMA TableCompleted ==
  ASSUME plan \in Scenario, NEW c \in Clients, NEW z \in Client, NEW a \in Application,
         Len(a.outcome) = Len(plan.asks[c]), TableInv(z, a.outcome, a.orphans),
         NEW s \in Slots, z.ex[s].active, NEW reaction, NEW kind \in Kinds,
         NEW b, b = Outcome(c, z, s, reaction, a, kind)
  PROVE  /\ b \in Application /\ Len(b.outcome) = Len(a.outcome) /\ SameNews(a, b)
         /\ TableInv(Completed(c, z, s, reaction), b.outcome, b.orphans)
<1> DEFINE own == z.ex[s].mid
<1> DEFINE R == Reacted(c, z, s, reaction)
<1> DEFINE F == Freed(z, s)
<1>1. own \in 1 .. z.next - 1 /\ own \in 1 .. Len(a.outcome) /\ z.next \in Nat /\ own # z.next
  <2>1. z.next \in Nat /\ Len(a.outcome) \in Nat /\ z.next - 1 <= Len(a.outcome) /\ own \in 1 .. z.next - 1
    BY DEF TableInv, Client, Application
  <2>2. QED BY <2>1
<1>2. /\ b \in Application /\ Len(b.outcome) = Len(a.outcome) /\ SameNews(a, b)
      /\ b.outcome = Ended(a.outcome, own, kind)
      /\ b.orphans = IF R.ex[s].mid # own THEN a.orphans \cup {R.ex[s].mid} ELSE a.orphans
  <2>1. z.ex[s].mid \in 1 .. Len(a.outcome)
    BY <1>1
  <2>2. IsOutcome(c, z, s, reaction, a, kind, b)
    BY <2>1, OutcomeIs
  <2>3. QED BY <2>2 DEF IsOutcome
<1>3. Completed(c, z, s, reaction) = Freed(R, s) /\ R \in Client
  BY ReactedIs DEF Completed
<1>4. /\ F \in Client /\ F.next = z.next /\ ~F.ex[s].active /\ F.ex[s].mid = own
  BY FreedIs
<1>5. TableInv(F, b.outcome, a.orphans)
  BY <1>2, TableEnd
<1>6. CASE R = z
  BY <1>2, <1>3, <1>5, <1>6
<1>7. CASE R = F
  <2>1. TableInv(Freed(F, s), b.outcome, a.orphans)
    BY <1>4, <1>5, TableFreedAgain
  <2>2. b.orphans = a.orphans
    BY <1>2, <1>4, <1>7
  <2>3. QED BY <1>2, <1>3, <1>7, <2>1, <2>2
<1>8. CASE R = Started(c, z)
  <2>1. R.ex[s] = z.ex[s]
    BY <1>8, StartedKeeps
  <2>2. TableInv(R, a.outcome, a.orphans)
    BY <1>8, TableStart
  <2>3. TableInv(Freed(R, s), b.outcome, a.orphans)
    <3>1. R.ex[s].active /\ b.outcome = Ended(a.outcome, R.ex[s].mid, kind)
      BY <1>2, <2>1
    <3> HIDE DEF R
    <3>2. QED BY <1>3, <2>2, <3>1, TableEnd
  <2>4. QED BY <1>2, <1>3, <2>1, <2>3
<1>9. CASE R = Started(c, F)
  <2>1. TableInv(R, b.outcome, a.orphans)
    BY <1>2, <1>4, <1>5, <1>9, TableStart
  <2>2. CASE R.ex[s] = F.ex[s]
    <3>1. ~R.ex[s].active /\ b.orphans = a.orphans
      BY <1>2, <1>4, <2>2
    <3> HIDE DEF R
    <3>2. TableInv(Freed(R, s), b.outcome, a.orphans)
      BY <1>3, <2>1, <3>1, TableFreedAgain
    <3>3. QED BY <1>2, <1>3, <3>1, <3>2
  <2>3. CASE R.ex[s].active /\ R.ex[s].mid = z.next
    <3>1. b.orphans = a.orphans \cup {R.ex[s].mid}
      BY <1>1, <1>2, <2>3
    <3> HIDE DEF R
    <3>2. TableInv(Freed(R, s), b.outcome, a.orphans \cup {R.ex[s].mid})
      BY <1>3, <2>1, <2>3, TableOrphan
    <3>3. QED BY <1>2, <1>3, <3>1, <3>2
  <2>4. QED BY <1>4, <1>9, <2>2, <2>3, StartedKeeps
<1>10. QED BY <1>6, <1>7, <1>8, <1>9 DEF Reacted

LEMMA TableKept ==
  ASSUME plan \in Scenario, NEW c \in Clients, NEW z \in Client, NEW a \in Application,
         Len(a.outcome) = Len(plan.asks[c]), TableInv(z, a.outcome, a.orphans),
         NEW s \in Slots, z.ex[s].active, NEW reaction,
         NEW b, b = Kept(c, z, s, reaction, a)
  PROVE  /\ b \in Application /\ Len(b.outcome) = Len(a.outcome) /\ SameNews(a, b)
         /\ TableInv(Reacted(c, z, s, reaction), b.outcome, b.orphans)
<1> DEFINE own == z.ex[s].mid
<1> DEFINE F == Freed(z, s)
<1>1. own \in 1 .. Len(a.outcome)
  <2>1. z.next \in Nat /\ Len(a.outcome) \in Nat /\ z.next - 1 <= Len(a.outcome) /\ own \in 1 .. z.next - 1
    BY DEF TableInv, Client, Application
  <2>2. QED BY <2>1
<1>2. CASE reaction \in {"cancel", "resend"}
  <2>1. b = [a EXCEPT !.outcome = Ended(a.outcome, own, "cancelled")] /\ "cancelled" \in Kinds
    BY <1>2 DEF Kept, Ended, Application, Kinds
  <2>2. /\ b \in Application /\ Len(b.outcome) = Len(a.outcome) /\ SameNews(a, b)
        /\ b.outcome = Ended(a.outcome, own, "cancelled") /\ b.orphans = a.orphans
    BY <1>1, <2>1, CancelledIs, SMTT(30)
  <2>3. F \in Client /\ TableInv(F, b.outcome, b.orphans)
    BY <2>1, <2>2, FreedIs, TableEnd
  <2>4. TableInv(Started(c, F), b.outcome, b.orphans)
    BY <2>2, <2>3, TableStart
  <2>5. QED BY <1>2, <2>2, <2>3, <2>4 DEF Reacted
<1>3. CASE reaction \notin {"cancel", "resend"}
  <2>1. b = a /\ (Reacted(c, z, s, reaction) = z \/ Reacted(c, z, s, reaction) = Started(c, z))
    BY <1>3 DEF Kept, Reacted
  <2>2. TableInv(Started(c, z), a.outcome, a.orphans)
    BY TableStart
  <2>3. QED BY <2>1, <2>2 DEF SameNews
<1>4. QED BY <1>2, <1>3

-----------------------------------------------------------------------------
(* The inductive invariant *)

(* Requests are of the plan; a response in an acknowledgement answers the  *)
(* request with its identifier; confirmable responses have identifiers of  *)
(* their own.                                                              *)
NetInv ==
    /\ \A d \in net : d.dir = "up" /\ d.code \in Paths => d.mid \in Ids(d.peer)
    /\ \A d \in net : d.dir = "down" /\ d.type = "ACK" /\ d.code # "empty" => IsReply(d, d.peer, d.mid)
    /\ \A d \in net : d.dir = "down" /\ d.type = "CON" => d.mid < srv.next
    /\ \A d, e \in net : d.dir = "down" /\ d.type = "CON" /\ e.dir = "down" /\ e.type = "CON" =>
                           (d.mid = e.mid => d = e)

CacheInv ==
    \A e \in ToSet(srv.recent) : e.mid \in Ids(e.peer) /\ IsReply(e.reply, e.peer, e.mid)

PendingInv ==
    \A i \in Pending : srv.pending[i].active =>
        srv.pending[i].sent \in net /\ srv.pending[i].sent.dir = "down" /\ srv.pending[i].sent.type = "CON"

(* A request whose callback ran is remembered or was forgotten. *)
RunsInv ==
    /\ \A c \in Clients : \A m \in Ids(c) :
          done.runs[c][m] = 0 \/ <<c, m>> \in Keys(srv.recent) \cup done.forgotten
    /\ ExecutedOnce

(* A separate response that was heard is remembered or was forgotten. *)
HeardInv ==
    /\ \A c \in Clients : \A h \in app[c].heard :
          h[2].type = "ACK" \/ h[2].mid \in ToSet(cli[c].recent) \cup app[c].forgotten
    /\ HeardOnce
    /\ AnswersOwnRequest

(* In network n, identifier m belongs to a NON response to c, or to a      *)
(* confirmable one that the callback heard or a reset answered: what the   *)
(* application saw is a.                                                   *)
Settled(a, x) == x \in a.rejected \/ \E h \in a.heard : h[2] = x
Known(n, c, m, a) ==
    \E x \in n : /\ x.dir = "down" /\ x.peer = c /\ x.mid = m
                 /\ x.type = "NON" \/ (x.type = "CON" /\ Settled(a, x))

KnownInv ==
    /\ \A c \in Clients : \A m \in ToSet(cli[c].recent) : Known(net, c, m, app[c])
    /\ \A d \in net : d.dir = "up" /\ d.type = "ACK" => Known(net, d.peer, d.mid, app[d.peer])
    /\ AckedIsHeard

ExchangeInv == \A c \in Clients : TableInv(cli[c], app[c].outcome, app[c].orphans)

CoapInv ==
    /\ TypeOK /\ NetInv /\ CacheInv /\ PendingInv /\ RunsInv
    /\ HeardInv /\ KnownInv /\ ExchangeInv

-----------------------------------------------------------------------------
(* What a step of a client does *)

(* It sends requests, acknowledgements and resets, *)
Upward(c, N) ==
    \A x \in N : x \in Wire /\ x.dir = "up" /\ x.peer = c /\ (x.code \in Paths => x.mid \in Ids(c))

(* and changes the state of client c only, to y, b. *)
ClientStep(c, y, b, N) ==
    /\ y \in Client /\ b \in Application
    /\ Len(b.outcome) = Len(plan.asks[c]) /\ TableInv(y, b.outcome, b.orphans)
    /\ cli' = [cli EXCEPT ![c] = y] /\ app' = [app EXCEPT ![c] = b]
    /\ Upward(c, N) /\ net' = net \cup N
    /\ UNCHANGED <<plan, srv, done>>

LEMMA ClientFrame ==
  ASSUME CoapInv, NEW c \in Clients, NEW y, NEW b, NEW N, ClientStep(c, y, b, N)
  PROVE  /\ TypeOK' /\ NetInv' /\ CacheInv' /\ PendingInv' /\ RunsInv' /\ ExchangeInv'
         /\ cli'[c] = y /\ app'[c] = b
         /\ \A e \in Clients : e # c => cli'[e] = cli[e] /\ app'[e] = app[e]
<1>1. /\ cli' \in [Clients -> Client] /\ app' \in [Clients -> Application]
      /\ cli'[c] = y /\ app'[c] = b
      /\ \A e \in Clients : e # c => cli'[e] = cli[e] /\ app'[e] = app[e]
  BY DEF ClientStep, CoapInv, TypeOK
<1>2. plan' = plan /\ srv' = srv /\ done' = done
  BY DEF ClientStep
<1>3. net' = net \cup N /\ \A x \in N : x \in Wire /\ x.dir = "up" /\ x.peer = c /\ (x.code \in Paths => x.mid \in Ids(c))
  BY DEF ClientStep, Upward
<1>4. Len(b.outcome) = Len(plan.asks[c]) /\ TableInv(y, b.outcome, b.orphans)
  BY DEF ClientStep
<1>5. TypeOK'
  <2>1. net' \subseteq Wire
    BY <1>3 DEF CoapInv, TypeOK
  <2>2. \A e \in Clients : Len(app'[e].outcome) = Len(plan.asks[e])
    BY <1>1, <1>4 DEF CoapInv, TypeOK
  <2>3. QED BY <1>1, <1>2, <2>1, <2>2 DEF CoapInv, TypeOK
<1>6. NetInv'
  <2>1. \A x \in net' : x.dir = "down" => x \in net
    BY <1>3
  <2>2. \A e : (Ids(e))' = Ids(e)
    BY <1>2 DEF Ids
  <2>3. \A x \in net' : x.dir = "up" /\ x.code \in Paths => x.mid \in Ids(x.peer)
    BY <1>3 DEF CoapInv, NetInv
  <2>4. QED BY <1>2, <2>1, <2>2, <2>3 DEF CoapInv, NetInv
<1>7. CacheInv'
  BY <1>2 DEF CoapInv, CacheInv, Ids
<1>8. PendingInv'
  BY <1>2, <1>3 DEF CoapInv, PendingInv
<1>9. RunsInv'
  BY <1>2 DEF CoapInv, RunsInv, ExecutedOnce, Ids
<1>10. ExchangeInv'
  BY <1>1, <1>4 DEF CoapInv, ExchangeInv
<1>11. QED BY <1>1, <1>5, <1>6, <1>7, <1>8, <1>9, <1>10

(* What a client hears: at most response d, which answers request r of c   *)
(* if it is an acknowledgement; what is new in its recent identifiers, and *)
(* what it acknowledges, is known.                                         *)
Learned(c, b, d) ==
    /\ d \in net /\ d.dir = "down" /\ d.peer = c
    /\ d.type = "NON" \/ (d.type = "CON" /\ Settled(b, d))

News(c, y, b, N, d) ==
    /\ app[c].heard \subseteq b.heard /\ app[c].rejected \subseteq b.rejected
    /\ app[c].forgotten \subseteq b.forgotten
    /\ ToSet(cli[c].recent) \subseteq ToSet(y.recent) \cup b.forgotten
    /\ \A h \in b.heard : \/ h \in app[c].heard
                          \/ /\ h[2] = d /\ (d.type = "ACK" => d.of = <<c, h[1]>>)
                             /\ d.type = "ACK" \/ d.mid \in ToSet(y.recent)
    /\ \A x \in b.again : \/ x \in app[c].again
                          \/ /\ x = d /\ \E h \in app[c].heard : h[2] = d
                             /\ \/ d.type = "ACK" \/ d.mid \in b.forgotten
                                \/ d.mid \notin ToSet(cli[c].recent)
    /\ \A m \in ToSet(y.recent) : m \in ToSet(cli[c].recent) \/ (m = d.mid /\ Learned(c, b, d))
    /\ \A x \in N : x.type = "ACK" => x.mid = d.mid /\ (d.mid \in ToSet(cli[c].recent) \/ Learned(c, b, d))

LEMMA ClientNews ==
  ASSUME CoapInv, NEW c \in Clients, NEW y, NEW b, NEW N, NEW d,
         ClientStep(c, y, b, N), News(c, y, b, N, d)
  PROVE  CoapInv'
<1>1. /\ TypeOK' /\ NetInv' /\ CacheInv' /\ PendingInv' /\ RunsInv' /\ ExchangeInv'
      /\ cli'[c] = y /\ app'[c] = b
      /\ \A e \in Clients : e # c => cli'[e] = cli[e] /\ app'[e] = app[e]
  BY ClientFrame
<1>2. net' = net \cup N /\ done' = done /\ \A x \in N : x.dir = "up" /\ x.peer = c
  BY DEF ClientStep, Upward
<1>3. \A e \in Clients : \A h \in app'[e].heard :
         h[2].type = "ACK" \/ h[2].mid \in ToSet(cli'[e].recent) \cup app'[e].forgotten
  <2>1. SUFFICES ASSUME NEW h \in b.heard
                 PROVE  h[2].type = "ACK" \/ h[2].mid \in ToSet(y.recent) \cup b.forgotten
    BY <1>1 DEF CoapInv, HeardInv
  <2>2. CASE h \in app[c].heard
    <3>1. h[2].type = "ACK" \/ h[2].mid \in ToSet(cli[c].recent) \cup app[c].forgotten
      BY <2>2 DEF CoapInv, HeardInv
    <3>2. QED BY <3>1 DEF News
  <2>3. CASE h \notin app[c].heard
    BY <2>3 DEF News
  <2>4. QED BY <2>2, <2>3
<1>4. HeardOnce'
  <2>1. SUFFICES ASSUME NEW x \in b.again PROVE x.type = "ACK" \/ x.mid \in b.forgotten
    BY <1>1 DEF CoapInv, HeardInv, HeardOnce
  <2>2. CASE x \in app[c].again
    <3>1. x.type = "ACK" \/ x.mid \in app[c].forgotten
      BY <2>2 DEF CoapInv, HeardInv, HeardOnce
    <3>2. QED BY <3>1 DEF News
  <2>3. CASE x \notin app[c].again
    <3>1. d.type = "ACK" \/ d.mid \in b.forgotten \/ d.mid \notin ToSet(cli[c].recent)
      BY <2>3 DEF News
    <3>2. x = d /\ \E h \in app[c].heard : h[2] = d
      BY <2>3 DEF News
    <3>3. d.type = "ACK" \/ d.mid \in ToSet(cli[c].recent) \cup app[c].forgotten
      BY <3>2 DEF CoapInv, HeardInv
    <3>4. QED BY <3>1, <3>2, <3>3 DEF News
  <2>4. QED BY <2>2, <2>3
<1>5. AnswersOwnRequest'
  <2>1. SUFFICES ASSUME NEW h \in b.heard, h[2].type = "ACK" PROVE h[2].of = <<c, h[1]>>
    BY <1>1 DEF CoapInv, HeardInv, AnswersOwnRequest
  <2>2. CASE h \in app[c].heard
    BY <2>1, <2>2 DEF CoapInv, HeardInv, AnswersOwnRequest
  <2>3. CASE h \notin app[c].heard
    BY <2>1, <2>3 DEF News
  <2>4. QED BY <2>2, <2>3
<1>6. \A x : Settled(app[c], x) => Settled(b, x)
  BY DEF News, Settled
<1>7. \A e \in Clients : \A m : Known(net, e, m, app[e]) => Known(net', e, m, app'[e])
  <2>1. TAKE e \in Clients
  <2>2. TAKE m
  <2>3. HAVE Known(net, e, m, app[e])
  <2>4. \A x : Settled(app[e], x) => Settled(app'[e], x)
    BY <1>1, <1>6
  <2>5. QED BY <1>2, <2>3, <2>4 DEF Known
<1>8. Learned(c, b, d) => Known(net', c, d.mid, b)
  BY <1>2 DEF Learned, Known
<1>9. \A e \in Clients : \A m \in ToSet(cli'[e].recent) : Known(net', e, m, app'[e])
  <2>1. SUFFICES ASSUME NEW m \in ToSet(y.recent) PROVE Known(net', c, m, b)
    BY <1>1, <1>7 DEF CoapInv, KnownInv
  <2>2. CASE m \in ToSet(cli[c].recent)
    BY <1>1, <1>7, <2>2 DEF CoapInv, KnownInv
  <2>3. CASE m \notin ToSet(cli[c].recent)
    BY <1>8, <2>3 DEF News
  <2>4. QED BY <2>2, <2>3
<1>10. \A x \in net' : x.dir = "up" /\ x.type = "ACK" => Known(net', x.peer, x.mid, app'[x.peer])
  <2>1. SUFFICES ASSUME NEW x \in net', x.dir = "up", x.type = "ACK"
                 PROVE  Known(net', x.peer, x.mid, app'[x.peer])
    OBVIOUS
  <2>2. CASE x \in net
    <3>1. x.peer \in Clients
      BY <2>2, WireFields DEF CoapInv, TypeOK
    <3>2. Known(net, x.peer, x.mid, app[x.peer])
      BY <2>1, <2>2 DEF CoapInv, KnownInv
    <3>3. QED BY <1>7, <3>1, <3>2
  <2>3. CASE x \in N
    <3>1. x.peer = c /\ x.mid = d.mid /\ (d.mid \in ToSet(cli[c].recent) \/ Learned(c, b, d))
      BY <1>2, <2>1, <2>3 DEF News
    <3>2. CASE d.mid \in ToSet(cli[c].recent)
      BY <1>1, <1>7, <3>1, <3>2 DEF CoapInv, KnownInv
    <3>3. CASE Learned(c, b, d)
      BY <1>1, <1>8, <3>1, <3>3
    <3>4. QED BY <3>1, <3>2, <3>3
  <2>4. QED BY <1>2, <2>2, <2>3
<1>11. AckedIsHeard'
  <2>1. SUFFICES ASSUME NEW x \in done.acked
                 PROVE  \/ x \in app'[x.peer].rejected
                        \/ \E h \in app'[x.peer].heard : h[2] = x
                        \/ \E z \in (To(x.peer))' : z # x /\ z.type = "NON" /\ z.mid = x.mid
    BY <1>2 DEF AckedIsHeard
  <2>2. x.peer \in Clients
    BY WireFields DEF CoapInv, TypeOK, Done
  <2>3. \/ x \in app[x.peer].rejected
        \/ \E h \in app[x.peer].heard : h[2] = x
        \/ \E z \in To(x.peer) : z # x /\ z.type = "NON" /\ z.mid = x.mid
    BY DEF CoapInv, KnownInv, AckedIsHeard
  <2>4. app[x.peer].rejected \subseteq app'[x.peer].rejected /\ app[x.peer].heard \subseteq app'[x.peer].heard
    BY <1>1, <2>2 DEF News
  <2>5. To(x.peer) \subseteq (To(x.peer))'
    BY <1>2 DEF To
  <2>6. QED BY <2>3, <2>4, <2>5
<1>12. HeardInv'
  BY <1>3, <1>4, <1>5 DEF HeardInv
<1>13. KnownInv'
  BY <1>9, <1>10, <1>11 DEF KnownInv
<1>14. QED BY <1>1, <1>12, <1>13 DEF CoapInv

-----------------------------------------------------------------------------
(* The steps of a client *)

LEMMA ClientFacts ==
  ASSUME CoapInv, NEW c \in Clients
  PROVE  /\ plan \in Scenario /\ cli[c] \in Client /\ app[c] \in Application
         /\ Len(app[c].outcome) = Len(plan.asks[c])
         /\ TableInv(cli[c], app[c].outcome, app[c].orphans)
         /\ app = [app EXCEPT ![c] = app[c]]
BY DEF CoapInv, TypeOK, ExchangeInv

(* The identifier of an active exchange is one of the plan. *)
LEMMA SlotMid ==
  ASSUME CoapInv, NEW c \in Clients, NEW s \in Slots, cli[c].ex[s].active
  PROVE  cli[c].ex[s].mid \in Ids(c) /\ cli[c].ex[s].mid \in 1 .. Len(app[c].outcome)
<1>1. /\ cli[c].next - 1 <= Len(app[c].outcome) /\ cli[c].ex[s].mid \in 1 .. cli[c].next - 1
      /\ cli[c].next \in Nat /\ Len(app[c].outcome) = Len(plan.asks[c])
  BY ClientFacts DEF TableInv, Client
<1>2. Len(plan.asks[c]) \in Nat /\ Ids(c) = 1 .. Len(plan.asks[c])
  BY ClientFacts, IdsType
<1>3. QED BY <1>1, <1>2

Requests(c) == {RequestOf(c, m) : m \in Ids(c)}

LEMMA RequestsUp ==
  ASSUME plan \in Scenario, NEW c \in Clients, NEW N \in SUBSET Requests(c)
  PROVE  Upward(c, N) /\ \A x \in N : x.type # "ACK"
<1>1. \A m \in Ids(c) : /\ RequestOf(c, m) \in Wire /\ RequestOf(c, m).dir = "up"
                        /\ RequestOf(c, m).type \in {"CON", "NON"}
                        /\ RequestOf(c, m).peer = c /\ RequestOf(c, m).mid = m
  BY RequestOfIs
<1>2. QED BY <1>1 DEF Upward, Requests

LEMMA SentMeanwhileIs ==
  ASSUME plan \in Scenario, NEW c \in Clients, NEW z \in Client, NEW y,
         y.next = z.next \/ (y.next = z.next + 1 /\ z.next \in Ids(c))
  PROVE  SentMeanwhile(c, z, y) \subseteq Requests(c)
<1>1. z.next \in Nat
  BY DEF Client
<1>2. \A m \in z.next .. y.next - 1 : m \in Ids(c)
  <2>1. CASE y.next = z.next
    BY <1>1, <2>1
  <2>2. CASE y.next = z.next + 1 /\ z.next \in Ids(c)
    <3>1. \A m \in z.next .. y.next - 1 : m = z.next
      BY <1>1, <2>2
    <3>2. QED BY <2>2, <3>1
  <2>3. QED BY <2>1, <2>2
<1>3. QED BY <1>2 DEF SentMeanwhile, Requests

LEMMA QuietStep ==
  ASSUME CoapInv, NEW c \in Clients, NEW y \in Client, NEW b \in Application, NEW N \in SUBSET Requests(c),
         Len(b.outcome) = Len(plan.asks[c]), TableInv(y, b.outcome, b.orphans),
         y.recent = cli[c].recent, SameNews(app[c], b),
         cli' = [cli EXCEPT ![c] = y], app' = [app EXCEPT ![c] = b], net' = net \cup N,
         UNCHANGED <<plan, srv, done>>
  PROVE  CoapInv'
<1>1. Upward(c, N) /\ \A x \in N : x.type # "ACK"
  BY RequestsUp, ClientFacts
<1>2. ClientStep(c, y, b, N)
  BY <1>1 DEF ClientStep
<1>3. News(c, y, b, N, NoDatagram)
  BY <1>1 DEF News, SameNews
<1>4. QED BY <1>2, <1>3, ClientNews

LEMMA StepSendRequest ==
  ASSUME CoapInv, NEW c \in Clients, SendRequest(c), UNCHANGED <<plan, srv, done>>
  PROVE  CoapInv'
<1> DEFINE y == Started(c, cli[c])
<1> DEFINE N == {RequestOf(c, cli[c].next)}
<1>1. y \in Client /\ y.recent = cli[c].recent /\ TableInv(y, app[c].outcome, app[c].orphans)
  BY ClientFacts, StartedIs, TableStart
<1>2. cli[c].next \in Ids(c)
  BY DEF SendRequest, CanSend
<1>3. N \subseteq Requests(c)
  BY <1>2 DEF Requests
<1>4. cli' = [cli EXCEPT ![c] = y] /\ app' = [app EXCEPT ![c] = app[c]] /\ net' = net \cup N
  BY ClientFacts DEF SendRequest
<1>5. SameNews(app[c], app[c])
  BY DEF SameNews
<1> HIDE DEF y, N
<1>6. QED BY <1>1, <1>3, <1>4, <1>5, ClientFacts, QuietStep

LEMMA StepCancel ==
  ASSUME CoapInv, NEW c \in Clients, NEW s \in Slots, Cancel(c, s), UNCHANGED <<plan, srv, done>>
  PROVE  CoapInv'
<1> DEFINE y == Freed(cli[c], s)
<1> DEFINE b == [app[c] EXCEPT !.outcome = Ended(app[c].outcome, cli[c].ex[s].mid, "cancelled")]
<1>1. cli[c].ex[s].active /\ "cancelled" \in Kinds
  BY DEF Cancel, Active, Kinds
<1>2. cli[c].ex[s].mid \in 1 .. Len(app[c].outcome)
  BY <1>1, SlotMid
<1>3. /\ b \in Application /\ Len(b.outcome) = Len(app[c].outcome) /\ SameNews(app[c], b)
      /\ b.outcome = Ended(app[c].outcome, cli[c].ex[s].mid, "cancelled") /\ b.orphans = app[c].orphans
  BY <1>1, <1>2, ClientFacts, CancelledIs, SMTT(30)
<1>4. cli' = [cli EXCEPT ![c] = y] /\ app' = [app EXCEPT ![c] = b] /\ net' = net \cup {}
  <2>1. app' = [app EXCEPT ![c] = b]
    BY ClientFacts DEF Cancel, Ended, Application, CoapInv, TypeOK
  <2>2. QED BY <2>1 DEF Cancel
<1> HIDE DEF b
<1>5. y \in Client /\ y.recent = cli[c].recent
  BY ClientFacts, FreedIs
<1>6. TableInv(y, b.outcome, b.orphans)
  BY <1>1, <1>3, ClientFacts, TableEnd
<1> HIDE DEF y
<1>7. Len(b.outcome) = Len(plan.asks[c]) /\ {} \in SUBSET Requests(c)
  BY <1>3, ClientFacts
<1>8. QED BY <1>3, <1>4, <1>5, <1>6, <1>7, QuietStep

LEMMA StepTimeout ==
  ASSUME CoapInv, NEW c \in Clients, NEW s \in Slots, NEW reaction, Timeout(c, s, reaction),
         UNCHANGED <<plan, srv, done>>
  PROVE  CoapInv'
<1> DEFINE y == Completed(c, cli[c], s, reaction)
<1> DEFINE b == Outcome(c, cli[c], s, reaction, app[c], "time_out")
<1> DEFINE N == SentMeanwhile(c, cli[c], y)
<1>1. cli[c].ex[s].active /\ "time_out" \in Kinds
  BY DEF Timeout, Active, Kinds
<1>2. cli' = [cli EXCEPT ![c] = y] /\ app' = [app EXCEPT ![c] = b] /\ net' = net \cup N
  <2>1. cli' = [cli EXCEPT ![c] = y] /\ app' = [app EXCEPT ![c] = b]
        /\ net' = net \cup SentMeanwhile(c, cli[c], cli'[c])
    BY DEF Timeout
  <2> HIDE DEF y
  <2>2. cli'[c] = y
    BY <2>1 DEF CoapInv, TypeOK
  <2>3. QED BY <2>1, <2>2
<1>3. /\ b \in Application /\ Len(b.outcome) = Len(app[c].outcome) /\ SameNews(app[c], b)
      /\ TableInv(y, b.outcome, b.orphans)
  BY <1>1, ClientFacts, TableCompleted
<1>4. /\ y \in Client /\ y.recent = cli[c].recent
      /\ y.next = cli[c].next \/ (y.next = cli[c].next + 1 /\ cli[c].next \in Ids(c))
  BY ClientFacts, ReactedIs
<1> HIDE DEF y, b
<1>5. N \subseteq Requests(c)
  BY <1>4, ClientFacts, SentMeanwhileIs
<1> HIDE DEF N
<1>6. Len(b.outcome) = Len(plan.asks[c])
  BY <1>3, ClientFacts
<1>7. QED BY <1>2, <1>3, <1>4, <1>5, <1>6, QuietStep

(* A step that changes nothing, as a send that fails.                      *)
LEMMA StepStutter ==
  ASSUME CoapInv, UNCHANGED <<plan, net, cli, app, srv, done>>
  PROVE  CoapInv'
<1>1. /\ plan' = plan /\ net' = net /\ cli' = cli /\ app' = app /\ srv' = srv /\ done' = done
  OBVIOUS
<1>2. TypeOK' /\ NetInv' /\ CacheInv' /\ PendingInv' /\ ExchangeInv'
  BY <1>1 DEF CoapInv, TypeOK, NetInv, CacheInv, PendingInv, ExchangeInv, Ids
<1>3. RunsInv' /\ HeardInv' /\ KnownInv'
  BY <1>1 DEF CoapInv, RunsInv, ExecutedOnce, HeardInv, HeardOnce, AnswersOwnRequest, KnownInv,
              AckedIsHeard, To, Ids
<1>4. QED BY <1>2, <1>3 DEF CoapInv

(* A step that changes one exchange, but neither its request nor that it   *)
(* is active.                                                              *)
LEMMA StepSlot ==
  ASSUME CoapInv, NEW c \in Clients, NEW s \in Slots, NEW e \in Exchange,
         e.active = cli[c].ex[s].active, e.mid = cli[c].ex[s].mid,
         cli' = [cli EXCEPT ![c].ex[s] = e], NEW N \in SUBSET Requests(c), net' = net \cup N,
         UNCHANGED <<plan, srv, done, app>>
  PROVE  CoapInv'
<1> DEFINE f == [cli[c].ex EXCEPT ![s] = e]
<1> DEFINE y == [cli[c] EXCEPT !.ex = f]
<1>1. cli[c].ex \in [Slots -> Exchange]
  BY ClientFacts DEF Client
<1>2. f \in [Slots -> Exchange] /\ f[s] = e /\ \A t \in Slots : t # s => f[t] = cli[c].ex[t]
  BY <1>1
<1>3. cli' = [cli EXCEPT ![c] = y]
  BY ClientFacts DEF Client, CoapInv, TypeOK
<1> HIDE DEF f
<1>4. y \in Client /\ y.recent = cli[c].recent /\ y.next = cli[c].next /\ y.ex = f
  BY <1>2, ClientFacts DEF Client
<1> HIDE DEF y
<1>5. \A t \in Slots : /\ y.ex[t].active <=> cli[c].ex[t].active
                       /\ cli[c].ex[t].active => y.ex[t].mid = cli[c].ex[t].mid
  BY <1>2, <1>4
<1>6. TableInv(y, app[c].outcome, app[c].orphans)
  BY <1>4, <1>5, ClientFacts, TableSame
<1>7. SameNews(app[c], app[c]) /\ app' = [app EXCEPT ![c] = app[c]]
  BY ClientFacts DEF SameNews
<1>8. QED BY <1>3, <1>4, <1>6, <1>7, ClientFacts, QuietStep

LEMMA StepRetransmit ==
  ASSUME CoapInv, NEW c \in Clients, NEW s \in Slots, Retransmit(c, s), UNCHANGED <<plan, srv, done>>
  PROVE  CoapInv'
<1> DEFINE e == Retransmitted(cli[c].ex[s])
<1> DEFINE N == {RequestOf(c, cli[c].ex[s].mid)}
<1>1. cli[c].ex[s].active
  BY DEF Retransmit, Active
<1>2. cli[c].ex[s] \in Exchange
  BY ClientFacts DEF Client
<1>3. e \in Exchange /\ e.active = cli[c].ex[s].active /\ e.mid = cli[c].ex[s].mid
  BY <1>2 DEF Retransmitted, Exchange
<1>4. N \subseteq Requests(c)
  BY <1>1, SlotMid DEF Requests
<1>5. cli' = [cli EXCEPT ![c].ex[s] = e] /\ net' = net \cup N /\ app' = app
  BY DEF Retransmit
<1> HIDE DEF e, N
<1>6. QED BY <1>3, <1>4, <1>5, StepSlot

LEMMA StepLifetimePasses ==
  ASSUME CoapInv, NEW c \in Clients, NEW s \in Slots, LifetimePasses(c, s), UNCHANGED <<plan, srv, done>>
  PROVE  CoapInv'
<1> DEFINE e == [cli[c].ex[s] EXCEPT !.waited = TRUE]
<1>1. cli[c].ex[s] \in Exchange /\ cli[c].ex \in [Slots -> Exchange]
  BY ClientFacts DEF Client
<1>2. e \in Exchange /\ e.active = cli[c].ex[s].active /\ e.mid = cli[c].ex[s].mid
  BY <1>1 DEF Exchange
<1>3. cli' = [cli EXCEPT ![c].ex[s] = e] /\ net' = net \cup {} /\ app' = app
  BY DEF LifetimePasses
<1> HIDE DEF e
<1>4. {} \in SUBSET Requests(c)
  OBVIOUS
<1>5. QED BY <1>2, <1>3, <1>4, StepSlot

LEMMA StepReceiveEmptyAck ==
  ASSUME CoapInv, NEW c \in Clients, NEW d \in To(c), ReceiveEmptyAck(c, d), UNCHANGED <<plan, srv, done>>
  PROVE  CoapInv'
<1>1. PICK s \in find_mid(c, cli[c], d.mid) :
              cli' = [cli EXCEPT ![c].ex[s] = [@ EXCEPT !.acknowledged = TRUE, !.waited = FALSE]]
  BY DEF ReceiveEmptyAck
<1> DEFINE e == [cli[c].ex[s] EXCEPT !.acknowledged = TRUE, !.waited = FALSE]
<1>2. s \in Slots
  BY DEF find_mid, Active
<1>3. cli[c].ex[s] \in Exchange /\ cli[c].ex \in [Slots -> Exchange]
  BY <1>2, ClientFacts DEF Client
<1>4. e \in Exchange /\ e.active = cli[c].ex[s].active /\ e.mid = cli[c].ex[s].mid
  BY <1>3 DEF Exchange
<1>5. cli' = [cli EXCEPT ![c].ex[s] = e] /\ net' = net \cup {} /\ app' = app
  BY <1>1, <1>2, ClientFacts DEF ReceiveEmptyAck, Client, CoapInv, TypeOK
<1> HIDE DEF e
<1>6. {} \in SUBSET Requests(c)
  OBVIOUS
<1>7. QED BY <1>2, <1>4, <1>5, <1>6, StepSlot

-----------------------------------------------------------------------------
(* A client receives a response *)

LEMMA ToIs ==
  ASSUME CoapInv, NEW c \in Clients, NEW d \in To(c)
  PROVE  d \in net /\ d \in Wire /\ d.dir = "down" /\ d.peer = c /\ d.mid \in Nat /\ d.type \in Types
<1>1. d \in net /\ d \in Wire /\ d.dir = "down" /\ d.peer = c
  BY DEF To, CoapInv, TypeOK
<1>2. QED BY <1>1, WireFields

LEMMA ControlUp ==
  ASSUME CoapInv, NEW c \in Clients, NEW d \in To(c)
  PROVE  /\ Upward(c, Acks(c, d)) /\ Upward(c, Refusal(c, d))
         /\ \A x \in Acks(c, d) : x.mid = d.mid /\ d.type = "CON"
         /\ \A x \in Refusal(c, d) : x.type # "ACK"
<1>1. d.mid \in Nat
  BY ToIs
<1> DEFINE ack == Control("up", c, "ACK", d.mid)
<1> DEFINE rst == Control("up", c, "RST", d.mid)
<1>2. /\ ack \in Wire /\ ack.dir = "up" /\ ack.peer = c /\ ack.mid = d.mid /\ ack.code = "empty"
      /\ rst \in Wire /\ rst.dir = "up" /\ rst.peer = c /\ rst.type = "RST" /\ rst.code = "empty"
  BY <1>1, ControlIs
<1>3. Acks(c, d) \subseteq {ack} /\ Refusal(c, d) \subseteq {rst} /\ \A x \in Acks(c, d) : d.type = "CON"
  BY DEF Acks, Refusal
<1> HIDE DEF ack, rst
<1>4. QED BY <1>2, <1>3 DEF Upward, Paths

(* What the callback hears: response d, for the request r. *)
Heard(a, b, r, d) ==
    /\ b.heard = a.heard \cup {<<r, d>>}
    /\ b.again = IF \E h \in a.heard : h[2] = d THEN a.again \cup {d} ELSE a.again
    /\ b.rejected = a.rejected /\ b.forgotten = a.forgotten

LEMMA HearIs ==
  ASSUME CoapInv, NEW c \in Clients, NEW d \in To(c), NEW s \in Slots, NEW reaction,
         NEW z \in Client, NEW a \in Application, z.ex[s].active,
         Len(a.outcome) = Len(plan.asks[c]), TableInv(z, a.outcome, a.orphans),
         Hear(c, z, d, s, reaction, a), UNCHANGED <<plan, srv, done>>
  PROVE  \E y, b, N : /\ ClientStep(c, y, b, N) /\ y.recent = z.recent
                      /\ Heard(a, b, z.ex[s].mid, d)
                      /\ \A x \in N : x.type = "ACK" => d.type = "CON" /\ x.mid = d.mid
<1> DEFINE keep == Ask(c, z.ex[s].mid).observe /\ d.observe
<1> DEFINE heard == a.heard \cup {<<z.ex[s].mid, d>>}
<1> DEFINE again == IF \E h \in a.heard : h[2] = d THEN a.again \cup {d} ELSE a.again
<1> DEFINE e == [a EXCEPT !.heard = heard, !.again = again]
<1> DEFINE y == IF keep THEN Reacted(c, z, s, reaction) ELSE Completed(c, z, s, reaction)
<1> DEFINE b == IF keep THEN Kept(c, z, s, reaction, e) ELSE Outcome(c, z, s, reaction, e, "response")
<1> DEFINE N == Acks(c, d) \cup SentMeanwhile(c, z, y)
<1>1. cli' = [cli EXCEPT ![c] = y] /\ app' = [app EXCEPT ![c] = b] /\ net' = net \cup N
  BY DEF Hear, Application
<1>2. e \in Application /\ e.outcome = a.outcome /\ e.orphans = a.orphans
      /\ e.heard = heard /\ e.again = again /\ e.rejected = a.rejected /\ e.forgotten = a.forgotten
  <2>1. z.ex[s].mid \in Nat /\ d \in Wire
    BY ToIs DEF Client, Exchange
  <2>2. heard \in SUBSET (Nat \X Wire) /\ again \in SUBSET Wire
    BY <2>1 DEF Application
  <2> HIDE DEF heard, again
  <2>3. QED BY <2>2 DEF Application
<1> HIDE DEF e, heard, again
<1>3. plan \in Scenario /\ "response" \in Kinds
  BY ClientFacts DEF Kinds
<1>4. Len(e.outcome) = Len(plan.asks[c]) /\ TableInv(z, e.outcome, e.orphans)
  BY <1>2
<1>5. /\ b \in Application /\ Len(b.outcome) = Len(e.outcome) /\ SameNews(e, b)
      /\ TableInv(y, b.outcome, b.orphans)
  <2>1. CASE keep
    <3> HIDE DEF keep
    <3>1. b = Kept(c, z, s, reaction, e) /\ y = Reacted(c, z, s, reaction)
      BY <2>1
    <3> HIDE DEF b, y
    <3>2. /\ b \in Application /\ Len(b.outcome) = Len(e.outcome) /\ SameNews(e, b)
          /\ TableInv(Reacted(c, z, s, reaction), b.outcome, b.orphans)
      BY <1>2, <1>3, <1>4, <3>1, TableKept
    <3>3. QED BY <3>1, <3>2
  <2>2. CASE ~keep
    <3> HIDE DEF keep
    <3>1. b = Outcome(c, z, s, reaction, e, "response") /\ y = Completed(c, z, s, reaction)
      BY <2>2
    <3> HIDE DEF b, y
    <3>2. /\ b \in Application /\ Len(b.outcome) = Len(e.outcome) /\ SameNews(e, b)
          /\ TableInv(Completed(c, z, s, reaction), b.outcome, b.orphans)
      BY <1>2, <1>3, <1>4, <3>1, TableCompleted
    <3>3. QED BY <3>1, <3>2
  <2>3. QED BY <2>1, <2>2
<1>6. /\ y \in Client /\ y.recent = z.recent
      /\ y.next = z.next \/ (y.next = z.next + 1 /\ z.next \in Ids(c))
  BY <1>3, ReactedIs
<1> HIDE DEF keep, y, b
<1>7. Upward(c, N) /\ \A x \in N : x.type = "ACK" => d.type = "CON" /\ x.mid = d.mid
  <2>1. SentMeanwhile(c, z, y) \in SUBSET Requests(c)
    BY <1>3, <1>6, SentMeanwhileIs
  <2>2. Upward(c, SentMeanwhile(c, z, y)) /\ \A x \in SentMeanwhile(c, z, y) : x.type # "ACK"
    BY <1>3, <2>1, RequestsUp
  <2>3. Upward(c, Acks(c, d)) /\ \A x \in Acks(c, d) : x.mid = d.mid /\ d.type = "CON"
    BY ControlUp
  <2>4. QED BY <2>2, <2>3 DEF Upward
<1> HIDE DEF N
<1>8. ClientStep(c, y, b, N)
  BY <1>1, <1>4, <1>5, <1>6, <1>7 DEF ClientStep
<1>9. Heard(a, b, z.ex[s].mid, d)
  BY <1>2, <1>5 DEF Heard, SameNews, heard, again
<1>10. QED BY <1>6, <1>7, <1>8, <1>9

LEMMA HearNews ==
  ASSUME CoapInv, NEW c \in Clients, NEW d \in To(c), NEW y, NEW a, NEW b, NEW r, NEW N,
         Heard(a, b, r, d),
         a.heard = app[c].heard, a.again = app[c].again, a.rejected = app[c].rejected,
         app[c].forgotten \subseteq a.forgotten,
         ToSet(cli[c].recent) \subseteq ToSet(y.recent) \cup a.forgotten,
         d.type = "ACK" => d.of = <<c, r>>,
         d.type = "ACK" \/ (/\ d.type \in {"CON", "NON"} /\ d.mid \in ToSet(y.recent)
                            /\ d.mid \in a.forgotten \/ d.mid \notin ToSet(cli[c].recent)),
         \A m \in ToSet(y.recent) : m \in ToSet(cli[c].recent) \/ (m = d.mid /\ d.type # "ACK"),
         \A x \in N : x.type = "ACK" => d.type = "CON" /\ x.mid = d.mid
  PROVE  News(c, y, b, N, d)
<1>1. d \in net /\ d.dir = "down" /\ d.peer = c
  BY ToIs
<1>2. d.type # "ACK" => Learned(c, b, d)
  <2>1. Settled(b, d)
    <3>1. <<r, d>> \in b.heard /\ <<r, d>>[2] = d
      BY DEF Heard
    <3>2. QED BY <3>1 DEF Settled
  <2>2. QED BY <1>1, <2>1 DEF Learned
<1>3. \A h \in b.heard : \/ h \in app[c].heard
                         \/ /\ h[2] = d /\ (d.type = "ACK" => d.of = <<c, h[1]>>)
                            /\ d.type = "ACK" \/ d.mid \in ToSet(y.recent)
  BY DEF Heard
<1>4. \A x \in b.again : \/ x \in app[c].again
                         \/ /\ x = d /\ \E h \in app[c].heard : h[2] = d
                            /\ \/ d.type = "ACK" \/ d.mid \in b.forgotten
                               \/ d.mid \notin ToSet(cli[c].recent)
  BY DEF Heard
<1>5. \A x \in N : x.type = "ACK" => x.mid = d.mid /\ (d.mid \in ToSet(cli[c].recent) \/ Learned(c, b, d))
  BY <1>2
<1>6. /\ app[c].heard \subseteq b.heard /\ app[c].rejected \subseteq b.rejected
      /\ app[c].forgotten \subseteq b.forgotten
      /\ ToSet(cli[c].recent) \subseteq ToSet(y.recent) \cup b.forgotten
  BY DEF Heard
<1>7. \A m \in ToSet(y.recent) : m \in ToSet(cli[c].recent) \/ (m = d.mid /\ Learned(c, b, d))
  BY <1>2
<1>8. QED BY <1>3, <1>4, <1>5, <1>6, <1>7 DEF News

LEMMA StepReceivePiggybacked ==
  ASSUME CoapInv, NEW c \in Clients, NEW d \in To(c), NEW reaction,
         ReceivePiggybacked(c, d, reaction), UNCHANGED <<plan, srv, done>>
  PROVE  CoapInv'
<1>1. PICK s \in BelongsTo(c, d) : Hear(c, cli[c], d, s, reaction, app[c])
  BY DEF ReceivePiggybacked
<1>2. d.type = "ACK" /\ d.code # "empty"
  BY DEF ReceivePiggybacked
<1>3. s \in Slots /\ cli[c].ex[s].active /\ cli[c].ex[s].mid = d.mid
  BY <1>2 DEF BelongsTo, find_token, Active
<1>4. d \in net /\ d.dir = "down" /\ d.peer = c
  BY ToIs
<1>5. d.of = <<c, d.mid>>
  BY <1>2, <1>4 DEF CoapInv, NetInv, IsReply
<1>6. PICK y, b, N : /\ ClientStep(c, y, b, N) /\ y.recent = cli[c].recent
                     /\ Heard(app[c], b, cli[c].ex[s].mid, d)
                     /\ \A x \in N : x.type = "ACK" => d.type = "CON" /\ x.mid = d.mid
  BY <1>1, <1>3, ClientFacts, HearIs
<1>7. News(c, y, b, N, d)
  <2>1. d.type = "ACK" => d.of = <<c, cli[c].ex[s].mid>>
    BY <1>3, <1>5
  <2>2. QED BY <1>2, <1>6, <2>1, HearNews
<1>8. QED BY <1>6, <1>7, ClientNews

-----------------------------------------------------------------------------
(* The client's table of recent identifiers *)

LEMMA RememberingIs ==
  ASSUME CoapInv, NEW c \in Clients, NEW d \in To(c), NEW k \in Expirable(cli[c].recent)
  PROVE  /\ Expired(c, k) \in Seq(Nat) /\ ToSet(Expired(c, k)) \subseteq ToSet(cli[c].recent)
         /\ Remembering(c, d, k) \in Seq(Nat) /\ d.mid \in ToSet(Remembering(c, d, k))
         /\ ToSet(Remembering(c, d, k)) \subseteq ToSet(cli[c].recent) \cup {d.mid}
<1>1. cli[c].recent \in Seq(Nat) /\ d.mid \in Nat
  BY ClientFacts, ToIs DEF Client
<1>2. Expired(c, k) \in Seq(Nat) /\ ToSet(Expired(c, k)) \subseteq ToSet(cli[c].recent)
  BY <1>1, UnexpiredIs DEF Expired
<1>3. /\ Latest(Append(Expired(c, k), d.mid), ClientRecent) \in Seq(Nat)
      /\ d.mid \in ToSet(Latest(Append(Expired(c, k), d.mid), ClientRecent))
      /\ ToSet(Latest(Append(Expired(c, k), d.mid), ClientRecent)) \subseteq ToSet(Expired(c, k)) \cup {d.mid}
  <2>1. ClientRecent \in Nat \ {0}
    OBVIOUS
  <2>2. QED BY <1>1, <1>2, <2>1, LatestIs
<1>4. Remembering(c, d, k) = Latest(Append(Expired(c, k), d.mid), ClientRecent)
  BY DEF Remembering, Remembers
<1>5. QED BY <1>2, <1>3, <1>4

(* What is dropped from the table is forgotten. *)
LEMMA ForgettingIs ==
  ASSUME CoapInv, NEW c \in Clients, NEW k \in Expirable(cli[c].recent), NEW recent,
         NEW a, a = Forgetting(c, k, recent)
  PROVE  /\ a \in Application /\ a.outcome = app[c].outcome /\ a.orphans = app[c].orphans
         /\ a.heard = app[c].heard /\ a.again = app[c].again /\ a.rejected = app[c].rejected
         /\ app[c].forgotten \subseteq a.forgotten
         /\ ToSet(cli[c].recent) \subseteq ToSet(recent) \cup a.forgotten
         /\ \A m \in ToSet(cli[c].recent) : m \notin ToSet(Expired(c, k)) => m \in a.forgotten
<1> DEFINE f == app[c].forgotten \cup (ToSet(cli[c].recent) \ ToSet(Expired(c, k)))
                                 \cup (ToSet(Expired(c, k)) \ ToSet(recent))
<1>1. cli[c].recent \in Seq(Nat)
  BY ClientFacts DEF Client
<1>2. ToSet(cli[c].recent) \subseteq Nat /\ ToSet(Expired(c, k)) \subseteq ToSet(cli[c].recent)
  <2>1. ToSet(Expired(c, k)) \subseteq ToSet(cli[c].recent)
    BY <1>1, UnexpiredIs DEF Expired
  <2>2. ToSet(cli[c].recent) \subseteq Nat
    BY <1>1 DEF ToSet
  <2>3. QED BY <2>1, <2>2
<1>3. a = [app[c] EXCEPT !.forgotten = f]
  BY ClientFacts DEF Forgetting, Application
<1>4. f \in SUBSET Nat
  BY <1>2, ClientFacts DEF Application
<1>5. app[c].forgotten \subseteq f /\ ToSet(cli[c].recent) \subseteq ToSet(recent) \cup f
      /\ \A m \in ToSet(cli[c].recent) : m \notin ToSet(Expired(c, k)) => m \in f
  OBVIOUS
<1> HIDE DEF f
<1>6. /\ a \in Application /\ a.outcome = app[c].outcome /\ a.orphans = app[c].orphans
      /\ a.heard = app[c].heard /\ a.again = app[c].again /\ a.rejected = app[c].rejected
      /\ a.forgotten = f
  BY <1>3, <1>4, ClientFacts DEF Application
<1>7. QED BY <1>5, <1>6

LEMMA RecentIs ==
  ASSUME CoapInv, NEW c \in Clients, NEW recent \in Seq(Nat), NEW y, y = [cli[c] EXCEPT !.recent = recent]
  PROVE  /\ y \in Client /\ y.recent = recent /\ y.ex = cli[c].ex /\ y.next = cli[c].next
         /\ TableInv(y, app[c].outcome, app[c].orphans)
<1>1. y \in Client /\ y.recent = recent /\ y.ex = cli[c].ex /\ y.next = cli[c].next
  BY ClientFacts DEF Client
<1>2. \A s \in Slots : /\ y.ex[s].active <=> cli[c].ex[s].active
                       /\ cli[c].ex[s].active => y.ex[s].mid = cli[c].ex[s].mid
  BY <1>1
<1>3. QED BY <1>1, <1>2, ClientFacts, TableSame

LEMMA StepReceiveResponse ==
  ASSUME CoapInv, NEW c \in Clients, NEW d \in To(c), NEW k \in Expirable(cli[c].recent), NEW reaction,
         ReceiveResponse(c, d, k, reaction), UNCHANGED <<plan, srv, done>>
  PROVE  CoapInv'
<1> DEFINE recent == Remembering(c, d, k)
<1> DEFINE z == [cli[c] EXCEPT !.recent = recent]
<1> DEFINE a == Forgetting(c, k, recent)
<1>1. PICK s \in BelongsTo(c, d) : Hear(c, z, d, s, reaction, a)
  BY DEF ReceiveResponse
<1>2. d.type \in {"CON", "NON"} /\ d.mid \notin ToSet(Expired(c, k))
  BY DEF ReceiveResponse, IsOwnMessage
<1>3. s \in Slots /\ cli[c].ex[s].active
  BY DEF BelongsTo, find_token, Active
<1>4. /\ recent \in Seq(Nat) /\ d.mid \in ToSet(recent)
      /\ ToSet(recent) \subseteq ToSet(cli[c].recent) \cup {d.mid}
  BY RememberingIs
<1>5. /\ a \in Application /\ a.outcome = app[c].outcome /\ a.orphans = app[c].orphans
      /\ a.heard = app[c].heard /\ a.again = app[c].again /\ a.rejected = app[c].rejected
      /\ app[c].forgotten \subseteq a.forgotten
      /\ ToSet(cli[c].recent) \subseteq ToSet(recent) \cup a.forgotten
      /\ \A m \in ToSet(cli[c].recent) : m \notin ToSet(Expired(c, k)) => m \in a.forgotten
  BY ForgettingIs
<1>6. /\ z \in Client /\ z.recent = recent /\ z.ex = cli[c].ex
      /\ TableInv(z, app[c].outcome, app[c].orphans)
  BY <1>4, RecentIs
<1> HIDE DEF recent, z, a
<1>7. Len(a.outcome) = Len(plan.asks[c]) /\ TableInv(z, a.outcome, a.orphans) /\ z.ex[s].active
  BY <1>3, <1>5, <1>6, ClientFacts
<1>8. PICK y, b, N : /\ ClientStep(c, y, b, N) /\ y.recent = z.recent
                     /\ Heard(a, b, z.ex[s].mid, d)
                     /\ \A x \in N : x.type = "ACK" => d.type = "CON" /\ x.mid = d.mid
  BY <1>1, <1>3, <1>5, <1>6, <1>7, HearIs
<1>9. News(c, y, b, N, d)
  <2>1. ToSet(cli[c].recent) \subseteq ToSet(y.recent) \cup a.forgotten
    BY <1>5, <1>6, <1>8
  <2>2. /\ d.type # "ACK" /\ d.mid \in ToSet(y.recent)
        /\ d.mid \in a.forgotten \/ d.mid \notin ToSet(cli[c].recent)
    BY <1>2, <1>4, <1>5, <1>6, <1>8
  <2>3. \A m \in ToSet(y.recent) : m \in ToSet(cli[c].recent) \/ (m = d.mid /\ d.type # "ACK")
    BY <1>4, <1>6, <1>8, <2>2
  <2>4. QED BY <1>2, <1>5, <1>8, <2>1, <2>2, <2>3, HearNews
<1>10. QED BY <1>8, <1>9, ClientNews

LEMMA StepReceiveDuplicate ==
  ASSUME CoapInv, NEW c \in Clients, NEW d \in To(c), NEW k \in Expirable(cli[c].recent),
         ReceiveDuplicate(c, d, k), UNCHANGED <<plan, srv, done>>
  PROVE  CoapInv'
<1> DEFINE recent == Expired(c, k)
<1> DEFINE y == [cli[c] EXCEPT !.recent = recent]
<1> DEFINE b == Forgetting(c, k, recent)
<1> DEFINE N == Acks(c, d)
<1>1. cli' = [cli EXCEPT ![c] = y] /\ app' = [app EXCEPT ![c] = b] /\ net' = net \cup N
  BY ClientFacts DEF ReceiveDuplicate, CoapInv, TypeOK
<1>2. recent \in Seq(Nat) /\ ToSet(recent) \subseteq ToSet(cli[c].recent) /\ d.mid \in ToSet(recent)
  BY RememberingIs DEF ReceiveDuplicate
<1>3. /\ b \in Application /\ b.outcome = app[c].outcome /\ b.orphans = app[c].orphans
      /\ b.heard = app[c].heard /\ b.again = app[c].again /\ b.rejected = app[c].rejected
      /\ app[c].forgotten \subseteq b.forgotten
      /\ ToSet(cli[c].recent) \subseteq ToSet(recent) \cup b.forgotten
  BY ForgettingIs
<1>4. y \in Client /\ y.recent = recent /\ TableInv(y, app[c].outcome, app[c].orphans)
  BY <1>2, RecentIs
<1>5. Upward(c, N) /\ \A x \in N : x.mid = d.mid
  BY ControlUp
<1> HIDE DEF recent, y, b, N
<1>6. ClientStep(c, y, b, N)
  BY <1>1, <1>3, <1>4, <1>5, ClientFacts DEF ClientStep
<1>7. News(c, y, b, N, d)
  BY <1>2, <1>3, <1>4, <1>5 DEF News
<1>8. QED BY <1>6, <1>7, ClientNews

LEMMA StepReceiveUnmatched ==
  ASSUME CoapInv, NEW c \in Clients, NEW d \in To(c), NEW k \in Expirable(cli[c].recent),
         ReceiveUnmatched(c, d, k), UNCHANGED <<plan, srv, done>>
  PROVE  CoapInv'
<1> DEFINE recent == Remembering(c, d, k)
<1> DEFINE y == [cli[c] EXCEPT !.recent = recent]
<1> DEFINE a == Forgetting(c, k, recent)
<1> DEFINE rejected == IF Resets(c, d) THEN app[c].rejected \cup {d} ELSE app[c].rejected
<1> DEFINE b == [a EXCEPT !.rejected = rejected]
<1> DEFINE N == Refusal(c, d)
<1>1. /\ a \in Application /\ a.outcome = app[c].outcome /\ a.orphans = app[c].orphans
      /\ a.heard = app[c].heard /\ a.again = app[c].again /\ a.rejected = app[c].rejected
      /\ app[c].forgotten \subseteq a.forgotten
      /\ ToSet(cli[c].recent) \subseteq ToSet(recent) \cup a.forgotten
  BY ForgettingIs
<1>2. /\ recent \in Seq(Nat) /\ ToSet(recent) \subseteq ToSet(cli[c].recent) \cup {d.mid}
  BY RememberingIs
<1>3. y \in Client /\ y.recent = recent /\ TableInv(y, app[c].outcome, app[c].orphans)
  BY <1>2, RecentIs
<1>4. cli' = [cli EXCEPT ![c] = y] /\ app' = [app EXCEPT ![c] = b] /\ net' = net \cup N
  <2>1. app' = [app EXCEPT ![c] = [a EXCEPT !.rejected = IF Resets(c, d) THEN @ \cup {d} ELSE @]]
    BY DEF ReceiveUnmatched
  <2> HIDE DEF a, recent
  <2>2. [a EXCEPT !.rejected = IF Resets(c, d) THEN @ \cup {d} ELSE @] = b
    BY <1>1
  <2>3. app' = [app EXCEPT ![c] = b]
    BY <2>1, <2>2
  <2>4. cli' = [cli EXCEPT ![c] = y] /\ net' = net \cup N
    BY DEF ReceiveUnmatched, recent
  <2>5. QED BY <2>3, <2>4
<1>5. d.type \in {"CON", "NON"} /\ d \in net /\ d \in Wire /\ d.dir = "down" /\ d.peer = c
  BY ToIs DEF ReceiveUnmatched, IsOwnMessage
<1>6. d.type = "CON" => d \in rejected
  BY DEF Resets, Refusal
<1>7. rejected \in SUBSET Wire /\ app[c].rejected \subseteq rejected
  BY <1>5, ClientFacts DEF Application
<1>8. Upward(c, N) /\ \A x \in N : x.type # "ACK"
  BY ControlUp
<1> HIDE DEF recent, y, a, rejected, N
<1>9. /\ b \in Application /\ b.outcome = app[c].outcome /\ b.orphans = app[c].orphans
      /\ b.heard = app[c].heard /\ b.again = app[c].again /\ b.rejected = rejected
      /\ b.forgotten = a.forgotten
  BY <1>1, <1>7 DEF Application
<1> HIDE DEF b
<1>10. ClientStep(c, y, b, N)
  BY <1>3, <1>4, <1>8, <1>9, ClientFacts DEF ClientStep
<1>11. Learned(c, b, d)
  BY <1>5, <1>6, <1>9 DEF Learned, Settled
<1>12. News(c, y, b, N, d)
  BY <1>1, <1>2, <1>3, <1>7, <1>8, <1>9, <1>11 DEF News
<1>13. QED BY <1>10, <1>12, ClientNews

LEMMA StepClient ==
  ASSUME CoapInv, NEW c \in Clients, ClientNext(c), UNCHANGED <<plan, srv, done>>
  PROVE  CoapInv'
<1>1. CASE SendRequest(c)
  BY <1>1, StepSendRequest
<1>2. ASSUME NEW s \in Slots, Cancel(c, s) \/ Timer(c, s) PROVE CoapInv'
  <2>1. CASE Cancel(c, s)
    BY <2>1, StepCancel
  <2>2. CASE Retransmit(c, s)
    BY <2>2, StepRetransmit
  <2>3. CASE RetransmitFails(c, s)
    BY <2>3, StepStutter DEF RetransmitFails
  <2>4. CASE LifetimePasses(c, s)
    BY <2>4, StepLifetimePasses
  <2>5. ASSUME NEW reaction \in plan.reactions, Timeout(c, s, reaction) PROVE CoapInv'
    BY <2>5, StepTimeout
  <2>6. QED BY <1>2, <2>1, <2>2, <2>3, <2>4, <2>5 DEF Timer, GiveUp
<1>3. ASSUME NEW d \in To(c), ProcessOnce(c, d) PROVE CoapInv'
  BY <1>3, StepReceiveEmptyAck, StepReceivePiggybacked, StepReceiveDuplicate, StepReceiveUnmatched,
     StepReceiveResponse DEF ProcessOnce
<1>4. QED BY <1>1, <1>2, <1>3 DEF ClientNext

-----------------------------------------------------------------------------
(* What a step of the server does *)

(* It sends replies and acknowledgements; *)
Downward(N) ==
    \A x \in N : /\ x \in Wire /\ x.dir = "down"
                 /\ x.type = "ACK" /\ x.code # "empty" => IsReply(x, x.peer, x.mid)

(* a confirmable response is sent again, or it has the next identifier n.  *)
Fresh(N, n) ==
    /\ \A x \in N : x.type = "CON" => x \in net \/ x.mid = n
    /\ \A x, z \in N : x.type = "CON" /\ z.type = "CON" /\ x \notin net /\ z \notin net => x = z

LEMMA ServerFrame ==
  ASSUME CoapInv, NEW N, Downward(N), net' = net \cup N, UNCHANGED <<plan, cli, app>>,
         srv' \in Server, done' \in Done, \A c \in Clients : Len(done'.runs[c]) = Len(plan.asks[c]),
         srv.next <= srv'.next,
         Fresh(N, srv.next), (\E x \in N : x.type = "CON" /\ x \notin net) => srv.next < srv'.next,
         CacheInv', PendingInv', RunsInv', AckedIsHeard'
  PROVE  CoapInv'
<1>1. TypeOK'
  <2>1. net' \subseteq Wire
    BY DEF Downward, CoapInv, TypeOK
  <2>2. QED BY <2>1 DEF CoapInv, TypeOK
<1>2. srv.next \in Nat /\ srv'.next \in Nat
  BY DEF CoapInv, TypeOK, Server
<1>3. \A x \in net' : x.mid \in Nat
  BY <1>1, WireFields DEF TypeOK
<1>4. NetInv'
  <2>1. \A d \in net' : d.dir = "up" /\ d.code \in Paths => d.mid \in (Ids(d.peer))'
    <3>1. \A d \in net' : d.dir = "up" => d \in net
      BY DEF Downward
    <3>2. QED BY <3>1 DEF CoapInv, NetInv, Ids
  <2>2. \A d \in net' : d.dir = "down" /\ d.type = "ACK" /\ d.code # "empty" => IsReply(d, d.peer, d.mid)
    BY DEF Downward, CoapInv, NetInv
  <2>3. \A d \in net : d.dir = "down" /\ d.type = "CON" => d.mid < srv.next
    BY DEF CoapInv, NetInv
  <2>4. \A d \in net' : d.type = "CON" /\ d \notin net => d.mid = srv.next /\ srv.next < srv'.next
    BY DEF Fresh
  <2>5. \A d \in net' : d.dir = "down" /\ d.type = "CON" => d.mid < srv'.next
    BY <1>2, <1>3, <2>3, <2>4
  <2>6. ASSUME NEW d \in net', NEW e \in net', d.dir = "down", d.type = "CON", e.dir = "down",
               e.type = "CON", d.mid = e.mid
        PROVE  d = e
    <3>1. CASE d \in net /\ e \in net
      BY <2>6, <3>1 DEF CoapInv, NetInv
    <3>2. CASE d \notin net /\ e \notin net
      BY <2>6, <3>2 DEF Fresh
    <3>3. CASE d \in net /\ e \notin net
      BY <1>2, <1>3, <2>3, <2>4, <2>6, <3>3
    <3>4. CASE d \notin net /\ e \in net
      BY <1>2, <1>3, <2>3, <2>4, <2>6, <3>4
    <3>5. QED BY <3>1, <3>2, <3>3, <3>4
  <2>7. QED BY <2>1, <2>2, <2>5, <2>6 DEF NetInv
<1>5. HeardInv'
  BY DEF CoapInv, HeardInv, HeardOnce, AnswersOwnRequest
<1>6. \A c, m : Known(net, c, m, app[c]) => Known(net', c, m, app[c])
  BY DEF Known
<1>7. \A c \in Clients : \A m \in ToSet(cli[c].recent) : Known(net', c, m, app[c])
  BY <1>6 DEF CoapInv, KnownInv
<1>8. \A d \in net' : d.dir = "up" /\ d.type = "ACK" => Known(net', d.peer, d.mid, app[d.peer])
  <2>1. \A d \in net' : d.dir = "up" => d \in net
    BY DEF Downward
  <2>2. QED BY <1>6, <2>1 DEF CoapInv, KnownInv
<1>9. KnownInv'
  BY <1>7, <1>8 DEF KnownInv
<1>10. ExchangeInv'
  BY DEF CoapInv, ExchangeInv
<1>11. QED BY <1>1, <1>4, <1>5, <1>9, <1>10 DEF CoapInv

LEMMA ServerFacts ==
  ASSUME CoapInv
  PROVE  /\ plan \in Scenario /\ srv \in Server /\ done \in Done
         /\ srv.recent \in Seq(CacheEntry) /\ srv.pending \in [Pending -> PendingEntry]
         /\ srv.count \in [Clients -> Nat] /\ srv.next \in Nat /\ srv.failures \in Nat
         /\ \A c \in Clients : done.runs[c] \in Seq(Nat) /\ Len(done.runs[c]) = Len(plan.asks[c])
<1>1. plan \in Scenario /\ srv \in Server /\ done \in Done
      /\ \A c \in Clients : Len(done.runs[c]) = Len(plan.asks[c])
  BY DEF CoapInv, TypeOK
<1>2. /\ srv.recent \in Seq(CacheEntry) /\ srv.pending \in [Pending -> PendingEntry]
      /\ srv.count \in [Clients -> Nat] /\ srv.next \in Nat /\ srv.failures \in Nat
  BY <1>1 DEF Server
<1>3. \A c \in Clients : done.runs[c] \in Seq(Nat)
  BY <1>1 DEF Done
<1>4. QED BY <1>1, <1>2, <1>3

(* A response that was acknowledged stays one the application heard. *)
LEMMA AckedSame ==
  ASSUME CoapInv, net \subseteq net', app' = app, NEW d,
         d \in done.acked
  PROVE  \/ d \in app'[d.peer].rejected
         \/ \E h \in app'[d.peer].heard : h[2] = d
         \/ \E x \in (To(d.peer))' : x # d /\ x.type = "NON" /\ x.mid = d.mid
<1>1. To(d.peer) \subseteq (To(d.peer))'
  BY DEF To
<1>2. QED BY <1>1 DEF CoapInv, KnownInv, AckedIsHeard

(* The steps that receive a request: the replies remembered become recent, *)
(* lost are the requests that they no longer include.                      *)
LEMMA RequestStep ==
  ASSUME CoapInv, NEW N, Downward(N), \A x \in N : x.type # "CON", net' = net \cup N,
         UNCHANGED <<plan, cli, app>>,
         srv' \in Server, srv'.pending = srv.pending, srv'.next = srv.next,
         done' \in Done, done'.acked = done.acked,
         \A c \in Clients : Len(done'.runs[c]) = Len(plan.asks[c]),
         \A e \in ToSet(srv'.recent) : e.mid \in Ids(e.peer) /\ IsReply(e.reply, e.peer, e.mid),
         Keys(srv.recent) \subseteq Keys(srv'.recent) \cup done'.forgotten,
         done.forgotten \subseteq done'.forgotten,
         \A c \in Clients : \A m \in Ids(c) :
            \/ done'.runs[c][m] = done.runs[c][m]
            \/ /\ <<c, m>> \in Keys(srv'.recent) \cup done'.forgotten
               /\ done'.runs[c][m] <= 1 \/ <<c, m>> \in done'.forgotten
  PROVE  CoapInv'
<1>1. CacheInv'
  BY DEF CacheInv, Ids
<1>2. PendingInv'
  BY DEF CoapInv, PendingInv
<1>3. RunsInv'
  <2>1. \A c : (Ids(c))' = Ids(c)
    BY DEF Ids
  <2>2. ASSUME NEW c \in Clients, NEW m \in Ids(c)
        PROVE  /\ done'.runs[c][m] = 0 \/ <<c, m>> \in Keys(srv'.recent) \cup done'.forgotten
               /\ done'.runs[c][m] <= 1 \/ <<c, m>> \in done'.forgotten
    <3>1. /\ done.runs[c][m] = 0 \/ <<c, m>> \in Keys(srv.recent) \cup done.forgotten
          /\ done.runs[c][m] <= 1 \/ <<c, m>> \in done.forgotten
      BY DEF CoapInv, RunsInv, ExecutedOnce
    <3>2. QED BY <3>1
  <2>3. QED BY <2>1, <2>2 DEF RunsInv, ExecutedOnce
<1>4. AckedIsHeard'
  BY AckedSame DEF AckedIsHeard
<1>5. srv.next <= srv'.next /\ Fresh(N, srv.next)
  BY ServerFacts DEF Fresh
<1>6. QED BY <1>1, <1>2, <1>3, <1>4, <1>5, ServerFrame

-----------------------------------------------------------------------------
(* The server receives a request *)

LEMMA RequestFrom ==
  ASSUME CoapInv, NEW d \in net, d.dir = "up", d.code \in Paths
  PROVE  d.peer \in Clients /\ d.mid \in Ids(d.peer) /\ d.mid \in Nat /\ d.observe \in BOOLEAN
<1>1. d \in Wire
  BY DEF CoapInv, TypeOK
<1>2. QED BY <1>1, WireFields DEF CoapInv, NetInv

LEMMA KeysIs ==
  ASSUME NEW recent \in Seq(CacheEntry)
  PROVE  /\ Keys(recent) \subseteq Clients \X Nat
         /\ \A c, m : find_recent(recent, c, m) = {} => <<c, m>> \notin Keys(recent)
<1>1. ToSet(recent) \subseteq CacheEntry
  BY DEF ToSet
<1>2. \A e \in CacheEntry : <<e.peer, e.mid>> \in Clients \X Nat
  BY DEF CacheEntry
<1>3. ASSUME NEW c, NEW m, <<c, m>> \in Keys(recent) PROVE find_recent(recent, c, m) # {}
  <2>1. PICK e \in ToSet(recent) : <<c, m>> = <<e.peer, e.mid>>
    BY <1>3 DEF Keys
  <2>2. PICK i \in DOMAIN recent : e = recent[i]
    BY DEF ToSet
  <2>3. recent[i].peer = c /\ recent[i].mid = m
    BY <2>1, <2>2
  <2>4. i \in find_recent(recent, c, m)
    BY <2>3 DEF find_recent
  <2>5. QED BY <2>4
<1>4. QED BY <1>1, <1>2, <1>3 DEF Keys

LEMMA ExpireIs ==
  ASSUME CoapInv, NEW k \in Expirable(srv.recent)
  PROVE  /\ Expire(k) \in Seq(CacheEntry)
         /\ Keys(srv.recent) \subseteq Clients \X Nat
         /\ \A e \in ToSet(Expire(k)) : e.mid \in Ids(e.peer) /\ IsReply(e.reply, e.peer, e.mid)
<1>1. srv.recent \in Seq(CacheEntry)
  BY ServerFacts
<1>2. Expire(k) \in Seq(CacheEntry) /\ ToSet(Expire(k)) \subseteq ToSet(srv.recent)
  BY <1>1, UnexpiredIs DEF Expire
<1>3. QED BY <1>1, <1>2, KeysIs DEF CoapInv, CacheInv

(* A request that runs no callback and changes the table only by expiry. *)
LEMMA ExpireStep ==
  ASSUME CoapInv, NEW k \in Expirable(srv.recent), NEW N, Downward(N), \A x \in N : x.type # "CON",
         net' = net \cup N, UNCHANGED <<plan, cli, app>>,
         srv' = [srv EXCEPT !.recent = Expire(k)],
         done' = [done EXCEPT !.forgotten = @ \cup (Keys(srv.recent) \ Keys(Expire(k)))]
  PROVE  CoapInv'
<1> DEFINE recent == Expire(k)
<1> DEFINE f == done.forgotten \cup (Keys(srv.recent) \ Keys(recent))
<1>1. recent \in Seq(CacheEntry)
      /\ \A e \in ToSet(recent) : e.mid \in Ids(e.peer) /\ IsReply(e.reply, e.peer, e.mid)
  BY ExpireIs
<1>2. f \in SUBSET (Clients \X Nat) /\ Keys(srv.recent) \subseteq Keys(recent) \cup f
      /\ done.forgotten \subseteq f
  BY ExpireIs, ServerFacts DEF Done
<1>3. srv' = [srv EXCEPT !.recent = recent] /\ done' = [done EXCEPT !.forgotten = f]
  BY ServerFacts DEF Done
<1> HIDE DEF recent, f
<1>4. srv' \in Server /\ srv'.pending = srv.pending /\ srv'.next = srv.next /\ srv'.recent = recent
  BY <1>1, <1>3, ServerFacts DEF Server
<1>5. done' \in Done /\ done'.acked = done.acked /\ done'.runs = done.runs /\ done'.forgotten = f
  BY <1>2, <1>3, ServerFacts DEF Done
<1>6. \A c \in Clients : Len(done'.runs[c]) = Len(plan.asks[c])
  BY <1>5, ServerFacts
<1>7. QED BY <1>1, <1>2, <1>4, <1>5, <1>6, RequestStep

LEMMA ReplyDown ==
  ASSUME plan \in Scenario, NEW c \in Clients, NEW m \in Ids(c), NEW d \in Wire, IsReply(d, c, m)
  PROVE  Downward({d}) /\ \A x \in {d} : x.type # "CON"
BY DEF Downward, IsReply

LEMMA StepReceiveUndecodable ==
  ASSUME CoapInv, NEW d \in net, d.dir = "up", NEW k \in Expirable(srv.recent),
         ReceiveUndecodable(d, k), UNCHANGED <<plan, cli, app>>
  PROVE  CoapInv'
<1> DEFINE r == Reply(d.peer, d.mid, "bad_option", FALSE)
<1> DEFINE N == IF d.type = "CON" THEN {r} ELSE {}
<1>1. d.peer \in Clients /\ d.mid \in Ids(d.peer) /\ plan \in Scenario
  BY RequestFrom, ServerFacts DEF ReceiveUndecodable, Paths
<1>2. r \in Wire /\ IsReply(r, d.peer, d.mid)
  <2>1. "bad_option" \in Codes /\ FALSE \in BOOLEAN
    BY DEF Codes
  <2>2. QED BY <1>1, <2>1, ReplyIs
<1>3. /\ net' = net \cup N /\ srv' = [srv EXCEPT !.recent = Expire(k)]
      /\ done' = [done EXCEPT !.forgotten = @ \cup (Keys(srv.recent) \ Keys(Expire(k)))]
  BY DEF ReceiveUndecodable
<1> HIDE DEF r
<1>4. Downward(N) /\ \A x \in N : x.type # "CON"
  BY <1>1, <1>2, ReplyDown DEF Downward
<1> HIDE DEF N
<1>5. QED BY <1>3, <1>4, ExpireStep

LEMMA StepReceiveDuplicateRequest ==
  ASSUME CoapInv, NEW d \in net, d.dir = "up", NEW k \in Expirable(srv.recent),
         ReceiveDuplicateRequest(d, k), UNCHANGED <<plan, cli, app>>
  PROVE  CoapInv'
<1>1. PICK i \in find_recent(Expire(k), d.peer, d.mid) :
         net' = net \cup (IF d.type = "CON" THEN {[Expire(k)[i].reply EXCEPT !.peer = d.peer]} ELSE {})
  BY DEF ReceiveDuplicateRequest
<1> DEFINE e == Expire(k)[i]
<1> DEFINE N == IF d.type = "CON" THEN {e.reply} ELSE {}
<1>2. i \in DOMAIN Expire(k) /\ e.peer = d.peer /\ e.mid = d.mid
  BY DEF find_recent
<1>3. Expire(k) \in Seq(CacheEntry)
      /\ \A x \in ToSet(Expire(k)) : x.mid \in Ids(x.peer) /\ IsReply(x.reply, x.peer, x.mid)
  BY ExpireIs
<1>4. e \in ToSet(Expire(k)) /\ e \in CacheEntry
  BY <1>2, <1>3 DEF ToSet
<1>5. e.mid \in Ids(e.peer) /\ IsReply(e.reply, e.peer, e.mid) /\ e.reply \in Wire /\ e.peer \in Clients
  BY <1>3, <1>4 DEF CacheEntry
<1>6. e.reply.peer = d.peer
  BY <1>2, <1>5 DEF IsReply
<1> HIDE DEF e
<1>7. [e.reply EXCEPT !.peer = d.peer] = e.reply
  BY <1>5, <1>6, SamePeer
<1>8. net' = net \cup N
  BY <1>1, <1>7 DEF e
<1>9. Downward(N) /\ \A x \in N : x.type # "CON"
  BY <1>5, ServerFacts, ReplyDown DEF Downward
<1>10. /\ srv' = [srv EXCEPT !.recent = Expire(k)]
       /\ done' = [done EXCEPT !.forgotten = @ \cup (Keys(srv.recent) \ Keys(Expire(k)))]
  BY DEF ReceiveDuplicateRequest
<1> HIDE DEF N
<1>11. QED BY <1>8, <1>9, <1>10, ExpireStep

(* A callback that runs is counted. *)
Counting(c, m) == [done.runs EXCEPT ![c][m] = IF @ < 2 THEN @ + 1 ELSE 2]

LEMMA CountingIs ==
  ASSUME CoapInv, NEW c \in Clients, NEW m \in Ids(c)
  PROVE  /\ Counting(c, m) \in [Clients -> Seq(Nat)]
         /\ \A e \in Clients : Len(Counting(c, m)[e]) = Len(plan.asks[e])
         /\ \A e \in Clients : \A n \in Ids(e) :
               <<e, n>> # <<c, m>> => Counting(c, m)[e][n] = done.runs[e][n]
         /\ done.runs[c][m] = 0 => Counting(c, m)[c][m] <= 1
<1> DEFINE q == done.runs[c]
<1> DEFINE v == IF q[m] < 2 THEN q[m] + 1 ELSE 2
<1> DEFINE w == [q EXCEPT ![m] = v]
<1>1. q \in Seq(Nat) /\ Len(q) = Len(plan.asks[c]) /\ m \in 1 .. Len(q) /\ Ids(c) = 1 .. Len(q)
  BY ServerFacts DEF Ids
<1>2. q[m] \in Nat
  BY <1>1, ElementOfSeq
<1>3. v \in Nat /\ (q[m] = 0 => v <= 1)
  BY <1>2
<1>4. done.runs \in [Clients -> Seq(Nat)]
  BY ServerFacts DEF Done
<1>5. Counting(c, m) = [done.runs EXCEPT ![c] = w]
  BY <1>4 DEF Counting
<1> HIDE DEF v
<1>6. w \in Seq(Nat) /\ Len(w) = Len(q) /\ \A n \in 1 .. Len(q) : w[n] = IF n = m THEN v ELSE q[n]
  <2>1. ASSUME NEW p \in Seq(Nat), m \in 1 .. Len(p)
        PROVE  /\ [p EXCEPT ![m] = v] \in Seq(Nat) /\ Len([p EXCEPT ![m] = v]) = Len(p)
               /\ \A n \in 1 .. Len(p) : [p EXCEPT ![m] = v][n] = IF n = m THEN v ELSE p[n]
    BY <1>3, <2>1, ExceptSeq
  <2>2. QED BY <1>1, <2>1
<1> HIDE DEF w
<1>7. /\ Counting(c, m) \in [Clients -> Seq(Nat)] /\ Counting(c, m)[c] = w
      /\ \A e \in Clients : e # c => Counting(c, m)[e] = done.runs[e]
  BY <1>4, <1>5, <1>6
<1>8. \A e \in Clients : Len(Counting(c, m)[e]) = Len(plan.asks[e])
  BY <1>1, <1>6, <1>7, ServerFacts
<1>9. Counting(c, m)[c][m] = v
  BY <1>1, <1>6, <1>7
<1>10. ASSUME NEW e \in Clients, NEW n \in Ids(e), <<e, n>> # <<c, m>>
       PROVE  Counting(c, m)[e][n] = done.runs[e][n]
  <2>1. CASE e # c
    BY <1>7, <2>1
  <2>2. CASE e = c
    <3>1. n # m /\ n \in 1 .. Len(q)
      BY <1>1, <1>10, <2>2
    <3>2. QED BY <1>6, <1>7, <2>2, <3>1
  <2>3. QED BY <2>1, <2>2
<1>11. QED BY <1>3, <1>7, <1>8, <1>9, <1>10

LEMMA FailingIs ==
  ASSUME CoapInv, NEW failed \in Failing
  PROVE  failed \in BOOLEAN /\ Failures(failed) \in Nat
<1>1. Failing \subseteq BOOLEAN
  BY ZenonT(20) DEF Failing
<1>2. srv.failures \in Nat
  BY ServerFacts
<1>3. \A n \in Nat : n + 1 \in Nat /\ n + 0 \in Nat
  OBVIOUS
<1>4. QED BY <1>1, <1>2, <1>3 DEF Failures

(* A reply that could not be sent is not remembered: its request is lost. *)
LEMMA StepReceiveRequest ==
  ASSUME CoapInv, NEW d \in net, d.dir = "up", NEW k \in Expirable(srv.recent),
         NEW renewed \in BOOLEAN, NEW failed \in Failing,
         ReceiveRequest(d, k, renewed, failed), UNCHANGED <<plan, cli, app>>
  PROVE  CoapInv'
<1> DEFINE c == d.peer
<1> DEFINE m == d.mid
<1> DEFINE ran == d.code = "resource" /\ ~Limited(c, renewed)
<1> DEFINE code == CASE Limited(c, renewed) -> "service_unavailable"
                     [] ran -> "content"
                     [] OTHER -> "not_found"
<1> DEFINE r == Reply(c, m, code, ran /\ d.observe)
<1> DEFINE recent == Expire(k)
<1> DEFINE entry == [peer |-> c, mid |-> m, reply |-> r]
<1> DEFINE after == IF failed THEN recent ELSE Latest(Append(recent, entry), ServerRecent)
<1> DEFINE lost == (Keys(srv.recent) \ Keys(recent)) \cup (Keys(recent) \ Keys(after))
                   \cup (IF failed THEN {<<c, m>>} ELSE {})
<1> DEFINE runs == IF ran THEN Counting(c, m) ELSE done.runs
<1> DEFINE counts == Counts(c, renewed)
<1> DEFINE f == done.forgotten \cup lost
<1> DEFINE N == IF failed THEN {} ELSE {r}
<1>1. c \in Clients /\ m \in Ids(c) /\ m \in Nat /\ d.observe \in BOOLEAN /\ plan \in Scenario
  BY RequestFrom, ServerFacts DEF ReceiveRequest, Paths
<1>2. r \in Wire /\ IsReply(r, c, m)
  <2>1. code \in Codes /\ (ran /\ d.observe) \in BOOLEAN
    BY DEF Codes
  <2> HIDE DEF code, ran, c, m
  <2>2. QED BY <1>1, <2>1, ReplyIs
<1>3. find_recent(recent, c, m) = {}
  BY DEF ReceiveRequest
<1>4. /\ srv' = [srv EXCEPT !.recent = after, !.count = counts, !.failures = Failures(failed)]
      /\ done' = [done EXCEPT !.runs = runs, !.forgotten = f]
      /\ net' = net \cup N
  <2>1. Answer(c, m, recent, r, failed, counts, runs)
    BY DEF ReceiveRequest, Counting
  <2> HIDE DEF r, recent, counts, runs, c, m
  <2>2. /\ srv' = [srv EXCEPT !.recent = after, !.count = counts, !.failures = Failures(failed)]
        /\ net' = IF failed THEN net ELSE net \cup {r}
    BY <2>1 DEF Answer, cache_reply
  <2>3. done' = [done EXCEPT !.runs = runs, !.forgotten = f]
    BY <2>1, ServerFacts DEF Answer, cache_reply, Done
  <2>4. QED BY <2>2, <2>3
<1>5. failed \in BOOLEAN /\ Failures(failed) \in Nat
  BY FailingIs
<1>6. counts \in [Clients -> Nat]
  BY <1>1, ServerFacts DEF Counts, Counted
<1> HIDE DEF r, counts, c, m, ran
<1>7. /\ recent \in Seq(CacheEntry) /\ Keys(srv.recent) \subseteq Clients \X Nat
      /\ \A e \in ToSet(recent) : e.mid \in Ids(e.peer) /\ IsReply(e.reply, e.peer, e.mid)
  BY ExpireIs
<1> HIDE DEF recent
<1>8. /\ entry \in CacheEntry /\ entry.peer = c /\ entry.mid = m /\ entry.reply = r
  BY <1>1, <1>2 DEF CacheEntry
<1> HIDE DEF entry
<1>9. /\ after \in Seq(CacheEntry) /\ ToSet(after) \subseteq ToSet(recent) \cup {entry}
      /\ ~failed => entry \in ToSet(after)
  <2>1. CASE failed
    BY <1>7, <2>1
  <2>2. CASE ~failed
    <3>1. ServerRecent \in Nat \ {0}
      OBVIOUS
    <3>2. QED BY <1>7, <1>8, <2>2, <3>1, LatestIs
  <2>3. QED BY <2>1, <2>2
<1> HIDE DEF after
<1>10. \A e \in ToSet(after) : e.mid \in Ids(e.peer) /\ IsReply(e.reply, e.peer, e.mid)
  BY <1>1, <1>2, <1>7, <1>8, <1>9
<1>11. Keys(recent) \subseteq Clients \X Nat /\ <<c, m>> \notin Keys(recent)
  BY <1>3, <1>7, KeysIs
<1>12. ~failed => <<c, m>> \in Keys(after)
  BY <1>8, <1>9 DEF Keys
<1>13. /\ f \in SUBSET (Clients \X Nat) /\ done.forgotten \subseteq f
       /\ Keys(srv.recent) \subseteq Keys(after) \cup f
       /\ <<c, m>> \in Keys(after) \cup f
       /\ <<c, m>> \in Keys(srv.recent) => <<c, m>> \in f
  <2>1. lost \in SUBSET (Clients \X Nat)
    BY <1>1, <1>7, <1>11
  <2>2. f \in SUBSET (Clients \X Nat)
    BY <2>1, ServerFacts DEF Done
  <2>3. QED BY <1>11, <1>12, <2>2
<1> HIDE DEF f
<1>14. runs \in [Clients -> Seq(Nat)] /\ \A e \in Clients : Len(runs[e]) = Len(plan.asks[e])
  BY <1>1, CountingIs, ServerFacts DEF Done
<1>15. \A e \in Clients : \A n \in Ids(e) :
          \/ runs[e][n] = done.runs[e][n]
          \/ /\ <<e, n>> \in Keys(after) \cup f
             /\ runs[e][n] <= 1 \/ <<e, n>> \in f
  <2>1. CASE ~ran
    BY <2>1
  <2>2. CASE ran
    <3>1. runs = Counting(c, m)
      BY <2>2
    <3>2. runs[c][m] <= 1 \/ <<c, m>> \in f
      <4>1. CASE done.runs[c][m] = 0
        BY <1>1, <3>1, <4>1, CountingIs
      <4>2. CASE done.runs[c][m] # 0
        <5>1. <<c, m>> \in Keys(srv.recent) \cup done.forgotten
          BY <1>1, <4>2 DEF CoapInv, RunsInv
        <5>2. QED BY <1>13, <5>1
      <4>3. QED BY <4>1, <4>2
    <3>3. \A e \in Clients : \A n \in Ids(e) : <<e, n>> # <<c, m>> => runs[e][n] = done.runs[e][n]
      BY <1>1, <3>1, CountingIs
    <3> HIDE DEF runs
    <3>4. TAKE e \in Clients
    <3>5. TAKE n \in Ids(e)
    <3>6. CASE <<e, n>> = <<c, m>>
      BY <1>13, <3>2, <3>6
    <3>7. CASE <<e, n>> # <<c, m>>
      BY <3>3, <3>7
    <3>8. QED BY <3>6, <3>7
  <2>3. QED BY <2>1, <2>2
<1> HIDE DEF runs
<1>16. srv' \in Server /\ srv'.pending = srv.pending /\ srv'.next = srv.next /\ srv'.recent = after
  BY <1>4, <1>5, <1>6, <1>9, ServerFacts DEF Server
<1>17. done' \in Done /\ done'.acked = done.acked /\ done'.runs = runs /\ done'.forgotten = f
  BY <1>4, <1>13, <1>14, ServerFacts DEF Done
<1>18. Downward(N) /\ \A x \in N : x.type # "CON"
  BY <1>1, <1>2, ReplyDown DEF Downward
<1> HIDE DEF N
<1>19. QED BY <1>4, <1>10, <1>13, <1>14, <1>15, <1>16, <1>17, <1>18, RequestStep

-----------------------------------------------------------------------------
(* Separate responses *)

(* A step that changes only the table of pending responses. *)
LEMMA PendingStep ==
  ASSUME CoapInv, NEW N, Downward(N), net' = net \cup N, UNCHANGED <<plan, cli, app>>,
         NEW p \in [Pending -> PendingEntry],
         srv' \in Server, srv'.recent = srv.recent, srv'.pending = p, srv.next <= srv'.next,
         Fresh(N, srv.next), (\E x \in N : x.type = "CON" /\ x \notin net) => srv.next < srv'.next,
         \A i \in Pending : p[i].active => p[i].sent \in net' /\ p[i].sent.dir = "down" /\ p[i].sent.type = "CON",
         done' \in Done, done'.runs = done.runs, done'.forgotten = done.forgotten, AckedIsHeard'
  PROVE  CoapInv'
<1>1. CacheInv'
  BY DEF CoapInv, CacheInv, Ids
<1>2. PendingInv'
  BY DEF PendingInv
<1>3. RunsInv'
  BY DEF CoapInv, RunsInv, ExecutedOnce, Ids
<1>4. \A c \in Clients : Len(done'.runs[c]) = Len(plan.asks[c])
  BY ServerFacts
<1>5. QED BY <1>1, <1>2, <1>3, <1>4, ServerFrame

LEMMA StepReceiveControl ==
  ASSUME CoapInv, NEW d \in net, d.dir = "up", ReceiveControl(d), UNCHANGED <<plan, cli, app>>
  PROVE  CoapInv'
<1> DEFINE hit == {i \in Pending : /\ srv.pending[i].active
                                   /\ srv.pending[i].sent.peer = d.peer
                                   /\ srv.pending[i].sent.mid = d.mid}
<1> DEFINE p == [i \in Pending |-> IF i \in hit THEN [srv.pending[i] EXCEPT !.active = FALSE]
                                   ELSE srv.pending[i]]
<1> DEFINE acked == IF d.type = "ACK" THEN done.acked \cup {srv.pending[i].sent : i \in hit}
                    ELSE done.acked
<1>1. srv' = [srv EXCEPT !.pending = p] /\ done' = [done EXCEPT !.acked = acked] /\ net' = net
  BY ServerFacts DEF ReceiveControl, Server, Done
<1>2. \A i \in hit : /\ srv.pending[i].sent \in net /\ srv.pending[i].sent.dir = "down"
                     /\ srv.pending[i].sent.type = "CON"
                     /\ srv.pending[i].sent.peer = d.peer /\ srv.pending[i].sent.mid = d.mid
  BY DEF CoapInv, PendingInv
<1>3. \A i \in Pending : srv.pending[i] \in PendingEntry
  BY ServerFacts
<1>4. /\ p \in [Pending -> PendingEntry]
      /\ \A i \in Pending : p[i].active => srv.pending[i].active /\ p[i].sent = srv.pending[i].sent
  <2>1. \A i \in Pending : LET e == [srv.pending[i] EXCEPT !.active = FALSE] IN e \in PendingEntry /\ ~e.active
    BY <1>3 DEF PendingEntry
  <2> HIDE DEF hit
  <2>2. QED BY <1>3, <2>1
<1>5. \A i \in Pending : p[i].active => p[i].sent \in net /\ p[i].sent.dir = "down" /\ p[i].sent.type = "CON"
  BY <1>4 DEF CoapInv, PendingInv
<1>6. acked \in SUBSET Wire
  <2>1. net \subseteq Wire /\ done.acked \subseteq Wire
    BY ServerFacts DEF CoapInv, TypeOK, Done
  <2>2. QED BY <1>2, <2>1
<1>7. \A x \in acked : x \in done.acked \/ (d.type = "ACK" /\ \E i \in hit : x = srv.pending[i].sent)
  OBVIOUS
<1> HIDE DEF hit, p, acked
<1>8. /\ srv' \in Server /\ srv'.recent = srv.recent /\ srv'.pending = p /\ srv'.next = srv.next
      /\ done' \in Done /\ done'.runs = done.runs /\ done'.forgotten = done.forgotten /\ done'.acked = acked
  <2>1. srv' \in Server /\ srv'.recent = srv.recent /\ srv'.pending = p /\ srv'.next = srv.next
    BY <1>1, <1>4, ServerFacts DEF Server
  <2>2. done' \in Done /\ done'.runs = done.runs /\ done'.forgotten = done.forgotten /\ done'.acked = acked
    BY <1>1, <1>6, ServerFacts DEF Done
  <2>3. QED BY <2>1, <2>2
<1>9. ASSUME NEW x \in acked
      PROVE  \/ x \in app[x.peer].rejected
             \/ \E h \in app[x.peer].heard : h[2] = x
             \/ \E z \in To(x.peer) : z # x /\ z.type = "NON" /\ z.mid = x.mid
  <2>1. CASE x \in done.acked
    BY <2>1 DEF CoapInv, KnownInv, AckedIsHeard
  <2>2. CASE x \notin done.acked
    <3>1. /\ d.type = "ACK" /\ x \in net /\ x.dir = "down" /\ x.type = "CON"
          /\ x.peer = d.peer /\ x.mid = d.mid
      BY <1>2, <1>7, <2>2
    <3>2. Known(net, d.peer, d.mid, app[d.peer])
      BY <3>1 DEF CoapInv, KnownInv
    <3>3. PICK z \in net : /\ z.dir = "down" /\ z.peer = d.peer /\ z.mid = d.mid
                           /\ z.type = "NON" \/ (z.type = "CON" /\ Settled(app[d.peer], z))
      BY <3>2 DEF Known
    <3>4. CASE z.type = "NON"
      <4>1. z \in To(x.peer) /\ z # x /\ z.mid = x.mid
        BY <3>1, <3>3, <3>4 DEF To
      <4>2. QED BY <3>4, <4>1
    <3>5. CASE z.type = "CON" /\ Settled(app[d.peer], z)
      <4>1. z = x
        BY <3>1, <3>3, <3>5 DEF CoapInv, NetInv
      <4>2. QED BY <3>1, <3>5, <4>1 DEF Settled
    <3>6. QED BY <3>3, <3>4, <3>5
  <2>3. QED BY <2>1, <2>2
<1>10. AckedIsHeard'
  BY <1>1, <1>8, <1>9 DEF AckedIsHeard, To
<1>11. Downward({}) /\ Fresh({}, srv.next) /\ net' = net \cup {} /\ srv.next <= srv'.next
  BY <1>1, <1>8, ServerFacts DEF Downward, Fresh
<1>12. \A i \in Pending : p[i].active => p[i].sent \in net' /\ p[i].sent.dir = "down" /\ p[i].sent.type = "CON"
  BY <1>1, <1>5
<1>13. QED BY <1>4, <1>8, <1>10, <1>11, <1>12, PendingStep

LEMMA StepSendSeparate ==
  ASSUME CoapInv, NEW c \in Clients, NEW m \in Ids(c), NEW type \in {"CON", "NON"},
         NEW failed \in Failing, SendSeparate(c, m, type, failed), UNCHANGED <<plan, cli, app>>
  PROVE  CoapInv'
<1> DEFINE free == {i \in Pending : ~srv.pending[i].active}
<1> DEFINE slot == CHOOSE i \in free : \A j \in free : i <= j
<1> DEFINE d == Separate(c, m, type, srv.next)
<1> DEFINE ack == IF Ask(c, m).type = "CON" THEN {Control("down", c, "ACK", m)} ELSE {}
<1> DEFINE kept == type = "CON" /\ ~failed
<1> DEFINE e == [active |-> TRUE, sent |-> d, retries |-> 0]
<1> DEFINE p == IF kept THEN [srv.pending EXCEPT ![slot] = e] ELSE srv.pending
<1> DEFINE N == ack \cup (IF failed THEN {} ELSE {d})
<1>1. srv' = [srv EXCEPT !.next = srv.next + 1, !.failures = Failures(failed), !.pending = p]
      /\ net' = net \cup N /\ done' = done
  BY ServerFacts DEF SendSeparate, Server
<1>2. type = "CON" => free # {}
  BY DEF SendSeparate
<1>3. kept => slot \in Pending
  <2>1. free \in SUBSET Nat
    BY DEF Pending
  <2>2. free # {} => slot \in free
    BY <2>1, HasMinimum
  <2>3. QED BY <1>2, <2>2
<1>4. d \in Wire /\ d.dir = "down" /\ d.type = type /\ d.mid = srv.next
  BY ServerFacts, SeparateIs
<1>5. \A x \in ack : x \in Wire /\ x.dir = "down" /\ x.type = "ACK" /\ x.code = "empty"
  BY ServerFacts, IdsType, ControlIs
<1> HIDE DEF d, ack, slot
<1>6. e \in PendingEntry /\ e.active /\ e.sent = d
  BY <1>4 DEF PendingEntry
<1> HIDE DEF e
<1>7. /\ p \in [Pending -> PendingEntry]
      /\ \A i \in Pending : p[i] = srv.pending[i] \/ (p[i] = e /\ type = "CON" /\ ~failed)
  BY <1>3, <1>6, ServerFacts
<1> HIDE DEF p
<1>8. \A i \in Pending : p[i].active => p[i].sent \in net' /\ p[i].sent.dir = "down" /\ p[i].sent.type = "CON"
  <2>1. TAKE i \in Pending
  <2>2. CASE p[i] = srv.pending[i]
    BY <1>1, <2>2 DEF CoapInv, PendingInv
  <2>3. CASE p[i] = e /\ type = "CON" /\ ~failed
    BY <1>1, <1>4, <1>6, <2>3
  <2>4. QED BY <1>7, <2>2, <2>3
<1>9. Downward(N) /\ Fresh(N, srv.next)
  BY <1>4, <1>5 DEF Downward, Fresh
<1> HIDE DEF N
<1>10. /\ srv' \in Server /\ srv'.recent = srv.recent /\ srv'.pending = p
       /\ srv'.next = srv.next + 1
  <2>1. Failures(failed) \in Nat
    BY FailingIs
  <2>2. srv.next + 1 \in Nat
    BY ServerFacts
  <2>3. QED BY <1>1, <1>7, <2>1, <2>2, ServerFacts DEF Server
<1>11. srv.next <= srv'.next /\ srv.next < srv'.next
  BY <1>10, ServerFacts
<1>12. done' \in Done /\ done'.runs = done.runs /\ done'.forgotten = done.forgotten
  BY <1>1, ServerFacts
<1>13. AckedIsHeard'
  BY <1>1, AckedSame DEF AckedIsHeard
<1>14. QED BY <1>1, <1>7, <1>8, <1>9, <1>10, <1>11, <1>12, <1>13, PendingStep

(* A response that is given up or sent again stays the same response.      *)
LEMMA StepPending ==
  ASSUME CoapInv, NEW i \in Pending, srv.pending[i].active, NEW e \in PendingEntry,
         e.sent = srv.pending[i].sent, srv' = [srv EXCEPT !.pending[i] = e],
         net' = net \/ net' = net \cup {srv.pending[i].sent}, UNCHANGED <<plan, cli, app, done>>
  PROVE  CoapInv'
<1> DEFINE q == srv.pending[i]
<1> DEFINE p == [srv.pending EXCEPT ![i] = e]
<1>1. q \in PendingEntry /\ q.active
  BY ServerFacts
<1>2. q.sent \in net /\ q.sent.dir = "down" /\ q.sent.type = "CON"
  BY <1>1 DEF CoapInv, PendingInv
<1>3. srv' = [srv EXCEPT !.pending = p] /\ done' = done
  BY ServerFacts DEF Server
<1>4. net' = net \cup {}
  BY <1>2
<1>5. e.sent = q.sent
  OBVIOUS
<1>6. p \in [Pending -> PendingEntry] /\ \A j \in Pending : p[j] = IF j = i THEN e ELSE srv.pending[j]
  BY ServerFacts
<1> HIDE DEF p
<1>7. \A j \in Pending : p[j].active => p[j].sent \in net' /\ p[j].sent.dir = "down" /\ p[j].sent.type = "CON"
  BY <1>2, <1>4, <1>5, <1>6 DEF CoapInv, PendingInv
<1>8. srv' \in Server /\ srv'.recent = srv.recent /\ srv'.pending = p /\ srv'.next = srv.next
  BY <1>3, <1>6, ServerFacts DEF Server
<1>9. Downward({}) /\ Fresh({}, srv.next) /\ srv.next <= srv'.next
  BY <1>8, ServerFacts DEF Downward, Fresh
<1>10. done' \in Done /\ done'.runs = done.runs /\ done'.forgotten = done.forgotten
  BY <1>3, ServerFacts
<1>11. AckedIsHeard'
  BY <1>3, <1>4, AckedSame DEF AckedIsHeard
<1>12. QED BY <1>4, <1>6, <1>7, <1>8, <1>9, <1>10, <1>11, PendingStep

LEMMA StepTick ==
  ASSUME CoapInv, NEW i \in Pending, Tick(i), UNCHANGED <<plan, cli, app>>
  PROVE  CoapInv'
<1> DEFINE q == srv.pending[i]
<1>1. q \in PendingEntry /\ q.retries \in Nat /\ srv \in Server
  BY ServerFacts DEF PendingEntry
<1>2. CASE Abandon(i)
  <2> DEFINE e == [q EXCEPT !.active = FALSE]
  <2>1. e \in PendingEntry /\ e.sent = q.sent
    BY <1>1 DEF PendingEntry
  <2>2. srv' = [srv EXCEPT !.pending[i] = e] /\ q.active /\ net' = net /\ done' = done
    BY <1>2 DEF Abandon
  <2> HIDE DEF e
  <2>3. QED BY <2>1, <2>2, StepPending
<1>3. CASE Resend(i)
  <2> DEFINE e == [q EXCEPT !.retries = @ + 1]
  <2>1. e \in PendingEntry /\ e.sent = q.sent
    BY <1>1 DEF PendingEntry
  <2>2. srv' = [srv EXCEPT !.pending[i] = e] /\ q.active /\ net' = net \cup {q.sent} /\ done' = done
    BY <1>3 DEF Resend
  <2> HIDE DEF e
  <2>3. QED BY <2>1, <2>2, StepPending
<1>4. CASE ResendFails(i)
  BY <1>4, StepStutter DEF ResendFails
<1>5. QED BY <1>2, <1>3, <1>4 DEF Tick

LEMMA StepServer ==
  ASSUME CoapInv, ServerNext, UNCHANGED <<plan, cli, app>>
  PROVE  CoapInv'
<1>1. ASSUME NEW d \in net, d.dir = "up", ServerReceive(d) PROVE CoapInv'
  BY <1>1, StepReceiveControl, StepReceiveUndecodable, StepReceiveDuplicateRequest, StepReceiveRequest
     DEF ServerReceive
<1>2. ASSUME NEW c \in Clients, NEW m \in Ids(c), NEW type \in {"CON", "NON"}, NEW failed \in Failing,
             SendSeparate(c, m, type, failed)
      PROVE  CoapInv'
  BY <1>2, StepSendSeparate
<1>3. ASSUME NEW i \in Pending, Tick(i) PROVE CoapInv'
  BY <1>3, StepTick
<1>4. QED BY <1>1, <1>2, <1>3 DEF ServerNext

-----------------------------------------------------------------------------
(* The theorems *)

LEMMA InitInv == ASSUME Init PROVE CoapInv
<1>1. plan \in Scenario /\ net = {}
  BY DEF Init, WireInit
<1>2. \A c \in Clients : Len(plan.asks[c]) \in Nat /\ Ids(c) = 1 .. Len(plan.asks[c])
  BY <1>1, IdsType
<1> DEFINE off == [Entry(0) EXCEPT !.active = FALSE]
<1> DEFINE z == [ex |-> [s \in Slots |-> off], recent |-> << >>, next |-> 1]
<1> DEFINE a(c) == [outcome |-> [m \in Ids(c) |-> << >>], heard |-> {}, again |-> {},
                    rejected |-> {}, forgotten |-> {}, orphans |-> {}]
<1>3. cli = [c \in Clients |-> z] /\ app = [c \in Clients |-> a(c)]
  BY DEF Init, ClientInit
<1>4. z \in Client /\ z.recent = << >> /\ z.next = 1 /\ \A s \in Slots : ~z.ex[s].active
  <2>1. off \in Exchange /\ ~off.active
    BY DEF Entry, Exchange
  <2> HIDE DEF off
  <2>2. << >> \in Seq(Nat) /\ 1 \in Nat \ {0}
    OBVIOUS
  <2>3. QED BY <2>1, <2>2 DEF Client
<1>5. ASSUME NEW c \in Clients, NEW o, o = [m \in Ids(c) |-> << >>]
      PROVE  o \in Seq(Seq(Kinds)) /\ Len(o) = Len(plan.asks[c]) /\ \A m \in 1 .. Len(o) : o[m] = << >>
  <2>1. << >> \in Seq(Kinds)
    OBVIOUS
  <2>2. o = [m \in 1 .. Len(plan.asks[c]) |-> << >>] /\ Len(plan.asks[c]) \in Nat
    BY <1>2, <1>5
  <2>3. QED BY <2>1, <2>2
<1>6. \A c \in Clients : /\ a(c) \in Application /\ a(c).heard = {} /\ a(c).again = {}
                         /\ Len(a(c).outcome) = Len(plan.asks[c])
                         /\ \A m \in 1 .. Len(a(c).outcome) : a(c).outcome[m] = << >>
  BY <1>5 DEF Application
<1> HIDE DEF z, a
<1>7. /\ cli \in [Clients -> Client] /\ app \in [Clients -> Application]
      /\ \A c \in Clients : /\ Len(app[c].outcome) = Len(plan.asks[c])
                            /\ cli[c].recent = << >> /\ app[c].heard = {} /\ app[c].again = {}
  BY <1>3, <1>4, <1>6
<1>8. ExchangeInv
  <2>1. ASSUME NEW c \in Clients PROVE TableInv(cli[c], app[c].outcome, app[c].orphans)
    <3>1. /\ cli[c].next = 1 /\ \A s \in Slots : ~cli[c].ex[s].active
          /\ Len(app[c].outcome) \in Nat /\ \A m \in 1 .. Len(app[c].outcome) : app[c].outcome[m] = << >>
      BY <1>2, <1>3, <1>4, <1>6
    <3>2. 1 - 1 <= Len(app[c].outcome) /\ 1 .. 1 - 1 = {}
      BY <3>1
    <3>3. QED BY <3>1, <3>2 DEF TableInv
  <2>2. QED BY <2>1 DEF ExchangeInv
<1>9. srv \in Server /\ srv.recent = << >> /\ \A i \in Pending : ~srv.pending[i].active
  <2> DEFINE q == [active |-> FALSE, sent |-> NoDatagram, retries |-> 0]
  <2>1. q \in PendingEntry /\ ~q.active
    BY DEF PendingEntry
  <2>2. srv = [recent |-> << >>, pending |-> [i \in Pending |-> q],
               count |-> [c \in Clients |-> 0], next |-> 1, failures |-> 0]
    BY DEF Init, ServerInit
  <2> HIDE DEF q
  <2>3. << >> \in Seq(CacheEntry) /\ [i \in Pending |-> q] \in [Pending -> PendingEntry]
        /\ [c \in Clients |-> 0] \in [Clients -> Nat]
    BY <2>1
  <2>4. QED BY <2>1, <2>2, <2>3 DEF Server
<1>10. /\ done \in Done /\ done.acked = {} /\ \A c \in Clients : Len(done.runs[c]) = Len(plan.asks[c])
       /\ \A c \in Clients : \A m \in Ids(c) : done.runs[c][m] = 0
  <2>1. ASSUME NEW c \in Clients, NEW o, o = [m \in Ids(c) |-> 0]
        PROVE  o \in Seq(Nat) /\ Len(o) = Len(plan.asks[c]) /\ \A m \in Ids(c) : o[m] = 0
    BY <1>2, <2>1
  <2>2. done.runs = [c \in Clients |-> [m \in Ids(c) |-> 0]] /\ done.acked = {} /\ done.forgotten = {}
    BY DEF Init, ServerInit
  <2>3. done = [runs |-> done.runs, forgotten |-> {}, acked |-> {}]
    BY DEF Init, ServerInit
  <2>4. /\ done.runs \in [Clients -> Seq(Nat)]
        /\ \A c \in Clients : Len(done.runs[c]) = Len(plan.asks[c]) /\ \A m \in Ids(c) : done.runs[c][m] = 0
    BY <2>1, <2>2
  <2>5. done \in Done
    BY <2>3, <2>4 DEF Done
  <2>6. QED BY <2>2, <2>4, <2>5
<1>11. ToSet(<< >>) = {}
  BY DEF ToSet
<1>12. TypeOK
  BY <1>1, <1>7, <1>9, <1>10 DEF TypeOK
<1>13. NetInv /\ CacheInv /\ PendingInv
  BY <1>1, <1>9, <1>11 DEF NetInv, CacheInv, PendingInv
<1>14. RunsInv
  BY <1>10 DEF RunsInv, ExecutedOnce
<1>15. HeardInv
  BY <1>7 DEF HeardInv, HeardOnce, AnswersOwnRequest
<1>16. KnownInv
  BY <1>1, <1>7, <1>10, <1>11 DEF KnownInv, AckedIsHeard
<1>17. QED BY <1>8, <1>12, <1>13, <1>14, <1>15, <1>16 DEF CoapInv

LEMMA NextInv == ASSUME CoapInv, [Next]_vars PROVE CoapInv'
<1>1. CASE Next
  BY <1>1, StepClient, StepServer DEF Next
<1>2. CASE UNCHANGED vars
  BY <1>2, StepStutter DEF vars
<1>3. QED BY <1>1, <1>2

LEMMA CoapInvariant == Spec => []CoapInv
<1>1. Init => CoapInv
  BY InitInv
<1>2. CoapInv /\ [Next]_vars => CoapInv'
  BY NextInv
<1>3. QED BY <1>1, <1>2, PTL DEF Spec

(* Type correctness: datagrams, exchanges, outcomes, the server's tables   *)
(* and what the applications saw stay well formed, and every client has    *)
(* one outcome and one counter of callbacks per request of the plan.       *)
THEOREM CoapTypeCorrect == Spec => []TypeOK
<1>1. CoapInv => TypeOK
  BY DEF CoapInv
<1>2. QED BY <1>1, CoapInvariant, PTL

(* The callback of a resource runs once for a request, however often its   *)
(* datagram arrives, as long as the server has not lost the reply          *)
(* (receive(), cache_reply() and expire_recent() of the server).           *)
THEOREM CoapExecutedOnce == Spec => []ExecutedOnce
<1>1. CoapInv => ExecutedOnce
  BY DEF CoapInv, RunsInv
<1>2. QED BY <1>1, CoapInvariant, PTL

(* Every exchange of a client is ended once or is still in the table, but  *)
(* for those that took the slot of the exchange whose callback sent them   *)
(* (send_request(), cancel(), complete() and service_timers()).            *)
THEOREM CoapEndedOnce == Spec => []EndedOnce
<1>1. ASSUME CoapInv PROVE EndedOnce
  <2>1. SUFFICES ASSUME NEW c \in Clients, NEW m \in 1 .. cli[c].next - 1, m \notin app[c].orphans
                 PROVE  Len(app[c].outcome[m]) + Cardinality(find_mid(c, cli[c], m)) = 1
    BY DEF EndedOnce
  <2>2. TableInv(cli[c], app[c].outcome, app[c].orphans)
    BY <1>1, ClientFacts
  <2>3. \A s \in Slots : cli[c].ex[s].active /\ cli[c].ex[s].mid = m => Len(app[c].outcome[m]) = 0
    BY <2>2 DEF TableInv
  <2>4. CASE \E s \in Slots : cli[c].ex[s].active /\ cli[c].ex[s].mid = m
    <3>1. PICK s \in Slots : cli[c].ex[s].active /\ cli[c].ex[s].mid = m
      BY <2>4
    <3>2. find_mid(c, cli[c], m) = {s}
      BY <2>2, <3>1 DEF TableInv, find_mid, Active
    <3>3. Cardinality(find_mid(c, cli[c], m)) = 1
      BY <3>2, FS_Singleton
    <3>4. QED BY <2>3, <3>1, <3>3
  <2>5. CASE ~\E s \in Slots : cli[c].ex[s].active /\ cli[c].ex[s].mid = m
    <3>1. find_mid(c, cli[c], m) = {}
      BY <2>5 DEF find_mid, Active
    <3>2. Cardinality(find_mid(c, cli[c], m)) = 0
      BY <3>1, FS_EmptySet
    <3>3. Len(app[c].outcome[m]) = 1
      BY <2>1, <2>2, <2>5 DEF TableInv
    <3>4. QED BY <3>2, <3>3
  <2>6. QED BY <2>4, <2>5
<1>2. QED BY <1>1, CoapInvariant, PTL

(* A response in an acknowledgement is the answer to the very request that *)
(* its exchange was opened for (process_once() and find() of the client).  *)
THEOREM CoapAnswersOwnRequest == Spec => []AnswersOwnRequest
<1>1. CoapInv => AnswersOwnRequest
  BY DEF CoapInv, HeardInv
<1>2. QED BY <1>1, CoapInvariant, PTL

(* A separate response or notification reaches the callback once, unless   *)
(* the client dropped its identifier (remember_incoming() and              *)
(* is_recent_duplicate()).                                                 *)
THEOREM CoapHeardOnce == Spec => []HeardOnce
<1>1. CoapInv => HeardOnce
  BY DEF CoapInv, HeardInv
<1>2. QED BY <1>1, CoapInvariant, PTL

(* A separate response that an acknowledgement released has reached the    *)
(* callback, was rejected first, or shares its identifier with a NON       *)
(* response to the same client.                                            *)
THEOREM CoapAckedIsHeard == Spec => []AckedIsHeard
<1>1. CoapInv => AckedIsHeard
  BY DEF CoapInv, KnownInv
<1>2. QED BY <1>1, CoapInvariant, PTL
=============================================================================
