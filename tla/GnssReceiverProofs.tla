------------------------- MODULE GnssReceiverProofs -------------------------
(* Machine-checked theorems about GnssReceiver, for every size of the ring *)
(* buffer, of the FIFO and of the line buffer, and streams of any length.  *)
EXTENDS GnssReceiver, SequenceTheorems, FiniteSetTheorems, TLAPS

USE GnssAssumption

-----------------------------------------------------------------------------
(* Type correctness *)

(* A function on an initial segment of the naturals is a sequence. *)
LEMMA FunctionIsSeq ==
  ASSUME NEW S, NEW n \in Nat, NEW f \in [1 .. n -> S]
  PROVE  f \in Seq(S) /\ Len(f) = n
OBVIOUS

LEMMA SingletonSeq ==
  ASSUME NEW S, NEW e \in S
  PROVE  <<e>> \in Seq(S) /\ Len(<<e>>) = 1 /\ <<e>>[1] = e
OBVIOUS

LEMMA ConcatParts ==
  ASSUME NEW S, NEW s \in Seq(S), NEW t \in Seq(S), NEW n \in Nat, Len(t) = n
  PROVE  /\ s \o t \in Seq(S) /\ Len(s \o t) = Len(s) + n
         /\ \A k \in 1 .. Len(s) : (s \o t)[k] = s[k]
         /\ \A k \in Len(s) + 1 .. Len(s) + n : (s \o t)[k] = t[k - Len(s)]
<1>1. /\ s \o t \in Seq(S) /\ Len(s \o t) = Len(s) + n
      /\ \A k \in 1 .. Len(s) + n : (s \o t)[k] = IF k <= Len(s) THEN s[k] ELSE t[k - Len(s)]
  BY ConcatProperties
<1>2. /\ Len(s) \in Nat
      /\ \A k \in 1 .. Len(s) : k \in 1 .. Len(s) + n /\ k <= Len(s)
      /\ \A k \in Len(s) + 1 .. Len(s) + n : k \in 1 .. Len(s) + n /\ ~(k <= Len(s))
  OBVIOUS
<1>3. QED BY <1>1, <1>2

LEMMA GnssTypes ==
  ASSUME TypeOK
  PROVE  /\ stream \in Seq(Byte) /\ Len(stream) \in Nat
         /\ accepted \in Seq(Nat) /\ Len(accepted) \in Nat
         /\ gnss_ringbuf \in Seq(Nat) /\ Len(gnss_ringbuf) \in Nat
         /\ Len(gnss_ringbuf) <= RingSize
         /\ line_buf \in Seq(Nat) /\ Len(line_buf) \in Nat /\ Len(line_buf) < LineSize
         /\ sentence_parsed \in Nat
         /\ sentence.text \in Seq(Nat) /\ Len(sentence.text) \in Nat /\ sentence.end \in Nat
<1>1. sentence.text \in Seq(Nat) /\ sentence.end \in Nat
  BY DEF TypeOK
<1>2. QED BY <1>1 DEF TypeOK

(* What an interrupt appends to the ring: the indices of the bytes that fit. *)
LEMMA IrqEffect ==
  ASSUME TypeOK, NEW l \in 1 .. FifoSize, NEW bytes \in [1 .. l -> Byte], Irq(bytes)
  PROVE  \E n \in 0 .. l : \E put \in Seq(Nat) :
            /\ Len(put) = n /\ \A i \in 1 .. n : put[i] = Len(stream) + i
            /\ n + Len(gnss_ringbuf) <= RingSize
            /\ gnss_ringbuf' = gnss_ringbuf \o put /\ accepted' = accepted \o put
            /\ stream' = stream \o bytes /\ bytes \in Seq(Byte) /\ Len(bytes) = l
<1> DEFINE room == RingSize - Len(gnss_ringbuf)
<1> DEFINE n    == IF l < room THEN l ELSE room
<1> DEFINE put  == [i \in 1 .. n |-> Len(stream) + i]
<1>1. l \in Nat /\ bytes \in Seq(Byte) /\ Len(bytes) = l
  BY FunctionIsSeq
<1>2. room \in Nat /\ n \in 0 .. l /\ n <= room /\ n \in Nat
  BY <1>1, GnssTypes
<1>3. \A i \in 1 .. n : Len(stream) + i \in Nat
  BY <1>2, GnssTypes
<1>4. put \in [1 .. n -> Nat]
  BY <1>3
<1>5. put \in Seq(Nat) /\ Len(put) = n /\ \A i \in 1 .. n : put[i] = Len(stream) + i
  BY <1>2, <1>4, FunctionIsSeq
<1>6. gnss_ringbuf' = gnss_ringbuf \o put /\ accepted' = accepted \o put /\ stream' = stream \o bytes
  BY <1>1 DEF Irq
<1>7. n + Len(gnss_ringbuf) <= RingSize
  BY <1>2, GnssTypes
<1> HIDE DEF put, n
<1>8. QED BY <1>1, <1>2, <1>5, <1>6, <1>7

LEMMA NextTypeOK == TypeOK /\ [Next]_vars => TypeOK'
<1> SUFFICES ASSUME TypeOK, [Next]_vars PROVE TypeOK'
  OBVIOUS
<1>1. ASSUME NEW l \in 1 .. FifoSize, NEW bytes \in [1 .. l -> Byte], Irq(bytes) PROVE TypeOK'
  <2>1. PICK n \in 0 .. l, put \in Seq(Nat) :
            /\ Len(put) = n /\ \A i \in 1 .. n : put[i] = Len(stream) + i
            /\ n + Len(gnss_ringbuf) <= RingSize
            /\ gnss_ringbuf' = gnss_ringbuf \o put /\ accepted' = accepted \o put
            /\ stream' = stream \o bytes /\ bytes \in Seq(Byte) /\ Len(bytes) = l
    BY <1>1, IrqEffect
  <2>2. gnss_ringbuf' \in Seq(Nat) /\ Len(gnss_ringbuf') = Len(gnss_ringbuf) + n
    BY <2>1, GnssTypes, ConcatProperties
  <2>3. accepted' \in Seq(Nat)
    BY <2>1, GnssTypes, ConcatProperties
  <2>4. stream' \in Seq(Byte)
    BY <2>1, GnssTypes, ConcatProperties
  <2>5. Len(gnss_ringbuf') <= RingSize
    BY <2>1, <2>2, GnssTypes
  <2>6. QED BY <1>1, <2>2, <2>3, <2>4, <2>5 DEF Irq, Give, parser, TypeOK
<1>2. CASE Take
  BY <1>2 DEF Take, rx, TypeOK
<1>3. CASE Drained
  BY <1>3 DEF Drained, rx, TypeOK
<1>4. CASE GetByte
  <2> DEFINE h == Head(gnss_ringbuf)
  <2>1. /\ h \in Nat /\ Tail(gnss_ringbuf) \in Seq(Nat)
        /\ Len(Tail(gnss_ringbuf)) = Len(gnss_ringbuf) - 1
    BY <1>4, GnssTypes, HeadTailProperties DEF GetByte
  <2>2. gnss_ringbuf' \in Seq(Nat) /\ Len(gnss_ringbuf') <= RingSize
    BY <1>4, <2>1, GnssTypes DEF GetByte
  <2>3. Parse(h) /\ UNCHANGED <<rx, gnss_sem, ppc>>
    BY <1>4 DEF GetByte
  <2> HIDE DEF h
  <2>4. line_buf' \in Seq(Nat) /\ Len(line_buf') < LineSize
    <3>1. CASE line_buf' = <<h>>
      BY <2>1, <3>1, SingletonSeq
    <3>2. CASE line_buf' = << >>
      BY <3>2
    <3>3. CASE line_buf' = line_buf
      BY <3>3, GnssTypes
    <3>4. CASE line_buf' = Append(line_buf, h) /\ Fits
      <4>1. Append(line_buf, h) \in Seq(Nat) /\ Len(Append(line_buf, h)) = Len(line_buf) + 1
        BY <2>1, GnssTypes, AppendProperties
      <4>2. QED BY <3>4, <4>1, GnssTypes DEF Fits
    <3>5. QED BY <2>3, <3>1, <3>2, <3>3, <3>4 DEF Parse, Start, AfterSentence
  <2>5. sentence_parsed' \in Nat /\ sentence' \in [text : Seq(Nat), end : Nat]
    <3>1. CASE UNCHANGED <<sentence_parsed, sentence>>
      BY <3>1 DEF TypeOK
    <3>2. CASE sentence' = [text |-> line_buf, end |-> h] /\ sentence_parsed' = sentence_parsed + 1
      BY <2>1, <3>2 DEF TypeOK
    <3>3. QED BY <2>3, <3>1, <3>2 DEF Parse
  <2>6. QED BY <2>2, <2>3, <2>4, <2>5 DEF rx, TypeOK
<1>5. CASE UNCHANGED vars
  BY <1>5 DEF vars, rx, parser, TypeOK
<1>6. QED
  BY <1>1, <1>2, <1>3, <1>4, <1>5 DEF Next, Parser

(* Every reachable state is well typed: neither the ring buffer nor the    *)
(* line buffer is ever written beyond its end.                             *)
THEOREM GnssTypeCorrect == Spec => []TypeOK
<1>1. Init => TypeOK
  <2> SUFFICES ASSUME Init PROVE TypeOK
    OBVIOUS
  <2>1. << >> \in Seq(Nat) /\ << >> \in Seq(Byte) /\ Len(<< >>) = 0
    BY EmptySeq
  <2>2. QED BY <2>1 DEF Init, TypeOK
<1>2. QED BY <1>1, NextTypeOK, PTL DEF Spec

-----------------------------------------------------------------------------
(* The inductive invariant *)

(* The bytes the parser has consumed, and whether a '$' among them still   *)
(* waits for its line feed.                                                *)
Text == [i \in 1 .. Consumed |-> stream[accepted[i]]]

Open(text) == \E j \in 1 .. Len(text) : text[j] = "$" /\ \A k \in j .. Len(text) : text[k] # "n"

(* The ring holds the end of what was accepted, and every accepted byte    *)
(* was received.                                                           *)
RingInv ==
    /\ Len(gnss_ringbuf) <= Len(accepted)
    /\ \A k \in 1 .. Len(gnss_ringbuf) : gnss_ringbuf[k] = accepted[Consumed + k]
    /\ \A i \in 1 .. Len(accepted) : accepted[i] \in 1 .. Len(stream)

(* If nothing was lost so far, nothing was skipped either.                 *)
Lossless == Len(accepted) = Len(stream)

LossInv ==
    /\ Len(accepted) <= Len(stream)
    /\ Lossless => \A i \in 1 .. Len(accepted) : accepted[i] = i

(* A line is being assembled exactly when a sentence is open.              *)
CountInv ==
    /\ line_buf # <<>> <=> Open(Text)
    /\ sentence_parsed = Cardinality(SentenceEnds(Text))

(* Line t holds the text of str from its '$' up to position e, cut to the  *)
(* size of the line buffer.                                                *)
IsLine(t, str, e) ==
    /\ Len(t) >= 1 /\ t[1] \in 1 .. e /\ e \in 1 .. Len(str)
    /\ str[t[1]] = "$"
    /\ \A k \in 1 .. Len(t) : t[k] = t[1] + k - 1
    /\ \A i \in t[1] + 1 .. e : str[i] = "x"
    /\ Len(t) = IF e + 1 - t[1] < LineSize - 1 THEN e + 1 - t[1] ELSE LineSize - 1

LineInv ==
    Lossless =>
        /\ line_buf # <<>> => IsLine(line_buf, stream, Consumed)
        /\ sentence_parsed > 0 =>
               /\ IsLine(sentence.text, stream, sentence.end - 1)
               /\ sentence.end <= Len(stream) /\ stream[sentence.end] = "n"

GnssInv == RingInv /\ LossInv /\ CountInv /\ LineInv

LEMMA ConsumedIs ==
  ASSUME TypeOK, RingInv
  PROVE  /\ Consumed \in Nat /\ Consumed = Len(accepted) - Len(gnss_ringbuf)
         /\ Consumed <= Len(accepted)
         /\ Len(Text) = Consumed /\ \A i \in 1 .. Consumed : Text[i] = stream[accepted[i]]
<1>1. Consumed \in Nat /\ Consumed = Len(accepted) - Len(gnss_ringbuf) /\ Consumed <= Len(accepted)
  BY GnssTypes DEF RingInv, Consumed
<1>2. \A i \in 1 .. Consumed : stream[accepted[i]] \in Byte
  <2>1. TAKE i \in 1 .. Consumed
  <2>2. i \in 1 .. Len(accepted)
    BY <1>1, GnssTypes
  <2>3. accepted[i] \in 1 .. Len(stream)
    BY <2>2 DEF RingInv
  <2>4. QED BY <2>3, GnssTypes, ElementOfSeq
<1>3. Text \in [1 .. Consumed -> Byte]
  BY <1>2 DEF Text
<1>4. Len(Text) = Consumed
  BY <1>1, <1>3, FunctionIsSeq
<1>5. QED BY <1>1, <1>4 DEF Text

(* One more byte: where sentences end, and whether one is open. *)
LEMMA OpenGrows ==
  ASSUME NEW n \in Nat, NEW t, NEW u, Len(t) = n, Len(u) = n + 1,
         \A i \in 1 .. n : u[i] = t[i]
  PROVE  Open(u) <=> (u[n + 1] = "$" \/ (Open(t) /\ u[n + 1] # "n"))
<1>1. ASSUME Open(u), u[n + 1] # "$" PROVE Open(t) /\ u[n + 1] # "n"
  <2>1. PICK j \in 1 .. n + 1 : u[j] = "$" /\ \A k \in j .. n + 1 : u[k] # "n"
    BY <1>1 DEF Open
  <2>2. j \in 1 .. n
    BY <1>1, <2>1
  <2>3. n + 1 \in j .. n + 1 /\ \A k \in j .. n : k \in j .. n + 1 /\ k \in 1 .. n
    BY <2>2
  <2>4. QED BY <2>1, <2>2, <2>3 DEF Open
<1>2. ASSUME u[n + 1] = "$" PROVE Open(u)
  <2>1. n + 1 \in 1 .. n + 1 /\ \A k \in n + 1 .. n + 1 : k = n + 1
    OBVIOUS
  <2>2. \A k \in n + 1 .. n + 1 : u[k] # "n"
    BY <1>2, <2>1
  <2>3. QED BY <1>2, <2>1, <2>2 DEF Open
<1>3. ASSUME Open(t), u[n + 1] # "n" PROVE Open(u)
  <2>1. PICK j \in 1 .. n : t[j] = "$" /\ \A k \in j .. n : t[k] # "n"
    BY <1>3 DEF Open
  <2>2. j \in 1 .. n + 1 /\ \A k \in j .. n + 1 : (k \in j .. n /\ k \in 1 .. n) \/ k = n + 1
    OBVIOUS
  <2>3. u[j] = "$" /\ \A k \in j .. n + 1 : u[k] # "n"
    BY <1>3, <2>1, <2>2
  <2>4. QED BY <2>2, <2>3 DEF Open
<1>4. QED
  <2>1. CASE u[n + 1] = "$"
    BY <1>2, <2>1
  <2>2. CASE u[n + 1] # "$"
    BY <1>1, <1>3, <2>2
  <2>3. QED BY <2>1, <2>2

LEMMA EndsGrow ==
  ASSUME NEW n \in Nat, NEW t, NEW u, Len(t) = n, Len(u) = n + 1,
         \A i \in 1 .. n : u[i] = t[i]
  PROVE  SentenceEnds(u) = SentenceEnds(t) \cup
                           (IF u[n + 1] = "n" /\ Open(t) THEN {n + 1} ELSE {})
<1>1. ASSUME NEW i \in 1 .. n PROVE i \in SentenceEnds(u) <=> i \in SentenceEnds(t)
  <2>1. i \in 1 .. n + 1 /\ \A j \in 1 .. i - 1 : j \in 1 .. n /\ \A k \in j .. i - 1 : k \in 1 .. n
    OBVIOUS
  <2>2. QED BY <2>1 DEF SentenceEnds
<1>2. n + 1 \in SentenceEnds(u) <=> u[n + 1] = "n" /\ Open(t)
  <2>1. (n + 1) - 1 = n /\ n + 1 \in 1 .. n + 1
    OBVIOUS
  <2>2. n + 1 \in SentenceEnds(u) <=>
           u[n + 1] = "n" /\ \E j \in 1 .. n : u[j] = "$" /\ \A k \in j .. n : u[k] # "n"
    BY <2>1 DEF SentenceEnds
  <2>3. \A j \in 1 .. n : \A k \in j .. n : k \in 1 .. n
    OBVIOUS
  <2>4. QED BY <2>2, <2>3 DEF Open
<1>3. /\ SentenceEnds(t) \subseteq 1 .. n /\ SentenceEnds(u) \subseteq 1 .. n + 1
      /\ n + 1 \notin 1 .. n /\ \A i \in 1 .. n + 1 : i \in 1 .. n \/ i = n + 1
  BY DEF SentenceEnds
<1>4. QED BY <1>1, <1>2, <1>3

LEMMA EndsCounted ==
  ASSUME NEW n \in Nat, NEW t, NEW u, Len(t) = n, Len(u) = n + 1,
         \A i \in 1 .. n : u[i] = t[i]
  PROVE  Cardinality(SentenceEnds(u)) =
            Cardinality(SentenceEnds(t)) + (IF u[n + 1] = "n" /\ Open(t) THEN 1 ELSE 0)
<1>1. SentenceEnds(t) \in SUBSET (1 .. n) /\ n + 1 \notin SentenceEnds(t)
  BY DEF SentenceEnds
<1>2. IsFiniteSet(SentenceEnds(t)) /\ Cardinality(SentenceEnds(t)) \in Nat
  <2>1. SentenceEnds(t) \in SUBSET Nat /\ \A k \in SentenceEnds(t) : k <= n
    BY <1>1
  <2>2. IsFiniteSet(SentenceEnds(t))
    BY <2>1, FS_BoundedSetOfNaturals
  <2>3. QED BY <2>2, FS_CardinalityType
<1>3. CASE u[n + 1] = "n" /\ Open(t)
  <2>1. SentenceEnds(u) = SentenceEnds(t) \cup {n + 1}
    BY <1>3, EndsGrow
  <2>2. QED BY <1>1, <1>2, <1>3, <2>1, FS_AddElement, ZenonT(60)
<1>4. CASE ~(u[n + 1] = "n" /\ Open(t))
  <2>0. SentenceEnds(u) = SentenceEnds(t) \cup {}
    BY <1>4, EndsGrow
  <2>1. SentenceEnds(u) = SentenceEnds(t)
    BY <2>0
  <2>2. QED BY <1>2, <1>4, <2>1
<1>5. QED BY <1>3, <1>4

(* What is received later does not change a line. *)
LEMMA LineStable ==
  ASSUME NEW s \in Seq(Byte), NEW u \in Seq(Byte), Len(s) <= Len(u),
         \A i \in 1 .. Len(s) : u[i] = s[i],
         NEW t \in Seq(Nat), NEW e \in Int, IsLine(t, s, e)
  PROVE  IsLine(t, u, e)
<1>1. /\ e \in 1 .. Len(s) /\ e \in 1 .. Len(u) /\ t[1] \in 1 .. e /\ t[1] \in 1 .. Len(s)
      /\ \A i \in t[1] + 1 .. e : i \in 1 .. Len(s)
  <2>1. Len(s) \in Nat /\ Len(u) \in Nat
    OBVIOUS
  <2>2. e \in 1 .. Len(s) /\ t[1] \in 1 .. e
    BY DEF IsLine
  <2>3. \A m \in 1 .. e : m \in 1 .. Len(s) /\ \A i \in m + 1 .. e : i \in 1 .. Len(s)
    BY <2>1, <2>2
  <2>4. QED BY <2>1, <2>2, <2>3
<1>2. QED BY <1>1 DEF IsLine

LEMMA IrqGnssInv ==
  ASSUME TypeOK, GnssInv, NEW l \in 1 .. FifoSize, NEW bytes \in [1 .. l -> Byte], Irq(bytes)
  PROVE  GnssInv'
<1> DEFINE a == Len(accepted)
<1> DEFINE g == Len(gnss_ringbuf)
<1> DEFINE m == Len(stream)
<1>1. PICK n \in 0 .. l, put \in Seq(Nat) :
          /\ Len(put) = n /\ \A i \in 1 .. n : put[i] = m + i
          /\ n + g <= RingSize
          /\ gnss_ringbuf' = gnss_ringbuf \o put /\ accepted' = accepted \o put
          /\ stream' = stream \o bytes /\ bytes \in Seq(Byte) /\ Len(bytes) = l
  BY IrqEffect
<1>2. a \in Nat /\ g \in Nat /\ m \in Nat /\ g <= a /\ n \in Nat /\ l \in Nat /\ n <= l
  BY GnssTypes DEF GnssInv, RingInv
<1>3. /\ Len(gnss_ringbuf') = g + n /\ \A k \in 1 .. g : gnss_ringbuf'[k] = gnss_ringbuf[k]
      /\ \A k \in g + 1 .. g + n : gnss_ringbuf'[k] = put[k - g]
  <2>1. gnss_ringbuf \in Seq(Nat) /\ put \in Seq(Nat) /\ n \in Nat /\ Len(put) = n
    BY <1>1, <1>2, GnssTypes
  <2>2. /\ Len(gnss_ringbuf \o put) = g + n
        /\ \A k \in 1 .. g : (gnss_ringbuf \o put)[k] = gnss_ringbuf[k]
        /\ \A k \in g + 1 .. g + n : (gnss_ringbuf \o put)[k] = put[k - g]
    BY <2>1, ConcatParts
  <2>3. QED BY <1>1, <2>2
<1>4. /\ Len(accepted') = a + n /\ \A k \in 1 .. a : accepted'[k] = accepted[k]
      /\ \A k \in a + 1 .. a + n : accepted'[k] = put[k - a]
  <2>1. accepted \in Seq(Nat) /\ put \in Seq(Nat) /\ n \in Nat /\ Len(put) = n
    BY <1>1, <1>2, GnssTypes
  <2>2. /\ Len(accepted \o put) = a + n
        /\ \A k \in 1 .. a : (accepted \o put)[k] = accepted[k]
        /\ \A k \in a + 1 .. a + n : (accepted \o put)[k] = put[k - a]
    BY <2>1, ConcatParts
  <2>3. QED BY <1>1, <2>2
<1>5. /\ Len(stream') = m + l /\ stream' \in Seq(Byte) /\ \A k \in 1 .. m : stream'[k] = stream[k]
  <2>1. /\ Len(stream') = m + l /\ stream' \in Seq(Byte)
        /\ \A k \in 1 .. m + l : stream'[k] = IF k <= m THEN stream[k] ELSE bytes[k - m]
    BY <1>1, GnssTypes, ConcatProperties, ZenonT(60)
  <2>2. QED BY <1>2, <2>1
<1>6. Consumed = a - g /\ Consumed' = Consumed /\ Consumed \in Nat /\ Consumed <= a
  BY <1>2, <1>3, <1>4 DEF Consumed
<1>7. RingInv'
  <2>1. ASSUME NEW k \in 1 .. g + n PROVE gnss_ringbuf'[k] = accepted'[Consumed + k]
    <3>1. CASE k <= g
      <4>1. k \in 1 .. g /\ Consumed + k \in 1 .. a
        BY <1>2, <1>6, <3>1
      <4>2. QED BY <1>3, <1>4, <4>1 DEF GnssInv, RingInv
    <3>2. CASE ~(k <= g)
      <4>1. k \in g + 1 .. g + n /\ Consumed + k \in a + 1 .. a + n /\ (Consumed + k) - a = k - g
        BY <1>2, <1>6, <3>2
      <4>2. gnss_ringbuf'[k] = put[k - g]
        BY <1>3, <4>1
      <4>3. accepted'[Consumed + k] = put[(Consumed + k) - a]
        BY <1>4, <4>1
      <4>4. QED BY <4>1, <4>2, <4>3
    <3>3. QED BY <3>1, <3>2
  <2>2. ASSUME NEW i \in 1 .. a + n PROVE accepted'[i] \in 1 .. m + l
    <3>1. CASE i <= a
      <4>1. i \in 1 .. a
        BY <1>2, <3>1
      <4>2. accepted[i] \in 1 .. m
        BY <4>1 DEF GnssInv, RingInv
      <4>3. QED BY <1>2, <1>4, <4>1, <4>2
    <3>2. CASE ~(i <= a)
      <4>1. i \in a + 1 .. a + n /\ i - a \in 1 .. n
        BY <1>2, <3>2
      <4>2. accepted'[i] = m + (i - a)
        BY <1>1, <1>4, <4>1
      <4>3. QED BY <1>2, <4>1, <4>2
    <3>3. QED BY <3>1, <3>2
  <2>3. Len(gnss_ringbuf') <= Len(accepted')
    BY <1>2, <1>3, <1>4
  <2>4. QED BY <1>3, <1>4, <1>5, <1>6, <2>1, <2>2, <2>3 DEF RingInv
<1>8. /\ a <= m
      /\ Lossless' => Lossless /\ n = l
  BY <1>2, <1>4, <1>5 DEF GnssInv, LossInv, Lossless
<1>9. LossInv'
  <2>1. Len(accepted') <= Len(stream')
    BY <1>2, <1>4, <1>5, <1>8
  <2>2. ASSUME Lossless', NEW i \in 1 .. a + n PROVE accepted'[i] = i
    <3>0. a = m
      BY <1>8, <2>2 DEF Lossless
    <3>1. CASE i <= a
      <4>1. i \in 1 .. a
        BY <1>2, <3>1
      <4>2. QED BY <1>4, <1>8, <2>2, <4>1 DEF GnssInv, LossInv
    <3>2. CASE ~(i <= a)
      <4>1. i \in a + 1 .. a + n /\ i - a \in 1 .. n /\ m + (i - a) = i
        BY <1>2, <3>0, <3>2
      <4>2. QED BY <1>1, <1>4, <4>1
    <3>3. QED BY <3>1, <3>2
  <2>3. QED BY <1>4, <2>1, <2>2 DEF LossInv
<1>10. UNCHANGED <<line_buf, sentence_parsed, sentence>>
  BY DEF Irq, parser
<1>11. Text' = Text
  <2>1. ASSUME NEW i \in 1 .. Consumed PROVE stream'[accepted'[i]] = stream[accepted[i]]
    <3>1. i \in 1 .. a
      BY <1>2, <1>6
    <3>2. accepted'[i] = accepted[i] /\ accepted[i] \in 1 .. m
      BY <1>4, <3>1 DEF GnssInv, RingInv
    <3>3. QED BY <1>5, <3>2
  <2>2. QED BY <1>6, <2>1 DEF Text
<1>12. CountInv'
  BY <1>10, <1>11 DEF GnssInv, CountInv
<1>13. LineInv'
  <2> SUFFICES ASSUME Lossless'
               PROVE  /\ line_buf # <<>> => IsLine(line_buf, stream', Consumed)
                      /\ sentence_parsed > 0 =>
                            /\ IsLine(sentence.text, stream', sentence.end - 1)
                            /\ sentence.end <= Len(stream') /\ stream'[sentence.end] = "n"
    BY <1>6, <1>10 DEF LineInv
  <2>1. m <= Len(stream')
    BY <1>2, <1>5
  <2>2. \A t \in Seq(Nat), e \in Int : IsLine(t, stream, e) => IsLine(t, stream', e)
    BY <1>5, <2>1, GnssTypes, LineStable
  <2>3. line_buf # <<>> => IsLine(line_buf, stream', Consumed)
    BY <1>6, <1>8, <2>2, GnssTypes DEF GnssInv, LineInv
  <2>4. ASSUME sentence_parsed > 0
        PROVE  /\ IsLine(sentence.text, stream', sentence.end - 1)
               /\ sentence.end <= Len(stream') /\ stream'[sentence.end] = "n"
    <3>1. /\ IsLine(sentence.text, stream, sentence.end - 1)
          /\ sentence.end <= m /\ stream[sentence.end] = "n"
      BY <1>8, <2>4 DEF GnssInv, LineInv
    <3>2. sentence.end - 1 \in 1 .. m
      BY <3>1 DEF IsLine
    <3>3. sentence.end \in Nat
      BY GnssTypes
    <3>4. sentence.end \in 1 .. m /\ sentence.end - 1 \in Int
      BY <1>2, <3>1, <3>2, <3>3
    <3>5. sentence.end <= Len(stream') /\ stream'[sentence.end] = "n"
      BY <1>2, <1>5, <3>1, <3>4
    <3>6. IsLine(sentence.text, stream', sentence.end - 1)
      BY <2>2, <3>1, <3>4, GnssTypes
    <3>7. QED BY <3>5, <3>6
  <2>5. QED BY <2>3, <2>4
<1>14. QED BY <1>7, <1>9, <1>12, <1>13 DEF GnssInv

LEMMA OneMoreFits ==
  ASSUME NEW e \in Nat, NEW n \in Nat, NEW p \in Nat, NEW m \in Int,
         m = n + 1, n = e + 1 - p, n < LineSize - 1
  PROVE  m = (e + 1) + 1 - p /\ m <= LineSize - 1 /\ m >= 1 /\ m \in Nat
OBVIOUS

(* A line grows by the next byte, as long as it fits. *)
LEMMA LineGrows ==
  ASSUME NEW str \in Seq(Byte), NEW t \in Seq(Nat), NEW e \in Nat, IsLine(t, str, e),
         e + 1 <= Len(str), str[e + 1] = "x",
         NEW u, u = IF Len(t) < LineSize - 1 THEN Append(t, e + 1) ELSE t
  PROVE  IsLine(u, str, e + 1)
<1>0. Len(t) \in Nat /\ Len(t) >= 1 /\ t[1] \in 1 .. e /\ e \in 1 .. Len(str) /\ Len(str) \in Nat
  BY DEF IsLine
<1>1. t[1] \in Nat /\ 1 <= t[1] /\ t[1] <= e
  BY <1>0
<1>2. Len(t) = IF e + 1 - t[1] < LineSize - 1 THEN e + 1 - t[1] ELSE LineSize - 1
  BY DEF IsLine
<1>3. t[1] \in 1 .. e + 1 /\ e + 1 \in 1 .. Len(str)
  BY <1>0, <1>1
<1>4. \A i \in t[1] + 1 .. e + 1 : str[i] = "x"
  <2>1. \A i \in t[1] + 1 .. e + 1 : i \in t[1] + 1 .. e \/ i = e + 1
    BY <1>1
  <2>2. QED BY <2>1 DEF IsLine
<1>5. CASE Len(t) < LineSize - 1
  <2>1. Len(t) = e + 1 - t[1]
    BY <1>1, <1>2, <1>5
  <2>2. /\ u \in Seq(Nat) /\ Len(u) = Len(t) + 1 /\ u[Len(t) + 1] = e + 1
        /\ \A k \in 1 .. Len(t) : u[k] = t[k]
    BY <1>5, AppendProperties
  <2>3. 1 \in 1 .. Len(t) /\ u[1] = t[1]
    BY <1>0, <2>2
  <2>4. \A k \in 1 .. Len(u) : u[k] = u[1] + k - 1
    <3>1. TAKE k \in 1 .. Len(u)
    <3>2. CASE k = Len(t) + 1
      <4>1. t[1] + (Len(t) + 1) - 1 = e + 1
        BY <1>0, <1>1, <2>1
      <4>2. QED BY <2>2, <2>3, <3>2, <4>1
    <3>3. CASE k # Len(t) + 1
      <4>1. k \in 1 .. Len(t)
        BY <1>0, <2>2, <3>3
      <4>2. t[k] = t[1] + k - 1
        BY <4>1 DEF IsLine
      <4>3. QED BY <2>2, <2>3, <4>1, <4>2
    <3>4. QED BY <3>2, <3>3
  <2>5. /\ Len(u) >= 1
        /\ Len(u) = IF (e + 1) + 1 - u[1] < LineSize - 1 THEN (e + 1) + 1 - u[1] ELSE LineSize - 1
    <3>1. Len(u) = (e + 1) + 1 - t[1] /\ Len(u) <= LineSize - 1 /\ Len(u) >= 1 /\ Len(u) \in Nat
      <4>1. Len(u) \in Int /\ Len(u) = Len(t) + 1
        BY <2>2
      <4>2. QED BY <1>0, <1>1, <1>5, <2>1, <4>1, OneMoreFits
    <3>2. QED BY <2>3, <3>1
  <2>6. u[1] \in 1 .. e + 1 /\ str[u[1]] = "$" /\ \A i \in u[1] + 1 .. e + 1 : str[i] = "x"
    BY <1>3, <1>4, <2>3 DEF IsLine
  <2>7. QED BY <1>3, <2>4, <2>5, <2>6 DEF IsLine
<1>6. CASE ~(Len(t) < LineSize - 1)
  <2>1. u = t
    BY <1>6
  <2>2. Len(t) = LineSize - 1 /\ ~(e + 1 - t[1] < LineSize - 1)
    BY <1>0, <1>1, <1>2, <1>6
  <2>3. ~((e + 1) + 1 - t[1] < LineSize - 1)
    BY <1>1, <2>2, SMTT(30)
  <2>4. QED BY <1>0, <1>3, <1>4, <2>1, <2>2, <2>3 DEF IsLine
<1>7. QED BY <1>5, <1>6

LEMMA GetByteGnssInv == ASSUME TypeOK, GnssInv, GetByte PROVE GnssInv'
<1> DEFINE a == Len(accepted)
<1> DEFINE g == Len(gnss_ringbuf)
<1> DEFINE m == Len(stream)
<1> DEFINE c == Consumed
<1> DEFINE h == Head(gnss_ringbuf)
<1>1. gnss_ringbuf # <<>> /\ gnss_ringbuf' = Tail(gnss_ringbuf) /\ Parse(h) /\ UNCHANGED <<stream, accepted>>
  BY DEF GetByte, rx
<1>2. /\ a \in Nat /\ g \in Nat /\ m \in Nat /\ g >= 1 /\ g <= a /\ c \in Nat /\ c = a - g
      /\ Len(Text) = c /\ \A i \in 1 .. c : Text[i] = stream[accepted[i]]
  <2>1. a \in Nat /\ g \in Nat /\ m \in Nat /\ g >= 1
    BY <1>1, GnssTypes
  <2>2. QED BY <2>1, ConsumedIs DEF GnssInv, RingInv
<1>3. /\ Len(gnss_ringbuf') = g - 1 /\ h = gnss_ringbuf[1]
      /\ \A i \in 1 .. g - 1 : gnss_ringbuf'[i] = gnss_ringbuf[i + 1]
  BY <1>1, GnssTypes, HeadTailProperties
<1>4. Consumed' = c + 1 /\ c + 1 \in 1 .. a
  BY <1>1, <1>2, <1>3 DEF Consumed
<1>5. h = accepted[c + 1] /\ h \in 1 .. m
  <2>1. 1 \in 1 .. g
    BY <1>2
  <2>2. gnss_ringbuf[1] = accepted[c + 1]
    BY <2>1 DEF GnssInv, RingInv
  <2>3. QED BY <1>3, <1>4, <2>2 DEF GnssInv, RingInv
<1>6. RingInv'
  <2>1. ASSUME NEW k \in 1 .. g - 1 PROVE gnss_ringbuf'[k] = accepted[(c + 1) + k]
    <3>1. k + 1 \in 1 .. g /\ c + (k + 1) = (c + 1) + k
      BY <1>2
    <3>2. gnss_ringbuf[k + 1] = accepted[c + (k + 1)]
      BY <3>1 DEF GnssInv, RingInv
    <3>3. QED BY <1>3, <3>1, <3>2
  <2>2. g - 1 <= a
    BY <1>2
  <2>3. QED BY <1>1, <1>3, <1>4, <2>1, <2>2 DEF GnssInv, RingInv
<1>7. LossInv' /\ Lossless' = Lossless
  BY <1>1 DEF GnssInv, LossInv, Lossless
<1>8. /\ Len(Text') = c + 1 /\ Text'[c + 1] = stream[h]
      /\ \A i \in 1 .. c : Text'[i] = Text[i]
  <2>1. \A i \in 1 .. c + 1 : stream[accepted[i]] \in Byte
    <3>1. TAKE i \in 1 .. c + 1
    <3>2. i \in 1 .. a
      BY <1>2, <1>4
    <3>3. accepted[i] \in 1 .. m
      BY <3>2 DEF GnssInv, RingInv
    <3>4. QED BY <3>3, GnssTypes, ElementOfSeq
  <2>5. Text' = [i \in 1 .. c + 1 |-> stream[accepted[i]]]
    BY <1>1, <1>4 DEF Text
  <2>6. c + 1 \in Nat /\ Text' \in [1 .. c + 1 -> Byte]
    BY <1>2, <2>1, <2>5
  <2>2. /\ Len(Text') = c + 1
        /\ \A i \in 1 .. c + 1 : Text'[i] = stream[accepted[i]]
    BY <2>5, <2>6, FunctionIsSeq
  <2>3. c + 1 \in 1 .. c + 1 /\ \A i \in 1 .. c : i \in 1 .. c + 1
    BY <1>2
  <2>4. QED BY <1>2, <1>5, <2>2, <2>3
<1>9. /\ Open(Text') <=> (stream[h] = "$" \/ (Open(Text) /\ stream[h] # "n"))
      /\ Cardinality(SentenceEnds(Text')) =
            Cardinality(SentenceEnds(Text)) + (IF stream[h] = "n" /\ Open(Text) THEN 1 ELSE 0)
  <2>1. ASSUME NEW t, NEW u, t = Text, u = Text'
        PROVE  /\ Open(u) <=> (u[c + 1] = "$" \/ (Open(t) /\ u[c + 1] # "n"))
               /\ Cardinality(SentenceEnds(u)) =
                     Cardinality(SentenceEnds(t)) + (IF u[c + 1] = "n" /\ Open(t) THEN 1 ELSE 0)
    <3>1. c \in Nat /\ Len(t) = c /\ Len(u) = c + 1 /\ \A i \in 1 .. c : u[i] = t[i]
      BY <1>2, <1>8, <2>1
    <3>2. Open(u) <=> (u[c + 1] = "$" \/ (Open(t) /\ u[c + 1] # "n"))
      BY <3>1, OpenGrows
    <3>3. QED BY <3>1, <3>2, EndsCounted
  <2>2. QED BY <1>8, <2>1
<1>10. /\ line_buf # <<>> <=> Open(Text)
       /\ sentence_parsed = Cardinality(SentenceEnds(Text)) /\ sentence_parsed \in Nat
  BY GnssTypes DEF GnssInv, CountInv
<1>11. <<h>> # << >> /\ Append(line_buf, h) # << >>
  <2>1. h \in Nat
    BY <1>2, <1>5
  <2>2. Len(Append(line_buf, h)) = Len(line_buf) + 1 /\ Len(line_buf) \in Nat
    BY <2>1, GnssTypes, AppendProperties
  <2>3. Len(Append(line_buf, h)) # 0
    BY <2>2
  <2>4. QED BY <2>3
<1>12. Lossless => h = c + 1 /\ c + 1 \in 1 .. m
  BY <1>4, <1>5 DEF GnssInv, LossInv, Lossless
<1> HIDE DEF h
<1>13. CASE stream[h] = "$"
  <2>1. line_buf' = <<h>> /\ UNCHANGED <<sentence_parsed, sentence>>
    BY <1>1, <1>13 DEF Parse, Start
  <2>2. CountInv'
    BY <1>9, <1>10, <1>11, <1>13, <2>1 DEF CountInv
  <2>3. LineInv'
    <3> SUFFICES ASSUME Lossless PROVE IsLine(<<h>>, stream, c + 1)
      BY <1>1, <1>4, <1>7, <2>1 DEF GnssInv, LineInv
    <3>1. h = c + 1 /\ c + 1 \in 1 .. m /\ c + 1 \in Nat
      BY <1>2, <1>12
    <3>2. Len(<<h>>) = 1 /\ <<h>>[1] = h
      OBVIOUS
    <3>3. /\ <<h>>[1] \in 1 .. c + 1 /\ stream[<<h>>[1]] = "$"
          /\ \A k \in 1 .. 1 : <<h>>[k] = <<h>>[1] + k - 1
          /\ \A i \in h + 1 .. c + 1 : stream[i] = "x"
          /\ 1 = IF (c + 1) + 1 - h < LineSize - 1 THEN (c + 1) + 1 - h ELSE LineSize - 1
      BY <1>2, <1>13, <3>1, <3>2
    <3>4. QED BY <3>1, <3>2, <3>3 DEF IsLine
  <2>4. QED BY <1>6, <1>7, <2>2, <2>3 DEF GnssInv
<1>14. CASE stream[h] = "n" /\ line_buf # <<>>
  <2>1. /\ sentence' = [text |-> line_buf, end |-> h]
        /\ sentence_parsed' = sentence_parsed + 1 /\ line_buf' = <<>>
    BY <1>1, <1>14 DEF Parse, AfterSentence
  <2>2. CountInv'
    BY <1>9, <1>10, <1>14, <2>1 DEF CountInv
  <2>3. LineInv'
    <3> SUFFICES ASSUME Lossless PROVE IsLine(line_buf, stream, h - 1) /\ h <= m
      BY <1>1, <1>4, <1>7, <1>14, <2>1 DEF LineInv
    <3>1. h - 1 = c /\ h <= m
      BY <1>2, <1>12
    <3>2. IsLine(line_buf, stream, c)
      BY <1>14 DEF GnssInv, LineInv
    <3>3. QED BY <3>1, <3>2
  <2>4. QED BY <1>6, <1>7, <2>2, <2>3 DEF GnssInv
<1>15. CASE stream[h] = "x" \/ (stream[h] = "n" /\ line_buf = <<>>)
  <2>1. /\ line_buf' = IF line_buf # <<>> /\ Fits THEN Append(line_buf, h) ELSE line_buf
        /\ UNCHANGED <<sentence_parsed, sentence>>
    BY <1>1, <1>15 DEF Parse
  <2>2. CountInv'
    <3>1. line_buf' # <<>> <=> line_buf # <<>>
      BY <1>11, <2>1
    <3>2. QED BY <1>9, <1>10, <1>15, <2>1, <3>1 DEF CountInv
  <2>3. LineInv'
    <3> SUFFICES ASSUME Lossless, line_buf' # <<>> PROVE IsLine(line_buf', stream, c + 1)
      BY <1>1, <1>4, <1>7, <2>1 DEF GnssInv, LineInv
    <3>1. line_buf # <<>>
      BY <2>1
    <3>2. IsLine(line_buf, stream, c)
      BY <3>1 DEF GnssInv, LineInv
    <3>3. /\ line_buf' = IF Len(line_buf) < LineSize - 1 THEN Append(line_buf, c + 1) ELSE line_buf
          /\ c + 1 <= m /\ stream[c + 1] = "x"
      BY <1>2, <1>12, <1>15, <2>1, <3>1 DEF Fits
    <3>4. stream \in Seq(Byte) /\ line_buf \in Seq(Nat)
      BY GnssTypes
    <3>5. QED BY <1>2, <3>2, <3>3, <3>4, LineGrows
  <2>4. QED BY <1>6, <1>7, <2>2, <2>3 DEF GnssInv
<1>16. QED BY <1>1, <1>13, <1>14, <1>15 DEF Parse

LEMMA GnssInvariant == Spec => [](TypeOK /\ GnssInv)
<1>1. Init => GnssInv
  <2> SUFFICES ASSUME Init PROVE GnssInv
    OBVIOUS
  <2>1. /\ stream = << >> /\ accepted = << >> /\ gnss_ringbuf = << >> /\ line_buf = << >>
        /\ sentence_parsed = 0 /\ Len(<< >>) = 0
    BY DEF Init
  <2>2. Consumed = 0 /\ RingInv /\ LossInv
    BY <2>1 DEF Consumed, RingInv, LossInv
  <2>3. TypeOK
    <3>1. << >> \in Seq(Nat) /\ << >> \in Seq(Byte)
      BY EmptySeq
    <3>2. QED BY <2>1, <3>1 DEF Init, TypeOK
  <2>4. Len(Text) = 0
    BY <2>2, <2>3, ConsumedIs
  <2>5. ~Open(Text) /\ SentenceEnds(Text) = {}
    BY <2>4 DEF Open, SentenceEnds
  <2>6. CountInv
    BY <2>1, <2>5, FS_EmptySet DEF CountInv
  <2>7. QED BY <2>1, <2>2, <2>6 DEF GnssInv, LineInv
<1>2. TypeOK /\ GnssInv /\ [Next]_vars => GnssInv'
  <2> SUFFICES ASSUME TypeOK, GnssInv, [Next]_vars PROVE GnssInv'
    OBVIOUS
  <2>1. CASE UNCHANGED <<stream, accepted, gnss_ringbuf, line_buf, sentence_parsed, sentence>>
    <3>1. Consumed' = Consumed /\ Text' = Text
      BY <2>1 DEF Consumed, Text
    <3>2. QED BY <2>1, <3>1 DEF GnssInv, RingInv, LossInv, Lossless, CountInv, LineInv
  <2>2. QED
    BY <2>1, IrqGnssInv, GetByteGnssInv DEF Next, Parser, Take, Drained, vars, rx, parser
<1>3. QED BY <1>1, <1>2, GnssTypeCorrect, PTL DEF Spec

(* However the bytes are cut into interrupts, and whatever the ring lost,  *)
(* the parser has counted exactly the sentences among those it consumed.   *)
THEOREM GnssCountsSentences == Spec => []CountsSentences
<1>1. TypeOK /\ GnssInv => CountsSentences
  BY DEF GnssInv, CountInv, CountsSentences, Text
<1>2. QED BY <1>1, GnssInvariant, PTL

(* As long as the ring never overflowed, a reported sentence is the        *)
(* received text from its '$', cut to the line buffer, never two joined.   *)
THEOREM GnssSentenceIntact == Spec => []SentenceIntact
<1>1. TypeOK /\ GnssInv => SentenceIntact
  <2> DEFINE t == sentence.text
  <2> DEFINE e == sentence.end
  <2> SUFFICES ASSUME TypeOK, GnssInv, Len(accepted) = Len(stream), sentence_parsed > 0
               PROVE  /\ stream[t[1]] = "$" /\ stream[e] = "n"
                      /\ \A k \in 1 .. Len(t) : t[k] = t[1] + k - 1
                      /\ \A i \in t[1] + 1 .. e - 1 : stream[i] = "x"
                      /\ Len(t) = IF e - t[1] < LineSize - 1 THEN e - t[1] ELSE LineSize - 1
    BY DEF SentenceIntact
  <2>1. IsLine(t, stream, e - 1) /\ stream[e] = "n"
    BY DEF GnssInv, LineInv, Lossless
  <2>2. e \in Nat /\ t[1] \in 1 .. e - 1
    BY <2>1, GnssTypes DEF IsLine
  <2>3. (e - 1) + 1 - t[1] = e - t[1]
    BY <2>2
  <2>4. QED BY <2>1, <2>3 DEF IsLine
<1>2. QED BY <1>1, GnssInvariant, PTL
=============================================================================
