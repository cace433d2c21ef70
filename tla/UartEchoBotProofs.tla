------------------------- MODULE UartEchoBotProofs --------------------------
(* Machine-checked theorems about UartEchoBot, for every message size and  *)
(* queue size, and lines of any number and length.                         *)
EXTENDS UartEchoBot, SequenceTheorems, TLAPS

USE EchoBotAssumption

-----------------------------------------------------------------------------
(* Type correctness *)

LEMMA AppendNonempty ==
  ASSUME NEW S, NEW s \in Seq(S), NEW e \in S
  PROVE  Append(s, e) \in Seq(S) /\ Append(s, e) # << >>
<1>1. Append(s, e) \in Seq(S) /\ Len(Append(s, e)) = Len(s) + 1 /\ Len(s) \in Nat
  BY AppendProperties
<1>2. Len(Append(s, e)) # 0
  BY <1>1
<1>3. QED BY <1>1, <1>2

LEMMA NextTypeOK == TypeOK /\ [Next]_vars => TypeOK'
<1> SUFFICES ASSUME TypeOK, [Next]_vars PROVE TypeOK'
  OBVIOUS
<1>1. /\ typed \in Seq(Nat) /\ Len(typed) \in Nat \ {0} /\ Line = Len(typed)
      /\ rx_ctx \in Seq(Char) /\ Len(rx_ctx) \in Nat /\ Len(rx_ctx) < MSG_SIZE
      /\ uart_msgq \in Seq(Seq(Char)) /\ Len(uart_msgq) \in Nat /\ Len(uart_msgq) <= QueueSize
      /\ msg \in Seq(Char) /\ out \in Seq(Seq(Char)) /\ Len(out) \in Nat \ {0}
  BY DEF TypeOK, Line
<1>2. CASE Character
  <2>1. typed' = [typed EXCEPT ![Line] = @ + 1] /\ Line \in 1 .. Len(typed) /\ typed[Line] + 1 \in Nat
    BY <1>1, <1>2, SMTT(30) DEF Character
  <2>2. typed' \in Seq(Nat) /\ Len(typed') = Len(typed)
    BY <1>1, <2>1, ExceptSeq
  <2>3. typed' # << >>
    BY <1>1, <2>2
  <2>4. rx_ctx' \in Seq(Char) /\ Len(rx_ctx') < MSG_SIZE
    <3>1. CASE Fits
      <4>1. [line |-> Line, pos |-> typed[Line] + 1] \in Char
        BY <1>1, <2>1 DEF Char
      <4>2. /\ rx_ctx' = Append(rx_ctx, [line |-> Line, pos |-> typed[Line] + 1])
            /\ Len(rx_ctx) + 1 < MSG_SIZE
        BY <1>1, <1>2, <3>1, SMTT(30) DEF Character, Fits
      <4>3. QED BY <1>1, <4>1, <4>2, AppendProperties
    <3>2. CASE ~Fits
      <4>1. rx_ctx' = << >>
        BY <1>2, <3>2 DEF Character
      <4>2. << >> \in Seq(Char) /\ Len(<< >>) = 0
        BY EmptySeq
      <4>3. QED BY <4>1, <4>2
    <3>3. QED BY <3>1, <3>2
  <2>5. QED BY <1>2, <2>2, <2>3, <2>4 DEF Character, TypeOK
<1>3. CASE LineEnd
  <2>0. Append(typed, 0) \in Seq(Nat) /\ Append(typed, 0) # << >>
    BY <1>1, AppendNonempty
  <2>1. typed' \in Seq(Nat) /\ typed' # << >>
    BY <1>3, <2>0 DEF LineEnd
  <2>2. rx_ctx' \in Seq(Char) /\ Len(rx_ctx') < MSG_SIZE
    <3>1. << >> \in Seq(Char) /\ Len(<< >>) = 0
      BY EmptySeq
    <3>2. rx_ctx' = rx_ctx \/ rx_ctx' = << >>
      BY <1>3 DEF LineEnd, Reset
    <3>3. CASE rx_ctx' = << >>
      BY <3>1, <3>3
    <3>4. CASE rx_ctx' = rx_ctx
      BY <1>1, <3>4
    <3>5. QED BY <3>2, <3>3, <3>4
  <2>3. uart_msgq' \in Seq(Seq(Char)) /\ Len(uart_msgq') <= QueueSize
    <3>1. CASE uart_msgq' = uart_msgq
      BY <1>1, <3>1
    <3>2. CASE uart_msgq' # uart_msgq
      <4>1. uart_msgq' = Append(uart_msgq, rx_ctx) /\ Len(uart_msgq) < QueueSize
        BY <1>3, <3>2 DEF LineEnd, Put
      <4>2. Append(uart_msgq, rx_ctx) \in Seq(Seq(Char))
            /\ Len(Append(uart_msgq, rx_ctx)) = Len(uart_msgq) + 1
        BY <1>1, AppendProperties
      <4>3. QED BY <1>1, <4>1, <4>2
    <3>3. QED BY <3>1, <3>2
  <2>4. QED BY <1>3, <2>1, <2>2, <2>3 DEF LineEnd, TypeOK
<1>4. CASE Get
  <2>1. Head(uart_msgq) \in Seq(Char) /\ Tail(uart_msgq) \in Seq(Seq(Char))
        /\ Len(Tail(uart_msgq)) = Len(uart_msgq) - 1
    BY <1>1, <1>4, HeadTailProperties DEF Get
  <2>2. uart_msgq' \in Seq(Seq(Char)) /\ Len(uart_msgq') <= QueueSize /\ msg' \in Seq(Char)
    BY <1>1, <1>4, <2>1 DEF Get
  <2>3. QED BY <1>4, <2>2 DEF Get, TypeOK
<1>5. CASE PollOut
  <2>1. Len(out) \in 1 .. Len(out) /\ Sent = out[Len(out)]
    BY <1>1 DEF Sent, Last
  <2>2. Sent \in Seq(Char)
    BY <1>1, <2>1, ElementOfSeq
  <2>3. Len(Sent) + 1 \in 1 .. Len(msg)
    BY <1>1, <1>5, <2>2 DEF PollOut
  <2>4. Append(Sent, msg[Len(Sent) + 1]) \in Seq(Char)
    BY <1>1, <2>2, <2>3, ElementOfSeq, AppendProperties
  <2>5. out' = [out EXCEPT ![Len(out)] = Append(Sent, msg[Len(Sent) + 1])]
    BY <1>5, <2>1 DEF PollOut
  <2>6. out' \in Seq(Seq(Char)) /\ Len(out') = Len(out)
    BY <1>1, <2>1, <2>4, <2>5, ExceptSeq
  <2>7. out' # << >>
    BY <1>1, <2>6
  <2>8. QED BY <1>5, <2>6, <2>7 DEF PollOut, TypeOK
<1>6. CASE Responded
  <2>1. << >> \in Seq(Char)
    BY EmptySeq
  <2>2. Append(out, << >>) \in Seq(Seq(Char)) /\ Append(out, << >>) # << >>
    BY <1>1, <2>1, AppendNonempty
  <2>3. out' \in Seq(Seq(Char)) /\ out' # << >> /\ msg' \in Seq(Char)
    BY <1>6, <2>1, <2>2 DEF Responded
  <2>4. QED BY <1>6, <2>3 DEF Responded, TypeOK
<1>7. CASE UNCHANGED vars
  BY <1>7 DEF vars, TypeOK
<1>8. QED
  BY <1>2, <1>3, <1>4, <1>5, <1>6, <1>7 DEF Next, Main

(* Every reachable state of the echo bot is well typed: the interrupt's    *)
(* buffer keeps room for the terminating zero and the queue its bound.     *)
THEOREM EchoBotTypeCorrect == Spec => []TypeOK
<1>1. Init => TypeOK
  <2> SUFFICES ASSUME Init PROVE TypeOK
    OBVIOUS
  <2>1. /\ << >> \in Seq(Char) /\ << >> \in Seq(Seq(Char)) /\ Len(<< >>) = 0
    BY EmptySeq
  <2>2. << << >> >> \in Seq(Seq(Char)) /\ << 0 >> \in Seq(Nat)
    BY <2>1
  <2>3. QED BY <2>1, <2>2 DEF Init, TypeOK
<1>2. QED BY <1>1, NextTypeOK, PTL DEF Spec

-----------------------------------------------------------------------------
(* The inductive invariant follows a line from the interrupt's buffer      *)
(* through the queue and the main thread to the output.                    *)

(* Message e is the end of a finished line of t, and all of it if it fits. *)
IsTail(e, t) ==
    /\ e # <<>> /\ e[1].line \in 1 .. Len(t) - 1
    /\ \A k \in 1 .. Len(e) : e[k].line = e[1].line /\ e[k].pos = t[e[1].line] - Len(e) + k
    /\ t[e[1].line] < MSG_SIZE => Len(e) = t[e[1].line]

(* The buffer holds the end of the open line; what it lost before was lost *)
(* MSG_SIZE characters at a time.                                          *)
RxInv ==
    /\ \A k \in 1 .. Len(rx_ctx) :
           rx_ctx[k] = [line |-> Line, pos |-> typed[Line] - Len(rx_ctx) + k]
    /\ \E turns \in Nat : typed[Line] = turns * MSG_SIZE + Len(rx_ctx)

(* What was sent of the current message is a prefix of it. *)
SentInv ==
    /\ main = "get" => out[Len(out)] = <<>>
    /\ main = "respond" =>
           /\ Len(out[Len(out)]) <= Len(msg)
           /\ \A k \in 1 .. Len(out[Len(out)]) : out[Len(out)][k] = msg[k]

PipeTails ==
    /\ \A i \in 1 .. Len(out) - 1 : IsTail(out[i], typed)
    /\ main = "respond" => IsTail(msg, typed)
    /\ \A i \in 1 .. Len(uart_msgq) : IsTail(uart_msgq[i], typed)

(* Echoed lines come before the one being echoed, which comes before those *)
(* queued; the queue is ordered, so its j-th line has at least number j.   *)
PipeOrder ==
    /\ \A i, j \in 1 .. Len(out) - 1 : i < j => out[i][1].line < out[j][1].line
    /\ \A i, j \in 1 .. Len(uart_msgq) : i < j => uart_msgq[i][1].line < uart_msgq[j][1].line
    /\ \A i \in 1 .. Len(out) - 1, j \in 1 .. Len(uart_msgq) :
           out[i][1].line < uart_msgq[j][1].line
    /\ main = "respond" =>
           /\ \A i \in 1 .. Len(out) - 1 : out[i][1].line < msg[1].line
           /\ \A j \in 1 .. Len(uart_msgq) : msg[1].line < uart_msgq[j][1].line
    /\ \A j \in 1 .. Len(uart_msgq) : j <= uart_msgq[j][1].line

(* Line l is queued, being echoed or echoed. *)
InPipe(l) ==
    \/ \E i \in 1 .. Len(uart_msgq) : uart_msgq[i][1].line = l
    \/ main = "respond" /\ msg[1].line = l
    \/ \E i \in 1 .. Len(out) - 1 : out[i][1].line = l

Kept == Line <= QueueSize + 1 => \A l \in 1 .. Line - 1 : Echoable(l) => InPipe(l)

EchoInv == RxInv /\ SentInv /\ PipeTails /\ PipeOrder /\ Kept

(* Typing more does not change the end of a finished line. *)
LEMMA TailStable ==
  ASSUME NEW t \in Seq(Nat), NEW u \in Seq(Nat), Len(t) <= Len(u),
         \A l \in 1 .. Len(t) - 1 : u[l] = t[l],
         NEW e \in Seq(Char), IsTail(e, t)
  PROVE  IsTail(e, u)
<1>1. e[1].line \in 1 .. Len(t) - 1 /\ e[1].line \in 1 .. Len(u) - 1
  BY DEF IsTail
<1>2. u[e[1].line] = t[e[1].line]
  BY <1>1
<1>3. QED BY <1>1, <1>2 DEF IsTail

LEMMA EchoTypes ==
  ASSUME TypeOK
  PROVE  /\ typed \in Seq(Nat) /\ Len(typed) \in Nat \ {0} /\ Line = Len(typed)
         /\ Line \in 1 .. Len(typed) /\ typed[Line] \in Nat
         /\ rx_ctx \in Seq(Char) /\ Len(rx_ctx) \in Nat /\ Len(rx_ctx) < MSG_SIZE
         /\ uart_msgq \in Seq(Seq(Char)) /\ Len(uart_msgq) \in Nat
         /\ msg \in Seq(Char) /\ Len(msg) \in Nat
         /\ out \in Seq(Seq(Char)) /\ Len(out) \in Nat \ {0}
         /\ \A i \in 1 .. Len(uart_msgq) : uart_msgq[i] \in Seq(Char)
         /\ \A i \in 1 .. Len(out) : out[i] \in Seq(Char)
<1>1. /\ typed \in Seq(Nat) /\ Len(typed) \in Nat \ {0} /\ Line = Len(typed)
      /\ rx_ctx \in Seq(Char) /\ Len(rx_ctx) \in Nat /\ Len(rx_ctx) < MSG_SIZE
      /\ uart_msgq \in Seq(Seq(Char)) /\ Len(uart_msgq) \in Nat
      /\ msg \in Seq(Char) /\ Len(msg) \in Nat
      /\ out \in Seq(Seq(Char)) /\ Len(out) \in Nat \ {0}
  BY DEF TypeOK, Line
<1>2. Line \in 1 .. Len(typed) /\ typed[Line] \in Nat
  BY <1>1
<1>3. \A i \in 1 .. Len(uart_msgq) : uart_msgq[i] \in Seq(Char)
  BY <1>1, ElementOfSeq
<1>4. \A i \in 1 .. Len(out) : out[i] \in Seq(Char)
  BY <1>1, ElementOfSeq
<1>5. QED BY <1>1, <1>2, <1>3, <1>4

(* A line that fits never emptied the buffer. *)
LEMMA WholeTurns ==
  ASSUME NEW turns \in Nat
  PROVE  turns * MSG_SIZE \in Nat /\ (turns * MSG_SIZE < MSG_SIZE => turns * MSG_SIZE = 0)
<1>1. turns * MSG_SIZE \in Nat
  OBVIOUS
<1>2. CASE turns = 0
  BY <1>2
<1>3. CASE turns # 0
  <2>1. turns - 1 \in Nat /\ turns * MSG_SIZE = (turns - 1) * MSG_SIZE + MSG_SIZE
    BY <1>3
  <2>2. (turns - 1) * MSG_SIZE \in Nat
    BY <2>1
  <2>3. QED BY <1>1, <2>1, <2>2
<1>4. QED BY <1>1, <1>2, <1>3

LEMMA CharacterEchoInv == ASSUME TypeOK, EchoInv, Character PROVE EchoInv'
<1>1. /\ typed' = [typed EXCEPT ![Line] = @ + 1] /\ UNCHANGED <<uart_msgq, main, msg, out>>
  BY DEF Character
<1>2. /\ Len(typed') = Len(typed) /\ typed' \in Seq(Nat) /\ Line' = Line
      /\ typed'[Line] = typed[Line] + 1
      /\ \A l \in 1 .. Len(typed) : l # Line => typed'[l] = typed[l]
  <2>1. typed[Line] + 1 \in Nat
    BY EchoTypes
  <2>2. QED BY <1>1, <2>1, EchoTypes, ExceptSeq DEF Line
<1>3. RxInv'
  <2>1. CASE Fits
    <3> DEFINE c == [line |-> Line, pos |-> typed[Line] + 1]
    <3>1. rx_ctx' = Append(rx_ctx, c) /\ c \in Char
      BY <2>1, EchoTypes, SMTT(30) DEF Character, Char
    <3>2. /\ Len(rx_ctx') = Len(rx_ctx) + 1 /\ rx_ctx'[Len(rx_ctx) + 1] = c
          /\ \A k \in 1 .. Len(rx_ctx) : rx_ctx'[k] = rx_ctx[k]
      BY <3>1, EchoTypes, AppendProperties
    <3>3. \A k \in 1 .. Len(rx_ctx) :
             typed'[Line] - Len(rx_ctx') + k = typed[Line] - Len(rx_ctx) + k
      BY <1>2, <3>2, EchoTypes
    <3>4. typed'[Line] - Len(rx_ctx') + (Len(rx_ctx) + 1) = typed[Line] + 1
      BY <1>2, <3>2, EchoTypes, SMTT(30)
    <3>5. \A k \in 1 .. Len(rx_ctx') :
             rx_ctx'[k] = [line |-> Line, pos |-> typed'[Line] - Len(rx_ctx') + k]
      <4>1. TAKE k \in 1 .. Len(rx_ctx')
      <4>2. CASE k = Len(rx_ctx) + 1
        BY <3>2, <3>4, <4>2
      <4>3. CASE k # Len(rx_ctx) + 1
        <5>1. k \in 1 .. Len(rx_ctx)
          BY <3>2, <4>3, EchoTypes
        <5>2. QED BY <3>2, <3>3, <5>1 DEF EchoInv, RxInv
      <4>4. QED BY <4>2, <4>3
    <3>6. \E turns \in Nat : typed'[Line] = turns * MSG_SIZE + Len(rx_ctx')
      <4>1. PICK turns \in Nat : typed[Line] = turns * MSG_SIZE + Len(rx_ctx)
        BY DEF EchoInv, RxInv
      <4>2. turns * MSG_SIZE \in Nat
        OBVIOUS
      <4>3. typed'[Line] = turns * MSG_SIZE + Len(rx_ctx')
        BY <1>2, <3>2, <4>1, <4>2, EchoTypes
      <4>4. QED BY <4>3
    <3>7. QED BY <1>2, <3>5, <3>6 DEF RxInv
  <2>2. CASE ~Fits
    <3>1. rx_ctx' = << >> /\ Len(rx_ctx) = MSG_SIZE - 1 /\ Len(<< >>) = 0
      BY <2>2, EchoTypes, SMTT(30) DEF Character, Fits
    <3>2. PICK turns \in Nat : typed[Line] = turns * MSG_SIZE + Len(rx_ctx)
      BY DEF EchoInv, RxInv
    <3>3. typed'[Line] = (turns + 1) * MSG_SIZE + 0 /\ turns + 1 \in Nat
      BY <1>2, <3>1, <3>2
    <3>4. Len(rx_ctx') = 0
      BY <3>1
    <3>5. QED BY <1>2, <3>3, <3>4 DEF RxInv
  <2>3. QED BY <2>1, <2>2
<1>4. PipeTails'
  <2>1. \A e \in Seq(Char) : IsTail(e, typed) => IsTail(e, typed')
    <3>1. \A l \in 1 .. Len(typed) - 1 : typed'[l] = typed[l]
      BY <1>2, EchoTypes
    <3>2. Len(typed) <= Len(typed')
      BY <1>2, EchoTypes
    <3>3. QED BY <1>2, <3>1, <3>2, EchoTypes, TailStable
  <2>2. \A i \in 1 .. Len(out) - 1 : out[i] \in Seq(Char)
    BY EchoTypes
  <2>3. QED BY <1>1, <2>1, <2>2, EchoTypes DEF EchoInv, PipeTails
<1>5. Kept'
  <2>1. \A l \in 1 .. Line - 1 : typed'[l] = typed[l]
    BY <1>2, EchoTypes, SMTT(30)
  <2>2. \A l : InPipe(l)' = InPipe(l)
    BY <1>1 DEF InPipe
  <2>3. QED BY <1>2, <2>1, <2>2 DEF EchoInv, Kept, Echoable, FitsMessage
<1>6. SentInv' /\ PipeOrder'
  BY <1>1 DEF EchoInv, SentInv, PipeOrder
<1>7. QED BY <1>3, <1>4, <1>5, <1>6 DEF EchoInv

LEMMA LineEndEchoInv == ASSUME TypeOK, EchoInv, LineEnd PROVE EchoInv'
<1> DEFINE n == Len(uart_msgq)
<1>0. Line \in Nat /\ n \in Nat /\ Line >= 1
  BY EchoTypes
<1>1. typed' = Append(typed, 0) /\ UNCHANGED <<main, msg, out>>
  BY DEF LineEnd
<1>2. /\ Len(typed') = Len(typed) + 1 /\ typed' \in Seq(Nat) /\ Line' = Line + 1
      /\ typed'[Line + 1] = 0 /\ \A l \in 1 .. Line : typed'[l] = typed[l]
  BY <1>1, EchoTypes, AppendProperties DEF Line
<1>3. RxInv'
  <2>1. rx_ctx' = << >>
    BY DEF LineEnd, Reset
  <2>2. Len(rx_ctx') = 0
    BY <2>1
  <2>3. typed'[Line'] = 0 * MSG_SIZE + Len(rx_ctx')
    BY <1>2, <2>2
  <2>4. QED BY <2>2, <2>3 DEF RxInv
<1>4. SentInv'
  BY <1>1 DEF EchoInv, SentInv
<1>5. \A e \in Seq(Char) : IsTail(e, typed) => IsTail(e, typed')
  <2>1. \A l \in 1 .. Len(typed) - 1 : typed'[l] = typed[l]
    BY <1>2, EchoTypes, SMTT(30)
  <2>2. Len(typed) <= Len(typed')
    BY <1>2, EchoTypes
  <2>3. QED BY <1>2, <2>1, <2>2, EchoTypes, TailStable
<1>6. \A i \in 1 .. Len(out) - 1 : IsTail(out[i], typed')
  <2>1. \A i \in 1 .. Len(out) - 1 : out[i] \in Seq(Char)
    BY EchoTypes
  <2>2. QED BY <1>5, <2>1 DEF EchoInv, PipeTails
<1>7. \A i \in 1 .. Len(uart_msgq) : IsTail(uart_msgq[i], typed')
  BY <1>5, EchoTypes DEF EchoInv, PipeTails
<1>8. main = "respond" => IsTail(msg, typed')
  BY <1>5, EchoTypes DEF EchoInv, PipeTails
<1>9. CASE uart_msgq' = uart_msgq
  <2>1. PipeTails' /\ PipeOrder'
    BY <1>1, <1>6, <1>7, <1>8, <1>9 DEF EchoInv, PipeTails, PipeOrder
  <2>2. Kept'
    <3> SUFFICES ASSUME Line' <= QueueSize + 1, NEW l \in 1 .. Line' - 1, typed'[l] > 0, typed'[l] < MSG_SIZE
                 PROVE  InPipe(l)'
      BY DEF Kept, Echoable, FitsMessage
    <3>1. CASE l = Line
      <4>1. rx_ctx # << >>
        <5>1. ASSUME rx_ctx = << >> PROVE FALSE
          <6>1. PICK turns \in Nat : typed[Line] = turns * MSG_SIZE + Len(rx_ctx)
            BY DEF EchoInv, RxInv
          <6>2. Len(rx_ctx) = 0
            BY <5>1
          <6>3. typed[Line] = turns * MSG_SIZE
            BY <6>1, <6>2, EchoTypes
          <6>4. turns * MSG_SIZE < MSG_SIZE => turns * MSG_SIZE = 0
            BY <6>1, WholeTurns
          <6>5. QED BY <1>0, <1>2, <3>1, <6>3, <6>4, EchoTypes
        <5>2. QED BY <5>1
      <4>2. n >= QueueSize
        <5>1. ASSUME n < QueueSize PROVE FALSE
          <6>1. uart_msgq' = Append(uart_msgq, rx_ctx)
            BY <4>1, <5>1 DEF LineEnd, Put
          <6>2. Len(uart_msgq') = n + 1
            BY <6>1, EchoTypes, AppendProperties
          <6>3. QED BY <1>9, <6>2, EchoTypes
        <5>2. QED BY <5>1, EchoTypes
      <4>3. n \in 1 .. n /\ n \in Nat
        BY <4>2, EchoTypes
      <4>4. n <= uart_msgq[n][1].line /\ uart_msgq[n][1].line \in 1 .. Line - 1
        BY <4>3, EchoTypes DEF EchoInv, PipeOrder, PipeTails, IsTail
      <4>5. Line <= QueueSize
        BY <1>0, <1>2
      <4>6. uart_msgq[n][1].line <= Line - 1 /\ uart_msgq[n][1].line \in Nat
        BY <1>0, <4>4
      <4>7. QED BY <1>0, <4>2, <4>4, <4>5, <4>6
    <3>2. CASE l # Line
      <4>0. l \in 1 .. (Line + 1) - 1 /\ Line + 1 <= QueueSize + 1
        BY <1>2
      <4>1. l \in 1 .. Line - 1 /\ l \in 1 .. Line /\ Line <= QueueSize + 1
        BY <1>0, <3>2, <4>0
      <4>5. typed'[l] = typed[l]
        BY <1>2, <4>1
      <4>2. InPipe(l)
        BY <4>1, <4>5 DEF EchoInv, Kept, Echoable, FitsMessage
      <4>3. QED BY <1>1, <1>9, <4>2 DEF InPipe
    <3>3. QED BY <3>1, <3>2
  <2>3. QED BY <1>3, <1>4, <2>1, <2>2 DEF EchoInv
<1>10. CASE uart_msgq' # uart_msgq
  <2>1. uart_msgq' = Append(uart_msgq, rx_ctx) /\ rx_ctx # << >>
    BY <1>10 DEF LineEnd, Put
  <2>2. /\ Len(uart_msgq') = n + 1 /\ uart_msgq'[n + 1] = rx_ctx
        /\ \A i \in 1 .. n : uart_msgq'[i] = uart_msgq[i]
    BY <2>1, EchoTypes, AppendProperties
  <2>3. 1 \in 1 .. Len(rx_ctx)
    BY <2>1, EchoTypes
  <2>4. rx_ctx[1].line = Line /\ \A k \in 1 .. Len(rx_ctx) : rx_ctx[k].line = Line
                              /\ rx_ctx[k].pos = typed[Line] - Len(rx_ctx) + k
    <3>1. \A k \in 1 .. Len(rx_ctx) :
             rx_ctx[k] = [line |-> Line, pos |-> typed[Line] - Len(rx_ctx) + k]
      BY DEF EchoInv, RxInv
    <3>2. \A k \in 1 .. Len(rx_ctx) :
             rx_ctx[k].line = Line /\ rx_ctx[k].pos = typed[Line] - Len(rx_ctx) + k
      <4>1. TAKE k \in 1 .. Len(rx_ctx)
      <4>2. rx_ctx[k] = [line |-> Line, pos |-> typed[Line] - Len(rx_ctx) + k]
        BY <3>1
      <4>3. QED BY <4>2
    <3>3. QED BY <2>3, <3>2
  <2>5. IsTail(rx_ctx, typed')
    <3>1. Line \in 1 .. Len(typed') - 1 /\ typed'[Line] = typed[Line]
      BY <1>2, EchoTypes
    <3>2. typed[Line] < MSG_SIZE => Len(rx_ctx) = typed[Line]
      <4>1. PICK turns \in Nat : typed[Line] = turns * MSG_SIZE + Len(rx_ctx)
        BY DEF EchoInv, RxInv
      <4>2. turns * MSG_SIZE \in Nat /\ (turns * MSG_SIZE < MSG_SIZE => turns * MSG_SIZE = 0)
        BY <4>1, WholeTurns
      <4>3. \A t, r, b \in Nat : t = r + b /\ (r < MSG_SIZE => r = 0) => (t < MSG_SIZE => b = t)
        OBVIOUS
      <4>4. typed[Line] \in Nat /\ Len(rx_ctx) \in Nat
        BY EchoTypes
      <4>5. QED BY <4>1, <4>2, <4>3, <4>4
    <3>3. QED BY <2>1, <2>4, <3>1, <3>2 DEF IsTail
  <2>6. \A i \in 1 .. n + 1 : i \in 1 .. n \/ i = n + 1
    BY EchoTypes
  <2>7. PipeTails'
    BY <1>1, <1>6, <1>7, <1>8, <2>2, <2>5, <2>6 DEF PipeTails
  <2>8. /\ \A i \in 1 .. n : uart_msgq[i][1].line \in 1 .. Line - 1
        /\ \A i \in 1 .. Len(out) - 1 : out[i][1].line \in 1 .. Line - 1
        /\ main = "respond" => msg[1].line \in 1 .. Line - 1
    BY EchoTypes DEF EchoInv, PipeTails, IsTail
  <2>9. n + 1 <= Line
    <3>1. CASE n = 0
      BY <3>1, EchoTypes
    <3>2. CASE n # 0
      <4>1. n \in 1 .. n
        BY <3>2, EchoTypes
      <4>2. n <= uart_msgq[n][1].line
        BY <4>1 DEF EchoInv, PipeOrder
      <4>3. uart_msgq[n][1].line \in 1 .. Line - 1
        BY <2>8, <4>1
      <4>4. QED BY <1>0, <4>2, <4>3
    <3>3. QED BY <3>1, <3>2
  <2>10. uart_msgq'[n + 1][1].line = Line
    BY <2>2, <2>4
  <2>11. PipeOrder'
    <3>1. \A i, j \in 1 .. n + 1 : i < j => uart_msgq'[i][1].line < uart_msgq'[j][1].line
      <4>1. TAKE i, j \in 1 .. n + 1
      <4>2. HAVE i < j
      <4>3. i \in 1 .. n
        BY <4>2, EchoTypes
      <4>4. CASE j = n + 1
        <5>1. uart_msgq[i][1].line \in 1 .. Line - 1
          BY <2>8, <4>3
        <5>2. uart_msgq'[i][1].line < Line
          BY <1>0, <2>2, <4>3, <5>1
        <5>3. QED BY <2>10, <4>4, <5>2
      <4>5. CASE j # n + 1
        BY <2>2, <2>6, <4>2, <4>3, <4>5 DEF EchoInv, PipeOrder
      <4>6. QED BY <4>4, <4>5
    <3>2. \A i \in 1 .. Len(out) - 1, j \in 1 .. n + 1 : out[i][1].line < uart_msgq'[j][1].line
      <4>1. TAKE i \in 1 .. Len(out) - 1, j \in 1 .. n + 1
      <4>2. CASE j = n + 1
        <5>1. out[i][1].line \in 1 .. Line - 1
          BY <2>8
        <5>2. out[i][1].line < Line
          BY <1>0, <5>1
        <5>3. QED BY <2>10, <4>2, <5>2
      <4>3. CASE j # n + 1
        BY <2>2, <2>6, <4>3 DEF EchoInv, PipeOrder
      <4>4. QED BY <4>2, <4>3
    <3>3. ASSUME main = "respond", NEW j \in 1 .. n + 1 PROVE msg[1].line < uart_msgq'[j][1].line
      <4>1. CASE j = n + 1
        <5>1. msg[1].line \in 1 .. Line - 1
          BY <2>8, <3>3
        <5>2. msg[1].line < Line
          BY <1>0, <5>1
        <5>3. QED BY <2>10, <4>1, <5>2
      <4>2. CASE j # n + 1
        BY <2>2, <2>6, <3>3, <4>2 DEF EchoInv, PipeOrder
      <4>3. QED BY <4>1, <4>2
    <3>4. \A j \in 1 .. n + 1 : j <= uart_msgq'[j][1].line
      BY <2>2, <2>6, <2>9, <2>10 DEF EchoInv, PipeOrder
    <3>5. QED BY <1>1, <2>2, <3>1, <3>2, <3>3, <3>4 DEF EchoInv, PipeOrder
  <2>12. Kept'
    <3> SUFFICES ASSUME Line' <= QueueSize + 1, NEW l \in 1 .. Line' - 1, typed'[l] > 0, typed'[l] < MSG_SIZE
                 PROVE  InPipe(l)'
      BY DEF Kept, Echoable, FitsMessage
    <3>1. CASE l = Line
      <4>1. n + 1 \in 1 .. n + 1
        BY EchoTypes
      <4>2. QED BY <2>2, <2>10, <3>1, <4>1 DEF InPipe
    <3>2. CASE l # Line
      <4>0. l \in 1 .. (Line + 1) - 1 /\ Line + 1 <= QueueSize + 1
        BY <1>2
      <4>1. l \in 1 .. Line - 1 /\ l \in 1 .. Line /\ Line <= QueueSize + 1
        BY <1>0, <3>2, <4>0
      <4>5. typed'[l] = typed[l]
        BY <1>2, <4>1
      <4>2. InPipe(l)
        BY <4>1, <4>5 DEF EchoInv, Kept, Echoable, FitsMessage
      <4>3. \A i \in 1 .. n : i \in 1 .. n + 1
        BY EchoTypes
      <4>4. QED BY <1>1, <2>2, <4>2, <4>3 DEF InPipe
    <3>3. QED BY <3>1, <3>2
  <2>13. QED BY <1>3, <1>4, <2>7, <2>11, <2>12 DEF EchoInv
<1>11. QED BY <1>9, <1>10

LEMMA GetEchoInv == ASSUME TypeOK, EchoInv, Get PROVE EchoInv'
<1> DEFINE n == Len(uart_msgq)
<1>1. /\ main = "get" /\ main' = "respond" /\ uart_msgq # << >> /\ msg' = Head(uart_msgq)
      /\ uart_msgq' = Tail(uart_msgq) /\ UNCHANGED <<typed, rx_ctx, out>>
  BY DEF Get
<1>2. /\ Len(uart_msgq') = n - 1 /\ n \in Nat \ {0} /\ msg' = uart_msgq[1]
      /\ \A i \in 1 .. n - 1 : uart_msgq'[i] = uart_msgq[i + 1]
  BY <1>1, EchoTypes, HeadTailProperties
<1>3. 1 \in 1 .. n /\ \A i \in 1 .. n - 1 : i + 1 \in 1 .. n /\ 1 < i + 1
  BY <1>2
<1>4. RxInv'
  BY <1>1 DEF EchoInv, RxInv, Line
<1>5. SentInv'
  <2>1. out'[Len(out')] = << >> /\ main' = "respond" /\ Len(<< >>) = 0
    BY <1>1 DEF EchoInv, SentInv
  <2>2. msg' \in Seq(Char)
    BY <1>2, <1>3, EchoTypes
  <2>3. Len(out'[Len(out')]) = 0 /\ Len(msg') \in Nat
    BY <2>1, <2>2
  <2>4. QED BY <2>1, <2>3 DEF SentInv
<1>6. PipeTails'
  BY <1>1, <1>2, <1>3 DEF EchoInv, PipeTails
<1>7. \A j \in 1 .. n : uart_msgq[j][1].line \in Nat
  <2>1. TAKE j \in 1 .. n
  <2>2. IsTail(uart_msgq[j], typed)
    BY DEF EchoInv, PipeTails
  <2>3. uart_msgq[j][1].line \in 1 .. Len(typed) - 1
    BY <2>2 DEF IsTail
  <2>4. QED BY <2>3
<1>8. PipeOrder'
  <2>1. \A i, j \in 1 .. n - 1 : i < j => uart_msgq'[i][1].line < uart_msgq'[j][1].line
    <3>1. TAKE i, j \in 1 .. n - 1
    <3>2. HAVE i < j
    <3>3. i + 1 \in 1 .. n /\ j + 1 \in 1 .. n /\ i + 1 < j + 1
      BY <1>3, <3>2
    <3>4. QED BY <1>2, <3>3 DEF EchoInv, PipeOrder
  <2>2. \A i \in 1 .. Len(out) - 1, j \in 1 .. n - 1 : out[i][1].line < uart_msgq'[j][1].line
    BY <1>2, <1>3 DEF EchoInv, PipeOrder
  <2>3. \A i \in 1 .. Len(out) - 1 : out[i][1].line < msg'[1].line
    BY <1>2, <1>3 DEF EchoInv, PipeOrder
  <2>4. \A j \in 1 .. n - 1 : msg'[1].line < uart_msgq'[j][1].line
    BY <1>2, <1>3 DEF EchoInv, PipeOrder
  <2>5. \A j \in 1 .. n - 1 : j <= uart_msgq'[j][1].line
    <3>1. TAKE j \in 1 .. n - 1
    <3>2. j + 1 \in 1 .. n /\ j + 1 <= uart_msgq[j + 1][1].line
      BY <1>3 DEF EchoInv, PipeOrder
    <3>3. QED BY <1>2, <1>7, <3>2
  <2>6. QED BY <1>1, <1>2, <2>1, <2>2, <2>3, <2>4, <2>5 DEF EchoInv, PipeOrder
<1>9. Kept'
  <2>1. ASSUME NEW l, InPipe(l) PROVE InPipe(l)'
    <3>1. CASE \E i \in 1 .. n : uart_msgq[i][1].line = l
      <4>1. PICK i \in 1 .. n : uart_msgq[i][1].line = l
        BY <3>1
      <4>2. CASE i = 1
        BY <1>1, <1>2, <4>1, <4>2 DEF InPipe
      <4>3. CASE i # 1
        <5>1. i - 1 \in 1 .. n - 1 /\ uart_msgq'[i - 1] = uart_msgq[i]
          BY <1>2, <4>3
        <5>2. QED BY <1>2, <4>1, <5>1 DEF InPipe
      <4>4. QED BY <4>2, <4>3
    <3>2. CASE \E i \in 1 .. Len(out) - 1 : out[i][1].line = l
      BY <1>1, <3>2 DEF InPipe
    <3>3. QED BY <1>1, <2>1, <3>1, <3>2 DEF InPipe
  <2>2. QED BY <1>1, <2>1 DEF EchoInv, Kept, Echoable, FitsMessage, Line
<1>10. QED BY <1>4, <1>5, <1>6, <1>8, <1>9 DEF EchoInv

LEMMA PollOutEchoInv == ASSUME TypeOK, EchoInv, PollOut PROVE EchoInv'
<1> DEFINE n == Len(out)
<1> DEFINE s == out[n]
<1>1. /\ main = "respond" /\ Len(s) < Len(msg)
      /\ out' = [out EXCEPT ![n] = Append(s, msg[Len(s) + 1])]
      /\ UNCHANGED <<typed, rx_ctx, uart_msgq, main, msg>>
  BY DEF PollOut, Sent, Last
<1>2. n \in 1 .. n /\ s \in Seq(Char) /\ Len(s) \in Nat
  BY EchoTypes
<1>3. Len(s) + 1 \in 1 .. Len(msg)
  BY <1>1, <1>2, EchoTypes
<1>4. msg[Len(s) + 1] \in Char
  BY <1>3, EchoTypes, ElementOfSeq
<1>5. /\ Append(s, msg[Len(s) + 1]) \in Seq(Char) /\ Len(Append(s, msg[Len(s) + 1])) = Len(s) + 1
      /\ \A k \in 1 .. Len(s) : Append(s, msg[Len(s) + 1])[k] = s[k]
      /\ Append(s, msg[Len(s) + 1])[Len(s) + 1] = msg[Len(s) + 1]
  BY <1>2, <1>4, AppendProperties
<1>6. /\ Len(out') = n /\ out'[n] = Append(s, msg[Len(s) + 1])
      /\ \A i \in 1 .. n - 1 : out'[i] = out[i]
  BY <1>1, <1>2, <1>5, EchoTypes, ExceptSeq, SMTT(30)
<1>7. SentInv'
  <2>1. Len(out'[n]) <= Len(msg)
    BY <1>2, <1>3, <1>5, <1>6, EchoTypes
  <2>2. \A k \in 1 .. Len(out'[n]) : out'[n][k] = msg[k]
    <3>1. \A k \in 1 .. Len(s) : s[k] = msg[k]
      BY <1>1 DEF EchoInv, SentInv
    <3>2. \A k \in 1 .. Len(s) + 1 : k \in 1 .. Len(s) \/ k = Len(s) + 1
      BY <1>2
    <3>3. QED BY <1>5, <1>6, <3>1, <3>2
  <2>3. QED BY <1>1, <1>6, <2>1, <2>2 DEF SentInv
<1>8. RxInv' /\ PipeTails' /\ PipeOrder'
  <2>1. RxInv'
    BY <1>1 DEF EchoInv, RxInv, Line
  <2>2. PipeTails'
    BY <1>1, <1>6 DEF EchoInv, PipeTails
  <2>3. PipeOrder'
    <3>1. UNCHANGED <<uart_msgq, main, msg>>
      BY <1>1
    <3>2. Len(out') = n /\ \A i \in 1 .. n - 1 : out'[i] = out[i]
      BY <1>6
    <3>3. PipeOrder
      BY DEF EchoInv
    <3>4. \A i, j \in 1 .. n - 1 : i < j => out'[i][1].line < out'[j][1].line
      BY <3>2, <3>3 DEF PipeOrder
    <3>5. \A i \in 1 .. n - 1, j \in 1 .. Len(uart_msgq) : out'[i][1].line < uart_msgq[j][1].line
      BY <3>2, <3>3 DEF PipeOrder
    <3>6. main = "respond" => \A i \in 1 .. n - 1 : out'[i][1].line < msg[1].line
      BY <3>2, <3>3 DEF PipeOrder
    <3>7. Len(out') - 1 = n - 1
      BY <3>2
    <3>8. QED BY <3>1, <3>3, <3>4, <3>5, <3>6, <3>7 DEF PipeOrder
  <2>4. QED BY <2>1, <2>2, <2>3
<1>9. Kept'
  <2>1. \A l : InPipe(l) => InPipe(l)'
    BY <1>1, <1>6 DEF InPipe
  <2>2. QED BY <1>1, <2>1 DEF EchoInv, Kept, Echoable, FitsMessage, Line
<1>10. QED BY <1>7, <1>8, <1>9 DEF EchoInv

LEMMA RespondedEchoInv == ASSUME TypeOK, EchoInv, Responded PROVE EchoInv'
<1> DEFINE n == Len(out)
<1>1. /\ main = "respond" /\ main' = "get" /\ Len(out[n]) = Len(msg)
      /\ out' = Append(out, << >>) /\ UNCHANGED <<typed, rx_ctx, uart_msgq>>
  BY DEF Responded, Sent, Last
<1>2. n \in 1 .. n /\ out[n] \in Seq(Char) /\ << >> \in Seq(Char)
  BY EchoTypes
<1>3. out[n] = msg
  BY <1>1, <1>2, EchoTypes, SeqEqual DEF EchoInv, SentInv
<1>4. /\ Len(out') = n + 1 /\ out'[n + 1] = << >> /\ \A i \in 1 .. n : out'[i] = out[i]
  BY <1>1, <1>2, EchoTypes, AppendProperties
<1>5. \A i \in 1 .. n : i \in 1 .. n - 1 \/ i = n
  BY EchoTypes
<1>6. Len(out') - 1 = n
  BY <1>4, EchoTypes
<1>7. SentInv' /\ RxInv'
  BY <1>1, <1>4 DEF EchoInv, RxInv, SentInv, Line
<1>8. PipeTails'
  BY <1>1, <1>3, <1>4, <1>5, <1>6 DEF EchoInv, PipeTails
<1>9. PipeOrder'
  <2>1. \A i, j \in 1 .. n : i < j => out[i][1].line < out[j][1].line
    <3>1. TAKE i, j \in 1 .. n
    <3>2. HAVE i < j
    <3>3. i \in 1 .. n - 1
      BY <3>2, EchoTypes
    <3>4. CASE j = n
      BY <1>1, <1>3, <3>3, <3>4 DEF EchoInv, PipeOrder
    <3>5. CASE j # n
      BY <1>5, <3>2, <3>3, <3>5 DEF EchoInv, PipeOrder
    <3>6. QED BY <3>4, <3>5
  <2>2. \A i \in 1 .. n, j \in 1 .. Len(uart_msgq) : out[i][1].line < uart_msgq[j][1].line
    BY <1>1, <1>3, <1>5 DEF EchoInv, PipeOrder
  <2>3. QED BY <1>1, <1>4, <1>6, <2>1, <2>2 DEF EchoInv, PipeOrder
<1>10. Kept'
  <2>1. \A i \in 1 .. n - 1 : i \in 1 .. n
    BY EchoTypes
  <2>2. \A l : InPipe(l) => InPipe(l)'
    BY <1>1, <1>2, <1>3, <1>4, <1>6, <2>1 DEF InPipe
  <2>3. QED BY <1>1, <2>2 DEF EchoInv, Kept, Echoable, FitsMessage, Line
<1>11. QED BY <1>7, <1>8, <1>9, <1>10 DEF EchoInv

LEMMA EchoInvariant == Spec => [](TypeOK /\ EchoInv)
<1>1. Init => EchoInv
  <2> SUFFICES ASSUME Init PROVE EchoInv
    OBVIOUS
  <2>1. /\ typed = << 0 >> /\ Len(<< 0 >>) = 1 /\ << 0 >>[1] = 0 /\ rx_ctx = << >>
        /\ uart_msgq = << >> /\ Len(<< >>) = 0 /\ main = "get"
        /\ out = << << >> >> /\ Len(<< << >> >>) = 1 /\ << << >> >>[1] = << >>
    BY DEF Init
  <2>2. /\ Line = 1 /\ typed[Line] = 0 /\ Len(rx_ctx) = 0 /\ Len(uart_msgq) = 0 /\ Len(out) = 1
        /\ out[Len(out)] = << >>
    BY <2>1 DEF Line
  <2>3. typed[Line] = 0 * MSG_SIZE + Len(rx_ctx)
    BY <2>2
  <2>4. QED BY <2>1, <2>2, <2>3 DEF EchoInv, RxInv, SentInv, PipeTails, PipeOrder, Kept
<1>2. TypeOK /\ EchoInv /\ [Next]_vars => EchoInv'
  <2> SUFFICES ASSUME TypeOK, EchoInv, [Next]_vars PROVE EchoInv'
    OBVIOUS
  <2>1. CASE UNCHANGED vars
    BY <2>1 DEF vars, EchoInv, RxInv, SentInv, PipeTails, PipeOrder, Kept, InPipe, Echoable, FitsMessage, Line
  <2>2. QED
    BY <2>1, CharacterEchoInv, LineEndEchoInv, GetEchoInv, PollOutEchoInv, RespondedEchoInv
       DEF Next, Main
<1>3. QED BY <1>1, <1>2, EchoBotTypeCorrect, PTL DEF Spec

LEMMA EchoedIs ==
  ASSUME TypeOK
  PROVE  Len(Echoed) = Len(out) - 1 /\ \A i \in 1 .. Len(out) - 1 : Echoed[i] = out[i]
<1>1. Echoed = SubSeq(out, 1, Len(out) - 1)
  BY DEF Echoed, Front
<1>2. \A i \in 1 .. Len(out) - 1 : out[i] \in Seq(Char)
  BY EchoTypes
<1>3. Len(out) - 1 \in Int /\ 1 \in Int /\ Len(out) \in Nat \ {0}
  BY EchoTypes
<1>9. \A n \in Nat \ {0} : ~(1 <= n - 1) => n - 1 = 0
  OBVIOUS
<1>4. /\ Len(SubSeq(out, 1, Len(out) - 1)) = IF 1 <= Len(out) - 1 THEN (Len(out) - 1) - 1 + 1 ELSE 0
      /\ \A i \in 1 .. (Len(out) - 1) - 1 + 1 : SubSeq(out, 1, Len(out) - 1)[i] = out[1 + i - 1]
  BY <1>2, <1>3, SubSeqProperties
<1>5. \A i \in 1 .. Len(out) - 1 : i \in 1 .. (Len(out) - 1) - 1 + 1 /\ 1 + i - 1 = i
  BY <1>3
<1>6. Len(SubSeq(out, 1, Len(out) - 1)) = Len(out) - 1
  <2>1. CASE 1 <= Len(out) - 1
    BY <1>3, <1>4, <2>1
  <2>2. CASE ~(1 <= Len(out) - 1)
    <3>1. Len(out) - 1 = 0
      BY <1>3, <1>9, <2>2
    <3>2. QED BY <1>4, <2>2, <3>1
  <2>3. QED BY <2>1, <2>2
<1>7. \A i \in 1 .. Len(out) - 1 : SubSeq(out, 1, Len(out) - 1)[i] = out[i]
  BY <1>4, <1>5
<1>8. QED BY <1>1, <1>6, <1>7

(* Whatever the interrupt stores while the main thread sends, an echoed    *)
(* line is of one typed line, and is all of it if that fits into a message. *)
THEOREM EchoBotEchoIsLine == Spec => []EchoIsLine
<1>1. TypeOK /\ EchoInv => EchoIsLine
  <2> SUFFICES ASSUME TypeOK, EchoInv, NEW i \in 1 .. Len(Echoed)
               PROVE  /\ Echoed[i] # <<>>
                      /\ \A k \in 1 .. Len(Echoed[i]) : Echoed[i][k].line = Echoed[i][1].line
                      /\ FitsMessage(Echoed[i][1].line) =>
                            /\ Len(Echoed[i]) = typed[Echoed[i][1].line]
                            /\ \A k \in 1 .. Len(Echoed[i]) : Echoed[i][k].pos = k
    BY DEF EchoIsLine
  <2>0. i \in 1 .. Len(out) - 1 /\ Echoed[i] = out[i]
    BY EchoedIs
  <2>1. i \in 1 .. Len(out) - 1 /\ Echoed[i] = out[i] /\ out[i] \in Seq(Char)
    BY <2>0, EchoTypes
  <2>2. IsTail(out[i], typed)
    BY <2>1 DEF EchoInv, PipeTails
  <2>3. FitsMessage(out[i][1].line) =>
           /\ Len(out[i]) = typed[out[i][1].line]
           /\ \A k \in 1 .. Len(out[i]) : out[i][k].pos = k
    <3> DEFINE l == out[i][1].line
    <3>1. l \in 1 .. Len(typed) - 1
      BY <2>2 DEF IsTail
    <3>2. l \in 1 .. Len(typed)
      <4>1. Len(typed) \in Nat \ {0}
        BY EchoTypes
      <4>2. QED BY <3>1, <4>1
    <3>3. typed[l] \in Nat
      BY <3>2, EchoTypes, ElementOfSeq
    <3>4. \A n, m, k \in Nat : n = m => m - n + k = k
      OBVIOUS
    <3>5. Len(out[i]) \in Nat
      BY <2>1
    <3> HAVE FitsMessage(l)
    <3>6. Len(out[i]) = typed[l]
      BY <2>2 DEF IsTail, FitsMessage
    <3>7. ASSUME NEW k \in 1 .. Len(out[i]) PROVE out[i][k].pos = k
      <4>1. out[i][k].pos = typed[l] - Len(out[i]) + k
        BY <2>2 DEF IsTail
      <4>2. k \in Nat
        BY <3>5
      <4>3. typed[l] - Len(out[i]) + k = k
        BY <3>3, <3>4, <3>5, <3>6, <4>2
      <4>4. QED BY <4>1, <4>3
    <3>8. \A k \in 1 .. Len(out[i]) : out[i][k].pos = k
      BY <3>7
    <3>9. QED BY <3>6, <3>8
  <2>4. QED BY <2>1, <2>2, <2>3 DEF IsTail
<1>2. QED BY <1>1, EchoInvariant, PTL

(* Lines are echoed in the order they were typed and none twice, for any   *)
(* speed of the main thread and any overflow of queue and buffer.          *)
THEOREM EchoBotEchoInOrder == Spec => []EchoInOrder
<1>1. TypeOK /\ EchoInv => EchoInOrder
  <2> SUFFICES ASSUME TypeOK, EchoInv PROVE EchoInOrder
    OBVIOUS
  <2>1. \A i, j \in 1 .. Len(out) - 1 : i < j => out[i][1].line < out[j][1].line
    BY DEF EchoInv, PipeOrder
  <2>2. QED BY <2>1, EchoedIs DEF EchoInOrder
<1>2. QED BY <1>1, EchoInvariant, PTL

(* As long as no more lines were typed than the queue holds, every line    *)
(* that fits is queued, being echoed or echoed.                            *)
THEOREM EchoBotNoLossBelowCapacity == Spec => []NoLossBelowCapacity
<1>1. TypeOK /\ EchoInv => NoLossBelowCapacity
  <2> SUFFICES ASSUME TypeOK, EchoInv, Line <= QueueSize + 1, NEW l \in 1 .. Line - 1, Echoable(l)
               PROVE  InFlight(l)
    BY DEF NoLossBelowCapacity
  <2>1. InPipe(l)
    BY DEF EchoInv, Kept
  <2>2. QED BY <2>1, EchoedIs DEF InPipe, InFlight
<1>2. QED BY <1>1, EchoInvariant, PTL
=============================================================================
