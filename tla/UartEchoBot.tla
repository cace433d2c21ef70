---------------------------- MODULE UartEchoBot -----------------------------
(***************************************************************************)
(* test_drivers/console_uart_echo_bot: the UART interrupt assembles lines  *)
(* in a static buffer and puts them into a message queue; the main thread  *)
(* takes them out and echoes them character by character.                  *)
(*                                                                         *)
(* A byte is a line end or a character, known by its line and its position *)
(* in that line.  The interrupt handler takes one action per byte read     *)
(* from the FIFO: under QEMU every byte has an interrupt of its own.       *)
(***************************************************************************)
EXTENDS Integers, Sequences, SequencesExt

CONSTANTS MSG_SIZE,     \* bytes of a message, the terminating zero included
          QueueSize,    \* K_MSGQ_DEFINE: messages in the queue
          MaxLines,     \* bound: lines typed
          MaxLength     \* bound: characters in a line

ASSUME EchoBotAssumption ==
    /\ MSG_SIZE \in Nat \ {0} /\ QueueSize \in Nat \ {0}
    /\ MaxLines \in Nat /\ MaxLength \in Nat

VARIABLES typed,        \* line -> characters typed so far; the last line is open
          rx_ctx,       \* the interrupt's buffer: its first length characters
          uart_msgq,    \* queued messages
          main,         \* where the main thread is
          msg,          \* the message it is echoing
          out           \* what it sent: finished lines, then the current one

vars  == <<typed, rx_ctx, uart_msgq, main, msg, out>>

Char    == [line : Nat, pos : Nat]
Line    == Len(typed)       \* the number of the open line

TypeOK ==
    /\ typed \in Seq(Nat) /\ typed # <<>>
    /\ rx_ctx \in Seq(Char) /\ Len(rx_ctx) < MSG_SIZE
    /\ uart_msgq \in Seq(Seq(Char)) /\ Len(uart_msgq) <= QueueSize
    /\ main \in {"get", "respond"}
    /\ msg \in Seq(Char)
    /\ out \in Seq(Seq(Char)) /\ out # <<>>

Init ==
    /\ typed = <<0>> /\ rx_ctx = <<>> /\ uart_msgq = <<>>
    /\ main = "get" /\ msg = <<>> /\ out = <<<<>>>>

-----------------------------------------------------------------------------
(* uart_interrupt_callback() *)

(* rx_ctx.length < MSG_SIZE - 1: room for the terminating zero is kept *)
Fits == Len(rx_ctx) < MSG_SIZE - 1

(* A character that fits is stored; one too many empties the buffer and is *)
(* itself forgotten.                                                       *)
Character ==
    /\ Line <= MaxLines /\ typed[Line] < MaxLength
    /\ typed' = [typed EXCEPT ![Line] = @ + 1]
    /\ rx_ctx' = IF Fits THEN Append(rx_ctx, [line |-> Line, pos |-> typed[Line] + 1])
                         ELSE <<>>
    /\ UNCHANGED <<uart_msgq, main, msg, out>>

Put_Lifo == IF Len(uart_msgq) < QueueSize THEN <<rx_ctx>> \o uart_msgq ELSE uart_msgq
Put_OffByOne == IF Len(uart_msgq) < QueueSize - 1 THEN Append(uart_msgq, rx_ctx) ELSE uart_msgq
Put_Overwrite == IF Len(uart_msgq) < QueueSize THEN Append(uart_msgq, rx_ctx)
                                               ELSE Append(Front(uart_msgq), rx_ctx)
(* k_msgq_put(K_NO_WAIT) into a full queue fails: the message is dropped. *)
Put == IF Len(uart_msgq) < QueueSize THEN Append(uart_msgq, rx_ctx) ELSE uart_msgq

Reset_OnlyWhenQueued == IF Len(uart_msgq) < QueueSize THEN <<>> ELSE rx_ctx
(* rx_ctx.length = 0, whether or not the queue took the message *)
Reset == <<>>

(* '\n' or '\r'; a line end with nothing before it is ignored. *)
LineEnd ==
    /\ Line <= MaxLines
    /\ typed' = Append(typed, 0)
    /\ IF rx_ctx = <<>> THEN UNCHANGED <<rx_ctx, uart_msgq>>
                        ELSE uart_msgq' = Put /\ rx_ctx' = Reset
    /\ UNCHANGED <<main, msg, out>>

-----------------------------------------------------------------------------
(* main() *)

(* k_msgq_get(K_FOREVER) *)
Get ==
    /\ main = "get"
    /\ uart_msgq # <<>>
    /\ msg' = Head(uart_msgq) /\ uart_msgq' = Tail(uart_msgq)
    /\ main' = "respond"
    /\ UNCHANGED <<typed, rx_ctx, out>>

Sent == Last(out)

(* uart_respond(): one uart_poll_out() ...                                 *)
PollOut ==
    /\ main = "respond" /\ Len(Sent) < Len(msg)
    /\ out' = [out EXCEPT ![Len(out)] = Append(@, msg[Len(@) + 1])]
    /\ UNCHANGED <<typed, rx_ctx, uart_msgq, main, msg>>

(* ... and after the last character the line end; memset() of the message. *)
Responded ==
    /\ main = "respond" /\ Len(Sent) = Len(msg)
    /\ out' = Append(out, <<>>)
    /\ msg' = <<>> /\ main' = "get"
    /\ UNCHANGED <<typed, rx_ctx, uart_msgq>>

Main == Get \/ PollOut \/ Responded

Next == Character \/ LineEnd \/ Main

Spec == Init /\ [][Next]_vars

(* The main thread runs whenever it is ready; nobody has to type. *)
FairSpec == Spec /\ WF_vars(Main)

-----------------------------------------------------------------------------
(* Properties *)

Echoed == Front(out)

(* The line fits into a message, its terminating zero included. *)
FitsMessage(l) == typed[l] < MSG_SIZE

(* What is echoed is never mixed: all its characters are of one typed line, *)
(* whatever the interrupt stores meanwhile, and a line that fits into a    *)
(* message is echoed whole, from its first character to its last.          *)
EchoIsLine ==
    \A i \in 1 .. Len(Echoed) :
        LET e == Echoed[i]
            l == e[1].line
        IN  /\ e # <<>>
            /\ \A k \in 1 .. Len(e) : e[k].line = l
            /\ FitsMessage(l) => /\ Len(e) = typed[l]
                                 /\ \A k \in 1 .. Len(e) : e[k].pos = k

(* "UART message too long, dropping message" (main.c:68): nothing is       *)
(* echoed of a line that does not fit.  The code drops what the buffer     *)
(* held and goes on storing the rest of the same line.                     *)
OverlongIsDropped ==
    \A i \in 1 .. Len(Echoed) : FitsMessage(Echoed[i][1].line)

(* Lines are echoed in the order in which they were typed, none twice.     *)
EchoInOrder ==
    \A i, j \in 1 .. Len(Echoed) : i < j => Echoed[i][1].line < Echoed[j][1].line

(* The lines the bot promises to echo: not empty, and they fit. *)
Echoable(l) == typed[l] > 0 /\ FitsMessage(l)
InFlight(l) == \/ \E i \in 1 .. Len(uart_msgq) : uart_msgq[i][1].line = l
               \/ main = "respond" /\ msg[1].line = l
               \/ \E i \in 1 .. Len(Echoed) : Echoed[i][1].line = l

(* As long as no more lines were typed than the queue holds, none that     *)
(* fits is lost, however slowly the main thread echoes and whatever longer *)
(* lines came before it: each is queued, being echoed or echoed.           *)
NoLossBelowCapacity ==
    Line <= QueueSize + 1 => \A l \in 1 .. Line - 1 : Echoable(l) => InFlight(l)

(* Every line the queue accepted is eventually echoed. *)
QueuedIsEchoed ==
    \A l \in 1 .. MaxLines :
        (\E i \in 1 .. Len(uart_msgq) : uart_msgq[i][1].line = l)
            ~> (\E i \in 1 .. Len(Echoed) : Echoed[i][1].line = l)
=============================================================================
