---------------------------- MODULE GnssReceiver ----------------------------
(***************************************************************************)
(* test_drivers/rpi_pico_ublox_gnss: the UART interrupt copies received    *)
(* bytes into a ring buffer and gives a binary semaphore; the parser       *)
(* thread takes it, drains the ring and assembles NMEA sentences.          *)
(*                                                                         *)
(* A byte is '$', the line feed "n" or any other character "x", and is     *)
(* known by its index in the received stream.  The interrupt handler is    *)
(* one action: threads do not run meanwhile.                               *)
(***************************************************************************)
EXTENDS Integers, Sequences, SequencesExt, FiniteSets

CONSTANTS RingSize,     \* RING_BUF_DECLARE(gnss_ringbuf, ...)
          FifoSize,     \* bytes one interrupt can read
          LineSize,     \* sizeof(line_buf)
          MaxBytes      \* bound: bytes received

ASSUME GnssAssumption ==
    /\ RingSize \in Nat \ {0} /\ FifoSize \in Nat \ {0}
    /\ LineSize \in Nat \ {0, 1} /\ MaxBytes \in Nat

Byte == {"$", "n", "x"}

VARIABLES stream,            \* every byte the UART received
          accepted,          \* indices of those the ring buffer took
          gnss_ringbuf,      \* indices waiting in the ring buffer
          gnss_sem,          \* count of the semaphore, limit 1
          ppc,               \* parser thread: "take" or "drain"
          line_buf,          \* indices of line_buf[0 .. line_pos - 1]
          sentence_parsed,
          sentence           \* the last sentence reported, and its line feed

rx     == <<stream, accepted>>
parser == <<ppc, line_buf, sentence_parsed, sentence>>
vars   == <<rx, gnss_ringbuf, gnss_sem, parser>>

TypeOK ==
    /\ stream \in Seq(Byte)
    /\ accepted \in Seq(Nat)
    /\ gnss_ringbuf \in Seq(Nat) /\ Len(gnss_ringbuf) <= RingSize
    /\ gnss_sem \in {0, 1}
    /\ ppc \in {"take", "drain"}
    /\ line_buf \in Seq(Nat) /\ Len(line_buf) < LineSize
    /\ sentence_parsed \in Nat
    /\ sentence \in [text : Seq(Nat), end : Nat]

Init ==
    /\ stream = <<>> /\ accepted = <<>> /\ gnss_ringbuf = <<>>
    /\ gnss_sem = 0
    /\ ppc = "take" /\ line_buf = <<>> /\ sentence_parsed = 0
    /\ sentence = [text |-> <<>>, end |-> 0]

-----------------------------------------------------------------------------
(* gnss_uart_irq_callback() *)

Give_Forgotten == gnss_sem
(* k_sem_give(): the count saturates at its limit *)
Give == 1

(* ring_buf_put() takes the prefix that fits; the rest is lost.            *)
Irq(bytes) ==
    /\ Len(stream) + Len(bytes) <= MaxBytes
    /\ LET room == RingSize - Len(gnss_ringbuf)
           n    == IF Len(bytes) < room THEN Len(bytes) ELSE room
           put  == [i \in 1 .. n |-> Len(stream) + i]
       IN  /\ gnss_ringbuf' = gnss_ringbuf \o put
           /\ accepted' = accepted \o put
    /\ stream' = stream \o bytes
    /\ gnss_sem' = Give
    /\ UNCHANGED parser

-----------------------------------------------------------------------------
(* gnss_parser_thread() *)

(* k_sem_take(K_FOREVER) *)
Take ==
    /\ ppc = "take" /\ gnss_sem = 1
    /\ gnss_sem' = 0 /\ ppc' = "drain"
    /\ UNCHANGED <<rx, gnss_ringbuf, line_buf, sentence_parsed, sentence>>

(* line_pos < sizeof(line_buf) - 1 *)
Fits == Len(line_buf) < LineSize - 1

Start_Append(i) == IF Fits THEN Append(line_buf, i) ELSE line_buf
(* '$' always starts a new sentence *)
Start(i) == <<i>>

AfterSentence_Kept == line_buf
(* line_pos = 0 *)
AfterSentence == <<>>

(* The outcome of one byte for the sentence being assembled. *)
Parse(i) ==
    \/ /\ stream[i] = "$"
       /\ line_buf' = Start(i)
       /\ UNCHANGED <<sentence_parsed, sentence>>
    \/ /\ stream[i] = "n" /\ line_buf # <<>>
       /\ sentence' = [text |-> line_buf, end |-> i]
       /\ sentence_parsed' = sentence_parsed + 1
       /\ line_buf' = AfterSentence
    \/ /\ stream[i] = "x" \/ (stream[i] = "n" /\ line_buf = <<>>)
       /\ line_buf' = IF line_buf # <<>> /\ Fits THEN Append(line_buf, i) ELSE line_buf
       /\ UNCHANGED <<sentence_parsed, sentence>>

(* ring_buf_get() of one byte *)
GetByte ==
    /\ ppc = "drain" /\ gnss_ringbuf # <<>>
    /\ gnss_ringbuf' = Tail(gnss_ringbuf)
    /\ Parse(Head(gnss_ringbuf))
    /\ UNCHANGED <<rx, gnss_sem, ppc>>

(* ring_buf_get() returns 0: the ring is drained *)
Drained ==
    /\ ppc = "drain" /\ gnss_ringbuf = <<>>
    /\ ppc' = "take"
    /\ UNCHANGED <<rx, gnss_ringbuf, gnss_sem, line_buf, sentence_parsed, sentence>>

Parser == Take \/ GetByte \/ Drained

Next == (\E n \in 1 .. FifoSize : \E bytes \in [1 .. n -> Byte] : Irq(bytes)) \/ Parser

Spec == Init /\ [][Next]_vars

(* The parser thread runs whenever it is ready. *)
FairSpec == Spec /\ WF_vars(Parser)

-----------------------------------------------------------------------------
(* Properties *)

(* The bytes the parser has consumed. *)
Consumed == Len(accepted) - Len(gnss_ringbuf)

(* A sentence ends at every line feed that has a '$' after the line feed   *)
(* before it.                                                              *)
SentenceEnds(text) ==
    {i \in 1 .. Len(text) :
        /\ text[i] = "n"
        /\ \E j \in 1 .. i - 1 : text[j] = "$" /\ \A k \in j .. i - 1 : text[k] # "n"}

(* sentence_parsed is the number of sentences among the bytes consumed,    *)
(* however they were cut into interrupts.                                  *)
CountsSentences ==
    sentence_parsed =
        Cardinality(SentenceEnds([i \in 1 .. Consumed |-> stream[accepted[i]]]))

(* As long as the ring never overflowed, a reported sentence is the        *)
(* received text from its '$' to its line feed, cut to the size of the     *)
(* line buffer and never joined from two sentences.                        *)
SentenceIntact ==
    Len(accepted) = Len(stream) /\ sentence_parsed > 0 =>
        LET t == sentence.text
        IN  /\ stream[t[1]] = "$" /\ stream[sentence.end] = "n"
            /\ \A k \in 1 .. Len(t) : t[k] = t[1] + k - 1
            /\ \A i \in t[1] + 1 .. sentence.end - 1 : stream[i] = "x"
            /\ Len(t) = IF sentence.end - t[1] < LineSize - 1 THEN sentence.end - t[1]
                                                              ELSE LineSize - 1

(* Every byte the ring took is eventually parsed, without waiting for      *)
(* another interrupt.                                                      *)
AllConsumed ==
    \A n \in 1 .. MaxBytes : Len(accepted) >= n ~> Consumed >= n
=============================================================================
