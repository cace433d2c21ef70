--------------------------- MODULE MCUartEchoBot ----------------------------
(* Instances of UartEchoBot for TLC: the values live in the cfg files. *)
EXTENDS UartEchoBot
=============================================================================
