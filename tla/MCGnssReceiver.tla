--------------------------- MODULE MCGnssReceiver ---------------------------
(* Instances of GnssReceiver for TLC: the values live in the cfg files. *)
EXTENDS GnssReceiver
=============================================================================
