---------------------------- MODULE MCSpscBuffer ----------------------------
(* Instances of SpscBuffer for TLC: the values live in the cfg files. *)
EXTENDS SpscBuffer
=============================================================================
