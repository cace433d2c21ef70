--------------------------- MODULE MCEventHandler ---------------------------
(* Instances of EventHandler for TLC: the values live in the cfg files. *)
EXTENDS EventHandler
=============================================================================
