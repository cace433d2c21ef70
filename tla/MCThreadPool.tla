---------------------------- MODULE MCThreadPool ----------------------------
(* Instances of ThreadPool for TLC: the values live in the cfg files. *)
EXTENDS ThreadPool
=============================================================================
