---------------------------- MODULE MCSharedMutex ----------------------------
(* A finite instance of SharedMutex; the constants are in SharedMutex.cfg.  *)
EXTENDS SharedMutex
=============================================================================
