--------------------------- MODULE MCSharedMutex ---------------------------
(* SharedMutex for TLC: the threads are model values of the configuration. *)
EXTENDS SharedMutex
=============================================================================
