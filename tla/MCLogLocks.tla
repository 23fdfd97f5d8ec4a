----------------------------- MODULE MCLogLocks -----------------------------
(* Instances of LogLocks. *)
EXTENDS LogLocks
CONSTANTS d1, w1, l1
=============================================================================
