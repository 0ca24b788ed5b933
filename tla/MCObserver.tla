----------------------------- MODULE MCObserver -----------------------------
(* Instance of Observer: a target of two threads that may start a process. *)
EXTENDS ObserverProofs

CONSTANTS t1, t2, d1
============================================================================
