----------------------------- MODULE MCSession -----------------------------
(* Instance of Session for TLC in which every call may fail. *)
EXTENDS SessionProofs

AnyFault == Calls
============================================================================
