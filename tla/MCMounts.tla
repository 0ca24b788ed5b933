------------------------------ MODULE MCMounts ------------------------------
(* Instance of Mounts: some runs, each of which may be abandoned. *)
EXTENDS MountsProofs
============================================================================
