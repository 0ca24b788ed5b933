----------------------------- MODULE MCDataset -----------------------------
(* Instance of Dataset: a name in both directories, one more in each. *)
EXTENDS DatasetProofs
============================================================================
