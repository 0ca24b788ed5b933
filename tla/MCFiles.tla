------------------------------ MODULE MCFiles ------------------------------
(* Instance of Files: small trees, one of which may be too deep.  The path *)
(* of the last thing, if there is one, is too long.                        *)
EXTENDS Files
============================================================================
