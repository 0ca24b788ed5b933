------------------------------ MODULE Analysis ------------------------------
(***************************************************************************)
(* What one run of fragarach promises to whoever starts it, whatever fails *)
(* on the way: the program is held back while the run is being prepared,   *)
(* and is over when fragarach returns.  Only a run that is broken off may  *)
(* leave a program behind.                                                 *)
(***************************************************************************)
VARIABLES analysis, \* how far the run of fragarach is
          program   \* what has become of the program it analyses

Init == analysis = "preparing" /\ program = "absent"

(* the program *)
Create  == program = "absent" /\ analysis = "preparing" /\ program' = "held"
Release == program = "held" /\ analysis # "preparing" /\ program' = "running"
Finish  == program \in {"held", "running"} /\ program' = "over"

(* the run; a preparation that fails at once may return as well *)
Watch    == analysis = "preparing" /\ analysis' = "watching"
WindUp   == analysis = "watching" /\ analysis' = "ending"
Return   == /\ analysis \in {"preparing", "ending"}
            /\ program \in {"absent", "over"}
            /\ analysis' = "done"
BreakOff == analysis # "done" /\ analysis' = "broken off"

Next ==
  \/ (Create \/ Release \/ Finish) /\ UNCHANGED analysis
  \/ (Watch \/ WindUp \/ Return \/ BreakOff) /\ UNCHANGED program

Spec == Init /\ [][Next]_<<analysis, program>>

============================================================================
