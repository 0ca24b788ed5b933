---------------------------- MODULE Preparation ----------------------------
(***************************************************************************)
(* What becomes of the upper directory of the overlay before and while the *)
(* target runs, whatever fails: it is emptied, but for what cannot be      *)
(* deleted, then the target is copied to it, and only when the copy is     *)
(* complete can a target run from it and write to it.  Session, which      *)
(* takes resetOverlay and cpy for one step each, and Files, which takes    *)
(* them apart, both implement it.                                          *)
(***************************************************************************)
VARIABLES stage,  \* how far the preparation is
          holds,  \* what is in the directory: a file in the target's place,
                  \*   trees too deep to be deleted, other files
          running \* whether a target runs from the directory

Contents == {"target", "deep", "files"}

Init == stage = "begun" /\ holds \in SUBSET Contents /\ running = FALSE

(* Files go, one after the other, until only what is too deep is left. *)
Delete  == stage = "begun" /\ stage' = stage /\ holds' \subseteq holds
Emptied == /\ stage = "begun" /\ stage' = "emptied"
           /\ holds' \subseteq holds \cap {"deep"}

(* The copy is begun, and then complete or given up. *)
Create == /\ stage = "emptied" /\ stage' = stage
          /\ holds' = holds \cup {"target"}
Copied == /\ stage = "emptied" /\ stage' = "copied"
          /\ holds' = holds \cup {"target"}
GiveUp == /\ stage = "emptied" /\ stage' = "failed"
          /\ holds' \in {holds, holds \cup {"target"}}

(* fragarach goes, and no target will run *)
Leave == ~running /\ stage' = "left" /\ UNCHANGED holds

(* Only a complete copy runs, perhaps longer than fragarach. *)
Run == stage = "copied" /\ "target" \in holds /\ ~running /\ running'
End == running /\ ~running'

TargetWrites == /\ running /\ UNCHANGED stage
                /\ \E left \in SUBSET (Contents \ {"target"}) :
                      holds' = holds \cup left

Next ==
  \/ /\ Delete \/ Emptied \/ Create \/ Copied \/ GiveUp \/ Leave \/ TargetWrites
     /\ UNCHANGED running
  \/ (Run \/ End) /\ UNCHANGED <<stage, holds>>

Spec == Init /\ [][Next]_<<stage, holds, running>>

============================================================================
