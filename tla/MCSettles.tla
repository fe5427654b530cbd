----------------------------- MODULE MCSettles -----------------------------
(* Instances of Settles for TLC: tabs and processes, people and their patches. *)
EXTENDS Settles

CONSTANTS s1, s2, s3, cr, co, a, b, w1

MCSameProcess == [w \in Worker |-> w1]        \* two threads of one process
MCServedBy == [s \in {s1, s2, s3} |-> IF s = s3 THEN s3 ELSE s1]

Body(approved, final) == [co |-> Same, approved |-> approved, final |-> final]
MCPatches == {Body(TRUE, Same), Body(FALSE, Same), Body(Same, "PENDING"),
              [co |-> a, approved |-> Same, final |-> "COMPLETED"]}
=============================================================================
