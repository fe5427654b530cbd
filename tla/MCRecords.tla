----------------------------- MODULE MCRecords -----------------------------
(* Instances of Records for TLC; one handler serves the 1:1 calls. *)
EXTENDS Records, TLC

CONSTANTS ann, bob, eve, cr, dan, a, b, vendor, cat, ned, staff, w1, w2

MCOneProcess == [w \in {ned} |-> ned]

Symmetry == Permutations({w1, w2})
=============================================================================
