----------------------------- MODULE MCOffice -----------------------------
(* Instances of Office for TLC: who the people are and what they may send.  *)
EXTENDS Office, TLC

CONSTANTS a, b, dan, eva, w1, w2

Send(x, y) == [s \in Slot |-> [i \in Item |-> IF i = a /\ s = 1 THEN x
                                              ELSE IF i = b /\ s = 2 THEN y ELSE "absent"]]
Together(x, y) == [s \in Slot |-> [i \in Item |-> IF s # 1 THEN "absent"
                                                  ELSE IF i = a THEN x ELSE y]]
MCPayloads == {Together("done", "done"), Together("claimed", "open"),
               Send("done", "absent"), Send("open", "done")}

Symmetry == Permutations({w1, w2}) \cup Permutations({dan, eva})
=============================================================================
