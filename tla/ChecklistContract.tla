------------------------- MODULE ChecklistContract -------------------------
(***************************************************************************)
(* What a project promises about its checklist items                        *)
(* (src/projects_deadline/checklist_md_approval.py): an item that is        *)
(* checked waits for the MD, only the MD decides, and whoever edits the     *)
(* project can take an item away or uncheck it but not change the decision  *)
(* on an item that stays checked.  No word about phases, rows or requests;  *)
(* Checklist implements it when requests come one at a time.                *)
(***************************************************************************)
CONSTANT Item            \* ids of checklist items

Decided == {"Approved", "Incomplete"}
Checked == Decided \cup {"Pending"}
Mark    == Checked \cup {"absent", "open"}

VARIABLES decision,      \* decision[i]: what the project says of item i
          deleted

contractVars == <<decision, deleted>>

\* What an editor may make of an item.
May(old) == {"absent", "open"}
            \cup IF old \in Checked THEN {old} ELSE {"Pending"}

ContractInit ==
  /\ decision \in [Item -> {"absent", "open", "Approved"}]
  /\ deleted = FALSE

Edit ==
  /\ decision' \in [Item -> Mark]
  /\ \A i \in Item : decision'[i] \in May(decision[i])
  /\ UNCHANGED deleted

Decide ==
  /\ \E i \in Item, st \in Decided :
       /\ decision[i] \in Checked
       /\ decision' = [decision EXCEPT ![i] = st]
  /\ UNCHANGED deleted

Delete == deleted' = TRUE /\ UNCHANGED decision

ContractNext == ~deleted /\ (Edit \/ Decide \/ Delete)
=============================================================================
