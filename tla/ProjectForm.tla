---------------------------- MODULE ProjectForm ----------------------------
(***************************************************************************)
(* One infrastructure project form and its entries                          *)
(* (src/infra_forms/views.py InfraProjectFormViewSet, serializers.py).      *)
(* Staff append and edit entries, one by one or by sending the whole list;   *)
(* the MD approves or rejects each.  An approved entry is closed to staff.   *)
(*                                                                         *)
(* A request loads what it works on and writes later; an edit writes the     *)
(* whole row it loaded, approval included, a decision only its own columns.  *)
(***************************************************************************)
EXTENDS Naturals, FiniteSets

CONSTANTS EntryId,  \* entries the form may ever have
          Value,    \* what an entry says
          Worker, Idle, None

Approval == {"Pending", "Approved", "Rejected"}
Entry == [val : Value, approval : Approval]
By == {"staff", "md"}

VARIABLES form,     \* whether the form exists
          entry,    \* the rows, None where there is none
          request,  \* what each worker has loaded
          used,     \* ids already given out
          signed    \* history: the value the MD last stood for, per entry

formVars == <<form, entry, request, used, signed>>

TypeOK ==
  /\ form \in BOOLEAN
  /\ entry \in [EntryId -> Entry \cup {None}]
  /\ used \subseteq EntryId
  /\ signed \in [EntryId -> Value \cup {None}]
  /\ \A e \in EntryId : entry[e] # None => e \in used /\ form

Init ==
  /\ form = TRUE
  /\ \E E \in SUBSET EntryId, v \in Value :
       /\ entry = [e \in EntryId |-> IF e \in E THEN [val |-> v, approval |-> "Pending"] ELSE None]
       /\ used = E
  /\ request = [w \in Worker |-> Idle]
  /\ signed = [e \in EntryId |-> None]

-----------------------------------------------------------------------------
(* Helpers *)

\* Mutant of SaveWhole: an edit writes the values and leaves the approval column.
SaveValues(rows, e, row) ==
  [rows EXCEPT ![e] = IF @ = None THEN row ELSE [@ EXCEPT !.val = row.val]]

\* Django's save() of a loaded row: every column, and an INSERT if the row is gone.
SaveWhole(rows, e, row) == [rows EXCEPT ![e] = row]

Locked(by, row) == by = "staff" /\ row.approval = "Approved"

Finish(w) == request' = [request EXCEPT ![w] = Idle]

\* The MD stands for what an own edit leaves approved.
Stand(by, rows) ==
  signed' = [e \in EntryId |->
    IF by = "md" /\ rows[e] # None /\ rows[e] # entry[e] /\ rows[e].approval = "Approved"
    THEN rows[e].val ELSE signed[e]]

-----------------------------------------------------------------------------
(* Requests *)

\* New rows start Pending.  A row that is no object ends the request with an
\* error from inside the transaction without undoing it: the rows before it stay.
Append(rows, bad) ==
  /\ form /\ rows # {} /\ rows \cap used = {}
  /\ \E kept \in SUBSET rows, v \in Value :
       /\ ~bad => kept = rows
       /\ bad => kept # rows
       /\ entry' = [e \in EntryId |-> IF e \in kept THEN [val |-> v, approval |-> "Pending"] ELSE entry[e]]
       /\ used' = used \cup kept
  /\ UNCHANGED <<form, request, signed>>

\* PATCH, PUT and DELETE of one entry, and the MD's decision: what is loaded.
LoadEntry(w, op, by, e) ==
  /\ request[w] = Idle /\ form /\ entry[e] # None
  /\ IF op = "approve" THEN by = "md" ELSE ~Locked(by, entry[e])
  /\ request' = [request EXCEPT ![w] = [op |-> op, by |-> by, id |-> e, row |-> entry[e]]]
  /\ UNCHANGED <<form, entry, used, signed>>

SaveEdit(w) ==
  /\ request[w] # Idle /\ request[w].op = "edit"
  /\ LET r == request[w] IN
       \E v \in Value :
         LET rows == SaveWhole(entry, r.id, [r.row EXCEPT !.val = v]) IN
         IF form THEN entry' = rows /\ Stand(r.by, rows)
         ELSE UNCHANGED <<entry, signed>>
  /\ Finish(w) /\ UNCHANGED <<form, used>>

DeleteEntry(w) ==
  /\ request[w] # Idle /\ request[w].op = "delete"
  /\ entry' = [entry EXCEPT ![request[w].id] = None]
  /\ Finish(w) /\ UNCHANGED <<form, used, signed>>

\* update_fields: the decision's own columns, an error if the row is gone.
SaveApproval(w) ==
  /\ request[w] # Idle /\ request[w].op = "approve"
  /\ LET e == request[w].id IN
       IF entry[e] = None THEN UNCHANGED <<entry, signed>>
       ELSE \E a \in Approval :
              /\ entry' = [entry EXCEPT ![e].approval = a]
              /\ signed' = IF a = "Approved" THEN [signed EXCEPT ![e] = entry[e].val] ELSE signed
  /\ Finish(w) /\ UNCHANGED <<form, used>>

\* PUT or PATCH of the form with a list of entries: saving the form locks it
\* against another such request, then the present entries are read ...
LoadForm(w, by) ==
  /\ request[w] = Idle /\ form
  /\ \A v \in Worker : request[v] # Idle => request[v].op # "merge"
  /\ request' = [request EXCEPT ![w] = [op |-> "merge", by |-> by, rows |-> entry]]
  /\ UNCHANGED <<form, entry, used, signed>>

\* The row that a merge leaves for an entry it loaded; sent[e] is the value in the
\* payload, or None where the payload omits the entry.
Merged(r, sent, e) ==
  IF r.rows[e] = None THEN entry[e]
  ELSE IF r.rows[e].approval = "Approved" /\ (r.by = "staff" \/ sent[e] = None) THEN entry[e]
  ELSE IF sent[e] = None THEN None
  ELSE SaveWhole(entry, e, [r.rows[e] EXCEPT !.val = sent[e]])[e]

\* ... and each is merged with the payload; entries without an id are new.
SaveForm(w) ==
  /\ request[w] # Idle /\ request[w].op = "merge"
  /\ LET r == request[w] IN
       \E sent \in [EntryId -> Value \cup {None}], new \in SUBSET (EntryId \ used), v \in Value :
         LET rows == [e \in EntryId |-> IF e \in new THEN [val |-> v, approval |-> "Pending"]
                                        ELSE Merged(r, sent, e)] IN
         /\ \A e \in EntryId : r.rows[e] = None => sent[e] = None
         /\ IF form THEN entry' = rows /\ used' = used \cup new /\ Stand(r.by, rows)
            ELSE UNCHANGED <<entry, used, signed>>
  /\ Finish(w) /\ UNCHANGED form

\* Any role with access may delete the form; its entries go with it.
DeleteForm ==
  /\ form
  /\ \A w \in Worker : request[w] # Idle => request[w].op # "merge"
  /\ form' = FALSE
  /\ entry' = [e \in EntryId |-> None]
  /\ UNCHANGED <<request, used, signed>>

Next ==
  \/ \E rows \in SUBSET EntryId, bad \in BOOLEAN : Append(rows, bad)
  \/ \E w \in Worker :
       \/ \E op \in {"edit", "delete", "approve"}, by \in By, e \in EntryId : LoadEntry(w, op, by, e)
       \/ \E by \in By : LoadForm(w, by)
       \/ SaveEdit(w) \/ DeleteEntry(w) \/ SaveApproval(w) \/ SaveForm(w)
  \/ DeleteForm

Spec == Init /\ [][Next]_formVars

-----------------------------------------------------------------------------
(* Properties *)

\* However edits, merges and decisions cross, an approved entry says what it said
\* when the MD approved it, or what the MD has made of it since: an edit that lost
\* the race takes the approval away with it.
ApprovedAsSigned ==
  \A e \in EntryId : entry[e] # None /\ entry[e].approval = "Approved" => entry[e].val = signed[e]
=============================================================================
