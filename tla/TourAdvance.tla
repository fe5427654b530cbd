----------------------------- MODULE TourAdvance -----------------------------
(***************************************************************************)
(* One tour advance request of src/tour_advance (models.py, serializers.py,    *)
(* views.py): anybody files it for an employee, its creator may change it while  *)
(* it is pending, an Admin or MD may change all of it and decides.  Every change  *)
(* loads the row, checks what it loaded and saves the whole row.                   *)
(***************************************************************************)
EXTENDS Naturals, FiniteSets

CONSTANTS Employee,            \* those a request can be for, or include
          Amount,              \* advances, and amounts of a bill
          Worker, Idle, None

VARIABLES tour,      \* the row: its status, advance and primary employee, or None
          going,     \* TourAdvanceMember rows
          bill,      \* the amount on the attachment with one S3 key, or None
          ttask,     \* what each worker is doing
          signed,    \* history: the advance that was approved last
          revived    \* history: a save has brought a deleted request back

tourVars == <<tour, going, bill, ttask, signed, revived>>

Status == {"Pending", "Approved", "Rejected"}
Request == [status : Status, advance : Amount, primary : Employee]

TypeOK ==
  /\ tour \in Request \cup {None} /\ going \subseteq Employee
  /\ bill \in Amount \cup {None} /\ signed \in Amount \cup {None} /\ revived \in BOOLEAN

Init ==
  /\ tour = None /\ going = {} /\ bill = None
  /\ ttask = [w \in Worker |-> Idle] /\ signed = None /\ revived = FALSE

-----------------------------------------------------------------------------

At(w, op) == ttask[w] # Idle /\ ttask[w].op = op
Goes(w, t) == ttask' = [ttask EXCEPT ![w] = t]

\* Mutant of Members: those who are named, and nobody else.
MembersNamed(ids, primary) == ids

\* validate: the primary employee is a member, named or not.
Members(ids, primary) == ids \cup {primary}

\* create, in one transaction; whatever status is sent, it is pending.
File(primary, ids, amount, billed) ==
  /\ tour = None /\ ~revived /\ \A w \in Worker : ttask[w] = Idle
  /\ tour' = [status |-> "Pending", advance |-> amount, primary |-> primary]
  /\ going' = Members(ids, primary) /\ bill' = billed
  /\ UNCHANGED <<ttask, signed, revived>>

\* update: get_object, then validate against it: the creator while it is pending, an
\* Admin or MD always.
LoadTour(w, admin) ==
  /\ ttask[w] = Idle /\ tour # None
  /\ admin \/ tour.status = "Pending"
  /\ Goes(w, [op |-> "save", admin |-> admin, copy |-> tour])
  /\ UNCHANGED <<tour, going, bill, signed, revived>>

\* Mutant of Written: the fields that were sent, beside the status that is stored.
WrittenFields(copy, status, amount) ==
  [copy EXCEPT !.status = IF status = copy.status /\ tour # None THEN tour.status ELSE status,
               !.advance = amount]

\* setattr of what was sent, then save() of the loaded row.
Written(copy, status, amount) == [copy EXCEPT !.status = status, !.advance = amount]

\* _sync_members deletes the rows it sees and inserts the new ones: those of a
\* transaction that runs beside it may stay.  _sync_attachments adds or updates.
SaveTour(w) ==
  /\ At(w, "save")
  /\ LET t == ttask[w] IN
       \E status \in (IF t.admin THEN Status ELSE {t.copy.status}), amount \in Amount :
         /\ tour' = Written(t.copy, status, amount)
         /\ signed' = IF t.admin /\ status = "Approved" THEN amount ELSE signed
         /\ \/ UNCHANGED going
            \/ \E ids \in SUBSET Employee :
                 /\ t.admin
                 /\ going' \in {Members(ids, t.copy.primary), Members(ids, t.copy.primary) \cup going}
  /\ bill' \in {bill} \cup Amount
  /\ revived' = (revived \/ tour = None)
  /\ Goes(w, Idle)

\* destroy: the creator's only while it is pending.
LoadDelete(w, admin) ==
  /\ ttask[w] = Idle /\ tour # None
  /\ admin \/ tour.status = "Pending"
  /\ Goes(w, [op |-> "delete"])
  /\ UNCHANGED <<tour, going, bill, signed, revived>>

\* Members and attachments go with the row.
Delete(w) ==
  /\ At(w, "delete")
  /\ tour' = None /\ going' = {} /\ bill' = None
  /\ Goes(w, Idle)
  /\ UNCHANGED <<signed, revived>>

Next ==
  \/ \E primary \in Employee, ids \in SUBSET Employee, amount \in Amount,
        billed \in Amount \cup {None} : File(primary, ids, amount, billed)
  \/ \E w \in Worker :
       \/ \E admin \in BOOLEAN : LoadTour(w, admin) \/ LoadDelete(w, admin)
       \/ SaveTour(w) \/ Delete(w)

Spec == Init /\ [][Next]_tourVars

-----------------------------------------------------------------------------
(* Properties *)

\* An approved advance is the one an Admin or MD approved: a creator's change that was
\* let in while the request was pending and lands after the decision takes the
\* decision back, it never alters what is approved (validate, update).
ApprovedStands == tour # None /\ tour.status = "Approved" => tour.advance = signed

\* The employee a request is for can see it, whoever filed it, and however changes of
\* its members cross, unless it was deleted under a change (_sync_members).
PrimarySees == tour # None /\ ~revived => tour.primary \in going
=============================================================================
