----------------------------- MODULE LeaveRails -----------------------------
(***************************************************************************)
(* The approval rails of one leave application (accounts/leave_views.py,    *)
(* helpers of LeaveApplicationViewSet).  A rail is one nullable foreign key *)
(* of LeaveApplicationData to LeaveStatus: the cover person (alternative),  *)
(* the team lead, HR, Admin and MD.  These are the pure functions of a row  *)
(* (as the handler holds it in memory) and of the applicant's Profile.      *)
(***************************************************************************)
EXTENDS Naturals

CONSTANTS Users,      \* accounts
          NoOne       \* a null foreign key to a user

ASSUME NoOneAssumption == NoOne \notin Users

Statuses  == {"Pending", "Approved", "Rejected"}
Rail      == Statuses \cup {"None"}              \* "None": the key is null
RailNames == {"altAp", "tlAp", "hrAp", "mdAp", "adAp"}
Kinds     == {"Full_day", "Half_day", "Short", "Menstrual"}
Roles     == {"Employee", "Intern", "TeamLead", "Admin", "HR", "MD", "Superuser",
              "NoProfile"}
Person    == Users \cup {NoOne}

-----------------------------------------------------------------------------
(* Which chain an application follows. *)

IsShort(r) == r.kind = "Short"

\* Regular leave: every rail is gated on the ones before it.
Sequential(r, role) ==
    /\ ~r.emergency
    /\ r.kind \notin {"Short", "Menstrual"}
    /\ role \notin {"MD", "HR"}

ShortSequential(role) == role \notin {"HR", "MD"}

SkipsLead(role)      == role \in {"TeamLead", "Admin"}
ShortSkipsLead(role) == role = "TeamLead"

-----------------------------------------------------------------------------
(* Setting and unlocking rails. *)

ClearRails(r) == [r EXCEPT !.tlAp = "None", !.hrAp = "None",
                           !.adAp = "None", !.mdAp = "None"]

\* Mutant of UnlockHrMd: the MD's rail stays hidden.
UnlockHrOnly(r) == [r EXCEPT !.hrAp = IF @ = "None" THEN "Pending" ELSE @]

\* HR and MD are exposed together; a rail that already has a status keeps it.
UnlockHrMd(r) ==
    [r EXCEPT !.hrAp = IF @ = "None" THEN "Pending" ELSE @,
              !.mdAp = IF @ = "None" THEN "Pending" ELSE @]

\* First step when no cover person is designated.  "lead" is Profile.Teamlead.
FirstRail(r, role, lead) ==
    IF ~SkipsLead(role) /\ lead # NoOne
    THEN [r EXCEPT !.tlAp = "Pending"]
    ELSE [r EXCEPT !.hrAp = "Pending", !.mdAp = "Pending"]

\* Mutant of AfterCover: nobody comes after the cover person.
NobodyAfterCover(r, role, lead) == r

\* After the cover person accepts: the team lead's rail, or HR and MD.
AfterCover(r, role, lead) ==
    IF ~SkipsLead(role) /\ lead # NoOne /\ r.lead # NoOne
    THEN [r EXCEPT !.tlAp = IF @ = "None" THEN "Pending" ELSE @]
    ELSE UnlockHrMd(r)

\* Rails of a new application on the general endpoint.
RegularRails(r, role, lead) ==
    LET c == ClearRails(r)
    IN  CASE role = "MD"     -> [c EXCEPT !.mdAp = "Approved"]
          [] role = "HR"     -> [c EXCEPT !.mdAp = "Pending"]
          [] role \notin {"MD", "HR"} /\ r.alt # NoOne -> c
          [] OTHER           -> FirstRail(c, role, lead)

\* Rails of a new two-hour short leave.
ShortRails(r, role, lead) ==
    LET c == ClearRails(r)
    IN  CASE role = "MD" -> [c EXCEPT !.mdAp = "Approved"]
          [] role = "HR" -> [c EXCEPT !.mdAp = "Pending"]
          [] role \notin {"MD", "HR", "TeamLead"} /\ lead # NoOne ->
                            [c EXCEPT !.tlAp = "Pending"]
          [] OTHER       -> [c EXCEPT !.hrAp = "Pending", !.mdAp = "Pending"]

\* Emergency and menstrual endpoints: the three staff rails start approved.
PreApproved(r) == [r EXCEPT !.tlAp = "Approved", !.hrAp = "Approved",
                            !.mdAp = "Approved", !.adAp = "None"]

InitialCover(r) == [r EXCEPT !.altAp = IF r.alt # NoOne THEN "Pending" ELSE "None"]

-----------------------------------------------------------------------------
(* Gates: what must have happened before a rail may be written. *)

CoverRefused(r)  == r.altAp = "Rejected"
CoverMissing(r)  == r.alt # NoOne /\ r.altAp # "Approved"
LeadMissing(r)   == r.lead # NoOne /\ r.tlAp # "Approved"

\* Mutant of LeadBlocked: only a refusal of the cover person stops the team lead.
LeadBlockedByRefusal(r, role) == Sequential(r, role) /\ CoverRefused(r)

LeadBlocked(r, role) == Sequential(r, role) /\ (CoverRefused(r) \/ CoverMissing(r))

ShortBlocked(r, role) ==
    ShortSequential(role) /\ ~ShortSkipsLead(role) /\ LeadMissing(r)

ChainBlocked(r, role) ==
    CoverRefused(r) \/ CoverMissing(r) \/ (~SkipsLead(role) /\ LeadMissing(r))

\* HR and MD pass the same gate.
StaffBlocked(r, role) ==
    \/ IsShort(r) /\ ShortBlocked(r, role)
    \/ Sequential(r, role) /\ ChainBlocked(r, role)

\* Short leave routed before TL -> HR -> MD existed: Admin finishes after HR.
AdminBlocked(r) == IsShort(r) /\ r.adAp # "None" /\ r.hrAp # "Approved"

AnyGranted(r) == \E f \in RailNames : r[f] = "Approved"

\* Mutant of StaffGranted: the MD's rail is not read either.
StaffGrantedButMd(r) == \E f \in RailNames \ {"altAp", "mdAp"} : r[f] = "Approved"

\* The test of view_history: the cover person's rail is not among those read.
StaffGranted(r) == \E f \in RailNames \ {"altAp"} : r[f] = "Approved"

-----------------------------------------------------------------------------
(* The applicant names another cover person. *)

ResyncCover(r, old) ==
    IF r.alt = NoOne      THEN [r EXCEPT !.altAp = "None"]
    ELSE IF r.alt # old   THEN [r EXCEPT !.altAp = "Pending"]
    ELSE r

\* Nothing granted yet: the rails start over behind the new cover person.
ResetsRails(r, role) == Sequential(r, role) /\ ~AnyGranted(r)

ResyncRails(r, role, lead) ==
    IF ~ResetsRails(r, role) THEN r
    ELSE IF r.alt # NoOne THEN ClearRails(r)
    ELSE FirstRail(ClearRails(r), role, lead)

-----------------------------------------------------------------------------
(* The pending queue of the approval tab (GET approval/?status=pending). *)

CoverGateOk(r)       == r.alt = NoOne \/ r.altAp = "Approved"
LeadPriorOk(r, role) == SkipsLead(role) \/ r.lead = NoOne \/ r.tlAp = "Approved"

\* User u, of role urole, sees r in the queue for rail f.
Queued(f, r, u, urole, role) ==
    CASE f = "altAp" -> r.alt = u /\ r.altAp \in {"None", "Pending"}
      [] f = "tlAp"  -> /\ urole = "TeamLead" /\ r.lead = u /\ r.tlAp = "Pending"
                        /\ CoverGateOk(r) /\ ~CoverRefused(r)
      [] f = "hrAp"  -> /\ urole = "HR" /\ r.hrAp = "Pending"
                        /\ CoverGateOk(r) /\ ~CoverRefused(r) /\ LeadPriorOk(r, role)
      [] f = "adAp"  -> urole = "Admin" /\ r.adAp = "Pending" /\ r.hrAp = "Approved"
      [] f = "mdAp"  -> /\ urole = "MD" /\ r.mdAp = "Pending" /\ ~CoverRefused(r)
                        /\ role = "HR" \/ (CoverGateOk(r) /\ LeadPriorOk(r, role))
=============================================================================
