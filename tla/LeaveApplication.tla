-------------------------- MODULE LeaveApplication --------------------------
(***************************************************************************)
(* One leave application and its applicant's LeaveSummary, handled by the   *)
(* server's workers (accounts/leave_views.py with the pre_save / post_save  *)
(* receivers of accounts/signals.py).                                       *)
(*                                                                          *)
(* A worker serves one request at a time.  It loads the row (get_object),   *)
(* decides on that copy and writes only the columns it touched               *)
(* (save(update_fields=...)); nothing is locked, so the row may change in    *)
(* between.  An MD approval also loads the LeaveSummary, and writes it back  *)
(* as absolute values in the transaction that saves the row.  With one       *)
(* worker requests are served one after the other.                           *)
(***************************************************************************)
EXTENDS LeaveRails, LeaveBalances

CONSTANTS Workers,        \* threads of the server processes
          Requests,       \* the requests clients may send for the row
          Creations,      \* the ways the row may come to exist
          Applicant,      \* the user who takes the leave
          RoleOf,         \* role of every user other than the applicant
          ApplicantRoles, \* roles the applicant may have
          Leads,          \* users who may be named team lead
          Summary0,       \* the applicant's balances at the start
          NewLeads,       \* users who may be made team lead meanwhile
          Leavers,        \* users who may be deleted meanwhile
          Attentive,      \* <<user, rail>>: approvers who act on their queue
          MaxCharges,     \* bound: runs of the waterfall
          MaxCredits,     \* bound: earned-leave credits
          Idle            \* a worker that holds no request

Fields == {"altAp", "tlAp", "hrAp", "adAp", "mdAp", "alt", "kind", "days"}
Drafts == {"alt", "kind", "days"}

FieldValues(f) == CASE f \in RailNames -> Statuses
                    [] f = "alt"       -> (Users \ {Applicant}) \cup {NoOne}
                    [] f = "kind"      -> {"Full_day", "Half_day", "Short"}
                    [] OTHER           -> Nat

\* A request assigns values to some fields of the row.
WellFormed(q) ==
    /\ DOMAIN q = {"op", "user", "set"}
    /\ q.op \in {"patch", "respond", "history", "delete"}
    /\ q.user \in Users
    /\ DOMAIN q.set \subseteq Fields
    /\ \A f \in DOMAIN q.set : q.set[f] \in FieldValues(f)
    /\ q.op = "respond" => q.set \in [{"altAp"} -> {"Approved", "Rejected"}]
    /\ q.op = "history" => DOMAIN q.set \subseteq Drafts

Creation == [by : {"general", "short", "menstrual", "emergency"},
             kind : Kinds, days : Nat, alt : (Users \ {Applicant}) \cup {NoOne},
             flag : BOOLEAN]

Row == [state : {"absent", "live", "deleted"}, kind : Kinds, emergency : BOOLEAN,
        days : Nat, lead : Person, alt : Person,
        altAp : Rail, tlAp : Rail, hrAp : Rail, mdAp : Rail, adAp : Rail,
        split : Split, slot : BOOLEAN]

ASSUME LeaveAssumption ==
    /\ Applicant \in Users
    /\ RoleOf \in [Users -> Roles]
    /\ ApplicantRoles \subseteq Roles
    /\ Leads \subseteq Users \ {Applicant}
    /\ NewLeads \subseteq Users \ {Applicant}
    /\ Leavers \subseteq Users \ {Applicant}
    /\ Summary0 \in Summary
    /\ \A q \in Requests : WellFormed(q)
    /\ Creations \subseteq Creation
    /\ Attentive \subseteq Users \X RailNames
    /\ MaxCharges \in Nat /\ MaxCredits \in Nat

VARIABLES row,        \* the LeaveApplicationData row
          summary,    \* the LeaveSummary row
          profile,    \* the applicant's Profile: role and team lead
          gone,       \* deleted users
          thread,     \* what each worker holds
          sent,       \* whom the last step notified
          opened,     \* history: the gate of HR and MD has been open
          tally       \* history: waterfall runs, half-days charged,
                      \* transitions of the MD rail to Approved, half-days credited

vars == <<row, summary, profile, gone, thread, sent, opened, tally>>

NoRow == [state |-> "absent", kind |-> "Full_day", emergency |-> FALSE, days |-> 0,
          lead |-> NoOne, alt |-> NoOne, altAp |-> "None", tlAp |-> "None",
          hrAp |-> "None", mdAp |-> "None", adAp |-> "None",
          split |-> NoSplit, slot |-> FALSE]

Init == /\ row = NoRow
        /\ summary = Summary0
        /\ profile \in [role : ApplicantRoles, lead : Leads \cup {NoOne}]
        /\ gone = {}
        /\ thread = [w \in Workers |-> Idle]
        /\ sent = {}
        /\ opened = FALSE
        /\ tally = [charges |-> 0, units |-> 0, approvals |-> 0, credits |-> 0]

-----------------------------------------------------------------------------
Role(u)    == IF u = Applicant THEN profile.role ELSE RoleOf[u]
Intern     == profile.role = "Intern"
ActsAsMD(u) == Role(u) \in {"MD", "Superuser"}

\* What must have happened before HR and MD decide: the cover person named has
\* consented and the team lead, where the applicant has that step, has approved.
GateMet(r, role) ==
    /\ Sequential(r, role) => CoverGateOk(r) /\ LeadPriorOk(r, role)
    /\ IsShort(r) /\ ShortSequential(role)
          => ShortSkipsLead(role) \/ r.lead = NoOne \/ r.tlAp = "Approved"

\* History bookkeeping shared by every step that changes row or profile.
Remember == opened' = (opened \/ (row'.state = "live" /\ GateMet(row', profile'.role)))

Chargeable(r) == /\ ~r.emergency /\ r.kind \notin {"Menstrual", "Short"}
                 /\ DebitUnits(r.kind, r.days) > 0

-----------------------------------------------------------------------------
(* The receivers of accounts/signals.py, run inside every save of the row.  *)
(* "inst" is the saved instance, "old" the row before it in the table.       *)

MdSaved(inst, old) ==
    inst.mdAp = "Approved" /\ ~inst.emergency /\ old.mdAp # "Approved"

AdminSaved(inst, old) ==
    /\ inst.adAp = "Approved" /\ ~inst.emergency /\ old.adAp # "Approved"
    /\ ShortSequential(profile.role)

\* A short leave takes its monthly slot, at most once (the row is re-read locked).
SignalSlot(inst, old) ==
    IsShort(inst) /\ ~inst.slot /\ ~old.slot /\ (MdSaved(inst, old) \/ AdminSaved(inst, old))

SignalMenstrual(inst, old) == inst.kind = "Menstrual" /\ MdSaved(inst, old)

\* Mutant of SignalCharge: the instance's split is not looked at.
SignalChargeAlways(inst, old) == Chargeable(inst) /\ MdSaved(inst, old)

\* The safety net charges a row whose instance carries no split yet.
SignalCharge(inst, old) ==
    Chargeable(inst) /\ MdSaved(inst, old) /\ Total(inst.split) = 0

\* Row and summary after the receivers.
SignalRow(r, inst, old, s) ==
    [r EXCEPT !.slot  = @ \/ (SignalSlot(inst, old) /\ GetsSlot(s)),
              !.split = IF SignalCharge(inst, old)
                        THEN SplitOf(s, DebitUnits(inst.kind, inst.days), Intern)
                        ELSE @]

SignalSummary(s, inst, old) ==
    CASE SignalSlot(inst, old)      -> FinalizeShort(s)
      [] SignalMenstrual(inst, old) -> ConsumeMenstrual(s)
      [] SignalCharge(inst, old)    ->
            Consume(s, s, DebitUnits(inst.kind, inst.days), Intern)
      [] OTHER                      -> s

-----------------------------------------------------------------------------
(* Creating the row.  Each endpoint is one transaction. *)

Fresh(c) == [NoRow EXCEPT !.state = "live", !.kind = c.kind, !.days = c.days,
                          !.alt = c.alt, !.lead = profile.lead]

Created(r, s, charges, notes) ==
    /\ row' = r
    /\ summary' = s
    /\ sent' = notes
    /\ tally' = [tally EXCEPT !.charges = @ + charges,
                    !.units = @ + charges * DebitUnits(r.kind, r.days),
                    !.approvals = @ + (IF r.mdAp = "Approved" /\ Chargeable(r) THEN 1 ELSE 0)]
    /\ UNCHANGED <<profile, gone, thread>>
    /\ Remember

\* POST leave-applications/.  An MD's own leave is approved at once: the save of
\* the rails runs the receivers, and create() then charges the balances itself.
CreateGeneral(c) ==
    LET r  == InitialCover(RegularRails([Fresh(c) EXCEPT !.emergency = c.flag],
                                        profile.role, profile.lead))
        s1 == SignalSummary(summary, r, NoRow)
        r1 == SignalRow(r, r, NoRow, summary)
        units == DebitUnits(c.kind, c.days)
        again == profile.role = "MD" /\ Chargeable(r)
        s2 == IF again THEN Consume(s1, s1, units, Intern)
              ELSE IF profile.role = "MD" /\ ~c.flag /\ c.kind = "Menstrual"
              THEN ConsumeMenstrual(s1) ELSE s1
        r2 == IF again THEN [r1 EXCEPT !.split = SplitOf(s1, units, Intern)] ELSE r1
    IN  /\ c.by = "general"
        /\ c.kind = "Menstrual" => summary.menstrual >= 1
        /\ Created(r2, s2, IF again THEN 2 ELSE 0,
                   IF ~c.flag /\ c.kind # "Short" /\ c.alt # NoOne THEN {"cover"} ELSE {})

\* POST short/: no other short leave is awaiting, so a slot left is enough.
CreateShort(c) ==
    LET m == SyncMonth(summary)
        r == InitialCover(ShortRails(Fresh(c), profile.role, profile.lead))
    IN  /\ c.by = "short" /\ c.kind = "Short" /\ c.alt = NoOne
        /\ Intern => profile.lead # NoOne
        /\ m.short > 0
        /\ Created(SignalRow(r, r, NoRow, m), SignalSummary(m, r, NoRow), 0, {})

\* POST menstrual/.
CreateMenstrual(c) ==
    LET r == PreApproved(Fresh(c))
    IN  /\ c.by = "menstrual" /\ c.kind = "Menstrual" /\ c.days = 1 /\ c.alt = NoOne
        /\ summary.menstrual >= 1
        /\ Created(r, ConsumeMenstrual(SignalSummary(summary, r, NoRow)), 0, {})

\* POST emergency/, by HR for anyone.
CreateEmergency(c) ==
    LET r == InitialCover(PreApproved([Fresh(c) EXCEPT !.emergency = TRUE]))
    IN  /\ c.by = "emergency" /\ c.days >= 1
        /\ IF c.kind = "Menstrual"
           THEN /\ summary.menstrual >= 1
                /\ Created(r, ConsumeMenstrual(summary), 0, {})
           ELSE /\ c.days <= summary.emergency
                /\ Created(r, [summary EXCEPT !.emergency = @ - c.days,
                                              !.used = @ + c.days], 0, {})

Create == /\ row.state = "absent"
          /\ \E c \in Creations : \/ CreateGeneral(c)   \/ CreateShort(c)
                                  \/ CreateMenstrual(c) \/ CreateEmergency(c)

-----------------------------------------------------------------------------
(* PATCH / PUT leave-applications/{id}/ : _apply_update_by_role.  "r" is the  *)
(* row the worker loaded, "a" the payload, "u" the user.                     *)

\* Rails of the payload the user has the role for; the rest is ignored.
MayWrite(u, r) == {f \in RailNames :
                      \/ f = "tlAp"  /\ profile.lead = u
                      \/ f = "hrAp"  /\ Role(u) = "HR"
                      \/ f = "adAp"  /\ Role(u) = "Admin"
                      \/ f = "mdAp"  /\ ActsAsMD(u)
                      \/ f = "altAp" /\ r.alt = u}

Taken(a, u, r) == DOMAIN a \cap MayWrite(u, r)

Overwrite(r, a, fs) == [f \in DOMAIN r |-> IF f \in fs THEN a[f] ELSE r[f]]

Approves(a, u, r, f) == f \in Taken(a, u, r) /\ a[f] = "Approved" /\ r[f] # "Approved"

\* Rails as the approvals in the payload leave them.
Signed(a, u, r) == Overwrite(r, a, Taken(a, u, r))

Unlocked(a, u, r) ==
    LET s == Signed(a, u, r)
        c == IF Sequential(r, profile.role) /\ Approves(a, u, r, "altAp")
             THEN AfterCover(s, profile.role, profile.lead) ELSE s
    IN  IF /\ Approves(a, u, r, "tlAp")
           /\ Sequential(r, profile.role) \/ (IsShort(r) /\ ShortSequential(profile.role))
        THEN UnlockHrMd(c) ELSE c

EditsDraft(a, u, r) == /\ u = Applicant /\ DOMAIN a \cap Drafts # {}
                       /\ ~AnyGranted(Unlocked(a, u, r))

\* The row with the draft fields of the payload, before the rails follow.
Edited(r, a) == LET e == Overwrite(r, a, DOMAIN a \cap Drafts)
                IN  IF "alt" \in DOMAIN a THEN ResyncCover(e, r.alt) ELSE e

Redrafted(r, a) == IF "alt" \in DOMAIN a
                   THEN ResyncRails(Edited(r, a), profile.role, profile.lead)
                   ELSE Edited(r, a)

\* Columns an edit names; rails that start over count even when unchanged.
EditColumns(r, a) ==
    (DOMAIN a \cap Drafts)
    \cup (IF "alt" \in DOMAIN a THEN {"altAp"} ELSE {})
    \cup (IF "alt" \in DOMAIN a /\ ResetsRails(Edited(r, a), profile.role)
          THEN RailNames \ {"altAp"} ELSE {})

\* Mutant of Refused: the MD rail has no gate.
RefusedButMd(a, u, r) ==
    LET t == Taken(a, u, r)
    IN  \/ "tlAp" \in t /\ LeadBlocked(r, profile.role)
        \/ "hrAp" \in t /\ StaffBlocked(r, profile.role)
        \/ "altAp" \in DOMAIN a /\ ("altAp" \notin t \/ r.altAp \in {"Approved", "Rejected"})
        \/ u = Applicant /\ DOMAIN a \cap Drafts # {} /\ AnyGranted(Unlocked(a, u, r))

Refused(a, u, r) ==
    LET t == Taken(a, u, r)
    IN  \/ "tlAp" \in t /\ LeadBlocked(r, profile.role)
        \/ "hrAp" \in t /\ StaffBlocked(r, profile.role)
        \/ "adAp" \in t /\ AdminBlocked(r)
        \/ "mdAp" \in t /\ StaffBlocked(r, profile.role)
        \/ "altAp" \in DOMAIN a /\ ("altAp" \notin t \/ r.altAp \in {"Approved", "Rejected"}
                                                     \/ a["altAp"] = "Pending")
        \/ /\ u = Applicant /\ DOMAIN a \cap Drafts # {}
           /\ \/ AnyGranted(Unlocked(a, u, r))
              \/ /\ "days" \in DOMAIN a /\ ~IsShort(Redrafted(r, a))
                 /\ Remaining(summary) < a["days"]

\* The MD approves: the handler charges the balances before saving the row.
Charges(a, u, r) == Approves(a, u, r, "mdAp") /\ Chargeable(r)

\* The instance the handler saves, and the columns it names.
Patched(a, u, r, read) ==
    LET n == Unlocked(a, u, r)
        p == IF Charges(a, u, r)
             THEN [n EXCEPT !.split = SplitOf(read, DebitUnits(r.kind, r.days), Intern)]
             ELSE n
    IN  IF EditsDraft(a, u, r) THEN Redrafted(p, a) ELSE p

Touched(a, u, r) ==
    LET n == Unlocked(a, u, r)
    IN  Taken(a, u, r) \cup {f \in RailNames : n[f] # r[f]}
        \cup (IF Charges(a, u, r) THEN {"split"} ELSE {})
        \cup (IF EditsDraft(a, u, r) THEN EditColumns(n, a) ELSE {})

\* Mutant of Notes: every approval by the MD is announced, repeated or not.
NotesRepeated(r, p) == IF p.mdAp = "Approved" THEN {"applicant"} ELSE {}

\* Notification helpers: regular leave only, on a transition to Approved.
Notes(r, p) ==
    LET newly(f) == p[f] = "Approved" /\ r[f] # "Approved"
        staff == {"hr", "md"}
    IN  IF p.emergency \/ IsShort(p) THEN {}
        ELSE (IF newly("altAp") THEN IF p.lead # NoOne THEN {"lead"} ELSE staff ELSE {})
             \cup (IF newly("tlAp") THEN staff ELSE {})
             \cup (IF newly("hrAp") THEN {"md"} ELSE {})
             \cup (IF newly("mdAp") THEN {"applicant"} ELSE {})

-----------------------------------------------------------------------------
(* A worker and its request. *)

Busy(w, pc) == thread[w] # Idle /\ thread[w].pc = pc

Load(w, q) ==
    /\ thread[w] = Idle /\ row.state = "live"
    /\ q.user \notin gone
    /\ q.op = "patch" /\ "mdAp" \in DOMAIN q.set => tally.charges < MaxCharges
    /\ thread' = [thread EXCEPT ![w] =
                      [pc |-> "loaded", q |-> q, row |-> row, read |-> Summary0]]
    /\ sent' = {}
    /\ UNCHANGED <<row, summary, profile, gone, opened, tally>>

\* The worker answers without writing.
Reject(w) ==
    /\ thread' = [thread EXCEPT ![w] = Idle]
    /\ sent' = {}
    /\ UNCHANGED <<row, summary, profile, gone, opened, tally>>

\* Save columns "fs" of instance p, loaded as r, and run the receivers.  A save
\* that matches no row raises, and the transaction is undone.
Save(w, p, fs, s, charges, notes) ==
    IF row.state # "live" THEN Reject(w)
    ELSE LET merged == Overwrite(row, p, fs)
             runs == charges + (IF SignalCharge(p, row) THEN 1 ELSE 0)
         IN  /\ row' = SignalRow(merged, p, row, s)
             /\ summary' = SignalSummary(s, p, row)
             /\ thread' = [thread EXCEPT ![w] = Idle]
             /\ sent' = notes
             /\ tally' = [tally EXCEPT
                   !.charges = @ + runs,
                   !.units = @ + runs * DebitUnits(p.kind, p.days),
                   !.approvals = @ + (IF row'.mdAp = "Approved" /\ row.mdAp # "Approved"
                                         /\ Chargeable(row') THEN 1 ELSE 0)]
             /\ UNCHANGED <<profile, gone>>
             /\ Remember

\* An MD approval that charges loads the LeaveSummary first.
ReadBalance(w) ==
    /\ Busy(w, "loaded")
    /\ LET q == thread[w].q  r == thread[w].row
       IN  /\ q.op = "patch" /\ Charges(q.set, q.user, r) /\ ~Refused(q.set, q.user, r)
    /\ thread' = [thread EXCEPT ![w] = [@ EXCEPT !.pc = "charging", !.read = summary]]
    /\ sent' = {}
    /\ UNCHANGED <<row, summary, profile, gone, opened, tally>>

Patch(w) ==
    /\ thread[w] # Idle /\ thread[w].q.op = "patch"
    /\ LET q == thread[w].q  r == thread[w].row  read == thread[w].read
           charges == Charges(q.set, q.user, r)
           p  == Patched(q.set, q.user, r, read)
           fs == Touched(q.set, q.user, r)
       IN  /\ charges /\ ~Refused(q.set, q.user, r) => thread[w].pc = "charging"
           /\ IF Refused(q.set, q.user, r) \/ fs = {} THEN Reject(w)
              ELSE Save(w, p, fs,
                        IF charges
                        THEN Consume(summary, read, DebitUnits(r.kind, r.days), Intern)
                        ELSE IF Approves(q.set, q.user, r, "mdAp") /\ ~r.emergency
                                /\ r.kind = "Menstrual"
                        THEN ConsumeMenstrual(summary) ELSE summary,
                        IF charges THEN 1 ELSE 0, Notes(r, p))

\* POST {id}/alternative-respond/.
Respond(w) ==
    /\ Busy(w, "loaded") /\ thread[w].q.op = "respond"
    /\ LET q == thread[w].q  r == thread[w].row
           s == [r EXCEPT !.altAp = q.set["altAp"]]
           p == IF s.altAp = "Approved" /\ Sequential(r, profile.role)
                THEN AfterCover(s, profile.role, profile.lead) ELSE s
       IN  IF r.alt # q.user \/ r.altAp \in {"Approved", "Rejected"} THEN Reject(w)
           ELSE Save(w, p, {"altAp"} \cup {f \in RailNames : p[f] # r[f]}, summary, 0,
                     IF s.altAp = "Approved" THEN Notes(r, s) ELSE {})

\* Mutant of EditHistory: no approval is looked at.
EditHistoryUnchecked(w) ==
    /\ Busy(w, "loaded") /\ thread[w].q.op = "history"
    /\ LET q == thread[w].q  r == thread[w].row
       IN  IF q.user # Applicant THEN Reject(w)
           ELSE Save(w, Redrafted(r, q.set), EditColumns(r, q.set), summary, 0, {})

\* PATCH {id}/view_history/ by the applicant.
EditHistory(w) ==
    /\ Busy(w, "loaded") /\ thread[w].q.op = "history"
    /\ LET q == thread[w].q  r == thread[w].row
           p == Redrafted(r, q.set)
       IN  IF \/ q.user # Applicant \/ StaffGranted(r)
              \/ "days" \in DOMAIN q.set /\ ~IsShort(p) /\ Remaining(summary) < q.set["days"]
           THEN Reject(w)
           ELSE Save(w, p, EditColumns(r, q.set), summary, 0, {})

\* Mutant of Destroy: an approval by the MD does not stop it.
DestroyApproved(w) ==
    /\ Busy(w, "loaded") /\ thread[w].q.op = "delete"
    /\ ~IsShort(thread[w].row) /\ row.state = "live"
    /\ row' = [row EXCEPT !.state = "deleted"]
    /\ thread' = [thread EXCEPT ![w] = Idle]
    /\ sent' = {}
    /\ UNCHANGED <<summary, profile, gone, opened, tally>>

\* DELETE {id}/ and DELETE {id}/view_history/ by the applicant.
Destroy(w) ==
    /\ Busy(w, "loaded") /\ thread[w].q.op = "delete"
    /\ LET q == thread[w].q  r == thread[w].row
       IN  IF IsShort(r) \/ q.user # Applicant \/ r.mdAp = "Approved" \/ row.state # "live"
           THEN Reject(w)
           ELSE /\ row' = [row EXCEPT !.state = "deleted"]
                /\ thread' = [thread EXCEPT ![w] = Idle]
                /\ sent' = {}
                /\ UNCHANGED <<summary, profile, gone, tally>>
                /\ Remember

-----------------------------------------------------------------------------
(* What else changes the tables meanwhile. *)

\* credit_earn_leaves: one day, as one UPDATE with an F() expression.
CreditEarn == /\ tally.credits < MaxCredits /\ profile.role \notin {"Intern", "NoProfile"}
              /\ summary' = [summary EXCEPT !.earn = @ + 2]
              /\ tally' = [tally EXCEPT !.credits = @ + 2]
              /\ sent' = {}
              /\ UNCHANGED <<row, profile, gone, thread, opened>>

\* The month ends: the summary's short-leave month is no longer the current one.
NextMonth == /\ summary.stamp /\ row.state = "live" /\ IsShort(row)
             /\ summary' = [summary EXCEPT !.stamp = FALSE]
             /\ sent' = {}
             /\ UNCHANGED <<row, profile, gone, thread, opened, tally>>

\* admin/updateProfile names another team lead; the row keeps the old one.
Reassign == /\ profile.role # "NoProfile"
            /\ \E u \in NewLeads \ gone :
                  profile' = [profile EXCEPT !.lead = u]
            /\ sent' = {}
            /\ UNCHANGED <<row, summary, gone, thread, tally>>
            /\ Remember

\* Deleting a user nulls the row's keys to it; members' profiles go with their lead.
DeleteUser == /\ \E u \in Leavers \ gone :
                    /\ gone' = gone \cup {u}
                    /\ row' = [row EXCEPT !.alt = IF @ = u THEN NoOne ELSE @,
                                          !.lead = IF @ = u THEN NoOne ELSE @]
                    /\ profile' = IF profile.lead = u
                                  THEN [role |-> "NoProfile", lead |-> NoOne]
                                  ELSE profile
              /\ sent' = {}
              /\ UNCHANGED <<summary, thread, tally>>
              /\ Remember

Serve(w) == Patch(w) \/ Respond(w) \/ EditHistory(w) \/ Destroy(w)

Next == \/ Create \/ CreditEarn \/ NextMonth \/ Reassign \/ DeleteUser
        \/ \E w \in Workers : \/ \E q \in Requests : Load(w, q)
                              \/ ReadBalance(w) \/ Serve(w)

Spec == Init /\ [][Next]_vars

\* A worker finishes what it has loaded; an approver whose queue keeps showing the
\* application in the end opens it and approves or accepts it.
Attend(u, f) ==
    /\ Queued(f, row, u, Role(u), profile.role)
    /\ \E w \in Workers, q \in Requests :
          q.user = u /\ q.set = [g \in {f} |-> "Approved"] /\ Load(w, q)

FairSpec == /\ Spec
            /\ \A w \in Workers : WF_vars(ReadBalance(w) \/ Serve(w))
            /\ \A p \in Attentive : SF_vars(Attend(p[1], p[2]))

-----------------------------------------------------------------------------
(* Properties. *)

Audience == {"cover", "lead", "hr", "md", "applicant"}

Thread == [pc : {"loaded", "charging"}, q : Requests, row : Row, read : Summary]

\* Every variable keeps to the values its columns, requests and bounds allow; the
\* balances in particular never go below zero, whatever the interleaving of
\* approvals, credits and new months (_consume_casual_earn_unpaid, finalize).
TypeOK == /\ row \in Row
          /\ summary \in Summary
          /\ profile \in [role : Roles, lead : Person]
          /\ gone \subseteq Users
          /\ thread \in [Workers -> Thread \cup {Idle}]
          /\ sent \subseteq Audience
          /\ opened \in BOOLEAN
          /\ tally \in [charges : Nat, units : Nat, approvals : Nat, credits : Nat]

NewlyApproved(f) == row.state = "live" /\ row[f] # "Approved" /\ row'[f] = "Approved"

\* HR and MD approve only an application whose gate - cover person, then team lead -
\* has stood open at some moment before, even when they decide on a stale copy
\* (_regular_leave_hr_blocked, _regular_leave_md_blocked, the short-leave gates).
NoApprovalAheadOfTheGate ==
    [][\A f \in {"hrAp", "mdAp"} : NewlyApproved(f) => opened]_vars

\* While the chain applies, whatever staff have approved stands on the consent of
\* the cover person named now (LeadBlocked, ResetsRails, the draft-edit guards).
CoverConsent ==
    row.state = "live" /\ Sequential(row, profile.role)
        /\ (\E f \in {"tlAp", "hrAp", "mdAp"} : row[f] = "Approved")
    => CoverGateOk(row)

\* An application the MD has approved carries the split of exactly its own length,
\* so balance and application agree after edits, rejections and re-approvals.
ChargedAsApproved ==
    row.state = "live" /\ row.mdAp = "Approved" /\ Chargeable(row)
    => Total(row.split) = DebitUnits(row.kind, row.days)

\* The waterfall runs at most once for each transition of the MD rail to Approved
\* (accounts/signals.py: "debit ... whenever MD_approval transitions to Approved").
OneChargePerApproval == tally.charges <= tally.approvals

\* Every half-day charged or credited is in the balances: none is lost between the
\* read and the save of the LeaveSummary.
BalancesAddUp ==
    summary.casual + summary.earn + tally.units + Summary0.unpaid
        = Summary0.casual + Summary0.earn + tally.credits + summary.unpaid

\* The balances pay for an approved application once, its own length, and nothing else.
ChargedOnce == ChargedAsApproved /\ OneChargePerApproval /\ BalancesAddUp

\* The applicant hears of the final approval exactly when the MD rail becomes Approved
\* (notify_applicant_final_approval; a repeated approval is silent).
FinalNoticeOnApproval ==
    [][sent' # sent /\ "applicant" \in sent' => NewlyApproved("mdAp")]_vars

\* An application the MD has approved is never deleted (destroy, view_history DELETE).
NoDeleteAfterApproval ==
    [][row.state = "live" /\ row'.state = "deleted" => row.mdAp # "Approved"]_vars

DraftChanged == row.state = "live" /\ \E f \in Drafts : row'[f] # row[f]

\* The applicant's edits never land on an application staff have approved.
NoEditAfterStaffApproval ==
    [][DraftChanged /\ gone' = gone => ~StaffGranted(row)]_vars

\* What the MD has approved is announced once, kept and no longer edited.
ApprovedStays == FinalNoticeOnApproval /\ NoDeleteAfterApproval /\ NoEditAfterStaffApproval

\* Undecided: nobody has rejected and the MD has not approved.
Undecided == /\ row.state = "live" /\ row.mdAp # "Approved"
             /\ \A f \in RailNames : row[f] # "Rejected"

\* An undecided application is in the queue of somebody whose approval the server
\* would accept: the queue filter, the authority check and the gates agree.
NeverOrphaned ==
    Undecided => \E u \in Users \ gone, f \in RailNames :
                    /\ Queued(f, row, u, Role(u), profile.role)
                    /\ f \in MayWrite(u, row)
                    /\ ~Refused([g \in {f} |-> "Approved"], u, row)

\* Under workers that serve what they load and approvers who act on what their queue
\* shows, every application is decided in the end.
Decided == row.state = "live" ~> ~Undecided
=============================================================================
