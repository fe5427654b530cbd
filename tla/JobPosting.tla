----------------------------- MODULE JobPosting -----------------------------
(***************************************************************************)
(* One job opening of src/recruitment (models.py, serializers.py, permissions.py, *)
(* views.py): managers file and change it and set the two approvals, its creator    *)
(* alone opens, closes and removes it, and anybody may apply once both have          *)
(* approved it.  Every request loads the opening first and writes afterwards: a       *)
(* change and a removal write the whole row, opening and closing one column.          *)
(***************************************************************************)
EXTENDS Naturals, FiniteSets

CONSTANTS User, Manager,       \* accounts, and those whose role may manage openings
          Creator,             \* who filed it; may have lost the role since
          MaxApps,             \* bound on applications
          Worker, Idle, None

VARIABLES opening,   \* the row, or None before it is filed
          apps,      \* number of JobApplication rows
          jtask,     \* what each worker is doing
          offered    \* history: the opening has accepted applications once

jobVars == <<opening, apps, jtask, offered>>

ApprovalStatus == {"Pending", "Approved", "Rejected"}
JobState == {"Open", "Closed"}
Row == [md : ApprovalStatus, hr : ApprovalStatus, state : JobState, deleted : BOOLEAN]

TypeOK ==
  /\ opening \in Row \cup {None}
  /\ apps \in 0..MaxApps
  /\ offered \in BOOLEAN

Init ==
  /\ opening = None /\ apps = 0
  /\ jtask = [w \in Worker |-> Idle] /\ offered = FALSE

-----------------------------------------------------------------------------

At(w, op) == jtask[w] # Idle /\ jtask[w].op = op
Goes(w, t) == jtask' = [jtask EXCEPT ![w] = t]

Approved(row) == row.md = "Approved" /\ row.hr = "Approved"

\* Mutant of Accepts: either approval is enough.
AcceptsEither(row) == (row.md = "Approved" \/ row.hr = "Approved") /\ row.state = "Open"

\* requirement_accepts_applications
Accepts(row) == Approved(row) /\ row.state = "Open"

Writes(row) ==
  /\ opening' = row
  /\ offered' = (offered \/ (~row.deleted /\ Accepts(row)))

\* get_queryset: whom the opening is there for; applying finds every one not removed.
Finds(u) == opening # None /\ ~opening.deleted /\ (u \in Manager \/ Approved(opening))

\* create: by a manager, who may lose the role afterwards; open, whatever is sent, while
\* the approvals are fields like any other.
File(md, hr) ==
  /\ opening = None
  /\ Writes([md |-> md, hr |-> hr, state |-> "Open", deleted |-> FALSE])
  /\ UNCHANGED <<apps, jtask>>

\* Each request loads the opening it is about, if its caller may have it.
Load(w, u, op) ==
  /\ jtask[w] = Idle
  /\ \/ op = "update" /\ u \in Manager /\ Finds(u)
     \/ op = "destroy" /\ (u \in Manager \/ u = Creator) /\ Finds(u)
     \/ op \in {"open", "close", "remove"} /\ u = Creator /\ Finds(u)
     \/ op \in {"apply", "apply_batch"} /\ opening # None /\ ~opening.deleted
  /\ Goes(w, [op |-> op, by |-> u, copy |-> opening])
  /\ UNCHANGED <<opening, apps, offered>>

\* Mutant of MayState: every manager may.
MayStateAny(u) == TRUE

\* perform_update: only the creator's request may carry job_state.
MayState(u) == u = Creator

\* perform_update, JobOpeningWriteSerializer: the whole copy with what was sent.  It
\* loads the opening again, only to ask for its creator: one removed by then fails the
\* request, one removed right after that is written back.
Update(w) ==
  /\ At(w, "update")
  /\ \/ \E md \in ApprovalStatus, hr \in ApprovalStatus,
           state \in (IF MayState(jtask[w].by) THEN JobState ELSE {jtask[w].copy.state}) :
          Writes([jtask[w].copy EXCEPT !.md = md, !.hr = hr, !.state = state])
     \/ opening.deleted /\ UNCHANGED <<opening, offered>>
  /\ Goes(w, Idle)
  /\ UNCHANGED apps

\* open, close: that column only, and nothing when the copy has it already.
Toggle(w, op, state) ==
  /\ At(w, op)
  /\ IF jtask[w].copy.state = state
     THEN UNCHANGED <<opening, offered>>
     ELSE Writes([opening EXCEPT !.state = state])
  /\ Goes(w, Idle)
  /\ UNCHANGED apps

\* destroy and remove: perform_destroy marks the copy and writes it whole; the
\* applications stay.
Remove(w) ==
  /\ At(w, "destroy") \/ At(w, "remove")
  /\ Writes([jtask[w].copy EXCEPT !.deleted = TRUE])
  /\ Goes(w, Idle)
  /\ UNCHANGED apps

\* apply: JobApplySerializer.validate asks the copy.
Apply(w) ==
  /\ At(w, "apply")
  /\ apps' \in {apps} \cup (IF Accepts(jtask[w].copy) THEN {apps + 1} ELSE {})
  /\ apps' <= MaxApps
  /\ Goes(w, Idle)
  /\ UNCHANGED <<opening, offered>>

\* Mutant of BatchAccepts: a batch is for whoever finds the opening.
BatchAcceptsAny(row) == TRUE

BatchAccepts(row) == Accepts(row)

\* apply_batch: all of them in one transaction, or none.
ApplyBatch(w, n) ==
  /\ At(w, "apply_batch")
  /\ apps' = IF BatchAccepts(jtask[w].copy) THEN apps + n ELSE apps
  /\ apps' <= MaxApps
  /\ Goes(w, Idle)
  /\ UNCHANGED <<opening, offered>>

Next ==
  \/ \E md \in ApprovalStatus, hr \in ApprovalStatus : File(md, hr)
  \/ \E w \in Worker :
       \/ \E u \in User, op \in {"update", "destroy", "open", "close", "remove", "apply", "apply_batch"} :
            Load(w, u, op)
       \/ Update(w) \/ Remove(w) \/ Apply(w)
       \/ Toggle(w, "open", "Open") \/ Toggle(w, "close", "Closed")
       \/ \E n \in 0..MaxApps : ApplyBatch(w, n)

Spec == Init /\ [][Next]_jobVars

-----------------------------------------------------------------------------
(* Properties *)

\* Nobody has applied for an opening that was never approved by both MD and HR while it
\* was open, one by one or in a batch, however changes of it cross the applications
\* (requirement_accepts_applications).
AppliedWhenOffered == apps > 0 => offered

\* A manager who is not the creator never closes or opens it, except by writing back a
\* copy that is older than the creator's change (perform_update, CanToggleJobState).
StateIsTheCreators ==
  [][opening # None /\ opening'.state # opening.state =>
       \E w \in Worker : jtask[w] # Idle /\ jtask'[w] = Idle
                         /\ (jtask[w].by = Creator \/ jtask[w].copy.state = opening'.state)]_jobVars
=============================================================================
