----------------------------- MODULE Checklist -----------------------------
(***************************************************************************)
(* One project of src/projects_deadline/views.py and the MD's decisions on  *)
(* its checklist items.  A phase keeps its checklist, decisions included,   *)
(* in one JSON column.  A PATCH archives every active phase and makes new   *)
(* ones from the payload, copying the decisions by item id; the MD's        *)
(* request reads a phase, changes one item and writes the column back.      *)
(*                                                                         *)
(* PATCH and DELETE save the project's row, and the transaction of a PATCH  *)
(* holds that row's lock until it commits.  The MD's request takes no lock  *)
(* but the phase's, for one UPDATE.                                         *)
(***************************************************************************)
EXTENDS Naturals, FiniteSets

CONSTANTS Item,       \* ids of checklist items
          Slot,       \* places of a phase in a project (sort_order)
          Worker,
          Payloads,   \* phases a client may send
          MaxRound,   \* bound: times the phases are made
          Idle

Decided == {"Approved", "Incomplete"}
Checked == Decided \cup {"Pending"}
Mark    == Checked \cup {"absent", "open"}

\* What a client may say of an item; "claimed" is checked, and approved by the
\* client's own account.
Asked == {"absent", "open", "done", "claimed"}

Phase == (1..MaxRound) \X Slot
List  == [Item -> Mark]

Request ==
  [at : {"loaded"}]
    \cup [at : {"read"}, prev : List]
    \cup [at : {"archived"}, prev : List, old : SUBSET Phase]
    \cup [at : {"deciding"}, phase : Phase, list : List]

ASSUME ChecklistAssumption ==
  /\ MaxRound \in Nat
  /\ Payloads \subseteq [Slot -> [Item -> Asked]]
  /\ \A q \in Payloads, i \in Item, s, t \in Slot :
       q[s][i] # "absent" /\ q[t][i] # "absent" => s = t
  /\ Idle \notin Request

VARIABLES rounds,    \* how often the phases have been made
          lists,     \* lists[p]: the checklist column of active phase p; no query
                     \* reads an archived one
          archived,  \* the project's own archived column
          req,       \* req[w]
          granted,   \* history: items approved by the MD since last checked
          overlap    \* history: two requests have been in progress at once

table == <<rounds, lists, archived>>
vars  == <<table, req, granted, overlap>>

active == DOMAIN lists

TypeOK ==
  /\ rounds \in 0..MaxRound
  /\ active \subseteq (1..rounds) \X Slot
  /\ lists \in [active -> List]
  /\ archived \in BOOLEAN
  /\ req \in [Worker -> Request \cup {Idle}]
  /\ granted \subseteq Item
  /\ overlap \in BOOLEAN

Empty == [i \in Item |-> "absent"]

\* No project yet, or one from before statuses existed, in one phase; the
\* migration has made its checked items "Approved".
Init ==
  /\ \/ rounds = 0 /\ lists = [p \in {} |-> Empty]
     \/ /\ rounds = 1 /\ MaxRound >= 1
        /\ \E s \in Slot, l \in [Item -> {"absent", "open", "Approved"}] :
              lists = [p \in {<<1, s>>} |-> l]
  /\ archived = FALSE
  /\ req = [w \in Worker |-> Idle]
  /\ granted = {i \in Item : \E p \in active : lists[p][i] = "Approved"}
  /\ overlap = FALSE

Become(w, r) == req' = [req EXCEPT ![w] = r]
At(w, stage) == req[w] # Idle /\ req[w].at = stage

\* The project's row is locked by no other request that has saved it and not
\* committed yet.
RowFree(w) == \A v \in Worker \ {w} : ~At(v, "read") /\ ~At(v, "archived")

\* index_checklist_md_by_id over phases with these lists.
Indexed(ls) ==
  [i \in Item |-> IF \E p \in DOMAIN ls : ls[p][i] # "absent"
                  THEN ls[CHOOSE p \in DOMAIN ls : ls[p][i] # "absent"][i]
                  ELSE "absent"]

\* Mutant of Merge: a new item keeps the status the client claims for it.
MergeClaimed(new, prev) ==
  CASE new \in {"absent", "open"}            -> new
    [] new = "claimed" /\ prev = "absent"    -> "Approved"
    [] new # "absent" /\ prev \in Checked     -> prev
    [] OTHER                                 -> "Pending"

\* Mutant of Merge: an item is stored with what the client says of it.
MergeAsSent(new, prev) == IF prev = "absent" THEN new ELSE prev

\* merge_preserved_md_fields: a checked item that was checked before keeps its
\* status, any other checked item waits for the MD.
Merge(new, prev) ==
  CASE new \in {"absent", "open"}                      -> new
    [] new \in {"done", "claimed"} /\ prev \in Checked -> prev
    [] OTHER                                           -> "Pending"

\* The phases of a payload, made as round n with the decisions in prev.
Made(q, prev, n) ==
  [p \in {n} \X Slot |-> [i \in Item |-> Merge(q[p[2]][i], prev[i])]]

\* checklist_item_counts_for_scoring, of an item of an active phase.
Counts(p, i) == lists[p][i] = "Approved"

\* Items a payload has checked.
Ticks(q) == {i \in Item : \E s \in Slot : q[s][i] \in {"done", "claimed"}}

-----------------------------------------------------------------------------
(* POST projects/ *)

Create(w, q) ==
  /\ req[w] = Idle
  /\ rounds = 0 /\ MaxRound >= 1
  /\ rounds' = 1
  /\ lists' = Made(q, Empty, 1)
  /\ UNCHANGED <<archived, req, granted>>

-----------------------------------------------------------------------------
(* PATCH and DELETE projects/{id}/ *)

\* The project is read, and found not to be archived.
Load(w) ==
  /\ req[w] = Idle
  /\ rounds # 0 /\ ~archived
  /\ Become(w, [at |-> "loaded"])
  /\ UNCHANGED <<table, granted>>

\* Mutant of SaveAndRead: the UPDATE waits for nobody.
SaveAndReadAtOnce(w) ==
  /\ At(w, "loaded")
  /\ Become(w, [at |-> "read", prev |-> Indexed(lists)])
  /\ UNCHANGED <<table, granted>>

\* A PATCH that brings phases: project.save() takes the row's lock, and the
\* active phases are read for the decisions to keep ...
SaveAndRead(w) ==
  /\ At(w, "loaded")
  /\ RowFree(w)
  /\ Become(w, [at |-> "read", prev |-> Indexed(lists)])
  /\ UNCHANGED <<table, granted>>

\* ... whatever is active by then is archived ...
Archive(w) ==
  /\ At(w, "read")
  /\ Become(w, [at |-> "archived", prev |-> req[w].prev, old |-> active])
  /\ UNCHANGED <<table, granted>>

\* The active phases once a PATCH has replaced those in old by made.
Replaced(old, made) ==
  [p \in (active \ old) \cup DOMAIN made |-> IF p \in DOMAIN made THEN made[p] ELSE lists[p]]

\* Mutant of Commit: the decisions are not passed on.
CommitAfresh(w, q) ==
  /\ At(w, "archived")
  /\ rounds < MaxRound
  /\ rounds' = rounds + 1
  /\ lists' = Replaced(req[w].old, Made(q, Empty, rounds + 1))
  /\ archived' = FALSE
  /\ granted' = granted \cap Ticks(q)
  /\ Become(w, Idle)

\* ... and the new phases are made; all of it shows at the commit, with the
\* project's columns as they were loaded.
Commit(w, q) ==
  /\ At(w, "archived")
  /\ rounds < MaxRound
  /\ rounds' = rounds + 1
  /\ lists' = Replaced(req[w].old, Made(q, req[w].prev, rounds + 1))
  /\ archived' = FALSE
  /\ granted' = granted \cap Ticks(q)
  /\ Become(w, Idle)

\* A PATCH without phases saves the project alone, every column of it.
Rename(w) ==
  /\ At(w, "loaded")
  /\ RowFree(w)
  /\ archived' = FALSE
  /\ Become(w, Idle)
  /\ UNCHANGED <<rounds, lists, granted>>

\* DELETE sets the archived column.
Delete(w) ==
  /\ At(w, "loaded")
  /\ RowFree(w)
  /\ archived' = TRUE
  /\ Become(w, Idle)
  /\ UNCHANGED <<rounds, lists, granted>>

-----------------------------------------------------------------------------
(* POST .../phases/{phase_id}/checklist/{index}/md-approval/ *)

\* The MD's request reads an active phase ...
Decide(w, p) ==
  /\ req[w] = Idle
  /\ ~archived /\ p \in active
  /\ Become(w, [at |-> "deciding", phase |-> p, list |-> lists[p]])
  /\ UNCHANGED <<table, granted>>

Overwrite(p, list) ==
  lists' = IF p \in active THEN [lists EXCEPT ![p] = list] ELSE lists

\* Mutant of WriteDecision: an item that is not checked is decided on too.
WriteAnyDecision(w, i, st) ==
  /\ At(w, "deciding")
  /\ \A v \in Worker : At(v, "archived") => req[w].phase \notin req[v].old
  /\ Overwrite(req[w].phase, [req[w].list EXCEPT ![i] = st])
  /\ granted' = IF st = "Approved" /\ req[w].phase \in active
                THEN granted \cup {i} ELSE granted
  /\ Become(w, Idle)
  /\ UNCHANGED <<rounds, archived>>

\* ... decides on a checked item of it, and writes the whole column back, after
\* any PATCH that is archiving the phase.
WriteDecision(w, i, st) ==
  /\ At(w, "deciding")
  /\ req[w].list[i] \in Checked
  /\ \A v \in Worker : At(v, "archived") => req[w].phase \notin req[v].old
  /\ Overwrite(req[w].phase, [req[w].list EXCEPT ![i] = st])
  /\ granted' = IF st = "Approved" /\ req[w].phase \in active
                THEN granted \cup {i} ELSE granted
  /\ Become(w, Idle)
  /\ UNCHANGED <<rounds, archived>>

\* The request fails or its worker dies: its transaction is undone.
Abandon(w) ==
  /\ req[w] # Idle
  /\ Become(w, Idle)
  /\ UNCHANGED <<table, granted>>

-----------------------------------------------------------------------------

Step(w) ==
  \/ \E q \in Payloads : Create(w, q)
  \/ Load(w)
  \/ SaveAndRead(w)
  \/ Archive(w)
  \/ \E q \in Payloads : Commit(w, q)
  \/ Rename(w)
  \/ Delete(w)
  \/ \E p \in active : Decide(w, p)
  \/ \E i \in Item, st \in Decided : WriteDecision(w, i, st)
  \/ Abandon(w)

Overlapping == \E v, w \in Worker : v # w /\ req[v] # Idle /\ req[w] # Idle

Next == \E w \in Worker : Step(w) /\ overlap' = (overlap \/ Overlapping')

Spec == Init /\ [][Next]_vars

-----------------------------------------------------------------------------
(* Properties *)

\* An item is never in two active phases, whatever PATCH requests cross: the
\* lock on the project's row keeps their archiving and making apart
\* (src/projects_deadline/views.py:284-292).  An item that is there twice would be
\* scored twice.
EachItemOnce ==
  \A p, r \in active, i \in Item :
    lists[p][i] # "absent" /\ lists[r][i] # "absent" => p = r

\* "Points are allocated only after Approved" (src/projects_deadline/views.py:329):
\* an item counts for scoring only if the MD has approved it since it was last
\* checked, however edits and decisions cross: a decision on a stale copy of a
\* phase never brings back an approval that an edit has withdrawn.
PointsNeedApproval ==
  \A p \in active, i \in Item : Counts(p, i) => i \in granted

\* What the project says of each item.
Shown == Indexed(lists)

Contract == INSTANCE ChecklistContract WITH decision <- Shown, deleted <- archived

\* As long as requests come one at a time, every step is one the contract allows:
\* "Project PATCH must not change MD approval" (checklist_md_approval.py:154), the
\* last decision is the one shown, and a deleted project stays deleted.
KeepsContract ==
  [][overlap' \/ Contract!ContractNext]_<<Shown, archived>>
=============================================================================
