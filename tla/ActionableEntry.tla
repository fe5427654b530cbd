-------------------------- MODULE ActionableEntry --------------------------
(***************************************************************************)
(* One actionable entry of src/QuaterlyReports: its row (co-author,         *)
(* approval, final status) and its share chain.  The creator and the        *)
(* co-author load the row, change their copy and save the whole of it; a    *)
(* member of the chain saves one column of his own share row; passing the   *)
(* entry on saves one column and inserts a row.  Each request takes its     *)
(* steps one database statement or a few at a time.                         *)
(***************************************************************************)
EXTENDS Naturals, Sequences, SequencesExt

CONSTANTS User, Creator,
          Md,         \* users whose role is MD
          CoAuthors,  \* who may be named co-author
          Patches,    \* bodies of a PATCH of the entry
          MaxChain,   \* bound on the length of the chain
          MaxEdits,   \* bound on requests nobody is obliged to make
          Idle, None, Same

Status == {"PENDING", "INPROCESS", "COMPLETED"}
Row    == [co : User, approved : BOOLEAN, final : Status]
Patch  == [co : User \cup {Same}, approved : BOOLEAN \cup {Same},
           final : Status \cup {Same}]

Request ==
  [at : {"loaded"}, copy : Row, patch : Patch]
    \cup [at : {"noted"}, copy : Row, signs : BOOLEAN]
    \cup [at : {"written"}, copy : Row, made : BOOLEAN]
    \cup [at : {"working"}, status : Status]
    \cup [at : {"worked"}, news : BOOLEAN]
    \cup [at : {"passing", "marked"}, to : User]

VARIABLES life,     \* "none", "here" or "gone": is the row there
          row,
          chain,    \* the share rows by shared_time
          status,   \* status[u]: individual_status of u's share row
          noted,    \* _pre_save_entry_approved of the process, for this entry
          req,      \* req[u]: u's request in progress
          edits,    \* bound: voluntary requests so far
          told,     \* history: is the news of the last approval / of the end of the
                    \* chain on its way
          signed,   \* history: the creator made the final status COMPLETED
          done,     \* history: users who have ever completed their share
          overlap   \* history: two requests have been in progress at once

entryVars == <<life, row, chain, status, noted, req, edits, told, signed, done, overlap>>

member    == ToSet(chain)
completed == {u \in member : status[u] = "COMPLETED"}
Here      == life = "here"
AtRest    == \A u \in User : req[u] = Idle

EntryTypeOK ==
  /\ life \in {"none", "here", "gone"}
  /\ row \in Row
  /\ chain \in Seq(User) /\ IsInjective(chain) /\ Len(chain) <= MaxChain
  /\ status \in [User -> Status]
  /\ noted \in BOOLEAN \cup {None}
  /\ req \in [User -> Request \cup {Idle}]
  /\ edits \in 0..MaxEdits
  /\ told \in [approved : BOOLEAN, chain : BOOLEAN]
  /\ signed \in BOOLEAN /\ overlap \in BOOLEAN
  /\ done \subseteq User

EntryAt(l) ==
  /\ life = l
  /\ row = [co |-> Creator, approved |-> FALSE, final |-> "PENDING"]
  /\ chain = <<>> /\ status = [u \in User |-> "PENDING"]
  /\ noted = None
  /\ req = [u \in User |-> Idle]
  /\ edits = 0
  /\ told = [approved |-> TRUE, chain |-> TRUE]
  /\ signed = FALSE /\ done = {} /\ overlap = FALSE

EntryInit == EntryAt("none")

Begin(u, r) ==
  /\ req[u] = Idle
  /\ req' = [req EXCEPT ![u] = r]
  /\ overlap' = (overlap \/ \E v \in User \ {u} : req[v] # Idle)

Goes(u, r) == req' = [req EXCEPT ![u] = r] /\ UNCHANGED overlap
Ends(u)    == Goes(u, Idle)

LastIs(u)     == chain # <<>> /\ Last(chain) = u
LastCompleted == chain # <<>> /\ status[Last(chain)] = "COMPLETED"

\* The creator of an entry may give its approval and its final status himself;
\* an unknown share_with is swallowed and leaves the chain empty.
Create ==
  /\ life = "none"
  /\ Creator \notin Md
  /\ life' = "here"
  /\ row' \in [co : CoAuthors, approved : BOOLEAN, final : Status]
  /\ \E c \in {<<>>} \cup {<<u>> : u \in User} : chain' = c
  /\ UNCHANGED <<status, noted, req, edits, told, signed, done, overlap>>

(* The creator's or the co-author's PATCH: load, check, save, tell.        *)

Load(u, p) ==
  /\ Here
  /\ u \in {Creator, row.co}
  /\ Begin(u, [at |-> "loaded", copy |-> row, patch |-> p])
  /\ UNCHANGED <<life, row, chain, status, noted, told, signed, done>>

\* FunctionsEntriesSerializer.update: what of the patch u may set.
Approves(u, r, p) == u = r.co /\ p.approved = TRUE

Applied(u, r, p) ==
  [co       |-> IF p.co = Same THEN r.co ELSE p.co,
   approved |-> IF p.approved # Same /\ u = r.co THEN p.approved ELSE r.approved,
   final    |-> CASE Approves(u, r, p) /\ u # Creator            -> "INPROCESS"
                  [] ~Approves(u, r, p) /\ u = Creator
                       /\ p.final \in {"PENDING", "COMPLETED"}  -> p.final
                  [] OTHER                                       -> r.final]

Signs(u, r, p) == u = Creator /\ ~Approves(u, r, p) /\ p.final = "COMPLETED"

\* The pre_save receiver notes the approval the row has now.
CheckAndNote(u) ==
  LET q == req[u] IN
  /\ q # Idle /\ q.at = "loaded"
  /\ IF Signs(u, q.copy, q.patch) /\ completed # member
     THEN Ends(u) /\ UNCHANGED noted
     ELSE /\ Goes(u, [at    |-> "noted",
                      copy  |-> Applied(u, q.copy, q.patch),
                      signs |-> Signs(u, q.copy, q.patch)])
          /\ noted' = (Here /\ row.approved)
  /\ UNCHANGED <<life, row, chain, status, edits, told, signed, done>>

\* Model.save writes every column, and inserts the row again if it is gone.
Write(u) ==
  LET q == req[u] IN
  /\ q # Idle /\ q.at = "noted"
  /\ row' = q.copy /\ life' = "here"
  /\ Goes(u, [at |-> "written", copy |-> q.copy, made |-> ~Here])
  /\ signed' = (q.copy.final = "COMPLETED" /\ (q.signs \/ signed))
  /\ told' = [told EXCEPT !.approved = @ /\ (q.copy.approved => ~Here \/ row.approved)]
  /\ UNCHANGED <<chain, status, noted, edits, done>>

\* The post_save receivers and the creator's notice; an inserted row is announced as new.
Tell(u) ==
  LET q == req[u] IN
  /\ q # Idle /\ q.at = "written"
  /\ IF q.made THEN UNCHANGED <<noted, told>>
     ELSE /\ noted' = None
          /\ told' = [told EXCEPT !.approved =
                        @ \/ (q.copy.approved /\ noted # TRUE)]
  /\ Ends(u)
  /\ UNCHANGED <<life, row, chain, status, edits, signed, done>>

(* A member of the chain reports on his part.                               *)

\* Mutant of MayReport: the last of the chain alone completes a share.
MayReportLast(u, s) ==
  /\ Here /\ row.approved /\ u \in member
  /\ s = "COMPLETED" => LastIs(u)

MayReport(u, s) ==
  /\ Here /\ row.approved /\ u \in member
  /\ s = "COMPLETED" => LastCompleted \/ LastIs(u)

Report(u, s) ==
  /\ MayReport(u, s)
  /\ Begin(u, [at |-> "working", status |-> s])
  /\ UNCHANGED <<life, row, chain, status, noted, told, signed, done>>

WriteReport(u) ==
  LET q == req[u]
      news == q.status = "COMPLETED" /\ status[u] # "COMPLETED" IN
  /\ q # Idle /\ q.at = "working"
  /\ IF u \notin member THEN Ends(u) /\ UNCHANGED <<status, told, done>>
     ELSE /\ status' = [status EXCEPT ![u] = q.status]
          /\ done' = IF q.status = "COMPLETED" THEN done \cup {u} ELSE done
          /\ told' = [told EXCEPT !.chain = @ /\ ~(news /\ LastIs(u))]
          /\ Goes(u, [at |-> "worked", news |-> news])
  /\ UNCHANGED <<life, row, chain, noted, edits, signed>>

\* Mutant of TellCreator: the notice is left out.
TellNobody(u) ==
  /\ req[u] # Idle /\ req[u].at = "worked"
  /\ Ends(u)
  /\ UNCHANGED <<life, row, chain, status, noted, edits, told, signed, done>>

\* The creator is told if the reporter is, by now, still the last of the chain.
TellCreator(u) ==
  LET q == req[u] IN
  /\ q # Idle /\ q.at = "worked"
  /\ told' = [told EXCEPT !.chain = @ \/ (q.news /\ LastIs(u))]
  /\ Ends(u)
  /\ UNCHANGED <<life, row, chain, status, noted, edits, signed, done>>

(* Passing the entry on.                                                    *)

\* Mutant of PassOn: whether somebody has finished is not asked.
PassOnLate(u, v) ==
  /\ Here
  /\ u \notin Md
  /\ row.final # "COMPLETED"
  /\ u \in member /\ v \notin member
  /\ Len(chain) < MaxChain
  /\ Begin(u, [at |-> "passing", to |-> v])
  /\ UNCHANGED <<life, row, chain, status, noted, told, signed, done>>

PassOn(u, v) ==
  /\ Here
  /\ u \notin Md
  /\ completed = {} /\ row.final # "COMPLETED"
  /\ u \in member /\ v \notin member
  /\ Len(chain) < MaxChain
  /\ Begin(u, [at |-> "passing", to |-> v])
  /\ UNCHANGED <<life, row, chain, status, noted, told, signed, done>>

MarkOwn(u) ==
  LET q == req[u] IN
  /\ q # Idle /\ q.at = "passing"
  /\ IF u \notin member THEN Ends(u) /\ UNCHANGED status
     ELSE /\ status' = [status EXCEPT ![u] = "INPROCESS"]
          /\ Goes(u, [q EXCEPT !.at = "marked"])
  /\ UNCHANGED <<life, row, chain, noted, edits, told, signed, done>>

\* The unique pair (entry, shared_with) and the foreign key refuse the insert.
AddMember(u) ==
  LET q == req[u] IN
  /\ q # Idle /\ q.at = "marked"
  /\ IF ~Here \/ q.to \in member \/ Len(chain) = MaxChain
     THEN UNCHANGED <<chain, status>>
     ELSE /\ chain' = Append(chain, q.to)
          /\ status' = [status EXCEPT ![q.to] = "PENDING"]
  /\ Ends(u)
  /\ UNCHANGED <<life, row, noted, edits, told, signed, done>>

\* Only the creator may delete; the share rows go with the entry.
Delete ==
  /\ Here
  /\ req[Creator] = Idle
  /\ life' = "gone"
  /\ chain' = <<>>
  /\ status' = [u \in User |-> "PENDING"]
  /\ overlap' = (overlap \/ ~AtRest)
  /\ signed' = FALSE
  /\ UNCHANGED <<row, noted, req, told, done>>

Progress(u) ==
  CheckAndNote(u) \/ Write(u) \/ Tell(u) \/ WriteReport(u) \/ TellCreator(u)
    \/ MarkOwn(u) \/ AddMember(u)

Voluntary ==
  /\ edits < MaxEdits
  /\ edits' = edits + 1
  /\ \/ \E u \in User, p \in Patches : Load(u, p)
     \/ \E u \in User, s \in Status : Report(u, s)
     \/ \E u, v \in User : PassOn(u, v)
     \/ Delete

(* What people do of themselves when it is their turn.                      *)
Ask(a, f) == [co |-> Same, approved |-> a, final |-> f]

Approve == ~row.approved /\ Load(row.co, Ask(TRUE, Same))
Finish(u) == u \notin completed /\ Report(u, "COMPLETED")
SignOff == row.approved /\ completed = member /\ row.final # "COMPLETED"
             /\ Load(Creator, Ask(Same, "COMPLETED"))

Dutiful == UNCHANGED edits /\ (Approve \/ SignOff \/ \E u \in User : Finish(u))

EntryNext == Create \/ Dutiful \/ Voluntary \/ \E u \in User : Progress(u)

Fairness ==
  /\ WF_entryVars(Create)
  /\ WF_entryVars(UNCHANGED edits /\ Approve)
  /\ WF_entryVars(UNCHANGED edits /\ SignOff)
  /\ \A u \in User : /\ WF_entryVars(UNCHANGED edits /\ Finish(u))
                     /\ WF_entryVars(Progress(u))

EntrySpec     == EntryInit /\ [][EntryNext]_entryVars
FairEntrySpec == EntrySpec /\ Fairness

(* Properties.                                                              *)

\* The stage of the contract that the row shows.
Stage == IF ~Here THEN life
         ELSE IF row.final # "COMPLETED" THEN "open"
         ELSE IF signed THEN "signed" ELSE "filed"

Contract == INSTANCE ActionableContract
              WITH stage <- Stage, finished <- completed

\* As long as requests have not overlapped, every step of the handlers is a
\* step of the contract: nobody joins a chain in which a part is finished, the
\* sign-off finds every part finished, nothing returns from deletion.
KeepsEntryContract ==
  [][~overlap' => Contract!Next \/ UNCHANGED Contract!vars]_entryVars

\* However the creator's, the co-author's and the members' saves cross, once
\* nothing is in progress an approval that stands has been told, and so has the
\* completion of the last share.  The note that the pre_save receiver leaves in
\* the process is taken by whichever post_save receiver comes first.
NewsArrives ==
  AtRest /\ Here =>
    /\ row.approved /\ ~overlap => told.approved
    /\ LastCompleted => told.chain

\* If people do what is their turn, no crossing of requests leaves the entry
\* where it cannot be completed: in the end it is COMPLETED for good, or gone.
EntryCompleted == <>[](life = "gone" \/ (Here /\ row.final = "COMPLETED"))
============================================================================
