------------------------------ MODULE Records -------------------------------
(***************************************************************************)
(* Eight kinds of rows that requests read, change and save: group calls, 1:1  *)
(* calls, leads, tour advances, tasks, customer entries, openings, office      *)
(* books.  They share no state: a behaviour runs the part that "which" names,  *)
(* the others rest.                                                            *)
(***************************************************************************)
EXTENDS GroupCall, Integers

CONSTANTS Party, CallId, Handler, ProcessOf, MayAge, NoOne,   \* CallLifecycle
          Person, Day, UtcDay, LocalDay, MaxNotes, MaxAcks,   \* ClientLead
          Employee, Money,                                    \* TourAdvance
          Assignee, MaxMessages, LastMonth,                   \* TaskWork
          Viewer, Admin, Price, Payment,                      \* CustomerEntry
          Manager, MaxApps,                                   \* JobPosting
          Expense, Vendor, Category, Month, Amount, Name, Staff,   \* OfficeBooks
          Nothing

VARIABLES which,
          status, caller, callee, shared, stale, missed, prior, creq, lapsed, seen, answered,   \* CallLifecycle
          lead, people, notes, stat, ltask, counted, last, named, lgone,   \* ClientLead
          tour, going, bill, ttask, signed, revived,   \* TourAdvance
          work, assigned, unread, dated, created, wtask, month, said, done, toRead,   \* TaskWork
          panel, cshared, paid, ptask,   \* CustomerEntry
          opening, apps, jtask, offered,   \* JobPosting
          expense, vendors, advance, obill, bills, asset, profile, otask   \* OfficeBooks

I == INSTANCE CallLifecycle WITH User <- Party, Worker <- Handler, req <- creq
L == INSTANCE ClientLead WITH None <- Nothing, User <- Person, task <- ltask, gone <- lgone
T == INSTANCE TourAdvance WITH None <- Nothing, Amount <- Money
W == INSTANCE TaskWork WITH None <- Nothing
C == INSTANCE CustomerEntry WITH None <- Nothing, User <- Viewer, Log <- Payment, shared <- cshared
J == INSTANCE JobPosting WITH None <- Nothing, User <- Person
O == INSTANCE OfficeBooks WITH None <- Nothing, bill <- obill

\* What the module of the 1:1 calls assumes of its constants.
ASSUME CallsAssumption ==
  /\ CallId \subseteq Nat /\ NoOne \notin Party
  /\ ProcessOf \in [Handler -> Handler] /\ MayAge \subseteq CallId
  /\ Idle \notin I!Dialling \cup I!Pushing \cup I!Saving \cup I!Counting \cup I!Sharing

callState == <<status, caller, callee, shared, stale, missed, prior, creq, lapsed, seen, answered>>
leadState == <<lead, people, notes, stat, ltask, counted, last, named, lgone>>
tourState == <<tour, going, bill, ttask, signed, revived>>
workState == <<work, assigned, unread, dated, created, wtask, month, said, done, toRead>>
panelState == <<panel, cshared, paid, ptask>>
jobState == <<opening, apps, jtask, offered>>
booksState == <<expense, vendors, advance, obill, bills, asset, profile, otask>>

\* One part moves, the others rest.
Only(one) ==
  /\ which = one
  /\ IF which = "group" THEN TRUE ELSE UNCHANGED vars
  /\ IF which = "call" THEN TRUE ELSE UNCHANGED callState
  /\ IF which = "lead" THEN TRUE ELSE UNCHANGED leadState
  /\ IF which = "tour" THEN TRUE ELSE UNCHANGED tourState
  /\ IF which = "work" THEN TRUE ELSE UNCHANGED workState
  /\ IF which = "panel" THEN TRUE ELSE UNCHANGED panelState
  /\ IF which = "job" THEN TRUE ELSE UNCHANGED jobState
  /\ IF which = "books" THEN TRUE ELSE UNCHANGED booksState
  /\ UNCHANGED which

RecordsInit ==
  /\ which \in {"group", "call", "lead", "tour", "work", "panel", "job", "books"}
  /\ Init /\ I!Init /\ L!Init /\ T!Init /\ W!Init /\ C!Init /\ J!Init /\ O!Init
  /\ which # "lead" => lead = [linked |-> TRUE, cycle |-> 0]
  /\ which # "panel" => panel = Nothing
  /\ which # "books" => profile = [x \in Name |-> Nothing]

RecordsNext ==
  \/ Only("group") /\ Next
  \/ Only("call")  /\ I!Next
  \/ Only("lead")  /\ L!Next
  \/ Only("tour")  /\ T!Next
  \/ Only("work")  /\ W!Next
  \/ Only("panel") /\ C!Next
  \/ Only("job")   /\ J!Next
  \/ Only("books") /\ O!Next

everything ==
  <<which, vars, callState, leadState, tourState,
    workState, panelState, jobState, booksState>>

RecordsSpec == RecordsInit /\ [][RecordsNext]_everything

(* The properties of the parts.                                            *)

\* Every part keeps its type.
TypesOK ==
  /\ which = "group" => TypeOK
  /\ which = "call"  => I!TypeOK
  /\ which = "lead"  => L!TypeOK
  /\ which = "tour"  => T!TypeOK
  /\ which = "work"  => W!TypeOK
  /\ which = "panel" => C!TypeOK
  /\ which = "job"   => J!TypeOK
  /\ which = "books" => O!TypeOK

\* Served one at a time, 1:1 calls implement their contract.
\* Only a request to stop sharing takes their screen-share flag down.
CallsKeepContract == I!ContractSpec /\ I!ShareStaysUntilStopped

\* An answered call is never filed as missed, and the counter of missed calls is the
\* number of those missed since it was last reset.
MissedCounted == which = "call" => I!AnsweredIsNotMissed /\ I!CounterExact

\* Figures computed from rows agree with them: the ledger of payments, the books.
FiguresAgree ==
  /\ which = "panel" => C!LedgerAgrees
  /\ which = "books" => O!FiguresAgree

\* What was given or recorded is kept: members keep their lead, sales statistics their
\* conversations, an approval its advance, a primary traveller the request, a completion
\* its date, assignees their messages, applicants an opening.
NobodyLoses ==
  /\ which = "lead" => L!ListStands /\ L!SalesCounted
  /\ which = "tour" => T!ApprovedStands /\ T!PrimarySees
  /\ which = "work" => W!CompletionDated /\ W!MessagesNoticed
  /\ which = "job"  => J!AppliedWhenOffered

\* Only its creator opens or closes an opening.
StateIsTheCreators == J!StateIsTheCreators
============================================================================
