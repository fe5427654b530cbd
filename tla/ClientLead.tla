----------------------------- MODULE ClientLead -----------------------------
(***************************************************************************)
(* One client lead of src/Clients: its row, its members, its notes, and the  *)
(* sales statistics that a note over a counted channel adds to.  No handler   *)
(* opens a transaction: each statement of a request is a step, and a request   *)
(* that meets an error leaves behind what it has done.  An update reads the     *)
(* row and saves the whole of it at its end.                                   *)
(***************************************************************************)
EXTENDS Naturals, FiniteSets

CONSTANTS User, Creator,
          Day,       \* dates the statistics may have a row for
          UtcDay,    \* the date timezone.now() gives
          LocalDay,  \* the date auto_now_add gives, behind UtcDay only in name:
                     \* they differ from midnight to half past five, Indian time
          MaxNotes, MaxAcks,  \* bounds
          Worker, Idle, None

Lead == [linked : BOOLEAN, cycle : 0..MaxAcks]

VARIABLES lead,     \* the row, None where there is none
          people,   \* the users of its ClientProfileMembers rows
          notes,    \* how many ClientConversation rows it has
          stat,     \* stat[d]: the count of the product's row of day d, or None
          task,     \* what each worker is doing
          counted,  \* history: counted notes that were stored
          last,     \* history: the list of the update that last cleared the members
          named,    \* history: everyone on a list whose update may still add
          gone      \* history: the lead has been deleted

leadVars == <<lead, people, notes, stat, task, counted, last, named, gone>>

TypeOK ==
  /\ lead \in Lead \cup {None}
  /\ people \subseteq User
  /\ notes \in 0..MaxNotes
  /\ stat \in [Day -> Nat \cup {None}]
  /\ counted \in Nat /\ last \subseteq User /\ named \subseteq User /\ gone \in BOOLEAN

Init ==
  /\ lead \in [linked : BOOLEAN, cycle : {0}]
  /\ people = {} /\ notes = 0
  /\ stat = [d \in Day |-> None]
  /\ task = [w \in Worker |-> Idle]
  /\ counted = 0 /\ last = {} /\ named = {} /\ gone = FALSE

-----------------------------------------------------------------------------
(* Helpers *)

\* _user_can_access_profile
MayAccess(u) == lead # None /\ (u = Creator \/ u \in people)

At(w, op)     == task[w] # Idle /\ task[w].op = op
Turn(w, t)    == task' = [task EXCEPT ![w] = t]
Finish(w)     == Turn(w, Idle)
AtRest        == \A w \in Worker : task[w] = Idle
Updating      == {w \in Worker : task[w] # Idle /\ task[w].op \in {"list", "add", "save"}}
StatsSame     == UNCHANGED <<stat, counted>>
ListSame      == UNCHANGED <<people, last, named>>

-----------------------------------------------------------------------------
(* profile_update / _update_profile_sync *)

Update(w, u) ==
  /\ task[w] = Idle /\ MayAccess(u)
  /\ Turn(w, [op |-> "read"])
  /\ UNCHANGED <<lead, notes, gone>> /\ StatsSame /\ ListSame

\* The task that a body with these members, or without a list, goes on to.
Editing(list) ==
  IF list = None THEN [op |-> "save", row |-> lead]
  ELSE [op |-> "list", row |-> lead, list |-> list, left |-> list]

\* Mutant of Started: the members are cleared before the value is looked at.
StartedLate(list, bad) ==
  IF bad /\ list # None THEN [Editing(list) EXCEPT !.left = {}] ELSE Editing(list)

\* A product_value that is no number ends the request before anything is written.
Started(list, bad) == IF bad THEN Idle ELSE Editing(list)

\* The row is read again.
ReadLead(w, list, bad) ==
  /\ At(w, "read")
  /\ Turn(w, IF lead = None THEN Idle ELSE Started(list, bad))
  /\ UNCHANGED <<lead, notes, gone>> /\ StatsSame /\ ListSame

ClearMembers(w) ==
  /\ At(w, "list")
  /\ people' = {}
  /\ last' = task[w].list
  /\ named' = last' \cup IF Updating = {w} THEN {} ELSE named
  /\ Turn(w, [op |-> "add", row |-> task[w].row, left |-> task[w].left])
  /\ UNCHANGED <<lead, notes, gone>> /\ StatsSame

\* One get_or_create per name; without the lead it fails and ends the request.
AddMember(w) ==
  /\ At(w, "add")
  /\ IF task[w].left = {} THEN Turn(w, [op |-> "save", row |-> task[w].row]) /\ UNCHANGED people
     ELSE IF lead = None THEN Finish(w) /\ UNCHANGED people
     ELSE \E u \in task[w].left :
            /\ people' = people \cup {u}
            /\ Turn(w, [task[w] EXCEPT !.left = @ \ {u}])
  /\ UNCHANGED <<lead, notes, gone, last, named>> /\ StatsSame

\* A product text in the body unlinks the product.  save() writes every column of the copy, acknowledgements included, and inserts
\* the row again if it has been deleted.
SaveLead(w, unlink) ==
  /\ At(w, "save")
  /\ lead' = [task[w].row EXCEPT !.linked = @ /\ ~unlink]
  /\ Finish(w)
  /\ UNCHANGED <<notes, gone>> /\ StatsSame /\ ListSame

\* profile_delete: members and notes go with the row.
DeleteLead(u) ==
  /\ MayAccess(u)
  /\ lead' = None /\ people' = {} /\ notes' = 0 /\ gone' = TRUE
  /\ UNCHANGED <<task, last, named>> /\ StatsSame

-----------------------------------------------------------------------------
(* Reminders *)

LoadForAck(w) ==
  /\ task[w] = Idle /\ lead # None /\ lead.cycle < MaxAcks
  /\ Turn(w, [op |-> "ack", cycle |-> lead.cycle])
  /\ UNCHANGED <<lead, notes, gone>> /\ StatsSame /\ ListSame

\* Its own columns only; an error if the row is gone.
SaveAck(w) ==
  /\ At(w, "ack")
  /\ lead' = IF lead = None THEN None ELSE [lead EXCEPT !.cycle = task[w].cycle + 1]
  /\ Finish(w)
  /\ UNCHANGED <<notes, gone>> /\ StatsSame /\ ListSame

-----------------------------------------------------------------------------
(* Notes: conversation_list_create, conversation_update_delete *)

\* counts: the channel given is one of the four that the statistics have.
AddNotes(w, u, n, counts) ==
  /\ task[w] = Idle /\ MayAccess(u) /\ counted < MaxNotes
  /\ Turn(w, [op |-> "note", left |-> n, counts |-> counts /\ lead.linked])
  /\ UNCHANGED <<lead, notes, gone>> /\ StatsSame /\ ListSame

StoreNote(w) ==
  /\ At(w, "note")
  /\ LET t == task[w] IN
       IF lead = None \/ notes = MaxNotes THEN Finish(w) /\ UNCHANGED <<notes, counted>>
       ELSE /\ notes' = notes + 1
            /\ counted' = counted + (IF t.left = 1 /\ t.counts THEN 1 ELSE 0)
            /\ IF t.left > 1 THEN Turn(w, [t EXCEPT !.left = @ - 1])
               ELSE IF t.counts THEN Turn(w, [op |-> "count"])
               ELSE Finish(w)
  /\ UNCHANGED <<lead, gone, stat>> /\ ListSame

\* get_or_create looks for UtcDay, but the row it makes is dated by auto_now_add;
\* where that row is there already the insert is refused, and so is the count.
FindStat(w) ==
  /\ At(w, "count")
  /\ IF stat[UtcDay] # None
     THEN Turn(w, [op |-> "bump", day |-> UtcDay, seen |-> stat[UtcDay]]) /\ UNCHANGED stat
     ELSE IF stat[LocalDay] # None THEN Finish(w) /\ UNCHANGED stat
     ELSE Turn(w, [op |-> "bump", day |-> LocalDay, seen |-> 0]) /\ stat' = [stat EXCEPT ![LocalDay] = 0]
  /\ UNCHANGED <<lead, notes, gone, counted>> /\ ListSame

\* Mutant of Bumped: the count as it was read, plus one.
BumpedCopy(now, seen) == seen + 1

\* F(field) + 1: the database adds.
Bumped(now, seen) == now + 1

BumpStat(w) ==
  /\ At(w, "bump")
  /\ LET d == task[w].day IN stat' = [stat EXCEPT ![d] = Bumped(@, task[w].seen)]
  /\ Finish(w)
  /\ UNCHANGED <<lead, notes, gone, counted>> /\ ListSame

DeleteNote(u) ==
  /\ MayAccess(u) /\ notes > 0
  /\ notes' = notes - 1
  /\ UNCHANGED <<lead, gone, task>> /\ StatsSame /\ ListSame

Next ==
  \/ \E u \in User : DeleteLead(u) \/ DeleteNote(u)
  \/ \E w \in Worker :
       \/ \E u \in User : Update(w, u)
       \/ \E u \in User, n \in 1..2, c \in BOOLEAN : AddNotes(w, u, n, c)
       \/ \E list \in (SUBSET User) \cup {None}, bad \in BOOLEAN : ReadLead(w, list, bad)
       \/ ClearMembers(w) \/ AddMember(w) \/ \E unlink \in BOOLEAN : SaveLead(w, unlink)
       \/ LoadForAck(w) \/ SaveAck(w)
       \/ StoreNote(w) \/ FindStat(w) \/ BumpStat(w)

Spec == Init /\ [][Next]_leadVars

-----------------------------------------------------------------------------
(* Properties *)

Total(d) == IF stat[d] = None THEN 0 ELSE stat[d]

\* "When a conversation is added with a medium ..., increment the corresponding
\* SalesStatistics count for the client's product and today's date" (Clients/
\* views.py): however requests cross, and whatever becomes of the lead or the note,
\* no count of a stored conversation is lost.
SalesCounted == AtRest => Total(LocalDay) = counted

\* Updates that cross may mix their lists, but when all are done everybody on the
\* list that was cleared last is a member, nobody is whom none of the crossing
\* lists named, and a request refused for its value has touched nobody.
ListStands == AtRest /\ ~gone => last \subseteq people /\ people \subseteq named
=============================================================================
