------------------------------ MODULE TaskWork -------------------------------
(***************************************************************************)
(* One task of src/task_management (models.py, views.py, filters.py,          *)
(* signals.py): its status, the log that its completion date is read from, and  *)
(* the counts of messages its assignees have not seen.  A save writes the row     *)
(* as it was loaded; the signal that follows it writes the log.                     *)
(***************************************************************************)
EXTENDS Naturals, FiniteSets

CONSTANTS Assignee, Creator,
          MaxMessages,   \* bound on messages
          LastMonth,     \* bound on time
          Worker, Idle, None

VARIABLES work,       \* the status of the task, None where there is none
          assigned,   \* users with a TaskAssignies row
          unread,     \* unseen_count of each
          dated,      \* last_edit of the TaskStatusChangeLogs row, None if none
          created,    \* the creator's CreatedTasksCount
          wtask,      \* what each worker is doing
          month,      \* the time
          said,       \* bound: messages so far
          done,       \* history: when the task last became COMPLETED
          toRead      \* history: others' messages since the assignee was shown them

workVars == <<work, assigned, unread, dated, created, wtask, month, said, done, toRead>>

Status == {"PENDING", "INPROCESS", "COMPLETED"}
Made == 2   \* bound on the counter

TypeOK ==
  /\ work \in Status \cup {None} /\ assigned \subseteq Assignee
  /\ unread \in [Assignee -> Nat] /\ toRead \in [Assignee -> Nat]
  /\ dated \in (1..LastMonth) \cup {None} /\ created \in 0..Made
  /\ month \in 1..LastMonth /\ done \in 0..LastMonth /\ said \in 0..MaxMessages

Init ==
  /\ work = None /\ assigned = {} /\ dated = None /\ created = 0
  /\ unread = [a \in Assignee |-> 0] /\ toRead = [a \in Assignee |-> 0]
  /\ wtask = [w \in Worker |-> Idle] /\ month = 1 /\ said = 0 /\ done = 0

-----------------------------------------------------------------------------

At(w, op) == wtask[w] # Idle /\ wtask[w].op = op
Goes(w, t) == wtask' = [wtask EXCEPT ![w] = t]
Begin(w, t) == wtask[w] = Idle /\ work # None /\ Goes(w, t)
Quiet == \A w \in Worker : wtask[w] = Idle

RowSame == UNCHANGED <<work, dated, created, done>>
CountsSame == UNCHANGED <<unread, toRead, said>>

\* _create_task_sync: the row, with its signals, and then the assignees one by one; an
\* unknown name ends the request with those before it.
Create(w, names) ==
  /\ work = None /\ Quiet /\ created < Made
  /\ work' = "PENDING" /\ created' = created + 1
  /\ Goes(w, [op |-> "assign", left |-> names])
  /\ UNCHANGED <<assigned, dated, done, month>> /\ CountsSame

Assign(w) ==
  /\ At(w, "assign")
  /\ IF wtask[w].left = {} \/ work = None
     THEN Goes(w, Idle) /\ UNCHANGED assigned
     ELSE \E a \in wtask[w].left :
            /\ assigned' = assigned \cup {a}
            /\ Goes(w, [wtask[w] EXCEPT !.left = @ \ {a}])
  /\ UNCHANGED month /\ RowSame /\ CountsSame

\* _change_task_status_sync by anybody, and _update_task_sync by the creator, which
\* leaves the status as it was loaded.
Load(w, status) ==
  /\ Begin(w, [op |-> "save", status |-> status])
  /\ UNCHANGED <<assigned, month>> /\ RowSame /\ CountsSame

\* save() of the row; one that is gone is inserted again and counted again.
Save(w) ==
  /\ At(w, "save")
  /\ LET s == wtask[w].status IN
       /\ work = None => created < Made
       /\ work' = s
       /\ created' = IF work = None THEN created + 1 ELSE created
       /\ done' = IF s = "COMPLETED" /\ work # s THEN month ELSE done
       /\ Goes(w, IF s = "COMPLETED" THEN [op |-> "log"] ELSE Idle)
  /\ UNCHANGED <<assigned, dated, month>> /\ CountsSame

\* Mutant of Logged: the row is made once.
LoggedOnce(now) == IF dated = None THEN now ELSE dated

\* update_or_create: last_edit is the time of this save.
Logged(now) == now

\* log_task_status_change_to_completed, after every save of a completed task; for a
\* task that is gone it fails, with a warning.
Log(w) ==
  /\ At(w, "log")
  /\ dated' = IF work = None THEN None ELSE Logged(month)
  /\ Goes(w, Idle)
  /\ UNCHANGED <<work, assigned, created, done, month>> /\ CountsSame

\* delete_task: everything of the task goes, the counter stays.
DeleteTask ==
  /\ work # None
  /\ work' = None /\ assigned' = {} /\ dated' = None
  /\ unread' = [a \in Assignee |-> 0] /\ toRead' = [a \in Assignee |-> 0]
  /\ UNCHANGED <<created, done, wtask, month, said>>

\* refresh_task_count_by_type
Refresh ==
  /\ created' = IF work = None THEN 0 ELSE 1
  /\ UNCHANGED <<work, assigned, unread, dated, wtask, month, said, done, toRead>>

-----------------------------------------------------------------------------
(* Messages *)

\* _post_task_message_sync: the message, then one UPDATE of the counts.
Say(w, u) ==
  /\ Begin(w, [op |-> "raise", by |-> u]) /\ said < MaxMessages
  /\ said' = said + 1
  /\ toRead' = [a \in Assignee |-> IF a \in assigned \ {u} THEN toRead[a] + 1 ELSE toRead[a]]
  /\ UNCHANGED <<assigned, unread, month>> /\ RowSame

Raise(w) ==
  /\ At(w, "raise")
  /\ unread' = [a \in Assignee |-> IF a \in assigned \ {wtask[w].by} THEN unread[a] + 1 ELSE unread[a]]
  /\ Goes(w, Idle)
  /\ UNCHANGED <<assigned, month, said, toRead>> /\ RowSame

\* Mutant of Order: the messages first.
OrderListed == <<"list", "reset">>

\* get_task_messages: the reset, then the query for the messages.
Order == <<"reset", "list">>

Fetch(w, a) ==
  /\ a \in assigned
  /\ Begin(w, [op |-> Order[1], by |-> a])
  /\ UNCHANGED <<assigned, month>> /\ RowSame /\ CountsSame

Follow(w) == Goes(w, IF wtask[w].op = Order[1] THEN [wtask[w] EXCEPT !.op = Order[2]] ELSE Idle)

Reset(w) ==
  /\ At(w, "reset")
  /\ unread' = [unread EXCEPT ![wtask[w].by] = 0]
  /\ Follow(w)
  /\ UNCHANGED <<assigned, month, said, toRead>> /\ RowSame

List(w) ==
  /\ At(w, "list")
  /\ toRead' = [toRead EXCEPT ![wtask[w].by] = 0]
  /\ Follow(w)
  /\ UNCHANGED <<assigned, unread, month, said>> /\ RowSame

\* mark_task_messages_seen: by the word of the client.
MarkSeen(a) ==
  /\ a \in assigned
  /\ unread' = [unread EXCEPT ![a] = 0] /\ toRead' = [toRead EXCEPT ![a] = 0]
  /\ UNCHANGED <<assigned, wtask, month, said>> /\ RowSame

NextMonth ==
  /\ month < LastMonth /\ month' = month + 1
  /\ UNCHANGED <<assigned, wtask>> /\ RowSame /\ CountsSame

Next ==
  \/ DeleteTask \/ Refresh \/ NextMonth
  \/ \E a \in Assignee : MarkSeen(a)
  \/ \E w \in Worker :
       \/ \E names \in SUBSET Assignee : Create(w, names)
       \/ \E status \in Status \cup {work} : Load(w, status)
       \/ \E u \in Assignee \cup {Creator} : Say(w, u)
       \/ \E a \in Assignee : Fetch(w, a)
       \/ Assign(w) \/ Save(w) \/ Log(w) \/ Raise(w)
       \/ Reset(w) \/ List(w)

Spec == Init /\ [][Next]_workVars

-----------------------------------------------------------------------------
(* Properties *)

\* A completed task has a completion date, and it is not the date of an earlier
\* completion, whatever edits and changes of status cross; what reopens a task or is
\* lost in between leaves its log behind (signals.py, _get_completed_at_map).
CompletionDated == Quiet /\ work = "COMPLETED" => dated # None /\ dated >= done

\* No message goes unnoticed: what an assignee has not been shown is on his count,
\* however posting and reading cross (get_task_messages resets before it reads).
MessagesNoticed == Quiet => \A a \in assigned : unread[a] >= toRead[a]
=============================================================================
