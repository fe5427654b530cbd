------------------------------ MODULE GroupChat ------------------------------
(***************************************************************************)
(* One group of src/Messaging (views.py, signals.py, chat_ws_utils.py): its   *)
(* row with the participants counter, its members with their counts of unseen  *)
(* messages.  The counter and the rows are changed by separate statements, the  *)
(* counter as part of a save of the whole row as it was loaded; the unseen       *)
(* counts are raised by one UPDATE in the database.                              *)
(***************************************************************************)
EXTENDS Naturals, FiniteSets

CONSTANTS User, Creator, Md,
          MaxPosts,   \* bound on messages
          MaxAsks,    \* bound on additions, removals and renamings
          Worker, Idle, None

VARIABLES group,    \* the participants counter, None where there is no group row
          members,  \* users with a GroupMembers row
          unseen,   \* unseenmessages of each
          task,     \* what each worker is doing
          posts,    \* bound: messages so far
          asks,     \* bound: additions, removals and renamings so far
          since,    \* history: others' messages stored since the member joined or
                    \* marked the group seen, and counted by now
          past      \* history: requests have crossed, or a creation named somebody
                    \* twice or nobody

groupVars == <<group, members, unseen, task, posts, asks, since, past>>

TypeOK ==
  /\ group \in Nat \cup {None}
  /\ members \subseteq User
  /\ unseen \in [User -> Nat] /\ since \in [User -> Nat]
  /\ posts \in 0..MaxPosts /\ asks \in 0..MaxAsks /\ past \in BOOLEAN

Init ==
  /\ group = None /\ members = {} /\ posts = 0 /\ asks = 0 /\ past = FALSE
  /\ unseen = [u \in User |-> 0] /\ since = [u \in User |-> 0]
  /\ task = [w \in Worker |-> Idle]

-----------------------------------------------------------------------------

At(w, op) == task[w] # Idle /\ task[w].op = op
Goes(w, t) == task' = [task EXCEPT ![w] = t]
AtRest == \A w \in Worker : task[w] = Idle

Begin(w, t) ==
  /\ task[w] = Idle /\ group # None /\ asks < MaxAsks
  /\ asks' = asks + 1 /\ Goes(w, t)
  /\ past' = (past \/ ~AtRest)

MessagesSame == UNCHANGED <<unseen, posts, since>>

\* _create_group_sync: the counter is the length of the list.  A name given twice
\* is inserted once, an unknown one ends the request with the members so far.
\* Nobody else knows of the group before it is complete.
Create ==
  /\ group = None /\ members = {} /\ AtRest /\ posts = 0 /\ ~past
  /\ \E names \in SUBSET User, extra \in 0..1 :
       /\ Cardinality(names) + extra >= 1
       /\ \E made \in SUBSET names :
            /\ extra = 0 => made = names
            /\ members' = made
       /\ group' = Cardinality(names) + extra
       /\ past' = (extra = 1)
  /\ UNCHANGED <<task, asks>> /\ MessagesSame

\* add_user: refused for a member, and where there is no member at all.
Add(w, u) ==
  /\ u \notin members /\ members # {}
  /\ Begin(w, [op |-> "add", user |-> u, count |-> group])
  /\ UNCHANGED <<group, members>> /\ MessagesSame

\* A row that is refused, for a member of late or a group that is gone, is taken
\* for inserted.
Insert(w) ==
  /\ At(w, "add")
  /\ LET u == task[w].user IN
       IF group = None \/ u \in members THEN UNCHANGED members /\ MessagesSame
       ELSE /\ members' = members \cup {u}
            /\ unseen' = [unseen EXCEPT ![u] = 0] /\ since' = [since EXCEPT ![u] = 0]
            /\ UNCHANGED posts
  /\ Goes(w, [op |-> "save", count |-> task[w].count + 1])
  /\ UNCHANGED <<group, asks, past>>

\* delete_user: not the creator, no MD, and two have to stay.
Remove(w, u) ==
  /\ u \in members \ ({Creator} \cup Md) /\ group > 2
  /\ Begin(w, [op |-> "remove", user |-> u, count |-> group])
  /\ UNCHANGED <<group, members>> /\ MessagesSame

\* Mutant of AfterRemoval: the counter is left to others.
AfterRemovalSame(count) == count

AfterRemoval(count) == count - 1

DeleteRow(w) ==
  /\ At(w, "remove")
  /\ members' = members \ {task[w].user}
  /\ Goes(w, [op |-> "save", count |-> AfterRemoval(task[w].count)])
  /\ UNCHANGED <<group, asks, past>> /\ MessagesSame

\* update_group: the name or the description of the loaded row.
Rename(w) ==
  /\ Begin(w, [op |-> "save", count |-> group])
  /\ UNCHANGED <<group, members>> /\ MessagesSame

\* save() of the loaded row, the counter included; it makes a deleted group again.
Save(w) ==
  /\ At(w, "save")
  /\ group' = task[w].count
  /\ Goes(w, Idle)
  /\ UNCHANGED <<members, asks, past>> /\ MessagesSame

\* delete_group, by the creator: members and messages go with it.
DeleteGroup ==
  /\ group # None
  /\ group' = None /\ members' = {} /\ past' = TRUE
  /\ UNCHANGED <<task, asks>> /\ MessagesSame

-----------------------------------------------------------------------------
(* Messages *)

\* _post_to_group: the row; the signal has the members' counts raised.
Post(w, u) ==
  /\ task[w] = Idle /\ group # None /\ posts < MaxPosts
  /\ posts' = posts + 1
  /\ Goes(w, [op |-> "raise", by |-> u, after |-> members])
  /\ past' = (past \/ ~AtRest)
  /\ UNCHANGED <<group, members, asks, unseen, since>>

\* Mutant of Raised: a mark instead of a count.
RaisedOnce(now) == 1

\* F("unseenmessages") + 1
Raised(now) == now + 1

Raise(w) ==
  /\ At(w, "raise")
  /\ LET t == task[w]
         others == members \ {t.by} IN
       /\ unseen' = [u \in User |-> IF u \in others THEN Raised(unseen[u]) ELSE unseen[u]]
       /\ since' = [u \in User |-> IF u \in others \cap t.after THEN since[u] + 1 ELSE since[u]]
  /\ Goes(w, Idle)
  /\ UNCHANGED <<group, members, posts, asks, past>>

\* mark_seen_sync: everything so far; what is being posted is not seen yet, though
\* it may be on the screen.
MarkSeen(u) ==
  /\ u \in members
  /\ unseen' = [unseen EXCEPT ![u] = 0] /\ since' = [since EXCEPT ![u] = 0]
  /\ task' = [w \in Worker |-> IF At(w, "raise") THEN [task[w] EXCEPT !.after = @ \ {u}] ELSE task[w]]
  /\ UNCHANGED <<group, members, posts, asks, past>>

Next ==
  \/ Create \/ DeleteGroup
  \/ \E u \in User : MarkSeen(u)
  \/ \E w \in Worker :
       \/ \E u \in User : Add(w, u) \/ Remove(w, u) \/ Post(w, u)
       \/ Insert(w) \/ DeleteRow(w) \/ Rename(w) \/ Save(w) \/ Raise(w)

Spec == Init /\ [][Next]_groupVars

-----------------------------------------------------------------------------
(* Properties *)

\* "There should be at least 2 members in the group" (views.py), by the counter: as
\* long as requests do not cross and creations name whom there is, the counter is
\* the number of the members, and the count that guards a removal is the true one.
MembersCounted == AtRest /\ ~past /\ group # None => group = Cardinality(members)

\* However posts, marks and joins cross, the count of a member is never below the
\* number of others' messages since he last marked the group seen.
NothingMissed == \A u \in members : unseen[u] >= since[u]
=============================================================================
