------------------------------ MODULE GetCache ------------------------------
(***************************************************************************)
(* The cache of GET responses (src/ems/middleware.py, cache_utils.py,       *)
(* cache_invalidation.py), for one read: a path with its query.  A response *)
(* is filed per user, or once per chat for the two messaging reads.         *)
(* Entries are dropped by the signal of a saved model, for the users that   *)
(* _get_affected_user_ids names, and by the middleware when the mutation    *)
(* answers 2xx, for the user who made it.  Looking up, reading the database *)
(* and filing the response are three steps of a request, and so are         *)
(* writing, the signal and the middleware.                                  *)
(*                                                                         *)
(* The data behind the read is its version: how many mutations it has seen. *)
(***************************************************************************)
EXTENDS Integers

CONSTANTS User,        \* who may make the read
          Worker,
          MaxVersion,  \* bound on the mutations
          Missing,     \* no entry
          Idle

\* What is read: a chat (getMessages, showGroupMembers: one entry for its
\* members), the actionable entries (the one model whose affected users the
\* signal does find), the alerts (open to all), or a list of any other watched
\* model (tasks, calls, profiles, ...).
Kind == {"chat", "entries", "alerts", "list"}

VARIABLES kind,
          version,   \* mutations the database has
          entry,     \* entry[u]: the version filed for u
          req,       \* req[w]
          own,       \* own[u]: version of u's last mutation that has answered
          all,       \* version of the last mutation that has answered
          served,    \* the last GET answered: what it showed, what was due
          overlap    \* history: two requests have been in progress at once

state == <<kind, version, entry, req, own, all, served>>
vars == <<state, overlap>>

Versions == 0..MaxVersion
Reading  == [at : {"miss", "read"}, user : User, got : Versions,
             own : Versions, all : Versions]
Writing  == [at : {"written", "signalled"}, user : User, made : Versions]

TypeOK ==
  /\ kind \in Kind
  /\ version \in Versions
  /\ entry \in [User -> Versions \cup {Missing}]
  /\ req \in [Worker -> {Idle} \cup Reading \cup Writing]
  /\ own \in [User -> Versions]
  /\ all \in Versions
  /\ served \in [got : Versions, own : Versions, all : Versions]
  /\ overlap \in BOOLEAN

Init ==
  /\ kind \in Kind
  /\ version = 0
  /\ entry = [u \in User |-> Missing]
  /\ req = [w \in Worker |-> Idle]
  /\ own = [u \in User |-> 0]
  /\ all = 0
  /\ served = [got |-> 0, own |-> 0, all |-> 0]
  /\ overlap = FALSE

Become(w, q) == req' = [req EXCEPT ![w] = q]
At(w, stage) == req[w] # Idle /\ req[w].at = stage

\* The users whose lookup finds what was filed for u.
SharedWith(u) == IF kind = "chat" THEN User ELSE {u}

File(us, v) == entry' = [u \in User |-> IF u \in us THEN v ELSE entry[u]]

Answer(q) == served' = [got |-> q.got, own |-> q.own, all |-> q.all]

-----------------------------------------------------------------------------
(* GET: process_request, the view, process_response *)

\* A hit is answered from the entry, without the view.
Hit(w, u) ==
  /\ req[w] = Idle
  /\ entry[u] # Missing
  /\ Answer([got |-> entry[u], own |-> own[u], all |-> all])
  /\ UNCHANGED <<kind, version, entry, req, own, all>>

Miss(w, u) ==
  /\ req[w] = Idle
  /\ entry[u] = Missing
  /\ Become(w, [at |-> "miss", user |-> u, got |-> 0, own |-> own[u], all |-> all])
  /\ UNCHANGED <<kind, version, entry, own, all, served>>

\* Mutant of View: an error leaves the response without content.
ViewNothing(w) ==
  /\ At(w, "miss")
  /\ Become(w, [req[w] EXCEPT !.at = "read", !.got = Missing])
  /\ UNCHANGED <<kind, version, entry, own, all, served>>

View(w) ==
  /\ At(w, "miss")
  /\ Become(w, [req[w] EXCEPT !.at = "read", !.got = version])
  /\ UNCHANGED <<kind, version, entry, own, all, served>>

\* The response is filed, whatever was dropped since the lookup, and sent.
Fill(w) ==
  /\ At(w, "read")
  /\ File(SharedWith(req[w].user), req[w].got)
  /\ Answer(req[w])
  /\ Become(w, Idle)
  /\ UNCHANGED <<kind, version, own, all>>

-----------------------------------------------------------------------------
(* POST, PUT, PATCH, DELETE: the save, its signal, process_response *)

Mutate(w, u) ==
  /\ req[w] = Idle
  /\ version < MaxVersion
  /\ version' = version + 1
  /\ Become(w, [at |-> "written", user |-> u, made |-> version + 1])
  /\ UNCHANGED <<kind, entry, own, all, served>>

\* Mutant of Affected: the author alone.
AffectedAuthor(u) == {u}

\* Whose entries the signal drops: everybody's of a chat and of an actionable
\* entry (User stands for those who see it: author, co-author and the users it
\* is shared with), nobody's of another model: _get_affected_user_ids compares
\* app_label.model_name, which is lower case, with "task_management.Task",
\* "Calling.Call" and the like.
Affected(u) == IF kind \in {"chat", "entries"} THEN User ELSE {}

Signal(w) ==
  /\ At(w, "written")
  /\ File(Affected(req[w].user), Missing)
  /\ Become(w, [req[w] EXCEPT !.at = "signalled"])
  /\ UNCHANGED <<kind, version, own, all, served>>

\* The mutation of q has answered.
Acknowledge(q) ==
  /\ own' = [own EXCEPT ![q.user] = IF @ > q.made THEN @ ELSE q.made]
  /\ all' = IF all > q.made THEN all ELSE q.made

\* Mutant of Respond: the middleware drops nothing of the author's.
RespondOnly(w) ==
  /\ At(w, "signalled")
  /\ Acknowledge(req[w])
  /\ Become(w, Idle)
  /\ UNCHANGED <<kind, version, entry, served>>

\* Whose entries the middleware drops: everybody's of the alerts, otherwise the
\* author's own, and the entry of a chat has no user in its key.
DroppedAtEnd(u) ==
  CASE kind = "alerts" -> User
    [] kind = "chat"   -> {}
    [] OTHER           -> {u}

\* The entries below the mutated path go, and then the answer.
Respond(w) ==
  /\ At(w, "signalled")
  /\ File(DroppedAtEnd(req[w].user), Missing)
  /\ Acknowledge(req[w])
  /\ Become(w, Idle)
  /\ UNCHANGED <<kind, version, served>>

\* Mutant of Expire: entries are filed without a timeout.
ExpireNever(u) == FALSE /\ File(SharedWith(u), Missing) /\ UNCHANGED state

\* An entry reaches its timeout (CACHE_GET_TIMEOUT).
Expire(u) ==
  /\ entry[u] # Missing
  /\ File(SharedWith(u), Missing)
  /\ UNCHANGED <<kind, version, req, own, all, served>>

-----------------------------------------------------------------------------

Step(w) ==
  \/ \E u \in User : Hit(w, u)
  \/ \E u \in User : Miss(w, u)
  \/ View(w)
  \/ Fill(w)
  \/ \E u \in User : Mutate(w, u)
  \/ Signal(w)
  \/ Respond(w)

Others(w) == \E v \in Worker \ {w} : req[v] # Idle

Next ==
  \/ \E w \in Worker : Step(w) /\ overlap' = (overlap \/ Others(w))
  \/ \E u \in User : Expire(u) /\ UNCHANGED overlap

Spec == Init /\ [][Next]_vars

\* Requests that have begun run to their end, and every entry has a timeout.
Fairness ==
  /\ \A w \in Worker : WF_state(View(w) \/ Fill(w) \/ Signal(w) \/ Respond(w))
  /\ \A u \in User : WF_state(Expire(u))

FairSpec == Spec /\ Fairness

-----------------------------------------------------------------------------
(* Properties *)

\* "Invalidates cache immediately on POST/PUT/PATCH/DELETE (2xx) so next GET
\* returns fresh data" (src/ems/middleware.py:4): as long as requests come one
\* at a time, a GET that a user sends after their own mutation has answered
\* shows that mutation.
OwnWriteSeen == ~overlap => served.got >= served.own

\* The signal's side (src/ems/cache_invalidation.py:1), one request at a time:
\* where it finds the affected users, a GET sent after anybody's mutation has
\* answered shows it.
SharedWriteSeen == (~overlap /\ kind # "list") => served.got >= served.all

\* The same of every watched model, as models_to_watch has it.
WriteSeen == ~overlap => served.got >= served.all

\* Whatever overlapping requests left behind in the cache, once the mutations
\* stop (MaxVersion) every entry becomes and stays current: the timeout sees to
\* that.
StaleFades == <>[](\A u \in User : entry[u] \in {Missing, version})
=============================================================================
