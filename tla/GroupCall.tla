------------------------------ MODULE GroupCall ------------------------------
(***************************************************************************)
(* One group call of src/Calling/views.py: its row, its participants, and   *)
(* what the clients in its channel room are told.  Each handler reads the   *)
(* call and the participant, decides, and writes one column at a time with  *)
(* no transaction; broadcasts to the room come after the writes.  A worker  *)
(* may die between two statements (a deployment, a gunicorn timeout).       *)
(***************************************************************************)
EXTENDS FiniteSets

CONSTANTS User,       \* the people the call may have as participants
          Creator,    \* who starts it
          Worker,     \* threads that run a handler
          Idle

ASSUME CreatorAssumption == Creator \in User

VARIABLES gstatus,    \* the status column, "none" before the INSERT
          gshared,    \* the is_screen_shared column
          part,       \* part[u]: u's participant row, "absent" if there is none
          roster,     \* who is in the call, as a client in the room sees it
          req,        \* req[w]: what worker w is about to do
          past        \* history: has a worker died, have two been at work at once

vars == <<gstatus, gshared, part, roster, req, past>>

PartStatus == {"absent", "invited", "joined", "left"}

Requests ==
  [at : {"joining", "read", "leaving", "left"}, user : User]
    \cup [at : {"sending"}, list : SUBSET User]
    \cup [at : {"closing"}]
    \cup [at : {"sharing"}, flag : BOOLEAN]

ASSUME IdleAssumption == Idle \notin Requests

TypeOK ==
  /\ gstatus \in {"none", "active", "ended"}
  /\ gshared \in BOOLEAN
  /\ part \in [User -> PartStatus]
  /\ roster \subseteq User
  /\ req \in [Worker -> {Idle} \cup Requests]
  /\ past \subseteq {"death", "overlap"}

Joined == {u \in User : part[u] = "joined"}

Init ==
  /\ gstatus = "none"
  /\ gshared = FALSE
  /\ part = [u \in User |-> "absent"]
  /\ roster = {}
  /\ req = [w \in Worker |-> Idle]
  /\ past = {}

Become(w, r) == req' = [req EXCEPT ![w] = r]
At(w, stage) == req[w] # Idle /\ req[w].at = stage

-----------------------------------------------------------------------------
(* initiateGroupCall.  Nobody has the key of the call before the push. *)

Initiate(w, invited) ==
  /\ req[w] = Idle
  /\ gstatus = "none"
  /\ invited # {} /\ Creator \notin invited
  /\ gstatus' = "active"
  /\ part' = [u \in User |-> IF u = Creator THEN "joined"
                             ELSE IF u \in invited THEN "invited" ELSE "absent"]
  /\ roster' = {Creator}
  /\ UNCHANGED <<gshared, req>>

-----------------------------------------------------------------------------
(* joinGroupCall *)

\* Mutant of Join: the status of the call is not looked at.
JoinAny(w, u) ==
  /\ req[w] = Idle
  /\ part[u] \in {"invited", "left"}
  /\ Become(w, [at |-> "joining", user |-> u])
  /\ UNCHANGED <<gstatus, gshared, part, roster>>

\* Active call, a participant who is not in it yet (left counts).
Join(w, u) ==
  /\ req[w] = Idle
  /\ gstatus = "active"
  /\ part[u] \in {"invited", "left"}
  /\ Become(w, [at |-> "joining", user |-> u])
  /\ UNCHANGED <<gstatus, gshared, part, roster>>

WriteJoined(w) ==
  /\ At(w, "joining")
  /\ part' = [part EXCEPT ![req[w].user] = "joined"]
  /\ Become(w, [at |-> "read", user |-> req[w].user])
  /\ UNCHANGED <<gstatus, gshared, roster>>

\* Mutant of ReadRoster: the list as it was before the participant's own save.
ReadRosterBefore(w) ==
  /\ At(w, "read")
  /\ Become(w, [at |-> "sending", list |-> Joined \ {req[w].user}])
  /\ UNCHANGED <<gstatus, gshared, part, roster>>

\* The list of the broadcast is a query of its own ...
ReadRoster(w) ==
  /\ At(w, "read")
  /\ Become(w, [at |-> "sending", list |-> Joined])
  /\ UNCHANGED <<gstatus, gshared, part, roster>>

\* ... and replaces the list the clients have.
SendJoined(w) ==
  /\ At(w, "sending")
  /\ roster' = req[w].list
  /\ Become(w, Idle)
  /\ UNCHANGED <<gstatus, gshared, part>>

-----------------------------------------------------------------------------
(* leaveGroupCall, endGroupCall *)

\* Active call, a participant who has not left.
Leave(w, u) ==
  /\ req[w] = Idle
  /\ gstatus = "active"
  /\ part[u] \in {"invited", "joined"}
  /\ Become(w, [at |-> "leaving", user |-> u])
  /\ UNCHANGED <<gstatus, gshared, part, roster>>

\* Mutant of WriteLeft: a status that is none of STATUS_CHOICES.
WriteEndedPart(w) ==
  /\ At(w, "leaving")
  /\ part' = [part EXCEPT ![req[w].user] = "ended"]
  /\ Become(w, [at |-> "left", user |-> req[w].user])
  /\ UNCHANGED <<gstatus, gshared, roster>>

WriteLeft(w) ==
  /\ At(w, "leaving")
  /\ part' = [part EXCEPT ![req[w].user] = "left"]
  /\ Become(w, [at |-> "left", user |-> req[w].user])
  /\ UNCHANGED <<gstatus, gshared, roster>>

\* Mutant of SendLeft: the creator leaves like everybody else.
SendLeftOnly(w) ==
  /\ At(w, "left")
  /\ roster' = roster \ {req[w].user}
  /\ Become(w, Idle)
  /\ UNCHANGED <<gstatus, gshared, part>>

\* The room is told; a creator who leaves goes on to end the call.
SendLeft(w) ==
  /\ At(w, "left")
  /\ roster' = roster \ {req[w].user}
  /\ IF req[w].user = Creator THEN Become(w, [at |-> "closing"])
                              ELSE Become(w, Idle)
  /\ UNCHANGED <<gstatus, gshared, part>>

\* endGroupCall, by the creator; nothing to do once the call has ended.
End(w) ==
  /\ req[w] = Idle
  /\ gstatus = "active"
  /\ Become(w, [at |-> "closing"])
  /\ UNCHANGED <<gstatus, gshared, part, roster>>

\* The status column alone; the broadcast that follows tells the room.
WriteEnded(w) ==
  /\ At(w, "closing")
  /\ gstatus' = "ended"
  /\ Become(w, Idle)
  /\ UNCHANGED <<gshared, part, roster>>

-----------------------------------------------------------------------------
(* screenShare and stopScreenShare of a group call; a crash *)

\* By anybody who has a participant row, those who left included.
Share(w, on) ==
  /\ req[w] = Idle
  /\ gstatus = "active"
  /\ Become(w, [at |-> "sharing", flag |-> on])
  /\ UNCHANGED <<gstatus, gshared, part, roster>>

\* Mutant of WriteShared: the whole row is saved, as it was read.
WriteRow(w) ==
  /\ At(w, "sharing")
  /\ gshared' = req[w].flag
  /\ gstatus' = "active"
  /\ Become(w, Idle)
  /\ UNCHANGED <<part, roster>>

WriteShared(w) ==
  /\ At(w, "sharing")
  /\ gshared' = req[w].flag
  /\ Become(w, Idle)
  /\ UNCHANGED <<gstatus, part, roster>>

\* The worker dies; what it has written stays, what it had in mind is gone.
Die(w) ==
  /\ req[w] # Idle
  /\ Become(w, Idle)
  /\ UNCHANGED <<gstatus, gshared, part, roster>>

-----------------------------------------------------------------------------

Step(w) ==
  \/ \E invited \in SUBSET User : Initiate(w, invited)
  \/ \E u \in User : Join(w, u)
  \/ WriteJoined(w)
  \/ ReadRoster(w)
  \/ SendJoined(w)
  \/ \E u \in User : Leave(w, u)
  \/ WriteLeft(w)
  \/ SendLeft(w)
  \/ End(w)
  \/ WriteEnded(w)
  \/ \E on \in BOOLEAN : Share(w, on)
  \/ WriteShared(w)

Overlapping == \E v, w \in Worker : v # w /\ req[v] # Idle /\ req[w] # Idle

Next ==
  \E w \in Worker :
    \/ Step(w) /\ past' = past \cup (IF Overlapping' THEN {"overlap"} ELSE {})
    \/ Die(w)  /\ past' = past \cup {"death"}

Spec == Init /\ [][Next]_vars

-----------------------------------------------------------------------------
(* Properties *)

Quiet == \A w \in Worker : req[w] = Idle

\* With one handler at a time, each free to die between any two statements,
\* nobody joins a call that has ended (the ACTIVE check of
\* _join_group_call_sync, src/Calling/views.py:819).
JoinsOnlyActive ==
  [][\A u \in User :
       (part[u] # "joined" /\ part'[u] = "joined" /\ "overlap" \notin past')
         => gstatus # "ended"]_vars

\* Handlers that run to their end, one at a time, leave the clients of the room
\* with the list of the database: every join and leave reaches them.
RosterCurrent ==
  (past = {} /\ Quiet /\ gstatus = "active") => roster = Joined

\* Unless a worker dies, a creator who leaves ends the call for everybody,
\* however the leave interleaves with joins, other leaves and a second click
\* (src/Calling/views.py:915).
CreatorGoneEndsIt ==
  (Quiet /\ part[Creator] = "left" /\ "death" \notin past) => gstatus = "ended"

\* An ended group call stays ended: the handlers that read it active and write
\* later touch their own column only.
EndedForGood == [][gstatus = "ended" => gstatus' = "ended"]_vars
=============================================================================
