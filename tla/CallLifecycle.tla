---------------------------- MODULE CallLifecycle ----------------------------
(***************************************************************************)
(* The 1:1 calls of src/Calling/views.py, one database statement at a      *)
(* time.  A handler runs in a thread of its own (sync_to_async under ASGI, *)
(* several gunicorn processes) and outside any transaction, so between two *)
(* statements of one handler any other handler may run.  accept, decline   *)
(* and end read the row, decide, and write EVERY column back (call.save()) *)
(* with the pre_save and post_save receivers of src/Messaging/signals.py   *)
(* around the UPDATE; screen sharing writes its own column only.           *)
(*                                                                         *)
(* Worker w runs in process ProcessOf[w]; the receivers keep the status a  *)
(* row had before a save in a dictionary of the process (prior).           *)
(***************************************************************************)
EXTENDS CallContract, FiniteSets

CONSTANTS Worker,      \* threads that run a handler
          ProcessOf,   \* the gunicorn process of each worker
          MayAge,      \* calls that may ring for more than three minutes
          Idle         \* a worker without a request

ASSUME ProcessAssumption == ProcessOf \in [Worker -> Worker]
ASSUME MayAgeAssumption == MayAge \subseteq CallId

VARIABLES shared,    \* shared[c]: the is_screen_shared column
          stale,     \* calls whose timestamp is more than three minutes old
          missed,    \* missed[u]: u's row of MissedCallCount
          prior,     \* prior[p][c]: _call_previous_status of process p
          req,       \* req[w]: what worker w has read and is about to do
          lapsed,    \* calls that have ever been MISSED (for the properties)
          seen,      \* lapsed calls their callee has reset since
          answered   \* calls that have ever been ACCEPTED

otherVars == <<shared, stale, missed, prior, lapsed, seen, answered>>
vars == <<contractVars, otherVars, req>>

Process == {ProcessOf[w] : w \in Worker}

\* What a worker holds between two statements.
Dialling == [at : {"expired", "free"}, by : User, to : User]
Pushing  == [at : {"created"}, id : CallId]
Saving   == [at : {"loaded", "stored", "updated"}, id : CallId,
             new : Status, flag : BOOLEAN]
Counting == [at : {"counting"}, id : CallId, count : Nat]
Sharing  == [at : {"sharing"}, id : CallId, flag : BOOLEAN]

ASSUME IdleAssumption ==
  Idle \notin Dialling \cup Pushing \cup Saving \cup Counting \cup Sharing

TypeOK ==
  /\ status \in [CallId -> Status \cup {None}]
  /\ caller \in [CallId -> User \cup {NoOne}]
  /\ callee \in [CallId -> User \cup {NoOne}]
  /\ shared \in [CallId -> BOOLEAN]
  /\ stale \subseteq CallId
  /\ missed \in [User -> Nat]
  /\ prior \in [Process -> [CallId -> Status \cup {None}]]
  /\ req \in [Worker -> {Idle} \cup Dialling \cup Pushing \cup Saving
                               \cup Counting \cup Sharing]
  /\ lapsed \subseteq CallId
  /\ seen \subseteq CallId
  /\ answered \subseteq CallId

Init ==
  /\ ContractInit
  /\ shared = [c \in CallId |-> FALSE]
  /\ stale = {}
  /\ missed = [u \in User |-> 0]
  /\ prior = [p \in Process |-> [c \in CallId |-> None]]
  /\ req = [w \in Worker |-> Idle]
  /\ lapsed = {}
  /\ seen = {}
  /\ answered = {}

-----------------------------------------------------------------------------
(* Steps shared by the handlers. *)

Become(w, r) == req' = [req EXCEPT ![w] = r]

\* Entering a final status by any route, for the properties.
Record(moved, st) ==
  /\ lapsed' = IF st = "missed" THEN lapsed \cup moved ELSE lapsed
  /\ answered' = IF st = "accepted" THEN answered \cup moved ELSE answered

\* A queryset.update(status=st): every matching row at once, no signal.
BulkUpdate(moved, st) ==
  /\ status' = [c \in CallId |-> IF c \in moved THEN st ELSE status[c]]
  /\ Record(moved, st)
  /\ UNCHANGED <<caller, callee, shared, stale, missed, prior, seen>>

\* Mutant of Decide: the handler saves a fresh instance, not the one it read.
DecideAfresh(w, c, st) ==
  Become(w, [at |-> "loaded", id |-> c, new |-> st, flag |-> FALSE])

\* The handler has decided: its instance of row c now says st, and holds the
\* other columns as they were read.
Decide(w, c, st) ==
  Become(w, [at |-> "loaded", id |-> c, new |-> st, flag |-> shared[c]])

-----------------------------------------------------------------------------
(* initiateCall: _initiate_call_sync *)

\* Mutant of Dial: old calls lapse whether or not they were answered.
DialLapsingAll(w, u, v) ==
  /\ req[w] = Idle
  /\ u # v
  /\ LET old == {c \in stale : Live(c) /\ PartyOf(c, v)}
     IN  BulkUpdate(old, "missed")
  /\ Become(w, [at |-> "expired", by |-> u, to |-> v])

\* Ringing calls of the callee that nobody answered for three minutes lapse.
Dial(w, u, v) ==
  /\ req[w] = Idle
  /\ u # v
  /\ LET old == {c \in stale : status[c] = "pending" /\ PartyOf(c, v)}
     IN  BulkUpdate(old, "missed")
  /\ Become(w, [at |-> "expired", by |-> u, to |-> v])

\* Mutant of CheckFree: calls the callee placed are not looked at.
CheckFreeOfIncoming(w) ==
  /\ req[w] # Idle /\ req[w].at = "expired"
  /\ IF \E c \in CallId : Live(c) /\ callee[c] = req[w].to
     THEN Become(w, Idle)
     ELSE Become(w, [req[w] EXCEPT !.at = "free"])
  /\ UNCHANGED <<contractVars, otherVars>>

\* The busy check.  Refused with 409 when the callee is in a live call.
CheckFree(w) ==
  /\ req[w] # Idle /\ req[w].at = "expired"
  /\ IF \E c \in CallId : Live(c) /\ PartyOf(c, req[w].to)
     THEN Become(w, Idle)
     ELSE Become(w, [req[w] EXCEPT !.at = "free"])
  /\ UNCHANGED <<contractVars, otherVars>>

\* The INSERT.  Its receivers have nothing to do: the row had no status before
\* and is not MISSED.
Insert(w, c) ==
  /\ req[w] # Idle /\ req[w].at = "free"
  /\ NextKey(c)
  /\ status' = [status EXCEPT ![c] = "pending"]
  /\ caller' = [caller EXCEPT ![c] = req[w].by]
  /\ callee' = [callee EXCEPT ![c] = req[w].to]
  /\ Become(w, [at |-> "created", id |-> c])
  /\ UNCHANGED otherVars

\* Mutant of Push: the instance is saved without a new status.
PushSavingUnchanged(w) ==
  /\ req[w] # Idle /\ req[w].at = "created"
  /\ \/ Become(w, Idle)
     \/ Become(w, [at |-> "loaded", id |-> req[w].id,
                   new |-> "pending", flag |-> FALSE])
  /\ UNCHANGED <<contractVars, otherVars>>

\* The push to the callee's socket goes through, or the channel layer fails
\* and the handler marks its own instance MISSED.
Push(w) ==
  /\ req[w] # Idle /\ req[w].at = "created"
  /\ \/ Become(w, Idle)
     \/ Become(w, [at |-> "loaded", id |-> req[w].id,
                   new |-> "missed", flag |-> FALSE])
  /\ UNCHANGED <<contractVars, otherVars>>

-----------------------------------------------------------------------------
(* acceptCall, declineCall, endCall *)

\* Mutant of Accept: the status is not looked at.
AcceptAny(w, c) ==
  /\ req[w] = Idle
  /\ status[c] # None
  /\ Decide(w, c, "accepted")
  /\ UNCHANGED <<contractVars, otherVars>>

\* Callee only, PENDING only: the row as it is read.
Accept(w, c) ==
  /\ req[w] = Idle
  /\ status[c] = "pending"
  /\ Decide(w, c, "accepted")
  /\ UNCHANGED <<contractVars, otherVars>>

Decline(w, c) ==
  /\ req[w] = Idle
  /\ status[c] = "pending"
  /\ Decide(w, c, "declined")
  /\ UNCHANGED <<contractVars, otherVars>>

\* Mutant of End: hanging up an answered call files it as missed.
EndAsMissed(w, c) ==
  /\ req[w] = Idle
  /\ status[c] \in {"pending", "accepted", "declined"}
  /\ Decide(w, c, IF status[c] # "declined" THEN "missed" ELSE "ended")
  /\ UNCHANGED <<contractVars, otherVars>>

\* Either party.  ENDED and MISSED answer success and write nothing; a call
\* that still rings becomes MISSED, any other ENDED.
End(w, c) ==
  /\ req[w] = Idle
  /\ status[c] \in {"pending", "accepted", "declined"}
  /\ Decide(w, c, IF status[c] = "pending" THEN "missed" ELSE "ended")
  /\ UNCHANGED <<contractVars, otherVars>>

\* The instance's save(): the pre_save receiver looks the row up again and
\* notes its status in the dictionary of the process ...
PreSave(w) ==
  /\ req[w] # Idle /\ req[w].at = "loaded"
  /\ prior' = [prior EXCEPT ![ProcessOf[w]][req[w].id] = status[req[w].id]]
  /\ Become(w, [req[w] EXCEPT !.at = "stored"])
  /\ UNCHANGED <<contractVars, shared, stale, missed, lapsed, seen, answered>>

\* ... the UPDATE writes every column of the instance ...
WriteRow(w) ==
  /\ req[w] # Idle /\ req[w].at = "stored"
  /\ LET c == req[w].id
     IN  /\ status' = [status EXCEPT ![c] = req[w].new]
         /\ shared' = [shared EXCEPT ![c] = req[w].flag]
         /\ Record({c}, req[w].new)
  /\ Become(w, [req[w] EXCEPT !.at = "updated"])
  /\ UNCHANGED <<caller, callee, stale, missed, prior, seen>>

\* Mutant of PostSave: any save that is not an answer counts.
PostSaveAny(w) ==
  /\ req[w] # Idle /\ req[w].at = "updated"
  /\ LET c == req[w].id
         p == ProcessOf[w]
     IN  /\ prior' = [prior EXCEPT ![p][c] = None]
         /\ IF req[w].new # "accepted" /\ prior[p][c] # "missed"
            THEN Become(w, [at |-> "counting", id |-> c,
                            count |-> missed[callee[c]]])
            ELSE Become(w, Idle)
  /\ UNCHANGED <<contractVars, shared, stale, missed, lapsed, seen, answered>>

\* ... and the post_save receiver pops the note; a call that became MISSED
\* makes it read the callee's counter ...
PostSave(w) ==
  /\ req[w] # Idle /\ req[w].at = "updated"
  /\ LET c == req[w].id
         p == ProcessOf[w]
     IN  /\ prior' = [prior EXCEPT ![p][c] = None]
         /\ IF req[w].new = "missed" /\ prior[p][c] # "missed"
            THEN Become(w, [at |-> "counting", id |-> c,
                            count |-> missed[callee[c]]])
            ELSE Become(w, Idle)
  /\ UNCHANGED <<contractVars, shared, stale, missed, lapsed, seen, answered>>

\* Mutant of WriteCount: one is taken away.
WriteCountDown(w) ==
  /\ req[w] # Idle /\ req[w].at = "counting"
  /\ missed' = [missed EXCEPT ![callee[req[w].id]] = req[w].count - 1]
  /\ Become(w, Idle)
  /\ UNCHANGED <<contractVars, shared, stale, prior, lapsed, seen, answered>>

\* Mutant of WriteCount: the caller's counter goes up.
WriteCountOfCaller(w) ==
  /\ req[w] # Idle /\ req[w].at = "counting"
  /\ missed' = [missed EXCEPT ![caller[req[w].id]] = req[w].count + 1]
  /\ Become(w, Idle)
  /\ UNCHANGED <<contractVars, shared, stale, prior, lapsed, seen, answered>>

\* ... and write it back one higher.
WriteCount(w) ==
  /\ req[w] # Idle /\ req[w].at = "counting"
  /\ missed' = [missed EXCEPT ![callee[req[w].id]] = req[w].count + 1]
  /\ Become(w, Idle)
  /\ UNCHANGED <<contractVars, shared, stale, prior, lapsed, seen, answered>>

-----------------------------------------------------------------------------
(* screenShare, stopScreenShare, endAllMyCalls, resetMissedCallsCount *)

\* A party of a live call starts (or stops) sharing: checked on the row read,
\* then written to is_screen_shared alone.
Share(w, c, on) ==
  /\ req[w] = Idle
  /\ Live(c)
  /\ Become(w, [at |-> "sharing", id |-> c, flag |-> on])
  /\ UNCHANGED <<contractVars, otherVars>>

WriteShared(w) ==
  /\ req[w] # Idle /\ req[w].at = "sharing"
  /\ shared' = [shared EXCEPT ![req[w].id] = req[w].flag]
  /\ Become(w, Idle)
  /\ UNCHANGED <<contractVars, stale, missed, prior, lapsed, seen, answered>>

\* One UPDATE over all live calls of u.
EndAll(w, u) ==
  /\ req[w] = Idle
  /\ LET mine == {c \in CallId : Live(c) /\ PartyOf(c, u)}
     IN  /\ mine # {}
         /\ BulkUpdate(mine, "ended")
  /\ UNCHANGED req

\* One UPDATE of u's counter.
Reset(w, u) ==
  /\ req[w] = Idle
  /\ missed' = [missed EXCEPT ![u] = 0]
  /\ seen' = seen \cup {c \in lapsed : callee[c] = u}
  /\ UNCHANGED <<contractVars, shared, stale, prior, req, lapsed, answered>>

\* Three minutes pass for a call that still rings.
Age(c) ==
  /\ c \in MayAge \ stale
  /\ status[c] = "pending"
  /\ stale' = stale \cup {c}
  /\ UNCHANGED <<contractVars, shared, missed, prior, req, lapsed, seen, answered>>

-----------------------------------------------------------------------------

Step(w) ==
  \/ \E u, v \in User : Dial(w, u, v)
  \/ CheckFree(w)
  \/ \E c \in CallId : Insert(w, c)
  \/ Push(w)
  \/ \E c \in CallId : Accept(w, c)
  \/ \E c \in CallId : Decline(w, c)
  \/ \E c \in CallId : End(w, c)
  \/ PreSave(w)
  \/ WriteRow(w)
  \/ PostSave(w)
  \/ WriteCount(w)
  \/ \E c \in CallId, on \in BOOLEAN : Share(w, c, on)
  \/ WriteShared(w)
  \/ \E u \in User : EndAll(w, u)
  \/ \E u \in User : Reset(w, u)

Next == (\E w \in Worker : Step(w)) \/ (\E c \in CallId : Age(c))

Spec == Init /\ [][Next]_vars

-----------------------------------------------------------------------------
(* Properties *)

Quiet == \A w \in Worker : req[w] = Idle

LapsedFor(u) == {c \in lapsed : callee[c] = u}

\* Between requests the counter a user sees is the number of calls to them
\* that became MISSED since they last reset it (src/Messaging/signals.py:582),
\* as long as no call has rung for three minutes: the bulk UPDATE of initiateCall
\* sends no signal and is not counted.
CounterExact ==
  (Quiet /\ stale = {}) =>
    \A u \in User : missed[u] = Cardinality(LapsedFor(u) \ seen)

\* Nobody is told of a missed call that no call of theirs ever was, at any
\* point of any interleaving.
CountedMeansMissed == \A u \in User : missed[u] > 0 => LapsedFor(u) # {}

\* A call that was picked up is never filed as missed: _end_call_sync does so
\* "if call was never accepted" (src/Calling/views.py:296).
AnsweredIsNotMissed == \A c \in answered : status[c] # "missed"

\* A call rings once: no save, of whatever instance, however old, puts an
\* existing row back to PENDING.
RingsOnce ==
  [][\A c \in CallId :
       status[c] \notin {None, "pending"} => status'[c] \notin {None, "pending"}]_vars

\* Only a request to stop sharing takes the screen-share flag down; a save of
\* another handler leaves it as it is.
ShareStaysUntilStopped ==
  [][\A c \in CallId :
       (shared[c] /\ ~shared'[c]) =>
         \E w \in Worker : req[w] # Idle /\ req[w].at = "sharing" /\ req'[w] = Idle]_vars
=============================================================================
