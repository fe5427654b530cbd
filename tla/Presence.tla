------------------------------- MODULE Presence -------------------------------
(***************************************************************************)
(* Who is online (src/ems/ws_presence.py): one user's counter of open       *)
(* notification sockets, a Redis key with a time to live that connecting    *)
(* and pinging renew.  A connect is one MULTI block; a disconnect is up to  *)
(* three commands (EXISTS, DECR, DELETE).  Presence calls of one process    *)
(* run one after another (thread-sensitive sync_to_async), those of         *)
(* different gunicorn processes interleave.                                 *)
(***************************************************************************)
EXTENDS Integers, FiniteSets

CONSTANTS Socket,      \* tabs and devices of the user
          ProcessOf,   \* the process that serves each socket
          MaxCount,    \* bound of the counter, either way
          Absent       \* no key

VARIABLES n,      \* the counter, Absent when the key does not exist
          ttl,    \* "fresh", "due" to expire, "never" (no expiry on the key)
          sock,   \* sock[s]: closed, open and counted, silent (open, not
                  \* counted), or within disconnect: checked, zero
          past    \* history: what has disturbed the counting so far

state == <<n, ttl, sock>>
vars == <<state, past>>

\* A process killed or without Redis; a counter that expired; a logout; a call
\* of one process between two commands of another's disconnect.
Disturbances == {"failure", "expiry", "logout", "overlap"}

Stages == {"closed", "open", "silent", "checked", "zero"}

TypeOK ==
  /\ n \in Int \cup {Absent}
  /\ ttl \in {"fresh", "due", "never"}
  /\ sock \in [Socket -> Stages]
  /\ past \subseteq Disturbances

Init ==
  /\ n = Absent
  /\ ttl = "never"
  /\ sock = [s \in Socket |-> "closed"]
  /\ past = {}

Goto(s, stage) == sock' = [sock EXCEPT ![s] = stage]

\* No other presence call of the process is between two commands.
ThreadFree(s) ==
  \A t \in Socket \ {s} : ProcessOf[t] = ProcessOf[s] => sock[t] \notin {"checked", "zero"}

-----------------------------------------------------------------------------

\* Mutant of Connect: the time to live is left alone.
ConnectKeepingTtl(s) ==
  /\ sock[s] = "closed" /\ ThreadFree(s)
  /\ n # Absent => n < MaxCount
  /\ n' = IF n = Absent THEN 1 ELSE n + 1
  /\ ttl' = IF n = Absent THEN "never" ELSE ttl
  /\ Goto(s, "open")

\* connect_presence: INCR and EXPIRE together, after accept().
Connect(s) ==
  /\ sock[s] = "closed" /\ ThreadFree(s)
  /\ n # Absent => n < MaxCount
  /\ n' = IF n = Absent THEN 1 ELSE n + 1
  /\ ttl' = "fresh"
  /\ Goto(s, "open")

\* Redis fails: the socket is accepted all the same and not counted.
ConnectSilently(s) ==
  /\ sock[s] = "closed" /\ ThreadFree(s)
  /\ Goto(s, "silent")
  /\ UNCHANGED <<n, ttl>>

\* refresh_presence_ttl, on a ping of the client.
Ping(s) ==
  /\ sock[s] \in {"open", "silent"} /\ ThreadFree(s)
  /\ n # Absent
  /\ ttl' = "fresh"
  /\ UNCHANGED <<n, sock>>

\* Mutant of Leave: nobody is released.
LeaveCounted(s) ==
  /\ sock[s] \in {"open", "silent"} /\ ThreadFree(s)
  /\ Goto(s, "closed")
  /\ UNCHANGED <<n, ttl>>

\* disconnect(): a socket that was never counted only closes; EXISTS for the
\* others.
Leave(s) ==
  /\ sock[s] \in {"open", "silent"} /\ ThreadFree(s)
  /\ Goto(s, IF sock[s] = "silent" \/ n = Absent THEN "closed" ELSE "checked")
  /\ UNCHANGED <<n, ttl>>

\* Mutant of Decrement: a count of one is taken for the last.
DecrementEarly(s) ==
  /\ sock[s] = "checked"
  /\ LET v == (IF n = Absent THEN 0 ELSE n) - 1
     IN  /\ n' = v
         /\ Goto(s, IF v <= 1 THEN "zero" ELSE "closed")
  /\ ttl' = IF n = Absent THEN "never" ELSE ttl

\* DECR: on a key that expired after EXISTS it makes a new one, at -1 and
\* without any expiry.
Decrement(s) ==
  /\ sock[s] = "checked"
  /\ LET v == (IF n = Absent THEN 0 ELSE n) - 1
     IN  /\ n' = v
         /\ Goto(s, IF v <= 0 THEN "zero" ELSE "closed")
  /\ ttl' = IF n = Absent THEN "never" ELSE ttl

\* Mutant of Delete: the key is only marked for a later sweep.
DeleteValue(s) ==
  /\ sock[s] = "zero"
  /\ n' = n
  /\ ttl' = "condemned"
  /\ Goto(s, "closed")

\* DELETE, when DECR answered zero or less.
Delete(s) ==
  /\ sock[s] = "zero"
  /\ n' = Absent
  /\ ttl' = "never"
  /\ Goto(s, "closed")

\* The process is killed, or Redis fails (every exception is swallowed).
Abandon(s) ==
  /\ sock[s] # "closed"
  /\ (sock[s] = "zero" /\ n # Absent) => n > -MaxCount
  /\ Goto(s, "closed")
  /\ UNCHANGED <<n, ttl>>

\* force_presence_offline: another process, at any time.
LogOut ==
  /\ n # Absent
  /\ n' = Absent
  /\ ttl' = "never"
  /\ UNCHANGED sock

\* Time passes without a ping, and then Redis drops the key.
Tick ==
  /\ n # Absent /\ ttl = "fresh"
  /\ ttl' = "due"
  /\ UNCHANGED <<n, sock>>

Expire ==
  /\ n # Absent /\ ttl = "due"
  /\ n' = Absent
  /\ ttl' = "never"
  /\ UNCHANGED sock

-----------------------------------------------------------------------------

Step(s) ==
  \/ Connect(s)
  \/ Ping(s)
  \/ Leave(s)
  \/ Decrement(s)
  \/ Delete(s)

Between == {s \in Socket : sock[s] \in {"checked", "zero"}}

Disturbed(what) == past' = past \cup what

Next ==
  \/ \E s \in Socket :
       \/ Step(s) /\ Disturbed(IF Between \ {s} # {} THEN {"overlap"} ELSE {})
       \/ (ConnectSilently(s) \/ Abandon(s)) /\ Disturbed({"failure"})
  \/ LogOut /\ Disturbed({"logout"})
  \/ Tick   /\ Disturbed({})
  \/ Expire /\ Disturbed({"expiry"})

Spec == Init /\ [][Next]_vars

\* A call that has begun runs on, and time passes.
Fairness ==
  /\ \A s \in Socket : WF_state(Decrement(s) \/ Delete(s))
  /\ WF_state(Tick)
  /\ WF_state(Expire)

FairSpec == Spec /\ Fairness

-----------------------------------------------------------------------------
(* Properties *)

Open  == {s \in Socket : sock[s] = "open"}
Shown == n # Absent /\ n > 0

\* "Multi-tab safe" (src/ems/ws_presence.py:4): as long as nothing fails or
\* expires and no call of another process falls between the commands of a
\* disconnect, the user is shown online exactly while some tab is open, in
\* whatever order tabs open and close.
MultiTabSafe == (past = {} /\ Between = {}) => (Shown <=> Open # {})

\* As long as no process is killed, the counter never counts a socket that is
\* gone: overlapping disconnects, logouts and expiries only ever lose counts,
\* so a user whose tabs are closed is not shown online.
NeverOvercounted ==
  ("failure" \notin past /\ n # Absent)
    => n <= Cardinality({s \in Socket : sock[s] \in {"open", "checked"}})

\* No counter outlives its time: between calls the key has an expiry, also
\* when DECR made it anew.
CounterExpires ==
  ("failure" \notin past /\ Between = {} /\ n # Absent) => ttl # "never"

\* A user whose tabs are all gone is in the end shown offline, even when their
\* processes were killed without a disconnect.
GhostFades == <>[](\A s \in Socket : sock[s] = "closed") => <>[]~Shown
=============================================================================
