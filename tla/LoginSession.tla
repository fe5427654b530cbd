---------------------------- MODULE LoginSession ----------------------------
(***************************************************************************)
(* One account of src/accounts: how it comes and goes, logging in and out    *)
(* (views.py), and the limit on failed logins (login_rate_limit.py).          *)
(* A login is a synchronous view, so that a process works on one at a time;    *)
(* those of different processes cross between any two statements.              *)
(*                                                                           *)
(* The attempts come from one address, so that the counters of the address     *)
(* and of the user name hold the same.  Redis is up or down throughout.        *)
(***************************************************************************)
EXTENDS Naturals, FiniteSets, FiniteSetsExt

CONSTANTS SessionId,
          Limit,       \* LOGIN_RATE_LIMIT_ATTEMPTS
          MaxPw,       \* bound on changes of the password
          Worker, Idle, None

VARIABLES account,  \* "none", "user" (no profile yet), "full", "gone"
          pw,       \* how often the password has been changed
          sess,     \* sess[i]: the password session i was opened with, or None
          flag,     \* Profile.is_logged_in
          task,     \* the login or logout each process is at
          remote,   \* the counter in Redis, None if there is no key
          local,    \* local[w]: the counter of process w
          tried,    \* history: wrong passwords since the key was made, cleared or set, without
                    \* those that a killed process has not counted
          past      \* history: logins have crossed or a process been killed

loginVars == <<account, pw, sess, flag, task, remote, local, tried, past>>

Live == {i \in SessionId : sess[i] # None}

TypeOK ==
  /\ account \in {"none", "user", "full", "gone"} /\ pw \in 0..MaxPw
  /\ sess \in [SessionId -> 0..MaxPw \cup {None}]
  /\ flag \in BOOLEAN
  /\ remote \in Nat \cup {None} /\ local \in [Worker -> Nat] /\ tried \in Nat
  /\ past \in BOOLEAN
  /\ account # "full" => ~flag

Init ==
  /\ account = "none" /\ pw = 0 /\ flag = FALSE
  /\ sess = [i \in SessionId |-> None]
  /\ task = [w \in Worker |-> Idle]
  /\ remote = None /\ local = [w \in Worker |-> 0] /\ tried = 0
  /\ past = FALSE

-----------------------------------------------------------------------------

At(w, s) == task[w] # Idle /\ task[w].at = s
Goes(w, t) == task' = [task EXCEPT ![w] = t]
AtRest == \A w \in Worker : task[w] = Idle

Begin(w, t) ==
  /\ task[w] = Idle /\ Goes(w, t)
  /\ past' = (past \/ ~AtRest)

AccountSame == UNCHANGED <<account, pw>>
CountersSame == UNCHANGED <<remote, local, tried>>

\* _get_count: the larger of the two.
Count(w) == IF remote = None THEN local[w] ELSE Max({remote, local[w]})

\* is_login_rate_limited, and then authenticate(): good is a right password.
Post(w, good) ==
  /\ Count(w) < Limit
  /\ good => account \in {"user", "full"}
  /\ Begin(w, [at |-> IF good THEN "off" ELSE "failed", pw |-> pw])
  /\ tried' = IF good THEN tried ELSE tried + 1
  /\ UNCHANGED <<sess, flag, remote, local>> /\ AccountSame

(* record_failed_login: the process's counter, then add, incr or set in Redis. *)

FailLocally(w) ==
  /\ At(w, "failed")
  /\ local' = [local EXCEPT ![w] = @ + 1]
  /\ Goes(w, [at |-> "add"])
  /\ UNCHANGED <<sess, flag, remote, tried, past>> /\ AccountSame

AddKey(w) ==
  /\ At(w, "add")
  /\ remote' = IF remote = None THEN 1 ELSE remote
  /\ Goes(w, IF remote = None THEN Idle ELSE [at |-> "incr"])
  /\ UNCHANGED <<sess, flag, local, tried, past>> /\ AccountSame

\* Mutant of Incremented: set to the process's own count plus one.
IncrementedCopy(w) == local[w]

Incremented(w) == remote + 1

IncrKey(w) ==
  /\ At(w, "incr")
  /\ remote' = IF remote = None THEN None ELSE Incremented(w)
  /\ Goes(w, IF remote = None THEN [at |-> "set"] ELSE Idle)
  /\ UNCHANGED <<sess, flag, local, tried, past>> /\ AccountSame

\* The key expired after add() found it: it is set to what the process counts,
\* over whatever others have counted since.
SetKey(w) ==
  /\ At(w, "set")
  /\ remote' = local[w]
  /\ tried' = 0
  /\ Goes(w, Idle)
  /\ UNCHANGED <<sess, flag, local, past>> /\ AccountSame

\* A window of the counter ends.
Expire(w) ==
  /\ local[w] # 0
  /\ local' = [local EXCEPT ![w] = 0]
  /\ UNCHANGED <<sess, flag, task, remote, tried, past>> /\ AccountSame

ExpireKey ==
  /\ remote # None
  /\ remote' = None /\ tried' = 0
  /\ UNCHANGED <<sess, flag, task, local, past>> /\ AccountSame

(* A right password: user_login, _logout_existing_sessions. *)

LogOff(w) ==
  /\ At(w, "off")
  /\ flag' = FALSE
  /\ Goes(w, [at |-> "drop", pw |-> task[w].pw, seen |-> Live])
  /\ UNCHANGED <<sess, past>> /\ AccountSame /\ CountersSame

\* Mutant of Dropped: only sessions of the present password are ended.
DroppedCurrent(seen) == {i \in seen : sess[i] = pw}

Dropped(seen) == seen

Drop(w) ==
  /\ At(w, "drop")
  /\ sess' = [i \in SessionId |-> IF i \in Dropped(task[w].seen) THEN None ELSE sess[i]]
  /\ Goes(w, [at |-> "enter", pw |-> task[w].pw])
  /\ UNCHANGED <<flag, past>> /\ AccountSame /\ CountersSame

\* The counters are cleared and the flag is set; a user without profile has no
\* role, which ends the login with an error and without a session.
Enter(w) ==
  /\ At(w, "enter")
  /\ local' = [local EXCEPT ![w] = 0]
  /\ remote' = None
  /\ tried' = 0
  /\ flag' = (account = "full")
  /\ Goes(w, IF account = "full" THEN [at |-> "store", pw |-> task[w].pw] ELSE Idle)
  /\ UNCHANGED <<sess, past>> /\ AccountSame

Free == {i \in SessionId \ Live : \A v \in Worker : At(v, "drop") => i \notin task[v].seen}

\* The session middleware stores the session with the response.
Store(w) ==
  /\ At(w, "store")
  /\ sess' = IF account = "gone" THEN sess ELSE [sess EXCEPT ![Min(Free)] = task[w].pw]
  /\ Goes(w, Idle)
  /\ UNCHANGED <<flag, past>> /\ AccountSame /\ CountersSame

(* user_logout: the session is looked up, then ended in one transaction. *)

AskLogout(w, i) ==
  /\ sess[i] # None /\ sess[i] = pw /\ account = "full"
  /\ Begin(w, [at |-> "out", id |-> i])
  /\ UNCHANGED <<sess, flag>> /\ AccountSame /\ CountersSame

LogOut(w) ==
  /\ At(w, "out")
  /\ flag' = FALSE
  /\ sess' = [sess EXCEPT ![task[w].id] = None]
  /\ Goes(w, Idle)
  /\ UNCHANGED past /\ AccountSame /\ CountersSame

ExpireSession(i) ==
  /\ sess[i] # None
  /\ sess' = [sess EXCEPT ![i] = None]
  /\ UNCHANGED <<flag, task, past>> /\ AccountSame /\ CountersSame

\* gunicorn kills a process; the one that replaces it counts from nothing.
Kill(w) ==
  /\ task[w] # Idle
  /\ Goes(w, Idle) /\ past' = TRUE
  /\ tried' = IF task[w].at \in {"failed", "add", "incr", "set"} /\ tried > 0 THEN tried - 1 ELSE tried
  /\ local' = [local EXCEPT ![w] = 0]
  /\ UNCHANGED <<sess, flag, remote>> /\ AccountSame

(* The account, by Admin or HR. *)

\* The user row is committed first; a branch, designation or role that does not
\* exist ends the request there, and a repeated one goes on from the user found.
CreateUser ==
  /\ account = "none" /\ account' = "user"
  /\ UNCHANGED <<pw, sess, flag, task, past>> /\ CountersSame

CreateProfile ==
  /\ account = "user" /\ account' = "full"
  /\ UNCHANGED <<pw, sess, flag, task, past>> /\ CountersSame

\* Sessions of the old password stay as rows, and open nothing.
ChangePassword ==
  /\ account \in {"user", "full"} /\ pw < MaxPw
  /\ pw' = pw + 1
  /\ UNCHANGED <<account, sess, flag, task, past>> /\ CountersSame

\* A session of a deleted user is nobody's; who is later given the name is
\* another user.
DeleteUser ==
  /\ account \in {"user", "full"} /\ account' = "gone"
  /\ flag' = FALSE
  /\ sess' = [i \in SessionId |-> None]
  /\ UNCHANGED <<pw, task, past>> /\ CountersSame

Next ==
  \/ CreateUser \/ CreateProfile \/ ChangePassword \/ DeleteUser
  \/ ExpireKey
  \/ \E i \in SessionId : ExpireSession(i)
  \/ \E w \in Worker :
       \/ \E good \in BOOLEAN : Post(w, good)
       \/ FailLocally(w) \/ AddKey(w) \/ IncrKey(w) \/ SetKey(w) \/ Expire(w)
       \/ LogOff(w) \/ Drop(w) \/ Enter(w) \/ Store(w)
       \/ \E i \in SessionId : AskLogout(w, i)
       \/ LogOut(w) \/ Kill(w)

Spec == Init /\ [][Next]_loginVars

-----------------------------------------------------------------------------
(* Properties *)

\* "One device only" (views.py): a user who logs in here and there at once has no
\* more sessions than logins were in progress together; logins that do not cross
\* leave one, and then the profile shows it.
OneDevice ==
  /\ Cardinality(Live) <= Cardinality(Worker)
  /\ AtRest /\ ~past =>
       Cardinality(Live) <= 1 /\ (Live # {} => flag)

\* "Whichever hits the cap first" (login_rate_limit.py): every process tests the
\* counter before the password and counts after it, and yet no more wrong passwords
\* are tried in a window than the limit and one for each other process.
GuessesCapped == tried <= Limit - 1 + Cardinality(Worker)
=============================================================================
