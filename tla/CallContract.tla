---------------------------- MODULE CallContract ----------------------------
(***************************************************************************)
(* What a 1:1 call promises to its two parties (src/Calling/models.py and  *)
(* the life cycle described at the head of src/Calling/views.py), with no  *)
(* word about requests, saves or counters: a call rings at somebody who is *)
(* in no other call, moves along a fixed set of transitions and keeps its  *)
(* two parties for ever.  CallLifecycle is shown to implement it when one  *)
(* request handler runs at a time.                                         *)
(***************************************************************************)
EXTENDS Integers

CONSTANTS User,     \* usernames
          CallId,   \* the keys the Calls table hands out, in order
          NoOne     \* the parties of a row that does not exist yet

ASSUME CallIdAssumption == CallId \subseteq Nat
ASSUME NoOneAssumption == NoOne \notin User

None == "none"      \* the row does not exist yet

Status == {"pending", "accepted", "declined", "ended", "missed"}

Busy == {"pending", "accepted"}

VARIABLES status,   \* status[c]: the status column, None before the INSERT
          caller,   \* caller[c], callee[c]: the two parties
          callee

contractVars == <<status, caller, callee>>

-----------------------------------------------------------------------------

Live(c) == status[c] \in Busy

PartyOf(c, u) == u \in {caller[c], callee[c]}

\* The key the next INSERT gets.
NextKey(c) ==
  /\ status[c] = None
  /\ \A d \in CallId : status[d] = None <=> c <= d

\* Every change of status the handlers of src/Calling/views.py may make.
Transitions ==
  {<<"pending", "accepted">>, <<"pending", "declined">>,
   <<"pending", "missed">>, <<"pending", "ended">>,
   <<"accepted", "ended">>, <<"declined", "ended">>}

ContractInit ==
  /\ status = [c \in CallId |-> None]
  /\ caller = [c \in CallId |-> NoOne]
  /\ callee = [c \in CallId |-> NoOne]

\* u rings v, who is party to no live call.
Ring(u, v, c) ==
  /\ u # v
  /\ NextKey(c)
  /\ \A d \in CallId : Live(d) => ~PartyOf(d, v)
  /\ status' = [status EXCEPT ![c] = "pending"]
  /\ caller' = [caller EXCEPT ![c] = u]
  /\ callee' = [callee EXCEPT ![c] = v]

\* One statement of the database moves the calls of a set, each along a
\* transition of its own (a bulk UPDATE moves several at once).
Move(moved) ==
  /\ \A c \in CallId :
       IF c \in moved THEN <<status[c], status'[c]>> \in Transitions
                      ELSE status'[c] = status[c]
  /\ status' \in [CallId -> Status \cup {None}]
  /\ UNCHANGED <<caller, callee>>

ContractNext ==
  \/ \E u, v \in User, c \in CallId : Ring(u, v, c)
  \/ \E moved \in SUBSET CallId : Move(moved)

ContractSpec == ContractInit /\ [][ContractNext]_contractVars

-----------------------------------------------------------------------------

\* A call is never placed to somebody who is in an earlier live call, as its
\* caller or its callee (the check at src/Calling/views.py:53).
NeverRungWhileBusy ==
  \A c, d \in CallId :
    (c < d /\ Live(c) /\ Live(d)) => ~PartyOf(c, callee[d])

\* A call that is over is never live again, whatever requests are still in
\* flight for it (the PENDING checks of accept and decline).
OverIsOver ==
  [][\A c \in CallId :
       status[c] \in Status \ Busy => status'[c] \in Status \ Busy]_contractVars
=============================================================================
