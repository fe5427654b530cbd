------------------------------ MODULE Settles ------------------------------
(***************************************************************************)
(* Three parts of which somebody waits for something, online presence, cached *)
(* answers and actionable entries, and 1:1 calls with several handlers at     *)
(* once.  They share no state: a behaviour runs the part that "which" names,  *)
(* the others rest.                                                           *)
(***************************************************************************)
EXTENDS CallLifecycle

CONSTANTS Socket, ServedBy, MaxCount, Absent,             \* Presence
          Reader, Server, MaxVersion, Missing,            \* GetCache
          Colleague, Creator, Md, CoAuthors, Patches, MaxChain, MaxEdits,   \* ActionableEntry
          Nothing, Same

VARIABLES which,
          n, ttl, sock, past,                                     \* Presence
          kind, version, entry, creq, own, all, served, crossed,  \* GetCache
          life, row, chain, state, noted, ereq, edits, told,
          signed, done, overlap                                   \* ActionableEntry

P == INSTANCE Presence WITH ProcessOf <- ServedBy
C == INSTANCE GetCache WITH User <- Reader, Worker <- Server, req <- creq, overlap <- crossed
E == INSTANCE ActionableEntry WITH User <- Colleague, status <- state, req <- ereq, None <- Nothing

presenceVars == <<n, ttl, sock, past>>
cacheVars    == <<kind, version, entry, creq, own, all, served, crossed>>
entryVars    == <<life, row, chain, state, noted, ereq, edits, told, signed, done, overlap>>

\* One part moves, the others rest.
Only(one) ==
  /\ which = one
  /\ IF which = "call"     THEN TRUE ELSE UNCHANGED vars
  /\ IF which = "presence" THEN TRUE ELSE UNCHANGED presenceVars
  /\ IF which = "cache"    THEN TRUE ELSE UNCHANGED cacheVars
  /\ IF which = "entry"    THEN TRUE ELSE UNCHANGED entryVars
  /\ UNCHANGED which

SettlesInit ==
  /\ which \in {"call", "presence", "cache", "entry"}
  /\ Init /\ P!Init /\ C!Init /\ E!EntryAt(IF which = "entry" THEN "none" ELSE "gone")
  /\ which # "cache" => kind = "list"

SettlesNext ==
  \/ Only("call")     /\ Next
  \/ Only("presence") /\ P!Next
  \/ Only("cache")    /\ C!Next
  \/ Only("entry")    /\ E!EntryNext

everything == <<which, vars, presenceVars, cacheVars, entryVars>>

\* The fairness of each part.  A part that rests has no step that its fairness asks for.
SettlesSpec == /\ SettlesInit /\ [][SettlesNext]_everything
               /\ P!Fairness /\ C!Fairness /\ E!Fairness

(* The properties of the parts.                                            *)

\* Every part keeps its type.
TypesOK == TypeOK /\ P!TypeOK /\ C!TypeOK /\ E!EntryTypeOK

\* Presence is multi-tab safe ("Multi-tab safe", src/ems/ws_presence.py:4).
TabsCounted == P!MultiTabSafe /\ P!NeverOvercounted /\ P!CounterExpires

\* A user whose sockets are all gone is in the end shown offline.
GhostFades == P!GhostFades

\* A GET sent after a mutation was answered shows it, wherever the middleware or
\* the signals know whom the mutation affects.
WritesSeen == C!OwnWriteSeen /\ C!SharedWriteSeen

\* What overlapping requests left in the cache goes with its timeout.
StaleFades == C!StaleFades

\* Handlers of an actionable entry served one at a time implement its contract.
KeepsEntryContract == E!KeepsEntryContract

\* The creator hears of the approval and of the completed chain.
NewsArrives == E!NewsArrives

\* If everybody does what is their turn, an entry is completed or deleted.
EntryCompleted == E!EntryCompleted
============================================================================
