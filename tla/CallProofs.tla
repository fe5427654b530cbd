----------------------------- MODULE CallProofs -----------------------------
(***************************************************************************)
(* What holds of the 1:1 calls for any users, keys, workers and processes.  *)
(* First the contract on its own; then what every interleaving of the       *)
(* handlers keeps; last, that handlers running one at a time implement the  *)
(* contract.                                                                 *)
(***************************************************************************)
EXTENDS CallLifecycle, FiniteSetTheorems, TLAPS

-----------------------------------------------------------------------------
(* The contract. *)

ContractType ==
  /\ status \in [CallId -> Status \cup {None}]
  /\ caller \in [CallId -> User \cup {NoOne}]
  /\ callee \in [CallId -> User \cup {NoOne}]

\* A call that is live after a statement is the new one or was live before.
LEMMA RingKeepsOthersFree ==
    ASSUME ContractType, NeverRungWhileBusy,
           NEW u \in User, NEW v \in User, NEW k \in CallId, Ring(u, v, k)
    PROVE  ContractType' /\ NeverRungWhileBusy'
PROOF
<1>1. ContractType'  BY DEF ContractType, Ring, Status
<1>2. ASSUME NEW c \in CallId, NEW d \in CallId, c < d, Live(c)', Live(d)'
      PROVE  ~PartyOf(c, callee[d])'
  <2>0. c \in Nat /\ d \in Nat /\ k \in Nat  BY CallIdAssumption
  <2>1. c # k
    <3> SUFFICES ASSUME c = k PROVE FALSE  OBVIOUS
    <3>1. status[d] = None  BY <1>2, <2>0 DEF Ring, NextKey
    <3>2. status'[d] = None
      BY <1>2, <2>0, <3>1 DEF Ring, ContractType
    <3> QED  BY <1>2, <3>2 DEF Live, Busy, None
  <2>2. /\ status'[c] = status[c]
        /\ caller'[c] = caller[c]
        /\ callee'[c] = callee[c]
    BY <2>1 DEF Ring, ContractType
  <2>3. Live(c)  BY <1>2, <2>2 DEF Live
  <2>4. CASE d = k
    BY <2>2, <2>3, <2>4 DEF Ring, PartyOf, ContractType
  <2>5. CASE d # k
    <3>1. status'[d] = status[d] /\ callee'[d] = callee[d]
      BY <2>5 DEF Ring, ContractType
    <3> QED  BY <1>2, <2>2, <2>3, <3>1 DEF NeverRungWhileBusy, Live, PartyOf
  <2> QED  BY <2>4, <2>5
<1> QED  BY <1>1, <1>2 DEF NeverRungWhileBusy

LEMMA MoveRingsNobody ==
    ASSUME ContractType, NeverRungWhileBusy,
           NEW moved \in SUBSET CallId, Move(moved)
    PROVE  ContractType' /\ NeverRungWhileBusy'
PROOF
<1>1. ContractType'  BY DEF ContractType, Move
<1>2. ASSUME NEW c \in CallId, Live(c)'
      PROVE  Live(c)
  BY <1>2 DEF Move, Live, Busy, Transitions
<1> QED
  BY <1>1, <1>2 DEF NeverRungWhileBusy, PartyOf, Move

\* Under the contract nobody is rung while in an earlier live call.
THEOREM ContractKeepsBusy == ContractSpec => []NeverRungWhileBusy
PROOF
<1>1. ContractInit => ContractType /\ NeverRungWhileBusy
  BY DEF ContractInit, ContractType, NeverRungWhileBusy, Live, Busy, None
<1>2. ContractType /\ NeverRungWhileBusy /\ [ContractNext]_contractVars
        => ContractType' /\ NeverRungWhileBusy'
  <2> SUFFICES ASSUME ContractType, NeverRungWhileBusy,
                      [ContractNext]_contractVars
               PROVE  ContractType' /\ NeverRungWhileBusy'
    OBVIOUS
  <2>1. CASE \E u, v \in User, c \in CallId : Ring(u, v, c)
    BY <2>1, RingKeepsOthersFree
  <2>2. CASE \E moved \in SUBSET CallId : Move(moved)
    BY <2>2, MoveRingsNobody
  <2>3. CASE UNCHANGED contractVars
    BY <2>3 DEF contractVars, ContractType, NeverRungWhileBusy, Live, PartyOf
  <2> QED  BY <2>1, <2>2, <2>3 DEF ContractNext
<1> QED  BY <1>1, <1>2, PTL DEF ContractSpec

\* Under the contract a call that is over stays over.
THEOREM ContractOverIsOver == ContractSpec => OverIsOver
PROOF
<1> DEFINE Stays == \A c \in CallId :
              status[c] \in Status \ Busy => status'[c] \in Status \ Busy
<1>1. ContractInit => ContractType  BY DEF ContractInit, ContractType
<1>2. ContractType /\ [ContractNext]_contractVars => ContractType' /\ Stays
  <2> SUFFICES ASSUME ContractType, [ContractNext]_contractVars
               PROVE  ContractType' /\ Stays
    OBVIOUS
  <2>1. ASSUME NEW u \in User, NEW v \in User, NEW k \in CallId, Ring(u, v, k)
        PROVE  ContractType' /\ Stays
    BY <2>1 DEF ContractType, Ring, NextKey, Status, Busy, None
  <2>2. ASSUME NEW moved \in SUBSET CallId, Move(moved)
        PROVE  ContractType' /\ Stays
    BY <2>2 DEF ContractType, Move, Transitions, Status, Busy
  <2>3. CASE UNCHANGED contractVars
    BY <2>3 DEF contractVars, ContractType
  <2> QED  BY <2>1, <2>2, <2>3 DEF ContractNext
<1>3. ContractType /\ [ContractNext]_contractVars
        => [Stays]_contractVars
  BY <1>2
<1> QED  BY <1>1, <1>2, <1>3, PTL DEF ContractSpec, OverIsOver

-----------------------------------------------------------------------------
(* The handlers, under every interleaving. *)

Request == Dialling \cup Pushing \cup Saving \cup Counting \cup Sharing

\* A row that a handler holds exists, and has two users for parties.
Existing ==
  /\ \A c \in CallId : status[c] # None => caller[c] \in User /\ callee[c] \in User
  /\ \A w \in Worker :
       (req[w] # Idle /\ req[w] \notin Dialling) => status[req[w].id] # None

\* No handler saves an instance that rings.
NothingRingsAgain ==
  \A w \in Worker : (req[w] # Idle /\ req[w] \in Saving) => req[w].new # "pending"

CallInv == TypeOK /\ Existing /\ NothingRingsAgain

\* What a worker holds, by the statement it is at.
LEMMA Holds ==
    ASSUME TypeOK, NEW w \in Worker, req[w] # Idle
    PROVE  /\ req[w].at \in {"expired", "free"} => req[w] \in Dialling
           /\ req[w].at = "created" => req[w] \in Pushing
           /\ req[w].at \in {"loaded", "stored", "updated"} => req[w] \in Saving
           /\ req[w].at = "counting" => req[w] \in Counting
           /\ req[w].at = "sharing" => req[w] \in Sharing
BY DEF TypeOK, Dialling, Pushing, Saving, Counting, Sharing

\* A handler's new state keeps the other workers' as they are.
LEMMA BecomeType ==
    ASSUME TypeOK, NEW w \in Worker, NEW r \in Request \cup {Idle}, Become(w, r)
    PROVE  /\ req' \in [Worker -> {Idle} \cup Request]
           /\ req'[w] = r
           /\ \A v \in Worker \ {w} : req'[v] = req[v]
BY DEF TypeOK, Become, Request

\* What remains to be shown of a step in which worker w goes on to r.
LEMMA GoOn ==
    ASSUME CallInv, NEW w \in Worker, NEW r \in Request \cup {Idle}, Become(w, r),
           \A c \in CallId : status[c] # None => status'[c] # None,
           \A c \in CallId :
              status'[c] # None => caller'[c] \in User /\ callee'[c] \in User,
           (r # Idle /\ r \notin Dialling) => status'[r.id] # None,
           (r # Idle /\ r \in Saving) => r.new # "pending"
    PROVE  /\ req' \in [Worker -> {Idle} \cup Request]
           /\ Existing'
           /\ NothingRingsAgain'
PROOF
<1>1. /\ req' \in [Worker -> {Idle} \cup Request]
      /\ req'[w] = r
      /\ \A v \in Worker \ {w} : req'[v] = req[v]
  BY BecomeType DEF CallInv
<1>2. ASSUME NEW v \in Worker, req'[v] # Idle, req'[v] \notin Dialling
      PROVE  status'[req'[v].id] # None
  <2>1. CASE v = w  BY <1>1, <1>2, <2>1
  <2>2. CASE v # w
    <3>1. req[v] # Idle /\ req[v] \notin Dialling /\ req'[v] = req[v]
      BY <1>1, <1>2, <2>2
    <3>2. req[v] \in Pushing \cup Saving \cup Counting \cup Sharing
      BY <3>1 DEF CallInv, TypeOK
    <3>3. req[v].id \in CallId
      BY <3>2 DEF Pushing, Saving, Counting, Sharing
    <3> QED  BY <3>1, <3>3 DEF CallInv, Existing
  <2> QED  BY <2>1, <2>2
<1>3. ASSUME NEW v \in Worker, req'[v] # Idle, req'[v] \in Saving
      PROVE  req'[v].new # "pending"
  BY <1>1, <1>3 DEF CallInv, NothingRingsAgain
<1> QED  BY <1>1, <1>2, <1>3 DEF Existing, NothingRingsAgain

\* A step after which every worker is where it was.
LEMMA StandStill ==
    ASSUME CallInv, UNCHANGED <<req, caller, callee>>,
           \A c \in CallId : status[c] # None <=> status'[c] # None
    PROVE  Existing' /\ NothingRingsAgain'
PROOF
<1>1. ASSUME NEW v \in Worker, req[v] # Idle, req[v] \notin Dialling
      PROVE  status'[req[v].id] # None
  <2>1. req[v] \in Pushing \cup Saving \cup Counting \cup Sharing
    BY <1>1 DEF CallInv, TypeOK
  <2>2. req[v].id \in CallId
    BY <2>1 DEF Pushing, Saving, Counting, Sharing
  <2> QED  BY <1>1, <2>2 DEF CallInv, Existing
<1> QED  BY <1>1 DEF CallInv, Existing, NothingRingsAgain

\* A bulk UPDATE changes rows that exist.
LEMMA BulkType ==
    ASSUME CallInv, NEW moved \in SUBSET CallId, NEW st \in Status,
           BulkUpdate(moved, st), \A c \in moved : status[c] # None
    PROVE  /\ status' \in [CallId -> Status \cup {None}]
           /\ lapsed' \subseteq CallId /\ answered' \subseteq CallId
           /\ \A c \in CallId : status[c] # None <=> status'[c] # None
BY DEF CallInv, TypeOK, BulkUpdate, Record, Status, None

LEMMA DialKeeps ==
    ASSUME CallInv, NEW w \in Worker, NEW u \in User, NEW v \in User, Dial(w, u, v)
    PROVE  CallInv'
PROOF
<1> DEFINE old == {c \in stale : status[c] = "pending" /\ PartyOf(c, v)}
           r   == [at |-> "expired", by |-> u, to |-> v]
<1>1. old \in SUBSET CallId /\ \A c \in old : status[c] # None
  BY DEF CallInv, TypeOK, None
<1>2. BulkUpdate(old, "missed") /\ Become(w, r)  BY DEF Dial
<1>3. r \in Dialling  BY DEF Dialling
<1> HIDE DEF old, r
<1>4. /\ status' \in [CallId -> Status \cup {None}]
      /\ lapsed' \subseteq CallId /\ answered' \subseteq CallId
      /\ \A c \in CallId : status[c] # None <=> status'[c] # None
  BY <1>1, <1>2, BulkType DEF Status
<1>5. r \notin Saving  BY <1>3 DEF Dialling, Saving
<1>6. UNCHANGED <<caller, callee, shared, stale, missed, prior, seen>>
  BY <1>2 DEF BulkUpdate
<1>7. /\ req' \in [Worker -> {Idle} \cup Request]
      /\ Existing'
      /\ NothingRingsAgain'
  BY <1>2, <1>3, <1>4, <1>5, <1>6, GoOn DEF Request, CallInv, Existing
<1> QED  BY <1>4, <1>6, <1>7 DEF CallInv, TypeOK, Request

LEMMA EndAllKeeps ==
    ASSUME CallInv, NEW w \in Worker, NEW u \in User, EndAll(w, u)
    PROVE  CallInv'
PROOF
<1> DEFINE mine == {c \in CallId : Live(c) /\ PartyOf(c, u)}
<1>1. mine \in SUBSET CallId /\ \A c \in mine : status[c] # None
  BY DEF Live, Busy, None
<1>2. BulkUpdate(mine, "ended") /\ UNCHANGED req  BY DEF EndAll
<1> HIDE DEF mine
<1>3. /\ status' \in [CallId -> Status \cup {None}]
      /\ lapsed' \subseteq CallId /\ answered' \subseteq CallId
      /\ \A c \in CallId : status[c] # None <=> status'[c] # None
  BY <1>1, <1>2, BulkType DEF Status
<1>4. UNCHANGED <<caller, callee, shared, stale, missed, prior, seen>>
  BY <1>2 DEF BulkUpdate
<1>5. Existing' /\ NothingRingsAgain'
  BY <1>2, <1>3, <1>4, StandStill
<1> QED  BY <1>2, <1>3, <1>4, <1>5 DEF CallInv, TypeOK

\* A step that reads: worker w goes on to r and nothing else changes.
LEMMA ReadKeeps ==
    ASSUME CallInv, NEW w \in Worker, NEW r \in Request \cup {Idle}, Become(w, r),
           UNCHANGED <<contractVars, otherVars>>,
           (r # Idle /\ r \notin Dialling) => status[r.id] # None,
           (r # Idle /\ r \in Saving) => r.new # "pending"
    PROVE  CallInv'
PROOF
<1>1. UNCHANGED <<status, caller, callee, shared, stale, missed, prior,
                  lapsed, seen, answered>>
  BY DEF contractVars, otherVars
<1>2. /\ req' \in [Worker -> {Idle} \cup Request]
      /\ Existing'
      /\ NothingRingsAgain'
  BY <1>1, GoOn DEF CallInv, Existing
<1> QED  BY <1>1, <1>2 DEF CallInv, TypeOK, Request

LEMMA CheckFreeKeeps ==
    ASSUME CallInv, NEW w \in Worker, CheckFree(w)
    PROVE  CallInv'
PROOF
<1>1. req[w] \in Dialling  BY Holds DEF CheckFree, CallInv
<1>2. [req[w] EXCEPT !.at = "free"] \in Dialling  BY <1>1 DEF Dialling
<1>3. \A r \in Dialling : r \notin Saving  BY DEF Dialling, Saving
<1>4. PICK r \in Dialling \cup {Idle} : Become(w, r)
  BY <1>2 DEF CheckFree
<1> QED
  BY <1>3, <1>4, ReadKeeps DEF CheckFree, Request

LEMMA InsertKeeps ==
    ASSUME CallInv, NEW w \in Worker, NEW c \in CallId, Insert(w, c)
    PROVE  CallInv'
PROOF
<1> DEFINE r == [at |-> "created", id |-> c]
<1>1. req[w] \in Dialling  BY Holds DEF Insert, CallInv
<1>2. req[w].by \in User /\ req[w].to \in User  BY <1>1 DEF Dialling
<1>3. r \in Pushing /\ r \notin Saving /\ r.id = c  BY DEF Pushing, Saving
<1>4. Become(w, r)  BY DEF Insert
<1> HIDE DEF r
<1>5. /\ status' \in [CallId -> Status \cup {None}]
      /\ caller' \in [CallId -> User \cup {NoOne}]
      /\ callee' \in [CallId -> User \cup {NoOne}]
      /\ status'[c] # None
      /\ \A d \in CallId : status[d] # None => status'[d] # None
      /\ \A d \in CallId : status'[d] # None => caller'[d] \in User /\ callee'[d] \in User
  BY <1>2 DEF Insert, CallInv, TypeOK, Existing, Status, None
<1>6. /\ req' \in [Worker -> {Idle} \cup Request]
      /\ Existing'
      /\ NothingRingsAgain'
  BY <1>3, <1>4, <1>5, GoOn DEF Request
<1> QED  BY <1>5, <1>6 DEF CallInv, TypeOK, Request, Insert, otherVars

\* The instance a handler has decided to save is one of a row that exists.
LEMMA DecidedKeeps ==
    ASSUME CallInv, NEW w \in Worker, NEW c \in CallId, status[c] # None,
           NEW st \in Status \ {"pending"}, NEW f \in BOOLEAN,
           Become(w, [at |-> "loaded", id |-> c, new |-> st, flag |-> f]),
           UNCHANGED <<contractVars, otherVars>>
    PROVE  CallInv'
PROOF
<1> DEFINE r == [at |-> "loaded", id |-> c, new |-> st, flag |-> f]
<1>1. r \in Saving /\ r.id = c /\ r.new # "pending"  BY DEF Saving
<1> HIDE DEF r
<1> QED  BY <1>1, ReadKeeps DEF Request, r

LEMMA IdleKeeps ==
    ASSUME CallInv, NEW w \in Worker, Become(w, Idle),
           UNCHANGED <<contractVars, otherVars>>
    PROVE  CallInv'
BY ReadKeeps

LEMMA PushKeeps ==
    ASSUME CallInv, NEW w \in Worker, Push(w)
    PROVE  CallInv'
PROOF
<1>1. req[w] \in Pushing  BY Holds DEF Push, CallInv
<1>2. req[w].id \in CallId  BY <1>1 DEF Pushing
<1>3. req[w] \notin Dialling  BY <1>1 DEF Pushing, Dialling
<1>4. status[req[w].id] # None  BY <1>3 DEF Push, CallInv, Existing
<1>5. CASE Become(w, Idle)  BY <1>5, IdleKeeps DEF Push
<1>6. CASE Become(w, [at |-> "loaded", id |-> req[w].id,
                      new |-> "missed", flag |-> FALSE])
  BY <1>2, <1>4, <1>6, DecidedKeeps DEF Push, Status
<1> QED  BY <1>5, <1>6 DEF Push

LEMMA DecisionsKeep ==
    ASSUME CallInv, NEW w \in Worker, NEW c \in CallId,
           Accept(w, c) \/ Decline(w, c) \/ End(w, c)
    PROVE  CallInv'
PROOF
<1>1. PICK st \in Status \ {"pending"} : Decide(w, c, st)
  BY DEF Accept, Decline, End, Status
<1>2. status[c] # None  BY DEF Accept, Decline, End, None
<1>3. shared[c] \in BOOLEAN  BY DEF CallInv, TypeOK
<1> QED  BY <1>1, <1>2, <1>3, DecidedKeeps DEF Decide, Accept, Decline, End

LEMMA SharingKeeps ==
    ASSUME CallInv, NEW w \in Worker, NEW c \in CallId, NEW on \in BOOLEAN,
           Share(w, c, on)
    PROVE  CallInv'
PROOF
<1> DEFINE r == [at |-> "sharing", id |-> c, flag |-> on]
<1>1. r \in Sharing /\ r.id = c /\ r \notin Saving  BY DEF Saving, Sharing
<1>2. status[c] # None  BY DEF Share, Live, Busy, None
<1>3. Become(w, r) /\ UNCHANGED <<contractVars, otherVars>>  BY DEF Share
<1> HIDE DEF r
<1> QED  BY <1>1, <1>2, <1>3, ReadKeeps DEF Request

\* A worker that holds an instance: what the instance is of.
LEMMA SavingFacts ==
    ASSUME CallInv, NEW w \in Worker, req[w] # Idle,
           req[w].at \in {"loaded", "stored", "updated"}
    PROVE  /\ req[w] \in Saving
           /\ req[w].id \in CallId /\ req[w].new \in Status \ {"pending"}
           /\ req[w].flag \in BOOLEAN
           /\ status[req[w].id] # None
           /\ caller[req[w].id] \in User /\ callee[req[w].id] \in User
PROOF
<1>1. req[w] \in Saving  BY Holds DEF CallInv
<1>2. /\ req[w].id \in CallId /\ req[w].new \in Status
      /\ req[w].flag \in BOOLEAN
  BY <1>1 DEF Saving
<1>3. req[w] \notin Dialling  BY <1>1 DEF Saving, Dialling
<1> QED  BY <1>1, <1>2, <1>3 DEF CallInv, Existing, NothingRingsAgain

LEMMA PreSaveKeeps ==
    ASSUME CallInv, NEW w \in Worker, PreSave(w)
    PROVE  CallInv'
PROOF
<1> DEFINE r == [req[w] EXCEPT !.at = "stored"]
<1>1. /\ req[w] \in Saving
      /\ req[w].id \in CallId /\ req[w].new \in Status \ {"pending"}
      /\ status[req[w].id] # None
  BY SavingFacts DEF PreSave
<1>2. r \in Saving /\ r.id = req[w].id /\ r.new = req[w].new
  BY <1>1 DEF Saving
<1>3. Become(w, r)  BY DEF PreSave
<1> HIDE DEF r
<1>4. UNCHANGED <<status, caller, callee, shared, stale, missed, lapsed, seen, answered>>
  BY DEF PreSave, contractVars
<1>5. /\ req' \in [Worker -> {Idle} \cup Request]
      /\ Existing'
      /\ NothingRingsAgain'
  BY <1>1, <1>2, <1>3, <1>4, GoOn DEF Request, CallInv, Existing
<1>6. prior' \in [Process -> [CallId -> Status \cup {None}]]
  <2>1. status[req[w].id] \in Status \cup {None}  BY <1>1 DEF CallInv, TypeOK
  <2>2. prior \in [Process -> [CallId -> Status \cup {None}]]  BY DEF CallInv, TypeOK
  <2> QED  BY <2>1, <2>2 DEF PreSave
<1> QED  BY <1>4, <1>5, <1>6 DEF CallInv, TypeOK, Request

LEMMA WriteRowKeeps ==
    ASSUME CallInv, NEW w \in Worker, WriteRow(w)
    PROVE  CallInv'
PROOF
<1> DEFINE r == [req[w] EXCEPT !.at = "updated"]
<1>1. /\ req[w] \in Saving
      /\ req[w].id \in CallId /\ req[w].new \in Status \ {"pending"}
      /\ req[w].flag \in BOOLEAN
      /\ status[req[w].id] # None
      /\ caller[req[w].id] \in User /\ callee[req[w].id] \in User
  BY SavingFacts DEF WriteRow
<1>2. r \in Saving /\ r.id = req[w].id /\ r.new = req[w].new
  BY <1>1 DEF Saving
<1>3. Become(w, r)  BY DEF WriteRow
<1> HIDE DEF r
<1>4. /\ status' \in [CallId -> Status \cup {None}]
      /\ shared' \in [CallId -> BOOLEAN]
      /\ lapsed' \subseteq CallId /\ answered' \subseteq CallId
      /\ \A c \in CallId : status[c] # None <=> status'[c] # None
  BY <1>1 DEF WriteRow, Record, CallInv, TypeOK, Status, None
<1>5. UNCHANGED <<caller, callee, stale, missed, prior, seen>>
  BY DEF WriteRow
<1>6. /\ req' \in [Worker -> {Idle} \cup Request]
      /\ Existing'
      /\ NothingRingsAgain'
  BY <1>1, <1>2, <1>3, <1>4, <1>5, GoOn DEF Request, CallInv, Existing
<1> QED  BY <1>4, <1>5, <1>6 DEF CallInv, TypeOK, Request

LEMMA PostSaveKeeps ==
    ASSUME CallInv, NEW w \in Worker, PostSave(w)
    PROVE  CallInv'
PROOF
<1> DEFINE r == [at |-> "counting", id |-> req[w].id,
                 count |-> missed[callee[req[w].id]]]
<1>1. /\ req[w] \in Saving
      /\ req[w].id \in CallId
      /\ status[req[w].id] # None
      /\ callee[req[w].id] \in User
  BY SavingFacts DEF PostSave
<1>2. missed[callee[req[w].id]] \in Nat  BY <1>1 DEF CallInv, TypeOK
<1>3. r \in Counting /\ r.id = req[w].id  BY <1>1, <1>2 DEF Counting
<1>4. r \notin Saving  BY DEF Saving
<1>5. Become(w, r) \/ Become(w, Idle)  BY DEF PostSave
<1> HIDE DEF r
<1>6. UNCHANGED <<status, caller, callee, shared, stale, missed, lapsed, seen, answered>>
  BY DEF PostSave, contractVars
<1>7. /\ req' \in [Worker -> {Idle} \cup Request]
      /\ Existing'
      /\ NothingRingsAgain'
  <2>1. CASE Become(w, r)
    BY <1>1, <1>3, <1>4, <1>6, <2>1, GoOn DEF Request, CallInv, Existing
  <2>2. CASE Become(w, Idle)
    BY <1>6, <2>2, GoOn DEF Request, CallInv, Existing
  <2> QED  BY <1>5, <2>1, <2>2
<1>8. prior' \in [Process -> [CallId -> Status \cup {None}]]
  BY <1>1 DEF PostSave, CallInv, TypeOK
<1> QED  BY <1>6, <1>7, <1>8 DEF CallInv, TypeOK, Request

LEMMA WriteCountKeeps ==
    ASSUME CallInv, NEW w \in Worker, WriteCount(w)
    PROVE  CallInv'
PROOF
<1>1. req[w] \in Counting  BY Holds DEF WriteCount, CallInv
<1>2. req[w].count \in Nat /\ req[w].count + 1 \in Nat  BY <1>1 DEF Counting
<1>3. missed' \in [User -> Nat]  BY <1>2 DEF WriteCount, CallInv, TypeOK
<1>4. UNCHANGED <<status, caller, callee, shared, stale, prior, lapsed, seen, answered>>
  BY DEF WriteCount, contractVars
<1>5. /\ req' \in [Worker -> {Idle} \cup Request]
      /\ Existing'
      /\ NothingRingsAgain'
  BY <1>4, GoOn DEF WriteCount, CallInv, Existing
<1> QED  BY <1>3, <1>4, <1>5 DEF CallInv, TypeOK, Request

LEMMA WriteSharedKeeps ==
    ASSUME CallInv, NEW w \in Worker, WriteShared(w)
    PROVE  CallInv'
PROOF
<1>1. req[w] \in Sharing  BY Holds DEF WriteShared, CallInv
<1>2. shared' \in [CallId -> BOOLEAN]
  BY <1>1 DEF WriteShared, CallInv, TypeOK, Sharing
<1>3. UNCHANGED <<status, caller, callee, stale, missed, prior, lapsed, seen, answered>>
  BY DEF WriteShared, contractVars
<1>4. /\ req' \in [Worker -> {Idle} \cup Request]
      /\ Existing'
      /\ NothingRingsAgain'
  BY <1>3, GoOn DEF WriteShared, CallInv, Existing
<1> QED  BY <1>2, <1>3, <1>4 DEF CallInv, TypeOK, Request

LEMMA TheRestKeeps ==
    ASSUME CallInv,
           \/ \E w \in Worker, u \in User : Reset(w, u)
           \/ \E c \in CallId : Age(c)
           \/ UNCHANGED vars
    PROVE  CallInv'
PROOF
<1>1. UNCHANGED <<status, caller, callee, shared, prior, req, lapsed, answered>>
  BY DEF Reset, Age, vars, contractVars, otherVars
<1>2. missed' \in [User -> Nat] /\ seen' \subseteq CallId /\ stale' \subseteq CallId
  BY DEF Reset, Age, vars, contractVars, otherVars, CallInv, TypeOK
<1>3. Existing' /\ NothingRingsAgain'
  BY <1>1, StandStill
<1> QED  BY <1>1, <1>2, <1>3 DEF CallInv, TypeOK

LEMMA CallStep == CallInv /\ [Next]_vars => CallInv'
PROOF
<1> SUFFICES ASSUME CallInv, [Next]_vars PROVE CallInv'
  OBVIOUS
<1>1. ASSUME NEW w \in Worker, Step(w)
      PROVE  CallInv'
  <2>1. CASE \E u, v \in User : Dial(w, u, v)  BY <2>1, DialKeeps
  <2>2. CASE CheckFree(w)  BY <2>2, CheckFreeKeeps
  <2>3. CASE \E c \in CallId : Insert(w, c)  BY <2>3, InsertKeeps
  <2>4. CASE Push(w)  BY <2>4, PushKeeps
  <2>5. CASE \E c \in CallId : Accept(w, c) \/ Decline(w, c) \/ End(w, c)
    BY <2>5, DecisionsKeep
  <2>6. CASE PreSave(w)  BY <2>6, PreSaveKeeps
  <2>7. CASE WriteRow(w)  BY <2>7, WriteRowKeeps
  <2>8. CASE PostSave(w)  BY <2>8, PostSaveKeeps
  <2>9. CASE WriteCount(w)  BY <2>9, WriteCountKeeps
  <2>10. CASE \E c \in CallId, on \in BOOLEAN : Share(w, c, on)
    BY <2>10, SharingKeeps
  <2>11. CASE WriteShared(w)  BY <2>11, WriteSharedKeeps
  <2>12. CASE \E u \in User : EndAll(w, u)  BY <2>12, EndAllKeeps
  <2>13. CASE \E u \in User : Reset(w, u)  BY <2>13, TheRestKeeps
  <2> QED
    BY <1>1, <2>1, <2>2, <2>3, <2>4, <2>5, <2>6, <2>7, <2>8, <2>9, <2>10,
       <2>11, <2>12, <2>13 DEF Step
<1> QED  BY <1>1, TheRestKeeps DEF Next

LEMMA CallStart == Init => CallInv
PROOF
<1> SUFFICES ASSUME Init PROVE CallInv  OBVIOUS
<1>1. TypeOK  BY DEF Init, ContractInit, TypeOK
<1> QED  BY <1>1 DEF Init, ContractInit, CallInv, Existing, NothingRingsAgain

\* Rows, counters, saved statuses and what every worker holds keep their types,
\* and no counter goes below zero, however the handlers interleave.
THEOREM CallTypeCorrect == Spec => []TypeOK
PROOF
<1>1. Spec => []CallInv  BY CallStart, CallStep, PTL DEF Spec
<1> QED  BY <1>1, PTL DEF CallInv

\* No save, of whatever instance, however old, makes a call ring again.
THEOREM CallsRingOnce == Spec => RingsOnce
PROOF
<1> DEFINE Once == \A c \in CallId :
              status[c] \notin {None, "pending"} => status'[c] \notin {None, "pending"}
<1>1. CallInv /\ [Next]_vars => [Once]_vars
  <2> SUFFICES ASSUME CallInv, [Next]_vars, NEW c \in CallId,
                      status[c] \notin {None, "pending"}
               PROVE  status'[c] \notin {None, "pending"}
    OBVIOUS
  <2>0. status \in [CallId -> Status \cup {None}]  BY DEF CallInv, TypeOK
  <2>1. CASE status' = status  BY <2>1
  <2>2. ASSUME NEW w \in Worker, NEW d \in CallId, Insert(w, d)
        PROVE  status'[c] \notin {None, "pending"}
    BY <2>0, <2>2 DEF Insert, NextKey
  <2>3. ASSUME NEW w \in Worker, WriteRow(w)
        PROVE  status'[c] \notin {None, "pending"}
    <3>1. req[w].id \in CallId /\ req[w].new \in Status \ {"pending"}
      BY <2>3, SavingFacts DEF WriteRow
    <3> QED  BY <2>0, <2>3, <3>1 DEF WriteRow, Status, None
  <2>4. ASSUME NEW moved, NEW st \in {"missed", "ended"}, BulkUpdate(moved, st)
        PROVE  status'[c] \notin {None, "pending"}
    BY <2>0, <2>4 DEF BulkUpdate, None
  <2>5. ASSUME NEW w \in Worker, Step(w)
        PROVE  status'[c] \notin {None, "pending"}
    <3>1. CASE \E u, v \in User : Dial(w, u, v)  BY <2>4, <3>1 DEF Dial
    <3>2. CASE \E u \in User : EndAll(w, u)  BY <2>4, <3>2 DEF EndAll
    <3>3. CASE \E d \in CallId : Insert(w, d)  BY <2>2, <3>3
    <3>4. CASE WriteRow(w)  BY <2>3, <3>4
    <3> QED
      BY <2>1, <2>5, <3>1, <3>2, <3>3, <3>4
         DEF Step, CheckFree, Push, Accept, Decline, End, PreSave, PostSave,
             WriteCount, Share, WriteShared, Reset, contractVars
  <2> QED  BY <2>1, <2>5 DEF Next, Age, vars, contractVars
<1>2. Spec => []CallInv  BY CallStart, CallStep, PTL DEF Spec
<1> QED  BY <1>1, <1>2, PTL DEF Spec, RingsOnce

-----------------------------------------------------------------------------
(* The counter of missed calls, under every interleaving. *)

\* A worker on its way to the counter holds a call that was missed.
CountsLapsed ==
  \A w \in Worker :
    (req[w] # Idle /\ (req[w].at = "counting"
                        \/ (req[w].at = "updated" /\ req[w].new = "missed")))
      => req[w].id \in lapsed

LapsedExist == \A c \in lapsed : status[c] # None

CountInv == CallInv /\ LapsedExist /\ CountsLapsed /\ CountedMeansMissed

\* A call that was missed once stays on record, with the parties it had.
LEMMA LapsedStays ==
    ASSUME CallInv, LapsedExist, [Next]_vars
    PROVE  /\ lapsed \subseteq lapsed'
           /\ \A c \in lapsed : callee'[c] = callee[c]
           /\ LapsedExist'
PROOF
<1> DEFINE Goal == /\ lapsed \subseteq lapsed'
                   /\ \A c \in lapsed : callee'[c] = callee[c]
                   /\ LapsedExist'
<1>0. /\ status \in [CallId -> Status \cup {None}]
      /\ callee \in [CallId -> User \cup {NoOne}]
      /\ lapsed \subseteq CallId
  BY DEF CallInv, TypeOK
<1>1. CASE UNCHANGED <<status, callee, lapsed>>
  BY <1>1 DEF LapsedExist
<1>2. ASSUME NEW w \in Worker, NEW c \in CallId, Insert(w, c) PROVE Goal
  <2>1. c \notin lapsed  BY <1>2 DEF Insert, NextKey, LapsedExist
  <2>2. lapsed' = lapsed  BY <1>2 DEF Insert, otherVars
  <2> QED  BY <1>0, <1>2, <2>1, <2>2 DEF Insert, LapsedExist
<1>3. ASSUME NEW moved \in SUBSET CallId, NEW st \in Status, BulkUpdate(moved, st)
      PROVE  Goal
  BY <1>0, <1>3 DEF BulkUpdate, Record, LapsedExist, Status, None
<1>4. ASSUME NEW w \in Worker, NEW u \in User, NEW v \in User, Dial(w, u, v) PROVE Goal
  <2> DEFINE old == {c \in stale : status[c] = "pending" /\ PartyOf(c, v)}
  <2>1. old \in SUBSET CallId  BY DEF CallInv, TypeOK
  <2>2. BulkUpdate(old, "missed")  BY <1>4 DEF Dial
  <2> HIDE DEF old
  <2> QED  BY <1>3, <2>1, <2>2 DEF Status
<1>5. ASSUME NEW w \in Worker, NEW u \in User, EndAll(w, u) PROVE Goal
  BY <1>3, <1>5 DEF EndAll, Status
<1>6. ASSUME NEW w \in Worker, WriteRow(w) PROVE Goal
  <2>1. req[w].id \in CallId /\ req[w].new \in Status \ {"pending"}
    BY <1>6, SavingFacts DEF WriteRow
  <2> QED  BY <1>0, <1>6, <2>1 DEF WriteRow, Record, LapsedExist, Status, None
<1>7. ASSUME NEW w \in Worker, Step(w) PROVE Goal
  <2>1. CASE \E u, v \in User : Dial(w, u, v)  BY <1>4, <2>1
  <2>2. CASE \E c \in CallId : Insert(w, c)  BY <1>2, <2>2
  <2>3. CASE WriteRow(w)  BY <1>6, <2>3
  <2>4. CASE \E u \in User : EndAll(w, u)  BY <1>5, <2>4
  <2> QED
    BY <1>1, <1>7, <2>1, <2>2, <2>3, <2>4
       DEF Step, CheckFree, Push, Accept, Decline, End, PreSave, PostSave,
           WriteCount, Share, WriteShared, Reset, contractVars, otherVars
<1>8. CASE \E c \in CallId : Age(c)  BY <1>1, <1>8 DEF Age, contractVars
<1>9. CASE UNCHANGED vars  BY <1>1, <1>9 DEF vars, contractVars, otherVars
<1> QED  BY <1>7, <1>8, <1>9 DEF Next

LEMMA CountStep == CountInv /\ [Next]_vars => CountInv'
PROOF
<1> SUFFICES ASSUME CountInv, [Next]_vars PROVE CountInv'
  OBVIOUS
<1>0. CallInv  BY DEF CountInv
<1>1. CallInv'  BY CallStep, <1>0
<1>2. /\ lapsed \subseteq lapsed'
      /\ \A c \in lapsed : callee'[c] = callee[c]
      /\ LapsedExist'
  BY LapsedStays DEF CountInv
<1>t. /\ req \in [Worker -> {Idle} \cup Dialling \cup Pushing \cup Saving
                               \cup Counting \cup Sharing]
      /\ missed \in [User -> Nat]
      /\ lapsed \subseteq CallId
  BY <1>0 DEF CallInv, TypeOK
<1>3. CountsLapsed'
  <2>1. CASE req' = req  BY <1>2, <2>1 DEF CountInv, CountsLapsed
  <2>2. ASSUME NEW w \in Worker, NEW r, Become(w, r),
               (r # Idle /\ (r.at = "counting" \/ (r.at = "updated" /\ r.new = "missed")))
                 => r.id \in lapsed'
        PROVE  CountsLapsed'
    BY <1>2, <1>t, <2>2 DEF Become, CountInv, CountsLapsed
  <2>3. ASSUME NEW w \in Worker, WriteRow(w) PROVE CountsLapsed'
    <3>1. req[w] \in Saving /\ req[w].id \in CallId  BY <1>0, <2>3, SavingFacts DEF WriteRow
    <3>2. /\ [req[w] EXCEPT !.at = "updated"].id = req[w].id
          /\ [req[w] EXCEPT !.at = "updated"].new = req[w].new
          /\ [req[w] EXCEPT !.at = "updated"].at = "updated"
      BY <3>1 DEF Saving
    <3>3. req[w].new = "missed" => req[w].id \in lapsed'
      BY <2>3 DEF WriteRow, Record
    <3>4. Become(w, [req[w] EXCEPT !.at = "updated"])  BY <2>3 DEF WriteRow
    <3> QED  BY <2>2, <3>2, <3>3, <3>4
  <2>4. ASSUME NEW w \in Worker, PostSave(w) PROVE CountsLapsed'
    <3> DEFINE r == [at |-> "counting", id |-> req[w].id,
                     count |-> missed[callee[req[w].id]]]
    <3>1. CASE req[w].new = "missed"
      <4>1. req[w].id \in lapsed  BY <2>4, <3>1 DEF PostSave, CountInv, CountsLapsed
      <4>2. r.id \in lapsed'  BY <1>2, <4>1
      <4>3. Become(w, r) \/ Become(w, Idle)  BY <2>4 DEF PostSave
      <4> QED  BY <2>2, <4>2, <4>3
    <3>2. CASE req[w].new # "missed"
      BY <2>2, <2>4, <3>2 DEF PostSave
    <3> QED  BY <3>1, <3>2
  <2>5. ASSUME NEW w \in Worker, CheckFree(w) PROVE CountsLapsed'
    <3>1. req[w] \in Dialling  BY <1>0, <2>5, Holds DEF CheckFree, CallInv
    <3>2. [req[w] EXCEPT !.at = "free"].at = "free"  BY <3>1 DEF Dialling
    <3>3. Become(w, [req[w] EXCEPT !.at = "free"]) \/ Become(w, Idle)
      BY <2>5 DEF CheckFree
    <3> QED  BY <2>2, <3>2, <3>3
  <2>6. ASSUME NEW w \in Worker, PreSave(w) PROVE CountsLapsed'
    <3>1. req[w] \in Saving  BY <1>0, <2>6, SavingFacts DEF PreSave
    <3>2. [req[w] EXCEPT !.at = "stored"].at = "stored"  BY <3>1 DEF Saving
    <3>3. Become(w, [req[w] EXCEPT !.at = "stored"])  BY <2>6 DEF PreSave
    <3> QED  BY <2>2, <3>2, <3>3
  <2>7. ASSUME NEW w \in Worker, Push(w) PROVE CountsLapsed'
    BY <2>2, <2>7 DEF Push
  <2>8. ASSUME NEW w \in Worker, NEW c \in CallId,
               Insert(w, c) \/ Accept(w, c) \/ Decline(w, c) \/ End(w, c)
        PROVE  CountsLapsed'
    BY <2>2, <2>8 DEF Insert, Accept, Decline, End, Decide
  <2>9. ASSUME NEW w \in Worker,
               \/ \E u, v \in User : Dial(w, u, v)
               \/ \E c \in CallId, on \in BOOLEAN : Share(w, c, on)
               \/ WriteCount(w)
               \/ WriteShared(w)
        PROVE  CountsLapsed'
    BY <2>2, <2>9 DEF Dial, Share, WriteCount, WriteShared
  <2>10. ASSUME NEW w \in Worker, Step(w) PROVE CountsLapsed'
    BY <2>1, <2>3, <2>4, <2>5, <2>6, <2>7, <2>8, <2>9, <2>10
       DEF Step, EndAll, Reset
  <2> QED  BY <2>1, <2>10 DEF Next, Age, vars
<1>4. CountedMeansMissed'
  <2>1. CASE missed' = missed
    BY <1>2, <2>1 DEF CountInv, CountedMeansMissed, LapsedFor
  <2>2. ASSUME NEW w \in Worker, WriteCount(w) PROVE CountedMeansMissed'
    <3>1. req[w].id \in lapsed  BY <2>2 DEF WriteCount, CountInv, CountsLapsed
    <3>2. \A u \in User : u # callee[req[w].id] => missed'[u] = missed[u]
      BY <1>t, <2>2 DEF WriteCount
    <3> QED  BY <1>2, <3>1, <3>2 DEF CountInv, CountedMeansMissed, LapsedFor
  <2>3. ASSUME NEW w \in Worker, NEW u \in User, Reset(w, u) PROVE CountedMeansMissed'
    BY <1>2, <1>t, <2>3 DEF Reset, CountInv, CountedMeansMissed, LapsedFor
  <2>4. ASSUME NEW w \in Worker, Step(w) PROVE CountedMeansMissed'
    BY <2>1, <2>2, <2>3, <2>4
       DEF Step, Dial, CheckFree, Insert, Push, Accept, Decline, End, PreSave,
           WriteRow, PostSave, Share, WriteShared, EndAll, BulkUpdate, otherVars
  <2> QED  BY <2>1, <2>4 DEF Next, Age, vars, otherVars
<1> QED  BY <1>1, <1>2, <1>3, <1>4 DEF CountInv

\* However saves, increments and resets interleave, nobody's counter is above
\* zero without a call to them that was missed.
THEOREM NobodyToldOfNothing == Spec => []CountedMeansMissed
PROOF
<1>1. Init => CountInv
  <2> SUFFICES ASSUME Init PROVE CountInv  OBVIOUS
  <2>1. CallInv  BY CallStart
  <2> QED
    BY <2>1 DEF Init, CountInv, CountsLapsed, LapsedExist, CountedMeansMissed
<1>2. Spec => []CountInv  BY <1>1, CountStep, PTL DEF Spec
<1> QED  BY <1>2, PTL DEF CountInv

-----------------------------------------------------------------------------
(* One handler at a time. *)

\* What a worker has read still holds when it writes.
Fresh ==
  \A w \in Worker : req[w] # Idle =>
    /\ req[w].at \in {"expired", "free"} => req[w].by # req[w].to
    /\ req[w].at = "free" => \A c \in CallId : Live(c) => ~PartyOf(c, req[w].to)
    /\ req[w].at = "created" => status[req[w].id] = "pending"
    /\ req[w].at \in {"loaded", "stored"}
          => <<status[req[w].id], req[w].new>> \in Transitions

\* The worker is the only one.
LEMMA FreshAlone ==
    ASSUME NEW w, Worker = {w}, CallInv, NEW r, Become(w, r),
           r # Idle =>
             /\ r.at \in {"expired", "free"} => r.by # r.to
             /\ r.at = "free" => \A c \in CallId : Live(c)' => ~PartyOf(c, r.to)'
             /\ r.at = "created" => status'[r.id] = "pending"
             /\ r.at \in {"loaded", "stored"}
                   => <<status'[r.id], r.new>> \in Transitions
    PROVE  Fresh'
PROOF
<1>1. req'[w] = r  BY DEF Become, CallInv, TypeOK
<1> QED  BY <1>1 DEF Fresh, Live, PartyOf

LEMMA FreshStep ==
    ASSUME NEW w, Worker = {w}, CallInv, Fresh, [Next]_vars
    PROVE  Fresh'
PROOF
<1>0. w \in Worker  OBVIOUS
<1>t. status \in [CallId -> Status \cup {None}]  BY DEF CallInv, TypeOK
<1>1. ASSUME NEW u \in User, NEW v \in User, Dial(w, u, v) PROVE Fresh'
  <2> DEFINE r == [at |-> "expired", by |-> u, to |-> v]
  <2>1. Become(w, r) /\ u # v  BY <1>1 DEF Dial
  <2>2. r.at = "expired" /\ r.by = u /\ r.to = v  OBVIOUS
  <2> HIDE DEF r
  <2> QED  BY <2>1, <2>2, FreshAlone
<1>2. ASSUME CheckFree(w) PROVE Fresh'
  <2> DEFINE r == [req[w] EXCEPT !.at = "free"]
  <2>1. req[w] \in Dialling  BY <1>0, <1>2, Holds DEF CheckFree, CallInv
  <2>2. r.at = "free" /\ r.by = req[w].by /\ r.to = req[w].to  BY <2>1 DEF Dialling
  <2>3. req[w].by # req[w].to  BY <1>0, <1>2 DEF CheckFree, Fresh
  <2>4. UNCHANGED <<status, caller, callee>>  BY <1>2 DEF CheckFree, contractVars
  <2> HIDE DEF r
  <2>5. CASE Become(w, Idle)  BY <2>5, FreshAlone
  <2>6. CASE ~(\E c \in CallId : Live(c) /\ PartyOf(c, req[w].to)) /\ Become(w, r)
    BY <2>2, <2>3, <2>4, <2>6, FreshAlone DEF Live, PartyOf
  <2> QED  BY <1>2, <2>5, <2>6 DEF CheckFree, r
<1>3. ASSUME NEW c \in CallId, Insert(w, c) PROVE Fresh'
  <2> DEFINE r == [at |-> "created", id |-> c]
  <2>1. Become(w, r) /\ status'[c] = "pending"  BY <1>3, <1>t DEF Insert
  <2>2. r.at = "created" /\ r.id = c  OBVIOUS
  <2> HIDE DEF r
  <2> QED  BY <2>1, <2>2, FreshAlone
<1>4. ASSUME NEW c, NEW st, NEW f, <<status[c], st>> \in Transitions, status' = status,
             Become(w, [at |-> "loaded", id |-> c, new |-> st, flag |-> f])
      PROVE  Fresh'
  <2> DEFINE r == [at |-> "loaded", id |-> c, new |-> st, flag |-> f]
  <2>1. Become(w, r)  BY <1>4
  <2>2. r.at = "loaded" /\ r.id = c /\ r.new = st  OBVIOUS
  <2> HIDE DEF r
  <2> QED  BY <1>4, <2>1, <2>2, FreshAlone
<1>5. ASSUME Push(w) PROVE Fresh'
  <2>1. status[req[w].id] = "pending"  BY <1>0, <1>5 DEF Push, Fresh
  <2>2. CASE Become(w, Idle)  BY <2>2, FreshAlone
  <2>3. CASE Become(w, [at |-> "loaded", id |-> req[w].id,
                        new |-> "missed", flag |-> FALSE])
    BY <1>4, <1>5, <2>1, <2>3 DEF Push, Transitions, contractVars
  <2> QED  BY <1>5, <2>2, <2>3 DEF Push
<1>6. ASSUME NEW c \in CallId, Accept(w, c) \/ Decline(w, c) PROVE Fresh'
  BY <1>4, <1>6 DEF Accept, Decline, Decide, Transitions, contractVars
<1>7. ASSUME NEW c \in CallId, End(w, c) PROVE Fresh'
  <2>1. CASE status[c] = "pending"
    BY <1>4, <1>7, <2>1 DEF End, Decide, Transitions, contractVars
  <2>2. CASE status[c] \in {"accepted", "declined"}
    BY <1>4, <1>7, <2>2 DEF End, Decide, Transitions, contractVars
  <2> QED  BY <1>7, <2>1, <2>2 DEF End
<1>8. ASSUME PreSave(w) PROVE Fresh'
  <2> DEFINE r == [req[w] EXCEPT !.at = "stored"]
  <2>1. req[w] \in Saving  BY <1>0, <1>8, SavingFacts DEF PreSave
  <2>2. r.at = "stored" /\ r.id = req[w].id /\ r.new = req[w].new  BY <2>1 DEF Saving
  <2>3. <<status[req[w].id], req[w].new>> \in Transitions
    BY <1>0, <1>8 DEF PreSave, Fresh
  <2>4. Become(w, r) /\ status' = status  BY <1>8 DEF PreSave, contractVars
  <2> HIDE DEF r
  <2> QED  BY <2>2, <2>3, <2>4, FreshAlone
<1>9. ASSUME WriteRow(w) PROVE Fresh'
  <2> DEFINE r == [req[w] EXCEPT !.at = "updated"]
  <2>1. req[w] \in Saving  BY <1>0, <1>9, SavingFacts DEF WriteRow
  <2>2. r.at = "updated"  BY <2>1 DEF Saving
  <2>3. Become(w, r)  BY <1>9 DEF WriteRow
  <2> HIDE DEF r
  <2> QED  BY <2>2, <2>3, FreshAlone
<1>10. ASSUME PostSave(w) PROVE Fresh'
  <2> DEFINE r == [at |-> "counting", id |-> req[w].id,
                   count |-> missed[callee[req[w].id]]]
  <2>1. r.at = "counting"  OBVIOUS
  <2>2. Become(w, r) \/ Become(w, Idle)  BY <1>10 DEF PostSave
  <2> HIDE DEF r
  <2> QED  BY <2>1, <2>2, FreshAlone
<1>11. ASSUME NEW c \in CallId, NEW on \in BOOLEAN, Share(w, c, on) PROVE Fresh'
  <2> DEFINE r == [at |-> "sharing", id |-> c, flag |-> on]
  <2>1. r.at = "sharing" /\ Become(w, r)  BY <1>11 DEF Share
  <2> HIDE DEF r
  <2> QED  BY <2>1, FreshAlone
<1>12. ASSUME WriteCount(w) \/ WriteShared(w) PROVE Fresh'
  BY <1>12, FreshAlone DEF WriteCount, WriteShared
<1>13. ASSUME NEW u \in User, EndAll(w, u) \/ Reset(w, u) PROVE Fresh'
  <2>1. req[w] = Idle /\ req' = req  BY <1>13 DEF EndAll, Reset
  <2> QED  BY <2>1 DEF Fresh
<1>14. ASSUME UNCHANGED <<status, caller, callee, req>> PROVE Fresh'
  BY <1>14 DEF Fresh, Live, PartyOf
<1>15. ASSUME Step(w) PROVE Fresh'
  BY <1>1, <1>2, <1>3, <1>5, <1>6, <1>7, <1>8, <1>9, <1>10, <1>11, <1>12,
     <1>13, <1>15 DEF Step
<1> QED
  BY <1>14, <1>15 DEF Next, Age, vars, contractVars

\* A step of the only worker is a step of the contract, or none.
LEMMA StepOfContract ==
    ASSUME NEW w, Worker = {w}, CallInv, Fresh, [Next]_vars
    PROVE  [ContractNext]_contractVars
PROOF
<1>0. w \in Worker  OBVIOUS
<1>t. /\ status \in [CallId -> Status \cup {None}]
      /\ status' \in [CallId -> Status \cup {None}]
  BY CallStep DEF CallInv, TypeOK
<1>1. ASSUME NEW moved \in SUBSET CallId, NEW st, BulkUpdate(moved, st),
             \A c \in moved : <<status[c], st>> \in Transitions
      PROVE  ContractNext
  <2>1. Move(moved)  BY <1>1, <1>t DEF Move, BulkUpdate
  <2> QED  BY <2>1 DEF ContractNext
<1>2. ASSUME NEW u \in User, NEW v \in User, Dial(w, u, v) PROVE ContractNext
  <2> DEFINE old == {c \in stale : status[c] = "pending" /\ PartyOf(c, v)}
  <2>1. old \in SUBSET CallId /\ BulkUpdate(old, "missed")
    BY <1>2 DEF CallInv, TypeOK, Dial
  <2>2. \A c \in old : <<status[c], "missed">> \in Transitions  BY DEF Transitions
  <2> HIDE DEF old
  <2> QED  BY <1>1, <2>1, <2>2
<1>3. ASSUME NEW u \in User, EndAll(w, u) PROVE ContractNext
  <2> DEFINE mine == {c \in CallId : Live(c) /\ PartyOf(c, u)}
  <2>1. mine \in SUBSET CallId /\ BulkUpdate(mine, "ended")  BY <1>3 DEF EndAll
  <2>2. \A c \in mine : <<status[c], "ended">> \in Transitions
    BY DEF Live, Busy, Transitions
  <2> HIDE DEF mine
  <2> QED  BY <1>1, <2>1, <2>2
<1>4. ASSUME NEW c \in CallId, Insert(w, c) PROVE ContractNext
  <2>1. req[w] \in Dialling  BY <1>0, <1>4, Holds DEF Insert, CallInv
  <2>2. req[w].by \in User /\ req[w].to \in User  BY <2>1 DEF Dialling
  <2>3. /\ req[w].by # req[w].to
        /\ \A d \in CallId : Live(d) => ~PartyOf(d, req[w].to)
    BY <1>0, <1>4 DEF Insert, Fresh
  <2>4. Ring(req[w].by, req[w].to, c)  BY <1>4, <2>3 DEF Insert, Ring
  <2> QED  BY <2>2, <2>4 DEF ContractNext
<1>5. ASSUME WriteRow(w) PROVE ContractNext
  <2>1. req[w].id \in CallId  BY <1>0, <1>5, SavingFacts DEF WriteRow
  <2>2. <<status[req[w].id], req[w].new>> \in Transitions
    BY <1>0, <1>5 DEF WriteRow, Fresh
  <2>3. /\ status'[req[w].id] = req[w].new
        /\ \A c \in CallId : c # req[w].id => status'[c] = status[c]
        /\ UNCHANGED <<caller, callee>>
    BY <1>5, <1>t, <2>1 DEF WriteRow
  <2>4. Move({req[w].id})  BY <1>t, <2>1, <2>2, <2>3 DEF Move
  <2> QED  BY <2>1, <2>4 DEF ContractNext
<1>6. ASSUME Step(w) PROVE ContractNext \/ UNCHANGED contractVars
  BY <1>2, <1>3, <1>4, <1>5, <1>6
     DEF Step, CheckFree, Push, Accept, Decline, End, PreSave, PostSave,
         WriteCount, Share, WriteShared, Reset
<1> QED  BY <1>6 DEF Next, Age, vars

\* Handlers that run one at a time implement the contract, whatever the users,
\* the calls and the requests.
THEOREM SerialImplementsContract ==
    ASSUME NEW w, Worker = {w}
    PROVE  Spec => ContractSpec
PROOF
<1>1. Init => CallInv /\ Fresh /\ ContractInit
  <2> SUFFICES ASSUME Init PROVE CallInv /\ Fresh /\ ContractInit  OBVIOUS
  <2>1. CallInv  BY CallStart
  <2> QED  BY <2>1 DEF Init, Fresh
<1>2. CallInv /\ Fresh /\ [Next]_vars => (CallInv /\ Fresh)'
  BY CallStep, FreshStep
<1>3. CallInv /\ Fresh /\ [Next]_vars => [ContractNext]_contractVars
  BY StepOfContract
<1> QED  BY <1>1, <1>2, <1>3, PTL DEF Spec, ContractSpec

\* So one handler at a time never rings a user who is in an earlier live call ...
THEOREM SerialKeepsBusy ==
    ASSUME NEW w, Worker = {w}
    PROVE  Spec => []NeverRungWhileBusy
PROOF
<1>1. Spec => ContractSpec  BY SerialImplementsContract
<1> QED  BY <1>1, ContractKeepsBusy, PTL

\* ... and never brings back a call that is over.
THEOREM SerialOverIsOver ==
    ASSUME NEW w, Worker = {w}
    PROVE  Spec => OverIsOver
PROOF
<1>1. Spec => ContractSpec  BY SerialImplementsContract
<1> QED  BY <1>1, ContractOverIsOver, PTL

-----------------------------------------------------------------------------
(* What is kept beside the status, one handler at a time. *)

\* A missed call stays missed, an answered one is never missed, and there is no sharing
\* before there is a call.
Final ==
  /\ \A c \in lapsed : status[c] = "missed"
  /\ \A c \in answered : status[c] \in {"accepted", "ended"}
  /\ \A c \in CallId : status[c] = None => ~shared[c]
  /\ seen \subseteq lapsed

\* What the instance and the note of request r say of the columns they will overwrite.
KeptBy(w, r) ==
  /\ r.at = "created" => ~shared[r.id]
  /\ r.at \in {"loaded", "stored"} => (shared[r.id] => r.flag)
  /\ r.at = "stored" => prior[ProcessOf[w]][r.id] = status[r.id]
  /\ r.at = "updated" /\ r.new = "missed" => prior[ProcessOf[w]][r.id] # "missed"
  /\ r.at = "counting" => r.count = missed[callee[r.id]]

Kept == \A w \in Worker : req[w] # Idle => KeptBy(w, req[w])

\* A call to u has been missed and its receiver has not counted it yet.
OnItsWay(r, u) ==
  /\ r # Idle
  /\ r.at = "counting" \/ (r.at = "updated" /\ r.new = "missed")
  /\ callee[r.id] = u

ToCount(u) == \E w \in Worker : OnItsWay(req[w], u)

Unseen(u) == LapsedFor(u) \ seen

\* The counter is exact but for the call that is on its way to it.
NearlyExact ==
  stale = {} =>
    /\ IsFiniteSet(lapsed)
    /\ \A u \in User : Cardinality(Unseen(u)) = missed[u] + (IF ToCount(u) THEN 1 ELSE 0)

SerialInv == CallInv /\ Fresh /\ Final /\ Kept /\ NearlyExact

LEMMA FinalStep ==
    ASSUME NEW w, Worker = {w}, CallInv, Fresh, Final, [Next]_vars
    PROVE  Final'
PROOF
<1>0. w \in Worker  OBVIOUS
<1>t. /\ status \in [CallId -> Status \cup {None}] /\ shared \in [CallId -> BOOLEAN]
      /\ lapsed \subseteq CallId /\ answered \subseteq CallId /\ stale \subseteq CallId
  BY DEF CallInv, TypeOK
<1>1. CASE UNCHANGED <<status, shared, lapsed, answered, seen>>
  BY <1>1 DEF Final
<1>2. ASSUME NEW u \in User, NEW v \in User, Dial(w, u, v) PROVE Final'
  BY <1>t, <1>2 DEF Dial, BulkUpdate, Record, Final, None
<1>3. ASSUME NEW u \in User, EndAll(w, u) PROVE Final'
  BY <1>t, <1>3 DEF EndAll, BulkUpdate, Record, Final, Live, Busy, None
<1>4. ASSUME NEW c \in CallId, Insert(w, c) PROVE Final'
  BY <1>t, <1>4 DEF Insert, NextKey, otherVars, Final, None
<1>5. CASE WriteRow(w)
  <2>1. /\ req[w].id \in CallId /\ req[w].new \in Status
        /\ <<status[req[w].id], req[w].new>> \in Transitions
    BY <1>0, <1>5, SavingFacts DEF WriteRow, Fresh
  <2> QED  BY <1>t, <1>5, <2>1 DEF WriteRow, Record, Final, Transitions, Status, None
<1>6. CASE WriteShared(w)
  <2>1. req[w] \in Sharing  BY <1>0, <1>6, Holds DEF WriteShared, CallInv
  <2>2. req[w].id \in CallId /\ req[w] \notin Dialling  BY <2>1 DEF Sharing, Dialling
  <2>3. status[req[w].id] # None  BY <1>0, <1>6, <2>2 DEF WriteShared, CallInv, Existing
  <2> QED  BY <1>t, <1>6, <2>2, <2>3 DEF WriteShared, contractVars, Final
<1>7. ASSUME NEW u \in User, Reset(w, u) PROVE Final'
  BY <1>7 DEF Reset, contractVars, Final
<1>8. ASSUME Step(w) PROVE Final'
  BY <1>1, <1>2, <1>3, <1>4, <1>5, <1>6, <1>7, <1>8
     DEF Step, CheckFree, Push, Accept, Decline, End, PreSave, PostSave, WriteCount,
         Share, contractVars, otherVars
<1> QED  BY <1>1, <1>8 DEF Next, Age, vars, contractVars, otherVars

\* The worker is the only one.
LEMMA KeptAlone ==
    ASSUME NEW w, Worker = {w}, CallInv, NEW r, Become(w, r), r # Idle => KeptBy(w, r)'
    PROVE  Kept'
PROOF
<1>1. req'[w] = r  BY DEF Become, CallInv, TypeOK
<1> QED  BY <1>1 DEF Kept, KeptBy

LEMMA KeptStep ==
    ASSUME NEW w, Worker = {w}, CallInv, Fresh, Final, Kept, [Next]_vars
    PROVE  Kept'
PROOF
<1>0. w \in Worker /\ ProcessOf[w] \in Process
  BY DEF Process
<1>t. /\ status \in [CallId -> Status \cup {None}] /\ shared \in [CallId -> BOOLEAN]
      /\ prior \in [Process -> [CallId -> Status \cup {None}]]
      /\ callee \in [CallId -> User \cup {NoOne}]
  BY DEF CallInv, TypeOK
<1>1. ASSUME NEW r, Become(w, r), r.at \in {"expired", "free", "sharing"} PROVE Kept'
  BY <1>1, KeptAlone DEF KeptBy
<1>2. ASSUME Become(w, Idle) PROVE Kept'
  BY <1>2, KeptAlone
<1>3. ASSUME NEW c \in CallId, Insert(w, c) PROVE Kept'
  <2> DEFINE r == [at |-> "created", id |-> c]
  <2>1. ~shared'[c]  BY <1>3 DEF Insert, NextKey, otherVars, Final
  <2>2. r.at = "created" /\ r.id = c /\ Become(w, r)  BY <1>3 DEF Insert
  <2> HIDE DEF r
  <2> QED  BY <2>1, <2>2, KeptAlone DEF KeptBy
<1>4. ASSUME NEW c, NEW st, NEW f, shared[c] => f, shared' = shared,
             Become(w, [at |-> "loaded", id |-> c, new |-> st, flag |-> f])
      PROVE  Kept'
  <2> DEFINE r == [at |-> "loaded", id |-> c, new |-> st, flag |-> f]
  <2>1. r.at = "loaded" /\ r.id = c /\ r.flag = f /\ Become(w, r)  BY <1>4
  <2> HIDE DEF r
  <2> QED  BY <1>4, <2>1, KeptAlone DEF KeptBy
<1>5. CASE Push(w)
  <2>1. ~shared[req[w].id]  BY <1>0, <1>5 DEF Push, Kept, KeptBy
  <2> QED  BY <1>2, <1>4, <1>5, <2>1 DEF Push, otherVars
<1>6. ASSUME NEW c \in CallId, Accept(w, c) \/ Decline(w, c) \/ End(w, c) PROVE Kept'
  <2>1. shared' = shared /\ \E st : Become(w, [at |-> "loaded", id |-> c, new |-> st, flag |-> shared[c]])
    BY <1>6 DEF Accept, Decline, End, Decide, otherVars
  <2> QED  BY <1>4, <2>1
<1>7. CASE PreSave(w)
  <2> DEFINE r == [req[w] EXCEPT !.at = "stored"]
  <2>1. req[w] \in Saving /\ req[w].id \in CallId  BY <1>0, <1>7, SavingFacts DEF PreSave
  <2>2. r.at = "stored" /\ r.id = req[w].id /\ r.flag = req[w].flag  BY <2>1 DEF Saving
  <2>3. shared[r.id] => r.flag  BY <1>0, <1>7, <2>2 DEF PreSave, Kept, KeptBy
  <2>4. prior'[ProcessOf[w]][r.id] = status'[r.id] /\ shared' = shared
    BY <1>0, <1>t, <1>7, <2>1, <2>2 DEF PreSave, contractVars
  <2>5. Become(w, r)  BY <1>7 DEF PreSave
  <2> HIDE DEF r
  <2> QED  BY <2>2, <2>3, <2>4, <2>5, KeptAlone DEF KeptBy
<1>8. CASE WriteRow(w)
  <2> DEFINE r == [req[w] EXCEPT !.at = "updated"]
  <2>1. req[w] \in Saving /\ req[w].id \in CallId  BY <1>0, <1>8, SavingFacts DEF WriteRow
  <2>2. r.at = "updated" /\ r.id = req[w].id /\ r.new = req[w].new  BY <2>1 DEF Saving
  <2>3. <<status[r.id], r.new>> \in Transitions  BY <1>0, <1>8, <2>2 DEF WriteRow, Fresh
  <2>4. prior[ProcessOf[w]][r.id] = status[r.id]  BY <1>0, <1>8, <2>2 DEF WriteRow, Kept, KeptBy
  <2>5. Become(w, r) /\ prior' = prior  BY <1>8 DEF WriteRow
  <2>6. r.new = "missed" => prior'[ProcessOf[w]][r.id] # "missed"
    BY <2>3, <2>4, <2>5 DEF Transitions
  <2> HIDE DEF r
  <2> QED  BY <2>2, <2>5, <2>6, KeptAlone DEF KeptBy
<1>9. CASE PostSave(w)
  <2> DEFINE r == [at |-> "counting", id |-> req[w].id, count |-> missed[callee[req[w].id]]]
  <2>1. r.at = "counting" /\ r.id = req[w].id /\ r.count = missed[callee[r.id]]  OBVIOUS
  <2>2. UNCHANGED <<missed, callee>>  BY <1>9 DEF PostSave, contractVars
  <2>3. Become(w, r) \/ Become(w, Idle)  BY <1>9 DEF PostSave
  <2> HIDE DEF r
  <2> QED  BY <1>2, <2>1, <2>2, <2>3, KeptAlone DEF KeptBy
<1>10. ASSUME NEW u \in User, NEW v \in User, Dial(w, u, v) PROVE Kept'
  BY <1>1, <1>10 DEF Dial
<1>11. CASE CheckFree(w)
  <2>1. req[w] \in Dialling  BY <1>0, <1>11, Holds DEF CheckFree, CallInv
  <2>2. [req[w] EXCEPT !.at = "free"].at = "free"  BY <2>1 DEF Dialling
  <2> QED  BY <1>1, <1>2, <1>11, <2>2 DEF CheckFree
<1>12. ASSUME NEW c \in CallId, NEW on \in BOOLEAN, Share(w, c, on) PROVE Kept'
  BY <1>1, <1>12 DEF Share
<1>13. CASE WriteCount(w) \/ WriteShared(w)
  BY <1>2, <1>13 DEF WriteCount, WriteShared
<1>14. ASSUME NEW u \in User, EndAll(w, u) \/ Reset(w, u) PROVE Kept'
  <2>1. req[w] = Idle /\ req' = req  BY <1>14 DEF EndAll, Reset
  <2> QED  BY <2>1 DEF Kept
<1>15. ASSUME UNCHANGED <<status, callee, shared, prior, missed, req>> PROVE Kept'
  BY <1>15 DEF Kept, KeptBy
<1>16. ASSUME Step(w) PROVE Kept'
  BY <1>3, <1>5, <1>6, <1>7, <1>8, <1>9, <1>10, <1>11, <1>12, <1>13, <1>14, <1>16 DEF Step
<1> QED  BY <1>15, <1>16 DEF Next, Age, vars, contractVars, otherVars

\* What is on record, who is on the way to the counter and the counters stay as they are.
LEMMA ExactStays ==
    ASSUME NEW w, Worker = {w}, NearlyExact, stale' = stale, lapsed' = lapsed, seen' = seen,
           missed' = missed, \A c \in lapsed : callee'[c] = callee[c],
           \A u \in User : OnItsWay(req[w], u)' <=> OnItsWay(req[w], u)
    PROVE  NearlyExact'
PROOF
<1>1. \A u \in User : ToCount(u)' <=> ToCount(u)  BY DEF ToCount
<1>2. \A u \in User : Unseen(u)' = Unseen(u)  BY DEF Unseen, LapsedFor
<1> QED  BY <1>1, <1>2 DEF NearlyExact

LEMMA ExactStep ==
    ASSUME NEW w, Worker = {w}, CallInv, Fresh, Final, Kept, NearlyExact, [Next]_vars
    PROVE  NearlyExact'
PROOF
<1>0. w \in Worker  OBVIOUS
<1>t. /\ status \in [CallId -> Status \cup {None}] /\ missed \in [User -> Nat]
      /\ callee \in [CallId -> User \cup {NoOne}]
      /\ lapsed \subseteq CallId /\ stale \subseteq CallId
  BY DEF CallInv, TypeOK
<1>w. \A u : ToCount(u) <=> OnItsWay(req[w], u)  BY DEF ToCount
<1>v. \A u : ToCount(u)' <=> OnItsWay(req[w], u)'  BY DEF ToCount
<1>r. ASSUME NEW r, Become(w, r) PROVE req'[w] = r
  BY <1>0, <1>r DEF Become, CallInv, TypeOK
<1>1. ASSUME NEW r, Become(w, r),
             req[w] = Idle \/ req[w].at \notin {"counting", "updated"},
             r = Idle \/ r.at \notin {"counting", "updated"},
             UNCHANGED <<stale, lapsed, seen, missed>>,
             \A c \in lapsed : callee'[c] = callee[c]
      PROVE  NearlyExact'
  BY <1>1, <1>r, ExactStays DEF OnItsWay
<1>2. ASSUME NEW u \in User, NEW v \in User, Dial(w, u, v) PROVE NearlyExact'
  <2>1. CASE stale = {}
    <3>1. lapsed' = lapsed  BY <2>1, <1>2 DEF Dial, BulkUpdate, Record
    <3> DEFINE r == [at |-> "expired", by |-> u, to |-> v]
    <3>2. Become(w, r) /\ r.at = "expired"  BY <1>2 DEF Dial
    <3> HIDE DEF r
    <3> QED  BY <1>1, <1>2, <3>1, <3>2 DEF Dial, BulkUpdate
  <2>2. CASE stale # {}  BY <2>2, <1>2 DEF Dial, BulkUpdate, NearlyExact
  <2> QED  BY <2>1, <2>2
<1>3. CASE CheckFree(w)
  <2>1. req[w] \in Dialling  BY <1>0, <1>3, Holds DEF CheckFree, CallInv
  <2>2. [req[w] EXCEPT !.at = "free"].at = "free"  BY <2>1 DEF Dialling
  <2> QED  BY <1>1, <1>3, <2>2 DEF CheckFree, contractVars, otherVars
<1>4. ASSUME NEW c \in CallId, Insert(w, c) PROVE NearlyExact'
  <2> DEFINE r == [at |-> "created", id |-> c]
  <2>1. Become(w, r) /\ r.at = "created"  BY <1>4 DEF Insert
  <2>2. c \notin lapsed  BY <1>4 DEF Insert, NextKey, Final, None
  <2>3. \A d \in lapsed : callee'[d] = callee[d]  BY <1>t, <1>4, <2>2 DEF Insert
  <2> HIDE DEF r
  <2> QED  BY <1>1, <1>4, <2>1, <2>3 DEF Insert, otherVars
<1>5. ASSUME NEW r, Become(w, r), r = Idle \/ r.at \in {"loaded", "stored", "sharing"},
             req[w] = Idle \/ req[w].at \notin {"counting", "updated"},
             UNCHANGED <<callee, stale, lapsed, seen, missed>>
      PROVE  NearlyExact'
  BY <1>1, <1>5
<1>6. CASE Push(w)
  <2> DEFINE r == [at |-> "loaded", id |-> req[w].id, new |-> "missed", flag |-> FALSE]
  <2>1. r.at = "loaded"  OBVIOUS
  <2>2. Become(w, Idle) \/ Become(w, r)  BY <1>6 DEF Push
  <2> HIDE DEF r
  <2> QED  BY <1>5, <1>6, <2>1, <2>2 DEF Push, contractVars, otherVars
<1>7. ASSUME NEW c \in CallId, Accept(w, c) \/ Decline(w, c) \/ End(w, c) PROVE NearlyExact'
  <2>1. PICK st : Become(w, [at |-> "loaded", id |-> c, new |-> st, flag |-> shared[c]])
    BY <1>7 DEF Accept, Decline, End, Decide
  <2> DEFINE r == [at |-> "loaded", id |-> c, new |-> st, flag |-> shared[c]]
  <2>2. Become(w, r) /\ r.at = "loaded"  BY <2>1
  <2> HIDE DEF r
  <2> QED  BY <1>5, <1>7, <2>2 DEF Accept, Decline, End, contractVars, otherVars
<1>8. CASE PreSave(w)
  <2>1. req[w] \in Saving  BY <1>0, <1>8, SavingFacts DEF PreSave
  <2>2. [req[w] EXCEPT !.at = "stored"].at = "stored"  BY <2>1 DEF Saving
  <2> QED  BY <1>5, <1>8, <2>2 DEF PreSave, contractVars
<1>9. CASE WriteRow(w)
  <2> DEFINE r == [req[w] EXCEPT !.at = "updated"]
             c == req[w].id
  <2>1. req[w] \in Saving /\ c \in CallId  BY <1>0, <1>9, SavingFacts DEF WriteRow
  <2>2. r.at = "updated" /\ r.id = c /\ r.new = req[w].new  BY <2>1 DEF Saving
  <2>3. req'[w] = r /\ r # Idle
    <3>1. Become(w, r)  BY <1>9 DEF WriteRow
    <3>2. r \in Saving  BY <2>1 DEF Saving
    <3>3. Idle \notin Saving  BY <2>1, IdleAssumption
    <3> QED  BY <1>r, <3>1, <3>2, <3>3
  <2>4. UNCHANGED <<callee, stale, seen, missed>>  BY <1>9 DEF WriteRow
  <2>5. \A u : ~ToCount(u)  BY <1>w, <1>9 DEF WriteRow, OnItsWay
  <2>6. \A u : ToCount(u)' <=> r.new = "missed" /\ callee[c] = u
    BY <1>v, <2>2, <2>3, <2>4 DEF OnItsWay
  <2>7. CASE r.new # "missed"
    <3>1. lapsed' = lapsed  BY <1>9, <2>2, <2>7 DEF WriteRow, Record
    <3> QED  BY <2>4, <2>5, <2>6, <2>7, <3>1 DEF NearlyExact, Unseen, LapsedFor
  <2>8. CASE r.new = "missed" /\ stale = {}
    <3>1. status[c] = "pending"
      BY <1>0, <1>9, <2>2, <2>8 DEF WriteRow, Fresh, Transitions
    <3>2. c \notin lapsed /\ c \notin seen  BY <3>1 DEF Final
    <3>3. lapsed' = lapsed \cup {c}  BY <1>9, <2>2, <2>8 DEF WriteRow, Record
    <3>4. IsFiniteSet(lapsed) /\ IsFiniteSet(lapsed')
      BY <2>8, <3>3, FS_AddElement DEF NearlyExact
    <3>5. ASSUME NEW u \in User
          PROVE  Cardinality(Unseen(u))' = missed'[u] + (IF ToCount(u)' THEN 1 ELSE 0)
      <4>1. Cardinality(Unseen(u)) = missed[u] /\ missed[u] \in Nat
        BY <1>t, <2>5, <2>8 DEF NearlyExact
      <4>2. IsFiniteSet(Unseen(u))  BY <3>4, FS_Subset DEF Unseen, LapsedFor
      <4>3. CASE callee[c] = u
        <5>1. Unseen(u)' = Unseen(u) \cup {c} /\ c \notin Unseen(u)
          BY <2>4, <3>2, <3>3, <4>3 DEF Unseen, LapsedFor
        <5>2. Cardinality(Unseen(u)') = Cardinality(Unseen(u)) + 1
          BY <4>2, <5>1, FS_AddElement
        <5> QED  BY <2>4, <2>6, <2>8, <4>1, <4>3, <5>2
      <4>4. CASE callee[c] # u
        <5>1. Unseen(u)' = Unseen(u)  BY <2>4, <3>3, <4>4 DEF Unseen, LapsedFor
        <5> QED  BY <2>4, <2>6, <4>1, <4>4, <5>1
      <4> QED  BY <4>3, <4>4
    <3> QED  BY <3>4, <3>5 DEF NearlyExact
  <2>9. CASE stale # {}  BY <2>4, <2>9 DEF NearlyExact
  <2> QED  BY <2>7, <2>8, <2>9
<1>10. CASE PostSave(w)
  <2> DEFINE r == [at |-> "counting", id |-> req[w].id, count |-> missed[callee[req[w].id]]]
  <2>1. r.at = "counting" /\ r.id = req[w].id  OBVIOUS
  <2>2. UNCHANGED <<callee, stale, lapsed, seen, missed>>  BY <1>10 DEF PostSave, contractVars
  <2>3. CASE req[w].new = "missed"
    <3>1. req'[w] = r
      <4>1. prior[ProcessOf[w]][req[w].id] # "missed"
        BY <1>0, <1>10, <2>3 DEF PostSave, Kept, KeptBy
      <4> QED  BY <1>10, <1>r, <2>3, <4>1 DEF PostSave
    <3>2. r # Idle
      <4>1. req[w].id \in CallId /\ status[req[w].id] # None
        <5>1. req[w] \in Saving  BY <1>0, <1>10, SavingFacts DEF PostSave
        <5>2. req[w] \notin Dialling  BY <5>1 DEF Saving, Dialling
        <5> QED  BY <1>0, <1>10, <5>1, <5>2, SavingFacts DEF PostSave, CallInv, Existing
      <4>2. callee[req[w].id] \in User  BY <4>1 DEF CallInv, Existing
      <4>3. r \in Counting  BY <1>t, <4>1, <4>2 DEF Counting
      <4> QED  BY <4>3, IdleAssumption
    <3> HIDE DEF r
    <3>3. \A u \in User : OnItsWay(req[w], u)' <=> OnItsWay(req[w], u)
      BY <1>10, <2>1, <2>2, <2>3, <3>1, <3>2 DEF PostSave, OnItsWay
    <3> QED  BY <2>2, <3>3, ExactStays
  <2>4. CASE req[w].new # "missed"
    <3>1. req'[w] = Idle  BY <1>10, <1>r, <2>4 DEF PostSave
    <3>2. \A u \in User : OnItsWay(req[w], u)' <=> OnItsWay(req[w], u)
      BY <1>10, <2>4, <3>1 DEF PostSave, OnItsWay
    <3> QED  BY <2>2, <3>2, ExactStays
  <2> QED  BY <2>3, <2>4
<1>11. CASE WriteCount(w)
  <2> DEFINE u == callee[req[w].id]
  <2>1. req[w].count = missed[u]  BY <1>0, <1>11 DEF WriteCount, Kept, KeptBy
  <2>2. UNCHANGED <<callee, stale, lapsed, seen>>  BY <1>11 DEF WriteCount, contractVars
  <2>3. req'[w] = Idle  BY <1>11, <1>r DEF WriteCount
  <2>4. \A v : ~ToCount(v)'  BY <1>v, <2>3 DEF OnItsWay
  <2>5. \A v : ToCount(v) <=> v = u  BY <1>w, <1>11 DEF WriteCount, OnItsWay
  <2>6. \A v \in User : missed'[v] = IF v = u THEN missed[u] + 1 ELSE missed[v]
    BY <1>t, <1>11, <2>1 DEF WriteCount
  <2>7. \A v \in User : Unseen(v)' = Unseen(v)  BY <2>2 DEF Unseen, LapsedFor
  <2> HIDE DEF u
  <2> QED  BY <1>t, <2>2, <2>4, <2>5, <2>6, <2>7 DEF NearlyExact
<1>12. ASSUME NEW c \in CallId, NEW on \in BOOLEAN, Share(w, c, on) PROVE NearlyExact'
  <2> DEFINE r == [at |-> "sharing", id |-> c, flag |-> on]
  <2>1. Become(w, r) /\ r.at = "sharing"  BY <1>12 DEF Share
  <2> HIDE DEF r
  <2> QED  BY <1>5, <1>12, <2>1 DEF Share, contractVars, otherVars
<1>13. CASE WriteShared(w)
  BY <1>5, <1>13 DEF WriteShared, contractVars
<1>14. ASSUME NEW u \in User, EndAll(w, u) PROVE NearlyExact'
  <2>1. UNCHANGED <<callee, stale, lapsed, seen, missed, req>>
    BY <1>14 DEF EndAll, BulkUpdate, Record
  <2> QED  BY <2>1, ExactStays DEF OnItsWay
<1>15. ASSUME NEW u \in User, Reset(w, u) PROVE NearlyExact'
  <2>1. UNCHANGED <<callee, stale, lapsed, req>> /\ req[w] = Idle /\ seen' = seen \cup LapsedFor(u)
    BY <1>15 DEF Reset, contractVars, LapsedFor
  <2>2. \A v : ~ToCount(v) /\ ~ToCount(v)'  BY <1>w, <1>v, <2>1 DEF OnItsWay
  <2>3. \A v \in User : missed'[v] = IF v = u THEN 0 ELSE missed[v]  BY <1>t, <1>15 DEF Reset
  <2>4. Unseen(u)' = {} /\ Cardinality(Unseen(u)') = 0
    BY <2>1, FS_EmptySet DEF Unseen, LapsedFor
  <2>5. \A v \in User : v # u => Unseen(v)' = Unseen(v)
    BY <2>1 DEF Unseen, LapsedFor
  <2> QED  BY <2>1, <2>2, <2>3, <2>4, <2>5 DEF NearlyExact
<1>16. ASSUME NEW c \in CallId, Age(c) PROVE NearlyExact'
  BY <1>16 DEF Age, NearlyExact
<1>17. ASSUME Step(w) PROVE NearlyExact'
  BY <1>2, <1>3, <1>4, <1>6, <1>7, <1>8, <1>9, <1>10, <1>11, <1>12, <1>13, <1>14, <1>15, <1>17
     DEF Step
<1>18. CASE UNCHANGED vars
  BY <1>18, ExactStays DEF vars, contractVars, otherVars, OnItsWay
<1> QED  BY <1>16, <1>17, <1>18 DEF Next

LEMMA SerialStarts == Init => SerialInv
PROOF
<1> SUFFICES ASSUME Init PROVE SerialInv  OBVIOUS
<1>1. CallInv  BY CallStart
<1>2. lapsed = {} /\ IsFiniteSet({}) /\ Cardinality({}) = 0  BY FS_EmptySet DEF Init
<1>3. \A u \in User : Unseen(u) = {} /\ missed[u] = 0 /\ ~ToCount(u)
  BY <1>2 DEF Init, Unseen, LapsedFor, ToCount, OnItsWay
<1>4. NearlyExact  BY <1>2, <1>3 DEF NearlyExact
<1>5. Fresh /\ Kept /\ Final  BY DEF Init, ContractInit, Fresh, Kept, Final
<1> QED  BY <1>1, <1>4, <1>5 DEF SerialInv

LEMMA SerialStep ==
    ASSUME NEW w, Worker = {w}, SerialInv, [Next]_vars
    PROVE  SerialInv'
BY CallStep, FreshStep, FinalStep, KeptStep, ExactStep DEF SerialInv

\* What a step of the only worker takes down, it was asked to stop.
LEMMA SharesStep ==
    ASSUME NEW w, Worker = {w}, SerialInv, Next,
           NEW c \in CallId, shared[c], ~shared'[c]
    PROVE  req[w] # Idle /\ req[w].at = "sharing" /\ req'[w] = Idle
PROOF
<1>0. w \in Worker /\ CallInv  BY DEF SerialInv
<1>t. shared \in [CallId -> BOOLEAN]  BY <1>0 DEF CallInv, TypeOK
<1>1. shared' # shared  OBVIOUS
<1>2. CASE WriteRow(w)
  <2>1. req[w].id \in CallId  BY <1>0, <1>2, SavingFacts DEF WriteRow
  <2>2. shared[req[w].id] => req[w].flag  BY <1>0, <1>2 DEF WriteRow, SerialInv, Kept, KeptBy
  <2> QED  BY <1>t, <1>2, <2>1, <2>2 DEF WriteRow
<1>3. CASE WriteShared(w)
  <2>1. req'[w] = Idle  BY <1>0, <1>3 DEF WriteShared, Become, CallInv, TypeOK
  <2> QED  BY <1>0, <1>3, <2>1 DEF WriteShared
<1> QED
  BY <1>1, <1>2, <1>3
     DEF Next, Age, Step, Dial, CheckFree, Insert, Push, Accept, Decline, End, PreSave, PostSave,
         WriteCount, Share, EndAll, Reset, BulkUpdate, otherVars

LEMMA SerialSays ==
    ASSUME SerialInv
    PROVE  AnsweredIsNotMissed /\ CounterExact
PROOF
<1>1. AnsweredIsNotMissed  BY DEF SerialInv, Final, AnsweredIsNotMissed
<1>2. CounterExact
  <2> SUFFICES ASSUME Quiet, stale = {}, NEW u \in User
               PROVE  missed[u] = Cardinality(LapsedFor(u) \ seen)
    BY DEF CounterExact
  <2>1. ~ToCount(u)  BY DEF Quiet, ToCount, OnItsWay
  <2>2. Cardinality(Unseen(u)) = missed[u] + 0  BY <2>1 DEF SerialInv, NearlyExact
  <2> QED  BY <2>2 DEF SerialInv, CallInv, TypeOK, Unseen
<1> QED  BY <1>1, <1>2

\* With one handler at a time the counter of missed calls is, between requests, the number
\* of calls missed since it was last reset, as long as none has rung for three minutes; and
\* no call that was picked up is filed as missed (_end_call_sync, the receivers of Call).
THEOREM SerialCountsMissed ==
    ASSUME NEW w, Worker = {w}
    PROVE  Spec => [](AnsweredIsNotMissed /\ CounterExact)
PROOF
<1>1. SerialInv /\ [Next]_vars => SerialInv'  BY SerialStep
<1>2. SerialInv => AnsweredIsNotMissed /\ CounterExact  BY SerialSays
<1> QED  BY <1>1, <1>2, SerialStarts, PTL DEF Spec

\* ... and a screen share is only taken down by a request to stop it: the whole rows that
\* the other handlers save carry the flag as it is.
THEOREM SerialSharesUntilStopped ==
    ASSUME NEW h, Worker = {h}
    PROVE  Spec => ShareStaysUntilStopped
PROOF
<1> DEFINE Stays == \A c \in CallId :
       (shared[c] /\ ~shared'[c]) =>
         \E w \in Worker : req[w] # Idle /\ req[w].at = "sharing" /\ req'[w] = Idle
<1>1. SerialInv /\ [Next]_vars => [Stays]_vars
  BY SharesStep
<1>2. SerialInv /\ [Next]_vars => SerialInv'  BY SerialStep
<1> QED  BY <1>1, <1>2, SerialStarts, PTL DEF Spec, ShareStaysUntilStopped
=============================================================================
