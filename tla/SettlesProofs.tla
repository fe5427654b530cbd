---------------------------- MODULE SettlesProofs ----------------------------
(***************************************************************************)
(* What holds of the parts of Settles for any users, calls, tabs, processes,  *)
(* readers, workers and people: the calls from CallProofs, the entries from   *)
(* ActionableProofs, presence and the cache here.                            *)
(***************************************************************************)
EXTENDS Settles, CallProofs, FiniteSetTheorems

EP == INSTANCE ActionableProofs
        WITH User <- Colleague, status <- state, req <- ereq, None <- Nothing

-----------------------------------------------------------------------------
(* Presence *)

\* The values the constants may have.
PresenceFits == IsFiniteSet(Socket) /\ Absent \notin Int

CountedTabs == {s \in Socket : sock[s] \in {"open", "checked"}}
Zeroed  == {s \in Socket : sock[s] = "zero"}

\* Only a failure of Redis leaves a socket uncounted.
SilentFailed == (\E s \in Socket : sock[s] = "silent") => "failure" \in past

\* A key without expiry is about to be deleted by the disconnect that made it.
Lasting ==
  "failure" \notin past /\ n # Absent /\ ttl = "never" => Zeroed # {}

\* What the counter is as long as nothing has disturbed the counting.
Exact ==
  past = {} =>
    /\ \A s, t \in P!Between : s = t
    /\ n = Absent => CountedTabs = {} /\ Zeroed = {}
    /\ n # Absent => n = Cardinality(CountedTabs)
    /\ Zeroed # {} => n # Absent /\ n <= 0
    /\ n # Absent /\ Zeroed = {} => n > 0

PresenceInv == P!TypeOK /\ SilentFailed /\ Lasting /\ P!NeverOvercounted /\ Exact

\* Whose step it was, and what it disturbs.
ByTab(s) == P!Step(s) /\ P!Disturbed(IF P!Between \ {s} # {} THEN {"overlap"} ELSE {})

-----------------------------------------------------------------------------

\* One socket moves, and is counted before or after the move, or both.
LEMMA TabMoved ==
    ASSUME PresenceFits, P!TypeOK, NEW s \in Socket, NEW stage \in P!Stages,
           P!Goto(s, stage)
    PROVE  /\ sock' \in [Socket -> P!Stages]
           /\ sock'[s] = stage
           /\ \A t \in Socket \ {s} : sock'[t] = sock[t]
           /\ CountedTabs' = IF stage \in {"open", "checked"} THEN CountedTabs \cup {s}
                                                           ELSE CountedTabs \ {s}
           /\ Zeroed' = IF stage = "zero" THEN Zeroed \cup {s} ELSE Zeroed \ {s}
           /\ P!Between' = IF stage \in {"checked", "zero"} THEN P!Between \cup {s}
                                                          ELSE P!Between \ {s}
BY DEF P!TypeOK, P!Goto, CountedTabs, Zeroed, P!Between

\* The number of counted sockets.
LEMMA TabCounting ==
    ASSUME PresenceFits
    PROVE  /\ IsFiniteSet(CountedTabs) /\ Cardinality(CountedTabs) \in Nat
           /\ \A s : Cardinality(CountedTabs \cup {s}) =
                       IF s \in CountedTabs THEN Cardinality(CountedTabs) ELSE Cardinality(CountedTabs) + 1
           /\ \A s : Cardinality(CountedTabs \ {s}) =
                       IF s \in CountedTabs THEN Cardinality(CountedTabs) - 1 ELSE Cardinality(CountedTabs)
           /\ Cardinality(CountedTabs) = 0 <=> CountedTabs = {}
PROOF
<1>1. IsFiniteSet(CountedTabs)  BY FS_Subset DEF CountedTabs, PresenceFits
<1> QED  BY <1>1, FS_CardinalityType, FS_AddElement, FS_RemoveElement, FS_EmptySet

LEMMA SameCount == ASSUME NEW Z PROVE P!Cardinality(Z) = Cardinality(Z)
BY DEF P!Cardinality, Cardinality

LEMMA TabsStart ==
    ASSUME PresenceFits
    PROVE  P!Init => PresenceInv
PROOF
<1> SUFFICES ASSUME P!Init PROVE PresenceInv  OBVIOUS
<1>1. P!TypeOK  BY DEF P!Init, P!TypeOK, P!Stages
<1>2. CountedTabs = {} /\ Zeroed = {} /\ P!Between = {}
  BY DEF P!Init, CountedTabs, Zeroed, P!Between
<1>3. SilentFailed /\ Lasting /\ P!NeverOvercounted
  BY DEF P!Init, SilentFailed, Lasting, P!NeverOvercounted
<1>4. Exact  BY <1>2 DEF P!Init, Exact
<1> QED  BY <1>1, <1>3, <1>4 DEF PresenceInv

LEMMA TabTypeKept ==
    ASSUME P!TypeOK, [P!Next]_(P!vars)
    PROVE  P!TypeOK'
PROOF
<1>1. ASSUME NEW s \in Socket, P!Step(s) \/ P!ConnectSilently(s) \/ P!Abandon(s)
      PROVE  /\ n' \in Int \cup {Absent} /\ ttl' \in {"fresh", "due", "never"}
             /\ sock' \in [Socket -> P!Stages]
  <2>1. CASE P!Connect(s)  BY <2>1 DEF P!Connect, P!Goto, P!TypeOK, P!Stages
  <2>2. CASE P!Ping(s)  BY <2>2 DEF P!Ping, P!TypeOK
  <2>3. CASE P!Leave(s)  BY <2>3 DEF P!Leave, P!Goto, P!TypeOK, P!Stages
  <2>4. CASE P!Decrement(s)  BY <2>4 DEF P!Decrement, P!Goto, P!TypeOK, P!Stages
  <2>5. CASE P!Delete(s)  BY <2>5 DEF P!Delete, P!Goto, P!TypeOK, P!Stages
  <2>6. CASE P!ConnectSilently(s) \/ P!Abandon(s)
    BY <2>6 DEF P!ConnectSilently, P!Abandon, P!Goto, P!TypeOK, P!Stages
  <2> QED  BY <1>1, <2>1, <2>2, <2>3, <2>4, <2>5, <2>6 DEF P!Step
<1>2. CASE \E s \in Socket : ByTab(s)
  BY <1>1, <1>2 DEF ByTab, P!Disturbed, P!Disturbances, P!TypeOK
<1>3. CASE \E s \in Socket : (P!ConnectSilently(s) \/ P!Abandon(s)) /\ P!Disturbed({"failure"})
  BY <1>1, <1>3 DEF P!Disturbed, P!Disturbances, P!TypeOK
<1>4. CASE \/ P!LogOut /\ P!Disturbed({"logout"})
           \/ P!Tick /\ P!Disturbed({})
           \/ P!Expire /\ P!Disturbed({"expiry"})
  BY <1>4 DEF P!LogOut, P!Tick, P!Expire, P!Disturbed, P!Disturbances, P!TypeOK
<1>5. CASE UNCHANGED P!vars  BY <1>5 DEF P!vars, P!state, P!TypeOK
<1> QED  BY <1>2, <1>3, <1>4, <1>5 DEF P!Next, ByTab, P!Disturbed

\* A call of a socket's own.
LEMMA TabStepKeeps ==
    ASSUME PresenceFits, PresenceInv, NEW s \in Socket, ByTab(s)
    PROVE  SilentFailed' /\ Lasting' /\ P!NeverOvercounted' /\ Exact'
PROOF
<1> USE DEF PresenceInv
<1>1. past \subseteq past' /\ (past' = {} => past = {} /\ P!Between \subseteq {s})
  BY DEF ByTab, P!Disturbed
<1>2. "failure" \notin past' => \A t \in Socket : sock[t] # "silent"
  BY <1>1 DEF SilentFailed
<1>3. P!NeverOvercounted <=> ("failure" \notin past /\ n # Absent => n <= Cardinality(CountedTabs))
  BY SameCount DEF P!NeverOvercounted, CountedTabs
<1>4. P!NeverOvercounted' <=> ("failure" \notin past' /\ n' # Absent => n' <= Cardinality(CountedTabs'))
  BY SameCount DEF P!NeverOvercounted, CountedTabs
<1>5. n \in Int \cup {Absent} /\ sock \in [Socket -> P!Stages]  BY DEF P!TypeOK
<1>6. CASE P!Connect(s)
  <2>1. sock[s] = "closed" /\ n' = (IF n = Absent THEN 1 ELSE n + 1) /\ ttl' = "fresh"
        /\ P!Goto(s, "open")
    BY <1>6 DEF P!Connect
  <2>2. /\ CountedTabs' = CountedTabs \cup {s} /\ Zeroed' = Zeroed \ {s}
        /\ P!Between' = P!Between \ {s} /\ s \notin CountedTabs /\ s \notin Zeroed /\ s \notin P!Between
        /\ sock'[s] = "open" /\ \A t \in Socket \ {s} : sock'[t] = sock[t]
    BY <2>1, TabMoved DEF P!Stages, CountedTabs, Zeroed, P!Between
  <2>3. Cardinality(CountedTabs') = Cardinality(CountedTabs) + 1 /\ Cardinality(CountedTabs) \in Nat
    BY <2>2, TabCounting
  <2>4. SilentFailed' /\ Lasting'  BY <1>1, <2>1, <2>2 DEF SilentFailed, Lasting
  <2>5. P!NeverOvercounted'  BY <1>1, <1>3, <1>4, <1>5, <2>1, <2>3
  <2>6. Exact'
    <3> SUFFICES ASSUME past' = {} PROVE Exact'  BY DEF Exact
    <3>1. past = {} /\ P!Between = {}  BY <1>1, <2>2
    <3>2. Zeroed = {}  BY <3>1 DEF Zeroed, P!Between
    <3>3. n = Absent => Cardinality(CountedTabs) = 0  BY <3>1, TabCounting DEF Exact
    <3>4. n' = Cardinality(CountedTabs') /\ n' > 0 
      BY <1>5, <2>1, <2>3, <3>1, <3>3 DEF Exact
    <3>5. P!Between' = {} /\ Zeroed' = {}  BY <2>2, <3>1, <3>2
    <3>6. n' # Absent  BY <1>5, <2>1 DEF PresenceFits
    <3> QED  BY <3>4, <3>5, <3>6 DEF Exact
  <2> QED  BY <2>4, <2>5, <2>6
<1>7. CASE P!Ping(s)
  <2>1. UNCHANGED <<n, sock>> /\ ttl' = "fresh"  BY <1>7 DEF P!Ping
  <2>2. CountedTabs' = CountedTabs /\ Zeroed' = Zeroed /\ P!Between' = P!Between
    BY <2>1 DEF CountedTabs, Zeroed, P!Between
  <2> QED  BY <1>1, <1>3, <1>4, <2>1, <2>2 DEF SilentFailed, Lasting, Exact
<1>8. CASE P!Leave(s)
  <2> DEFINE stage == IF sock[s] = "silent" \/ n = Absent THEN "closed" ELSE "checked"
  <2>1. sock[s] \in {"open", "silent"} /\ UNCHANGED <<n, ttl>> /\ P!Goto(s, stage)
    BY <1>8 DEF P!Leave
  <2>2. /\ CountedTabs' = (IF stage = "checked" THEN CountedTabs \cup {s} ELSE CountedTabs \ {s})
        /\ Zeroed' = Zeroed \ {s} /\ s \notin Zeroed /\ s \notin P!Between
        /\ P!Between' = (IF stage = "checked" THEN P!Between \cup {s} ELSE P!Between \ {s})
        /\ sock'[s] = stage /\ \A t \in Socket \ {s} : sock'[t] = sock[t]
    BY <2>1, TabMoved DEF P!Stages, Zeroed, P!Between
  <2>3. SilentFailed' /\ Lasting'  BY <1>1, <2>1, <2>2 DEF SilentFailed, Lasting
  <2>4. "failure" \notin past' /\ n # Absent => stage = "checked" /\ s \in CountedTabs
    BY <1>2, <2>1 DEF CountedTabs
  <2>5. P!NeverOvercounted'
    <3> SUFFICES ASSUME "failure" \notin past', n' # Absent
                 PROVE  n' <= Cardinality(CountedTabs')
      BY <1>4
    <3>1. CountedTabs' = CountedTabs  BY <2>1, <2>2, <2>4
    <3> QED  BY <1>1, <1>3, <2>1, <3>1
  <2>6. Exact'
    <3> SUFFICES ASSUME past' = {} PROVE Exact'  BY DEF Exact
    <3>1. past = {} /\ P!Between = {}  BY <1>1, <2>2
    <3>2. s \in CountedTabs  BY <1>2, <2>1 DEF CountedTabs
    <3>3. n # Absent  BY <3>1, <3>2 DEF Exact
    <3>4. CountedTabs' = CountedTabs /\ Zeroed' = Zeroed /\ P!Between' = {s}
      BY <2>1, <2>2, <2>4, <3>1, <3>2, <3>3
    <3> QED  BY <2>1, <3>1, <3>3, <3>4 DEF Exact
  <2> QED  BY <2>3, <2>5, <2>6
<1>9. CASE P!Decrement(s)
  <2> DEFINE v == (IF n = Absent THEN 0 ELSE n) - 1
             stage == IF v <= 0 THEN "zero" ELSE "closed"
  <2>1. /\ sock[s] = "checked" /\ n' = v /\ P!Goto(s, stage)
        /\ ttl' = IF n = Absent THEN "never" ELSE ttl
    BY <1>9 DEF P!Decrement
  <2>2. /\ CountedTabs' = CountedTabs \ {s} /\ s \in CountedTabs /\ s \in P!Between
        /\ Zeroed' = (IF stage = "zero" THEN Zeroed \cup {s} ELSE Zeroed \ {s})
        /\ s \notin Zeroed
        /\ P!Between' = (IF stage = "zero" THEN P!Between \cup {s} ELSE P!Between \ {s})
        /\ sock'[s] = stage /\ \A t \in Socket \ {s} : sock'[t] = sock[t]
    BY <2>1, TabMoved DEF P!Stages, CountedTabs, Zeroed, P!Between
  <2>3. /\ Cardinality(CountedTabs') = Cardinality(CountedTabs) - 1
        /\ Cardinality(CountedTabs) \in Nat /\ Cardinality(CountedTabs) # 0
    BY <2>2, TabCounting
  <2>4. v \in Int /\ (n = Absent => v = -1) /\ (n # Absent => v = n - 1)  BY <1>5
  <2>5. SilentFailed'  BY <1>1, <2>2 DEF SilentFailed
  <2>6. Lasting'
    <3>1. n = Absent => s \in Zeroed'  BY <2>2, <2>4
    <3>2. Zeroed # {} => Zeroed' # {}  BY <2>2
    <3> QED  BY <1>1, <2>1, <3>1, <3>2 DEF Lasting
  <2>7. P!NeverOvercounted'
    <3>1. n' = v  BY <2>1
    <3> HIDE DEF v
    <3>2. CASE n = Absent  BY <1>4, <2>3, <2>4, <3>1, <3>2
    <3>3. CASE n # Absent  BY <1>1, <1>3, <1>4, <1>5, <2>3, <2>4, <3>1, <3>3
    <3> QED  BY <3>2, <3>3
  <2>8. Exact'
    <3> SUFFICES ASSUME past' = {} PROVE Exact'  BY DEF Exact
    <3>1. past = {} /\ P!Between = {s} /\ P!Between' \subseteq {s}  BY <1>1, <2>2
    <3>2. Zeroed = {}  BY <2>2, <3>1 DEF Zeroed, P!Between
    <3>3. n # Absent /\ n = Cardinality(CountedTabs)  BY <2>2, <3>1 DEF Exact
    <3>4. n' = Cardinality(CountedTabs')  BY <2>1, <2>3, <2>4, <3>3
    <3>5. Zeroed' # {} => n' <= 0  BY <2>1, <2>2, <3>2
    <3>6. Zeroed' = {} => n' > 0  BY <2>1, <2>2, <2>4
    <3>7. n' # Absent
      BY <2>1, <2>4 DEF PresenceFits
    <3> QED  BY <3>1, <3>4, <3>5, <3>6, <3>7 DEF Exact
  <2> QED  BY <2>5, <2>6, <2>7, <2>8
<1>10. CASE P!Delete(s)
  <2>1. sock[s] = "zero" /\ n' = Absent /\ P!Goto(s, "closed")  BY <1>10 DEF P!Delete
  <2>2. /\ CountedTabs' = CountedTabs \ {s} /\ s \notin CountedTabs /\ s \in P!Between
        /\ Zeroed' = Zeroed \ {s} /\ s \in Zeroed
        /\ P!Between' = P!Between \ {s}
        /\ sock'[s] = "closed" /\ \A t \in Socket \ {s} : sock'[t] = sock[t]
    BY <2>1, TabMoved DEF P!Stages, CountedTabs, Zeroed, P!Between
  <2>3. SilentFailed' /\ Lasting' /\ P!NeverOvercounted'
    BY <1>1, <1>4, <2>1, <2>2 DEF SilentFailed, Lasting
  <2>4. Exact'
    <3> SUFFICES ASSUME past' = {} PROVE Exact'  BY DEF Exact
    <3>1. past = {} /\ P!Between = {s}  BY <1>1, <2>2
    <3>2. Zeroed' = {} /\ P!Between' = {}  BY <2>2, <3>1 DEF Zeroed, P!Between
    <3>3. n # Absent /\ n <= 0 /\ n = Cardinality(CountedTabs)  BY <2>2, <3>1 DEF Exact
    <3>4. CountedTabs = {}  BY <3>3, TabCounting
    <3> QED  BY <2>1, <2>2, <3>2, <3>4 DEF Exact
  <2> QED  BY <2>3, <2>4
<1> QED  BY <1>6, <1>7, <1>8, <1>9, <1>10 DEF ByTab, P!Step

LEMMA TabsKept ==
    ASSUME PresenceFits, PresenceInv, [P!Next]_(P!vars)
    PROVE  PresenceInv'
PROOF
<1>1. P!TypeOK'  BY TabTypeKept DEF PresenceInv
<1>2. CASE \E s \in Socket : ByTab(s)  BY <1>1, <1>2, TabStepKeeps DEF PresenceInv
<1>3. CASE \E s \in Socket : (P!ConnectSilently(s) \/ P!Abandon(s)) /\ P!Disturbed({"failure"})
  BY <1>1, <1>3 DEF P!Disturbed, PresenceInv, SilentFailed, Lasting, P!NeverOvercounted, Exact
<1>4. CASE (P!LogOut /\ P!Disturbed({"logout"})) \/ (P!Expire /\ P!Disturbed({"expiry"}))
  <2>1. past' # {} /\ n' = Absent /\ sock' = sock /\ past \subseteq past'
    BY <1>4 DEF P!LogOut, P!Expire, P!Disturbed
  <2> QED
    BY <1>1, <2>1 DEF PresenceInv, SilentFailed, Lasting, P!NeverOvercounted, Exact
<1>5. CASE (P!Tick /\ P!Disturbed({})) \/ UNCHANGED P!vars
  <2>1. UNCHANGED <<n, sock, past>> /\ (ttl' = "never" => ttl = "never")
    BY <1>5 DEF P!Tick, P!Disturbed, P!vars, P!state
  <2>2. CountedTabs' = CountedTabs /\ Zeroed' = Zeroed /\ P!Between' = P!Between
    BY <2>1 DEF CountedTabs, Zeroed, P!Between
  <2> QED
    BY <1>1, <2>1, <2>2 DEF PresenceInv, SilentFailed, Lasting, P!NeverOvercounted, Exact
<1> QED  BY <1>2, <1>3, <1>4, <1>5 DEF P!Next, ByTab, P!Disturbed

-----------------------------------------------------------------------------
(* The cache *)

\* The bound is a number, Missing is no version and Idle no request.
CacheFits == /\ MaxVersion \in Nat /\ Missing \notin 0..MaxVersion
             /\ Idle \notin C!Reading \cup C!Writing

\* What a cached answer may lack: nothing that its reader has been told of, and, where
\* the affected users are found, nothing that anybody has been told of.
Current(u) == entry[u] >= own[u] /\ (kind # "list" => entry[u] >= all)

\* What a request in progress knows, as long as there is one at a time.
KnowsOf(q) ==
  /\ q.at \in {"miss", "read"} =>
       q.own = own[q.user] /\ q.all = all /\ (q.at = "read" => q.got = version)
  /\ q.at \in {"written", "signalled"} => q.made <= version
  /\ q.at = "signalled" /\ kind \in {"chat", "entries"} => \A u \in Reader : entry[u] = Missing

\* What has been answered is in the database.
Answered == all <= version /\ \A u \in Reader : own[u] <= version

OneByOne ==
  ~crossed =>
    /\ \A v, w \in Server : creq[v] # Idle /\ creq[w] # Idle => v = w
    /\ \A u \in Reader : entry[u] # Missing => Current(u)
    /\ \A w \in Server : creq[w] # Idle => KnowsOf(creq[w])
    /\ served.got >= served.own /\ (kind # "list" => served.got >= served.all)

MadeBefore == \A w \in Server :
                creq[w] # Idle /\ creq[w].at \in {"written", "signalled"} => creq[w].made <= version

CacheInv == C!TypeOK /\ Answered /\ MadeBefore /\ OneByOne

LEMMA CacheRequest ==
    ASSUME C!TypeOK, NEW w \in Server, creq[w] # Idle
    PROVE  /\ creq[w].at \in {"miss", "read"} => creq[w] \in C!Reading
           /\ creq[w].at \in {"written", "signalled"} => creq[w] \in C!Writing
           /\ creq[w].user \in Reader
BY DEF C!TypeOK, C!Reading, C!Writing

LEMMA CacheBecomes ==
    ASSUME C!TypeOK, NEW w \in Server, NEW q \in {Idle} \cup C!Reading \cup C!Writing,
           C!Become(w, q)
    PROVE  /\ creq' \in [Server -> {Idle} \cup C!Reading \cup C!Writing]
           /\ creq'[w] = q /\ \A v \in Server \ {w} : creq'[v] = creq[v]
BY DEF C!TypeOK, C!Become

LEMMA CacheStarts ==
    ASSUME CacheFits
    PROVE  C!Init => CacheInv
PROOF
<1> SUFFICES ASSUME C!Init PROVE CacheInv  OBVIOUS
<1>0. 0 \in C!Versions  BY DEF CacheFits, C!Versions
<1>1. C!TypeOK  BY <1>0 DEF C!Init, C!TypeOK
<1>2. /\ version = 0 /\ all = 0 /\ \A u \in Reader : own[u] = 0 /\ entry[u] = Missing
      /\ \A w \in Server : creq[w] = Idle
      /\ served.got = 0 /\ served.own = 0 /\ served.all = 0
  BY DEF C!Init
<1> QED  BY <1>1, <1>2 DEF CacheInv, Answered, MadeBefore, OneByOne

\* A step of worker w that leaves the row as it is, unless it says so.
LEMMA CacheStepKept ==
    ASSUME CacheFits, CacheInv, NEW w \in Server, C!Step(w),
           crossed' = (crossed \/ C!Others(w))
    PROVE  CacheInv'
PROOF
<1> DEFINE q == creq[w]
<1> USE DEF CacheFits, C!Versions
<1>0. /\ kind \in C!Kind /\ version \in Nat /\ version <= MaxVersion
      /\ entry \in [Reader -> C!Versions \cup {Missing}]
      /\ own \in [Reader -> C!Versions] /\ all \in C!Versions
      /\ served \in [got : C!Versions, own : C!Versions, all : C!Versions]
      /\ crossed \in BOOLEAN
  BY DEF CacheInv, C!TypeOK
<1>1. C!TypeOK /\ Answered /\ MadeBefore /\ OneByOne  BY DEF CacheInv
<1>2. crossed' \in BOOLEAN  BY <1>0 DEF C!Others
<1>3. ~crossed' => ~crossed /\ \A v \in Server \ {w} : creq[v] = Idle
  BY <1>0 DEF C!Others
<1>4. ASSUME NEW u \in Reader, C!Hit(w, u) PROVE CacheInv'
  <2>1. /\ entry[u] # Missing /\ UNCHANGED <<kind, version, entry, creq, own, all>>
        /\ served' = [got |-> entry[u], own |-> own[u], all |-> all]
    BY <1>4 DEF C!Hit, C!Answer
  <2>2. C!TypeOK'  BY <1>0, <1>1, <1>2, <2>1 DEF C!TypeOK
  <2>3. ~crossed' => Current(u)  BY <1>1, <1>3, <2>1 DEF OneByOne
  <2>4. OneByOne'
    BY <1>1, <1>3, <2>1, <2>3 DEF OneByOne, Current, KnowsOf
  <2> QED  BY <1>1, <2>1, <2>2, <2>4 DEF CacheInv, Answered, MadeBefore
<1>5. ASSUME NEW u \in Reader, C!Miss(w, u) PROVE CacheInv'
  <2> DEFINE r == [at |-> "miss", user |-> u, got |-> 0, own |-> own[u], all |-> all]
  <2>1. C!Become(w, r) /\ UNCHANGED <<kind, version, entry, own, all, served>>
    BY <1>5 DEF C!Miss
  <2>2. r \in C!Reading  BY <1>0 DEF C!Reading
  <2>3. /\ creq' \in [Server -> {Idle} \cup C!Reading \cup C!Writing]
        /\ creq'[w] = r /\ \A v \in Server \ {w} : creq'[v] = creq[v]
    BY <1>1, <2>1, <2>2, CacheBecomes
  <2>4. C!TypeOK'  BY <1>0, <1>1, <1>2, <2>1, <2>3 DEF C!TypeOK
  <2>5. OneByOne'  BY <1>1, <1>3, <2>1, <2>3 DEF OneByOne, Current, KnowsOf
  <2> QED  BY <1>1, <2>1, <2>3, <2>4, <2>5 DEF CacheInv, Answered, MadeBefore
<1>6. CASE C!View(w)
  <2> DEFINE r == [q EXCEPT !.at = "read", !.got = version]
  <2>1. /\ q # Idle /\ q.at = "miss"
        /\ C!Become(w, r) /\ UNCHANGED <<kind, version, entry, own, all, served>>
    BY <1>6 DEF C!View, C!At
  <2>2. q \in C!Reading  BY <1>1, <2>1, CacheRequest
  <2>a. version \in C!Versions  BY <1>0
  <2>3. /\ r \in C!Reading /\ r.at = "read" /\ r.got = version
        /\ r.own = q.own /\ r.all = q.all /\ r.user = q.user
    <3> HIDE DEF C!Versions
    <3> QED  BY <2>2, <2>a DEF C!Reading
  <2>4. ~crossed' => q.own = own[q.user] /\ q.all = all
    BY <1>1, <1>3, <2>1 DEF OneByOne, KnowsOf
  <2> HIDE DEF r
  <2>5. /\ creq' \in [Server -> {Idle} \cup C!Reading \cup C!Writing]
        /\ creq'[w] = r /\ \A v \in Server \ {w} : creq'[v] = creq[v]
    BY <1>1, <2>1, <2>3, CacheBecomes
  <2>6. C!TypeOK'  BY <1>0, <1>1, <1>2, <2>1, <2>5 DEF C!TypeOK
  <2>7. OneByOne'  BY <1>1, <1>3, <2>1, <2>3, <2>4, <2>5 DEF OneByOne, Current, KnowsOf
  <2> QED  BY <1>1, <2>1, <2>3, <2>5, <2>6, <2>7 DEF CacheInv, Answered, MadeBefore
<1>7. CASE C!Fill(w)
  <2>1. /\ q # Idle /\ q.at = "read" /\ C!Become(w, Idle)
        /\ C!File(C!SharedWith(q.user), q.got) /\ C!Answer(q)
        /\ UNCHANGED <<kind, version, own, all>>
    BY <1>7 DEF C!Fill, C!At
  <2>2. q \in C!Reading  BY <1>1, <2>1, CacheRequest
  <2>3. q.got \in C!Versions /\ q.own \in C!Versions /\ q.all \in C!Versions /\ q.user \in Reader
    BY <2>2 DEF C!Reading
  <2>4. /\ creq' \in [Server -> {Idle} \cup C!Reading \cup C!Writing]
        /\ creq'[w] = Idle /\ \A v \in Server \ {w} : creq'[v] = creq[v]
    BY <1>1, <2>1, CacheBecomes
  <2>5. /\ entry' \in [Reader -> C!Versions \cup {Missing}]
        /\ \A u \in Reader : entry'[u] \in {entry[u], q.got}
    BY <1>0, <2>1, <2>3 DEF C!File
  <2>6. served' = [got |-> q.got, own |-> q.own, all |-> q.all]
    BY <2>1 DEF C!Answer
  <2>7. C!TypeOK'  BY <1>0, <1>2, <2>1, <2>3, <2>4, <2>5, <2>6 DEF C!TypeOK
  <2>8. OneByOne'
    <3> SUFFICES ASSUME ~crossed' PROVE OneByOne'  BY DEF OneByOne
    <3>1. q.got = version /\ q.own = own[q.user] /\ q.all = all
      BY <1>1, <1>3, <2>1 DEF OneByOne, KnowsOf
    <3>2. \A u \in Reader : version >= own[u] /\ version >= all
      BY <1>0, <1>1 DEF Answered
    <3>3. \A u \in Reader : entry'[u] # Missing => Current(u)'
      BY <1>1, <1>3, <2>1, <2>5, <3>1, <3>2 DEF OneByOne, Current
    <3>4. served'.got >= served'.own /\ served'.got >= served'.all
      BY <2>3, <2>6, <3>1, <3>2
    <3> QED  BY <1>3, <2>4, <3>3, <3>4 DEF OneByOne
  <2> QED  BY <1>1, <2>1, <2>4, <2>7, <2>8 DEF CacheInv, Answered, MadeBefore
<1>8. ASSUME NEW u \in Reader, C!Mutate(w, u) PROVE CacheInv'
  <2> DEFINE r == [at |-> "written", user |-> u, made |-> version + 1]
  <2>1. /\ version < MaxVersion /\ version' = version + 1 /\ C!Become(w, r)
        /\ UNCHANGED <<kind, entry, own, all, served>>
    BY <1>8 DEF C!Mutate
  <2>2. version' \in C!Versions  BY <1>0, <2>1
  <2>3. r \in C!Writing  BY <2>1, <2>2 DEF C!Writing
  <2>4. /\ creq' \in [Server -> {Idle} \cup C!Reading \cup C!Writing]
        /\ creq'[w] = r /\ \A v \in Server \ {w} : creq'[v] = creq[v]
    BY <1>1, <2>1, <2>3, CacheBecomes
  <2>5. C!TypeOK'  BY <1>0, <1>2, <2>1, <2>2, <2>4 DEF C!TypeOK
  <2>6. Answered'  BY <1>0, <1>1, <2>1 DEF Answered
  <2>7. MadeBefore'
    <3> SUFFICES ASSUME NEW v \in Server, creq'[v] # Idle,
                        creq'[v].at \in {"written", "signalled"}
                 PROVE  creq'[v].made <= version'
      BY DEF MadeBefore
    <3>1. CASE v = w  BY <1>0, <2>1, <2>4, <3>1
    <3>2. CASE v # w
      <4>1. creq[v] \in C!Writing /\ creq[v].made <= version
        BY <1>1, <2>4, <3>2, CacheRequest DEF MadeBefore
      <4>2. creq[v].made \in Nat  BY <4>1 DEF C!Writing
      <4> QED  BY <1>0, <2>1, <2>4, <3>2, <4>1, <4>2
    <3> QED  BY <3>1, <3>2
  <2>8. OneByOne'  BY <1>0, <1>1, <1>3, <2>1, <2>4 DEF OneByOne, Current, KnowsOf
  <2> QED  BY <2>5, <2>6, <2>7, <2>8 DEF CacheInv
<1>9. CASE C!Signal(w)
  <2> DEFINE r == [q EXCEPT !.at = "signalled"]
  <2>1. /\ q # Idle /\ q.at = "written" /\ C!Become(w, r)
        /\ C!File(C!Affected(q.user), Missing)
        /\ UNCHANGED <<kind, version, own, all, served>>
    BY <1>9 DEF C!Signal, C!At
  <2>2. q \in C!Writing  BY <1>1, <2>1, CacheRequest
  <2>3. r \in C!Writing /\ r.at = "signalled" /\ r.made = q.made  BY <2>2 DEF C!Writing
  <2> HIDE DEF r
  <2>4. /\ creq' \in [Server -> {Idle} \cup C!Reading \cup C!Writing]
        /\ creq'[w] = r /\ \A v \in Server \ {w} : creq'[v] = creq[v]
    BY <1>1, <2>1, <2>3, CacheBecomes
  <2>5. /\ entry' \in [Reader -> C!Versions \cup {Missing}]
        /\ \A u \in Reader : entry'[u] \in {entry[u], Missing}
        /\ kind \in {"chat", "entries"} => \A u \in Reader : entry'[u] = Missing
    BY <1>0, <2>1 DEF C!File, C!Affected
  <2>6. C!TypeOK'  BY <1>0, <1>2, <2>1, <2>4, <2>5 DEF C!TypeOK
  <2>7. q.made <= version  BY <1>1, <2>1 DEF MadeBefore
  <2>8. OneByOne'
    BY <1>1, <1>3, <2>1, <2>3, <2>4, <2>5, <2>7 DEF OneByOne, Current, KnowsOf
  <2> QED  BY <1>1, <2>1, <2>3, <2>4, <2>6, <2>7, <2>8 DEF CacheInv, Answered, MadeBefore
<1>10. CASE C!Respond(w)
  <2>1. /\ q # Idle /\ q.at = "signalled" /\ C!Become(w, Idle)
        /\ C!File(C!DroppedAtEnd(q.user), Missing) /\ C!Acknowledge(q)
        /\ UNCHANGED <<kind, version, served>>
    BY <1>10 DEF C!Respond, C!At
  <2>2. q \in C!Writing /\ q.made <= version  BY <1>1, <2>1, CacheRequest DEF MadeBefore
  <2>3. q.user \in Reader /\ q.made \in C!Versions  BY <2>2 DEF C!Writing
  <2>4. /\ creq' \in [Server -> {Idle} \cup C!Reading \cup C!Writing]
        /\ creq'[w] = Idle /\ \A v \in Server \ {w} : creq'[v] = creq[v]
    BY <1>1, <2>1, CacheBecomes
  <2>5. /\ own' \in [Reader -> C!Versions] /\ own'[q.user] \in {own[q.user], q.made}
        /\ \A u \in Reader \ {q.user} : own'[u] = own[u]
        /\ all' \in {all, q.made}
    BY <1>0, <2>1, <2>3 DEF C!Acknowledge
  <2>6. /\ entry' \in [Reader -> C!Versions \cup {Missing}]
        /\ \A u \in Reader : entry'[u] \in {entry[u], Missing}
        /\ kind # "chat" => entry'[q.user] = Missing
        /\ kind = "alerts" => \A u \in Reader : entry'[u] = Missing
    BY <1>0, <2>1, <2>3 DEF C!File, C!DroppedAtEnd
  <2>7. C!TypeOK'  BY <1>0, <1>2, <2>1, <2>3, <2>4, <2>5, <2>6 DEF C!TypeOK
  <2>8. Answered'  BY <1>1, <2>1, <2>2, <2>5 DEF Answered
  <2>9. OneByOne'
    <3> SUFFICES ASSUME ~crossed' PROVE OneByOne'  BY DEF OneByOne
    <3>1. kind \in {"chat", "entries"} => \A u \in Reader : entry[u] = Missing
      BY <1>1, <1>3, <2>1 DEF OneByOne, KnowsOf
    <3>2. ASSUME NEW u \in Reader, entry'[u] # Missing PROVE Current(u)'
      <4>1. kind = "list" /\ u # q.user /\ entry'[u] = entry[u]
        BY <1>0, <2>6, <3>1, <3>2 DEF C!Kind
      <4>2. Current(u)  BY <1>1, <1>3, <3>2, <4>1 DEF OneByOne
      <4> QED  BY <2>1, <2>5, <4>1, <4>2 DEF Current
    <3>3. served'.got >= served'.own /\ (kind' # "list" => served'.got >= served'.all)
      BY <1>1, <1>3, <2>1 DEF OneByOne
    <3> QED  BY <1>3, <2>4, <3>2, <3>3 DEF OneByOne
  <2> QED  BY <1>1, <2>1, <2>4, <2>7, <2>8, <2>9 DEF CacheInv, MadeBefore
<1> QED  BY <1>4, <1>5, <1>6, <1>7, <1>8, <1>9, <1>10 DEF C!Step

LEMMA CacheKept ==
    ASSUME CacheFits, CacheInv, [C!Next]_(C!vars)
    PROVE  CacheInv'
PROOF
<1>1. ASSUME NEW w \in Server, C!Step(w), crossed' = (crossed \/ C!Others(w)) PROVE CacheInv'
  BY <1>1, CacheStepKept
<1>2. ASSUME NEW u \in Reader, C!Expire(u), UNCHANGED crossed PROVE CacheInv'
  <2>1. /\ UNCHANGED <<kind, version, creq, own, all, served, crossed>>
        /\ entry' \in [Reader -> C!Versions \cup {Missing}]
        /\ \A v \in Reader : entry'[v] \in {entry[v], Missing}
    BY <1>2 DEF C!Expire, C!File, CacheInv, C!TypeOK
  <2>2. C!TypeOK'  BY <2>1 DEF CacheInv, C!TypeOK
  <2>3. OneByOne'
    BY <2>1 DEF CacheInv, OneByOne, Current, KnowsOf
  <2> QED  BY <2>1, <2>2, <2>3 DEF CacheInv, Answered, MadeBefore
<1>3. CASE UNCHANGED C!vars
  BY <1>3 DEF C!vars, C!state, CacheInv, C!TypeOK, Answered, MadeBefore, OneByOne, Current,
              KnowsOf
<1> QED  BY <1>1, <1>2, <1>3 DEF C!Next

-----------------------------------------------------------------------------
(* The parts together *)

SettlesFits == PresenceFits /\ CacheFits /\ EP!NewsFit

\* A step of the whole is a step or a stutter of each part.
LEMMA SettlesParts ==
    ASSUME [SettlesNext]_everything
    PROVE  /\ [Next]_vars /\ [P!Next]_(P!vars) /\ [C!Next]_(C!vars)
           /\ [E!EntryNext]_(E!entryVars)
BY DEF SettlesNext, everything, Only, presenceVars, cacheVars, entryVars,
       P!vars, P!state, C!vars, C!state, E!entryVars

\* What ActionableProofs says it says of the entry here.
LEMMA SameEntryStep ==
    ASSUME [E!EntryNext]_(E!entryVars)
    PROVE  [EP!EntryNext]_(EP!entryVars)
BY DEF E!EntryNext, E!entryVars, E!Create, E!Dutiful, E!Voluntary, E!Progress, E!Approve,
       E!SignOff, E!Finish, E!Ask, E!Load, E!Report, E!MayReport, E!PassOn, E!Delete,
       E!CheckAndNote, E!Write, E!Tell, E!WriteReport, E!TellCreator, E!MarkOwn, E!AddMember,
       E!Here, E!Begin, E!Goes, E!Ends, E!LastIs, E!LastCompleted, E!Approves, E!Applied,
       E!Signs, E!member, E!completed, E!AtRest, E!Status, E!ToSet, E!Last,
       EP!EntryNext, EP!entryVars, EP!Create, EP!Dutiful, EP!Voluntary, EP!Progress, EP!Approve,
       EP!SignOff, EP!Finish, EP!Ask, EP!Load, EP!Report, EP!MayReport, EP!PassOn, EP!Delete,
       EP!CheckAndNote, EP!Write, EP!Tell, EP!WriteReport, EP!TellCreator, EP!MarkOwn,
       EP!AddMember, EP!Here, EP!Begin, EP!Goes, EP!Ends, EP!LastIs, EP!LastCompleted,
       EP!Approves, EP!Applied, EP!Signs, EP!member, EP!completed, EP!AtRest, EP!Status,
       EP!ToSet, EP!Last

LEMMA SameEntry ==
    /\ \A l : E!EntryAt(l) => EP!EntryAt(l)
    /\ EP!EntryTypeOK => E!EntryTypeOK
    /\ EP!NewsArrives => E!NewsArrives
PROOF
<1>1. \A l : E!EntryAt(l) => EP!EntryAt(l)  BY DEF E!EntryAt, EP!EntryAt
<1>2. EP!EntryTypeOK => E!EntryTypeOK
  BY DEF E!EntryTypeOK, E!Row, E!Status, E!Patch, E!Request, E!IsInjective,
         EP!EntryTypeOK, EP!Row, EP!Status, EP!Patch, EP!Request, EP!IsInjective
<1>3. EP!NewsArrives => E!NewsArrives
  BY DEF E!NewsArrives, E!AtRest, E!Here, E!LastCompleted, E!Last,
         EP!NewsArrives, EP!AtRest, EP!Here, EP!LastCompleted, EP!Last
<1> QED  BY <1>1, <1>2, <1>3

LEMMA EntryHolds ==
    ASSUME EP!NewsFit
    PROVE  SettlesSpec => []EP!NewsInv
PROOF
<1>1. SettlesInit => EP!NewsInv
  <2>1. SettlesInit => \E l \in {"none", "gone"} : EP!EntryAt(l)
    BY SameEntry DEF SettlesInit
  <2> QED  BY <2>1, EP!NewsStarts
<1>2. EP!NewsInv /\ [SettlesNext]_everything => EP!NewsInv'
  BY SettlesParts, SameEntryStep, EP!NewsKept
<1> QED  BY <1>1, <1>2, PTL DEF SettlesSpec

LEMMA TabsHold ==
    ASSUME PresenceFits
    PROVE  SettlesSpec => []PresenceInv
PROOF
<1>1. SettlesInit => PresenceInv  BY TabsStart DEF SettlesInit
<1>2. PresenceInv /\ [SettlesNext]_everything => PresenceInv'  BY SettlesParts, TabsKept
<1> QED  BY <1>1, <1>2, PTL DEF SettlesSpec

LEMMA CacheHolds ==
    ASSUME CacheFits
    PROVE  SettlesSpec => []CacheInv
PROOF
<1>1. SettlesInit => CacheInv  BY CacheStarts DEF SettlesInit
<1>2. CacheInv /\ [SettlesNext]_everything => CacheInv'  BY SettlesParts, CacheKept
<1> QED  BY <1>1, <1>2, PTL DEF SettlesSpec

\* The calls of the whole are those of CallLifecycle.
LEMMA CallsHold == SettlesSpec => Spec
PROOF
<1>1. SettlesInit => Init  BY DEF SettlesInit
<1>2. [SettlesNext]_everything => [Next]_vars  BY SettlesParts
<1> QED  BY <1>1, <1>2, PTL DEF SettlesSpec, Spec

-----------------------------------------------------------------------------
(* Theorems *)

\* Every part keeps its type: no missed-call counter below zero, nobody in a chain twice,
\* no cached version that is not there, for any users, tabs, workers and people.
THEOREM SettlesTypes ==
    ASSUME SettlesFits
    PROVE  SettlesSpec => []TypesOK
PROOF
<1>1. PresenceInv /\ CacheInv /\ EP!NewsInv /\ TypeOK => TypesOK
  BY SameEntry, EP!NewsSays DEF PresenceInv, CacheInv, TypesOK
<1>2. SettlesSpec => []PresenceInv /\ []CacheInv /\ []EP!NewsInv
  BY TabsHold, CacheHolds, EntryHolds, PTL DEF SettlesFits
<1>3. SettlesSpec => []TypeOK  BY CallsHold, CallTypeCorrect, PTL
<1> QED  BY <1>1, <1>2, <1>3, PTL

\* However handlers of any number of processes cross, a missed-call counter above zero has
\* a missed call.
THEOREM MissedForAll == SettlesSpec => []CountedMeansMissed
PROOF
<1> QED  BY CallsHold, NobodyToldOfNothing, PTL

\* However handlers cross, no call that has left PENDING rings again.
THEOREM RingsOnceForAll == SettlesSpec => RingsOnce
PROOF
<1> QED  BY CallsHold, CallsRingOnce, PTL

\* The docstring's "multi-tab safe" for any number of tabs and processes: undisturbed, the
\* user is shown online exactly while a tab is open; unless a process is killed or Redis
\* fails, no socket that is gone is counted, and between calls every key has an expiry
\* (connect_presence, disconnect_presence).
THEOREM TabsCountedForAll ==
    ASSUME PresenceFits
    PROVE  SettlesSpec => []TabsCounted
PROOF
<1>1. PresenceInv => P!MultiTabSafe
  <2> SUFFICES ASSUME PresenceInv, past = {}, P!Between = {}
               PROVE  P!Shown <=> P!Open # {}
    BY DEF P!MultiTabSafe
  <2>1. Zeroed = {} /\ CountedTabs = P!Open  BY DEF Zeroed, CountedTabs, P!Open, P!Between
  <2>2. /\ n = Absent => P!Open = {}
        /\ n # Absent => n = Cardinality(CountedTabs) /\ n > 0
    BY <2>1 DEF PresenceInv, Exact
  <2>3. Cardinality(CountedTabs) = 0 <=> CountedTabs = {}  BY TabCounting
  <2> QED  BY <2>1, <2>2, <2>3 DEF P!Shown
<1>2. PresenceInv => P!CounterExpires
  BY DEF PresenceInv, Lasting, P!CounterExpires, Zeroed, P!Between
<1>3. PresenceInv => TabsCounted  BY <1>1, <1>2 DEF PresenceInv, TabsCounted
<1> QED  BY <1>3, TabsHold, PTL

\* For any readers, workers and mutations, as long as requests come one at a time: a GET
\* sent after one's own mutation has answered shows it, and where the signal or the
\* middleware finds the affected users, so does one after anybody's.
THEOREM WritesSeenForAll ==
    ASSUME CacheFits
    PROVE  SettlesSpec => []WritesSeen
PROOF
<1>1. CacheInv => WritesSeen
  BY DEF CacheInv, OneByOne, WritesSeen, C!OwnWriteSeen, C!SharedWriteSeen
<1> QED  BY <1>1, CacheHolds, PTL

\* However requests cross, once nothing is in progress the creator has heard of a
\* completed chain, and, if they have not overlapped, of the approval.
THEOREM NewsForAll ==
    ASSUME EP!NewsFit
    PROVE  SettlesSpec => []NewsArrives
PROOF
<1>1. EP!NewsInv => NewsArrives  BY SameEntry, EP!NewsSays DEF NewsArrives
<1> QED  BY <1>1, EntryHolds, PTL

\* As long as requests have not overlapped, each statement of the entry's handlers is a
\* step of the contract, for chains of any length.
THEOREM EntryContractForAll ==
    ASSUME EP!NewsFit
    PROVE  SettlesSpec => KeepsEntryContract
PROOF
<1>1. EP!NewsInv /\ [SettlesNext]_everything
        => [~overlap' => EP!Contract!Next \/ UNCHANGED EP!Contract!vars]_(EP!entryVars)
  BY SettlesParts, SameEntryStep, EP!StepOfContract DEF EP!NewsInv, EP!EntryInv, EP!NewsFit
<1>2. /\ EP!Stage = E!Stage /\ EP!completed = E!completed /\ EP!member = E!member
      /\ EP!Stage' = E!Stage' /\ EP!completed' = E!completed' /\ EP!member' = E!member'
  BY DEF EP!Stage, EP!Here, EP!completed, EP!member, EP!ToSet,
         E!Stage, E!Here, E!completed, E!member, E!ToSet
<1>3. EP!Contract!Next => E!Contract!Next
  BY <1>2, Zenon
     DEF EP!Contract!Next, EP!Contract!Create, EP!Contract!Join, EP!Contract!Work,
         EP!Contract!Sign, EP!Contract!Reopen, EP!Contract!Delete, EP!Contract!Alive,
         E!Contract!Next, E!Contract!Create, E!Contract!Join, E!Contract!Work,
         E!Contract!Sign, E!Contract!Reopen, E!Contract!Delete, E!Contract!Alive
<1>4. (UNCHANGED EP!Contract!vars) => UNCHANGED E!Contract!vars
  BY <1>2 DEF EP!Contract!vars, E!Contract!vars
<1>5. EP!entryVars = E!entryVars /\ EP!entryVars' = E!entryVars'
  BY DEF EP!entryVars, E!entryVars
<1>6. EP!NewsInv /\ [SettlesNext]_everything
        => [~overlap' => E!Contract!Next \/ UNCHANGED E!Contract!vars]_(E!entryVars)
  BY <1>1, <1>3, <1>4, <1>5
<1> QED  BY <1>6, EntryHolds, PTL DEF SettlesSpec, KeepsEntryContract, E!KeepsEntryContract
=============================================================================
