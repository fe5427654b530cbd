---------------------------- MODULE RecordsProofs ----------------------------
(***************************************************************************)
(* What holds of the parts of Records for any users, workers and rows.        *)
(* First the group call by itself: the types; that it stays ended; that a      *)
(* leaving creator ends it unless a worker dies; and, with handlers one at a   *)
(* time, that nobody joins an ended call and that the room is told the right   *)
(* list.  Then the other parts, the 1:1 calls from CallProofs.                 *)
(***************************************************************************)
EXTENDS Records, SumProofs

-----------------------------------------------------------------------------
(* Types and requests. *)

\* What a worker holds, by the statement it is at.
LEMMA Holds ==
    ASSUME TypeOK, NEW w \in Worker, req[w] # Idle
    PROVE  /\ req[w].at \in {"joining", "read", "leaving", "left"} => req[w].user \in User
           /\ req[w].at = "sending" => req[w].list \in SUBSET User
           /\ req[w].at = "sharing" => req[w].flag \in BOOLEAN
BY DEF TypeOK, Requests

LEMMA StepType ==
    ASSUME TypeOK, NEW w \in Worker, Step(w) \/ Die(w),
           past' \subseteq {"death", "overlap"}
    PROVE  TypeOK'
PROOF
<1>c. Creator \in User  BY CreatorAssumption
<1>1. ASSUME NEW r \in {Idle} \cup Requests, Become(w, r)
      PROVE  req' \in [Worker -> {Idle} \cup Requests]
  BY <1>1 DEF TypeOK, Become
<1>2. ASSUME NEW invited \in SUBSET User, Initiate(w, invited) PROVE TypeOK'
  <2>1. part' \in [User -> PartStatus]  BY <1>2 DEF Initiate, PartStatus
  <2> QED  BY <1>2, <1>c, <2>1 DEF Initiate, TypeOK
<1>3. ASSUME NEW u \in User, Join(w, u) \/ Leave(w, u) PROVE TypeOK'
  <2>1. PICK r \in Requests : Become(w, r)  BY <1>3 DEF Join, Leave, Requests
  <2> QED  BY <1>1, <1>3, <2>1 DEF Join, Leave, TypeOK
<1>4. ASSUME WriteJoined(w) \/ WriteLeft(w) PROVE TypeOK'
  <2>1. req[w].user \in User  BY <1>4, Holds DEF WriteJoined, WriteLeft, At
  <2>2. PICK r \in Requests : Become(w, r)  BY <1>4, <2>1 DEF WriteJoined, WriteLeft, Requests
  <2>3. part' \in [User -> PartStatus]
    BY <1>4, <2>1 DEF WriteJoined, WriteLeft, TypeOK, PartStatus
  <2> QED  BY <1>1, <1>4, <2>2, <2>3 DEF WriteJoined, WriteLeft, TypeOK
<1>5. ASSUME ReadRoster(w) PROVE TypeOK'
  <2>1. PICK r \in Requests : Become(w, r)  BY <1>5 DEF ReadRoster, Requests, Joined
  <2> QED  BY <1>1, <1>5, <2>1 DEF ReadRoster, TypeOK
<1>6. ASSUME SendJoined(w) \/ SendLeft(w) PROVE TypeOK'
  <2>1. roster' \subseteq User
    BY <1>6, Holds DEF SendJoined, SendLeft, At, TypeOK
  <2>2. PICK r \in {Idle} \cup Requests : Become(w, r)
    BY <1>6 DEF SendJoined, SendLeft, Requests
  <2> QED  BY <1>1, <1>6, <2>1, <2>2 DEF SendJoined, SendLeft, TypeOK
<1>7. ASSUME End(w) \/ (\E on \in BOOLEAN : Share(w, on)) PROVE TypeOK'
  <2>1. PICK r \in Requests : Become(w, r)  BY <1>7 DEF End, Share, Requests
  <2> QED  BY <1>1, <1>7, <2>1 DEF End, Share, TypeOK
<1>8. ASSUME WriteEnded(w) \/ WriteShared(w) \/ Die(w) PROVE TypeOK'
  <2>1. gshared' \in BOOLEAN
    BY <1>8, Holds DEF WriteEnded, WriteShared, Die, At, TypeOK
  <2> QED  BY <1>1, <1>8, <2>1 DEF WriteEnded, WriteShared, Die, TypeOK
<1> QED
  BY <1>2, <1>3, <1>4, <1>5, <1>6, <1>7, <1>8 DEF Step

LEMMA GroupTypeStep == TypeOK /\ [Next]_vars => TypeOK'
PROOF
<1> SUFFICES ASSUME TypeOK, [Next]_vars PROVE TypeOK'
  OBVIOUS
<1>1. past' \subseteq {"death", "overlap"}  BY DEF TypeOK, Next, vars
<1>2. CASE UNCHANGED vars  BY <1>2 DEF vars, TypeOK
<1>3. CASE Next  BY <1>1, <1>3, StepType DEF Next
<1> QED  BY <1>2, <1>3

LEMMA GroupTypeInit == Init => TypeOK
BY DEF Init, TypeOK, PartStatus

\* The call, its participants, the room's list and every half-finished request
\* keep their types, however handlers interleave and die.
THEOREM GroupTypeCorrect == Spec => []TypeOK
BY GroupTypeInit, GroupTypeStep, PTL DEF Spec

-----------------------------------------------------------------------------
(* Under every interleaving. *)

\* No handler, however stale what it read, reopens a call that has ended.
THEOREM GroupEndsForGood == Spec => EndedForGood
PROOF
<1>1. [Next]_vars => [gstatus = "ended" => gstatus' = "ended"]_vars
  BY DEF Next, Step, Initiate, Join, WriteJoined, ReadRoster, SendJoined, Leave,
         WriteLeft, SendLeft, End, WriteEnded, Share, WriteShared, Die
<1> QED  BY <1>1, PTL DEF Spec, EndedForGood

\* Worker w will end the call.
Closing(w) ==
  req[w] # Idle /\ (req[w].at = "closing" \/ (req[w].at = "left" /\ req[w].user = Creator))

\* Unless a worker has died, somebody is still about to end a call that its
\* creator has left.
SomebodyCloses ==
  ("death" \notin past /\ part[Creator] = "left")
    => gstatus = "ended" \/ \E w \in Worker : Closing(w)

LEMMA ClosesStep == TypeOK /\ SomebodyCloses /\ [Next]_vars => SomebodyCloses'
PROOF
<1> SUFFICES ASSUME TypeOK, SomebodyCloses, [Next]_vars,
                    "death" \notin past', part'[Creator] = "left"
             PROVE  gstatus' = "ended" \/ \E w \in Worker : Closing(w)'
  BY DEF SomebodyCloses
<1> DEFINE Goal == gstatus' = "ended" \/ \E w \in Worker : Closing(w)'
<1>t. /\ req \in [Worker -> {Idle} \cup Requests]
      /\ part \in [User -> PartStatus]
      /\ Creator \in User
  BY CreatorAssumption DEF TypeOK
<1>1. CASE UNCHANGED vars
  BY <1>1 DEF vars, SomebodyCloses, Closing
<1>2. ASSUME NEW w \in Worker, Step(w), "death" \notin past
      PROVE  Goal
  \* A step of a worker that is not closing, and leaves the creator's row alone.
  <2>1. ASSUME part'[Creator] = part[Creator], gstatus = "ended" => gstatus' = "ended",
               ~Closing(w), \A v \in Worker \ {w} : req'[v] = req[v]
        PROVE  Goal
    BY <1>2, <2>1 DEF SomebodyCloses, Closing
  <2>2. ASSUME NEW r, Become(w, r)
        PROVE  req'[w] = r /\ \A v \in Worker \ {w} : req'[v] = req[v]
    BY <1>t, <2>2 DEF Become
  <2>3. CASE \E invited \in SUBSET User : Initiate(w, invited)
    BY <1>t, <2>3 DEF Initiate
  <2>4. CASE \/ \E u \in User : Join(w, u) \/ Leave(w, u)
             \/ End(w)
             \/ \E on \in BOOLEAN : Share(w, on)
    <3>1. ~Closing(w)  BY <2>4 DEF Closing, Join, Leave, End, Share
    <3>2. PICK r : Become(w, r)  BY <2>4 DEF Join, Leave, End, Share
    <3> QED  BY <2>1, <2>2, <2>4, <3>1, <3>2 DEF Join, Leave, End, Share
  <2>5. CASE WriteJoined(w)
    <3>1. ~Closing(w)  BY <2>5 DEF Closing, WriteJoined, At
    <3>2. req[w].user # Creator  BY <1>t, <2>5 DEF WriteJoined
    <3> QED  BY <1>t, <2>1, <2>2, <2>5, <3>1, <3>2 DEF WriteJoined
  <2>6. CASE ReadRoster(w) \/ SendJoined(w) \/ WriteShared(w)
    <3>1. ~Closing(w)  BY <2>6 DEF Closing, ReadRoster, SendJoined, WriteShared, At
    <3>2. PICK r : Become(w, r)  BY <2>6 DEF ReadRoster, SendJoined, WriteShared
    <3> QED  BY <2>1, <2>2, <2>6, <3>1, <3>2 DEF ReadRoster, SendJoined, WriteShared
  <2>7. CASE WriteLeft(w)
    <3> DEFINE r == [at |-> "left", user |-> req[w].user]
    <3>0. Become(w, r) /\ r.at = "left" /\ r.user = req[w].user  BY <2>7 DEF WriteLeft
    <3>1. ~Closing(w)  BY <2>7 DEF Closing, WriteLeft, At
    <3> HIDE DEF r
    <3>2. CASE req[w].user = Creator
      <4>1. r # Idle => Closing(w)'  BY <2>2, <3>0, <3>2 DEF Closing
      <4>2. r \in Requests  BY <1>t, <3>2 DEF r, Requests
      <4> QED  BY <4>1, <4>2, IdleAssumption
    <3>3. CASE req[w].user # Creator
      BY <1>t, <2>1, <2>2, <2>7, <3>0, <3>1, <3>3 DEF WriteLeft
    <3> QED  BY <3>2, <3>3
  <2>8. CASE SendLeft(w)
    <3>1. CASE req[w].user = Creator
      <4>1. [at |-> "closing"] # Idle  BY IdleAssumption DEF Requests
      <4> QED  BY <2>2, <2>8, <3>1, <4>1 DEF SendLeft, Closing
    <3>2. CASE req[w].user # Creator
      <4>1. ~Closing(w)  BY <2>8, <3>2 DEF Closing, SendLeft, At
      <4> QED  BY <2>1, <2>2, <2>8, <3>2, <4>1 DEF SendLeft
    <3> QED  BY <3>1, <3>2
  <2>9. CASE WriteEnded(w)  BY <2>9 DEF WriteEnded
  <2> QED  BY <1>2, <2>3, <2>4, <2>5, <2>6, <2>7, <2>8, <2>9 DEF Step
<1> QED  BY <1>1, <1>2 DEF Next

\* However a leave of the creator interleaves with joins, other leaves and a
\* second click, the call is over once the requests are done, unless a worker
\* died.
THEOREM LeavingCreatorEnds == Spec => []CreatorGoneEndsIt
PROOF
<1>1. Init => TypeOK /\ SomebodyCloses
  BY GroupTypeInit, CreatorAssumption DEF Init, SomebodyCloses
<1>2. Spec => [](TypeOK /\ SomebodyCloses)
  BY <1>1, GroupTypeStep, ClosesStep, PTL DEF Spec
<1>3. SomebodyCloses => CreatorGoneEndsIt
  BY DEF SomebodyCloses, CreatorGoneEndsIt, Closing, Quiet
<1> QED  BY <1>2, <1>3, PTL

-----------------------------------------------------------------------------
(* One handler at a time. *)

\* Until two have been at work at once, at most one worker holds a request.
Alone ==
  "overlap" \notin past =>
    \A v, w \in Worker : v # w => req[v] = Idle \/ req[w] = Idle

\* ... and a participant about to join finds the call as it was read.
JoinsWhatItRead ==
  "overlap" \notin past =>
    \A w \in Worker : (req[w] # Idle /\ req[w].at = "joining") => gstatus = "active"

LEMMA AloneStep == TypeOK /\ Alone /\ [Next]_vars => Alone'
PROOF
<1> SUFFICES ASSUME TypeOK, Alone, [Next]_vars, "overlap" \notin past'
             PROVE  \A v, w \in Worker : v # w => req'[v] = Idle \/ req'[w] = Idle
  BY DEF Alone
<1>1. CASE UNCHANGED vars  BY <1>1 DEF vars, Alone
<1>2. ASSUME NEW w \in Worker, Step(w),
             past' = past \cup (IF Overlapping' THEN {"overlap"} ELSE {})
      PROVE  \A u, v \in Worker : u # v => req'[u] = Idle \/ req'[v] = Idle
  BY <1>2 DEF Overlapping
<1>3. ASSUME NEW w \in Worker, Die(w), past' = past \cup {"death"}
      PROVE  \A u, v \in Worker : u # v => req'[u] = Idle \/ req'[v] = Idle
  BY <1>3 DEF Die, Become, TypeOK, Alone
<1> QED  BY <1>1, <1>2, <1>3 DEF Next

LEMMA JoinsStep ==
    TypeOK /\ Alone /\ JoinsWhatItRead /\ [Next]_vars => JoinsWhatItRead'
PROOF
<1> SUFFICES ASSUME TypeOK, Alone, JoinsWhatItRead, [Next]_vars, "overlap" \notin past',
                    NEW v \in Worker, req'[v] # Idle, req'[v].at = "joining"
             PROVE  gstatus' = "active"
  BY DEF JoinsWhatItRead
<1>t. req \in [Worker -> {Idle} \cup Requests]  BY DEF TypeOK
<1>1. CASE UNCHANGED vars  BY <1>1 DEF vars, JoinsWhatItRead
<1>2. ASSUME NEW w \in Worker, Step(w) \/ Die(w), "overlap" \notin past
      PROVE  gstatus' = "active"
  <2>1. ASSUME NEW r, Become(w, r), r = Idle \/ r.at # "joining", gstatus' = gstatus
        PROVE  gstatus' = "active"
    BY <1>t, <1>2, <2>1 DEF Become, JoinsWhatItRead
  <2>2. CASE \E invited \in SUBSET User : Initiate(w, invited)  BY <2>2 DEF Initiate
  <2>3. CASE \E u \in User : Join(w, u)  BY <2>3 DEF Join
  <2>4. CASE WriteEnded(w)
    <3>1. v # w  BY <1>t, <2>4 DEF WriteEnded, Become
    <3>2. req[v] # Idle /\ req[w] # Idle  BY <1>t, <2>4, <3>1 DEF WriteEnded, Become, At
    <3> QED  BY <1>2, <3>1, <3>2 DEF Alone
  <2>5. CASE \/ WriteJoined(w) \/ ReadRoster(w) \/ SendJoined(w) \/ WriteLeft(w)
             \/ \E u \in User : Leave(w, u)
    BY <2>1, <2>5 DEF WriteJoined, ReadRoster, SendJoined, WriteLeft, Leave
  <2>6. CASE \/ SendLeft(w) \/ End(w) \/ WriteShared(w) \/ Die(w)
             \/ \E on \in BOOLEAN : Share(w, on)
    BY <2>1, <2>6 DEF SendLeft, End, WriteShared, Die, Share
  <2> QED  BY <1>2, <2>2, <2>3, <2>4, <2>5, <2>6 DEF Step
<1> QED  BY <1>1, <1>2 DEF Next

\* With handlers one at a time, each free to die between any two statements,
\* nobody joins a call that has ended.
THEOREM SerialJoinsActive == Spec => JoinsOnlyActive
PROOF
<1> DEFINE Joins == \A u \in User :
              (part[u] # "joined" /\ part'[u] = "joined" /\ "overlap" \notin past')
                => gstatus # "ended"
<1>1. Init => TypeOK /\ Alone /\ JoinsWhatItRead
  BY GroupTypeInit DEF Init, Alone, JoinsWhatItRead
<1>2. Spec => [](TypeOK /\ Alone /\ JoinsWhatItRead)
  BY <1>1, GroupTypeStep, AloneStep, JoinsStep, PTL DEF Spec
<1>3. TypeOK /\ Alone /\ JoinsWhatItRead /\ [Next]_vars => [Joins]_vars
  <2> SUFFICES ASSUME TypeOK, JoinsWhatItRead, Next, NEW u \in User,
                      part[u] # "joined", part'[u] = "joined", "overlap" \notin past'
               PROVE  gstatus # "ended"
    OBVIOUS
  <2>1. "overlap" \notin past  BY DEF Next
  <2>2. part \in [User -> PartStatus]  BY DEF TypeOK
  <2>3. PICK w \in Worker : Step(w) \/ Die(w)  BY DEF Next
  <2>4. CASE WriteJoined(w)
    BY <2>1, <2>4 DEF WriteJoined, At, JoinsWhatItRead
  <2>5. CASE \E invited \in SUBSET User : Initiate(w, invited)
    BY <2>5 DEF Initiate
  <2>6. CASE WriteLeft(w)
    BY <2>2, <2>6 DEF WriteLeft
  <2> QED
    BY <2>3, <2>4, <2>5, <2>6
       DEF Step, Join, ReadRoster, SendJoined, Leave, SendLeft, End, WriteEnded,
           Share, WriteShared, Die
<1> QED  BY <1>2, <1>3, PTL DEF Spec, JoinsOnlyActive

\* What the room has been told, by where the only handler is.
RosterFollows ==
  (past = {} /\ gstatus = "active") =>
    /\ Quiet => roster = Joined
    /\ \A w \in Worker : req[w] # Idle =>
         /\ req[w].at \in {"joining", "leaving", "closing", "sharing"} => roster = Joined
         /\ req[w].at = "sending" => req[w].list = Joined
         /\ req[w].at = "left" => Joined = roster \ {req[w].user}

\* While workers come one at a time, one that begins does so from rest.
LEMMA BeginsFromRest ==
    ASSUME TypeOK, NEW w \in Worker, NEW r \in Requests, Become(w, r), ~Overlapping',
           req[w] = Idle
    PROVE  Quiet
PROOF
<1>1. req'[w] # Idle  BY IdleAssumption DEF Become, TypeOK
<1>2. \A v \in Worker \ {w} : req'[v] = req[v]  BY DEF Become, TypeOK
<1> QED  BY <1>1, <1>2 DEF Overlapping, Quiet

\* ... and leaves the others at rest.
LEMMA OnlyOne ==
    ASSUME TypeOK, NEW w \in Worker, NEW r \in {Idle} \cup Requests, Become(w, r),
           \A v \in Worker \ {w} : req[v] = Idle,
           r = Idle => roster' = Joined',
           r # Idle =>
             /\ r.at \in {"joining", "leaving", "closing", "sharing"} => roster' = Joined'
             /\ r.at = "sending" => r.list = Joined'
             /\ r.at = "left" => Joined' = roster' \ {r.user}
    PROVE  RosterFollows'
PROOF
<1>1. req'[w] = r /\ \A v \in Worker \ {w} : req'[v] = Idle
  BY DEF Become, TypeOK
<1> QED  BY <1>1 DEF RosterFollows, Quiet

\* Before the call exists nobody has its key.
NobodyBefore == gstatus = "none" => Quiet

LEMMA NobodyStep == TypeOK /\ NobodyBefore /\ [Next]_vars => NobodyBefore'
PROOF
<1> SUFFICES ASSUME TypeOK, NobodyBefore, [Next]_vars, gstatus' = "none" PROVE Quiet'
  BY DEF NobodyBefore
<1>1. CASE UNCHANGED vars  BY <1>1 DEF vars, NobodyBefore, Quiet
<1>2. ASSUME NEW w \in Worker, Step(w) \/ Die(w) PROVE Quiet'
  BY <1>2 DEF NobodyBefore, Quiet, Step, Initiate, Join, WriteJoined, ReadRoster,
         SendJoined, Leave, WriteLeft, SendLeft, End, WriteEnded, Share, WriteShared,
         Die, At
<1> QED  BY <1>1, <1>2 DEF Next

LEMMA RosterStep ==
    TypeOK /\ Alone /\ NobodyBefore /\ RosterFollows /\ [Next]_vars => RosterFollows'
PROOF
<1> SUFFICES ASSUME TypeOK, Alone, NobodyBefore, RosterFollows, [Next]_vars,
                    past' = {}, gstatus' = "active"
             PROVE  RosterFollows'
  BY DEF RosterFollows
<1>t. /\ req \in [Worker -> {Idle} \cup Requests]
      /\ part \in [User -> PartStatus]
      /\ roster \subseteq User
      /\ Creator \in User
  BY CreatorAssumption DEF TypeOK
<1>1. CASE UNCHANGED vars
  BY <1>1 DEF vars, RosterFollows, Quiet, Joined
<1>2. ASSUME NEW w \in Worker, Step(w), past = {}, ~Overlapping'
      PROVE  RosterFollows'
  <2>1. CASE \E invited \in SUBSET User : Initiate(w, invited)
    <3>1. PICK invited \in SUBSET User : Initiate(w, invited)  BY <2>1
    <3>2. Quiet'  BY <3>1 DEF Initiate, NobodyBefore, Quiet
    <3>3. \A u \in User : part'[u] = "joined" <=> u = Creator
      BY <3>1 DEF Initiate
    <3>4. Joined' = {Creator}  BY <1>t, <3>3 DEF Joined
    <3>5. roster' = {Creator}  BY <3>1 DEF Initiate
    <3> QED  BY <3>2, <3>4, <3>5 DEF RosterFollows, Quiet
  \* The handlers that begin.
  <2>2. ASSUME NEW r \in Requests, Become(w, r), req[w] = Idle, gstatus = "active",
               UNCHANGED <<part, roster>>, r.at \notin {"sending", "left"}
        PROVE  RosterFollows'
    <3>1. Quiet  BY <1>2, <2>2, BeginsFromRest
    <3>2. roster' = Joined'  BY <1>2, <2>2, <3>1 DEF RosterFollows, Joined
    <3> QED  BY <2>2, <3>1, <3>2, OnlyOne DEF Quiet
  <2>3. CASE \/ \E u \in User : Join(w, u) \/ Leave(w, u)
             \/ End(w)
             \/ \E on \in BOOLEAN : Share(w, on)
    <3>1. PICK r \in Requests : Become(w, r) /\ r.at \notin {"sending", "left"}
      <4>1. CASE \E u \in User : Join(w, u) \/ Leave(w, u)
        <5>1. PICK u \in User : Join(w, u) \/ Leave(w, u)  BY <4>1
        <5>2. CASE Join(w, u)
          <6> DEFINE r == [at |-> "joining", user |-> u]
          <6>1. r \in Requests /\ r.at = "joining"  BY DEF Requests
          <6> QED  BY <5>2, <6>1 DEF Join
        <5>3. CASE Leave(w, u)
          <6> DEFINE r == [at |-> "leaving", user |-> u]
          <6>1. r \in Requests /\ r.at = "leaving"  BY DEF Requests
          <6> QED  BY <5>3, <6>1 DEF Leave
        <5> QED  BY <5>1, <5>2, <5>3
      <4>2. CASE End(w)
        <5> DEFINE r == [at |-> "closing"]
        <5>1. r \in Requests /\ r.at = "closing"  BY DEF Requests
        <5> QED  BY <4>2, <5>1 DEF End
      <4>3. CASE \E on \in BOOLEAN : Share(w, on)
        <5>1. PICK on \in BOOLEAN : Share(w, on)  BY <4>3
        <5> DEFINE r == [at |-> "sharing", flag |-> on]
        <5>2. r \in Requests /\ r.at = "sharing"  BY DEF Requests
        <5> QED  BY <5>1, <5>2 DEF Share
      <4> QED  BY <2>3, <4>1, <4>2, <4>3
    <3> QED  BY <2>2, <2>3, <3>1 DEF Join, Leave, End, Share
  \* The handlers that go on: the others are at rest.
  <2>4. req[w] # Idle => \A v \in Worker \ {w} : req[v] = Idle
    BY <1>2 DEF Alone
  <2>5. CASE WriteJoined(w)
    <3> DEFINE r == [at |-> "read", user |-> req[w].user]
    <3>0. req[w].user \in User  BY <2>5, Holds DEF WriteJoined, At
    <3>1. r \in Requests /\ Become(w, r) /\ r.at = "read"
      BY <2>5, <3>0 DEF WriteJoined, Requests
    <3> HIDE DEF r
    <3> QED  BY <2>4, <2>5, <3>1, OnlyOne, IdleAssumption DEF WriteJoined, At
  <2>6. CASE ReadRoster(w)
    <3> DEFINE r == [at |-> "sending", list |-> Joined]
    <3>1. r \in Requests /\ Become(w, r) /\ r.at = "sending" /\ r.list = Joined
      BY <2>6 DEF ReadRoster, Requests, Joined
    <3>2. Joined' = Joined  BY <2>6 DEF ReadRoster, Joined
    <3> HIDE DEF r
    <3> QED  BY <2>4, <2>6, <3>1, <3>2, OnlyOne, IdleAssumption DEF ReadRoster, At
  <2>7. CASE SendJoined(w)
    <3>1. req[w].list = Joined  BY <1>2, <2>7 DEF SendJoined, At, RosterFollows
    <3>2. roster' = Joined' /\ Become(w, Idle)  BY <2>7, <3>1 DEF SendJoined, Joined
    <3> QED  BY <2>4, <2>7, <3>2, OnlyOne DEF SendJoined, At
  <2>8. CASE WriteLeft(w)
    <3> DEFINE r == [at |-> "left", user |-> req[w].user]
    <3>0. req[w].user \in User  BY <2>8, Holds DEF WriteLeft, At
    <3>1. r \in Requests /\ Become(w, r) /\ r.at = "left" /\ r.user = req[w].user
      BY <2>8, <3>0 DEF WriteLeft, Requests
    <3>2. roster = Joined  BY <1>2, <2>8 DEF WriteLeft, At, RosterFollows
    <3>3. Joined' = roster' \ {req[w].user}
      BY <1>t, <2>8, <3>0, <3>2 DEF WriteLeft, Joined
    <3> HIDE DEF r
    <3> QED  BY <2>4, <2>8, <3>1, <3>3, OnlyOne, IdleAssumption DEF WriteLeft, At
  <2>9. CASE SendLeft(w)
    <3> DEFINE r == [at |-> "closing"]
    <3>1. Joined = roster \ {req[w].user}
      BY <1>2, <2>9 DEF SendLeft, At, RosterFollows
    <3>2. roster' = Joined'  BY <2>9, <3>1 DEF SendLeft, Joined
    <3>3. r \in Requests /\ r.at = "closing"  BY DEF Requests
    <3>4. Become(w, r) \/ Become(w, Idle)  BY <2>9 DEF SendLeft
    <3> HIDE DEF r
    <3> QED  BY <2>4, <2>9, <3>2, <3>3, <3>4, OnlyOne DEF SendLeft, At
  <2>10. CASE WriteEnded(w)  BY <2>10 DEF WriteEnded
  <2>11. CASE WriteShared(w)
    <3>1. roster' = Joined' /\ Become(w, Idle)
      BY <1>2, <2>11 DEF WriteShared, At, RosterFollows, Joined
    <3> QED  BY <2>4, <2>11, <3>1, OnlyOne DEF WriteShared, At
  <2> QED
    BY <1>2, <2>1, <2>3, <2>5, <2>6, <2>7, <2>8, <2>9, <2>10, <2>11 DEF Step
<1> QED  BY <1>1, <1>2 DEF Next

\* Handlers that run to their end, one at a time, leave the clients of the room
\* with the list of the database.
THEOREM SerialRosterCurrent == Spec => []RosterCurrent
PROOF
<1>1. Init => TypeOK /\ Alone /\ NobodyBefore /\ RosterFollows
  BY GroupTypeInit DEF Init, Alone, NobodyBefore, RosterFollows, Quiet
<1>2. Spec => [](TypeOK /\ Alone /\ NobodyBefore /\ RosterFollows)
  BY <1>1, GroupTypeStep, AloneStep, NobodyStep, RosterStep, PTL DEF Spec
<1>3. RosterFollows => RosterCurrent  BY DEF RosterFollows, RosterCurrent
<1> QED  BY <1>2, <1>3, PTL

-----------------------------------------------------------------------------
(* Openings *)

Asked == [op : {"update", "destroy", "open", "close", "remove", "apply", "apply_batch"},
          by : Person, copy : J!Row]

\* The values the constants may have.
JobFits == MaxApps \in Nat /\ Nothing \notin J!Row /\ Idle \notin Asked

\* An opening that takes applications has been offered.
Offered(row) == ~row.deleted /\ J!Accepts(row) => offered

JobInv ==
  /\ J!TypeOK /\ J!AppliedWhenOffered
  /\ jtask \in [Worker -> {Idle} \cup Asked]
  /\ opening = Nothing => \A w \in Worker : jtask[w] = Idle
  /\ opening # Nothing => Offered(opening)
  /\ \A w \in Worker : jtask[w] # Idle =>
       /\ ~jtask[w].copy.deleted /\ Offered(jtask[w].copy)
       /\ jtask[w].op \in {"open", "close"} => jtask[w].by = Creator

LEMMA JobWritten ==
    ASSUME JobInv, NEW row \in J!Row, J!Writes(row)
    PROVE  opening' = row /\ offered' \in BOOLEAN /\ (offered => offered') /\ Offered(row)'
BY DEF JobInv, J!TypeOK, J!Writes, Offered, J!Accepts, J!Approved

LEMMA JobTurns ==
    ASSUME JobInv, NEW w \in Worker, NEW t \in {Idle} \cup Asked, J!Goes(w, t)
    PROVE  /\ jtask' \in [Worker -> {Idle} \cup Asked]
           /\ jtask'[w] = t /\ \A v \in Worker \ {w} : jtask'[v] = jtask[v]
BY DEF JobInv, J!Goes

\* A request that ends after it has written row, or nothing.
LEMMA JobEnds ==
    ASSUME JobFits, JobInv, NEW w \in Worker, J!Goes(w, Idle), jtask[w] # Idle, UNCHANGED apps,
           \/ UNCHANGED <<opening, offered>>
           \/ \E row \in J!Row : J!Writes(row)
    PROVE  JobInv'
PROOF
<1>1. jtask' \in [Worker -> {Idle} \cup Asked] /\ jtask'[w] = Idle
      /\ \A v \in Worker \ {w} : jtask'[v] = jtask[v]
  BY JobTurns
<1>2. opening # Nothing  BY DEF JobInv
<1>3. /\ offered' \in BOOLEAN /\ (offered => offered')
      /\ opening' \in J!Row /\ Offered(opening)'
  BY <1>2, JobWritten DEF JobInv, J!TypeOK, Offered
<1> QED  BY <1>1, <1>3 DEF JobFits, JobInv, J!TypeOK, J!AppliedWhenOffered, Offered

LEMMA JobStep ==
    ASSUME JobFits, JobInv, [J!Next]_(J!jobVars)
    PROVE  JobInv'
PROOF
<1>t. /\ jtask \in [Worker -> {Idle} \cup Asked] /\ apps \in 0..MaxApps
      /\ opening \in J!Row \cup {Nothing} /\ offered \in BOOLEAN
  BY DEF JobInv, J!TypeOK
<1>a. ASSUME NEW w \in Worker, jtask[w] # Idle PROVE jtask[w] \in Asked
  BY <1>t, <1>a
<1>1. ASSUME NEW md \in J!ApprovalStatus, NEW hr \in J!ApprovalStatus, J!File(md, hr)
      PROVE  JobInv'
  <2> DEFINE row == [md |-> md, hr |-> hr, state |-> "Open", deleted |-> FALSE]
  <2>1. row \in J!Row  BY DEF J!Row, J!JobState
  <2>2. J!Writes(row)  BY <1>1 DEF J!File
  <2> HIDE DEF row
  <2>3. opening' = row /\ offered' \in BOOLEAN /\ (offered => offered') /\ Offered(row)'
    BY <2>1, <2>2, JobWritten
  <2>4. UNCHANGED <<apps, jtask>> /\ opening = Nothing  BY <1>1 DEF J!File
  <2> QED  BY <2>1, <2>3, <2>4 DEF JobFits, JobInv, J!TypeOK, J!AppliedWhenOffered, Offered
<1>2. ASSUME NEW w \in Worker, NEW u \in Person,
             NEW op \in {"update", "destroy", "open", "close", "remove", "apply", "apply_batch"},
             J!Load(w, u, op)
      PROVE  JobInv'
  <2> DEFINE t == [op |-> op, by |-> u, copy |-> opening]
  <2>1. /\ opening # Nothing /\ ~opening.deleted /\ J!Goes(w, t)
        /\ op \in {"open", "close"} => u = Creator
        /\ UNCHANGED <<opening, apps, offered>>
    BY <1>2 DEF J!Load, J!Finds
  <2>2. t \in Asked  BY <1>t, <2>1 DEF Asked
  <2>3. t.op = op /\ t.by = u /\ t.copy = opening  OBVIOUS
  <2> HIDE DEF t
  <2>4. /\ jtask' \in [Worker -> {Idle} \cup Asked]
        /\ jtask'[w] = t /\ \A v \in Worker \ {w} : jtask'[v] = jtask[v]
    BY <2>1, <2>2, JobTurns
  <2> QED
    BY <2>1, <2>3, <2>4
       DEF JobInv, J!TypeOK, J!AppliedWhenOffered, Offered, J!Accepts, J!Approved
<1>3. ASSUME NEW w \in Worker, J!Update(w) PROVE JobInv'
  <2>1. jtask[w] \in Asked /\ jtask[w] # Idle  BY <1>a, <1>3 DEF J!Update, J!At
  <2>2. ASSUME NEW md \in J!ApprovalStatus, NEW hr \in J!ApprovalStatus, NEW state \in J!JobState
        PROVE  [jtask[w].copy EXCEPT !.md = md, !.hr = hr, !.state = state] \in J!Row
    BY <2>1 DEF Asked, J!Row
  <2>3. jtask[w].copy.state \in J!JobState  BY <2>1 DEF Asked, J!Row
  <2> QED  BY <1>3, <2>1, <2>2, <2>3, JobEnds DEF J!Update
<1>4. ASSUME NEW w \in Worker, NEW op, NEW state \in J!JobState, J!Toggle(w, op, state)
      PROVE  JobInv'
  <2>1. jtask[w] # Idle  BY <1>4 DEF J!Toggle, J!At
  <2>2. opening \in J!Row  BY <1>t, <2>1 DEF JobInv
  <2>3. [opening EXCEPT !.state = state] \in J!Row  BY <2>2 DEF J!Row
  <2> QED  BY <1>4, <2>1, <2>3, JobEnds DEF J!Toggle
<1>5. ASSUME NEW w \in Worker, J!Remove(w) PROVE JobInv'
  <2>1. jtask[w] \in Asked /\ jtask[w] # Idle  BY <1>a, <1>5 DEF J!Remove, J!At
  <2>2. [jtask[w].copy EXCEPT !.deleted = TRUE] \in J!Row  BY <2>1 DEF Asked, J!Row
  <2> QED  BY <1>5, <2>1, <2>2, JobEnds DEF J!Remove
<1>6. ASSUME NEW w \in Worker, jtask[w] # Idle, J!Goes(w, Idle), UNCHANGED <<opening, offered>>,
             apps' \in 0..MaxApps, apps' # apps => J!Accepts(jtask[w].copy)
      PROVE  JobInv'
  <2>1. apps' # apps => offered  BY <1>6 DEF JobInv, Offered
  <2>2. /\ jtask' \in [Worker -> {Idle} \cup Asked] /\ jtask'[w] = Idle
        /\ \A v \in Worker \ {w} : jtask'[v] = jtask[v]
    BY <1>6, JobTurns
  <2> QED  BY <1>6, <2>1, <2>2 DEF JobInv, J!TypeOK, J!AppliedWhenOffered, Offered
<1>7. ASSUME NEW w \in Worker, J!Apply(w) PROVE JobInv'
  <2>1. jtask[w] # Idle /\ apps' \in {apps, apps + 1} /\ apps' <= MaxApps
        /\ (apps' # apps => J!Accepts(jtask[w].copy))
    BY <1>7 DEF J!Apply, J!At
  <2>2. apps' \in 0..MaxApps  BY <1>t, <2>1 DEF JobFits
  <2> QED  BY <1>6, <1>7, <2>1, <2>2 DEF J!Apply
<1>8. ASSUME NEW w \in Worker, NEW n \in 0..MaxApps, J!ApplyBatch(w, n) PROVE JobInv'
  <2>1. jtask[w] # Idle /\ apps' \in {apps, apps + n} /\ apps' <= MaxApps
        /\ (apps' # apps => J!Accepts(jtask[w].copy))
    BY <1>8 DEF J!ApplyBatch, J!At, J!BatchAccepts
  <2>2. apps' \in 0..MaxApps  BY <1>t, <2>1 DEF JobFits
  <2> QED  BY <1>6, <1>8, <2>1, <2>2 DEF J!ApplyBatch
<1>9. CASE UNCHANGED J!jobVars
  BY <1>9 DEF J!jobVars, JobInv, J!TypeOK, J!AppliedWhenOffered, Offered
<1> QED
  BY <1>1, <1>2, <1>3, <1>4, <1>5, <1>7, <1>8, <1>9 DEF J!Next, J!JobState

\* Who moves an opening between open and closed is its creator, or writes back what it was.
LEMMA JobStates ==
    ASSUME JobFits, JobInv, J!Next, opening # Nothing, opening'.state # opening.state
    PROVE  \E w \in Worker : /\ jtask[w] # Idle /\ jtask'[w] = Idle
                             /\ jtask[w].by = Creator \/ jtask[w].copy.state = opening'.state
PROOF
<1>t. jtask \in [Worker -> {Idle} \cup Asked]  BY DEF JobInv
<1>a. ASSUME NEW w \in Worker, jtask[w] # Idle PROVE jtask[w] \in Asked
  BY <1>t, <1>a
<1>1. ASSUME NEW w \in Worker, J!Update(w) \/ J!Remove(w)
      PROVE  /\ jtask[w] # Idle /\ jtask'[w] = Idle
             /\ jtask[w].by = Creator \/ jtask[w].copy.state = opening'.state
  <2>1. jtask[w] \in Asked /\ jtask[w] # Idle  BY <1>a, <1>1 DEF J!Update, J!Remove, J!At
  <2>2. jtask'[w] = Idle  BY <1>t, <1>1 DEF J!Update, J!Remove, J!Goes
  <2>3. jtask[w].copy \in J!Row  BY <2>1 DEF Asked
  <2>4. CASE J!Update(w)
    BY <2>1, <2>2, <2>3, <2>4 DEF J!Update, J!Writes, J!MayState, J!Row
  <2>5. CASE J!Remove(w)
    BY <2>1, <2>2, <2>3, <2>5 DEF J!Remove, J!Writes, J!Row
  <2> QED  BY <1>1, <2>4, <2>5
<1>2. ASSUME NEW w \in Worker, J!Toggle(w, "open", "Open") \/ J!Toggle(w, "close", "Closed")
      PROVE  jtask[w] # Idle /\ jtask'[w] = Idle /\ jtask[w].by = Creator
  BY <1>t, <1>2 DEF J!Toggle, J!At, J!Goes, JobInv
<1> QED
  BY <1>1, <1>2 DEF J!Next, J!File, J!Load, J!Apply, J!ApplyBatch

-----------------------------------------------------------------------------
(* Tour advances *)

TourSaves == [op : {"save"}, admin : BOOLEAN, copy : T!Request]
TourTasks == TourSaves \cup [op : {"delete"}]

\* The values the constants may have.
TourFits == Nothing \notin T!Request /\ Idle \notin TourTasks

TourInv ==
  /\ T!TypeOK /\ T!ApprovedStands /\ T!PrimarySees
  /\ ttask \in [Worker -> {Idle} \cup TourTasks]
  /\ \A w \in Worker : T!At(w, "save") =>
       /\ ~ttask[w].admin => ttask[w].copy.status = "Pending"
       /\ tour # Nothing /\ ~revived => ttask[w].copy.primary = tour.primary

LEMMA TourTurns ==
    ASSUME TourFits, TourInv, NEW w \in Worker, NEW t \in {Idle} \cup TourTasks, T!Goes(w, t)
    PROVE  /\ ttask' \in [Worker -> {Idle} \cup TourTasks]
           /\ ttask'[w] = t /\ \A v \in Worker \ {w} : ttask'[v] = ttask[v]
BY DEF TourInv, T!Goes

\* What a save has loaded.
LEMMA TourHeld ==
    ASSUME TourFits, TourInv, NEW w \in Worker, T!At(w, "save")
    PROVE  ttask[w].admin \in BOOLEAN /\ ttask[w].copy \in T!Request
BY DEF TourInv, TourTasks, TourSaves, T!At

LEMMA TourStep ==
    ASSUME TourFits, TourInv, [T!Next]_(T!tourVars)
    PROVE  TourInv'
PROOF
<1>t. /\ tour \in T!Request \cup {Nothing} /\ going \subseteq Employee
      /\ ttask \in [Worker -> {Idle} \cup TourTasks]
  BY DEF TourInv, T!TypeOK
<1>1. ASSUME NEW primary \in Employee, NEW ids \in SUBSET Employee, NEW amount \in Money,
             NEW billed \in Money \cup {Nothing}, T!File(primary, ids, amount, billed)
      PROVE  TourInv'
  <2>1. /\ tour' = [status |-> "Pending", advance |-> amount, primary |-> primary]
        /\ going' = ids \cup {primary} /\ bill' = billed
        /\ \A w \in Worker : ttask[w] = Idle
        /\ UNCHANGED <<ttask, signed, revived>>
    BY <1>1 DEF T!File, T!Members
  <2>2. tour' \in T!Request  BY <2>1 DEF T!Request, T!Status
  <2> QED
    BY <2>1, <2>2 DEF TourInv, T!TypeOK, T!ApprovedStands, T!PrimarySees, T!At
<1>2. ASSUME NEW w \in Worker, NEW admin \in BOOLEAN, T!LoadTour(w, admin) PROVE TourInv'
  <2> DEFINE t == [op |-> "save", admin |-> admin, copy |-> tour]
  <2>1. /\ tour # Nothing /\ T!Goes(w, t)
        /\ admin \/ tour.status = "Pending"
        /\ UNCHANGED <<tour, going, bill, signed, revived>>
    BY <1>2 DEF T!LoadTour
  <2>2. t \in TourTasks  BY <1>t, <2>1 DEF TourTasks, TourSaves
  <2>3. t.op = "save" /\ t.admin = admin /\ t.copy = tour  OBVIOUS
  <2> HIDE DEF t
  <2>4. /\ ttask' \in [Worker -> {Idle} \cup TourTasks]
        /\ ttask'[w] = t /\ \A v \in Worker \ {w} : ttask'[v] = ttask[v]
    BY <2>1, <2>2, TourTurns
  <2> QED
    BY <2>1, <2>3, <2>4 DEF TourInv, T!TypeOK, T!ApprovedStands, T!PrimarySees, T!At
<1>3. ASSUME NEW w \in Worker, NEW admin \in BOOLEAN, T!LoadDelete(w, admin) PROVE TourInv'
  <2> DEFINE t == [op |-> "delete"]
  <2>1. t \in TourTasks /\ t.op = "delete"  BY DEF TourTasks
  <2>2. T!Goes(w, t) /\ UNCHANGED <<tour, going, bill, signed, revived>>
    BY <1>3 DEF T!LoadDelete
  <2> HIDE DEF t
  <2>3. /\ ttask' \in [Worker -> {Idle} \cup TourTasks]
        /\ ttask'[w] = t /\ \A v \in Worker \ {w} : ttask'[v] = ttask[v]
    BY <2>1, <2>2, TourTurns
  <2> QED
    BY <2>1, <2>2, <2>3 DEF TourInv, T!TypeOK, T!ApprovedStands, T!PrimarySees, T!At
<1>4. ASSUME NEW w \in Worker, T!SaveTour(w) PROVE TourInv'
  <2> DEFINE copy == ttask[w].copy
             admin == ttask[w].admin
  <2>1. T!At(w, "save") /\ T!Goes(w, Idle) /\ bill' \in {bill} \cup Money
        /\ revived' = (revived \/ tour = Nothing)
    BY <1>4 DEF T!SaveTour
  <2>2. admin \in BOOLEAN /\ copy \in T!Request  BY <2>1, TourHeld
  <2>3. PICK granted \in (IF admin THEN T!Status ELSE {copy.status}), amount \in Money :
          /\ tour' = [copy EXCEPT !.status = granted, !.advance = amount]
          /\ signed' = IF admin /\ granted = "Approved" THEN amount ELSE signed
          /\ \/ UNCHANGED going
             \/ \E ids \in SUBSET Employee :
                  going' \in {ids \cup {copy.primary}, ids \cup {copy.primary} \cup going}
    BY <1>4 DEF T!SaveTour, T!Written, T!Members
  <2>4. /\ ttask' \in [Worker -> {Idle} \cup TourTasks]
        /\ ttask'[w] = Idle /\ \A v \in Worker \ {w} : ttask'[v] = ttask[v]
    BY <2>1, TourTurns
  <2>5. /\ ~admin => copy.status = "Pending"
        /\ tour # Nothing /\ ~revived => copy.primary = tour.primary
    BY <2>1 DEF TourInv
  <2>6. granted \in T!Status  BY <2>2, <2>3 DEF T!Request
  <2>7. /\ tour' \in T!Request /\ tour'.status = granted
        /\ tour'.advance = amount /\ tour'.primary = copy.primary
    BY <2>2, <2>3, <2>6 DEF T!Request
  <2>8. going' \subseteq Employee /\ (tour'.primary \in going' \/ UNCHANGED going)
    BY <1>t, <2>2, <2>3, <2>7 DEF T!Request
  <2>9. T!TypeOK'
    BY <2>1, <2>3, <2>7, <2>8 DEF TourInv, T!TypeOK
  <2>10. T!ApprovedStands'
    BY <2>3, <2>5, <2>7 DEF T!ApprovedStands
  <2>11. T!PrimarySees'
    BY <2>1, <2>5, <2>7, <2>8 DEF TourInv, T!PrimarySees
  <2>12. ASSUME NEW v \in Worker, T!At(v, "save")'
         PROVE  /\ ~ttask'[v].admin => ttask'[v].copy.status = "Pending"
                /\ tour' # Nothing /\ ~revived' => ttask'[v].copy.primary = tour'.primary
    <3>1. v # w /\ ttask'[v] = ttask[v] /\ T!At(v, "save")  BY <2>4, <2>12 DEF T!At
    <3> QED  BY <2>1, <2>5, <2>7, <3>1 DEF TourInv
  <2> QED  BY <2>4, <2>9, <2>10, <2>11, <2>12 DEF TourInv
<1>5. ASSUME NEW w \in Worker, T!Delete(w) PROVE TourInv'
  <2>1. /\ tour' = Nothing /\ going' = {} /\ bill' = Nothing /\ UNCHANGED <<signed, revived>>
        /\ T!Goes(w, Idle)
    BY <1>5 DEF T!Delete
  <2>2. /\ ttask' \in [Worker -> {Idle} \cup TourTasks]
        /\ ttask'[w] = Idle /\ \A v \in Worker \ {w} : ttask'[v] = ttask[v]
    BY <2>1, TourTurns
  <2> QED
    BY <2>1, <2>2 DEF TourInv, T!TypeOK, T!ApprovedStands, T!PrimarySees, T!At
<1>6. CASE UNCHANGED T!tourVars
  BY <1>6 DEF T!tourVars, TourInv, T!TypeOK, T!ApprovedStands, T!PrimarySees, T!At
<1> QED
  BY <1>1, <1>2, <1>3, <1>4, <1>5, <1>6 DEF T!Next

-----------------------------------------------------------------------------
(* Client leads *)

LeadTasks ==
  [op : {"read"}] \cup [op : {"count"}]
    \cup [op : {"list"}, row : L!Lead, list : SUBSET Person, left : SUBSET Person]
    \cup [op : {"add"}, row : L!Lead, left : SUBSET Person] \cup [op : {"save"}, row : L!Lead]
    \cup [op : {"ack"}, cycle : 0..(MaxAcks - 1)]
    \cup [op : {"note"}, left : 1..2, counts : BOOLEAN]
    \cup [op : {"bump"}, day : Day, seen : Nat]

\* The values the constants may have: the day is the same in India and in UTC.
LeadFits ==
  /\ UtcDay = LocalDay /\ LocalDay \in Day
  /\ MaxNotes \in Nat /\ MaxAcks \in Nat
  /\ Nothing \notin L!Lead \cup Nat
  /\ Idle \notin LeadTasks /\ IsFiniteSet(Worker)

\* An update that has cleared the members still has those to add that are on the list
\* cleared last and no members.
Listed ==
  /\ people \subseteq named
  /\ \A w \in Worker : /\ L!At(w, "add") => ltask[w].left \subseteq named
                       /\ L!At(w, "list") => ltask[w].left = ltask[w].list
  /\ ~lgone => \/ last \subseteq people
               \/ \E w \in Worker : L!At(w, "add") /\ last \subseteq people \cup ltask[w].left

\* A conversation that counts is in the statistics or on its way.
Counting == {w \in Worker : L!At(w, "count") \/ L!At(w, "bump")}
Counted ==
  /\ \A w \in Worker : L!At(w, "bump") => ltask[w].day = LocalDay /\ stat[LocalDay] # Nothing
  /\ counted = L!Total(LocalDay) + Cardinality(Counting)

LeadInv ==
  /\ L!TypeOK /\ ltask \in [Worker -> {Idle} \cup LeadTasks]
  /\ lead = Nothing => lgone
  /\ Listed /\ Counted

LEMMA LeadTurns ==
    ASSUME LeadInv, NEW w \in Worker, NEW t \in {Idle} \cup LeadTasks, L!Turn(w, t)
    PROVE  /\ ltask' \in [Worker -> {Idle} \cup LeadTasks]
           /\ ltask'[w] = t /\ \A v \in Worker \ {w} : ltask'[v] = ltask[v]
BY DEF LeadInv, L!Turn

\* What a request holds, by the statement it is at.
LEMMA LeadHeld ==
    ASSUME LeadInv, NEW w \in Worker
    PROVE  /\ L!At(w, "list") =>
                ltask[w] \in [op : {"list"}, row : L!Lead, list : SUBSET Person, left : SUBSET Person]
           /\ L!At(w, "add") => ltask[w] \in [op : {"add"}, row : L!Lead, left : SUBSET Person]
           /\ L!At(w, "save") => ltask[w].row \in L!Lead
           /\ L!At(w, "ack") => ltask[w].cycle \in 0..(MaxAcks - 1)
           /\ L!At(w, "note") => ltask[w] \in [op : {"note"}, left : 1..2, counts : BOOLEAN]
           /\ L!At(w, "bump") => ltask[w].day \in Day
BY DEF LeadInv, LeadTasks, L!At

LEMMA CountingFinite ==
    ASSUME LeadFits
    PROVE  IsFiniteSet(Counting) /\ Cardinality(Counting) \in Nat
PROOF
<1>1. Counting \subseteq Worker  BY DEF Counting
<1> QED  BY <1>1, FS_Subset, FS_CardinalityType DEF LeadFits

\* A request that was not adding members, nor is now.
LEMMA ListedAside ==
    ASSUME LeadInv, NEW w \in Worker, NEW t \in {Idle} \cup LeadTasks, L!Turn(w, t),
           ~L!At(w, "add"), t = Idle \/ t.op # "add",
           t # Idle /\ t.op = "list" => t.left = t.list,
           UNCHANGED <<people, last, named, lgone>>
    PROVE  Listed'
PROOF
<1>1. ltask'[w] = t /\ \A v \in Worker \ {w} : ltask'[v] = ltask[v]  BY LeadTurns
<1> QED  BY <1>1 DEF LeadInv, Listed, L!At

\* A request that was not counting a conversation, nor is now.
LEMMA CountedAside ==
    ASSUME LeadInv, NEW w \in Worker, NEW t \in {Idle} \cup LeadTasks, L!Turn(w, t),
           w \notin Counting, t = Idle \/ t.op \notin {"count", "bump"},
           UNCHANGED <<stat, counted>>
    PROVE  Counted'
PROOF
<1>1. ltask'[w] = t /\ \A v \in Worker \ {w} : ltask'[v] = ltask[v]  BY LeadTurns
<1>2. ASSUME NEW v \in Worker PROVE v \in Counting' <=> v \in Counting
  BY <1>1 DEF Counting, L!At
<1>3. Counting' = Counting  BY <1>2 DEF Counting
<1>4. Cardinality(Counting)' = Cardinality(Counting)  BY <1>3
<1>5. counted' = L!Total(LocalDay)' + Cardinality(Counting)'
  BY <1>4 DEF LeadInv, Counted, L!Total
<1>6. ASSUME NEW v \in Worker, L!At(v, "bump")'
      PROVE  ltask'[v].day = LocalDay /\ stat'[LocalDay] # Nothing
  <2>1. v # w /\ L!At(v, "bump")  BY <1>1, <1>6 DEF L!At
  <2> QED  BY <1>1, <2>1 DEF LeadInv, Counted
<1> QED  BY <1>5, <1>6 DEF Counted

\* A request that ends a step neither adding nor counting, and was at neither.
LEMMA LeadAside ==
    ASSUME LeadFits, LeadInv, NEW w \in Worker, NEW t \in {Idle} \cup LeadTasks, L!Turn(w, t),
           ~L!At(w, "add"), ~L!At(w, "count"), ~L!At(w, "bump"),
           t = Idle \/ t.op \notin {"add", "count", "bump"},
           t # Idle /\ t.op = "list" => t.left = t.list,
           UNCHANGED <<people, last, named, lgone, stat, counted, notes>>,
           lead' \in L!Lead \/ UNCHANGED lead
    PROVE  LeadInv'
PROOF
<1>1. ltask' \in [Worker -> {Idle} \cup LeadTasks]  BY LeadTurns
<1>2. Listed'  BY ListedAside
<1>3. w \notin Counting  BY DEF Counting
<1>4. Counted'  BY <1>3, CountedAside
<1>5. L!TypeOK' /\ (lead' = Nothing => lgone')
  BY DEF LeadFits, LeadInv, L!TypeOK
<1> QED  BY <1>1, <1>2, <1>4, <1>5 DEF LeadInv

LEMMA LeadStep ==
    ASSUME LeadFits, LeadInv, [L!Next]_(L!leadVars)
    PROVE  LeadInv'
PROOF
<1>t. /\ lead \in L!Lead \cup {Nothing} /\ people \subseteq Person /\ notes \in 0..MaxNotes
      /\ stat \in [Day -> Nat \cup {Nothing}] /\ counted \in Nat
      /\ last \subseteq Person /\ named \subseteq Person /\ lgone \in BOOLEAN
      /\ lead = Nothing => lgone
      /\ MaxNotes \in Nat /\ MaxAcks \in Nat /\ Nothing \notin L!Lead \cup Nat
  BY DEF LeadFits, LeadInv, L!TypeOK
<1>n. IsFiniteSet(Counting) /\ Cardinality(Counting) \in Nat  BY CountingFinite
<1>1. ASSUME NEW u \in Person, L!DeleteLead(u) PROVE LeadInv'
  <2>1. /\ lead' = Nothing /\ people' = {} /\ notes' = 0 /\ lgone' = TRUE
        /\ UNCHANGED <<ltask, last, named, stat, counted>>
    BY <1>1 DEF L!DeleteLead, L!StatsSame
  <2>2. Listed'  BY <2>1 DEF LeadInv, Listed, L!At
  <2>3. Counted'  BY <2>1 DEF LeadInv, Counted, Counting, L!Total, L!At
  <2>4. L!TypeOK'  BY <1>t, <2>1 DEF L!TypeOK
  <2> QED  BY <2>1, <2>2, <2>3, <2>4 DEF LeadInv
<1>2. ASSUME NEW u \in Person, L!DeleteNote(u) PROVE LeadInv'
  <2>1. /\ notes > 0 /\ notes' = notes - 1
        /\ UNCHANGED <<lead, lgone, ltask, people, last, named, stat, counted>>
    BY <1>2 DEF L!DeleteNote, L!StatsSame, L!ListSame
  <2>2. Listed'  BY <2>1 DEF LeadInv, Listed, L!At
  <2>3. Counted'  BY <2>1 DEF LeadInv, Counted, Counting, L!Total, L!At
  <2>4. L!TypeOK'  BY <1>t, <2>1 DEF L!TypeOK
  <2> QED  BY <2>1, <2>2, <2>3, <2>4 DEF LeadInv
<1>3. ASSUME NEW w \in Worker, NEW u \in Person, L!Update(w, u) PROVE LeadInv'
  <2> DEFINE t == [op |-> "read"]
  <2>1. /\ ltask[w] = Idle /\ L!Turn(w, t)
        /\ UNCHANGED <<lead, notes, lgone, people, last, named, stat, counted>>
    BY <1>3 DEF L!Update, L!StatsSame, L!ListSame
  <2>2. t \in LeadTasks /\ t.op = "read"  BY DEF LeadTasks
  <2> HIDE DEF t
  <2> QED  BY <2>1, <2>2, LeadAside DEF L!At
<1>4. ASSUME NEW w \in Worker, NEW u \in Person, NEW n \in 1..2, NEW c \in BOOLEAN,
             L!AddNotes(w, u, n, c)
      PROVE  LeadInv'
  <2> DEFINE t == [op |-> "note", left |-> n, counts |-> c /\ lead.linked]
  <2>1. /\ ltask[w] = Idle /\ L!Turn(w, t) /\ lead # Nothing
        /\ UNCHANGED <<lead, notes, lgone, people, last, named, stat, counted>>
    BY <1>4 DEF L!AddNotes, L!MayAccess, L!StatsSame, L!ListSame
  <2>2. lead.linked \in BOOLEAN  BY <1>t, <2>1 DEF L!Lead
  <2>3. (c /\ lead.linked) \in BOOLEAN  BY <2>2
  <2>4. t \in LeadTasks /\ t.op = "note"  BY <2>3 DEF LeadTasks
  <2> HIDE DEF t
  <2> QED  BY <2>1, <2>4, LeadAside DEF L!At
<1>5. ASSUME NEW w \in Worker, NEW list \in (SUBSET Person) \cup {Nothing}, NEW bad \in BOOLEAN,
             L!ReadLead(w, list, bad)
      PROVE  LeadInv'
  <2> DEFINE t == IF lead = Nothing THEN Idle ELSE L!Started(list, bad)
  <2>1. /\ L!At(w, "read") /\ L!Turn(w, t)
        /\ UNCHANGED <<lead, notes, lgone, people, last, named, stat, counted>>
    BY <1>5 DEF L!ReadLead, L!StatsSame, L!ListSame
  <2>2. /\ t \in {Idle} \cup LeadTasks
        /\ t = Idle \/ t.op \notin {"add", "count", "bump"}
        /\ t # Idle /\ t.op = "list" => t.left = t.list
    <3>1. CASE t = Idle  BY <3>1
    <3>2. CASE t = [op |-> "save", row |-> lead] /\ lead # Nothing
      <4>1. t \in LeadTasks  BY <1>t, <3>2 DEF LeadTasks
      <4>2. t.op = "save"  BY <3>2
      <4> QED  BY <4>1, <4>2
    <3>3. CASE /\ t = [op |-> "list", row |-> lead, list |-> list, left |-> list]
               /\ lead # Nothing /\ list # Nothing
      <4>1. t \in LeadTasks  BY <1>t, <3>3 DEF LeadTasks
      <4>2. t.op = "list" /\ t.left = list /\ t.list = list  BY <3>3
      <4> QED  BY <4>1, <4>2
    <3> QED  BY <3>1, <3>2, <3>3 DEF L!Started, L!Editing
  <2>3. ~L!At(w, "add") /\ ~L!At(w, "count") /\ ~L!At(w, "bump")  BY <2>1 DEF L!At
  <2> HIDE DEF t
  <2> QED  BY <2>1, <2>2, <2>3, LeadAside
<1>6. ASSUME NEW w \in Worker, L!ClearMembers(w) PROVE LeadInv'
  <2> DEFINE t == [op |-> "add", row |-> ltask[w].row, left |-> ltask[w].left]
  <2>1. /\ L!At(w, "list") /\ L!Turn(w, t)
        /\ ltask[w] \in [op : {"list"}, row : L!Lead, list : SUBSET Person, left : SUBSET Person]
        /\ people' = {} /\ last' = ltask[w].list
        /\ named' = last' \cup IF L!Updating = {w} THEN {} ELSE named
        /\ UNCHANGED <<lead, notes, lgone, stat, counted>>
    BY <1>6, LeadHeld DEF L!ClearMembers, L!StatsSame
  <2>2. /\ t \in LeadTasks /\ t.op = "add" /\ t.left = ltask[w].left /\ t # Idle
        /\ ltask[w].left = ltask[w].list
    <3>1. t \in LeadTasks  BY <2>1 DEF LeadTasks
    <3>2. ltask[w].left = ltask[w].list  BY <2>1 DEF LeadInv, Listed
    <3> QED  BY <3>1, <3>2 DEF LeadFits
  <2> HIDE DEF t
  <2>3. /\ ltask' \in [Worker -> {Idle} \cup LeadTasks]
        /\ ltask'[w] = t /\ \A v \in Worker \ {w} : ltask'[v] = ltask[v]
    BY <2>1, <2>2, LeadTurns
  <2>4. w \notin Counting  BY <2>1 DEF Counting, L!At
  <2>5. Counted'  BY <2>1, <2>2, <2>4, CountedAside
  <2>6. L!TypeOK'
    BY <1>t, <2>1 DEF L!TypeOK
  <2>7. Listed'
    <3>1. L!At(w, "add")' /\ ltask'[w].left = last'  BY <2>1, <2>2, <2>3 DEF L!At
    <3>2. ASSUME NEW v \in Worker, L!At(v, "add")' PROVE ltask'[v].left \subseteq named'
      <4>1. CASE v = w  BY <2>1, <3>1, <4>1
      <4>2. CASE v # w
        <5>1. L!At(v, "add") /\ ltask'[v] = ltask[v]  BY <2>3, <3>2, <4>2 DEF L!At
        <5>2. v \in L!Updating  BY <5>1 DEF L!Updating, L!At
        <5>3. ltask[v].left \subseteq named  BY <5>1 DEF LeadInv, Listed
        <5> QED  BY <2>1, <4>2, <5>1, <5>2, <5>3
      <4> QED  BY <4>1, <4>2
    <3>3. ASSUME NEW v \in Worker, L!At(v, "list")' PROVE ltask'[v].left = ltask'[v].list
      <4>1. v # w /\ L!At(v, "list") /\ ltask'[v] = ltask[v]  BY <2>2, <2>3, <3>3 DEF L!At
      <4> QED  BY <4>1 DEF LeadInv, Listed
    <3> QED  BY <2>1, <3>1, <3>2, <3>3 DEF Listed
  <2> QED  BY <1>t, <2>1, <2>3, <2>5, <2>6, <2>7 DEF LeadInv
<1>7. ASSUME NEW w \in Worker, L!AddMember(w) PROVE LeadInv'
  <2>1. /\ L!At(w, "add") /\ UNCHANGED <<lead, notes, lgone, last, named, stat, counted>>
        /\ ltask[w] \in [op : {"add"}, row : L!Lead, left : SUBSET Person]
        /\ ltask[w].left \subseteq named /\ people \subseteq named
    BY <1>7, LeadHeld DEF L!AddMember, L!StatsSame, LeadInv, Listed
  <2>2. w \notin Counting  BY <2>1 DEF Counting, L!At
  <2>3. PICK t \in {Idle} \cup LeadTasks :
          /\ L!Turn(w, t) /\ people \subseteq people' /\ people' \subseteq people \cup ltask[w].left
          /\ t = Idle \/ t.op \in {"add", "save"}
          /\ \/ lgone
             \/ ltask[w].left = {}
             \/ t # Idle /\ t.op = "add" /\ people \cup ltask[w].left = people' \cup t.left
          /\ t # Idle /\ t.op = "add" => t.left \subseteq named
    <3>1. CASE ltask[w].left = {}
      <4> DEFINE t == [op |-> "save", row |-> ltask[w].row]
      <4>1. t \in LeadTasks /\ t.op = "save"  BY <2>1 DEF LeadTasks
      <4>2. L!Turn(w, t) /\ UNCHANGED people  BY <1>7, <3>1 DEF L!AddMember
      <4> HIDE DEF t
      <4> QED  BY <3>1, <4>1, <4>2
    <3>2. CASE ltask[w].left # {} /\ lead = Nothing
      <4>1. L!Turn(w, Idle) /\ UNCHANGED people /\ lgone
        BY <1>7, <1>t, <3>2 DEF L!AddMember, L!Finish
      <4> QED  BY <4>1
    <3>3. CASE ltask[w].left # {} /\ lead # Nothing
      <4>1. PICK u \in ltask[w].left :
              /\ people' = people \cup {u}
              /\ L!Turn(w, [ltask[w] EXCEPT !.left = @ \ {u}])
        BY <1>7, <3>3 DEF L!AddMember
      <4> DEFINE t == [ltask[w] EXCEPT !.left = @ \ {u}]
      <4>2. t \in LeadTasks /\ t.op = "add" /\ t.left = ltask[w].left \ {u} /\ L!Turn(w, t)
        BY <2>1, <4>1 DEF LeadTasks
      <4>3. t # Idle  BY <4>2 DEF LeadFits
      <4> HIDE DEF t
      <4>4. /\ people \subseteq people' /\ people' \subseteq people \cup ltask[w].left
            /\ people \cup ltask[w].left = people' \cup t.left /\ t.left \subseteq named
        BY <2>1, <4>1, <4>2
      <4> QED  BY <4>2, <4>3, <4>4
    <3> QED  BY <3>1, <3>2, <3>3
  <2>4. /\ ltask' \in [Worker -> {Idle} \cup LeadTasks]
        /\ ltask'[w] = t /\ \A v \in Worker \ {w} : ltask'[v] = ltask[v]
    BY <2>3, LeadTurns
  <2>5. Counted'  BY <2>1, <2>2, <2>3, CountedAside
  <2>6. L!TypeOK'  BY <1>t, <2>1, <2>3 DEF L!TypeOK
  <2>7. Listed'
    <3>1. people' \subseteq named'  BY <2>1, <2>3
    <3>2. ASSUME NEW v \in Worker
          PROVE  /\ L!At(v, "add")' => ltask'[v].left \subseteq named'
                 /\ L!At(v, "list")' => ltask'[v].left = ltask'[v].list
      BY <2>1, <2>3, <2>4 DEF LeadInv, Listed, L!At
    <3>3. ASSUME ~lgone
          PROVE  \/ last' \subseteq people'
                 \/ \E v \in Worker : L!At(v, "add")' /\ last' \subseteq people' \cup ltask'[v].left
      <4>1. CASE last \subseteq people  BY <2>1, <2>3, <4>1
      <4>2. CASE last \subseteq people \cup ltask[w].left
        <5>1. CASE ltask[w].left = {}  BY <2>1, <2>3, <4>2, <5>1
        <5>2. CASE t # Idle /\ t.op = "add" /\ people \cup ltask[w].left = people' \cup t.left
          <6>1. L!At(w, "add")' /\ ltask'[w].left = t.left  BY <2>4, <5>2 DEF L!At
          <6> QED  BY <2>1, <4>2, <5>2, <6>1
        <5> QED  BY <2>3, <3>3, <5>1, <5>2
      <4>3. ASSUME NEW v \in Worker \ {w}, L!At(v, "add"), last \subseteq people \cup ltask[v].left
            PROVE  L!At(v, "add")' /\ last' \subseteq people' \cup ltask'[v].left
        BY <2>1, <2>3, <2>4, <4>3 DEF L!At
      <4> QED  BY <3>3, <4>1, <4>2, <4>3 DEF LeadInv, Listed
    <3> QED  BY <2>1, <3>1, <3>2, <3>3 DEF Listed
  <2> QED  BY <1>t, <2>1, <2>4, <2>5, <2>6, <2>7 DEF LeadInv
<1>8. ASSUME NEW w \in Worker, NEW unlink \in BOOLEAN, L!SaveLead(w, unlink) PROVE LeadInv'
  <2>1. /\ L!At(w, "save") /\ L!Turn(w, Idle) /\ ltask[w].row \in L!Lead
        /\ lead' = [ltask[w].row EXCEPT !.linked = @ /\ ~unlink]
        /\ UNCHANGED <<notes, lgone, people, last, named, stat, counted>>
    BY <1>8, LeadHeld DEF L!SaveLead, L!Finish, L!StatsSame, L!ListSame
  <2>2. ltask[w].row.linked \in BOOLEAN  BY <2>1 DEF L!Lead
  <2>3. (ltask[w].row.linked /\ ~unlink) \in BOOLEAN  BY <2>2
  <2>4. lead' \in L!Lead  BY <2>1, <2>3 DEF L!Lead
  <2>5. ~L!At(w, "add") /\ ~L!At(w, "count") /\ ~L!At(w, "bump")  BY <2>1 DEF L!At
  <2> QED  BY <2>1, <2>4, <2>5, LeadAside
<1>9. ASSUME NEW w \in Worker, L!LoadForAck(w) PROVE LeadInv'
  <2> DEFINE t == [op |-> "ack", cycle |-> lead.cycle]
  <2>1. /\ ltask[w] = Idle /\ L!Turn(w, t) /\ lead # Nothing /\ lead.cycle < MaxAcks
        /\ UNCHANGED <<lead, notes, lgone, people, last, named, stat, counted>>
    BY <1>9 DEF L!LoadForAck, L!StatsSame, L!ListSame
  <2>2. lead.cycle \in 0..(MaxAcks - 1)  BY <1>t, <2>1 DEF L!Lead
  <2>3. t \in LeadTasks /\ t.op = "ack"  BY <2>2 DEF LeadTasks
  <2> HIDE DEF t
  <2> QED  BY <2>1, <2>3, LeadAside DEF L!At
<1>10. ASSUME NEW w \in Worker, L!SaveAck(w) PROVE LeadInv'
  <2>1. /\ L!At(w, "ack") /\ L!Turn(w, Idle) /\ ltask[w].cycle \in 0..(MaxAcks - 1)
        /\ lead' = IF lead = Nothing THEN Nothing ELSE [lead EXCEPT !.cycle = ltask[w].cycle + 1]
        /\ UNCHANGED <<notes, lgone, people, last, named, stat, counted>>
    BY <1>10, LeadHeld DEF L!SaveAck, L!Finish, L!StatsSame, L!ListSame
  <2>2. ltask[w].cycle + 1 \in 0..MaxAcks  BY <1>t, <2>1
  <2>3. lead' \in L!Lead \/ UNCHANGED lead  BY <1>t, <2>1, <2>2 DEF L!Lead
  <2>4. ~L!At(w, "add") /\ ~L!At(w, "count") /\ ~L!At(w, "bump")  BY <2>1 DEF L!At
  <2> QED  BY <2>1, <2>3, <2>4, LeadAside
<1>11. ASSUME NEW w \in Worker, L!StoreNote(w) PROVE LeadInv'
  <2> DEFINE h == ltask[w]
  <2>1. /\ L!At(w, "note") /\ UNCHANGED <<lead, lgone, stat, people, last, named>>
        /\ h \in [op : {"note"}, left : 1..2, counts : BOOLEAN]
    BY <1>11, LeadHeld DEF L!StoreNote, L!ListSame
  <2>2. w \notin Counting /\ ~L!At(w, "add")  BY <2>1 DEF Counting, L!At
  <2>3. PICK t \in {Idle} \cup LeadTasks :
          /\ L!Turn(w, t) /\ notes' \in 0..MaxNotes
          /\ t # Idle => t.op \in {"note", "count"}
          /\ counted' = counted + (IF t # Idle /\ t.op = "count" THEN 1 ELSE 0)
    <3>1. CASE lead = Nothing \/ notes = MaxNotes
      <4>1. L!Turn(w, Idle) /\ UNCHANGED <<notes, counted>>
        BY <1>11, <3>1 DEF L!StoreNote, L!Finish
      <4> QED  BY <1>t, <4>1
    <3>2. CASE lead # Nothing /\ notes # MaxNotes
      <4>1. /\ notes' = notes + 1
            /\ counted' = counted + (IF h.left = 1 /\ h.counts THEN 1 ELSE 0)
            /\ IF h.left > 1 THEN L!Turn(w, [h EXCEPT !.left = @ - 1])
               ELSE IF h.counts THEN L!Turn(w, [op |-> "count"]) ELSE L!Turn(w, Idle)
        BY <1>11, <3>2 DEF L!StoreNote, L!Finish
      <4>2. notes' \in 0..MaxNotes  BY <1>t, <3>2, <4>1
      <4>3. CASE h.left > 1
        <5> DEFINE t == [h EXCEPT !.left = @ - 1]
        <5>1. t \in LeadTasks /\ t.op = "note" /\ L!Turn(w, t)
          <6>1. h.left - 1 \in 1..2  BY <2>1, <4>3
          <6> QED  BY <2>1, <4>1, <4>3, <6>1 DEF LeadTasks
        <5> HIDE DEF t
        <5> QED  BY <1>t, <2>1, <4>1, <4>2, <4>3, <5>1
      <4>4. CASE ~(h.left > 1) /\ h.counts
        <5> DEFINE t == [op |-> "count"]
        <5>1. t \in LeadTasks /\ t.op = "count" /\ L!Turn(w, t) /\ t # Idle
          BY <4>1, <4>4 DEF LeadTasks, LeadFits
        <5>2. h.left = 1  BY <2>1, <4>4
        <5> HIDE DEF t
        <5> QED  BY <4>1, <4>2, <4>4, <5>1, <5>2
      <4>5. CASE ~(h.left > 1) /\ ~h.counts
        BY <1>t, <4>1, <4>2, <4>5
      <4> QED  BY <4>3, <4>4, <4>5
    <3> QED  BY <3>1, <3>2
  <2>4. /\ ltask' \in [Worker -> {Idle} \cup LeadTasks]
        /\ ltask'[w] = t /\ \A v \in Worker \ {w} : ltask'[v] = ltask[v]
    BY <2>3, LeadTurns
  <2>5. Listed'
    <3>1. /\ t = Idle \/ t.op # "add"
          /\ t # Idle /\ t.op = "list" => t.left = t.list
      BY <2>3
    <3> QED  BY <2>1, <2>2, <2>3, <3>1, ListedAside
  <2>6. L!TypeOK'  BY <1>t, <2>1, <2>3 DEF L!TypeOK
  <2>7. Counted'
    <3>1. CASE ~(t # Idle /\ t.op = "count")
      <4>1. counted' = counted  BY <1>t, <2>3, <3>1
      <4> QED  BY <2>1, <2>2, <2>3, <3>1, <4>1, CountedAside
    <3>2. CASE t # Idle /\ t.op = "count"
      <4>1. ASSUME NEW v \in Worker PROVE v \in Counting' <=> v \in Counting \cup {w}
        BY <2>2, <2>4, <3>2, <4>1 DEF Counting, L!At
      <4>2. Counting' = Counting \cup {w}  BY <4>1 DEF Counting
      <4>3. Cardinality(Counting') = Cardinality(Counting) + 1
        BY <1>n, <2>2, <4>2, FS_AddElement
      <4>4. Cardinality(Counting)' = Cardinality(Counting) + 1  BY <4>3
      <4>5. L!Total(LocalDay)' = L!Total(LocalDay) /\ L!Total(LocalDay) \in Nat
        BY <1>t, <2>1 DEF L!Total, LeadFits
      <4>6. counted' = L!Total(LocalDay)' + Cardinality(Counting)'
        BY <1>n, <2>3, <3>2, <4>4, <4>5 DEF LeadInv, Counted
      <4>7. ASSUME NEW v \in Worker, L!At(v, "bump")'
            PROVE  ltask'[v].day = LocalDay /\ stat'[LocalDay] # Nothing
        <5>1. v # w /\ L!At(v, "bump")  BY <2>4, <3>2, <4>7 DEF L!At
        <5> QED  BY <2>1, <2>4, <5>1 DEF LeadInv, Counted
      <4> QED  BY <4>6, <4>7 DEF Counted
    <3> QED  BY <3>1, <3>2
  <2> QED  BY <1>t, <2>1, <2>4, <2>5, <2>6, <2>7 DEF LeadInv
<1>12. ASSUME NEW w \in Worker, L!FindStat(w) PROVE LeadInv'
  <2> DEFINE figure == IF stat[LocalDay] # Nothing THEN stat[LocalDay] ELSE 0
             t == [op |-> "bump", day |-> LocalDay, seen |-> figure]
  <2>1. /\ L!At(w, "count") /\ L!Turn(w, t)
        /\ stat' = IF stat[LocalDay] # Nothing THEN stat ELSE [stat EXCEPT ![LocalDay] = 0]
        /\ UNCHANGED <<lead, notes, lgone, counted, people, last, named>>
    BY <1>12 DEF L!FindStat, L!ListSame, LeadFits
  <2>2. figure \in Nat /\ LocalDay \in Day  BY <1>t DEF LeadFits
  <2>3. t \in LeadTasks /\ t.op = "bump" /\ t.day = LocalDay /\ t # Idle
    BY <2>2 DEF LeadTasks, LeadFits
  <2> HIDE DEF t
  <2>4. /\ ltask' \in [Worker -> {Idle} \cup LeadTasks]
        /\ ltask'[w] = t /\ \A v \in Worker \ {w} : ltask'[v] = ltask[v]
    BY <2>1, <2>3, LeadTurns
  <2>5. ~L!At(w, "add")  BY <2>1 DEF L!At
  <2>6. Listed'  BY <2>1, <2>3, <2>5, ListedAside
  <2>7. /\ stat' \in [Day -> Nat \cup {Nothing}] /\ stat'[LocalDay] # Nothing
        /\ L!Total(LocalDay)' = L!Total(LocalDay)
    BY <1>t, <2>1, <2>2 DEF L!Total
  <2>8. L!TypeOK'  BY <1>t, <2>1, <2>7 DEF L!TypeOK
  <2>9. Counted'
    <3>1. ASSUME NEW v \in Worker PROVE v \in Counting' <=> v \in Counting
      BY <2>1, <2>3, <2>4 DEF Counting, L!At
    <3>2. Counting' = Counting  BY <3>1 DEF Counting
    <3>3. Cardinality(Counting)' = Cardinality(Counting)  BY <3>2
    <3>4. ASSUME NEW v \in Worker, L!At(v, "bump")' PROVE ltask'[v].day = LocalDay
      BY <2>3, <2>4, <3>4 DEF LeadInv, Counted, L!At
    <3>5. counted' = L!Total(LocalDay)' + Cardinality(Counting)'
      BY <2>1, <2>7, <3>3 DEF LeadInv, Counted
    <3> QED  BY <2>7, <3>4, <3>5 DEF Counted
  <2> QED  BY <1>t, <2>1, <2>4, <2>6, <2>8, <2>9 DEF LeadInv
<1>13. ASSUME NEW w \in Worker, L!BumpStat(w) PROVE LeadInv'
  <2>1. /\ L!At(w, "bump") /\ L!Turn(w, Idle) /\ ltask[w].day = LocalDay
        /\ stat' = [stat EXCEPT ![LocalDay] = @ + 1] /\ stat[LocalDay] # Nothing
        /\ UNCHANGED <<lead, notes, lgone, counted, people, last, named>>
    BY <1>13 DEF L!BumpStat, L!Bumped, L!Finish, L!ListSame, LeadInv, Counted
  <2>2. /\ ltask' \in [Worker -> {Idle} \cup LeadTasks]
        /\ ltask'[w] = Idle /\ \A v \in Worker \ {w} : ltask'[v] = ltask[v]
    BY <2>1, LeadTurns
  <2>3. ~L!At(w, "add")  BY <2>1 DEF L!At
  <2>4. Listed'  BY <2>1, <2>3, ListedAside
  <2>5. /\ LocalDay \in Day /\ stat[LocalDay] \in Nat
        /\ stat' \in [Day -> Nat \cup {Nothing}] /\ stat'[LocalDay] = stat[LocalDay] + 1
    BY <1>t, <2>1 DEF LeadFits
  <2>6. L!TypeOK'  BY <1>t, <2>1, <2>5 DEF L!TypeOK
  <2>7. Counted'
    <3>1. ASSUME NEW v \in Worker PROVE v \in Counting' <=> v \in Counting \ {w}
      BY <2>2 DEF Counting, L!At
    <3>2. Counting' = Counting \ {w} /\ w \in Counting  BY <2>1, <3>1 DEF Counting
    <3>3. Cardinality(Counting') = Cardinality(Counting) - 1
      BY <1>n, <3>2, FS_RemoveElement
    <3>4. Cardinality(Counting)' = Cardinality(Counting) - 1  BY <3>3
    <3>5. /\ L!Total(LocalDay) = stat[LocalDay] /\ L!Total(LocalDay)' = stat[LocalDay] + 1
          /\ stat'[LocalDay] # Nothing
      <4>1. stat[LocalDay] + 1 \in Nat  BY <2>5
      <4>2. stat[LocalDay] + 1 # Nothing  BY <1>t, <4>1
      <4> QED  BY <2>1, <2>5, <4>2 DEF L!Total
    <3>6. counted' = L!Total(LocalDay)' + Cardinality(Counting)'
      BY <1>n, <2>1, <2>5, <3>4, <3>5 DEF LeadInv, Counted
    <3>7. ASSUME NEW v \in Worker, L!At(v, "bump")' PROVE ltask'[v].day = LocalDay
      BY <2>2, <3>7 DEF LeadInv, Counted, L!At
    <3> QED  BY <3>5, <3>6, <3>7 DEF Counted
  <2> QED  BY <1>t, <2>1, <2>2, <2>4, <2>6, <2>7 DEF LeadInv
<1>14. CASE UNCHANGED L!leadVars
  <2>1. UNCHANGED <<lead, people, notes, stat, ltask, counted, last, named, lgone>>
    BY <1>14 DEF L!leadVars
  <2> QED
    BY <2>1 DEF LeadInv, L!TypeOK, Listed, Counted, Counting, L!Total, L!At
<1> QED
  BY <1>1, <1>2, <1>3, <1>4, <1>5, <1>6, <1>7, <1>8, <1>9, <1>10, <1>11, <1>12, <1>13, <1>14
     DEF L!Next

\* When nobody is at work the invariant is the two properties.
LEMMA LeadAtRest ==
    ASSUME LeadFits, LeadInv
    PROVE  L!ListStands /\ L!SalesCounted
PROOF
<1>1. L!ListStands  BY DEF LeadInv, Listed, L!ListStands, L!AtRest, L!At
<1>2. ASSUME L!AtRest PROVE L!Total(LocalDay) = counted
  <2>1. Counting = {}  BY <1>2 DEF L!AtRest, Counting, L!At
  <2>2. Cardinality(Counting) = 0  BY <2>1, FS_EmptySet
  <2>3. L!Total(LocalDay) \in Nat  BY DEF LeadInv, L!TypeOK, L!Total, LeadFits
  <2> QED  BY <2>2, <2>3 DEF LeadInv, Counted
<1> QED  BY <1>1, <1>2 DEF L!SalesCounted

-----------------------------------------------------------------------------
(* Tasks *)

WorkTasks ==
  [op : {"assign"}, left : SUBSET Assignee]
    \cup [op : {"save"}, status : W!Status] \cup [op : {"log"}]
    \cup [op : {"raise"}, by : Assignee \cup {Creator}] \cup [op : {"reset", "list"}, by : Assignee]

\* The values the constants may have.
WorkFits ==
  /\ LastMonth \in Nat \ {0} /\ MaxMessages \in Nat
  /\ Nothing \notin W!Status \cup 1..LastMonth
  /\ Idle \notin WorkTasks /\ IsFiniteSet(Worker)

\* Messages that the count of a is still to be raised by, and a request that is about
\* to show a all of them.
Raisers(a) == {w \in Worker : W!At(w, "raise") /\ wtask[w].by # a}
Listing(a) == \E w \in Worker : W!At(w, "list") /\ wtask[w].by = a
Noticed(a) ==
  IF a \in assigned THEN toRead[a] <= unread[a] + Cardinality(Raisers(a)) \/ Listing(a)
  ELSE toRead[a] = 0

Dated ==
  work = "COMPLETED" =>
    (dated # Nothing /\ dated >= done) \/ (\E w \in Worker : W!At(w, "log"))

WorkInv ==
  /\ W!TypeOK /\ wtask \in [Worker -> {Idle} \cup WorkTasks]
  /\ done <= month /\ Dated
  /\ \A a \in Assignee : Noticed(a)

LEMMA WorkTurns ==
    ASSUME WorkInv, NEW w \in Worker, NEW t \in {Idle} \cup WorkTasks, W!Goes(w, t)
    PROVE  /\ wtask' \in [Worker -> {Idle} \cup WorkTasks]
           /\ wtask'[w] = t /\ \A v \in Worker \ {w} : wtask'[v] = wtask[v]
BY DEF WorkInv, W!Goes

\* What a request holds, by the statement it is at.
LEMMA WorkHeld ==
    ASSUME WorkInv, NEW w \in Worker
    PROVE  /\ W!At(w, "assign") => wtask[w] \in [op : {"assign"}, left : SUBSET Assignee]
           /\ W!At(w, "save") => wtask[w] \in [op : {"save"}, status : W!Status]
           /\ W!At(w, "raise") => wtask[w].by \in Assignee \cup {Creator}
           /\ W!At(w, "reset") \/ W!At(w, "list") =>
                wtask[w] \in [op : {"reset", "list"}, by : Assignee]
BY DEF WorkInv, WorkTasks, W!At

LEMMA RaisersFinite ==
    ASSUME WorkFits, NEW a
    PROVE  IsFiniteSet(Raisers(a)) /\ Cardinality(Raisers(a)) \in Nat
PROOF
<1>1. Raisers(a) \subseteq Worker  BY DEF Raisers
<1> QED  BY <1>1, FS_Subset, FS_CardinalityType DEF WorkFits

\* A request that neither is about to raise counts nor will be, and that does not leave
\* a list it has begun.
LEMMA WorkAside ==
    ASSUME WorkInv, NEW w \in Worker, NEW t \in {Idle} \cup WorkTasks, W!Goes(w, t),
           ~W!At(w, "raise"), ~W!At(w, "list"), t = Idle \/ t.op # "raise", NEW a
    PROVE  Raisers(a)' = Raisers(a) /\ (Listing(a) => Listing(a)')
PROOF
<1>1. wtask'[w] = t /\ \A v \in Worker \ {w} : wtask'[v] = wtask[v]
  BY WorkTurns
<1>2. ASSUME NEW v \in Worker
      PROVE  (W!At(v, "raise") /\ wtask[v].by # a)' <=> W!At(v, "raise") /\ wtask[v].by # a
  BY <1>1 DEF W!At
<1>3. Raisers(a)' = Raisers(a)  BY <1>2 DEF Raisers
<1>4. Listing(a) => Listing(a)'
  BY <1>1 DEF Listing, W!At
<1> QED  BY <1>3, <1>4

\* Such a request leaves what is noticed alone when it changes no count and at most
\* assigns somebody more.
LEMMA NoticedStays ==
    ASSUME WorkFits, WorkInv, NEW w \in Worker, NEW t \in {Idle} \cup WorkTasks, W!Goes(w, t),
           ~W!At(w, "raise"), ~W!At(w, "list"), t = Idle \/ t.op # "raise",
           UNCHANGED <<unread, toRead>>, assigned \subseteq assigned', NEW a \in Assignee
    PROVE  Noticed(a)'
PROOF
<1>1. Raisers(a)' = Raisers(a) /\ (Listing(a) => Listing(a)')  BY WorkAside
<1>2. Noticed(a) /\ unread[a] \in Nat  BY DEF WorkInv, W!TypeOK
<1>3. Cardinality(Raisers(a)) \in Nat  BY RaisersFinite
<1> QED  BY <1>1, <1>2, <1>3 DEF Noticed

\* A request that is not about to log, and leaves the task and its log alone.
LEMMA DatedStays ==
    ASSUME WorkInv, NEW w \in Worker, NEW t \in {Idle} \cup WorkTasks, W!Goes(w, t),
           ~W!At(w, "log"), UNCHANGED <<work, dated, done>>
    PROVE  Dated'
PROOF
<1>1. wtask'[w] = t /\ \A v \in Worker \ {w} : wtask'[v] = wtask[v]
  BY WorkTurns
<1> QED  BY <1>1 DEF WorkInv, Dated, W!At

LEMMA WorkStep ==
    ASSUME WorkFits, WorkInv, [W!Next]_(W!workVars)
    PROVE  WorkInv'
PROOF
<1>t. /\ work \in W!Status \cup {Nothing} /\ assigned \subseteq Assignee
      /\ unread \in [Assignee -> Nat] /\ toRead \in [Assignee -> Nat]
      /\ dated \in (1..LastMonth) \cup {Nothing} /\ created \in 0..2
      /\ month \in 1..LastMonth /\ done \in 0..LastMonth /\ said \in 0..MaxMessages
      /\ LastMonth \in Nat /\ MaxMessages \in Nat /\ done <= month
  BY DEF WorkFits, WorkInv, W!TypeOK, W!Made
<1>n. ASSUME NEW a \in Assignee
      PROVE  Noticed(a) /\ Cardinality(Raisers(a)) \in Nat
  BY RaisersFinite DEF WorkInv
\* A request that changes nothing of the task but its assignees.
<1>q. ASSUME NEW w \in Worker, NEW t \in {Idle} \cup WorkTasks, W!Goes(w, t),
             ~W!At(w, "raise"), ~W!At(w, "list"), ~W!At(w, "log"), t = Idle \/ t.op # "raise",
             UNCHANGED <<work, dated, created, done, unread, toRead, said, month>>,
             assigned \subseteq assigned', assigned' \subseteq Assignee
      PROVE  WorkInv'
  <2>1. wtask' \in [Worker -> {Idle} \cup WorkTasks]  BY <1>q, WorkTurns
  <2>2. \A a \in Assignee : Noticed(a)'  BY <1>q, NoticedStays
  <2>3. Dated'  BY <1>q, DatedStays
  <2>4. W!TypeOK'  BY <1>q DEF WorkInv, W!TypeOK
  <2> QED  BY <1>q, <2>1, <2>2, <2>3, <2>4 DEF WorkInv
<1>1. ASSUME W!DeleteTask PROVE WorkInv'
  <2>1. \A a \in Assignee : unread'[a] = 0 /\ toRead'[a] = 0  BY <1>1 DEF W!DeleteTask
  <2>2. assigned' = {} /\ work' = Nothing  BY <1>1 DEF W!DeleteTask
  <2>3. \A a \in Assignee : Noticed(a)'  BY <2>1, <2>2 DEF Noticed
  <2>4. W!TypeOK'  BY <1>1 DEF W!DeleteTask, WorkInv, W!TypeOK
  <2>5. Dated'  BY <2>2 DEF WorkFits, Dated, W!Status
  <2> QED  BY <1>1, <2>3, <2>4, <2>5 DEF W!DeleteTask, WorkInv
<1>2. ASSUME W!Refresh \/ W!NextMonth PROVE WorkInv'
  <2>1. UNCHANGED <<work, assigned, unread, dated, wtask, said, done, toRead>>
    BY <1>2 DEF W!Refresh, W!NextMonth, W!RowSame, W!CountsSame
  <2>2. created' \in 0..2 /\ month' \in 1..LastMonth /\ month' >= month
    BY <1>t, <1>2 DEF W!Refresh, W!NextMonth, W!RowSame
  <2>3. \A a \in Assignee : Noticed(a)'
    BY <1>n, <2>1 DEF Noticed, Raisers, Listing, W!At
  <2>4. W!TypeOK' /\ done' <= month'
    BY <1>t, <2>1, <2>2 DEF W!TypeOK, W!Made
  <2>5. Dated'  BY <2>1 DEF WorkInv, Dated, W!At
  <2> QED  BY <2>1, <2>3, <2>4, <2>5 DEF WorkInv
<1>3. ASSUME NEW a \in Assignee, W!MarkSeen(a) PROVE WorkInv'
  <2>1. /\ unread' = [unread EXCEPT ![a] = 0] /\ toRead' = [toRead EXCEPT ![a] = 0]
        /\ UNCHANGED <<work, assigned, dated, created, done, wtask, month, said>>
    BY <1>3 DEF W!MarkSeen, W!RowSame
  <2>2. ASSUME NEW b \in Assignee PROVE Noticed(b)'
    <3>1. Raisers(b)' = Raisers(b) /\ Listing(b)' = Listing(b)
      BY <2>1 DEF Raisers, Listing, W!At
    <3>2. /\ b = a => unread'[b] = 0 /\ toRead'[b] = 0
          /\ b # a => unread'[b] = unread[b] /\ toRead'[b] = toRead[b]
      BY <1>t, <2>1
    <3> QED  BY <1>n, <2>1, <3>1, <3>2 DEF Noticed
  <2>3. W!TypeOK'  BY <1>t, <2>1 DEF W!TypeOK, W!Made
  <2>4. Dated'  BY <2>1 DEF WorkInv, Dated, W!At
  <2> QED  BY <1>t, <2>1, <2>2, <2>3, <2>4 DEF WorkInv
<1>4. ASSUME NEW w \in Worker, NEW names \in SUBSET Assignee, W!Create(w, names) PROVE WorkInv'
  <2> DEFINE t == [op |-> "assign", left |-> names]
  <2>1. t \in WorkTasks /\ t.op = "assign"  BY DEF WorkTasks
  <2>2. /\ work' = "PENDING" /\ created < 2 /\ created' = created + 1
        /\ W!Goes(w, t) /\ \A v \in Worker : wtask[v] = Idle
        /\ UNCHANGED <<assigned, dated, done, month, unread, toRead, said>>
    BY <1>4 DEF W!Create, W!Quiet, W!CountsSame, W!Made
  <2> HIDE DEF t
  <2>3. wtask' \in [Worker -> {Idle} \cup WorkTasks]  BY <2>1, <2>2, WorkTurns
  <2>4. \A a \in Assignee : Noticed(a)'  BY <2>1, <2>2, NoticedStays DEF W!At
  <2>5. W!TypeOK'  BY <1>t, <2>2 DEF W!TypeOK, W!Made, W!Status
  <2> QED  BY <1>t, <2>2, <2>3, <2>4, <2>5 DEF WorkInv, Dated
<1>5. ASSUME NEW w \in Worker, W!Assign(w) PROVE WorkInv'
  <2>1. /\ W!At(w, "assign") /\ wtask[w] \in [op : {"assign"}, left : SUBSET Assignee]
        /\ UNCHANGED <<work, dated, created, done, unread, toRead, said, month>>
    BY <1>5, WorkHeld DEF W!Assign, W!RowSame, W!CountsSame
  <2>2. ~W!At(w, "raise") /\ ~W!At(w, "list") /\ ~W!At(w, "log")  BY <2>1 DEF W!At
  <2>3. CASE W!Goes(w, Idle) /\ UNCHANGED assigned
    BY <1>q, <1>t, <2>1, <2>2, <2>3
  <2>4. CASE \E a \in wtask[w].left : /\ assigned' = assigned \cup {a}
                                      /\ W!Goes(w, [wtask[w] EXCEPT !.left = @ \ {a}])
    <3>1. PICK a \in wtask[w].left : /\ assigned' = assigned \cup {a}
                                     /\ W!Goes(w, [wtask[w] EXCEPT !.left = @ \ {a}])
      BY <2>4
    <3> DEFINE t == [wtask[w] EXCEPT !.left = @ \ {a}]
    <3>2. t \in WorkTasks /\ t.op = "assign"  BY <2>1 DEF WorkTasks
    <3>3. a \in Assignee /\ W!Goes(w, t)  BY <2>1, <3>1
    <3> HIDE DEF t
    <3> QED  BY <1>q, <1>t, <2>1, <2>2, <3>1, <3>2, <3>3
  <2> QED  BY <1>5, <2>3, <2>4 DEF W!Assign
<1>6. ASSUME NEW w \in Worker, NEW t \in WorkTasks, t.op # "raise", W!Begin(w, t),
             UNCHANGED <<assigned, work, dated, created, done, unread, toRead, said, month>>
      PROVE  WorkInv'
  BY <1>q, <1>t, <1>6 DEF W!Begin, W!At
<1>7. ASSUME NEW w \in Worker, NEW wish \in W!Status \cup {work}, W!Load(w, wish)
      PROVE  WorkInv'
  <2> DEFINE t == [op |-> "save", status |-> wish]
  <2>1. W!Begin(w, t)
        /\ UNCHANGED <<assigned, work, dated, created, done, unread, toRead, said, month>>
    BY <1>7 DEF W!Load, W!RowSame, W!CountsSame
  <2>2. t \in WorkTasks /\ t.op = "save"  BY <1>t, <2>1 DEF WorkTasks, W!Begin
  <2> HIDE DEF t
  <2> QED  BY <1>6, <2>1, <2>2
<1>8. ASSUME NEW w \in Worker, W!Save(w) PROVE WorkInv'
  <2> DEFINE s == wtask[w].status
             t == IF s = "COMPLETED" THEN [op |-> "log"] ELSE Idle
  <2>1. /\ W!At(w, "save") /\ s \in W!Status /\ work' = s
        /\ work = Nothing => created < 2
        /\ created' = IF work = Nothing THEN created + 1 ELSE created
        /\ done' = IF s = "COMPLETED" /\ work # s THEN month ELSE done
        /\ W!Goes(w, t) /\ UNCHANGED <<assigned, dated, month, unread, toRead, said>>
    BY <1>8, WorkHeld DEF W!Save, W!CountsSame, W!Made
  <2>2. /\ t \in {Idle} \cup WorkTasks /\ (t = Idle \/ t.op # "raise")
        /\ s = "COMPLETED" => t.op = "log" /\ t # Idle
    BY DEF WorkFits, WorkTasks
  <2> HIDE DEF t
  <2>3. /\ wtask' \in [Worker -> {Idle} \cup WorkTasks] /\ wtask'[w] = t
    BY <2>1, <2>2, WorkTurns
  <2>4. ~W!At(w, "raise") /\ ~W!At(w, "list")  BY <2>1 DEF W!At
  <2>5. \A a \in Assignee : Noticed(a)'  BY <2>1, <2>2, <2>4, NoticedStays
  <2>6. W!TypeOK' /\ done' <= month'
    BY <1>t, <2>1 DEF W!TypeOK, W!Made
  <2>7. Dated'  BY <2>1, <2>2, <2>3 DEF Dated, W!At
  <2> QED  BY <2>3, <2>5, <2>6, <2>7 DEF WorkInv
<1>9. ASSUME NEW w \in Worker, W!Log(w) PROVE WorkInv'
  <2>1. /\ W!At(w, "log") /\ dated' = (IF work = Nothing THEN Nothing ELSE month)
        /\ W!Goes(w, Idle)
        /\ UNCHANGED <<work, assigned, created, done, month, unread, toRead, said>>
    BY <1>9 DEF W!Log, W!Logged, W!CountsSame
  <2>2. ~W!At(w, "raise") /\ ~W!At(w, "list")  BY <2>1 DEF W!At
  <2>3. wtask' \in [Worker -> {Idle} \cup WorkTasks]  BY <2>1, WorkTurns
  <2>4. \A a \in Assignee : Noticed(a)'  BY <2>1, <2>2, NoticedStays
  <2>5. W!TypeOK'  BY <1>t, <2>1 DEF W!TypeOK, W!Made
  <2>6. Dated'  BY <1>t, <2>1 DEF WorkFits, Dated, W!Status
  <2> QED  BY <1>t, <2>1, <2>3, <2>4, <2>5, <2>6 DEF WorkInv
<1>10. ASSUME NEW w \in Worker, NEW u \in Assignee \cup {Creator}, W!Say(w, u) PROVE WorkInv'
  <2> DEFINE t == [op |-> "raise", by |-> u]
  <2>1. /\ wtask[w] = Idle /\ W!Goes(w, t) /\ said < MaxMessages /\ said' = said + 1
        /\ toRead' = [a \in Assignee |-> IF a \in assigned \ {u} THEN toRead[a] + 1 ELSE toRead[a]]
        /\ UNCHANGED <<assigned, unread, month, work, dated, created, done>>
    BY <1>10 DEF W!Say, W!Begin, W!RowSame
  <2>2. t \in WorkTasks /\ t.op = "raise" /\ t.by = u /\ t # Idle  BY DEF WorkFits, WorkTasks
  <2> HIDE DEF t
  <2>3. /\ wtask' \in [Worker -> {Idle} \cup WorkTasks]
        /\ wtask'[w] = t /\ \A v \in Worker \ {w} : wtask'[v] = wtask[v]
    BY <2>1, <2>2, WorkTurns
  <2>4. ASSUME NEW a \in Assignee PROVE Noticed(a)'
    <3>1. Listing(a) => Listing(a)'  BY <2>1, <2>3 DEF Listing, W!At
    <3>2. w \notin Raisers(a)  BY <2>1 DEF Raisers, W!At
    <3>3. CASE a = u
      <4>1. Raisers(a)' = Raisers(a)  BY <2>1, <2>2, <2>3, <3>3 DEF Raisers, W!At
      <4> QED  BY <1>n, <2>1, <3>1, <3>3, <4>1 DEF Noticed
    <3>4. CASE a # u
      <4>1. Raisers(a)' = Raisers(a) \cup {w}
        <5>1. ASSUME NEW v \in Worker
              PROVE  v \in Raisers(a)' <=> v \in Raisers(a) \cup {w}
          BY <2>1, <2>2, <2>3, <3>4 DEF Raisers, W!At
        <5> QED  BY <5>1 DEF Raisers
      <4>2. Cardinality(Raisers(a)') = Cardinality(Raisers(a)) + 1
        BY <3>2, <4>1, RaisersFinite, FS_AddElement
      <4>3. toRead'[a] = IF a \in assigned THEN toRead[a] + 1 ELSE toRead[a]
        BY <2>1, <3>4
      <4>4. Cardinality(Raisers(a))' = Cardinality(Raisers(a)) + 1  BY <4>2
      <4> HIDE DEF Raisers, Listing
      <4> QED  BY <1>n, <1>t, <2>1, <3>1, <4>3, <4>4 DEF Noticed
    <3> QED  BY <3>3, <3>4
  <2>5. W!TypeOK'
    <3>1. toRead' \in [Assignee -> Nat]  BY <1>t, <2>1
    <3>2. said' \in 0..MaxMessages  BY <1>t, <2>1
    <3> QED  BY <1>t, <2>1, <3>1, <3>2 DEF W!TypeOK, W!Made
  <2>6. Dated'
    <3>1. ~W!At(w, "log")  BY <2>1 DEF W!At
    <3> QED  BY <2>1, <2>2, <3>1, DatedStays
  <2> QED  BY <1>t, <2>1, <2>3, <2>4, <2>5, <2>6 DEF WorkInv
<1>11. ASSUME NEW w \in Worker, W!Raise(w) PROVE WorkInv'
  <2> DEFINE u == wtask[w].by
  <2>1. /\ W!At(w, "raise") /\ W!Goes(w, Idle)
        /\ unread' = [a \in Assignee |-> IF a \in assigned \ {u} THEN unread[a] + 1 ELSE unread[a]]
        /\ UNCHANGED <<assigned, month, said, toRead, work, dated, created, done>>
    BY <1>11 DEF W!Raise, W!RowSame
  <2>2. /\ wtask' \in [Worker -> {Idle} \cup WorkTasks]
        /\ wtask'[w] = Idle /\ \A v \in Worker \ {w} : wtask'[v] = wtask[v]
    BY <2>1, WorkTurns
  <2>3. ASSUME NEW a \in Assignee PROVE Noticed(a)'
    <3>1. Listing(a) => Listing(a)'  BY <2>1, <2>2 DEF Listing, W!At
    <3>2. CASE a = u
      <4>1. Raisers(a)' = Raisers(a)
        <5>1. ASSUME NEW v \in Worker PROVE v \in Raisers(a)' <=> v \in Raisers(a)
          BY <2>1, <2>2, <3>2 DEF Raisers, W!At
        <5> QED  BY <5>1 DEF Raisers
      <4>2. unread'[a] = unread[a]  BY <1>t, <2>1, <3>2
      <4> QED  BY <1>n, <2>1, <3>1, <4>1, <4>2 DEF Noticed
    <3>3. CASE a # u
      <4>1. Raisers(a)' = Raisers(a) \ {w} /\ w \in Raisers(a)
        <5>1. ASSUME NEW v \in Worker
              PROVE  v \in Raisers(a)' <=> v \in Raisers(a) \ {w}
          BY <2>1, <2>2, <3>3 DEF Raisers, W!At
        <5>2. w \in Raisers(a)  BY <2>1, <3>3 DEF Raisers
        <5> QED  BY <5>1, <5>2 DEF Raisers
      <4>2. Cardinality(Raisers(a)') = Cardinality(Raisers(a)) - 1
        BY <4>1, RaisersFinite, FS_RemoveElement
      <4>3. unread'[a] = IF a \in assigned THEN unread[a] + 1 ELSE unread[a]
        BY <2>1, <3>3
      <4>4. Cardinality(Raisers(a))' = Cardinality(Raisers(a)) - 1  BY <4>2
      <4> QED  BY <1>n, <1>t, <2>1, <3>1, <4>3, <4>4 DEF Noticed
    <3> QED  BY <3>2, <3>3
  <2>4. W!TypeOK'
    <3>1. unread' \in [Assignee -> Nat]  BY <1>t, <2>1
    <3> QED  BY <1>t, <2>1, <3>1 DEF W!TypeOK, W!Made
  <2>5. Dated'
    <3>1. ~W!At(w, "log")  BY <2>1 DEF W!At
    <3> QED  BY <2>1, <3>1, DatedStays
  <2> QED  BY <1>t, <2>1, <2>2, <2>3, <2>4, <2>5 DEF WorkInv
<1>12. ASSUME NEW w \in Worker, NEW a \in Assignee, W!Fetch(w, a) PROVE WorkInv'
  <2> DEFINE t == [op |-> "reset", by |-> a]
  <2>1. W!Begin(w, t)
        /\ UNCHANGED <<assigned, work, dated, created, done, unread, toRead, said, month>>
    BY <1>12 DEF W!Fetch, W!Order, W!RowSame, W!CountsSame
  <2>2. t \in WorkTasks /\ t.op = "reset"  BY DEF WorkTasks
  <2> HIDE DEF t
  <2> QED  BY <1>6, <2>1, <2>2
<1>13. ASSUME NEW w \in Worker, W!Reset(w) PROVE WorkInv'
  <2> DEFINE a == wtask[w].by
             t == [wtask[w] EXCEPT !.op = "list"]
  <2>1. /\ W!At(w, "reset") /\ wtask[w] \in [op : {"reset", "list"}, by : Assignee]
        /\ unread' = [unread EXCEPT ![a] = 0] /\ W!Goes(w, t)
        /\ UNCHANGED <<assigned, month, said, toRead, work, dated, created, done>>
    BY <1>13, WorkHeld DEF W!Reset, W!RowSame, W!Follow, W!Order, W!At
  <2>2. t \in WorkTasks /\ t.op = "list" /\ t.by = a /\ a \in Assignee /\ t # Idle
    BY <2>1 DEF WorkFits, WorkTasks
  <2> HIDE DEF t
  <2>3. /\ wtask' \in [Worker -> {Idle} \cup WorkTasks] /\ wtask'[w] = t
    BY <2>1, <2>2, WorkTurns
  <2>4. ~W!At(w, "raise") /\ ~W!At(w, "list") /\ ~W!At(w, "log")  BY <2>1 DEF W!At
  <2>5. ASSUME NEW b \in Assignee PROVE Noticed(b)'
    <3>1. Raisers(b)' = Raisers(b) /\ (Listing(b) => Listing(b)')
      BY <2>1, <2>2, <2>4, WorkAside
    <3>2. b = a => Listing(b)'  BY <2>2, <2>3 DEF Listing, W!At
    <3>3. b # a => unread'[b] = unread[b]  BY <1>t, <2>1
    <3> QED  BY <1>n, <2>1, <3>1, <3>2, <3>3 DEF Noticed
  <2>6. W!TypeOK'
    <3>1. unread' \in [Assignee -> Nat]  BY <1>t, <2>1
    <3> QED  BY <1>t, <2>1, <3>1 DEF W!TypeOK, W!Made
  <2>7. Dated'  BY <2>1, <2>2, <2>4, DatedStays
  <2> QED  BY <1>t, <2>1, <2>3, <2>5, <2>6, <2>7 DEF WorkInv
<1>14. ASSUME NEW w \in Worker, W!List(w) PROVE WorkInv'
  <2> DEFINE a == wtask[w].by
  <2>1. /\ W!At(w, "list") /\ wtask[w] \in [op : {"reset", "list"}, by : Assignee]
        /\ toRead' = [toRead EXCEPT ![a] = 0] /\ W!Goes(w, Idle)
        /\ UNCHANGED <<assigned, month, said, unread, work, dated, created, done>>
    BY <1>14, WorkHeld DEF W!List, W!RowSame, W!Follow, W!Order, W!At
  <2>2. /\ wtask' \in [Worker -> {Idle} \cup WorkTasks]
        /\ wtask'[w] = Idle /\ \A v \in Worker \ {w} : wtask'[v] = wtask[v]
    BY <2>1, WorkTurns
  <2>3. ~W!At(w, "raise") /\ ~W!At(w, "log")  BY <2>1 DEF W!At
  <2>4. ASSUME NEW b \in Assignee PROVE Noticed(b)'
    <3>1. Raisers(b)' = Raisers(b)
      <4>1. ASSUME NEW v \in Worker PROVE v \in Raisers(b)' <=> v \in Raisers(b)
        BY <2>2, <2>3 DEF Raisers, W!At
      <4> QED  BY <4>1 DEF Raisers
    <3>2. b # a => (Listing(b) => Listing(b)') /\ toRead'[b] = toRead[b]
      BY <1>t, <2>1, <2>2 DEF Listing, W!At
    <3>3. b = a => toRead'[b] = 0  BY <1>t, <2>1
    <3>4. unread[b] \in Nat  BY <1>t
    <3>5. Cardinality(Raisers(b))' = Cardinality(Raisers(b))  BY <3>1
    <3> QED  BY <1>n, <2>1, <3>2, <3>3, <3>4, <3>5 DEF Noticed
  <2>5. W!TypeOK'
    <3>1. toRead' \in [Assignee -> Nat]  BY <1>t, <2>1
    <3> QED  BY <1>t, <2>1, <3>1 DEF W!TypeOK, W!Made
  <2>6. Dated'  BY <2>1, <2>3, DatedStays
  <2> QED  BY <1>t, <2>1, <2>2, <2>4, <2>5, <2>6 DEF WorkInv
<1>15. CASE UNCHANGED W!workVars
  <2>1. UNCHANGED <<work, assigned, unread, dated, created, wtask, month, said, done, toRead>>
    BY <1>15 DEF W!workVars
  <2>2. \A a \in Assignee : Noticed(a)'
    BY <1>n, <2>1 DEF Noticed, Raisers, Listing, W!At
  <2> QED  BY <2>1, <2>2 DEF WorkInv, W!TypeOK, Dated, W!At
<1> QED
  BY <1>1, <1>2, <1>3, <1>4, <1>5, <1>7, <1>8, <1>9, <1>10, <1>11, <1>12, <1>13, <1>14, <1>15
     DEF W!Next

\* When nobody is at work the invariant is the two properties.
LEMMA WorkAtRest ==
    ASSUME WorkFits, WorkInv
    PROVE  W!CompletionDated /\ W!MessagesNoticed
PROOF
<1>1. W!CompletionDated  BY DEF WorkInv, Dated, W!CompletionDated, W!Quiet, W!At
<1>2. ASSUME W!Quiet, NEW a \in assigned PROVE unread[a] >= toRead[a]
  <2>1. a \in Assignee /\ unread[a] \in Nat /\ toRead[a] \in Nat /\ Noticed(a)
    BY DEF WorkInv, W!TypeOK
  <2>2. Raisers(a) = {} /\ ~Listing(a)  BY <1>2 DEF W!Quiet, Raisers, Listing, W!At
  <2>3. Cardinality(Raisers(a)) = 0  BY <2>2, FS_EmptySet
  <2> QED  BY <2>1, <2>2, <2>3 DEF Noticed
<1> QED  BY <1>1, <1>2 DEF W!MessagesNoticed

-----------------------------------------------------------------------------
(* Customer entries *)

PanelTasks ==
  [op : {"load", "delete"}] \cup [op : {"save"}, copy : C!Entry]
    \cup [op : {"clear", "share"}, ids : SUBSET Viewer] \cup [op : {"pay"}, log : Payment]

\* The values the constants may have.
PanelFits ==
  /\ Price \subseteq Nat /\ Nothing \notin C!Entry \cup Price /\ IsFiniteSet(Payment)
  /\ Idle \notin PanelTasks

\* The total of an entry, stored or loaded, is that of its value and its tax.
PricedRight(row) == row.total = C!Total(row.value, row.tax)

PanelInv ==
  /\ C!TypeOK /\ ptask \in [Worker -> {Idle} \cup PanelTasks]
  /\ panel # Nothing => PricedRight(panel)
  /\ \A w \in Worker : C!At(w, "save") => PricedRight(ptask[w].copy)

LEMMA TotalType ==
    ASSUME PanelFits, NEW value \in Price, NEW tax \in C!Tax
    PROVE  C!Total(value, tax) \in Nat
PROOF
<1>1. value \in Nat  BY DEF PanelFits
<1>2. CASE tax = 0
  <2>1. C!Total(value, 0) = value  BY <1>1 DEF C!Total
  <2> QED  BY <1>1, <1>2, <2>1
<1>3. CASE tax = 100
  <2>1. C!Total(value, 100) = value + value  BY <1>1 DEF C!Total
  <2>2. value + value \in Nat  BY <1>1
  <2> QED  BY <1>3, <2>1, <2>2
<1> QED  BY <1>2, <1>3 DEF C!Tax

LEMMA PanelTurns ==
    ASSUME PanelInv, NEW w \in Worker, NEW t \in {Idle} \cup PanelTasks, C!Goes(w, t)
    PROVE  /\ ptask' \in [Worker -> {Idle} \cup PanelTasks]
           /\ ptask'[w] = t /\ \A v \in Worker \ {w} : ptask'[v] = ptask[v]
BY DEF PanelInv, C!Goes

\* A request that goes on to something else than a save, and leaves the row or ends it.
LEMMA PanelAside ==
    ASSUME PanelFits, PanelInv, NEW w \in Worker, NEW t \in {Idle} \cup PanelTasks, C!Goes(w, t),
           t = Idle \/ t.op # "save", panel' = Nothing \/ UNCHANGED panel,
           cshared' \subseteq Viewer, paid' \in [Payment -> Price \cup {Nothing}]
    PROVE  PanelInv'
PROOF
<1>1. /\ ptask' \in [Worker -> {Idle} \cup PanelTasks]
      /\ ptask'[w] = t /\ \A v \in Worker \ {w} : ptask'[v] = ptask[v]
  BY PanelTurns
<1>2. ASSUME NEW v \in Worker, C!At(v, "save")' PROVE PricedRight(ptask'[v].copy)
  <2>1. C!At(v, "save") /\ ptask'[v] = ptask[v]  BY <1>1, <1>2 DEF C!At
  <2> QED  BY <2>1 DEF PanelInv
<1>3. panel' # Nothing => PricedRight(panel)'  BY DEF PanelInv, PricedRight
<1>4. C!TypeOK'  BY DEF PanelInv, C!TypeOK
<1> QED  BY <1>1, <1>2, <1>3, <1>4 DEF PanelInv, PricedRight

LEMMA PanelStep ==
    ASSUME PanelFits, PanelInv, [C!Next]_(C!panelVars)
    PROVE  PanelInv'
PROOF
<1>t. /\ panel \in C!Entry \cup {Nothing} /\ cshared \subseteq Viewer
      /\ paid \in [Payment -> Price \cup {Nothing}] /\ ptask \in [Worker -> {Idle} \cup PanelTasks]
  BY DEF PanelInv, C!TypeOK
<1>1. ASSUME NEW w \in Worker, NEW value \in Price, NEW tax \in C!Tax,
             NEW division \in {"farm", "infra"}, C!Create(w, value, tax, division)
      PROVE  PanelInv'
  <2>1. PICK ids \in SUBSET Viewer : C!Goes(w, [op |-> "share", ids |-> ids])
    BY <1>1 DEF C!Create
  <2> DEFINE t == [op |-> "share", ids |-> ids]
  <2>2. t \in PanelTasks /\ t.op = "share"  BY DEF PanelTasks
  <2>3. /\ panel' = [value |-> value, tax |-> tax, total |-> C!Total(value, tax), division |-> division]
        /\ UNCHANGED <<cshared, paid>> /\ \A v \in Worker : ptask[v] = Idle
    BY <1>1 DEF C!Create
  <2>4. panel' \in C!Entry  BY <2>3, TotalType DEF C!Entry, C!Division
  <2> HIDE DEF t
  <2>5. /\ ptask' \in [Worker -> {Idle} \cup PanelTasks]
        /\ ptask'[w] = t /\ \A v \in Worker \ {w} : ptask'[v] = ptask[v]
    BY <2>1, <2>2, PanelTurns DEF t
  <2>6. PricedRight(panel')  BY <2>3 DEF PricedRight
  <2> QED
    BY <1>t, <2>2, <2>3, <2>4, <2>5, <2>6 DEF PanelInv, C!TypeOK, C!At
<1>2. ASSUME NEW w \in Worker, NEW u, NEW op, C!Ask(w, u, op) PROVE PanelInv'
  <2> DEFINE t == [op |-> op]
  <2>1. t \in PanelTasks /\ t.op \in {"load", "delete"}  BY <1>2 DEF C!Ask, PanelTasks
  <2>2. C!Goes(w, t) /\ UNCHANGED <<panel, cshared, paid>>  BY <1>2 DEF C!Ask
  <2> HIDE DEF t
  <2> QED  BY <1>t, <2>1, <2>2, PanelAside
<1>3. ASSUME NEW w \in Worker, NEW u, NEW l \in Payment, C!LoadPayment(w, u, l) PROVE PanelInv'
  <2> DEFINE t == [op |-> "pay", log |-> l]
  <2>1. t \in PanelTasks /\ t.op = "pay"  BY DEF PanelTasks
  <2>2. C!Goes(w, t) /\ UNCHANGED <<panel, cshared, paid>>  BY <1>3 DEF C!LoadPayment
  <2> HIDE DEF t
  <2> QED  BY <1>t, <2>1, <2>2, PanelAside
<1>4. ASSUME NEW w \in Worker, C!Load(w) PROVE PanelInv'
  <2>1. UNCHANGED <<panel, cshared, paid>>  BY <1>4 DEF C!Load
  <2>2. CASE panel = Nothing  BY <1>4, <1>t, <2>1, <2>2, PanelAside DEF C!Load
  <2>3. CASE panel # Nothing
    <3> DEFINE t == [op |-> "save", copy |-> panel]
    <3>1. t \in PanelTasks /\ t.op = "save" /\ t.copy = panel  BY <1>t, <2>3 DEF PanelTasks
    <3>2. C!Goes(w, t)  BY <1>4, <2>3 DEF C!Load
    <3> HIDE DEF t
    <3>3. /\ ptask' \in [Worker -> {Idle} \cup PanelTasks]
          /\ ptask'[w] = t /\ \A v \in Worker \ {w} : ptask'[v] = ptask[v]
      BY <3>1, <3>2, PanelTurns
    <3> QED
      BY <2>1, <2>3, <3>1, <3>3 DEF PanelInv, C!TypeOK, PricedRight, C!At
  <2> QED  BY <2>2, <2>3
<1>5. ASSUME NEW w \in Worker, C!Save(w) PROVE PanelInv'
  <2> DEFINE copy == ptask[w].copy
  <2>1. C!At(w, "save") /\ copy \in C!Entry /\ PricedRight(copy) /\ UNCHANGED <<cshared, paid>>
    BY <1>5 DEF C!Save, PanelInv, PanelTasks, C!At
  <2>2. PICK value \in Price, tax \in C!Tax, division \in {copy.division, "farm", "infra"} :
          panel' = [C!Priced(copy, value, tax) EXCEPT !.division = division]
    BY <1>5 DEF C!Save
  <2>3. C!Total(value, tax) \in Nat /\ C!Total(copy.value, copy.tax) = copy.total
    BY <2>1, TotalType DEF PricedRight
  <2>4. panel' \in C!Entry /\ PricedRight(panel')
    <3>1. CASE value # copy.value \/ tax # copy.tax
      BY <2>1, <2>2, <2>3, <3>1 DEF C!Priced, C!Entry, C!Division, PricedRight
    <3>2. CASE value = copy.value /\ tax = copy.tax
      BY <2>1, <2>2, <2>3, <3>2 DEF C!Priced, C!Entry, C!Division, PricedRight
    <3> QED  BY <3>1, <3>2
  <2>5. PICK t \in {Idle} \cup PanelTasks : C!Goes(w, t) /\ (t = Idle \/ t.op # "save")
    <3>1. CASE C!Goes(w, Idle)  BY <3>1
    <3>2. ASSUME NEW ids \in SUBSET Viewer, C!Goes(w, [op |-> "clear", ids |-> ids])
          PROVE  \E t \in {Idle} \cup PanelTasks : C!Goes(w, t) /\ (t = Idle \/ t.op # "save")
      <4> DEFINE t == [op |-> "clear", ids |-> ids]
      <4>1. t \in PanelTasks /\ t.op = "clear" /\ C!Goes(w, t)  BY <3>2 DEF PanelTasks
      <4> HIDE DEF t
      <4> QED  BY <4>1
    <3> QED  BY <1>5, <3>1, <3>2 DEF C!Save
  <2>6. /\ ptask' \in [Worker -> {Idle} \cup PanelTasks]
        /\ ptask'[w] = t /\ \A v \in Worker \ {w} : ptask'[v] = ptask[v]
    BY <2>5, PanelTurns
  <2>7. ASSUME NEW v \in Worker, C!At(v, "save")' PROVE PricedRight(ptask'[v].copy)
    <3>1. C!At(v, "save") /\ ptask'[v] = ptask[v]  BY <2>5, <2>6, <2>7 DEF C!At
    <3> QED  BY <3>1 DEF PanelInv
  <2>8. C!TypeOK'  BY <1>t, <2>1, <2>4 DEF C!TypeOK
  <2> QED  BY <2>4, <2>6, <2>7, <2>8 DEF PanelInv, PricedRight
<1>6. ASSUME NEW w \in Worker, C!Clear(w) PROVE PanelInv'
  <2> DEFINE t == [op |-> "share", ids |-> ptask[w].ids]
  <2>1. t \in PanelTasks /\ t.op = "share"  BY <1>6, <1>t DEF C!Clear, C!At, PanelTasks
  <2>2. C!Goes(w, t) /\ cshared' = {} /\ UNCHANGED <<panel, paid>>  BY <1>6 DEF C!Clear
  <2> HIDE DEF t
  <2> QED  BY <1>t, <2>1, <2>2, PanelAside
<1>7. ASSUME NEW w \in Worker, C!Share(w) PROVE PanelInv'
  <2>1. /\ UNCHANGED <<panel, paid>>
        /\ ptask[w].ids \subseteq Viewer
    BY <1>7, <1>t DEF C!Share, C!At, PanelTasks
  <2>2. CASE C!Goes(w, Idle) /\ UNCHANGED cshared  BY <1>t, <2>1, <2>2, PanelAside
  <2>3. ASSUME NEW u \in ptask[w].ids, cshared' = cshared \cup {u},
               C!Goes(w, [op |-> "share", ids |-> ptask[w].ids \ {u}])
        PROVE  PanelInv'
    <3> DEFINE t == [op |-> "share", ids |-> ptask[w].ids \ {u}]
    <3>1. t \in PanelTasks /\ t.op = "share" /\ C!Goes(w, t)  BY <2>1, <2>3 DEF PanelTasks
    <3>2. cshared' \subseteq Viewer  BY <1>t, <2>1, <2>3
    <3> HIDE DEF t
    <3> QED  BY <1>t, <2>1, <3>1, <3>2, PanelAside
  <2> QED  BY <1>7, <2>2, <2>3 DEF C!Share
<1>8. ASSUME NEW w \in Worker, C!Delete(w) PROVE PanelInv'
  <2>1. /\ panel' = Nothing /\ cshared' = {} /\ C!Goes(w, Idle)
        /\ paid' \in [Payment -> Price \cup {Nothing}]
    BY <1>8 DEF C!Delete
  <2> QED  BY <1>t, <2>1, PanelAside
<1>9. ASSUME NEW w \in Worker, NEW amount \in Price, C!SavePayment(w, amount) PROVE PanelInv'
  <2>1. paid' \in [Payment -> Price \cup {Nothing}]  BY <1>9, <1>t DEF C!SavePayment
  <2> QED  BY <1>9, <1>t, <2>1, PanelAside DEF C!SavePayment
<1>10. ASSUME UNCHANGED <<panel, cshared, ptask>>, paid' \in [Payment -> Price \cup {Nothing}]
       PROVE  PanelInv'
  BY <1>10 DEF PanelInv, C!TypeOK, PricedRight, C!At
<1>11. ASSUME NEW u, NEW logs \in SUBSET Payment, NEW amount \in Price, C!AddPayments(u, logs, amount)
       PROVE  PanelInv'
  <2>1. paid' \in [Payment -> Price \cup {Nothing}]  BY <1>11, <1>t DEF C!AddPayments
  <2> QED  BY <1>10, <1>11, <2>1 DEF C!AddPayments
<1>12. ASSUME NEW u, NEW l \in Payment, C!DeletePayment(u, l) PROVE PanelInv'
  <2>1. paid' \in [Payment -> Price \cup {Nothing}]  BY <1>12, <1>t DEF C!DeletePayment
  <2> QED  BY <1>10, <1>12, <2>1 DEF C!DeletePayment
<1>13. CASE UNCHANGED C!panelVars  BY <1>10, <1>13, <1>t DEF C!panelVars
<1> QED
  BY <1>1, <1>2, <1>3, <1>4, <1>5, <1>6, <1>7, <1>8, <1>9, <1>11, <1>12, <1>13 DEF C!Next

-----------------------------------------------------------------------------
(* Office books *)

BillRow == [amount : Amount, category : Category]
AssetRow == [name : Name \cup {Nothing}, id : Staff \cup {Nothing}]
BooksTasks ==
  [op : {"expense"}, id : Expense, copy : O!ExpenseRow] \cup [op : {"asset"}, copy : AssetRow]

\* The values the constants may have.
BooksFits ==
  /\ Amount \subseteq Nat /\ Month \subseteq Nat
  /\ IsFiniteSet(Expense) /\ IsFiniteSet(Vendor) /\ IsFiniteSet(Category) /\ IsFiniteSet(Month)
  /\ Nothing \notin O!ExpenseRow \cup BillRow \cup AssetRow \cup Amount \cup Vendor
  /\ Idle \notin BooksTasks

\* A figure is under a vendor, a category and a name that there are: what the sums of
\* FiguresAgree rest on.
Linked ==
  /\ \A e \in Expense : expense[e] # Nothing => expense[e].vendor \in vendors \cup {Nothing}
  /\ obill # Nothing => obill.category \in bills
  /\ asset # Nothing /\ asset.id # Nothing => asset.name # Nothing

BooksInv ==
  /\ O!TypeOK /\ otask \in [Worker -> {Idle} \cup BooksTasks]
  /\ Linked

LEMMA BooksStep ==
    ASSUME BooksFits, BooksInv, [O!Next]_(O!officeVars)
    PROVE  BooksInv'
PROOF
<1>t. /\ expense \in [Expense -> O!ExpenseRow \cup {Nothing}]
      /\ vendors \subseteq Vendor /\ bills \subseteq Category
      /\ advance \in [Month -> Amount \cup {Nothing}]
      /\ obill \in BillRow \cup {Nothing} /\ asset \in AssetRow \cup {Nothing}
      /\ profile \in [Name -> Staff \cup {Nothing}]
      /\ otask \in [Worker -> {Idle} \cup BooksTasks]
  BY DEF BooksInv, O!TypeOK, BillRow, AssetRow
<1>l. /\ \A e \in Expense : expense[e] # Nothing => expense[e].vendor \in vendors \cup {Nothing}
      /\ obill # Nothing => obill.category \in bills
      /\ asset # Nothing /\ asset.id # Nothing => asset.name # Nothing
  BY DEF BooksInv, Linked
\* The expenses and the vendors change, the rest at most the requests.
<1>e. ASSUME UNCHANGED <<obill, bills, asset, profile>>,
             expense' \in [Expense -> O!ExpenseRow \cup {Nothing}], vendors' \subseteq Vendor,
             advance' \in [Month -> Amount \cup {Nothing}],
             otask' \in [Worker -> {Idle} \cup BooksTasks],
             \A e \in Expense : expense'[e] # Nothing => expense'[e].vendor \in vendors' \cup {Nothing}
      PROVE  BooksInv'
  BY <1>t, <1>l, <1>e DEF BooksInv, O!TypeOK, Linked, BillRow, AssetRow
\* ... or the bills, the asset and the profiles.
<1>a. ASSUME UNCHANGED <<expense, vendors, advance>>,
             obill' \in BillRow \cup {Nothing}, bills' \subseteq Category,
             asset' \in AssetRow \cup {Nothing}, profile' \in [Name -> Staff \cup {Nothing}],
             otask' \in [Worker -> {Idle} \cup BooksTasks],
             obill' # Nothing => obill'.category \in bills',
             asset' # Nothing /\ asset'.id # Nothing => asset'.name # Nothing
      PROVE  BooksInv'
  BY <1>t, <1>l, <1>a DEF BooksInv, O!TypeOK, Linked, BillRow, AssetRow
<1>i. ASSUME NEW w \in Worker, O!Goes(w, Idle) PROVE otask' \in [Worker -> {Idle} \cup BooksTasks]
  BY <1>t, <1>i DEF O!Goes
<1>1. ASSUME NEW amount \in Amount, NEW e \in Expense, NEW period \in Month,
             NEW v \in Vendor \cup {Nothing}, O!AddExpense(e, amount, period, v)
      PROVE  BooksInv'
  <2> DEFINE row == [amount |-> amount, month |-> period, vendor |-> v]
  <2>1. row \in O!ExpenseRow /\ row.vendor = v  BY DEF O!ExpenseRow
  <2>2. /\ expense' = [expense EXCEPT ![e] = row] /\ v \in vendors \cup {Nothing}
        /\ UNCHANGED <<vendors, advance, otask, obill, bills, asset, profile>>
    BY <1>1 DEF O!AddExpense, O!Spending
  <2> HIDE DEF row
  <2> QED  BY <1>e, <1>l, <1>t, <2>1, <2>2
<1>2. ASSUME NEW amount \in Amount, NEW w \in Worker, NEW period \in Month,
             NEW v \in Vendor \cup {Nothing}, O!SaveExpense(w, amount, period, v)
      PROVE  BooksInv'
  <2> DEFINE row == [amount |-> amount, month |-> period, vendor |-> v]
  <2>1. row \in O!ExpenseRow /\ row.vendor = v  BY DEF O!ExpenseRow
  <2>2. /\ O!At(w, "expense") /\ O!Goes(w, Idle)
        /\ expense' = IF v \in vendors \cup {Nothing}
                      THEN [expense EXCEPT ![otask[w].id] = row] ELSE expense
        /\ UNCHANGED <<vendors, advance, obill, bills, asset, profile>>
    BY <1>2 DEF O!SaveExpense, O!Spending
  <2>3. otask[w].id \in Expense  BY <1>t, <2>2 DEF O!At, BooksTasks
  <2> HIDE DEF row
  <2>4. otask' \in [Worker -> {Idle} \cup BooksTasks]  BY <1>i, <2>2
  <2> QED  BY <1>e, <1>l, <1>t, <2>1, <2>2, <2>3, <2>4
<1>3. ASSUME NEW amount \in Amount, NEW c \in Category, O!PutBill(amount, c) PROVE BooksInv'
  <2>1. /\ c \in bills /\ obill' = [amount |-> amount, category |-> c]
        /\ UNCHANGED <<expense, vendors, advance, bills, asset, profile, otask>>
    BY <1>3 DEF O!PutBill
  <2>2. obill' \in BillRow /\ obill'.category = c  BY <2>1 DEF BillRow
  <2> QED  BY <1>a, <1>l, <1>t, <2>1, <2>2
<1>4. ASSUME NEW from \in Month, NEW to \in Month, NEW amount \in Amount \cup {Nothing},
             O!SetAdvance(from, to, amount)
      PROVE  BooksInv'
  <2>1. /\ advance' = [advance EXCEPT ![from] = Nothing, ![to] = amount]
        /\ UNCHANGED <<expense, vendors, otask, obill, bills, asset, profile>>
    BY <1>4 DEF O!SetAdvance, O!Spending
  <2>2. advance' \in [Month -> Amount \cup {Nothing}]  BY <1>t, <2>1
  <2> QED  BY <1>e, <1>l, <1>t, <2>1, <2>2
<1>5. ASSUME NEW e \in Expense, O!DropExpense(e) PROVE BooksInv'
  <2>1. /\ expense' = [expense EXCEPT ![e] = Nothing]
        /\ UNCHANGED <<vendors, advance, otask, obill, bills, asset, profile>>
    BY <1>5 DEF O!DropExpense, O!Spending
  <2> QED  BY <1>e, <1>l, <1>t, <2>1
<1>6. ASSUME NEW w \in Worker, NEW e \in Expense, O!LoadExpense(w, e) PROVE BooksInv'
  <2>1. /\ expense[e] # Nothing /\ O!Goes(w, [op |-> "expense", id |-> e, copy |-> expense[e]])
        /\ UNCHANGED <<expense, vendors, advance, obill, bills, asset, profile>>
    BY <1>6 DEF O!LoadExpense, O!Spending
  <2>2. [op |-> "expense", id |-> e, copy |-> expense[e]] \in BooksTasks
    BY <1>t, <2>1 DEF BooksTasks
  <2>3. otask' \in [Worker -> {Idle} \cup BooksTasks]  BY <1>t, <2>1, <2>2 DEF O!Goes
  <2> QED  BY <1>e, <1>l, <1>t, <2>1, <2>3
<1>7. ASSUME NEW v \in Vendor, O!AddVendor(v) PROVE BooksInv'
  <2>1. /\ vendors' = vendors \cup {v}
        /\ UNCHANGED <<expense, advance, otask, obill, bills, asset, profile>>
    BY <1>7 DEF O!AddVendor, O!Spending
  <2> QED  BY <1>e, <1>l, <1>t, <2>1
<1>8. ASSUME NEW v \in Vendor, O!DropVendor(v) PROVE BooksInv'
  <2>1. /\ vendors' = vendors \ {v}
        /\ expense' = [e \in Expense |-> O!Unlinked(expense[e], v)]
        /\ UNCHANGED <<advance, otask, obill, bills, asset, profile>>
    BY <1>8 DEF O!DropVendor, O!Spending
  <2>2. ASSUME NEW e \in Expense
        PROVE  /\ expense'[e] \in O!ExpenseRow \cup {Nothing}
               /\ expense'[e] # Nothing => expense'[e].vendor \in vendors' \cup {Nothing}
    <3>1. CASE expense[e] # Nothing /\ expense[e].vendor = v
      <4>1. expense'[e] = [expense[e] EXCEPT !.vendor = Nothing]
        BY <2>1, <3>1 DEF O!Unlinked
      <4> QED  BY <1>t, <3>1, <4>1 DEF O!ExpenseRow
    <3>2. CASE ~(expense[e] # Nothing /\ expense[e].vendor = v)
      <4>1. expense'[e] = expense[e]  BY <2>1, <3>2 DEF O!Unlinked
      <4> QED  BY <1>l, <1>t, <2>1, <3>2, <4>1
    <3> QED  BY <3>1, <3>2
  <2>3. expense' \in [Expense -> O!ExpenseRow \cup {Nothing}]  BY <2>1, <2>2
  <2> QED  BY <1>e, <1>t, <2>1, <2>2, <2>3
<1>9. ASSUME O!DropBill PROVE BooksInv'
  BY <1>9, <1>a, <1>l, <1>t DEF O!DropBill
<1>10. ASSUME NEW c \in Category, O!AddCategory(c) PROVE BooksInv'
  <2>1. /\ bills' = bills \cup {c}
        /\ UNCHANGED <<expense, vendors, advance, obill, asset, profile, otask>>
    BY <1>10 DEF O!AddCategory
  <2> QED  BY <1>a, <1>l, <1>t, <2>1
<1>11. ASSUME NEW c \in Category, O!DropCategory(c) PROVE BooksInv'
  <2>1. /\ bills' = bills \ {c}
        /\ obill' = IF obill # Nothing /\ obill.category = c THEN Nothing ELSE obill
        /\ UNCHANGED <<expense, vendors, advance, asset, profile, otask>>
    BY <1>11 DEF O!DropCategory
  <2> QED  BY <1>a, <1>l, <1>t, <2>1
<1>12. ASSUME NEW n \in Name \cup {Nothing}, NEW id \in Staff \cup {Nothing}
       PROVE  /\ (IF n = Nothing THEN Nothing ELSE IF id # Nothing THEN id ELSE O!IdOf(n))
                   \in Staff \cup {Nothing}
              /\ n = Nothing => (IF n = Nothing THEN Nothing ELSE IF id # Nothing THEN id ELSE O!IdOf(n))
                                  = Nothing
  BY <1>t DEF O!IdOf
<1>13. ASSUME NEW n \in Name \cup {Nothing}, NEW id \in Staff \cup {Nothing},
              \/ O!AddAsset(n, id)
              \/ \E w \in Worker : O!SaveAsset(w, n, id)
       PROVE  BooksInv'
  <2> DEFINE i == IF n = Nothing THEN Nothing ELSE IF id # Nothing THEN id ELSE O!IdOf(n)
  <2>1. i \in Staff \cup {Nothing} /\ (n = Nothing => i = Nothing)  BY <1>12
  <2>2. /\ asset' = [name |-> n, id |-> i]
        /\ UNCHANGED <<expense, vendors, advance, obill, bills, profile>>
    BY <1>13 DEF O!AddAsset, O!SaveAsset, O!Assigned, O!Others
  <2>3. otask' \in [Worker -> {Idle} \cup BooksTasks]
    BY <1>13, <1>i, <1>t DEF O!AddAsset, O!SaveAsset
  <2> HIDE DEF i
  <2>4. asset' \in AssetRow /\ asset'.name = n /\ asset'.id = i  BY <2>1, <2>2 DEF AssetRow
  <2> QED  BY <1>a, <1>l, <1>t, <2>1, <2>2, <2>3, <2>4
<1>14. ASSUME O!DropAsset PROVE BooksInv'
  BY <1>14, <1>a, <1>l, <1>t DEF O!DropAsset, O!Others
<1>15. ASSUME NEW w \in Worker, O!LoadAsset(w) PROVE BooksInv'
  <2>1. /\ asset # Nothing /\ O!Goes(w, [op |-> "asset", copy |-> asset])
        /\ UNCHANGED <<expense, vendors, advance, obill, bills, asset, profile>>
    BY <1>15 DEF O!LoadAsset, O!Others
  <2>2. [op |-> "asset", copy |-> asset] \in BooksTasks  BY <1>t, <2>1 DEF BooksTasks
  <2>3. otask' \in [Worker -> {Idle} \cup BooksTasks]  BY <1>t, <2>1, <2>2 DEF O!Goes
  <2> QED  BY <1>a, <1>l, <1>t, <2>1, <2>3
<1>16. ASSUME NEW n \in Name, NEW id \in Staff \cup {Nothing}, O!Rename(n, id) PROVE BooksInv'
  <2>1. /\ profile' = [profile EXCEPT ![n] = id]
        /\ UNCHANGED <<expense, vendors, advance, obill, bills, asset, otask>>
    BY <1>16 DEF O!Rename, O!Others
  <2>2. profile' \in [Name -> Staff \cup {Nothing}]  BY <1>t, <2>1
  <2> QED  BY <1>a, <1>l, <1>t, <2>1, <2>2
<1>17. CASE UNCHANGED O!officeVars
  BY <1>17, <1>e, <1>l, <1>t DEF O!officeVars
<1> QED
  BY <1>1, <1>2, <1>3, <1>4, <1>5, <1>6, <1>7, <1>8, <1>9, <1>10, <1>11, <1>13, <1>14, <1>15,
     <1>16, <1>17 DEF O!Next

-----------------------------------------------------------------------------
(* Sums *)

\* The sums of the two parts that have some are those the lemmas are about.
LEMMA SameSum ==
    /\ \A f, s : C!SumFunctionOnSet(f, s) = SumFunctionOnSet(f, s)
    /\ \A f : C!SumFunction(f) = SumFunctionOnSet(f, DOMAIN f)
    /\ \A f : O!SumFunction(f) = SumFunctionOnSet(f, DOMAIN f)
BY DEF C!SumFunction, C!SumFunctionOnSet, C!FoldFunctionOnSet, C!MapThenFoldSet,
       O!SumFunction, O!SumFunctionOnSet, O!FoldFunctionOnSet, O!MapThenFoldSet,
       SumFunctionOnSet, FoldFunctionOnSet, MapThenFoldSet

LEMMA LedgerRight ==
    ASSUME PanelFits, PanelInv
    PROVE  C!LedgerAgrees
PROOF
<1> DEFINE s == C!Sum(C!Logged)
<1>0. IsFiniteSet(C!Division)
  <2>1. IsFiniteSet({"farm"}) /\ IsFiniteSet({"infra"}) /\ IsFiniteSet({"others"})
    BY FS_Singleton
  <2>2. IsFiniteSet({"farm"} \cup {"infra"})  BY <2>1, FS_Union
  <2>3. IsFiniteSet(({"farm"} \cup {"infra"}) \cup {"others"})  BY <2>1, <2>2, FS_Union
  <2>4. C!Division = ({"farm"} \cup {"infra"}) \cup {"others"}  BY DEF C!Division
  <2> QED  BY <2>3, <2>4
<1>1. s \in Int
  <2>1. IsFiniteSet(C!Logged)
    <3>1. C!Logged \subseteq Payment /\ IsFiniteSet(Payment)  BY DEF PanelFits, C!Logged
    <3> QED  BY <3>1, FS_Subset
  <2>2. paid \in [Payment -> Price \cup {Nothing}] /\ Price \subseteq Nat
    BY DEF PanelFits, PanelInv, C!TypeOK
  <2>3. ASSUME NEW l \in C!Logged PROVE paid[l] \in Int
    <3>1. l \in Payment /\ paid[l] # Nothing  BY DEF C!Logged
    <3>2. paid[l] \in Price  BY <2>2, <3>1
    <3>3. paid[l] \in Nat  BY <2>2, <3>2, Zenon
    <3> QED  BY <3>3
  <2> QED  BY <2>1, <2>3, SameSum, SumInt DEF C!Sum
<1> HIDE DEF s
<1>2. CASE panel = Nothing
  <2>1. C!Summary.all = 0 /\ C!Remaining = 0 /\ C!Summary.parts = [d \in C!Division |-> 0]
    BY <1>2 DEF C!Summary, C!Remaining, C!ScopeTotal, C!ScopePaid
  <2> DEFINE P == [d \in C!Division |-> 0]
  <2>3. SumFunctionOnSet(P, C!Division) = 0
    <3>1. P["farm"] = 0 /\ \A d \in C!Division \ {"farm"} : P[d] = 0  BY DEF C!Division
    <3> HIDE DEF P
    <3> QED  BY <1>0, <3>1, SumOne
  <2>4. C!SumFunction(P) = 0  BY <2>3, SameSum
  <2> QED  BY <1>2, <2>1, <2>4 DEF C!LedgerAgrees
<1>3. CASE panel # Nothing
  <2> DEFINE P == C!Summary.parts
             d == panel.division
             rest == panel.total - s
  <2>1. panel \in C!Entry /\ d \in C!Division /\ panel.total \in Nat /\ PricedRight(panel)
    BY <1>3 DEF PanelInv, C!TypeOK, C!Entry
  <2>2. C!Remaining = rest /\ rest \in Int
    BY <1>1, <1>3, <2>1 DEF C!Remaining, s
  <2>3. C!Summary.all = rest  BY <1>3, <2>1 DEF C!Summary, C!ScopeTotal, C!ScopePaid, s
  <2>4. DOMAIN P = C!Division /\ P[d] = rest /\ \A x \in C!Division \ {d} : P[x] = 0
    BY <1>3, <2>1 DEF C!Summary, C!ScopeTotal, C!ScopePaid, s
  <2>6. C!SumFunction(P) = rest
    <3> HIDE DEF P, d, rest
    <3>1. SumFunctionOnSet(P, C!Division) = rest  BY <2>1, <2>2, <1>0, <2>4, SumOne
    <3> QED  BY <2>4, <3>1, SameSum
  <2>7. rest = C!Total(panel.value, panel.tax) - C!Sum(C!Logged)  BY <2>1 DEF PricedRight, s
  <2> QED  BY <2>2, <2>3, <2>6, <2>7 DEF C!LedgerAgrees
<1> QED  BY <1>2, <1>3

\* Sums over recorded expenses are sums of one function, by whatever they are filed under.
LEMMA ExpensesByKey ==
    ASSUME BooksFits, BooksInv, NEW es \in SUBSET O!Recorded,
           NEW K, IsFiniteSet(K), NEW key, \A e \in es : key[e] \in K
    PROVE  /\ O!Sum(es) \in Int
           /\ O!Sum(es) = SumFunctionOnSet([k \in K |-> O!Sum(Under(es, key, k))], K)
PROOF
<1> DEFINE F == [e \in O!Recorded |-> expense[e].amount]
           P == [k \in K |-> O!Sum(Under(es, key, k))]
<1>1. IsFiniteSet(O!Recorded)  BY FS_Subset DEF BooksFits, O!Recorded
<1>2. \A e \in O!Recorded : F[e] \in Int
  BY DEF BooksFits, BooksInv, O!TypeOK, O!Recorded, O!ExpenseRow
<1>3. ASSUME NEW u \in SUBSET O!Recorded
      PROVE  IsFiniteSet(u) /\ O!Sum(u) = SumFunctionOnSet(F, u)
  <2> DEFINE G == [e \in u |-> expense[e].amount]
  <2>1. IsFiniteSet(u)  BY <1>1, FS_Subset
  <2>2. \A e \in u : G[e] = F[e]  OBVIOUS
  <2>3. O!Sum(u) = SumFunctionOnSet(G, u)  BY SameSum DEF O!Sum
  <2> HIDE DEF F, G
  <2> QED  BY <2>1, <2>2, <2>3, SumSame
<1>4. \A k \in K : P[k] = SumFunctionOnSet(F, Under(es, key, k))
  <2> SUFFICES ASSUME NEW k \in K
               PROVE  P[k] = SumFunctionOnSet(F, Under(es, key, k))
    OBVIOUS
  <2> DEFINE u == Under(es, key, k)
  <2>1. u \in SUBSET O!Recorded  BY DEF Under
  <2>2. P[k] = O!Sum(u)  OBVIOUS
  <2> HIDE DEF u, P, F
  <2>3. P[k] = SumFunctionOnSet(F, u)  BY <1>3, <2>1, <2>2
  <2> QED  BY <2>3 DEF u
<1> HIDE DEF F, P
<1>5. IsFiniteSet(es) /\ O!Sum(es) = SumFunctionOnSet(F, es)  BY <1>3
<1>6. \A e \in es : F[e] \in Int  BY <1>2
<1>7. SumFunctionOnSet(F, es) \in Int  BY <1>5, <1>6, SumInt
<1>8. SumFunctionOnSet(F, es) = SumFunctionOnSet(P, K)  BY <1>4, <1>5, <1>6, SumByKey
<1> QED  BY <1>5, <1>7, <1>8 DEF P

LEMMA SumsOfExpenses ==
    ASSUME BooksFits, BooksInv, NEW es \in SUBSET O!Recorded
    PROVE  O!Sum(es) \in Int
PROOF
<1> DEFINE key == [e \in es |-> 0]
<1>1. IsFiniteSet({0}) /\ \A e \in es : key[e] \in {0}  BY FS_Singleton
<1> HIDE DEF key
<1> QED  BY <1>1, ExpensesByKey

LEMMA FiguresRight ==
    ASSUME BooksFits, BooksInv
    PROVE  O!FiguresAgree
PROOF
<1> DEFINE R == O!Recorded
<1>1. R \subseteq Expense /\ \A e \in R : expense[e].vendor \in vendors \cup {Nothing}
  BY DEF BooksInv, Linked, O!Recorded
<1>2. \A e \in R : expense[e].month \in Month
  BY DEF BooksInv, O!TypeOK, O!Recorded, O!ExpenseRow
<1>3. /\ vendors \subseteq Vendor /\ bills \subseteq Category /\ Nothing \notin vendors
      /\ IsFiniteSet(vendors) /\ IsFiniteSet(vendors \cup {Nothing}) /\ IsFiniteSet(bills)
  <2>1. vendors \subseteq Vendor /\ bills \subseteq Category  BY DEF BooksInv, O!TypeOK
  <2> QED  BY <2>1, FS_Subset, FS_AddElement DEF BooksFits
\* The vendors' totals and the rest.
<1>4. O!Dashboard.expenses = O!SumFunction([v \in vendors |-> O!ServicePrice(v)])
                             + O!Sum({e \in R : expense[e].vendor = Nothing})
  <2> DEFINE key == [e \in R |-> expense[e].vendor]
             K == vendors \cup {Nothing}
             P == [k \in K |-> O!Sum(Under(R, key, k))]
             Q == [v \in vendors |-> O!ServicePrice(v)]
  <2>1. \A e \in R : key[e] \in K  BY <1>1
  <2>2. O!Sum(R) = SumFunctionOnSet(P, K)
    <3> HIDE DEF key, K
    <3> QED  BY <1>3, <2>1, ExpensesByKey DEF K
  <2>3. \A k \in K : Under(R, key, k) = {e \in R : expense[e].vendor = k}  BY DEF Under
  <2>4. \A v \in vendors : P[v] = Q[v]  BY <2>3 DEF O!ServicePrice
  <2>5. P[Nothing] = O!Sum({e \in R : expense[e].vendor = Nothing})  BY <2>3
  <2>6. \A k \in K : P[k] \in Int
    <3> SUFFICES ASSUME NEW k \in K PROVE O!Sum(Under(R, key, k)) \in Int  OBVIOUS
    <3>1. Under(R, key, k) \in SUBSET O!Recorded  BY DEF Under
    <3> QED  BY <3>1, SumsOfExpenses
  <2>7. O!SumFunction(Q) = SumFunctionOnSet(Q, vendors)  BY SameSum
  <2> HIDE DEF P, Q
  <2>8. SumFunctionOnSet(P, K) = P[Nothing] + SumFunctionOnSet(P, vendors)
    BY <1>3, <2>6, SumMore
  <2>9. SumFunctionOnSet(P, vendors) = SumFunctionOnSet(Q, vendors)  BY <1>3, <2>4, SumSame
  <2>10. SumFunctionOnSet(P, vendors) \in Int /\ P[Nothing] \in Int  BY <1>3, <2>6, SumInt
  <2>11. O!Dashboard.expenses = O!Sum(R)  BY DEF O!Dashboard
  <2> QED  BY <2>2, <2>5, <2>7, <2>8, <2>9, <2>10, <2>11 DEF Q
\* A range and its months.
<1>5. ASSUME NEW from \in Month, NEW to \in Month
      PROVE  O!RangeSummary(from, to).total = O!SumFunction(O!RangeSummary(from, to).months)
  <2> DEFINE key == [e \in R |-> expense[e].month]
             K == from .. to
             es == O!Paid(K)
             P == [k \in K |-> O!Sum(Under(es, key, k))]
             Q == [m \in K |-> O!Sum(O!Paid({m}))]
  <2>1. IsFiniteSet(K)
    <3>1. Month \subseteq Nat  BY DEF BooksFits
    <3>2. from \in Nat /\ to \in Nat  BY <3>1, Zenon
    <3> QED  BY <3>2, FS_Interval
  <2>2. es \in SUBSET O!Recorded /\ \A e \in es : key[e] \in K  BY DEF O!Paid
  <2>3. O!Sum(es) = SumFunctionOnSet(P, K)
    <3> HIDE DEF key, K, es
    <3> QED  BY <2>1, <2>2, ExpensesByKey
  <2>4. \A m \in K : P[m] = Q[m]
    <3> SUFFICES ASSUME NEW m \in K PROVE Under(es, key, m) = O!Paid({m})  OBVIOUS
    <3> QED  BY DEF Under, O!Paid
  <2>5. O!RangeSummary(from, to).total = O!Sum(es) /\ O!RangeSummary(from, to).months = Q
    BY DEF O!RangeSummary
  <2>6. O!SumFunction(Q) = SumFunctionOnSet(Q, K)  BY SameSum
  <2> HIDE DEF P, Q, K
  <2>7. SumFunctionOnSet(P, K) = SumFunctionOnSet(Q, K)  BY <2>1, <2>4, SumSame
  <2> QED  BY <2>3, <2>5, <2>6, <2>7
\* What is left of the advances.
<1>6. O!SumFunction([m \in Month |-> O!MonthSummary(m)])
        = O!SumFunction([m \in Month |-> IF advance[m] = Nothing THEN 0 ELSE advance[m]])
          - O!Dashboard.expenses
  <2> DEFINE key == [e \in R |-> expense[e].month]
             P == [k \in Month |-> O!Sum(Under(R, key, k))]
             A == [m \in Month |-> IF advance[m] = Nothing THEN 0 ELSE advance[m]]
             Q == [m \in Month |-> O!MonthSummary(m)]
  <2>1. IsFiniteSet(Month) /\ \A e \in R : key[e] \in Month  BY <1>2 DEF BooksFits
  <2>2. O!Sum(R) = SumFunctionOnSet(P, Month)
    <3> HIDE DEF key
    <3> QED  BY <2>1, ExpensesByKey
  <2>3. ASSUME NEW m \in Month
        PROVE  P[m] \in Int /\ A[m] \in Int /\ Q[m] \in Int /\ A[m] = P[m] + Q[m]
    <3>1. Under(R, key, m) = O!Paid({m}) /\ O!Paid({m}) \in SUBSET O!Recorded
      BY DEF Under, O!Paid
    <3>2. P[m] = O!Sum(O!Paid({m})) /\ P[m] \in Int  BY <3>1, SumsOfExpenses
    <3>3. A[m] \in Int
      <4>1. advance[m] \in Amount \cup {Nothing} /\ Amount \subseteq Nat
        BY DEF BooksFits, BooksInv, O!TypeOK
      <4>2. CASE advance[m] = Nothing  BY <4>2
      <4>3. CASE advance[m] # Nothing
        <5>1. advance[m] \in Nat  BY <4>1, <4>3, Zenon
        <5> QED  BY <4>3, <5>1
      <4> QED  BY <4>2, <4>3
    <3>4. Q[m] = A[m] - O!Sum(O!Paid({m}))  BY DEF O!MonthSummary
    <3> HIDE DEF P, A, Q
    <3> QED  BY <3>2, <3>3, <3>4
  <2>4. O!SumFunction(Q) = SumFunctionOnSet(Q, Month)
        /\ O!SumFunction(A) = SumFunctionOnSet(A, Month)
    BY SameSum
  <2>5. O!Dashboard.expenses = O!Sum(R)  BY DEF O!Dashboard
  <2> HIDE DEF P, Q, A
  <2>6. SumFunctionOnSet(A, Month) = SumFunctionOnSet(P, Month) + SumFunctionOnSet(Q, Month)
    BY <2>1, <2>3, SumPlus
  <2>7. SumFunctionOnSet(P, Month) \in Int /\ SumFunctionOnSet(Q, Month) \in Int
    BY <2>1, <2>3, SumInt
  <2>8. O!SumFunction(Q) = O!SumFunction(A) - O!Dashboard.expenses
    BY <2>2, <2>4, <2>5, <2>6, <2>7
  <2> QED  BY <2>8 DEF Q, A
\* The bills by category.
<1>7. O!Dashboard.bills = O!SumFunction(O!Dashboard.byCategory)
  <2> DEFINE B == [c \in bills |-> IF obill # Nothing /\ obill.category = c THEN obill.amount ELSE 0]
  <2>1. /\ O!Dashboard.bills = IF obill = Nothing THEN 0 ELSE obill.amount
        /\ O!Dashboard.byCategory = B
    BY DEF O!Dashboard
  <2>2. O!SumFunction(B) = SumFunctionOnSet(B, bills)  BY SameSum
  <2>3. CASE obill = Nothing
    <3>1. \A c \in bills : B[c] = 0  BY <2>3
    <3> HIDE DEF B
    <3>2. SumFunctionOnSet(B, bills) = 0  BY <1>3, <3>1, SumNothing
    <3> QED  BY <2>1, <2>2, <2>3, <3>2
  <2>4. CASE obill # Nothing
    <3> DEFINE c == obill.category
    <3>1. c \in bills /\ obill.amount \in Nat
      BY <2>4 DEF BooksFits, BooksInv, Linked, O!TypeOK
    <3>2. B[c] = obill.amount /\ \A d \in bills \ {c} : B[d] = 0  BY <2>4, <3>1
    <3> HIDE DEF B, c
    <3>3. SumFunctionOnSet(B, bills) = obill.amount  BY <1>3, <3>1, <3>2, SumOne
    <3> QED  BY <2>1, <2>2, <2>4, <3>3
  <2> QED  BY <2>3, <2>4
<1>8. asset # Nothing /\ asset.id # Nothing => asset.name # Nothing  BY DEF BooksInv, Linked
<1> QED  BY <1>4, <1>5, <1>6, <1>7, <1>8 DEF O!FiguresAgree

-----------------------------------------------------------------------------
(* Records *)

IP == INSTANCE CallProofs WITH User <- Party, Worker <- Handler, req <- creq

\* A step of the whole is a step of each part, or leaves it alone.
LEMMA RecordsParts ==
    ASSUME [RecordsNext]_everything
    PROVE  /\ [Next]_vars /\ [I!Next]_(I!vars) /\ [L!Next]_(L!leadVars) /\ [T!Next]_(T!tourVars)
           /\ [W!Next]_(W!workVars) /\ [C!Next]_(C!panelVars) /\ [J!Next]_(J!jobVars)
           /\ [O!Next]_(O!officeVars)
PROOF
<1>s. /\ UNCHANGED callState => UNCHANGED I!vars
      /\ UNCHANGED leadState => UNCHANGED L!leadVars
      /\ UNCHANGED tourState => UNCHANGED T!tourVars
      /\ UNCHANGED workState => UNCHANGED W!workVars
      /\ UNCHANGED panelState => UNCHANGED C!panelVars
      /\ UNCHANGED jobState => UNCHANGED J!jobVars
      /\ UNCHANGED booksState => UNCHANGED O!officeVars
  BY DEF callState, leadState, tourState, workState, panelState, jobState, booksState,
         I!vars, I!contractVars, I!otherVars, L!leadVars, T!tourVars, W!workVars, C!panelVars,
         J!jobVars, O!officeVars
<1>1. CASE UNCHANGED everything  BY <1>s, <1>1 DEF everything
<1>2. CASE RecordsNext  BY <1>s, <1>2 DEF RecordsNext, Only
<1> QED  BY <1>1, <1>2

\* What CallProofs assumes, and what it says of the calls, it says of those here.
LEMMA CallsFit ==
  /\ CallId \subseteq Nat /\ NoOne \notin Party
  /\ ProcessOf \in [Handler -> Handler] /\ MayAge \subseteq CallId
  /\ Idle \notin IP!Dialling \cup IP!Pushing \cup IP!Saving \cup IP!Counting \cup IP!Sharing
BY CallsAssumption
   DEF I!Dialling, I!Pushing, I!Saving, I!Counting, I!Sharing, I!Status,
       IP!Dialling, IP!Pushing, IP!Saving, IP!Counting, IP!Sharing, IP!Status

LEMMA SameCallStart == I!Init => IP!Init
BY DEF I!Init, I!ContractInit, I!Process, I!None, IP!Init, IP!ContractInit, IP!Process, IP!None

LEMMA SameCallStep ==
    ASSUME [I!Next]_(I!vars)
    PROVE  [IP!Next]_(IP!vars)
BY DEF I!Next, I!vars, I!contractVars, I!otherVars, I!Step, I!Dial, I!CheckFree, I!Insert, I!Push,
       I!Accept, I!Decline, I!End, I!PreSave, I!WriteRow, I!PostSave, I!WriteCount, I!Share,
       I!WriteShared, I!EndAll, I!Reset, I!Age, I!Become, I!Record, I!BulkUpdate, I!Decide,
       I!Live, I!Busy, I!PartyOf, I!NextKey, I!None,
       IP!Next, IP!vars, IP!contractVars, IP!otherVars, IP!Step, IP!Dial, IP!CheckFree,
       IP!Insert, IP!Push, IP!Accept, IP!Decline, IP!End, IP!PreSave, IP!WriteRow, IP!PostSave,
       IP!WriteCount, IP!Share, IP!WriteShared, IP!EndAll, IP!Reset, IP!Age, IP!Become,
       IP!Record, IP!BulkUpdate, IP!Decide, IP!Live, IP!Busy, IP!PartyOf, IP!NextKey, IP!None

LEMMA SameCallTypes == IP!TypeOK => I!TypeOK
BY DEF I!TypeOK, I!Status, I!None, I!Process, I!Dialling, I!Pushing, I!Saving, I!Counting, I!Sharing,
       IP!TypeOK, IP!Status, IP!None, IP!Process, IP!Dialling, IP!Pushing, IP!Saving,
       IP!Counting, IP!Sharing

LEMMA SameCount ==
    ASSUME IP!AnsweredIsNotMissed, IP!CounterExact
    PROVE  I!AnsweredIsNotMissed /\ I!CounterExact
BY DEF I!AnsweredIsNotMissed, I!CounterExact, I!Quiet, I!LapsedFor, I!Cardinality,
       IP!AnsweredIsNotMissed, IP!CounterExact, IP!Quiet, IP!LapsedFor, IP!Cardinality

LEMMA SameContract ==
    ASSUME [IP!ContractNext]_(IP!contractVars)
    PROVE  [I!ContractNext]_(I!contractVars)
BY DEF I!ContractNext, I!contractVars, I!Ring, I!Move, I!Transitions, I!NextKey, I!Live, I!Busy,
       I!PartyOf, I!Status, I!None,
       IP!ContractNext, IP!contractVars, IP!Ring, IP!Move, IP!Transitions, IP!NextKey, IP!Live,
       IP!Busy, IP!PartyOf, IP!Status, IP!None

LEMMA CallsHold == RecordsSpec => []IP!CallInv
PROOF
<1>1. RecordsInit => IP!CallInv  BY SameCallStart, CallsFit, IP!CallStart DEF RecordsInit
<1>2. IP!CallInv /\ [RecordsNext]_everything => IP!CallInv'
  BY RecordsParts, SameCallStep, CallsFit, IP!CallStep
<1> QED  BY <1>1, <1>2, PTL DEF RecordsSpec

LEMMA SerialCallsHold ==
    ASSUME NEW h, Handler = {h}
    PROVE  RecordsSpec => []IP!SerialInv
PROOF
<1>1. RecordsInit => IP!SerialInv  BY SameCallStart, CallsFit, IP!SerialStarts DEF RecordsInit
<1>2. IP!SerialInv /\ [RecordsNext]_everything => IP!SerialInv'
  BY RecordsParts, SameCallStep, CallsFit, IP!SerialStep
<1> QED  BY <1>1, <1>2, PTL DEF RecordsSpec

\* The group calls of the whole are those of GroupCall.
LEMMA GroupHolds == RecordsSpec => Spec
PROOF
<1>1. RecordsInit => Init  BY DEF RecordsInit
<1>2. [RecordsNext]_everything => [Next]_vars  BY RecordsParts
<1> QED  BY <1>1, <1>2, PTL DEF RecordsSpec, Spec

LEMMA LeadHolds ==
    ASSUME LeadFits
    PROVE  RecordsSpec => []LeadInv
PROOF
<1>1. RecordsInit => LeadInv
  <2> SUFFICES ASSUME L!Init PROVE LeadInv  BY DEF RecordsInit
  <2>1. Listed  BY DEF L!Init, Listed, L!At
  <2>2. Counting = {} /\ L!Total(LocalDay) = 0
    BY DEF L!Init, Counting, L!At, L!Total, LeadFits
  <2>3. Counted  BY <2>2, FS_EmptySet DEF L!Init, Counted, L!At
  <2>4. lead \in L!Lead /\ lead # Nothing
    <3>1. 0 \in 0..MaxAcks  BY DEF LeadFits
    <3> QED  BY <3>1 DEF L!Init, L!Lead, LeadFits
  <2>5. L!TypeOK
    <3>1. 0 \in 0..MaxNotes  BY DEF LeadFits
    <3> QED  BY <2>4, <3>1 DEF L!Init, L!TypeOK
  <2> QED  BY <2>1, <2>3, <2>4, <2>5 DEF LeadInv, L!Init
<1>2. LeadInv /\ [RecordsNext]_everything => LeadInv'  BY RecordsParts, LeadStep
<1> QED  BY <1>1, <1>2, PTL DEF RecordsSpec

LEMMA TourHolds ==
    ASSUME TourFits
    PROVE  RecordsSpec => []TourInv
PROOF
<1>1. RecordsInit => TourInv
  BY DEF RecordsInit, T!Init, TourInv, T!TypeOK, T!ApprovedStands, T!PrimarySees, T!At
<1>2. TourInv /\ [RecordsNext]_everything => TourInv'  BY RecordsParts, TourStep
<1> QED  BY <1>1, <1>2, PTL DEF RecordsSpec

LEMMA WorkHolds ==
    ASSUME WorkFits
    PROVE  RecordsSpec => []WorkInv
PROOF
<1>1. RecordsInit => WorkInv
  <2> SUFFICES ASSUME W!Init PROVE WorkInv  BY DEF RecordsInit
  <2>1. W!TypeOK /\ done <= month  BY DEF W!Init, W!TypeOK, W!Made, WorkFits
  <2>2. Dated  BY DEF W!Init, Dated, W!Status, WorkFits
  <2>3. \A a \in Assignee : Noticed(a)  BY DEF W!Init, Noticed
  <2> QED  BY <2>1, <2>2, <2>3 DEF WorkInv, W!Init
<1>2. WorkInv /\ [RecordsNext]_everything => WorkInv'  BY RecordsParts, WorkStep
<1> QED  BY <1>1, <1>2, PTL DEF RecordsSpec

LEMMA PanelHolds ==
    ASSUME PanelFits
    PROVE  RecordsSpec => []PanelInv
PROOF
<1>1. RecordsInit => PanelInv
  <2> SUFFICES ASSUME C!Init PROVE PanelInv  BY DEF RecordsInit
  <2>1. ASSUME NEW value \in Price
        PROVE  /\ C!Total(value, 0) = value
               /\ [value |-> value, tax |-> 0, total |-> value, division |-> "others"] \in C!Entry
    <3>1. value \in Nat  BY DEF PanelFits
    <3> QED  BY <3>1 DEF C!Total, C!Entry, C!Tax, C!Division
  <2>2. panel # Nothing => panel \in C!Entry /\ PricedRight(panel)
    <3> SUFFICES ASSUME panel # Nothing PROVE panel \in C!Entry /\ PricedRight(panel)  OBVIOUS
    <3>1. PICK value \in Price :
            panel = [value |-> value, tax |-> 0, total |-> value, division |-> "others"]
      BY DEF C!Init
    <3> QED  BY <2>1, <3>1 DEF PricedRight
  <2>3. C!TypeOK  BY <2>2 DEF C!Init, C!TypeOK
  <2> QED  BY <2>2, <2>3 DEF C!Init, PanelInv, C!At
<1>2. PanelInv /\ [RecordsNext]_everything => PanelInv'  BY RecordsParts, PanelStep
<1> QED  BY <1>1, <1>2, PTL DEF RecordsSpec

LEMMA JobHolds ==
    ASSUME JobFits
    PROVE  RecordsSpec => []JobInv
PROOF
<1>1. RecordsInit => JobInv
  <2> SUFFICES ASSUME J!Init PROVE JobInv  BY DEF RecordsInit
  <2>1. 0 \in 0..MaxApps  BY DEF JobFits
  <2>2. J!TypeOK  BY <2>1 DEF J!Init, J!TypeOK
  <2>3. J!AppliedWhenOffered  BY DEF J!Init, J!AppliedWhenOffered
  <2> QED  BY <2>2, <2>3 DEF J!Init, JobInv
<1>2. JobInv /\ [RecordsNext]_everything => JobInv'  BY RecordsParts, JobStep
<1> QED  BY <1>1, <1>2, PTL DEF RecordsSpec

LEMMA BooksHold ==
    ASSUME BooksFits
    PROVE  RecordsSpec => []BooksInv
PROOF
<1>1. RecordsInit => BooksInv
  BY DEF RecordsInit, O!Init, BooksInv, O!TypeOK, Linked
<1>2. BooksInv /\ [RecordsNext]_everything => BooksInv'  BY RecordsParts, BooksStep
<1> QED  BY <1>1, <1>2, PTL DEF RecordsSpec

-----------------------------------------------------------------------------
(* The properties of Records. *)

\* The rows of every part and the history beside them keep their types, however requests
\* cross.
THEOREM RecordsTypes ==
    ASSUME LeadFits, TourFits, WorkFits, PanelFits, JobFits, BooksFits
    PROVE  RecordsSpec => []TypesOK
PROOF
<1>1. /\ LeadInv => L!TypeOK
      /\ TourInv => T!TypeOK
      /\ WorkInv => W!TypeOK
      /\ PanelInv => C!TypeOK
      /\ JobInv => J!TypeOK
      /\ BooksInv => O!TypeOK
  BY DEF LeadInv, TourInv, WorkInv, PanelInv, JobInv, BooksInv
<1>2. IP!CallInv => I!TypeOK  BY SameCallTypes DEF IP!CallInv
<1>3. TypeOK /\ IP!CallInv /\ LeadInv /\ TourInv /\ WorkInv /\ PanelInv /\ JobInv /\ BooksInv
        => TypesOK
  BY <1>1, <1>2 DEF TypesOK
<1>4. RecordsSpec => []LeadInv  BY LeadHolds
<1>5. RecordsSpec => []TourInv  BY TourHolds
<1>6. RecordsSpec => []WorkInv  BY WorkHolds
<1>7. RecordsSpec => []PanelInv  BY PanelHolds
<1>8. RecordsSpec => []JobInv  BY JobHolds
<1>9. RecordsSpec => []BooksInv  BY BooksHold
<1>10. RecordsSpec => []TypeOK  BY GroupHolds, GroupTypeCorrect, PTL
<1> QED
  BY <1>3, <1>4, <1>5, <1>6, <1>7, <1>8, <1>9, <1>10, CallsHold, PTL

\* However requests cross: members keep their lead, the statistics their conversations, an
\* approval its advance, the primary traveller the request, a completion its date,
\* assignees their messages, and applicants only ever had an opening that was offered
\* (Clients, tour_advance, task_management, recruitment).
THEOREM NobodyLosesForAll ==
    ASSUME LeadFits, TourFits, WorkFits, JobFits
    PROVE  RecordsSpec => []NobodyLoses
PROOF
<1>1. LeadInv /\ TourInv /\ WorkInv /\ JobInv => NobodyLoses
  BY LeadAtRest, WorkAtRest DEF TourInv, JobInv, NobodyLoses
<1>2. RecordsSpec => []LeadInv  BY LeadHolds
<1>3. RecordsSpec => []TourInv  BY TourHolds
<1>4. RecordsSpec => []WorkInv  BY WorkHolds
<1>5. RecordsSpec => []JobInv  BY JobHolds
<1> QED  BY <1>1, <1>2, <1>3, <1>4, <1>5, PTL

\* Only its creator opens or closes an opening; what anybody else saves writes back the
\* state that was loaded (JobPosting's open and close, the serializer of the update).
THEOREM StateForAll ==
    ASSUME JobFits
    PROVE  RecordsSpec => StateIsTheCreators
PROOF
<1> DEFINE Creators ==
      opening # Nothing /\ opening'.state # opening.state =>
        \E w \in Worker : jtask[w] # Idle /\ jtask'[w] = Idle
                          /\ (jtask[w].by = Creator \/ jtask[w].copy.state = opening'.state)
<1>1. JobInv /\ [RecordsNext]_everything => [Creators]_(J!jobVars)
  BY RecordsParts, JobStates
<1>2. RecordsSpec => []JobInv  BY JobHolds
<1> QED  BY <1>1, <1>2, PTL DEF RecordsSpec, StateIsTheCreators, J!StateIsTheCreators

\* With one handler at a time an answered call is never filed as missed, and the counter is
\* the number of calls missed since it was reset.
THEOREM MissedCountedForAll ==
    ASSUME NEW h, Handler = {h}
    PROVE  RecordsSpec => []MissedCounted
PROOF
<1>1. IP!SerialInv => MissedCounted
  BY CallsFit, IP!SerialSays, SameCount DEF MissedCounted
<1>2. RecordsSpec => []IP!SerialInv  BY SerialCallsHold
<1> QED  BY <1>1, <1>2, PTL

\* ... and the calls implement their contract, and keep a screen share until it is stopped.
THEOREM CallsContractForAll ==
    ASSUME NEW h, Handler = {h}
    PROVE  RecordsSpec => CallsKeepContract
PROOF
<1> DEFINE Stays == \A c \in CallId :
       (shared[c] /\ ~shared'[c]) =>
         \E w \in Handler : creq[w] # Idle /\ creq[w].at = "sharing" /\ creq'[w] = Idle
<1>1. RecordsInit => I!ContractInit  BY DEF RecordsInit, I!Init
<1>2. IP!SerialInv /\ [RecordsNext]_everything => [I!ContractNext]_(I!contractVars)
  BY RecordsParts, SameCallStep, CallsFit, IP!StepOfContract, SameContract DEF IP!SerialInv
<1>3. IP!SerialInv /\ [RecordsNext]_everything => [Stays]_(I!vars)
  <2> SUFFICES ASSUME IP!SerialInv, [RecordsNext]_everything PROVE [Stays]_(I!vars)  OBVIOUS
  <2>1. [IP!Next]_(IP!vars)  BY RecordsParts, SameCallStep
  <2>2. CASE IP!Next  BY <2>2, CallsFit, IP!SharesStep
  <2>3. CASE UNCHANGED IP!vars
    BY <2>3 DEF IP!vars, IP!contractVars, IP!otherVars, I!vars, I!contractVars, I!otherVars
  <2> QED  BY <2>1, <2>2, <2>3
<1>4. RecordsSpec => []IP!SerialInv  BY SerialCallsHold
<1> QED
  BY <1>1, <1>2, <1>3, <1>4, PTL
     DEF RecordsSpec, CallsKeepContract, I!ContractSpec, I!ShareStaysUntilStopped

\* The ledger of a customer entry and the office's figures agree with the rows they are
\* computed from, however saves and deletions cross, for any number of rows.
THEOREM FiguresForAll ==
    ASSUME PanelFits, BooksFits
    PROVE  RecordsSpec => []FiguresAgree
PROOF
<1>1. PanelInv /\ BooksInv => FiguresAgree
  BY LedgerRight, FiguresRight DEF FiguresAgree
<1>2. RecordsSpec => []PanelInv  BY PanelHolds
<1>3. RecordsSpec => []BooksInv  BY BooksHold
<1> QED  BY <1>1, <1>2, <1>3, PTL
=============================================================================
