-------------------------- MODULE ActionableProofs --------------------------
(***************************************************************************)
(* What holds of an actionable entry for any people, patches and length of  *)
(* its chain: types, and that requests which do not overlap keep the        *)
(* contract, and with it that a signed entry is shared only with people who *)
(* have finished their part.                                                *)
(***************************************************************************)
EXTENDS ActionableEntry, TLAPS

\* The values the constants may have.
ConstantsFit ==
  /\ Creator \in User /\ CoAuthors \subseteq User
  /\ Patches \subseteq Patch
  /\ MaxChain \in Nat \ {0} /\ MaxEdits \in Nat

\* An entry that is not there yet is in nobody's hands; only who has completed a
\* part has a completed share.
Recorded ==
  /\ life = "none" => AtRest /\ ~signed /\ \A u \in User : status[u] = "PENDING"
  /\ \A u \in User : status[u] = "COMPLETED" => u \in done

\* What a request without overlap has read is still so.
Fresh(u) ==
  /\ req[u].at = "loaded" => req[u].copy = row
  /\ req[u].at = "noted" =>
       IF req[u].signs THEN completed = member
       ELSE req[u].copy.final = "COMPLETED" => row.final = "COMPLETED"
  /\ req[u].at = "working" => u \in member
  /\ req[u].at \in {"passing", "marked"} => completed = {} /\ row.final # "COMPLETED"

Alone ==
  ~overlap =>
    /\ \A u, v \in User : req[u] # Idle /\ req[v] # Idle => u = v
    /\ \A u \in User : req[u] # Idle => Here /\ Fresh(u)

Loaded  == [at : {"loaded"}, copy : Row, patch : Patch]
Noted   == [at : {"noted"}, copy : Row, signs : BOOLEAN]
Written == [at : {"written"}, copy : Row, made : BOOLEAN]
Working == [at : {"working"}, status : Status]
Worked  == [at : {"worked"}, news : BOOLEAN]
Passing == [at : {"passing", "marked"}, to : User]

-----------------------------------------------------------------------------
(* Types *)

\* What a request holds, by the statement it is at.
LEMMA Holds ==
    ASSUME EntryTypeOK, NEW u \in User, req[u] # Idle
    PROVE  /\ req[u] \in Request
           /\ req[u].at = "loaded" => req[u] \in Loaded
           /\ req[u].at = "noted" => req[u] \in Noted
           /\ req[u].at = "written" => req[u] \in Written
           /\ req[u].at = "working" => req[u] \in Working
           /\ req[u].at = "worked" => req[u] \in Worked
           /\ req[u].at \in {"passing", "marked"} => req[u] \in Passing
BY DEF EntryTypeOK, Request, Loaded, Noted, Written, Working, Worked, Passing

\* A user's new request leaves those of the others as they are.
LEMMA GoesType ==
    ASSUME EntryTypeOK, NEW u \in User, NEW r \in Request \cup {Idle},
           req' = [req EXCEPT ![u] = r]
    PROVE  req' \in [User -> Request \cup {Idle}]
BY DEF EntryTypeOK

\* Whom the entry is shared with are users.
LEMMA Members ==
    ASSUME EntryTypeOK
    PROVE  member \subseteq User
BY DEF EntryTypeOK, member, ToSet

\* A patch changes a row into a row; what it completes and does not sign was completed.
LEMMA AppliedRow ==
    ASSUME NEW u \in User, NEW r \in Row, NEW p \in Patch
    PROVE  /\ Applied(u, r, p) \in Row
           /\ Signs(u, r, p) \in BOOLEAN
           /\ Applied(u, r, p).final = "COMPLETED" /\ ~Signs(u, r, p)
                => r.final = "COMPLETED"
BY DEF Applied, Approves, Signs, Row, Patch, Status

\* Somebody new is put at the end of the chain.
LEMMA Appended ==
    ASSUME EntryTypeOK, NEW v \in User, v \notin member, Len(chain) # MaxChain,
           MaxChain \in Nat
    PROVE  /\ Append(chain, v) \in Seq(User)
           /\ IsInjective(Append(chain, v))
           /\ Len(Append(chain, v)) <= MaxChain
           /\ ToSet(Append(chain, v)) = member \cup {v}
PROOF
<1> DEFINE n == Len(chain)  more == Append(chain, v)
<1>1. chain \in Seq(User) /\ n \in Nat /\ n <= MaxChain /\ IsInjective(chain)
  BY DEF EntryTypeOK
<1>2. DOMAIN chain = 1..n  BY <1>1
<1>3. more \in Seq(User) /\ Len(more) = n + 1 /\ DOMAIN more = 1..(n + 1)  BY <1>1
<1>4. \A i \in 1..n : more[i] = chain[i]  BY <1>1
<1>5. more[n + 1] = v  BY <1>1
<1>6. \A i \in 1..n : chain[i] # v  BY <1>2 DEF member, ToSet
<1>7. IsInjective(more)
  <2> SUFFICES ASSUME NEW i \in 1..(n + 1), NEW j \in 1..(n + 1), more[i] = more[j]
               PROVE  i = j
    BY <1>3 DEF IsInjective
  <2>1. CASE i \in 1..n /\ j \in 1..n  BY <1>1, <1>2, <1>4, <2>1 DEF IsInjective
  <2>2. CASE i = n + 1 /\ j = n + 1  BY <2>2
  <2>3. CASE i \in 1..n /\ j = n + 1  BY <1>4, <1>5, <1>6, <2>3
  <2>4. CASE i = n + 1 /\ j \in 1..n  BY <1>4, <1>5, <1>6, <2>4
  <2> QED  BY <1>1, <2>1, <2>2, <2>3, <2>4
<1>8. ToSet(more) = member \cup {v}
  <2>1. ToSet(more) \subseteq member \cup {v}
    <3> SUFFICES ASSUME NEW i \in 1..(n + 1) PROVE more[i] \in member \cup {v}
      BY <1>3 DEF ToSet
    <3>1. CASE i \in 1..n  BY <1>2, <1>4, <3>1 DEF member, ToSet
    <3>2. CASE i = n + 1  BY <1>5, <3>2
    <3> QED  BY <1>1, <3>1, <3>2
  <2>2. member \subseteq ToSet(more)
    <3> SUFFICES ASSUME NEW i \in 1..n PROVE chain[i] \in ToSet(more)
      BY <1>2 DEF member, ToSet
    <3> QED  BY <1>1, <1>3, <1>4 DEF ToSet
  <2>3. v \in ToSet(more)  BY <1>1, <1>3, <1>5 DEF ToSet
  <2> QED  BY <2>1, <2>2, <2>3
<1> QED  BY <1>1, <1>3, <1>7, <1>8

LEMMA TypeStarts ==
    ASSUME ConstantsFit, NEW l \in {"none", "gone"}, EntryAt(l)
    PROVE  EntryTypeOK /\ Recorded /\ Alone
PROOF
<1>1. EntryTypeOK
  <2>1. row \in Row /\ life \in {"none", "gone"} /\ noted = None /\ edits = 0
        /\ signed = FALSE /\ done = {} /\ overlap = FALSE
    BY DEF EntryAt, ConstantsFit, Row, Status
  <2>2. chain \in Seq(User) /\ IsInjective(chain) /\ Len(chain) <= MaxChain
    BY DEF EntryAt, ConstantsFit, IsInjective
  <2>3. status \in [User -> Status] /\ req \in [User -> Request \cup {Idle}]
    BY DEF EntryAt, Status
  <2>4. told \in [approved : BOOLEAN, chain : BOOLEAN]
    BY DEF EntryAt
  <2>5. edits \in 0..MaxEdits  BY <2>1 DEF ConstantsFit
  <2> QED  BY <2>1, <2>2, <2>3, <2>4, <2>5 DEF EntryTypeOK
<1> QED  BY <1>1 DEF EntryAt, Recorded, Alone, AtRest

\* The first statement of a request.
LEMMA LoadType ==
    ASSUME EntryTypeOK, ConstantsFit, edits' \in 0..MaxEdits,
           NEW u, NEW p \in Patch, Load(u, p)
    PROVE  EntryTypeOK' /\ u \in User
PROOF
<1>1. u \in User  BY DEF Load, EntryTypeOK, ConstantsFit, Row
<1>2. [at |-> "loaded", copy |-> row, patch |-> p] \in Request
  BY DEF EntryTypeOK, Request
<1>3. req' \in [User -> Request \cup {Idle}]  BY <1>1, <1>2, GoesType DEF Load, Begin
<1> QED  BY <1>1, <1>3 DEF Load, Begin, EntryTypeOK

LEMMA ReportType ==
    ASSUME EntryTypeOK, edits' \in 0..MaxEdits,
           NEW u \in User, NEW s \in Status, Report(u, s)
    PROVE  EntryTypeOK'
PROOF
<1>1. [at |-> "working", status |-> s] \in Request  BY DEF Request
<1>2. req' \in [User -> Request \cup {Idle}]  BY <1>1, GoesType DEF Report, Begin
<1> QED  BY <1>2 DEF Report, Begin, EntryTypeOK

LEMMA PassOnType ==
    ASSUME EntryTypeOK, edits' \in 0..MaxEdits,
           NEW u \in User, NEW v \in User, PassOn(u, v)
    PROVE  EntryTypeOK'
PROOF
<1>1. [at |-> "passing", to |-> v] \in Request  BY DEF Request
<1>2. req' \in [User -> Request \cup {Idle}]  BY <1>1, GoesType DEF PassOn, Begin
<1> QED  BY <1>2 DEF PassOn, Begin, EntryTypeOK

\* The following ones.
LEMMA ProgressType ==
    ASSUME EntryTypeOK, ConstantsFit, NEW u \in User, Progress(u)
    PROVE  EntryTypeOK'
PROOF
<1> DEFINE q == req[u]
<1> USE DEF ConstantsFit
<1>1. CASE CheckAndNote(u)
  <2>1. q \in Loaded  BY <1>1, Holds DEF CheckAndNote
  <2>2. Applied(u, q.copy, q.patch) \in Row /\ Signs(u, q.copy, q.patch) \in BOOLEAN
    BY <2>1, AppliedRow DEF Loaded
  <2>3. [at |-> "noted", copy |-> Applied(u, q.copy, q.patch),
         signs |-> Signs(u, q.copy, q.patch)] \in Request
    BY <2>2 DEF Request
  <2>4. req' \in [User -> Request \cup {Idle}]
    BY <1>1, <2>3, GoesType DEF CheckAndNote, Goes, Ends
  <2>5. noted' \in BOOLEAN \cup {None}
    BY <1>1 DEF CheckAndNote, Here, EntryTypeOK, Row
  <2> QED  BY <1>1, <2>4, <2>5 DEF CheckAndNote, Goes, Ends, EntryTypeOK
<1>2. CASE Write(u)
  <2>1. q \in Noted  BY <1>2, Holds DEF Write
  <2>2. [at |-> "written", copy |-> q.copy, made |-> ~Here] \in Request
    BY <2>1 DEF Noted, Request, Here
  <2>3. req' \in [User -> Request \cup {Idle}]  BY <1>2, <2>2, GoesType DEF Write, Goes
  <2>4. row' \in Row  BY <1>2, <2>1 DEF Write, Noted
  <2>5. signed' \in BOOLEAN  BY <1>2, <2>1 DEF Write, Noted, EntryTypeOK
  <2>6. told' \in [approved : BOOLEAN, chain : BOOLEAN]
    BY <1>2, <2>1 DEF Write, Noted, EntryTypeOK, Row
  <2> QED  BY <1>2, <2>3, <2>4, <2>5, <2>6 DEF Write, Goes, EntryTypeOK
<1>3. CASE Tell(u)
  <2>1. q \in Written  BY <1>3, Holds DEF Tell
  <2>2. req' \in [User -> Request \cup {Idle}]  BY <1>3, GoesType DEF Tell, Ends, Goes
  <2>3. noted' \in BOOLEAN \cup {None} /\ told' \in [approved : BOOLEAN, chain : BOOLEAN]
    BY <1>3, <2>1 DEF Tell, Written, EntryTypeOK, Row
  <2> QED  BY <1>3, <2>2, <2>3 DEF Tell, Ends, Goes, EntryTypeOK
<1>4. CASE WriteReport(u)
  <2>1. q \in Working  BY <1>4, Holds DEF WriteReport
  <2>2. [at |-> "worked", news |-> q.status = "COMPLETED" /\ status[u] # "COMPLETED"] \in Request
    BY DEF Request
  <2>3. req' \in [User -> Request \cup {Idle}]
    BY <1>4, <2>2, GoesType DEF WriteReport, Ends, Goes
  <2>4. status' \in [User -> Status] /\ done' \subseteq User
        /\ told' \in [approved : BOOLEAN, chain : BOOLEAN]
    BY <1>4, <2>1 DEF WriteReport, Working, EntryTypeOK
  <2> QED  BY <1>4, <2>3, <2>4 DEF WriteReport, Ends, Goes, EntryTypeOK
<1>5. CASE TellCreator(u)
  <2>1. q \in Worked  BY <1>5, Holds DEF TellCreator
  <2>2. req' \in [User -> Request \cup {Idle}]  BY <1>5, GoesType DEF TellCreator, Ends, Goes
  <2>3. told' \in [approved : BOOLEAN, chain : BOOLEAN]
    BY <1>5, <2>1 DEF TellCreator, Worked, EntryTypeOK
  <2> QED  BY <1>5, <2>2, <2>3 DEF TellCreator, Ends, Goes, EntryTypeOK
<1>6. CASE MarkOwn(u)
  <2>1. q \in Passing  BY <1>6, Holds DEF MarkOwn
  <2>2. [q EXCEPT !.at = "marked"] \in Request  BY <2>1 DEF Passing, Request
  <2>3. req' \in [User -> Request \cup {Idle}]
    BY <1>6, <2>2, GoesType DEF MarkOwn, Ends, Goes
  <2>4. status' \in [User -> Status]  BY <1>6 DEF MarkOwn, EntryTypeOK, Status
  <2> QED  BY <1>6, <2>3, <2>4 DEF MarkOwn, Ends, Goes, EntryTypeOK
<1>7. CASE AddMember(u)
  <2>1. q \in Passing  BY <1>7, Holds DEF AddMember
  <2>2. req' \in [User -> Request \cup {Idle}]  BY <1>7, GoesType DEF AddMember, Ends, Goes
  <2>3. CASE ~Here \/ q.to \in member \/ Len(chain) = MaxChain
    BY <1>7, <2>2, <2>3 DEF AddMember, Ends, Goes, EntryTypeOK
  <2>4. CASE ~(~Here \/ q.to \in member \/ Len(chain) = MaxChain)
    <3>1. chain' = Append(chain, q.to) /\ status' = [status EXCEPT ![q.to] = "PENDING"]
      BY <1>7, <2>4 DEF AddMember
    <3>2. q.to \in User  BY <2>1 DEF Passing
    <3>3. chain' \in Seq(User) /\ IsInjective(chain') /\ Len(chain') <= MaxChain
      BY <2>4, <3>1, <3>2, Appended
    <3>4. status' \in [User -> Status]  BY <3>1 DEF EntryTypeOK, Status
    <3> QED  BY <1>7, <2>2, <3>3, <3>4 DEF AddMember, Ends, Goes, EntryTypeOK
  <2> QED  BY <2>3, <2>4
<1> QED  BY <1>1, <1>2, <1>3, <1>4, <1>5, <1>6, <1>7 DEF Progress

LEMMA TypeKept ==
    ASSUME EntryTypeOK, ConstantsFit, [EntryNext]_entryVars
    PROVE  EntryTypeOK'
PROOF
<1> USE DEF ConstantsFit
<1>1. CASE Create
  <2>1. chain' \in Seq(User) /\ IsInjective(chain') /\ Len(chain') <= MaxChain
    <3>1. CASE chain' = <<>>  BY <3>1 DEF IsInjective
    <3>2. CASE \E u \in User : chain' = <<u>>  BY <3>2 DEF IsInjective
    <3> QED  BY <1>1, <3>1, <3>2 DEF Create
  <2>2. row' \in Row  BY <1>1 DEF Create, Row
  <2> QED  BY <1>1, <2>1, <2>2 DEF Create, EntryTypeOK
<1>2. CASE Dutiful
  <2>1. edits' \in 0..MaxEdits  BY <1>2 DEF Dutiful, EntryTypeOK
  <2>2. CASE Approve
    <3>1. Ask(TRUE, Same) \in Patch  BY DEF Ask, Patch
    <3> QED  BY <2>1, <2>2, <3>1, LoadType DEF Approve
  <2>3. CASE SignOff
    <3>1. Ask(Same, "COMPLETED") \in Patch  BY DEF Ask, Patch, Status
    <3> QED  BY <2>1, <2>3, <3>1, LoadType DEF SignOff
  <2>4. ASSUME NEW u \in User, Finish(u) PROVE EntryTypeOK'
    BY <2>1, <2>4, ReportType DEF Finish, Status
  <2> QED  BY <1>2, <2>2, <2>3, <2>4 DEF Dutiful
<1>3. CASE Voluntary
  <2>1. edits' \in 0..MaxEdits  BY <1>3 DEF Voluntary, EntryTypeOK
  <2>2. CASE \E u \in User, p \in Patches : Load(u, p)
    BY <2>1, <2>2, LoadType
  <2>3. CASE \E u \in User, s \in Status : Report(u, s)
    BY <2>1, <2>3, ReportType
  <2>4. CASE \E u, v \in User : PassOn(u, v)
    BY <2>1, <2>4, PassOnType
  <2>5. CASE Delete
    <3>1. chain' \in Seq(User) /\ IsInjective(chain') /\ Len(chain') <= MaxChain
      BY <2>5 DEF Delete, IsInjective
    <3> QED  BY <2>1, <2>5, <3>1 DEF Delete, EntryTypeOK, Status
  <2> QED  BY <1>3, <2>2, <2>3, <2>4, <2>5 DEF Voluntary
<1>4. CASE \E u \in User : Progress(u)  BY <1>4, ProgressType
<1>5. CASE UNCHANGED entryVars  BY <1>5 DEF entryVars, EntryTypeOK
<1> QED  BY <1>1, <1>2, <1>3, <1>4, <1>5 DEF EntryNext

-----------------------------------------------------------------------------
(* A request that is alone *)

\* What a step does to the requests: one begins, one goes on, or it is no request.
Begun(u) ==
  \/ \E p \in Patch : Load(u, p)
  \/ \E s \in Status : Report(u, s)
  \/ \E v \in User : PassOn(u, v)

LEMMA StepKinds ==
    ASSUME EntryTypeOK, ConstantsFit, [EntryNext]_entryVars
    PROVE  \/ Create \/ Delete \/ UNCHANGED entryVars
           \/ \E u \in User : Begun(u) \/ Progress(u)
PROOF
<1> USE DEF ConstantsFit
<1>1. ASSUME NEW u, NEW p \in Patch, Load(u, p) PROVE u \in User /\ Begun(u)
  BY <1>1 DEF Load, Begun, EntryTypeOK, Row
<1>2. CASE Dutiful
  <2>1. CASE Approve
    <3>1. Ask(TRUE, Same) \in Patch  BY DEF Ask, Patch
    <3> QED  BY <2>1, <3>1, <1>1 DEF Approve
  <2>2. CASE SignOff
    <3>1. Ask(Same, "COMPLETED") \in Patch  BY DEF Ask, Patch, Status
    <3> QED  BY <2>2, <3>1, <1>1 DEF SignOff
  <2>3. ASSUME NEW u \in User, Finish(u) PROVE Begun(u)
    BY <2>3 DEF Finish, Begun, Status
  <2> QED  BY <1>2, <2>1, <2>2, <2>3 DEF Dutiful
<1>3. CASE Voluntary
  <2>1. CASE \E u \in User, p \in Patches : Load(u, p)  BY <2>1, <1>1
  <2>2. CASE \E u \in User, s \in Status : Report(u, s)  BY <2>2 DEF Begun
  <2>3. CASE \E u, v \in User : PassOn(u, v)  BY <2>3 DEF Begun
  <2> QED  BY <1>3, <2>1, <2>2, <2>3 DEF Voluntary
<1> QED  BY <1>2, <1>3 DEF EntryNext

\* A request that goes on was in progress, and is the only one that moves.
LEMMA GoesAlone ==
    ASSUME EntryTypeOK, NEW u \in User, Progress(u)
    PROVE  req[u] # Idle /\ UNCHANGED overlap
           /\ \A v \in User \ {u} : req'[v] = req[v]
PROOF
<1>1. ASSUME NEW r, Goes(u, r)
      PROVE  UNCHANGED overlap /\ \A v \in User \ {u} : req'[v] = req[v]
  BY <1>1 DEF Goes, EntryTypeOK
<1>2. Ends(u) => Goes(u, Idle)  BY DEF Ends
<1>3. CASE CheckAndNote(u)  BY <1>1, <1>2, <1>3 DEF CheckAndNote
<1>4. CASE Write(u)  BY <1>1, <1>4 DEF Write
<1>5. CASE Tell(u)  BY <1>1, <1>2, <1>5 DEF Tell
<1>6. CASE WriteReport(u)  BY <1>1, <1>2, <1>6 DEF WriteReport
<1>7. CASE TellCreator(u)  BY <1>1, <1>2, <1>7 DEF TellCreator
<1>8. CASE MarkOwn(u)  BY <1>1, <1>2, <1>8 DEF MarkOwn
<1>9. CASE AddMember(u)  BY <1>1, <1>2, <1>9 DEF AddMember
<1> QED  BY <1>3, <1>4, <1>5, <1>6, <1>7, <1>8, <1>9 DEF Progress

LEMMA RecordedKept ==
    ASSUME EntryTypeOK, ConstantsFit, Recorded, [EntryNext]_entryVars
    PROVE  Recorded'
PROOF
<1>1. CASE Create  BY <1>1 DEF Create, Recorded
<1>2. CASE Delete  BY <1>2 DEF Delete, Recorded
<1>3. CASE UNCHANGED entryVars  BY <1>3 DEF entryVars, Recorded, AtRest
<1>4. ASSUME NEW u \in User, Begun(u) PROVE Recorded'
  BY <1>4 DEF Begun, Load, Report, MayReport, PassOn, Here, Recorded
<1>5. ASSUME NEW u \in User, Progress(u) PROVE Recorded'
  <2>1. req[u] # Idle  BY <1>5, GoesAlone
  <2>2. life # "none" /\ life' # "none"
    BY <1>5, <2>1 DEF Recorded, AtRest, Progress, CheckAndNote, Write, Tell,
                      WriteReport, TellCreator, MarkOwn, AddMember
  <2>3. ASSUME NEW v \in User, status'[v] = "COMPLETED" PROVE v \in done'
    <3>1. CASE CheckAndNote(u) \/ Write(u) \/ Tell(u) \/ TellCreator(u)
      BY <2>3, <3>1 DEF Recorded, CheckAndNote, Write, Tell, TellCreator
    <3>2. CASE WriteReport(u)
      BY <2>3, <3>2 DEF Recorded, WriteReport, EntryTypeOK
    <3>3. CASE MarkOwn(u)
      BY <2>3, <3>3 DEF Recorded, MarkOwn, EntryTypeOK
    <3>4. CASE AddMember(u)
      BY <2>3, <3>4 DEF Recorded, AddMember, EntryTypeOK
    <3> QED  BY <1>5, <3>1, <3>2, <3>3, <3>4 DEF Progress
  <2> QED  BY <2>2, <2>3 DEF Recorded
<1> QED  BY <1>1, <1>2, <1>3, <1>4, <1>5, StepKinds

\* The first statement of a request: all others are idle.
LEMMA AloneBegun ==
    ASSUME EntryTypeOK, Alone, NEW u \in User, Begun(u)
    PROVE  Alone'
PROOF
<1> SUFFICES ASSUME ~overlap' PROVE Alone'  BY DEF Alone
<1>1. UNCHANGED <<life, row, chain, status>> /\ Here
  BY DEF Begun, Load, Report, MayReport, PassOn
<1>2. /\ \A v \in User \ {u} : req'[v] = Idle
      /\ req' = [req EXCEPT ![u] = req'[u]]
  BY DEF Begun, Load, Report, PassOn, Begin, EntryTypeOK
<1>3. Fresh(u)'
  <2>1. ASSUME NEW p \in Patch, Load(u, p) PROVE Fresh(u)'
    BY <1>1, <2>1 DEF Load, Begin, Fresh, EntryTypeOK
  <2>2. ASSUME NEW s \in Status, Report(u, s) PROVE Fresh(u)'
    BY <1>1, <2>2 DEF Report, MayReport, Begin, Fresh, EntryTypeOK, member
  <2>3. ASSUME NEW v \in User, PassOn(u, v) PROVE Fresh(u)'
    BY <1>1, <2>3 DEF PassOn, Begin, Fresh, EntryTypeOK, member, completed
  <2> QED  BY <2>1, <2>2, <2>3 DEF Begun
<1> QED  BY <1>1, <1>2, <1>3 DEF Alone, Here

\* The following ones: what a request has read nobody else has changed.
LEMMA AloneProgress ==
    ASSUME EntryTypeOK, ConstantsFit, Alone, NEW u \in User, Progress(u)
    PROVE  Alone'
PROOF
<1> DEFINE q == req[u]
<1> SUFFICES ASSUME ~overlap' PROVE Alone'  BY DEF Alone
<1>1. ~overlap /\ q # Idle  BY GoesAlone
<1>2. Here /\ Fresh(u) /\ \A v \in User \ {u} : req[v] = Idle
  BY <1>1 DEF Alone
<1>3. \A v \in User \ {u} : req'[v] = Idle
  BY <1>2, GoesAlone
<1>4. Here'
  BY <1>2 DEF Progress, CheckAndNote, Write, Tell, WriteReport, TellCreator, MarkOwn,
         AddMember, Here
<1>5. req'[u] = Idle \/ Fresh(u)'
  <2>1. CASE CheckAndNote(u)
    <3>1. CASE Signs(u, q.copy, q.patch) /\ completed # member
      BY <2>1, <3>1 DEF CheckAndNote, Ends, Goes, EntryTypeOK
    <3>2. CASE ~(Signs(u, q.copy, q.patch) /\ completed # member)
      <4> DEFINE r == [at    |-> "noted", copy |-> Applied(u, q.copy, q.patch),
                       signs |-> Signs(u, q.copy, q.patch)]
      <4>1. q \in Loaded /\ q.at = "loaded"  BY <2>1, Holds DEF CheckAndNote
      <4>2. req'[u] = r  BY <2>1, <3>2 DEF CheckAndNote, Goes, EntryTypeOK
      <4>3. UNCHANGED <<row, chain, status>>  BY <2>1 DEF CheckAndNote
      <4>4. completed' = completed /\ member' = member
        BY <4>3 DEF completed, member
      <4>5. q.copy = row  BY <1>2, <4>1 DEF Fresh
      <4>6. r.copy.final = "COMPLETED" /\ ~r.signs => row.final = "COMPLETED"
        BY <4>1, <4>5, AppliedRow DEF Loaded
      <4>7. r.at = "noted" /\ (r.signs => completed = member)  BY <3>2
      <4>8. r.signs \in BOOLEAN  BY <4>1, AppliedRow DEF Loaded
      <4> HIDE DEF r
      <4> QED  BY <4>2, <4>3, <4>4, <4>6, <4>7, <4>8 DEF Fresh
    <3> QED  BY <3>1, <3>2
  <2>2. CASE Write(u)  BY <2>2 DEF Write, Goes, Fresh, EntryTypeOK
  <2>3. CASE Tell(u)  BY <2>3 DEF Tell, Ends, Goes, EntryTypeOK
  <2>4. CASE WriteReport(u)
    BY <2>4 DEF WriteReport, Ends, Goes, Fresh, EntryTypeOK
  <2>5. CASE TellCreator(u)  BY <2>5 DEF TellCreator, Ends, Goes, EntryTypeOK
  <2>6. CASE MarkOwn(u)
    <3>1. CASE u \notin member  BY <2>6, <3>1 DEF MarkOwn, Ends, Goes, EntryTypeOK
    <3>2. CASE u \in member
      <4>1. q \in Passing /\ q.at = "passing"  BY <2>6, Holds DEF MarkOwn
      <4>2. req'[u].at = "marked"
        BY <2>6, <3>2, <4>1 DEF MarkOwn, Goes, EntryTypeOK, Passing
      <4>3. completed' = {} /\ row'.final # "COMPLETED"
        BY <1>2, <2>6, <3>2, <4>1, Members
           DEF MarkOwn, Fresh, completed, member, EntryTypeOK
      <4> QED  BY <4>2, <4>3 DEF Fresh
    <3> QED  BY <3>1, <3>2
  <2>7. CASE AddMember(u)  BY <2>7 DEF AddMember, Ends, Goes, EntryTypeOK
  <2> QED  BY <2>1, <2>2, <2>3, <2>4, <2>5, <2>6, <2>7 DEF Progress
<1> QED  BY <1>3, <1>4, <1>5 DEF Alone

LEMMA AloneKept ==
    ASSUME EntryTypeOK, ConstantsFit, Recorded, Alone, [EntryNext]_entryVars
    PROVE  Alone'
PROOF
<1>1. CASE Create  BY <1>1 DEF Create, Recorded, AtRest, Alone
<1>2. CASE Delete  BY <1>2 DEF Delete, AtRest, Alone
<1>3. CASE UNCHANGED entryVars
  BY <1>3 DEF entryVars, Alone, Here, Fresh, completed, member
<1> QED  BY <1>1, <1>2, <1>3, AloneBegun, AloneProgress, StepKinds

-----------------------------------------------------------------------------
(* The contract *)

\* The row's columns and the share rows alone show where the contract is.
LEMMA SameView ==
    ASSUME UNCHANGED <<life, row, chain, status, signed, done>>
    PROVE  UNCHANGED Contract!vars
BY DEF Contract!vars, Stage, Here, completed, member

LEMMA AliveHere ==
    ASSUME EntryTypeOK, Here
    PROVE  Stage \in Contract!Alive
BY DEF EntryTypeOK, Here, Stage, Contract!Alive

\* A step of an entry whose requests do not overlap is one of the contract.
LEMMA StepOfContract ==
    ASSUME EntryTypeOK, ConstantsFit, Recorded, Alone, [EntryNext]_entryVars, ~overlap'
    PROVE  Contract!Next \/ UNCHANGED Contract!vars
PROOF
<1>1. CASE Create
  <2>1. member' \in {{}} \cup {{u} : u \in User}
    <3>1. CASE chain' = <<>>  BY <3>1 DEF member, ToSet
    <3>2. ASSUME NEW u \in User, chain' = <<u>> PROVE member' = {u}
      BY <3>2 DEF member, ToSet
    <3> QED  BY <1>1, <3>1, <3>2 DEF Create
  <2>2. completed = {} /\ completed' = {}
    BY <1>1, <2>1, Members DEF Create, Recorded, completed
  <2>3. Stage = "none" /\ Stage' \in {"open", "filed"}
    BY <1>1 DEF Create, Recorded, Stage, Here
  <2> QED  BY <1>1, <2>1, <2>2, <2>3 DEF Create, Contract!Next, Contract!Create
<1>2. CASE Delete
  <2>1. member' = {} /\ completed' = {}  BY <1>2 DEF Delete, member, completed, ToSet
  <2>2. Stage' = "gone"  BY <1>2 DEF Delete, Stage, Here
  <2> QED  BY <1>2, <2>1, <2>2, AliveHere DEF Delete, Contract!Next, Contract!Delete
<1>3. CASE UNCHANGED entryVars  BY <1>3, SameView DEF entryVars
<1>4. ASSUME NEW u \in User, Begun(u) PROVE UNCHANGED Contract!vars
  BY <1>4, SameView DEF Begun, Load, Report, PassOn
<1>5. ASSUME NEW u \in User, Progress(u)
      PROVE  Contract!Next \/ UNCHANGED Contract!vars
  <2> DEFINE q == req[u]
  <2>1. ~overlap /\ q # Idle  BY <1>5, GoesAlone
  <2>2. Here /\ Fresh(u) /\ Stage \in Contract!Alive  BY <2>1, AliveHere DEF Alone
  <2>3. CASE CheckAndNote(u) \/ Tell(u) \/ TellCreator(u)
    BY <2>3, SameView DEF CheckAndNote, Tell, TellCreator
  <2>4. CASE Write(u)
    <3>1. completed' = completed /\ member' = member /\ done' = done
      BY <2>4 DEF Write, completed, member
    <3>2. life' = "here" /\ row' = q.copy /\ q.at = "noted"
      BY <2>4 DEF Write
    <3>3. signed' = (q.copy.final = "COMPLETED" /\ (q.signs \/ signed))
      BY <2>4 DEF Write
    <3>4. q.signs \in BOOLEAN /\ signed \in BOOLEAN
      BY <2>1, <3>2, Holds DEF Noted, EntryTypeOK
    <3>5. CASE q.copy.final # "COMPLETED"
      <4>1. Stage' = "open"  BY <3>2, <3>5 DEF Stage, Here
      <4> QED  BY <2>2, <3>1, <4>1 DEF Contract!Next, Contract!Reopen
    <3>6. CASE q.copy.final = "COMPLETED" /\ q.signs
      <4>1. Stage' = "signed"  BY <3>2, <3>3, <3>6 DEF Stage, Here
      <4>2. completed = member  BY <2>2, <3>2, <3>6 DEF Fresh
      <4> QED  BY <2>2, <3>1, <4>1, <4>2 DEF Contract!Next, Contract!Sign
    <3>7. CASE q.copy.final = "COMPLETED" /\ ~q.signs
      <4>1. row.final = "COMPLETED"  BY <2>2, <3>2, <3>7 DEF Fresh
      <4>2. signed' = signed  BY <3>3, <3>4, <3>7
      <4>3. Stage' = Stage  BY <2>2, <3>2, <3>7, <4>1, <4>2 DEF Stage, Here
      <4> QED  BY <3>1, <4>3 DEF Contract!vars
    <3> QED  BY <3>5, <3>6, <3>7
  <2>5. CASE WriteReport(u)
    <3>1. q \in Working /\ q.at = "working"  BY <2>5, Holds DEF WriteReport
    <3>2. u \in member  BY <2>2, <3>1 DEF Fresh
    <3>3. /\ status' = [status EXCEPT ![u] = q.status]
          /\ done' = IF q.status = "COMPLETED" THEN done \cup {u} ELSE done
      BY <2>5, <3>2 DEF WriteReport
    <3>4. UNCHANGED <<life, row, chain, signed>>  BY <2>5 DEF WriteReport
    <3>5. Stage' = Stage /\ member' = member  BY <3>4 DEF Stage, Here, member
    <3>6. completed' = IF q.status = "COMPLETED" THEN completed \cup {u}
                                                ELSE completed \ {u}
      <4>1. completed' = {v \in member : status'[v] = "COMPLETED"}
        BY <3>5 DEF completed
      <4>2. u \in User /\ member \subseteq User /\ status \in [User -> Status]
        BY Members DEF EntryTypeOK
      <4>3. \A v \in member : status'[v] = IF v = u THEN q.status ELSE status[v]
        BY <3>3, <4>2
      <4> QED  BY <3>2, <4>1, <4>3 DEF completed
    <3>7. completed \subseteq done
      BY Members DEF Recorded, completed
    <3>8. done' = done \cup completed'  BY <3>3, <3>6, <3>7
    <3> QED  BY <2>2, <3>2, <3>5, <3>6, <3>8 DEF Contract!Next, Contract!Work
  <2>6. CASE MarkOwn(u)
    <3>1. q.at = "passing"  BY <2>6 DEF MarkOwn
    <3>2. completed = {}  BY <2>2, <3>1 DEF Fresh
    <3>3. UNCHANGED <<life, row, chain, signed, done>>  BY <2>6 DEF MarkOwn
    <3>4. completed' = {}
      BY <2>6, <3>2, Members DEF MarkOwn, completed, member, EntryTypeOK
    <3> QED  BY <3>2, <3>3, <3>4 DEF Contract!vars, Stage, Here, member
  <2>7. CASE AddMember(u)
    <3>1. q \in Passing /\ q.at = "marked"  BY <2>7, Holds DEF AddMember
    <3>2. completed = {} /\ row.final # "COMPLETED"  BY <2>2, <3>1 DEF Fresh
    <3>3. UNCHANGED <<life, row, signed, done>>  BY <2>7 DEF AddMember
    <3>4. CASE ~Here \/ q.to \in member \/ Len(chain) = MaxChain
      BY <2>7, <3>3, <3>4, SameView DEF AddMember
    <3>5. CASE ~(~Here \/ q.to \in member \/ Len(chain) = MaxChain)
      <4>1. chain' = Append(chain, q.to) /\ status' = [status EXCEPT ![q.to] = "PENDING"]
        BY <2>7, <3>5 DEF AddMember
      <4>2. q.to \in User  BY <3>1 DEF Passing
      <4>3. member' = member \cup {q.to}
        BY <3>5, <4>1, <4>2, Appended DEF ConstantsFit, member
      <4>4. completed' = {v \in member \cup {q.to} : status'[v] = "COMPLETED"}
        BY <4>3 DEF completed
      <4>5. \A v \in member : status[v] # "COMPLETED"  BY <3>2 DEF completed
      <4>6. member \subseteq User  BY Members
      <4>7. completed' = {}  BY <4>1, <4>2, <4>4, <4>5, <4>6 DEF EntryTypeOK
      <4>8. Stage = "open" /\ Stage' = Stage  BY <2>2, <3>2, <3>3 DEF Stage, Here
      <4> QED  BY <3>2, <3>3, <4>2, <4>3, <4>7, <4>8 DEF Contract!Next, Contract!Join
    <3> QED  BY <3>4, <3>5
  <2> QED  BY <1>5, <2>3, <2>4, <2>5, <2>6, <2>7 DEF Progress
<1> QED  BY <1>1, <1>2, <1>3, <1>4, <1>5, StepKinds

-----------------------------------------------------------------------------
(* The news *)

\* Idle is no request.
NewsFit == ConstantsFit /\ Idle \notin Request

\* u is about to tell the creator of his part; of the approval.
Reporting(u) == req[u] # Idle /\ req[u].at = "worked" /\ req[u].news
Telling(u)   == req[u] # Idle /\ req[u].at = "written" /\ ~req[u].made
                  /\ req[u].copy.approved /\ noted # TRUE

\* A last share that is completed has been told, or the member is about to.
ChainNews == LastCompleted /\ ~told.chain => Reporting(Last(chain))

\* Without overlap what the receiver has noted is still so, and an approval has been told
\* or is about to be.
ApprovalNews ==
  ~overlap =>
    /\ \A u \in User : req[u] # Idle /\ req[u].at = "noted" => noted = row.approved
    /\ told.approved \/ \E u \in User : Telling(u)

LEMMA LastMember ==
    ASSUME EntryTypeOK, chain # <<>>
    PROVE  Last(chain) \in User /\ Last(chain) \in member
PROOF
<1>1. Len(chain) \in 1..Len(chain) /\ DOMAIN chain = 1..Len(chain)
  BY DEF EntryTypeOK
<1> QED  BY <1>1 DEF EntryTypeOK, Last, member, ToSet

\* The request of u moves, chain, shares and what was told of it stay.
LEMMA ChainNewsStays ==
    ASSUME EntryTypeOK, ChainNews, NEW u \in User, ~Reporting(u),
           UNCHANGED <<chain, status, told>> \/ UNCHANGED <<chain, status, told.chain>>,
           \A v \in User \ {u} : req'[v] = req[v]
    PROVE  ChainNews'
PROOF
<1>1. chain' = chain /\ status' = status /\ told'.chain = told.chain  OBVIOUS
<1>2. LastCompleted' <=> LastCompleted  BY <1>1 DEF LastCompleted
<1> SUFFICES ASSUME LastCompleted, ~told.chain PROVE Reporting(Last(chain))'
  BY <1>1, <1>2 DEF ChainNews
<1>3. Reporting(Last(chain)) /\ Last(chain) \in User \ {u}
  BY LastMember DEF ChainNews, LastCompleted
<1> QED  BY <1>1, <1>3 DEF Reporting

LEMMA ChainNewsKept ==
    ASSUME EntryTypeOK, NewsFit, Recorded, ChainNews, [EntryNext]_entryVars
    PROVE  ChainNews'
PROOF
<1> USE DEF NewsFit
<1>1. CASE Create
  <2>1. status' = status /\ \A u \in User : status[u] = "PENDING"
    BY <1>1 DEF Create, Recorded
  <2>2. ~LastCompleted'
    <3>1. CASE chain' = <<>>  BY <3>1 DEF LastCompleted
    <3>2. ASSUME NEW u \in User, chain' = <<u>> PROVE ~LastCompleted'
      BY <2>1, <3>2 DEF LastCompleted, Last
    <3> QED  BY <1>1, <3>1, <3>2 DEF Create
  <2> QED  BY <2>2 DEF ChainNews
<1>2. CASE Delete  BY <1>2 DEF Delete, ChainNews, LastCompleted
<1>3. CASE UNCHANGED entryVars
  BY <1>3 DEF entryVars, ChainNews, LastCompleted, Reporting
<1>4. ASSUME NEW u \in User, Begun(u) PROVE ChainNews'
  <2>1. req[u] = Idle /\ UNCHANGED <<chain, status, told>>
        /\ \A v \in User \ {u} : req'[v] = req[v]
    BY <1>4 DEF Begun, Load, Report, PassOn, Begin, EntryTypeOK
  <2> QED  BY <2>1, ChainNewsStays DEF Reporting
<1>5. ASSUME NEW u \in User, Progress(u) PROVE ChainNews'
  <2> DEFINE q == req[u]
  <2>1. q # Idle /\ \A v \in User \ {u} : req'[v] = req[v]  BY <1>5, GoesAlone
  <2>2. CASE CheckAndNote(u)
    <3>1. ~Reporting(u) /\ UNCHANGED <<chain, status, told>>
      BY <2>2 DEF CheckAndNote, Reporting
    <3> QED  BY <2>1, <3>1, ChainNewsStays
  <2>3. CASE Write(u)
    <3>1. ~Reporting(u) /\ chain' = chain /\ status' = status /\ told'.chain = told.chain
      BY <2>3 DEF Write, Reporting, EntryTypeOK
    <3> QED  BY <2>1, <3>1, ChainNewsStays
  <2>4. CASE Tell(u)
    <3>1. ~Reporting(u) /\ chain' = chain /\ status' = status /\ told'.chain = told.chain
      BY <2>4 DEF Tell, Reporting, EntryTypeOK
    <3> QED  BY <2>1, <3>1, ChainNewsStays
  <2>5. CASE WriteReport(u)
    <3> DEFINE news == q.status = "COMPLETED" /\ status[u] # "COMPLETED"
    <3>1. q \in Working /\ ~Reporting(u)
      BY <2>5, Holds DEF WriteReport, Reporting
    <3>2. CASE u \notin member
      <4>1. UNCHANGED <<chain, status, told>>  BY <2>5, <3>2 DEF WriteReport
      <4> QED  BY <2>1, <3>1, <4>1, ChainNewsStays
    <3>3. CASE u \in member
      <4>1. /\ status' = [status EXCEPT ![u] = q.status] /\ chain' = chain
            /\ told'.chain = (told.chain /\ ~(news /\ LastIs(u)))
            /\ req' = [req EXCEPT ![u] = [at |-> "worked", news |-> news]]
        BY <2>5, <3>3 DEF WriteReport, Goes, EntryTypeOK
      <4> SUFFICES ASSUME LastCompleted', ~told'.chain
                   PROVE  Reporting(Last(chain))'
        BY DEF ChainNews
      <4>2. chain # <<>> /\ status'[Last(chain)] = "COMPLETED"
        BY <4>1 DEF LastCompleted
      <4>3. Last(chain) \in User  BY <4>2, LastMember
      <4>4. CASE Last(chain) = u
        <5>1. q.status = "COMPLETED"  BY <4>1, <4>2, <4>4 DEF EntryTypeOK
        <5>2. status[u] = "COMPLETED" /\ ~told.chain => Reporting(u)
          BY <4>2, <4>4 DEF ChainNews, LastCompleted
        <5>3. news  BY <3>1, <4>1, <4>2, <4>4, <5>1, <5>2 DEF LastIs
        <5>4. [at |-> "worked", news |-> news] \in Request  BY DEF Request
        <5>5. req'[u] = [at |-> "worked", news |-> news]  BY <4>1 DEF EntryTypeOK
        <5>6. req'[u] # Idle  BY <5>4, <5>5
        <5> HIDE DEF news
        <5> QED  BY <4>1, <4>4, <5>3, <5>5, <5>6 DEF Reporting
      <4>5. CASE Last(chain) # u
        <5>1. status[Last(chain)] = "COMPLETED"  BY <4>1, <4>2, <4>3, <4>5 DEF EntryTypeOK
        <5>2. ~told.chain  BY <4>1, <4>5 DEF LastIs
        <5>3. Reporting(Last(chain))  BY <4>2, <5>1, <5>2 DEF ChainNews, LastCompleted
        <5> QED  BY <2>1, <4>1, <4>3, <4>5, <5>3 DEF Reporting
      <4> QED  BY <4>4, <4>5
    <3> QED  BY <3>2, <3>3
  <2>6. CASE TellCreator(u)
    <3>1. q \in Worked /\ UNCHANGED <<chain, status>>
          /\ told'.chain = (told.chain \/ (q.news /\ LastIs(u)))
      BY <2>6, Holds DEF TellCreator, EntryTypeOK
    <3> SUFFICES ASSUME LastCompleted, ~told'.chain PROVE Reporting(Last(chain))'
      BY <3>1 DEF ChainNews, LastCompleted
    <3>2. ~told.chain /\ Reporting(Last(chain))  BY <3>1 DEF ChainNews
    <3>3. chain # <<>> /\ Last(chain) \in User  BY LastMember DEF LastCompleted
    <3>4. Last(chain) # u  BY <3>1, <3>2, <3>3 DEF Reporting, LastIs
    <3> QED  BY <2>1, <3>1, <3>2, <3>3, <3>4 DEF Reporting
  <2>7. CASE MarkOwn(u)
    <3>1. ~Reporting(u) /\ UNCHANGED <<chain, told>>  BY <2>7 DEF MarkOwn, Reporting
    <3>2. CASE u \notin member
      <4>1. status' = status  BY <2>7, <3>2 DEF MarkOwn
      <4> QED  BY <2>1, <3>1, <4>1, ChainNewsStays
    <3>3. CASE u \in member
      <4>1. status' = [status EXCEPT ![u] = "INPROCESS"]  BY <2>7, <3>3 DEF MarkOwn
      <4> SUFFICES ASSUME LastCompleted', ~told.chain PROVE Reporting(Last(chain))'
        BY <3>1 DEF ChainNews
      <4>2. chain # <<>> /\ status'[Last(chain)] = "COMPLETED"
        BY <3>1 DEF LastCompleted
      <4>3. Last(chain) \in User  BY <4>2, LastMember
      <4>4. Last(chain) # u /\ status[Last(chain)] = "COMPLETED"
        BY <4>1, <4>2, <4>3 DEF EntryTypeOK
      <4>5. Reporting(Last(chain))  BY <4>2, <4>4 DEF ChainNews, LastCompleted
      <4> QED  BY <2>1, <3>1, <4>3, <4>4, <4>5 DEF Reporting
    <3> QED  BY <3>2, <3>3
  <2>8. CASE AddMember(u)
    <3>1. q \in Passing /\ ~Reporting(u) /\ told' = told
      BY <2>8, Holds DEF AddMember, Reporting
    <3>2. CASE ~Here \/ q.to \in member \/ Len(chain) = MaxChain
      <4>1. UNCHANGED <<chain, status>>  BY <2>8, <3>2 DEF AddMember
      <4> QED  BY <2>1, <3>1, <4>1, ChainNewsStays
    <3>3. CASE ~(~Here \/ q.to \in member \/ Len(chain) = MaxChain)
      <4>1. chain' = Append(chain, q.to) /\ status' = [status EXCEPT ![q.to] = "PENDING"]
        BY <2>8, <3>3 DEF AddMember
      <4>2. q.to \in User  BY <3>1 DEF Passing
      <4>3. Last(chain') = q.to  BY <4>1, <4>2 DEF EntryTypeOK, Last
      <4>4. status'[q.to] = "PENDING"  BY <4>1, <4>2 DEF EntryTypeOK
      <4> QED  BY <4>3, <4>4 DEF ChainNews, LastCompleted
    <3> QED  BY <3>2, <3>3
  <2> QED  BY <1>5, <2>2, <2>3, <2>4, <2>5, <2>6, <2>7, <2>8 DEF Progress
<1> QED  BY <1>1, <1>2, <1>3, <1>4, <1>5, StepKinds

LEMMA ApprovalNewsKept ==
    ASSUME EntryTypeOK, NewsFit, Recorded, Alone, ApprovalNews, [EntryNext]_entryVars
    PROVE  ApprovalNews'
PROOF
<1> USE DEF NewsFit
<1> SUFFICES ASSUME ~overlap' PROVE ApprovalNews'  BY DEF ApprovalNews
<1>0. ~overlap
  <2>1. ASSUME NEW u \in User, Begun(u) \/ Progress(u) PROVE ~overlap
    BY <2>1, GoesAlone DEF Begun, Load, Report, PassOn, Begin
  <2> QED  BY <2>1, StepKinds DEF Create, Delete, entryVars
<1>1. ASSUME AtRest, UNCHANGED <<req, told>> PROVE ApprovalNews'
  BY <1>0, <1>1 DEF ApprovalNews, AtRest, Telling
<1>2. CASE Create  BY <1>1, <1>2 DEF Create, Recorded
<1>3. CASE Delete  BY <1>1, <1>3 DEF Delete
<1>4. CASE UNCHANGED entryVars  BY <1>0, <1>4 DEF entryVars, ApprovalNews, Telling
<1>5. ASSUME NEW u \in User, Begun(u) PROVE ApprovalNews'
  <2>a. ASSUME NEW r, r.at # "noted", Begin(u, r)
        PROVE  AtRest /\ req'[u].at # "noted" /\ \A v \in User \ {u} : req'[v] = req[v]
    BY <2>a DEF Begin, EntryTypeOK, AtRest
  <2>b. told' = told  BY <1>5 DEF Begun, Load, Report, PassOn
  <2>1. AtRest /\ told' = told /\ req'[u].at # "noted"
        /\ \A v \in User \ {u} : req'[v] = req[v]
    BY <1>5, <2>a, <2>b DEF Begun, Load, Report, PassOn
  <2>2. told.approved  BY <1>0, <2>1 DEF ApprovalNews, Telling, AtRest
  <2> QED  BY <2>1, <2>2 DEF ApprovalNews, AtRest
<1>6. ASSUME NEW u \in User, Progress(u) PROVE ApprovalNews'
  <2> DEFINE q == req[u]
  <2>1. q # Idle /\ \A v \in User \ {u} : req'[v] = req[v]  BY <1>6, GoesAlone
  <2>2. Here /\ \A v \in User \ {u} : req[v] = Idle /\ req'[v] = Idle
    BY <1>0, <2>1 DEF Alone
  <2>3. \A v \in User : Telling(v) => v = u  BY <2>2 DEF Telling
  <2>4. ASSUME q.at # "written", q.at # "noted", told'.approved = told.approved,
               req'[u] = Idle \/ req'[u].at # "noted"
        PROVE  ApprovalNews'
    <3>1. told.approved  BY <1>0, <2>3, <2>4 DEF ApprovalNews, Telling
    <3> QED  BY <2>2, <2>4, <3>1 DEF ApprovalNews
  <2>5. CASE CheckAndNote(u)
    <3>1. q.at = "loaded" /\ told' = told /\ UNCHANGED row  BY <2>5 DEF CheckAndNote
    <3>2. told.approved  BY <1>0, <2>3, <3>1 DEF ApprovalNews, Telling
    <3>3. req'[u] = Idle \/ noted' = row'.approved
      BY <2>2, <2>5, <3>1 DEF CheckAndNote, Ends, Goes, EntryTypeOK, Row
    <3> QED  BY <2>2, <3>1, <3>2, <3>3 DEF ApprovalNews
  <2>6. CASE Write(u)
    <3>1. q \in Noted /\ q.at = "noted"  BY <2>6, Holds DEF Write
    <3>2. told.approved /\ noted = row.approved
      BY <1>0, <2>1, <2>3, <3>1 DEF ApprovalNews, Telling
    <3> DEFINE r == [at |-> "written", copy |-> q.copy, made |-> FALSE]
    <3>3. req'[u] = r /\ noted' = noted
          /\ told'.approved = (q.copy.approved => row.approved)
      BY <2>2, <2>6, <3>2 DEF Write, Goes, EntryTypeOK
    <3>4. r \in Request /\ r.at = "written" /\ ~r.made /\ r.copy = q.copy
      BY <3>1 DEF Noted, Request
    <3> HIDE DEF r
    <3>5. ASSUME ~told'.approved PROVE Telling(u)'
      <4>1. q.copy.approved /\ ~row.approved  BY <3>3, <3>5
      <4>2. noted' # TRUE  BY <3>2, <3>3, <4>1
      <4>3. req'[u] # Idle /\ req'[u].at = "written" /\ ~req'[u].made
            /\ req'[u].copy = q.copy
        BY <3>3, <3>4
      <4> QED  BY <4>1, <4>2, <4>3 DEF Telling
    <3> QED  BY <2>2, <3>3, <3>4, <3>5 DEF ApprovalNews
  <2>7. CASE Tell(u)
    <3>1. q \in Written /\ q.at = "written" /\ req'[u] = Idle
      BY <2>7, Holds DEF Tell, Ends, Goes, EntryTypeOK
    <3>2. told.approved \/ Telling(u)  BY <1>0, <2>3 DEF ApprovalNews
    <3>3. told'.approved
      BY <2>7, <3>1, <3>2 DEF Tell, Telling, Written, Row, EntryTypeOK
    <3> QED  BY <2>2, <3>1, <3>3 DEF ApprovalNews
  <2>8. CASE WriteReport(u)
    BY <2>4, <2>8 DEF WriteReport, Ends, Goes, EntryTypeOK
  <2>9. CASE TellCreator(u)
    BY <2>4, <2>9 DEF TellCreator, Ends, Goes, EntryTypeOK
  <2>10. CASE MarkOwn(u)
    <3>1. q \in Passing /\ q.at = "passing"  BY <2>10, Holds DEF MarkOwn
    <3>2. req'[u] = Idle \/ req'[u].at = "marked"
      BY <2>10, <3>1 DEF MarkOwn, Ends, Goes, EntryTypeOK, Passing
    <3> QED  BY <2>4, <2>10, <3>1, <3>2 DEF MarkOwn
  <2>11. CASE AddMember(u)
    BY <2>4, <2>11 DEF AddMember, Ends, Goes, EntryTypeOK
  <2> QED  BY <1>6, <2>5, <2>6, <2>7, <2>8, <2>9, <2>10, <2>11 DEF Progress
<1> QED  BY <1>2, <1>3, <1>4, <1>5, <1>6, StepKinds

-----------------------------------------------------------------------------
(* Theorems *)

EntryInv == EntryTypeOK /\ Recorded /\ Alone

LEMMA EntryInvHolds ==
    ASSUME ConstantsFit
    PROVE  EntrySpec => []EntryInv
PROOF
<1>1. EntryInit => EntryInv  BY TypeStarts DEF EntryInv, EntryInit
<1>2. EntryInv /\ [EntryNext]_entryVars => EntryInv'
  BY TypeKept, RecordedKept, AloneKept DEF EntryInv
<1> QED  BY <1>1, <1>2, PTL DEF EntrySpec

\* However the requests of creator, co-author and members cross, the entry and
\* its share rows stay of their types, and no user is in the chain twice.
THEOREM EntryTypes ==
    ASSUME ConstantsFit
    PROVE  EntrySpec => []EntryTypeOK
PROOF
<1>1. EntryInv => EntryTypeOK  BY DEF EntryInv
<1> QED  BY <1>1, EntryInvHolds, PTL

\* As long as requests have not overlapped, each statement of the handlers of
\* QuaterlyReports is a step of the contract, for chains of any length.
THEOREM SerialKeepsEntryContract ==
    ASSUME ConstantsFit
    PROVE  EntrySpec => KeepsEntryContract
PROOF
<1>1. EntryInv /\ [EntryNext]_entryVars
        => [~overlap' => Contract!Next \/ UNCHANGED Contract!vars]_entryVars
  BY StepOfContract DEF EntryInv
<1> QED  BY <1>1, EntryInvHolds, PTL DEF EntrySpec, KeepsEntryContract

\* What the contract promises of a signed entry, step by step.
SignedForAll == ~overlap => (Stage = "signed" => member \subseteq done)

LEMMA SignedKept ==
    ASSUME EntryInv, ConstantsFit, SignedForAll, [EntryNext]_entryVars
    PROVE  SignedForAll'
PROOF
<1> SUFFICES ASSUME ~overlap' PROVE (Stage = "signed" => member \subseteq done)'
  BY DEF SignedForAll
<1>1. Contract!Next \/ UNCHANGED Contract!vars  BY StepOfContract DEF EntryInv
<1>2. ~overlap
  <2>1. ASSUME NEW u \in User, Begun(u) \/ Progress(u) PROVE ~overlap
    BY <2>1, GoesAlone DEF EntryInv, Begun, Load, Report, PassOn, Begin
  <2> QED  BY <2>1, StepKinds DEF EntryInv, Create, Delete, entryVars
<1>3. Stage = "signed" => member \subseteq done  BY <1>2 DEF SignedForAll
<1>4. completed \subseteq done
  BY Members DEF EntryInv, Recorded, completed
<1>5. CASE UNCHANGED Contract!vars  BY <1>3, <1>5 DEF Contract!vars
<1>6. CASE Contract!Next
  BY <1>3, <1>4, <1>6
     DEF Contract!Next, Contract!Create, Contract!Join, Contract!Work, Contract!Sign,
         Contract!Reopen, Contract!Delete
<1> QED  BY <1>1, <1>5, <1>6

\* As long as requests have not overlapped, an entry its creator has signed off is
\* shared only with people who have finished their part.
THEOREM SerialSignedMeansDone ==
    ASSUME ConstantsFit
    PROVE  EntrySpec => [](~overlap => Contract!SignedMeansDone)
PROOF
<1>1. EntryInit => SignedForAll  BY DEF EntryInit, EntryAt, SignedForAll, Stage
<1>2. EntryInv /\ SignedForAll /\ [EntryNext]_entryVars => SignedForAll'
  BY SignedKept
<1>3. SignedForAll => (~overlap => Contract!SignedMeansDone)
  BY DEF SignedForAll, Contract!SignedMeansDone
<1> QED  BY <1>1, <1>2, <1>3, EntryInvHolds, PTL DEF EntrySpec

NewsInv == EntryInv /\ ChainNews /\ ApprovalNews

LEMMA NewsStarts ==
    ASSUME NewsFit, NEW l \in {"none", "gone"}, EntryAt(l)
    PROVE  NewsInv
PROOF
<1>1. ChainNews /\ ApprovalNews  BY DEF EntryAt, ChainNews, ApprovalNews, LastCompleted
<1>2. EntryInv  BY TypeStarts DEF EntryInv, NewsFit
<1> QED  BY <1>1, <1>2 DEF NewsInv

LEMMA NewsKept ==
    ASSUME NewsFit, NewsInv, [EntryNext]_entryVars
    PROVE  NewsInv'
BY TypeKept, RecordedKept, AloneKept, ChainNewsKept, ApprovalNewsKept
   DEF NewsInv, EntryInv, NewsFit

LEMMA NewsSays == NewsInv => EntryTypeOK /\ NewsArrives
BY LastMember DEF NewsInv, EntryInv, ChainNews, ApprovalNews, NewsArrives, AtRest, Reporting,
                  Telling, LastCompleted

\* However requests cross, once nothing is in progress the creator has heard of a
\* completed chain, and, if they have not overlapped, of the approval: the note that the
\* pre_save receiver leaves is the one that its own post_save receiver takes.
THEOREM NewsIsTold ==
    ASSUME NewsFit
    PROVE  EntrySpec => []NewsArrives
PROOF
<1>1. EntryInit => NewsInv  BY NewsStarts DEF EntryInit
<1>2. NewsInv /\ [EntryNext]_entryVars => NewsInv'  BY NewsKept
<1>3. NewsInv => NewsArrives  BY NewsSays
<1> QED  BY <1>1, <1>2, <1>3, PTL DEF EntrySpec
============================================================================
