---------------------------- MODULE OfficeProofs ----------------------------
(***************************************************************************)
(* What holds of the eight parts of the office for any number of workers,   *)
(* rows, people and sessions.  Each part has an inductive invariant of its   *)
(* own; a step of the office is a step of one part and a stutter of the       *)
(* others.                                                                   *)
(***************************************************************************)
EXTENDS Office, FiniteSetTheorems, WellFoundedInduction, TLAPS

-----------------------------------------------------------------------------
(* The checklists of a project, for any items, places and payloads, however  *)
(* edits and the MD's decisions cross.                                       *)


Holding(w) == At(w, "read") \/ At(w, "archived")

\* Phases carry the number of the round that made them; a worker has loaded a
\* project that exists.
Numbered ==
  \A w \in Worker :
    /\ req[w] # Idle => rounds # 0
    /\ At(w, "deciding") => req[w].phase \in (1..rounds) \X Slot

\* One PATCH at a time holds the project's row, and while it archives no other
\* phases come up.
OnePatch ==
  /\ \A v, w \in Worker : Holding(v) /\ Holding(w) => v = w
  /\ \A w \in Worker : At(w, "archived") => req[w].old = active

\* An approval that a request carries was given since the item was last checked.
CarriedApproved ==
  \A w \in Worker, i \in Item :
    /\ Holding(w) /\ req[w].prev[i] = "Approved" => i \in granted
    /\ At(w, "deciding") /\ req[w].phase \in active /\ req[w].list[i] = "Approved"
         => i \in granted

\* The MD's copy of an active phase has the items that the phase has.
SameItems ==
  \A w \in Worker :
    At(w, "deciding") /\ req[w].phase \in active =>
      \A i \in Item : req[w].list[i] = "absent" <=> lists[req[w].phase][i] = "absent"

ChecklistInv ==
  /\ TypeOK
  /\ Numbered
  /\ OnePatch
  /\ CarriedApproved
  /\ SameItems
  /\ EachItemOnce
  /\ PointsNeedApproval

Reading  == [at : {"read"}, prev : List]
Renewing == [at : {"archived"}, prev : List, old : SUBSET Phase]
Deciding == [at : {"deciding"}, phase : Phase, list : List]

-----------------------------------------------------------------------------

\* What a worker holds, by the statement it is at.
LEMMA Holds ==
    ASSUME TypeOK, NEW w \in Worker
    PROVE  /\ At(w, "read") => req[w] \in Reading
           /\ At(w, "archived") => req[w] \in Renewing
           /\ At(w, "deciding") => req[w] \in Deciding
BY DEF TypeOK, At, Request, Reading, Renewing, Deciding

\* A worker's new request leaves the other workers' as they are.
LEMMA BecomeType ==
    ASSUME TypeOK, NEW w \in Worker, NEW r \in Request \cup {Idle}, Become(w, r)
    PROVE  /\ req' \in [Worker -> Request \cup {Idle}]
           /\ req'[w] = r
           /\ \A v \in Worker \ {w} : req'[v] = req[v]
BY DEF TypeOK, Become

\* An active phase is one of those made so far.
LEMMA ActiveMade ==
    ASSUME TypeOK, NEW p \in active
    PROVE  p \in (1..rounds) \X Slot /\ p \in Phase /\ rounds # 0
PROOF
<1>1. p \in (1..rounds) \X Slot  BY DEF TypeOK
<1>2. PICK n \in 1..rounds, s \in Slot : p = <<n, s>>  BY <1>1
<1>3. n \in 1..MaxRound /\ rounds # 0  BY <1>2, ChecklistAssumption DEF TypeOK
<1> QED  BY <1>1, <1>2, <1>3 DEF Phase

\* A worker that holds nothing of the phases disturbs nothing.
LEMMA Quiet ==
    ASSUME ChecklistInv, NEW w \in Worker, NEW r \in {Idle, [at |-> "loaded"]},
           r # Idle => rounds # 0, Become(w, r),
           UNCHANGED <<rounds, lists, granted>>, archived' \in BOOLEAN,
           overlap' \in BOOLEAN
    PROVE  ChecklistInv'
PROOF
<1> USE DEF ChecklistInv
<1>0. r \in Request \cup {Idle}  BY DEF Request
<1>1. /\ req' \in [Worker -> Request \cup {Idle}]
      /\ req'[w] = r
      /\ \A v \in Worker \ {w} : req'[v] = req[v]
  BY <1>0, BecomeType
<1>2. /\ ~At(w, "read")' /\ ~At(w, "archived")' /\ ~At(w, "deciding")'
      /\ \A v \in Worker \ {w}, stage \in {"read", "archived", "deciding"} :
            At(v, stage)' <=> At(v, stage)
  BY <1>1 DEF At
<1>3. active' = active  BY DEF active
<1>4. TypeOK'  BY <1>1, <1>3 DEF TypeOK
<1>5. Numbered'  BY <1>1, <1>2 DEF Numbered
<1>6. OnePatch'  BY <1>1, <1>2, <1>3 DEF OnePatch, Holding
<1>7. CarriedApproved'  BY <1>1, <1>2, <1>3 DEF CarriedApproved, Holding
<1>8. SameItems'  BY <1>1, <1>2, <1>3 DEF SameItems
<1>9. EachItemOnce' /\ PointsNeedApproval'
  BY <1>3 DEF EachItemOnce, PointsNeedApproval, Counts
<1> QED  BY <1>4, <1>5, <1>6, <1>7, <1>8, <1>9

\* What index_checklist_md_by_id finds of an item is what a phase says of it.
LEMMA IndexedFinds ==
    ASSUME NEW ls, ls \in [DOMAIN ls -> List], NEW i \in Item
    PROVE  /\ Indexed(ls) \in List
           /\ Indexed(ls)[i] # "absent" => \E p \in DOMAIN ls : ls[p][i] = Indexed(ls)[i]
           /\ (\E p \in DOMAIN ls : ls[p][i] # "absent") => Indexed(ls)[i] # "absent"
PROOF
<1> DEFINE Has(j) == {p \in DOMAIN ls : ls[p][j] # "absent"}
<1>1. ASSUME NEW j \in Item, Has(j) # {}
      PROVE  \E p \in DOMAIN ls : ls[p][j] # "absent" /\ Indexed(ls)[j] = ls[p][j]
  <2> DEFINE c == CHOOSE p \in DOMAIN ls : ls[p][j] # "absent"
  <2>1. c \in DOMAIN ls /\ ls[c][j] # "absent"  BY <1>1
  <2>2. Indexed(ls)[j] = ls[c][j]  BY <1>1 DEF Indexed
  <2> QED  BY <2>1, <2>2
<1>2. ASSUME NEW j \in Item, Has(j) = {}
      PROVE  Indexed(ls)[j] = "absent"
  BY <1>2 DEF Indexed
<1>3. ASSUME NEW j \in Item
      PROVE  Indexed(ls)[j] \in Mark
  BY <1>1, <1>2, <1>3 DEF List, Mark
<1>4. Indexed(ls) = [j \in Item |-> Indexed(ls)[j]]  BY DEF Indexed
<1>5. Indexed(ls) \in List  BY <1>3, <1>4 DEF List
<1> QED  BY <1>1, <1>2, <1>5

\* The decisions a PATCH reads are those that the phases show.
LEMMA ReadKeeps ==
    ASSUME ChecklistInv, NEW w \in Worker, SaveAndRead(w), overlap' \in BOOLEAN
    PROVE  ChecklistInv'
PROOF
<1> USE DEF ChecklistInv
<1> DEFINE r == [at |-> "read", prev |-> Indexed(lists)]
<1>0. r \in Request \cup {Idle} /\ Indexed(lists) \in List
  <2>0. lists \in [DOMAIN lists -> List]  BY DEF TypeOK, active
  <2>1. CASE Item = {}  BY <2>1 DEF Indexed, List, Request
  <2>2. CASE Item # {}  BY <2>0, <2>2, IndexedFinds DEF Request
  <2> QED  BY <2>1, <2>2
<1>1. /\ req' \in [Worker -> Request \cup {Idle}]
      /\ req'[w] = r
      /\ \A v \in Worker \ {w} : req'[v] = req[v]
  BY <1>0, BecomeType DEF SaveAndRead
<1>2. /\ ~At(w, "archived")' /\ ~At(w, "deciding")'
      /\ \A v \in Worker \ {w}, stage \in {"read", "archived", "deciding"} :
            At(v, stage)' <=> At(v, stage)
  BY <1>1 DEF At
<1>3. active' = active /\ UNCHANGED <<rounds, lists, archived, granted>>
  BY DEF active, SaveAndRead, table
<1>4. TypeOK'  BY <1>1, <1>3 DEF TypeOK
<1>5. Numbered'  BY <1>1, <1>2, <1>3 DEF Numbered, SaveAndRead, At
<1>6. OnePatch'
  <2>1. \A v \in Worker \ {w} : ~Holding(v)'
    BY <1>2 DEF Holding, SaveAndRead, RowFree
  <2> QED  BY <1>1, <1>2, <1>3, <2>1 DEF OnePatch
<1>7. CarriedApproved'
  <2>1. ASSUME NEW i \in Item, Indexed(lists)[i] = "Approved"
        PROVE  i \in granted
    BY <2>1, IndexedFinds DEF PointsNeedApproval, Counts, TypeOK, active
  <2>2. \A i \in Item : req'[w].prev[i] = "Approved" => i \in granted
    BY <1>1, <2>1
  <2> QED  BY <1>1, <1>2, <1>3, <2>2 DEF CarriedApproved, Holding
<1>8. SameItems'  BY <1>1, <1>2, <1>3 DEF SameItems
<1>9. EachItemOnce' /\ PointsNeedApproval'
  BY <1>3 DEF EachItemOnce, PointsNeedApproval, Counts
<1> QED  BY <1>4, <1>5, <1>6, <1>7, <1>8, <1>9

LEMMA ArchiveKeeps ==
    ASSUME ChecklistInv, NEW w \in Worker, Archive(w), overlap' \in BOOLEAN
    PROVE  ChecklistInv'
PROOF
<1> USE DEF ChecklistInv
<1> DEFINE r == [at |-> "archived", prev |-> req[w].prev, old |-> active]
<1>0. r \in Request \cup {Idle}
  <2>1. req[w].prev \in List  BY Holds DEF Archive, Reading
  <2>2. active \subseteq Phase  BY ActiveMade
  <2> QED  BY <2>1, <2>2 DEF Request
<1>1. /\ req' \in [Worker -> Request \cup {Idle}]
      /\ req'[w] = r
      /\ \A v \in Worker \ {w} : req'[v] = req[v]
  BY <1>0, BecomeType DEF Archive
<1>2. /\ ~At(w, "read")' /\ ~At(w, "deciding")'
      /\ \A v \in Worker \ {w}, stage \in {"read", "archived", "deciding"} :
            At(v, stage)' <=> At(v, stage)
  BY <1>1 DEF At
<1>3. active' = active /\ UNCHANGED <<rounds, lists, archived, granted>>
  BY DEF active, Archive, table
<1>4. TypeOK'  BY <1>1, <1>3 DEF TypeOK
<1>5. Numbered'  BY <1>1, <1>2, <1>3 DEF Numbered, Archive, At
<1>6. OnePatch'
  <2>1. \A v \in Worker \ {w} : ~Holding(v)'
    BY <1>2 DEF Holding, Archive, OnePatch
  <2>2. req'[w].old = active'  BY <1>1, <1>3
  <2> QED  BY <1>1, <1>2, <1>3, <2>1, <2>2 DEF OnePatch, Holding
<1>7. CarriedApproved'
  <2>1. \A i \in Item : req'[w].prev[i] = "Approved" => i \in granted
    BY <1>1 DEF CarriedApproved, Holding, Archive
  <2> QED  BY <1>1, <1>2, <1>3, <2>1 DEF CarriedApproved, Holding
<1>8. SameItems'  BY <1>1, <1>2, <1>3 DEF SameItems
<1>9. EachItemOnce' /\ PointsNeedApproval'
  BY <1>3 DEF EachItemOnce, PointsNeedApproval, Counts
<1> QED  BY <1>4, <1>5, <1>6, <1>7, <1>8, <1>9

LEMMA DecideKeeps ==
    ASSUME ChecklistInv, NEW w \in Worker, NEW p \in active, Decide(w, p),
           overlap' \in BOOLEAN
    PROVE  ChecklistInv'
PROOF
<1> USE DEF ChecklistInv
<1> DEFINE r == [at |-> "deciding", phase |-> p, list |-> lists[p]]
<1>0. r \in Request \cup {Idle} /\ p \in (1..rounds) \X Slot /\ rounds # 0
  <2>1. lists[p] \in List  BY DEF TypeOK
  <2> QED  BY <2>1, ActiveMade DEF Request
<1>1. /\ req' \in [Worker -> Request \cup {Idle}]
      /\ req'[w] = r
      /\ \A v \in Worker \ {w} : req'[v] = req[v]
  BY <1>0, BecomeType DEF Decide
<1>2. /\ ~At(w, "read")' /\ ~At(w, "archived")'
      /\ \A v \in Worker \ {w}, stage \in {"read", "archived", "deciding"} :
            At(v, stage)' <=> At(v, stage)
  BY <1>1 DEF At
<1>3. active' = active /\ UNCHANGED <<rounds, lists, archived, granted>>
  BY DEF active, Decide, table
<1>4. TypeOK'  BY <1>1, <1>3 DEF TypeOK
<1>5. Numbered'  BY <1>0, <1>1, <1>2, <1>3 DEF Numbered
<1>6. OnePatch'  BY <1>1, <1>2, <1>3 DEF OnePatch, Holding
<1>7. CarriedApproved'
  BY <1>1, <1>2, <1>3 DEF CarriedApproved, Holding, PointsNeedApproval, Counts
<1>8. SameItems'  BY <1>1, <1>2, <1>3 DEF SameItems
<1>9. EachItemOnce' /\ PointsNeedApproval'
  BY <1>3 DEF EachItemOnce, PointsNeedApproval, Counts
<1> QED  BY <1>4, <1>5, <1>6, <1>7, <1>8, <1>9

\* A decision on a copy of an active phase only adds to what is approved.
LEMMA WriteKeeps ==
    ASSUME ChecklistInv, NEW w \in Worker, NEW i \in Item, NEW st \in Decided,
           WriteDecision(w, i, st), overlap' \in BOOLEAN
    PROVE  ChecklistInv'
PROOF
<1> USE DEF ChecklistInv
<1> DEFINE p == req[w].phase
           written == [req[w].list EXCEPT ![i] = st]
<1>0. req[w] \in Deciding /\ At(w, "deciding")  BY Holds DEF WriteDecision
<1>1. /\ req' \in [Worker -> Request \cup {Idle}]
      /\ req'[w] = Idle
      /\ \A v \in Worker \ {w} : req'[v] = req[v]
  BY BecomeType DEF WriteDecision
<1>2. /\ \A stage \in {"read", "archived", "deciding"} : ~At(w, stage)'
      /\ \A v \in Worker \ {w}, stage \in {"read", "archived", "deciding"} :
            At(v, stage)' <=> At(v, stage)
  BY <1>1 DEF At
<1>3. written \in List /\ req[w].list \in List
  BY <1>0 DEF Deciding, List, Decided, Checked, Mark
<1>4. /\ lists' = IF p \in active THEN [lists EXCEPT ![p] = written] ELSE lists
      /\ UNCHANGED <<rounds, archived>>
  BY DEF WriteDecision, Overwrite
<1>5. active' = active  BY <1>4 DEF active
<1>6. lists' \in [active -> List]  BY <1>3, <1>4 DEF TypeOK
<1>7. granted' \in SUBSET Item /\ granted \subseteq granted'
  BY DEF WriteDecision, TypeOK
<1>8. \A j \in Item : written[j] = "Approved" /\ p \in active => j \in granted'
  <2> SUFFICES ASSUME NEW j \in Item, written[j] = "Approved", p \in active
               PROVE  j \in granted'
    OBVIOUS
  <2>1. CASE j = i
    <3>1. st = "Approved"  BY <1>3, <2>1 DEF List
    <3> QED  BY <2>1, <3>1 DEF WriteDecision
  <2>2. CASE j # i
    <3>1. req[w].list[j] = "Approved"  BY <1>3, <2>2 DEF List
    <3> QED  BY <1>0, <1>7, <3>1 DEF CarriedApproved
  <2> QED  BY <2>1, <2>2
<1>9. p \in active => \A j \in Item : written[j] = "absent" <=> lists[p][j] = "absent"
  <2> SUFFICES ASSUME p \in active, NEW j \in Item
               PROVE  written[j] = "absent" <=> lists[p][j] = "absent"
    OBVIOUS
  <2>1. req[w].list[j] = "absent" <=> lists[p][j] = "absent"  BY <1>0 DEF SameItems
  <2>2. req[w].list[i] # "absent"
    BY DEF WriteDecision, Checked, Decided
  <2>3. st # "absent"  BY DEF Decided
  <2> QED  BY <1>3, <2>1, <2>2, <2>3 DEF List
<1>10. \A r \in active, j \in Item : lists'[r][j] = "absent" <=> lists[r][j] = "absent"
  BY <1>4, <1>9 DEF TypeOK
<1>11. TypeOK'  BY <1>1, <1>4, <1>5, <1>6, <1>7 DEF TypeOK
<1>12. Numbered'  BY <1>1, <1>2, <1>4 DEF Numbered
<1>13. OnePatch'  BY <1>1, <1>2, <1>5 DEF OnePatch, Holding
<1>14. CarriedApproved'  BY <1>1, <1>2, <1>5, <1>7 DEF CarriedApproved, Holding
<1>15. SameItems'  BY <1>1, <1>2, <1>5, <1>10 DEF SameItems
<1>16. EachItemOnce'  BY <1>5, <1>10 DEF EachItemOnce
<1>17. PointsNeedApproval'
  BY <1>4, <1>5, <1>7, <1>8 DEF PointsNeedApproval, Counts, TypeOK
<1> QED  BY <1>11, <1>12, <1>13, <1>14, <1>15, <1>16, <1>17

-----------------------------------------------------------------------------
(* Making the phases. *)

\* What a payload makes of the decisions it finds: no approval that was not there,
\* and every item in one place.
RightlyMade(brought, q, prev, n) ==
  /\ DOMAIN brought = {n} \X Slot
  /\ brought \in [{n} \X Slot -> List]
  /\ \A p \in {n} \X Slot, i \in Item :
        /\ brought[p][i] = "Approved" => prev[i] = "Approved" /\ i \in Ticks(q)
        /\ brought[p][i] \in Contract!May(prev[i])
  /\ \A p, r \in {n} \X Slot, i \in Item :
        brought[p][i] # "absent" /\ brought[r][i] # "absent" => p = r

LEMMA MadeRight ==
    ASSUME NEW q \in Payloads, NEW prev \in List, NEW n \in Nat
    PROVE  RightlyMade(Made(q, prev, n), q, prev, n)
PROOF
<1> DEFINE brought == Made(q, prev, n)
           Places == {n} \X Slot
<1>0. \A p \in Places : p[2] \in Slot /\ p = <<n, p[2]>>  OBVIOUS
<1>1. ASSUME NEW s \in Slot, NEW i \in Item
      PROVE  /\ Merge(q[s][i], prev[i]) \in Mark
             /\ Merge(q[s][i], prev[i]) = "Approved" => prev[i] = "Approved" /\ i \in Ticks(q)
             /\ Merge(q[s][i], prev[i]) \in Contract!May(prev[i])
             /\ Merge(q[s][i], prev[i]) # "absent" => q[s][i] # "absent"
  <2>1. q[s][i] \in Asked  BY ChecklistAssumption
  <2>2. prev[i] \in Mark  BY DEF List
  <2> QED
    BY <2>1, <2>2 DEF Merge, Asked, Mark, Checked, Decided, Ticks,
       Contract!May, Contract!Checked, Contract!Decided
<1>2. /\ DOMAIN brought = Places
      /\ \A p \in Places, i \in Item : brought[p][i] = Merge(q[p[2]][i], prev[i])
  BY DEF Made
<1>3. brought \in [Places -> List]  BY <1>0, <1>1 DEF Made, List
<1>4. ASSUME NEW p \in Places, NEW r \in Places, NEW i \in Item,
             brought[p][i] # "absent", brought[r][i] # "absent"
      PROVE  p = r
  <2>1. q[p[2]][i] # "absent" /\ q[r[2]][i] # "absent"  BY <1>0, <1>1, <1>2, <1>4
  <2>2. p[2] = r[2]  BY <1>0, <2>1, ChecklistAssumption
  <2> QED  BY <1>0, <2>2
<1>5. ASSUME NEW p \in Places, NEW i \in Item, brought[p][i] = "Approved"
      PROVE  prev[i] = "Approved" /\ i \in Ticks(q)
  BY <1>0, <1>1, <1>2, <1>5
<1>6. \A p \in Places, i \in Item : brought[p][i] \in Contract!May(prev[i])
  BY <1>0, <1>1, <1>2
<1> HIDE DEF brought
<1>7. RightlyMade(brought, q, prev, n)  BY <1>2, <1>3, <1>4, <1>5, <1>6 DEF RightlyMade
<1> QED  BY <1>7 DEF brought

\* A project that is just made has no requests on it yet.
LEMMA CreateKeeps ==
    ASSUME ChecklistInv, NEW w \in Worker, NEW q \in Payloads, Create(w, q),
           overlap' \in BOOLEAN
    PROVE  ChecklistInv'
PROOF
<1> USE DEF ChecklistInv
<1>1. Empty \in List  BY DEF Empty, List, Mark
<1>2. rounds = 0 /\ rounds' = 1 /\ UNCHANGED <<archived, req, granted>>  BY DEF Create
<1>3. \A v \in Worker : req[v] = Idle  BY <1>2 DEF Numbered
<1>4. \A v \in Worker, stage \in {"read", "archived", "deciding"} : ~At(v, stage)'
  BY <1>2, <1>3 DEF At
<1>5. /\ active' = {1} \X Slot
      /\ lists' \in [active' -> List]
      /\ \A p \in active', i \in Item : lists'[p][i] # "Approved"
      /\ EachItemOnce'
  <2>1. lists' = Made(q, Empty, 1) /\ 1 \in Nat  BY DEF Create
  <2>2. RightlyMade(lists', q, Empty, 1)  BY <1>1, <2>1, MadeRight
  <2> QED  BY <2>2 DEF RightlyMade, active, EachItemOnce, Empty
<1>6. rounds' \in 0..MaxRound  BY <1>2, ChecklistAssumption DEF Create
<1>7. TypeOK'
  <2>1. active' \subseteq (1..rounds') \X Slot  BY <1>2, <1>5
  <2> QED  BY <1>2, <1>5, <1>6, <2>1 DEF TypeOK
<1>8. Numbered' /\ OnePatch' /\ CarriedApproved' /\ SameItems'
  BY <1>2, <1>3, <1>4 DEF Numbered, OnePatch, CarriedApproved, SameItems, Holding
<1> QED  BY <1>5, <1>7, <1>8 DEF PointsNeedApproval, Counts

\* A PATCH leaves no phase but its own, which hold no approval it has not found.
LEMMA CommitKeeps ==
    ASSUME ChecklistInv, NEW w \in Worker, NEW q \in Payloads, Commit(w, q),
           overlap' \in BOOLEAN
    PROVE  ChecklistInv'
PROOF
<1> USE DEF ChecklistInv
<1> DEFINE n == rounds + 1
           brought == Made(q, req[w].prev, n)
<1>0. req[w] \in Renewing /\ At(w, "archived") /\ Holding(w)
  BY Holds DEF Commit, Holding
<1>1. n \in 1..MaxRound /\ n \in Nat /\ rounds' = n /\ archived' = FALSE
  BY ChecklistAssumption DEF Commit, TypeOK
<1>2. /\ req' \in [Worker -> Request \cup {Idle}]
      /\ req'[w] = Idle
      /\ \A v \in Worker \ {w} : req'[v] = req[v]
  BY BecomeType DEF Commit
<1>3. /\ \A stage \in {"read", "archived", "deciding"} : ~At(w, stage)'
      /\ \A v \in Worker \ {w}, stage \in {"read", "archived", "deciding"} :
            At(v, stage)' <=> At(v, stage)
  BY <1>2 DEF At
<1>4. \A v \in Worker : ~Holding(v)'
  BY <1>0, <1>3 DEF Holding, OnePatch
<1>5. req[w].prev \in List /\ req[w].old = active
  BY <1>0 DEF OnePatch, Renewing
<1>6. RightlyMade(brought, q, req[w].prev, n)  BY <1>1, <1>5, MadeRight
<1>7. lists' = brought
  <2>1. lists' = Replaced(active, brought)  BY <1>5 DEF Commit
  <2>2. (active \ active) \cup DOMAIN brought = DOMAIN brought  OBVIOUS
  <2>3. lists' = [p \in DOMAIN brought |-> brought[p]]  BY <2>1, <2>2 DEF Replaced
  <2> QED  BY <1>6, <2>3 DEF RightlyMade
<1>8. active' = {n} \X Slot  BY <1>6, <1>7 DEF active, RightlyMade
<1>9. granted' = granted \cap Ticks(q)  BY DEF Commit
<1>10. TypeOK'
  <2>1. active' \subseteq (1..rounds') \X Slot  BY <1>1, <1>8
  <2>2. rounds' \in 0..MaxRound  BY <1>1
  <2> QED  BY <1>1, <1>2, <1>6, <1>7, <1>8, <1>9, <2>1, <2>2 DEF TypeOK, RightlyMade
<1>11. Numbered'
  <2>1. 1..rounds \subseteq 1..rounds' /\ rounds' # 0  BY <1>1 DEF TypeOK
  <2>2. (1..rounds) \X Slot \subseteq (1..rounds') \X Slot  BY <2>1
  <2> QED  BY <1>2, <1>3, <2>1, <2>2 DEF Numbered
<1>12. OnePatch'  BY <1>4 DEF OnePatch, Holding
<1>13. \A v \in Worker : At(v, "deciding")' => req'[v].phase \notin active'
  <2> SUFFICES ASSUME NEW v \in Worker, At(v, "deciding")', req'[v].phase \in active'
               PROVE  FALSE
    OBVIOUS
  <2>1. v # w /\ At(v, "deciding") /\ req'[v] = req[v]  BY <1>2, <1>3
  <2>2. req[v].phase \in (1..rounds) \X Slot /\ req[v].phase \in {n} \X Slot
    BY <1>8, <2>1 DEF Numbered
  <2>3. n \in 1..rounds  BY <2>2
  <2> QED  BY <1>1, <2>3 DEF TypeOK
<1>14. CarriedApproved' /\ SameItems'  BY <1>4, <1>13 DEF CarriedApproved, SameItems
<1>15. EachItemOnce'  BY <1>6, <1>7, <1>8 DEF EachItemOnce, RightlyMade
<1>16. PointsNeedApproval'
  BY <1>0, <1>6, <1>7, <1>8, <1>9 DEF PointsNeedApproval, Counts, CarriedApproved, RightlyMade
<1> QED  BY <1>10, <1>11, <1>12, <1>14, <1>15, <1>16

-----------------------------------------------------------------------------

LEMMA InvStarts == Init => ChecklistInv
PROOF
<1> SUFFICES ASSUME Init PROVE ChecklistInv  OBVIOUS
<1>1. \A w \in Worker, stage \in {"read", "archived", "deciding"} : ~At(w, stage)
  BY DEF Init, At
<1>2. Numbered /\ OnePatch /\ CarriedApproved /\ SameItems
  BY <1>1 DEF Init, Numbered, OnePatch, CarriedApproved, SameItems, Holding
<1>3. PointsNeedApproval
  BY DEF Init, PointsNeedApproval, Counts, active
<1>4. /\ active \subseteq (1..rounds) \X Slot
      /\ lists \in [active -> List]
      /\ rounds \in 0..MaxRound
      /\ EachItemOnce
  <2>1. CASE rounds = 0 /\ lists = [p \in {} |-> Empty]
    BY <2>1, ChecklistAssumption DEF active, EachItemOnce
  <2>2. CASE /\ rounds = 1 /\ MaxRound >= 1
             /\ \E s \in Slot, l \in [Item -> {"absent", "open", "Approved"}] :
                  lists = [p \in {<<1, s>>} |-> l]
    <3>1. PICK s \in Slot, l \in [Item -> {"absent", "open", "Approved"}] :
            lists = [p \in {<<1, s>>} |-> l]
      BY <2>2
    <3>2. l \in List  BY DEF List, Mark, Checked, Decided
    <3>3. active = {<<1, s>>} /\ lists \in [active -> List]  BY <3>1, <3>2 DEF active
    <3> QED  BY <2>2, <3>3, ChecklistAssumption DEF EachItemOnce
  <2> QED  BY <2>1, <2>2 DEF Init
<1>5. TypeOK  BY <1>4 DEF Init, TypeOK
<1> QED  BY <1>2, <1>3, <1>4, <1>5 DEF ChecklistInv

LEMMA InvKept == ChecklistInv /\ [Next]_vars => ChecklistInv'
PROOF
<1> SUFFICES ASSUME ChecklistInv, [Next]_vars PROVE ChecklistInv'  OBVIOUS
<1>1. CASE UNCHANGED vars
  <2>1. \A w \in Worker, stage \in {"read", "archived", "deciding"} :
          At(w, stage)' <=> At(w, stage)
    BY <1>1 DEF At, vars
  <2>2. active' = active /\ UNCHANGED vars  BY <1>1 DEF active, vars, table
  <2> QED
    BY <2>1, <2>2 DEF vars, table, ChecklistInv, TypeOK, Numbered, OnePatch, Holding,
       CarriedApproved, SameItems, EachItemOnce, PointsNeedApproval, Counts
<1>2. ASSUME NEW w \in Worker, Step(w), overlap' = (overlap \/ Overlapping')
      PROVE  ChecklistInv'
  <2>0. overlap' \in BOOLEAN
    <3>1. Overlapping' \in BOOLEAN  BY DEF Overlapping
    <3> QED  BY <1>2, <3>1 DEF ChecklistInv, TypeOK
  <2>1. ASSUME NEW q \in Payloads, Create(w, q) PROVE ChecklistInv'
    BY <2>0, <2>1, CreateKeeps
  <2>2. CASE Load(w)
    BY <2>0, <2>2, Quiet DEF Load, table, ChecklistInv, TypeOK
  <2>3. CASE SaveAndRead(w)  BY <2>0, <2>3, ReadKeeps
  <2>4. CASE Archive(w)  BY <2>0, <2>4, ArchiveKeeps
  <2>5. ASSUME NEW q \in Payloads, Commit(w, q) PROVE ChecklistInv'
    BY <2>0, <2>5, CommitKeeps
  <2>6. CASE Rename(w)  BY <2>0, <2>6, Quiet DEF Rename
  <2>7. CASE Delete(w)  BY <2>0, <2>7, Quiet DEF Delete
  <2>8. ASSUME NEW p \in active, Decide(w, p) PROVE ChecklistInv'
    BY <2>0, <2>8, DecideKeeps
  <2>9. ASSUME NEW i \in Item, NEW st \in Decided, WriteDecision(w, i, st)
        PROVE  ChecklistInv'
    BY <2>0, <2>9, WriteKeeps
  <2>10. CASE Abandon(w)
    BY <2>0, <2>10, Quiet DEF Abandon, table, ChecklistInv, TypeOK
  <2> QED
    BY <1>2, <2>1, <2>2, <2>3, <2>4, <2>5, <2>6, <2>7, <2>8, <2>9, <2>10 DEF Step
<1> QED  BY <1>1, <1>2 DEF Next

LEMMA InvHolds == Spec => []ChecklistInv
BY InvStarts, InvKept, PTL DEF Spec

\* Phases, lists, requests and histories keep their types
\* (src/projects_deadline/models.py:43-66, views.py:255-387).
THEOREM TypeCorrect == Spec => []TypeOK
PROOF
<1>1. ChecklistInv => TypeOK  BY DEF ChecklistInv
<1> QED  BY <1>1, InvHolds, PTL

\* However edits cross, the lock on the project's row keeps an item from being in
\* two active phases (src/projects_deadline/views.py:284-292).
THEOREM NoItemTwice == Spec => []EachItemOnce
PROOF
<1>1. ChecklistInv => EachItemOnce  BY DEF ChecklistInv
<1> QED  BY <1>1, InvHolds, PTL

\* However edits and decisions cross, an item that scores has been approved by the
\* MD since it was last checked (src/projects_deadline/views.py:289-292, 372-387).
THEOREM ApprovedByTheMD == Spec => []PointsNeedApproval
PROOF
<1>1. ChecklistInv => PointsNeedApproval  BY DEF ChecklistInv
<1> QED  BY <1>1, InvHolds, PTL

-----------------------------------------------------------------------------
(* Requests that come one at a time. *)

\* What a request has read is still what the project shows.
Alone ==
  /\ rounds = 0 => ~archived
  /\ ~overlap =>
       /\ \A v, w \in Worker : req[v] # Idle /\ req[w] # Idle => v = w
       /\ \A w \in Worker : req[w] # Idle => ~archived
       /\ \A w \in Worker : Holding(w) => req[w].prev = Shown
       /\ \A w \in Worker : At(w, "deciding") =>
            req[w].phase \in active /\ req[w].list = lists[req[w].phase]

\* An item of an active phase is shown as the phase has it.
LEMMA ShownOnce ==
    ASSUME NEW ls, ls \in [DOMAIN ls -> List], NEW i \in Item, NEW p \in DOMAIN ls,
           \A r \in DOMAIN ls : ls[r][i] # "absent" /\ ls[p][i] # "absent" => r = p,
           ls[p][i] # "absent"
    PROVE  Indexed(ls)[i] = ls[p][i]
BY IndexedFinds

LEMMA AloneStarts == Init => Alone
BY DEF Init, Alone, Holding, At

LEMMA AloneKept == ChecklistInv /\ Alone /\ [Next]_vars => Alone'
PROOF
<1> SUFFICES ASSUME ChecklistInv, Alone, [Next]_vars PROVE Alone'  OBVIOUS
<1>1. CASE UNCHANGED vars
  BY <1>1 DEF Alone, vars, table, Holding, At, Shown, active
<1>2. ASSUME NEW w \in Worker, Step(w), overlap' = (overlap \/ Overlapping')
      PROVE  Alone'
  <2>1. rounds' = 0 => ~archived'
    BY <1>2 DEF Step, Create, Load, SaveAndRead, Archive, Commit, Rename, Delete, Decide,
       WriteDecision, Abandon, table, Alone, ChecklistInv, Numbered, At, TypeOK
  <2> SUFFICES ASSUME ~overlap'
               PROVE  /\ \A u, v \in Worker : req'[u] # Idle /\ req'[v] # Idle => u = v
                      /\ \A v \in Worker : req'[v] # Idle => ~archived'
                      /\ \A v \in Worker : Holding(v)' => req'[v].prev = Shown'
                      /\ \A v \in Worker : At(v, "deciding")' =>
                           req'[v].phase \in active' /\ req'[v].list = lists'[req'[v].phase]
    BY <2>1 DEF Alone
  <2>2. ~overlap /\ ~Overlapping'  BY <1>2
  <2>3. \A u, v \in Worker : req'[u] # Idle /\ req'[v] # Idle => u = v
    BY <2>2 DEF Overlapping
  <2>4. req \in [Worker -> Request \cup {Idle}]  BY DEF ChecklistInv, TypeOK
  <2>5. ASSUME req[w] # Idle, Become(w, Idle)
        PROVE  \A v \in Worker : req'[v] = Idle
    BY <2>2, <2>4, <2>5 DEF Become, Alone
  <2>6. ASSUME NEW r \in Request, Become(w, r)
        PROVE  req'[w] = r /\ \A v \in Worker \ {w} : req'[v] = Idle
    BY <2>3, <2>4, <2>6, ChecklistAssumption DEF Become
  <2> DEFINE Reads ==
               /\ \A v \in Worker : req'[v] # Idle => ~archived'
               /\ \A v \in Worker : Holding(v)' => req'[v].prev = Shown'
               /\ \A v \in Worker : At(v, "deciding")' =>
                    req'[v].phase \in active' /\ req'[v].list = lists'[req'[v].phase]
  <2>7. ASSUME \A v \in Worker : req'[v] = Idle PROVE Reads
    BY <2>7 DEF Holding, At
  <2>8. ASSUME NEW q \in Payloads, Create(w, q) PROVE Reads
    BY <2>7, <2>8 DEF Create, ChecklistInv, Numbered
  <2>9. ASSUME Load(w) PROVE Reads
    <3>1. [at |-> "loaded"] \in Request  BY DEF Request
    <3>2. ~archived'  BY <2>9 DEF Load, table
    <3> QED  BY <2>6, <2>9, <3>1, <3>2 DEF Load, Holding, At
  <2>10. ASSUME SaveAndRead(w) PROVE Reads
    <3>1. req' = [req EXCEPT ![w] = [at |-> "read", prev |-> Shown]]
      BY <2>10 DEF SaveAndRead, Become, Shown
    <3>2. /\ req'[w] = [at |-> "read", prev |-> Shown]
          /\ \A v \in Worker \ {w} : req'[v] = req[v]
      BY <2>4, <3>1
    <3>3. req[w] # Idle /\ \A v \in Worker \ {w} : req[v] = Idle
      BY <2>2, <2>10 DEF SaveAndRead, At, Alone
    <3>4. Shown' = Shown /\ archived' = archived  BY <2>10 DEF SaveAndRead, table, Shown
    <3> QED  BY <2>2, <3>2, <3>3, <3>4 DEF Holding, At, Alone
  <2>11. ASSUME Archive(w) PROVE Reads
    <3>1. req' = [req EXCEPT ![w] = [at |-> "archived", prev |-> Shown, old |-> active]]
      BY <2>2, <2>11 DEF Archive, Become, Alone, Holding
    <3>2. /\ req'[w] = [at |-> "archived", prev |-> Shown, old |-> active]
          /\ \A v \in Worker \ {w} : req'[v] = req[v]
      BY <2>4, <3>1
    <3>3. req[w] # Idle /\ \A v \in Worker \ {w} : req[v] = Idle
      BY <2>2, <2>11 DEF Archive, At, Alone
    <3>4. Shown' = Shown /\ archived' = archived  BY <2>11 DEF Archive, table, Shown
    <3> QED  BY <2>2, <3>2, <3>3, <3>4 DEF Holding, At, Alone
  <2>12. ASSUME NEW p \in active, Decide(w, p) PROVE Reads
    <3>1. [at |-> "deciding", phase |-> p, list |-> lists[p]] \in Request
      BY ActiveMade DEF Request, ChecklistInv, TypeOK
    <3>2. ~archived' /\ active' = active /\ lists' = lists
      BY <2>12 DEF Decide, table, active
    <3> QED  BY <2>6, <2>12, <3>1, <3>2 DEF Decide, Holding, At
  <2>13. ASSUME NEW q \in Payloads, Commit(w, q) PROVE Reads
    BY <2>5, <2>7, <2>13 DEF Commit, At
  <2>14. ASSUME Rename(w) PROVE Reads  BY <2>5, <2>7, <2>14 DEF Rename, At
  <2>15. ASSUME Delete(w) PROVE Reads  BY <2>5, <2>7, <2>15 DEF Delete, At
  <2>16. ASSUME NEW i \in Item, NEW st \in Decided, WriteDecision(w, i, st) PROVE Reads
    BY <2>5, <2>7, <2>16 DEF WriteDecision, At
  <2>17. ASSUME Abandon(w) PROVE Reads
    <3>1. req[w] # Idle /\ Become(w, Idle)  BY <2>17 DEF Abandon
    <3> QED  BY <2>5, <2>7, <3>1
  <2> HIDE DEF Reads
  <2>18. Reads
    BY <1>2, <2>8, <2>9, <2>10, <2>11, <2>12, <2>13, <2>14, <2>15, <2>16, <2>17 DEF Step
  <2> QED  BY <2>3, <2>18 DEF Reads
<1> QED  BY <1>1, <1>2 DEF Next

-----------------------------------------------------------------------------
(* ... are edits, decisions and deletions of the contract. *)

Shows == Contract!ContractNext \/ UNCHANGED <<Shown, archived>>

\* Phases that an edit has made show what the contract lets it make of the items.
LEMMA EditShows ==
    ASSUME ChecklistInv, ChecklistInv', NEW q \in Payloads, NEW n \in Nat, ~archived,
           archived' = archived,
           RightlyMade(lists', q, Shown, n)
    PROVE  Contract!ContractNext
PROOF
<1>1. lists' \in [DOMAIN lists' -> List]  BY DEF RightlyMade
<1>2. \A i \in Item : Shown'[i] \in Contract!May(Shown[i])
  <2> SUFFICES ASSUME NEW i \in Item PROVE Shown'[i] \in Contract!May(Shown[i])
    OBVIOUS
  <2>1. CASE Shown'[i] = "absent"  BY <2>1 DEF Contract!May
  <2>2. CASE Shown'[i] # "absent"
    <3>1. PICK p \in DOMAIN lists' : lists'[p][i] = Shown'[i]
      BY <1>1, <2>2, IndexedFinds DEF Shown
    <3> QED  BY <3>1 DEF RightlyMade
  <2> QED  BY <2>1, <2>2
<1>3. Shown' \in [Item -> Contract!Mark]
  <2>1. Item # {} => Shown' \in List  BY <1>1, IndexedFinds DEF Shown
  <2>2. Item = {} => Shown' \in List  BY DEF Shown, Indexed, List
  <2> QED
    BY <2>1, <2>2 DEF List, Mark, Checked, Decided,
       Contract!Mark, Contract!Checked, Contract!Decided
<1>4. Contract!Edit  BY <1>2, <1>3 DEF Contract!Edit
<1> QED  BY <1>4 DEF Contract!ContractNext

\* A decision on a copy that is up to date is a decision on the item that is shown.
LEMMA DecisionShows ==
    ASSUME ChecklistInv, ChecklistInv', Alone, ~overlap, NEW w \in Worker, NEW i \in Item,
           NEW st \in Decided, WriteDecision(w, i, st)
    PROVE  Contract!ContractNext
PROOF
<1> DEFINE p == req[w].phase
<1>1. /\ p \in active /\ req[w].list = lists[p] /\ ~archived /\ archived' = archived
      /\ lists' = [lists EXCEPT ![p] = [lists[p] EXCEPT ![i] = st]]
      /\ lists[p][i] \in Checked
  BY DEF WriteDecision, Overwrite, Alone, At
<1>2. lists \in [active -> List] /\ lists' \in [active' -> List]
  BY DEF ChecklistInv, TypeOK
<1>3. active' = active  BY <1>1 DEF active
<1>4. \A r \in active, j \in Item :
        lists'[r][j] = IF r = p /\ j = i THEN st ELSE lists[r][j]
  BY <1>1, <1>2 DEF List
<1>5. Shown[i] = lists[p][i]
  BY <1>1, <1>2, ShownOnce DEF Shown, active, ChecklistInv, EachItemOnce, Checked, Decided
<1>6. \A j \in Item : Shown'[j] = IF j = i THEN st ELSE Shown[j]
  <2> SUFFICES ASSUME NEW j \in Item
               PROVE  Shown'[j] = IF j = i THEN st ELSE Shown[j]
    OBVIOUS
  <2>1. CASE j = i
    <3>1. lists'[p][i] = st /\ st # "absent"  BY <1>1, <1>4 DEF Decided
    <3>2. p \in DOMAIN lists' /\ lists' \in [DOMAIN lists' -> List]
      BY <1>1, <1>2, <1>3 DEF active
    <3>3. \A r \in DOMAIN lists' : lists'[r][i] # "absent" => r = p
      BY <3>1, <3>2 DEF ChecklistInv, EachItemOnce, active
    <3>4. Indexed(lists')[i] = lists'[p][i]
      <4> HIDE DEF p
      <4> QED  BY <3>1, <3>2, <3>3, ShownOnce
    <3> QED  BY <2>1, <3>1, <3>4 DEF Shown
  <2>2. CASE j # i /\ \E r \in active : lists[r][j] # "absent"
    <3>1. PICK r \in active : lists[r][j] # "absent"  BY <2>2
    <3>2. lists'[r][j] = lists[r][j]  BY <1>4, <2>2
    <3>3. Shown[j] = lists[r][j]
      BY <1>2, <3>1, ShownOnce DEF Shown, active, ChecklistInv, EachItemOnce
    <3>4. Shown'[j] = lists'[r][j]
      BY <1>2, <1>3, <3>1, <3>2, ShownOnce DEF Shown, active, ChecklistInv, EachItemOnce
    <3> QED  BY <2>2, <3>2, <3>3, <3>4
  <2>3. CASE j # i /\ \A r \in active : lists[r][j] = "absent"
    <3>1. Shown[j] = "absent"  BY <2>3 DEF Shown, Indexed, active
    <3>2. \A r \in active' : lists'[r][j] = "absent"  BY <1>3, <1>4, <2>3
    <3>3. Shown'[j] = "absent"  BY <3>2 DEF Shown, Indexed, active
    <3> QED  BY <2>3, <3>1, <3>3
  <2> QED  BY <2>1, <2>2, <2>3
<1>7. Shown' = [Shown EXCEPT ![i] = st]
  BY <1>6 DEF Shown, Indexed
<1>8. Contract!Decide
  BY <1>1, <1>5, <1>7 DEF Contract!Decide, Contract!Checked, Contract!Decided, Checked, Decided
<1> QED  BY <1>1, <1>8 DEF Contract!ContractNext

LEMMA StepShows ==
    ASSUME ChecklistInv, ChecklistInv', Alone, ~overlap, NEW w \in Worker, Step(w)
    PROVE  Shows
PROOF
<1>1. ASSUME NEW q \in Payloads, Create(w, q) PROVE Shows
  <2>1. Shown = Empty /\ Empty \in List
    <3>1. active = {}  BY <1>1, ActiveMade DEF Create, ChecklistInv
    <3> QED  BY <3>1 DEF Shown, Indexed, active, Empty, List, Mark
  <2>2. RightlyMade(lists', q, Shown, 1)  BY <1>1, <2>1, MadeRight DEF Create
  <2>3. ~archived /\ archived' = archived  BY <1>1 DEF Create, Alone
  <2> QED  BY <2>2, <2>3, EditShows DEF Shows
<1>2. CASE Load(w) \/ SaveAndRead(w) \/ Archive(w) \/ Abandon(w)
  BY <1>2 DEF Load, SaveAndRead, Archive, Abandon, table, Shown, Shows
<1>3. ASSUME NEW p \in active, Decide(w, p) PROVE Shows
  BY <1>3 DEF Decide, table, Shown, Shows
<1>4. ASSUME NEW q \in Payloads, Commit(w, q) PROVE Shows
  <2>0. req[w] \in Renewing /\ At(w, "archived") /\ Holding(w)
    BY <1>4, Holds DEF Commit, Holding, ChecklistInv
  <2>1. /\ req[w].prev = Shown /\ req[w].old = active /\ ~archived
        /\ Shown \in List
    BY <1>4, <2>0 DEF Alone, ChecklistInv, OnePatch, Renewing, At
  <2>4. archived' = archived
    BY <1>4, <2>1 DEF Commit, ChecklistInv, TypeOK
  <2>2. RightlyMade(Made(q, Shown, rounds + 1), q, Shown, rounds + 1) /\ rounds + 1 \in Nat
    BY <2>1, MadeRight DEF ChecklistInv, TypeOK
  <2>3. lists' = Made(q, Shown, rounds + 1)
    <3> DEFINE brought == Made(q, Shown, rounds + 1)
    <3>1. lists' = Replaced(active, brought)  BY <1>4, <2>1 DEF Commit
    <3>2. (active \ active) \cup DOMAIN brought = DOMAIN brought  OBVIOUS
    <3>3. lists' = [p \in DOMAIN brought |-> brought[p]]  BY <3>1, <3>2 DEF Replaced
    <3> QED  BY <2>2, <3>3 DEF RightlyMade
  <2> QED  BY <2>1, <2>2, <2>3, <2>4, EditShows DEF Shows
<1>5. CASE Rename(w)
  <2>1. ~archived /\ archived \in BOOLEAN  BY <1>5 DEF Rename, Alone, At, ChecklistInv, TypeOK
  <2>2. archived' = FALSE /\ lists' = lists  BY <1>5 DEF Rename
  <2>3. archived' = archived  BY <2>1, <2>2
  <2> QED  BY <2>2, <2>3 DEF Shown, Shows
<1>6. CASE Delete(w)
  BY <1>6 DEF Delete, Alone, At, Shown, Shows, Contract!ContractNext, Contract!Delete
<1>7. ASSUME NEW i \in Item, NEW st \in Decided, WriteDecision(w, i, st) PROVE Shows
  BY <1>7, DecisionShows DEF Shows
<1> QED  BY <1>1, <1>2, <1>3, <1>4, <1>5, <1>6, <1>7 DEF Step

\* One at a time, edits, decisions and deletions do what the contract says: a PATCH
\* changes no decision (src/projects_deadline/checklist_md_approval.py:152-203), the
\* last decision is shown and a deleted project stays deleted.
THEOREM SerialKeepsContract == Spec => KeepsContract
PROOF
<1>1. Init => Alone  BY AloneStarts
<1>2. ChecklistInv /\ Alone /\ [Next]_vars => Alone'  BY AloneKept
<1>3. ChecklistInv /\ ChecklistInv' /\ Alone /\ [Next]_vars
        => [overlap' \/ Contract!ContractNext]_<<Shown, archived>>
  <2> SUFFICES ASSUME ChecklistInv, ChecklistInv', Alone, [Next]_vars, ~overlap'
               PROVE  Shows
    BY DEF Shows
  <2>1. CASE UNCHANGED vars  BY <2>1 DEF vars, table, Shown, Shows
  <2>2. CASE Next
    <3>1. PICK w \in Worker : Step(w) /\ overlap' = (overlap \/ Overlapping')
      BY <2>2 DEF Next
    <3> QED  BY <3>1, StepShows
  <2> QED  BY <2>1, <2>2
<1> QED  BY <1>1, <1>2, <1>3, InvHolds, PTL DEF Spec, KeepsContract

-----------------------------------------------------------------------------

(* The form of a project. *)

Rows == [EntryId -> F!Entry \cup {None}]

OneEntry  == [op : {"edit", "delete", "approve"}, by : F!By, id : EntryId, row : F!Entry]
WholeForm == [op : {"merge"}, by : F!By, rows : Rows]

\* None is no row, Idle no request.
FormFits == None \notin F!Entry /\ Idle \notin OneEntry \cup WholeForm

\* What requests have loaded: rows that once were there, and from staff none that
\* was approved when it was loaded.
Loaded(w) ==
  \/ freq[w] = Idle
  \/ /\ freq[w] \in OneEntry
     /\ freq[w].id \in used
     /\ freq[w].op = "edit" /\ freq[w].by = "staff"
          => freq[w].row.approval # "Approved"
  \/ /\ freq[w] \in WholeForm
     /\ \A e \in EntryId : freq[w].rows[e] # None => e \in used

Requests == DOMAIN freq = Worker /\ \A w \in Worker : Loaded(w)

FormInv ==
  /\ F!TypeOK
  /\ freq \in [Worker -> OneEntry \cup WholeForm \cup {Idle}]
  /\ Requests
  /\ F!ApprovedAsSigned

-----------------------------------------------------------------------------

LEMMA FormStarts ==
    ASSUME FormFits
    PROVE  F!Init => FormInv
PROOF
<1> SUFFICES ASSUME F!Init PROVE FormInv  OBVIOUS
<1>1. PICK E \in SUBSET EntryId, v \in Value :
        /\ entry = [e \in EntryId |-> IF e \in E THEN [val |-> v, approval |-> "Pending"] ELSE None]
        /\ used = E
  BY DEF F!Init
<1>2. [val |-> v, approval |-> "Pending"] \in F!Entry  BY DEF F!Entry, F!Approval
<1>3. F!TypeOK
  <2>1. entry \in [EntryId -> F!Entry \cup {None}]  BY <1>1, <1>2
  <2>2. \A e \in EntryId : entry[e] # None => e \in used  BY <1>1
  <2> QED  BY <1>1, <2>1, <2>2 DEF F!Init, F!TypeOK
<1>4. F!ApprovedAsSigned  BY <1>1 DEF F!ApprovedAsSigned
<1> QED  BY <1>3, <1>4 DEF F!Init, FormInv, Requests, Loaded

\* What a finished or a new request leaves of the others.
LEMMA RequestsKept ==
    ASSUME FormInv, used \subseteq used', NEW w \in Worker,
           NEW r \in OneEntry \cup WholeForm \cup {Idle},
           freq' = [freq EXCEPT ![w] = r],
           r # Idle => Loaded(w)'
    PROVE  freq' \in [Worker -> OneEntry \cup WholeForm \cup {Idle}] /\ Requests'
PROOF
<1>1. freq' \in [Worker -> OneEntry \cup WholeForm \cup {Idle}]  BY DEF FormInv
<1>2. ASSUME NEW v \in Worker PROVE Loaded(v)'
  <2>1. CASE v = w  BY <2>1 DEF FormInv, Loaded
  <2>2. CASE v # w
    <3>1. freq'[v] = freq[v]  BY <2>2 DEF FormInv
    <3>2. Loaded(v)  BY DEF FormInv, Requests
    <3> QED  BY <3>1, <3>2 DEF Loaded
  <2> QED  BY <2>1, <2>2
<1> QED  BY <1>1, <1>2 DEF Requests

\* The rows that a step leaves are rows of a form, and approved ones are signed.
Good(rows) ==
  /\ rows \in Rows
  /\ \A e \in EntryId : rows[e] # None => e \in used' /\ form'
  /\ \A e \in EntryId : rows[e] # None /\ rows[e].approval = "Approved" => rows[e].val = signed'[e]

\* An edit by the MD signs what it leaves approved.
LEMMA StandGood ==
    ASSUME FormInv, NEW rows \in Rows, F!Stand("md", rows)
    PROVE  /\ signed' \in [EntryId -> Value \cup {None}]
           /\ \A e \in EntryId : rows[e] # None /\ rows[e].approval = "Approved"
                                   => rows[e].val = signed'[e]
PROOF
<1>1. \A e \in EntryId :
        signed'[e] = IF rows[e] # None /\ rows[e] # entry[e] /\ rows[e].approval = "Approved"
                     THEN rows[e].val ELSE signed[e]
  BY DEF F!Stand
<1>2. \A e \in EntryId : rows[e] # None => rows[e].val \in Value  BY DEF Rows, F!Entry
<1>3. signed' \in [EntryId -> Value \cup {None}]
  <2>1. signed \in [EntryId -> Value \cup {None}]  BY DEF FormInv, F!TypeOK
  <2> QED  BY <1>2, <2>1 DEF F!Stand
<1>4. ASSUME NEW e \in EntryId, rows[e] # None, rows[e].approval = "Approved"
      PROVE  rows[e].val = signed'[e]
  <2>1. CASE rows[e] # entry[e]  BY <1>1, <1>4, <2>1
  <2>2. CASE rows[e] = entry[e]  BY <1>1, <1>4, <2>2 DEF FormInv, F!ApprovedAsSigned
  <2> QED  BY <2>1, <2>2
<1> QED  BY <1>3, <1>4

\* An edit by staff signs nothing; what it changes is not approved.
LEMMA StaffGood ==
    ASSUME FormInv, NEW rows \in Rows, F!Stand("staff", rows),
           \A e \in EntryId : \/ rows[e] = entry[e] \/ rows[e] = None
                              \/ rows[e].approval # "Approved"
    PROVE  /\ signed' \in [EntryId -> Value \cup {None}]
           /\ \A e \in EntryId : rows[e] # None /\ rows[e].approval = "Approved"
                                   => rows[e].val = signed'[e]
PROOF
<1>1. signed \in [EntryId -> Value \cup {None}]  BY DEF FormInv, F!TypeOK
<1>2. signed' = signed  BY <1>1 DEF F!Stand
<1> QED  BY <1>1, <1>2 DEF FormInv, F!ApprovedAsSigned

-----------------------------------------------------------------------------

LEMMA AppendKeeps ==
    ASSUME FormFits, FormInv, NEW rows \in SUBSET EntryId, NEW bad \in BOOLEAN,
           F!Append(rows, bad)
    PROVE  FormInv'
PROOF
<1>1. PICK kept \in SUBSET rows, v \in Value :
        /\ entry' = [e \in EntryId |-> IF e \in kept THEN [val |-> v, approval |-> "Pending"] ELSE entry[e]]
        /\ used' = used \cup kept
  BY DEF F!Append
<1>2. UNCHANGED <<form, freq, signed>> /\ form  BY DEF F!Append
<1>3. [val |-> v, approval |-> "Pending"] \in F!Entry  BY DEF F!Entry, F!Approval
<1>4. F!TypeOK'
  <2>1. entry' \in [EntryId -> F!Entry \cup {None}]  BY <1>1, <1>3 DEF FormInv, F!TypeOK
  <2>2. \A e \in EntryId : entry'[e] # None => e \in used' /\ form'
    BY <1>1, <1>2 DEF FormInv, F!TypeOK
  <2> QED  BY <1>1, <1>2, <2>1, <2>2 DEF FormInv, F!TypeOK
<1>5. F!ApprovedAsSigned'  BY <1>1, <1>2 DEF FormInv, F!ApprovedAsSigned
<1>6. freq' = freq /\ used \subseteq used'  BY <1>1, <1>2
<1>7. Requests'  BY <1>6 DEF FormInv, Requests, Loaded
<1> QED  BY <1>4, <1>5, <1>6, <1>7 DEF FormInv

LEMMA LoadKeeps ==
    ASSUME FormFits, FormInv, NEW w \in Worker, NEW by \in F!By,
           \/ \E op \in {"edit", "delete", "approve"}, e \in EntryId : F!LoadEntry(w, op, by, e)
           \/ F!LoadForm(w, by)
    PROVE  FormInv'
PROOF
<1>1. UNCHANGED <<form, entry, used, signed>>  BY DEF F!LoadEntry, F!LoadForm
<1>2. F!TypeOK' /\ F!ApprovedAsSigned'  BY <1>1 DEF FormInv, F!TypeOK, F!ApprovedAsSigned
<1>3. ASSUME NEW op \in {"edit", "delete", "approve"}, NEW e \in EntryId,
             F!LoadEntry(w, op, by, e)
      PROVE  freq' \in [Worker -> OneEntry \cup WholeForm \cup {Idle}] /\ Requests'
  <2> DEFINE r == [op |-> op, by |-> by, id |-> e, row |-> entry[e]]
  <2>1. entry[e] \in F!Entry /\ e \in used  BY <1>3 DEF F!LoadEntry, FormInv, F!TypeOK
  <2>2. r \in OneEntry  BY <2>1 DEF OneEntry
  <2>3. freq' = [freq EXCEPT ![w] = r]  BY <1>3 DEF F!LoadEntry
  <2>4. freq'[w] = r  BY <2>3 DEF FormInv
  <2>5. op = "edit" /\ by = "staff" => entry[e].approval # "Approved"
    BY <1>3 DEF F!LoadEntry, F!Locked
  <2>6. Loaded(w)'  BY <1>1, <2>1, <2>2, <2>4, <2>5 DEF Loaded
  <2> HIDE DEF r
  <2> QED  BY <1>1, <2>2, <2>3, <2>6, RequestsKept
<1>4. CASE F!LoadForm(w, by)
  <2> DEFINE r == [op |-> "merge", by |-> by, rows |-> entry]
  <2>1. entry \in Rows /\ \A e \in EntryId : entry[e] # None => e \in used
    BY DEF FormInv, F!TypeOK, Rows
  <2>2. r \in WholeForm  BY <2>1 DEF WholeForm
  <2>3. freq' = [freq EXCEPT ![w] = r]  BY <1>4 DEF F!LoadForm
  <2>4. freq'[w] = r  BY <2>3 DEF FormInv
  <2>5. Loaded(w)'  BY <1>1, <2>1, <2>2, <2>4 DEF Loaded
  <2> HIDE DEF r
  <2>6. freq' \in [Worker -> OneEntry \cup WholeForm \cup {Idle}] /\ Requests'
    BY <1>1, <2>2, <2>3, <2>5, RequestsKept
  <2> QED  BY <1>2, <2>6 DEF FormInv
<1> QED  BY <1>2, <1>3, <1>4 DEF FormInv

\* The end of a request that leaves good rows.
LEMMA Finishes ==
    ASSUME FormFits, FormInv, NEW w \in Worker, F!Finish(w), UNCHANGED form,
           used \subseteq used', used' \subseteq EntryId,
           signed' \in [EntryId -> Value \cup {None}], Good(entry')
    PROVE  FormInv'
PROOF
<1>1. F!TypeOK'  BY DEF FormInv, F!TypeOK, Good, Rows
<1>2. F!ApprovedAsSigned'  BY DEF F!ApprovedAsSigned, Good
<1>3. freq' \in [Worker -> OneEntry \cup WholeForm \cup {Idle}] /\ Requests'
  BY RequestsKept DEF F!Finish
<1> QED  BY <1>1, <1>2, <1>3 DEF FormInv

\* The rows that are there are good.
LEMMA NowGood ==
    ASSUME FormInv, used \subseteq used', UNCHANGED <<form, signed>>
    PROVE  Good(entry) /\ signed' \in [EntryId -> Value \cup {None}]
BY DEF FormInv, F!TypeOK, F!ApprovedAsSigned, Good, Rows

\* What a worker has loaded, by the operation.
LEMMA FormHolds ==
    ASSUME FormFits, FormInv, NEW w \in Worker, freq[w] # Idle
    PROVE  /\ freq[w].op # "merge" =>
                /\ freq[w] \in OneEntry /\ freq[w].id \in used
                /\ freq[w].op = "edit" /\ freq[w].by = "staff"
                     => freq[w].row.approval # "Approved"
           /\ freq[w].op = "merge" =>
                /\ freq[w] \in WholeForm
                /\ \A e \in EntryId : freq[w].rows[e] # None => e \in used
BY DEF FormInv, Requests, Loaded, OneEntry, WholeForm

LEMMA EditKeeps ==
    ASSUME FormFits, FormInv, NEW w \in Worker, F!SaveEdit(w)
    PROVE  FormInv'
PROOF
<1> DEFINE r == freq[w]
<1>1. F!Finish(w) /\ UNCHANGED <<form, used>> /\ r # Idle /\ r.op = "edit"  BY DEF F!SaveEdit
<1>2. /\ r \in OneEntry /\ r.id \in used
      /\ r.by = "staff" => r.row.approval # "Approved"
  BY <1>1, FormHolds
<1>3. used \subseteq EntryId  BY DEF FormInv, F!TypeOK
<1>4. CASE ~form
  <2>1. UNCHANGED <<entry, signed>>  BY <1>4 DEF F!SaveEdit
  <2> QED  BY <1>1, <1>3, <2>1, NowGood, Finishes
<1>5. CASE form
  <2>1. PICK v \in Value :
          entry' = F!SaveWhole(entry, r.id, [r.row EXCEPT !.val = v]) /\ F!Stand(r.by, entry')
    BY <1>5 DEF F!SaveEdit
  <2> DEFINE row == [r.row EXCEPT !.val = v]
  <2>2. r.row \in F!Entry /\ r.id \in EntryId /\ r.by \in F!By  BY <1>2 DEF OneEntry
  <2>3. row \in F!Entry /\ row.approval = r.row.approval  BY <2>2 DEF F!Entry
  <2>4. entry' = [entry EXCEPT ![r.id] = row]  BY <2>1 DEF F!SaveWhole
  <2>5. entry \in Rows  BY DEF FormInv, F!TypeOK, Rows
  <2> HIDE DEF row
  <2>6. entry' \in Rows /\ entry'[r.id] = row
        /\ \A e \in EntryId \ {r.id} : entry'[e] = entry[e]
    BY <2>2, <2>3, <2>4, <2>5 DEF Rows
  <2>7. \A e \in EntryId : entry'[e] # None => e \in used' /\ form'
    BY <1>1, <1>2, <1>5, <2>6 DEF FormInv, F!TypeOK
  <2>8. /\ signed' \in [EntryId -> Value \cup {None}]
        /\ \A e \in EntryId : entry'[e] # None /\ entry'[e].approval = "Approved"
                                => entry'[e].val = signed'[e]
    <3>1. CASE r.by = "md"  BY <2>1, <2>6, <3>1, StandGood
    <3>2. CASE r.by = "staff"
      <4>1. \A e \in EntryId : entry'[e] = entry[e] \/ entry'[e].approval # "Approved"
        BY <1>2, <2>3, <2>6, <3>2
      <4> QED  BY <2>1, <2>6, <3>2, <4>1, StaffGood
    <3> QED  BY <2>2, <3>1, <3>2 DEF F!By
  <2>9. Good(entry')  BY <2>6, <2>7, <2>8 DEF Good
  <2> QED  BY <1>1, <1>3, <2>8, <2>9, Finishes
<1> QED  BY <1>4, <1>5

LEMMA DeleteKeeps ==
    ASSUME FormFits, FormInv, NEW w \in Worker, F!DeleteEntry(w)
    PROVE  FormInv'
PROOF
<1>1. F!Finish(w) /\ UNCHANGED <<form, used, signed>>
      /\ entry' = [entry EXCEPT ![freq[w].id] = None]
  BY DEF F!DeleteEntry
<1>2. Good(entry')  BY <1>1 DEF FormInv, F!TypeOK, F!ApprovedAsSigned, Good, Rows
<1> QED  BY <1>1, <1>2, Finishes DEF FormInv, F!TypeOK

LEMMA ApprovalKeeps ==
    ASSUME FormFits, FormInv, NEW w \in Worker, F!SaveApproval(w)
    PROVE  FormInv'
PROOF
<1> DEFINE e == freq[w].id
<1>1. F!Finish(w) /\ UNCHANGED <<form, used>> /\ freq[w] # Idle /\ freq[w].op = "approve"
  BY DEF F!SaveApproval
<1>2. e \in EntryId /\ e \in used /\ used \subseteq EntryId
  BY <1>1, FormHolds DEF OneEntry, FormInv, F!TypeOK
<1>3. CASE entry[e] = None
  <2>1. UNCHANGED <<entry, signed>>  BY <1>3 DEF F!SaveApproval
  <2> QED  BY <1>1, <1>2, <2>1, NowGood, Finishes
<1>4. CASE entry[e] # None
  <2>1. PICK a \in F!Approval :
          /\ entry' = [entry EXCEPT ![e].approval = a]
          /\ signed' = IF a = "Approved" THEN [signed EXCEPT ![e] = entry[e].val] ELSE signed
    BY <1>4 DEF F!SaveApproval
  <2>2. entry[e] \in F!Entry  BY <1>2, <1>4 DEF FormInv, F!TypeOK
  <2>3. signed' \in [EntryId -> Value \cup {None}]
    BY <2>1, <2>2 DEF FormInv, F!TypeOK, F!Entry
  <2>4. /\ entry'[e] = [entry[e] EXCEPT !.approval = a]
        /\ \A d \in EntryId \ {e} : entry'[d] = entry[d] /\ signed'[d] = signed[d]
    BY <1>2, <2>1 DEF FormInv, F!TypeOK
  <2>5. [entry[e] EXCEPT !.approval = a] \in F!Entry
        /\ [entry[e] EXCEPT !.approval = a].approval = a
        /\ [entry[e] EXCEPT !.approval = a].val = entry[e].val
    BY <2>2 DEF F!Entry
  <2>6. entry' \in Rows  BY <1>2, <2>1, <2>5 DEF FormInv, F!TypeOK, Rows
  <2>7. \A d \in EntryId : entry'[d] # None => d \in used' /\ form'
    BY <1>1, <1>2, <1>4, <2>4 DEF FormInv, F!TypeOK
  <2>8. a = "Approved" => signed'[e] = entry[e].val
    BY <1>2, <2>1 DEF FormInv, F!TypeOK
  <2>9. \A d \in EntryId : entry'[d] # None /\ entry'[d].approval = "Approved"
                             => entry'[d].val = signed'[d]
    BY <2>4, <2>5, <2>8 DEF FormInv, F!ApprovedAsSigned
  <2>10. Good(entry')  BY <2>6, <2>7, <2>9 DEF Good
  <2> QED  BY <1>1, <1>2, <2>3, <2>10, Finishes
<1> QED  BY <1>3, <1>4

\* Each row that a merge leaves: as it was, gone, or as it was loaded but for the value.
LEMMA MergedRow ==
    ASSUME FormFits, FormInv, NEW r \in WholeForm, NEW e \in EntryId,
           \A d \in EntryId : r.rows[d] # None => d \in used,
           NEW sent \in [EntryId -> Value \cup {None}]
    PROVE  \/ F!Merged(r, sent, e) = entry[e]
           \/ F!Merged(r, sent, e) = None
           \/ /\ F!Merged(r, sent, e) \in F!Entry /\ e \in used
              /\ r.by = "staff" => F!Merged(r, sent, e).approval # "Approved"
PROOF
<1> DEFINE old == r.rows[e]  row == [old EXCEPT !.val = sent[e]]
<1>1. SUFFICES ASSUME old # None, sent[e] # None,
                      ~(old.approval = "Approved" /\ r.by = "staff")
               PROVE  /\ F!Merged(r, sent, e) \in F!Entry /\ e \in used
                      /\ r.by = "staff" => F!Merged(r, sent, e).approval # "Approved"
  BY DEF F!Merged
<1>2. F!Merged(r, sent, e) = F!SaveWhole(entry, e, row)[e]  BY <1>1 DEF F!Merged
<1>3. old \in F!Entry /\ sent[e] \in Value  BY <1>1 DEF WholeForm, Rows
<1>4. row \in F!Entry /\ row.approval = old.approval  BY <1>3 DEF F!Entry
<1>5. F!Merged(r, sent, e) = row  BY <1>2 DEF F!SaveWhole, FormInv, F!TypeOK
<1> QED  BY <1>1, <1>4, <1>5

LEMMA MergeKeeps ==
    ASSUME FormFits, FormInv, NEW w \in Worker, F!SaveForm(w)
    PROVE  FormInv'
PROOF
<1> DEFINE r == freq[w]
<1>1. F!Finish(w) /\ UNCHANGED form /\ r # Idle /\ r.op = "merge"  BY DEF F!SaveForm
<1>2. r \in WholeForm /\ \A e \in EntryId : r.rows[e] # None => e \in used
  BY <1>1, FormHolds
<1>3. used \subseteq EntryId  BY DEF FormInv, F!TypeOK
<1>4. PICK sent \in [EntryId -> Value \cup {None}], new \in SUBSET (EntryId \ used), v \in Value :
        LET rows == [e \in EntryId |-> IF e \in new THEN [val |-> v, approval |-> "Pending"]
                                       ELSE F!Merged(r, sent, e)]
        IN  IF form THEN entry' = rows /\ used' = used \cup new /\ F!Stand(r.by, rows)
            ELSE UNCHANGED <<entry, used, signed>>
  BY DEF F!SaveForm
<1>5. CASE ~form  BY <1>1, <1>3, <1>4, <1>5, NowGood, Finishes
<1>6. CASE form
  <2>1. /\ entry' = [e \in EntryId |-> IF e \in new THEN [val |-> v, approval |-> "Pending"]
                                       ELSE F!Merged(r, sent, e)]
        /\ used' = used \cup new /\ F!Stand(r.by, entry')
    BY <1>4, <1>6
  <2>2. [val |-> v, approval |-> "Pending"] \in F!Entry  BY DEF F!Entry, F!Approval
  <2>3. entry \in Rows  BY DEF FormInv, F!TypeOK, Rows
  <2>4. \A e \in EntryId :
          \/ entry'[e] = entry[e]
          \/ entry'[e] = None
          \/ /\ entry'[e] \in F!Entry /\ e \in used'
             /\ r.by = "staff" => entry'[e].approval # "Approved"
    <3> TAKE e \in EntryId
    <3>1. CASE e \in new
      <4>1. entry'[e] = [val |-> v, approval |-> "Pending"]  BY <2>1, <3>1
      <4> QED  BY <2>1, <2>2, <3>1, <4>1
    <3>2. CASE e \notin new
      <4>1. entry'[e] = F!Merged(r, sent, e)  BY <2>1, <3>2
      <4> QED  BY <1>2, <2>1, <4>1, MergedRow
    <3> QED  BY <3>1, <3>2
  <2>5. entry' \in Rows
    <3>1. \A e \in EntryId : entry'[e] \in F!Entry \cup {None}  BY <2>3, <2>4 DEF Rows
    <3> QED  BY <2>1, <3>1 DEF Rows
  <2>6. \A e \in EntryId : entry'[e] # None => e \in used' /\ form'
    BY <1>1, <1>6, <2>1, <2>4 DEF FormInv, F!TypeOK
  <2>7. /\ signed' \in [EntryId -> Value \cup {None}]
        /\ \A e \in EntryId : entry'[e] # None /\ entry'[e].approval = "Approved"
                                => entry'[e].val = signed'[e]
    <3>1. CASE r.by = "md"  BY <2>1, <2>5, <3>1, StandGood
    <3>2. CASE r.by = "staff"  BY <2>1, <2>4, <2>5, <3>2, StaffGood
    <3>3. r.by \in F!By  BY <1>2 DEF WholeForm
    <3> QED  BY <3>1, <3>2, <3>3 DEF F!By
  <2>8. Good(entry')  BY <2>5, <2>6, <2>7 DEF Good
  <2> QED  BY <1>1, <1>3, <2>1, <2>7, <2>8, Finishes
<1> QED  BY <1>5, <1>6

LEMMA FormKept ==
    ASSUME FormFits, FormInv, [F!Next]_(F!formVars)
    PROVE  FormInv'
PROOF
<1>1. CASE F!DeleteForm
  <2>1. UNCHANGED <<freq, used, signed>> /\ form' = FALSE
        /\ entry' = [e \in EntryId |-> None]
    BY <1>1 DEF F!DeleteForm
  <2>2. F!TypeOK' /\ F!ApprovedAsSigned'  BY <2>1 DEF FormInv, F!TypeOK, F!ApprovedAsSigned
  <2>3. Requests'  BY <2>1 DEF FormInv, Requests, Loaded
  <2> QED  BY <2>1, <2>2, <2>3 DEF FormInv
<1>2. CASE UNCHANGED F!formVars
  BY <1>2 DEF F!formVars, FormInv, F!TypeOK, F!ApprovedAsSigned, Requests, Loaded
<1> QED
  BY <1>1, <1>2, AppendKeeps, LoadKeeps, EditKeeps, DeleteKeeps, ApprovalKeeps, MergeKeeps
     DEF F!Next

-----------------------------------------------------------------------------
(* Structures. *)

\* What a request on a structure has loaded or saved.
StructTask == [op : {"mirror", "unified"}, row : S!Columns]
              \cup [op : {"update", "destroy"}, by : Module, row : S!Columns]

\* None is no row and no content, Idle no request; added service types are others than
\* the built-in ones.
StructFits == /\ None \notin S!Columns /\ None \notin S!Content /\ Idle \notin StructTask
              /\ Extra \cap Module = {}

Mirroring(w) == stask[w] # Idle /\ stask[w].op = "mirror"

\* Whoever saved the row last has mirrored it, or is about to.
Matched ==
  ~behind =>
    /\ \A v, w \in Worker : Mirroring(v) /\ Mirroring(w) => v = w
    /\ struct # None => \A m \in Module : struct.col[m] = "filled" =>
         /\ ~S!Unmirrored => state[m] # None
         /\ \A w \in Worker : Mirroring(w) => stask[w].row.has[m] \/ stask[w].row.col[m] = "filled"

StructTyped == /\ S!TypeOK /\ behind \in BOOLEAN
               /\ stask \in [Worker -> StructTask \cup {Idle}]
               /\ ~made => struct = None /\ \A w \in Worker : stask[w] = Idle

StructInv == StructTyped /\ Matched

LEMMA ColumnsAre ==
    ASSUME NEW row \in S!Columns, NEW m \in Module
    PROVE  row.col[m] \in S!Content /\ row.has[m] \in BOOLEAN
BY DEF S!Columns

LEMMA StructTaskOf ==
    ASSUME StructTyped, NEW w \in Worker, stask[w] # Idle
    PROVE  /\ stask[w].row \in S!Columns
           /\ stask[w].op \in {"update", "destroy"} => stask[w].by \in Module
BY DEF StructTyped, StructTask

\* What the rows are made of.
LEMMA RowsMade ==
    ASSUME StructFits
    PROVE  /\ S!Blank \in S!Columns /\ S!NoStates \in [S!Code -> S!Content \cup {None}]
           /\ \A row \in S!Columns, m \in Module, c \in S!Content \cup {None} :
                S!ByModule(row, m, c) \in S!Columns
           /\ \A t \in S!Triples : S!ByTriples(t) \in S!Columns
           /\ \A row \in S!Columns, m \in Module : S!Released(row, m) \in S!Columns
           /\ \A s \in [S!Code -> S!Content \cup {None}] : S!FromStates(s) \in S!Columns
PROOF
<1>1. S!Blank \in S!Columns /\ S!NoStates \in [S!Code -> S!Content \cup {None}]
  BY DEF S!Blank, S!Columns, S!NoStates, S!Content
<1>2. \A row \in S!Columns, m \in Module, c \in S!Content \cup {None} : S!ByModule(row, m, c) \in S!Columns
  BY DEF S!ByModule, S!Columns
<1>3. \A t \in S!Triples : S!ByTriples(t) \in S!Columns
  BY DEF S!ByTriples, S!Columns, S!Triples
<1>4. \A row \in S!Columns, m \in Module : S!Released(row, m) \in S!Columns
  BY DEF S!Released, S!Columns, S!Content
<1>5. \A s \in [S!Code -> S!Content \cup {None}] : S!FromStates(s) \in S!Columns
  <2>1. SUFFICES ASSUME NEW s \in [S!Code -> S!Content \cup {None}]  PROVE S!FromStates(s) \in S!Columns
    OBVIOUS
  <2>2. \A m \in Module : (IF s[m] = None THEN "blank" ELSE s[m]) \in S!Content
    BY DEF S!Code, S!Content
  <2> QED  BY <2>2 DEF S!FromStates, S!Columns
<1> QED  BY <1>1, <1>2, <1>3, <1>4, <1>5

LEMMA StatesMade ==
    ASSUME StructFits, NEW row \in S!Columns, NEW s \in [S!Code -> S!Content \cup {None}]
    PROVE  /\ S!Mirrored(row, s) \in [S!Code -> S!Content \cup {None}]
           /\ \A m \in Module : row.has[m] \/ row.col[m] = "filled" => S!Mirrored(row, s)[m] # None
           /\ \A items \in S!Items : S!Upserted(s, items) \in [S!Code -> S!Content \cup {None}]
PROOF
<1>1. S!Mirrored(row, s) \in [S!Code -> S!Content \cup {None}]
  BY DEF S!Mirrored, S!Columns, S!Code
<1>2. ASSUME NEW m \in Module, row.has[m] \/ row.col[m] = "filled"
      PROVE  S!Mirrored(row, s)[m] # None
  <2>1. m \in S!Code /\ S!Mirrored(row, s)[m] = row.col[m]  BY <1>2 DEF S!Mirrored, S!Code
  <2> QED  BY <2>1, ColumnsAre DEF StructFits
<1>3. ASSUME NEW items \in S!Items
      PROVE  S!Upserted(s, items) \in [S!Code -> S!Content \cup {None}]
  <2>1. PICK c \in S!Code : items \in [{c} -> S!Content]  BY DEF S!Items
  <2> QED  BY <2>1 DEF S!Upserted
<1> QED  BY <1>1, <1>2, <1>3

LEMMA FilledStates ==
    ASSUME StructFits, NEW s \in [S!Code -> S!Content \cup {None}], NEW m \in Module,
           S!FromStates(s).col[m] = "filled"
    PROVE  s[m] # None
BY DEF S!FromStates

LEMMA StructStarts == StructFits /\ S!Init => StructInv
PROOF
<1> SUFFICES ASSUME StructFits, S!Init  PROVE StructInv
  OBVIOUS
<1>1. /\ struct = None /\ state = S!NoStates /\ made = FALSE /\ behind = FALSE
      /\ types = [c \in Extra |-> "active"] /\ stask = [w \in Worker |-> Idle]
  BY DEF S!Init
<1>2. S!TypeOK  BY <1>1, RowsMade DEF S!TypeOK, S!NoStates
<1>3. Matched  BY <1>1 DEF Matched, Mirroring
<1> QED  BY <1>1, <1>2, <1>3 DEF StructInv, StructTyped

\* A save of the whole row in one transaction with its states.
LEMMA SavedTogether ==
    ASSUME StructFits, StructInv, struct' \in S!Columns,
           state' \in [S!Code -> S!Content \cup {None}],
           \A m \in Module : struct'.col[m] = "filled" => state'[m] # None,
           behind' = S!Unmirrored, made', types' = types,
           stask' \in [Worker -> StructTask \cup {Idle}],
           \A w \in Worker : stask'[w] # Idle => stask'[w] = stask[w]
    PROVE  StructInv'
PROOF
<1>1. struct' # None  BY DEF StructFits
<1>2. S!TypeOK'  BY <1>1 DEF StructInv, StructTyped, S!TypeOK
<1>3. behind' \in BOOLEAN  BY DEF S!Unmirrored
<1>4. ~behind' => \A w \in Worker : ~Mirroring(w)'
  BY DEF S!Unmirrored, Mirroring
<1>5. Matched'  BY <1>4 DEF Matched, S!Unmirrored, Mirroring
<1> QED  BY <1>2, <1>3, <1>5 DEF StructInv, StructTyped

LEMMA StructStep ==
    ASSUME StructFits, StructInv, [S!Next]_(S!structVars)
    PROVE  StructInv'
PROOF
<1>0. /\ struct \in S!Columns \cup {None} /\ state \in [S!Code -> S!Content \cup {None}]
      /\ types \in [Extra -> {"active", "inactive", "gone"}]
      /\ struct = None => \A c \in S!Code : state[c] = None
      /\ behind \in BOOLEAN /\ stask \in [Worker -> StructTask \cup {Idle}]
      /\ ~made => struct = None /\ \A w \in Worker : stask[w] = Idle
      /\ Matched
  BY DEF StructInv, StructTyped, S!TypeOK
<1>a. StructTyped  BY DEF StructInv
\* A request loads the row.
<1>b. ASSUME NEW w \in Worker, stask[w] = Idle, struct # None, NEW t \in StructTask, t.op # "mirror",
             stask' = [stask EXCEPT ![w] = t], UNCHANGED <<struct, state, types, made, behind>>
      PROVE  StructInv'
  <2>1. stask' \in [Worker -> StructTask \cup {Idle}] /\ made'  BY <1>0, <1>b
  <2>2. \A v \in Worker : (Mirroring(v)' <=> Mirroring(v)) /\ (Mirroring(v) => stask'[v] = stask[v])
    BY <1>0, <1>b DEF Mirroring
  <2>3. S!Unmirrored' <=> S!Unmirrored  BY <2>2 DEF S!Unmirrored, Mirroring
  <2>4. Matched'  BY <1>0, <1>b, <2>2, <2>3 DEF Matched
  <2>5. S!TypeOK'  BY <1>0, <1>b DEF S!TypeOK
  <2> QED  BY <1>0, <1>b, <2>1, <2>4, <2>5 DEF StructInv, StructTyped
<1>1. ASSUME NEW w \in Worker, NEW m \in Module, NEW c \in S!Content, S!CreateByModule(w, m, c)
      PROVE  StructInv'
  <2> DEFINE row == S!ByModule(S!Blank, m, c)
             t == [op |-> "mirror", row |-> row]
  <2>1. /\ struct' = row /\ made' /\ stask' = [stask EXCEPT ![w] = t]
        /\ ~made /\ UNCHANGED <<state, types, behind>>
    BY <1>1 DEF S!CreateByModule
  <2>2. row \in S!Columns  BY RowsMade
  <2>3. t \in StructTask /\ t.op = "mirror" /\ t.row = row  BY <2>2 DEF StructTask
  <2> HIDE DEF row, t
  <2>4. stask' \in [Worker -> StructTask \cup {Idle}]  BY <1>0, <2>1, <2>3
  <2>5. \A v \in Worker : Mirroring(v)' => v = w /\ stask'[v].row = row
    BY <1>0, <2>1, <2>3 DEF Mirroring
  <2>6. S!Unmirrored'
    <3>1. stask'[w] = t /\ t # Idle  BY <1>0, <2>1, <2>3 DEF StructFits
    <3> QED  BY <2>3, <3>1 DEF S!Unmirrored
  <2>7. Matched'  BY <2>1, <2>5, <2>6 DEF Matched
  <2>8. S!TypeOK' /\ struct' # None  BY <1>0, <2>1, <2>2 DEF S!TypeOK, StructFits
  <2> QED  BY <1>0, <2>1, <2>4, <2>7, <2>8 DEF StructInv, StructTyped
\* Rows made with their states.
<1>d. ASSUME ~made, struct' \in S!Columns, state' \in [S!Code -> S!Content \cup {None}],
             \A m \in Module : struct'.col[m] = "filled" => state'[m] # None,
             made', UNCHANGED <<types, stask, behind>>
      PROVE  StructInv'
  <2>1. S!TypeOK' /\ struct' # None  BY <1>0, <1>d DEF S!TypeOK, StructFits
  <2>2. \A v \in Worker : ~Mirroring(v)'  BY <1>0, <1>d DEF Mirroring
  <2>3. Matched'  BY <1>d, <2>2 DEF Matched
  <2> QED  BY <1>0, <1>d, <2>1, <2>3 DEF StructInv, StructTyped
<1>2. ASSUME NEW m \in Module, NEW c \in S!Content, S!ImportSheet(m, c)
      PROVE  StructInv'
  <2>1. /\ struct' = S!ByModule(S!Blank, m, c) /\ state' = S!Mirrored(struct', S!NoStates)
        /\ ~made /\ made' /\ UNCHANGED <<types, stask, behind>>
    BY <1>2 DEF S!ImportSheet
  <2>2. struct' \in S!Columns /\ S!NoStates \in [S!Code -> S!Content \cup {None}]
    BY <2>1, RowsMade
  <2> QED  BY <1>d, <2>1, <2>2, StatesMade
<1>3. ASSUME NEW t \in S!Triples, S!CreateUnified(t)
      PROVE  StructInv'
  <2>1. /\ struct' = S!ByTriples(t) /\ state' = S!Mirrored(struct', S!NoStates)
        /\ ~made /\ made' /\ UNCHANGED <<types, stask, behind>>
    BY <1>3 DEF S!CreateUnified
  <2>2. struct' \in S!Columns /\ S!NoStates \in [S!Code -> S!Content \cup {None}]
    BY <2>1, RowsMade
  <2> QED  BY <1>d, <2>1, <2>2, StatesMade
<1>4. ASSUME NEW items \in S!Items, S!CreateByServices(items)
      PROVE  StructInv'
  <2>1. /\ state' = S!Upserted(S!NoStates, items) /\ struct' = S!FromStates(state')
        /\ ~made /\ made' /\ UNCHANGED <<types, stask, behind>>
    BY <1>4 DEF S!CreateByServices
  <2>2. S!Blank \in S!Columns /\ S!NoStates \in [S!Code -> S!Content \cup {None}]  BY RowsMade
  <2>3. state' \in [S!Code -> S!Content \cup {None}]  BY <2>1, <2>2, StatesMade
  <2>4. struct' \in S!Columns  BY <2>1, <2>3, RowsMade
  <2>5. \A m \in Module : struct'.col[m] = "filled" => state'[m] # None
    BY <2>1, <2>3, FilledStates
  <2> QED  BY <1>d, <2>1, <2>3, <2>4, <2>5
<1>5. ASSUME NEW w \in Worker, NEW op \in {"update", "destroy"}, NEW m \in Module, S!LoadByModule(w, op, m)
      PROVE  StructInv'
  <2> DEFINE t == [op |-> op, by |-> m, row |-> struct]
  <2>1. /\ stask[w] = Idle /\ struct # None /\ stask' = [stask EXCEPT ![w] = t]
        /\ UNCHANGED <<struct, state, types, made, behind>>
    BY <1>5 DEF S!LoadByModule
  <2>2. t \in StructTask /\ t.op # "mirror"
    BY <1>0, <2>1 DEF StructTask
  <2> HIDE DEF t
  <2> QED  BY <1>b, <2>1, <2>2
<1>6. ASSUME NEW w \in Worker, S!LoadUnified(w)
      PROVE  StructInv'
  <2> DEFINE t == [op |-> "unified", row |-> struct]
  <2>1. /\ stask[w] = Idle /\ struct # None /\ stask' = [stask EXCEPT ![w] = t]
        /\ UNCHANGED <<struct, state, types, made, behind>>
    BY <1>6 DEF S!LoadUnified, S!Visible
  <2>2. t \in StructTask /\ t.op # "mirror"
    BY <1>0, <2>1 DEF StructTask
  <2> HIDE DEF t
  <2> QED  BY <1>b, <2>1, <2>2
<1>7. ASSUME NEW w \in Worker, NEW c \in S!Content \cup {None}, S!SaveByModule(w, c)
      PROVE  StructInv'
  <2> DEFINE row == S!ByModule(stask[w].row, stask[w].by, c)
             t == [op |-> "mirror", row |-> row]
  <2>1. /\ stask[w] # Idle /\ stask[w].op = "update"
        /\ struct' = row /\ stask' = [stask EXCEPT ![w] = t]
        /\ behind' = S!Unmirrored /\ UNCHANGED <<state, types, made>>
    BY <1>7 DEF S!SaveByModule
  <2>2. row \in S!Columns
    <3>1. stask[w].row \in S!Columns /\ stask[w].by \in Module  BY <1>a, <2>1, StructTaskOf
    <3> QED  BY <3>1, RowsMade
  <2>3. t \in StructTask /\ t.op = "mirror" /\ t.row = row  BY <2>2 DEF StructTask
  <2> HIDE DEF row, t
  <2>4. stask' \in [Worker -> StructTask \cup {Idle}]  BY <1>0, <2>1, <2>3
  <2>5. behind' \in BOOLEAN  BY <2>1 DEF S!Unmirrored
  <2>6. ~behind' => \A v \in Worker : Mirroring(v)' => v = w /\ stask'[v].row = row
    BY <1>0, <2>1, <2>3 DEF Mirroring, S!Unmirrored
  <2>7. S!Unmirrored'
    <3>1. stask'[w] = t /\ t # Idle  BY <1>0, <2>1, <2>3 DEF StructFits
    <3> QED  BY <2>3, <3>1 DEF S!Unmirrored
  <2>8. Matched'  BY <2>1, <2>6, <2>7 DEF Matched
  <2>9. S!TypeOK' /\ struct' # None  BY <1>0, <2>1, <2>2 DEF S!TypeOK, StructFits
  <2>10. made'  BY <1>0, <2>1
  <2> QED  BY <2>4, <2>5, <2>8, <2>9, <2>10 DEF StructInv, StructTyped
\* A request ends.
<1>e. ASSUME NEW w \in Worker, S!Finish(w)
      PROVE  /\ stask' \in [Worker -> StructTask \cup {Idle}] /\ stask'[w] = Idle
             /\ \A v \in Worker : stask'[v] # Idle => stask'[v] = stask[v] /\ v # w
             /\ \A v \in Worker \ {w} : stask'[v] = stask[v]
  BY <1>0, <1>e DEF S!Finish
<1>8. ASSUME NEW w \in Worker, S!Mirror(w)
      PROVE  StructInv'
  <2>1. /\ Mirroring(w) /\ S!Finish(w) /\ UNCHANGED <<struct, types, made, behind>>
        /\ state' = IF struct = None THEN state ELSE S!Mirrored(stask[w].row, state)
    BY <1>8 DEF S!Mirror, Mirroring
  <2>2. stask[w].row \in S!Columns  BY <1>a, <2>1, StructTaskOf DEF Mirroring
  <2>3. state' \in [S!Code -> S!Content \cup {None}]  BY <1>0, <2>1, <2>2, StatesMade
  <2>4. struct' = None => \A c \in S!Code : state'[c] = None  BY <1>0, <2>1
  <2>5. ~behind => \A v \in Worker : ~Mirroring(v)'
    BY <1>0, <1>e, <2>1 DEF Matched, Mirroring
  <2>6. ~behind /\ struct # None => \A m \in Module : struct.col[m] = "filled" => state'[m] # None
    BY <1>0, <2>1, <2>2, StatesMade DEF Matched
  <2>7. Matched'  BY <2>1, <2>5, <2>6 DEF Matched
  <2>8. S!TypeOK'  BY <1>0, <2>1, <2>3, <2>4 DEF S!TypeOK
  <2>9. made'  BY <1>0, <2>1 DEF Mirroring
  <2> QED  BY <1>0, <1>e, <2>1, <2>7, <2>8, <2>9 DEF StructInv, StructTyped
<1>9. ASSUME NEW w \in Worker, NEW t \in S!Triples \cup {None}, S!SaveUnified(w, t)
      PROVE  StructInv'
  <2>1. /\ stask[w] # Idle /\ struct' = IF t = None THEN stask[w].row ELSE S!ByTriples(t)
        /\ state' = S!Mirrored(struct', state) /\ behind' = S!Unmirrored
        /\ S!Finish(w) /\ UNCHANGED <<types, made>>
    BY <1>9 DEF S!SaveUnified
  <2>2. struct' \in S!Columns  BY <1>a, <2>1, StructTaskOf, RowsMade
  <2>3. /\ state' \in [S!Code -> S!Content \cup {None}]
        /\ \A m \in Module : struct'.col[m] = "filled" => state'[m] # None
    BY <1>0, <2>1, <2>2, StatesMade
  <2>4. made'  BY <1>0, <2>1
  <2>5. /\ stask' \in [Worker -> StructTask \cup {Idle}]
        /\ \A v \in Worker : stask'[v] # Idle => stask'[v] = stask[v]
    BY <1>e, <2>1
  <2> QED  BY <2>1, <2>2, <2>3, <2>4, <2>5, SavedTogether
<1>10. ASSUME NEW w \in Worker, NEW items \in S!Items, S!SaveByServices(w, items)
       PROVE  StructInv'
  <2>1. /\ stask[w] # Idle /\ S!Finish(w) /\ UNCHANGED <<types, made>> /\ stask[w].op = "unified"
        /\ \/ /\ state' = S!Upserted(state, items) /\ struct' = S!FromStates(state')
              /\ behind' = S!Unmirrored
           \/ UNCHANGED <<state, struct, behind>>
    BY <1>10 DEF S!SaveByServices
  <2>2. made'  BY <1>0, <2>1
  <2>3. /\ stask' \in [Worker -> StructTask \cup {Idle}]
        /\ \A v \in Worker : stask'[v] # Idle => stask'[v] = stask[v]
    BY <1>e, <2>1
  <2>4. CASE /\ state' = S!Upserted(state, items) /\ struct' = S!FromStates(state')
             /\ behind' = S!Unmirrored
    <3>0. S!Blank \in S!Columns  BY RowsMade
    <3>1. state' \in [S!Code -> S!Content \cup {None}]  BY <1>0, <2>4, <3>0, StatesMade
    <3>2. struct' \in S!Columns  BY <2>4, <3>1, RowsMade
    <3>3. \A m \in Module : struct'.col[m] = "filled" => state'[m] # None
      BY <2>4, <3>1, FilledStates
    <3> QED  BY <2>1, <2>2, <2>3, <2>4, <3>1, <3>2, <3>3, SavedTogether
  <2>5. CASE UNCHANGED <<state, struct, behind>>
    <3>1. \A v \in Worker : (Mirroring(v)' <=> Mirroring(v)) /\ (Mirroring(v) => stask'[v] = stask[v])
      BY <1>e, <2>1 DEF Mirroring
    <3>2. S!Unmirrored' <=> S!Unmirrored  BY <3>1 DEF S!Unmirrored, Mirroring
    <3>3. Matched'  BY <1>0, <2>5, <3>1, <3>2 DEF Matched
    <3>4. S!TypeOK'  BY <1>0, <2>1, <2>5 DEF S!TypeOK
    <3> QED  BY <1>0, <2>2, <2>3, <2>5, <3>3, <3>4 DEF StructInv, StructTyped
  <2> QED  BY <2>1, <2>4, <2>5
\* A module's content goes, with the row or without it.
<1>f. ASSUME NEW m \in Module, NEW row, struct # None, S!Release(m, row), UNCHANGED <<types, made, behind>>,
             stask' \in [Worker -> StructTask \cup {Idle}],
             \A v \in Worker : (Mirroring(v)' <=> Mirroring(v)) /\ (Mirroring(v) => stask'[v] = stask[v])
      PROVE  StructInv'
  <2>1. made'  BY <1>0, <1>f
  <2>2. S!Unmirrored' <=> S!Unmirrored  BY <1>f DEF S!Unmirrored, Mirroring
  <2>3. CASE struct' = None /\ state' = S!NoStates
    <3>1. S!TypeOK'  BY <1>0, <1>f, <2>3, RowsMade DEF S!TypeOK, S!NoStates
    <3>2. Matched'  BY <1>0, <1>f, <2>3 DEF Matched
    <3> QED  BY <1>0, <1>f, <2>1, <3>1, <3>2 DEF StructInv, StructTyped
  <2>4. CASE struct' = S!Released(struct, m) /\ state' = S!Without(m)
    <3>1. struct' \in S!Columns /\ struct' # None  BY <1>0, <1>f, <2>4, RowsMade DEF StructFits
    <3>2. state' \in [S!Code -> S!Content \cup {None}]  BY <1>0, <2>4 DEF S!Without
    <3>3. S!TypeOK'  BY <1>0, <1>f, <3>1, <3>2 DEF S!TypeOK
    <3>4. \A o \in Module : struct'.col[o] = "filled" =>
             o # m /\ struct.col[o] = "filled" /\ state'[o] = state[o]
      <4>1. struct \in S!Columns  BY <1>0, <1>f
      <4>2. struct'.col = [struct.col EXCEPT ![m] = "blank"]  BY <2>4 DEF S!Released
      <4>3. \A o \in Module : o \in S!Code  BY DEF S!Code
      <4>4. \A o \in Module \ {m} : struct'.col[o] = struct.col[o] /\ state'[o] = state[o]
        BY <1>0, <2>4, <4>1, <4>2, <4>3 DEF S!Without, S!Columns
      <4>5. struct'.col[m] = "blank"  BY <4>1, <4>2 DEF S!Columns
      <4> QED  BY <4>4, <4>5
    <3>5. Matched'  BY <1>0, <1>f, <2>2, <3>4 DEF Matched
    <3> QED  BY <1>0, <1>f, <2>1, <3>3, <3>5 DEF StructInv, StructTyped
  <2> QED  BY <1>f, <2>3, <2>4 DEF S!Release
<1>11. ASSUME NEW w \in Worker, S!Destroy(w)
       PROVE  StructInv'
  <2>1. /\ stask[w] # Idle /\ stask[w].op = "destroy" /\ S!Finish(w) /\ UNCHANGED <<types, made, behind>>
        /\ \/ struct = None /\ UNCHANGED <<struct, state>>
           \/ struct # None /\ S!Release(stask[w].by, S!Released(stask[w].row, stask[w].by))
    BY <1>11 DEF S!Destroy
  <2>2. stask[w].by \in Module  BY <1>a, <2>1, StructTaskOf
  <2>3. /\ stask' \in [Worker -> StructTask \cup {Idle}]
        /\ \A v \in Worker : (Mirroring(v)' <=> Mirroring(v)) /\ (Mirroring(v) => stask'[v] = stask[v])
    BY <1>e, <2>1 DEF Mirroring
  <2>4. CASE struct = None /\ UNCHANGED <<struct, state>>
    <3>1. S!TypeOK'  BY <1>0, <2>1, <2>4 DEF S!TypeOK
    <3>2. S!Unmirrored' <=> S!Unmirrored  BY <2>3 DEF S!Unmirrored, Mirroring
    <3>3. Matched'  BY <1>0, <2>1, <2>3, <2>4, <3>2 DEF Matched
    <3>4. made'  BY <1>0, <2>1
    <3> QED  BY <1>0, <2>1, <2>3, <3>1, <3>3, <3>4 DEF StructInv, StructTyped
  <2>5. CASE struct # None /\ S!Release(stask[w].by, S!Released(stask[w].row, stask[w].by))
    BY <1>f, <2>1, <2>2, <2>3, <2>5
  <2> QED  BY <2>1, <2>4, <2>5
<1>12. ASSUME NEW w \in Worker, S!Kill(w)
       PROVE  StructInv'
  <2>1. /\ stask[w] # Idle /\ S!Finish(w) /\ behind' = (behind \/ stask[w].op = "mirror")
        /\ UNCHANGED <<struct, state, types, made>>
    BY <1>12 DEF S!Kill
  <2>2. behind' \in BOOLEAN  BY <1>0, <2>1
  <2>3. ~behind' => ~behind /\ ~Mirroring(w)  BY <2>1 DEF Mirroring
  <2>4. ~behind' => \A v \in Worker : (Mirroring(v)' <=> Mirroring(v)) /\ (Mirroring(v) => stask'[v] = stask[v])
    BY <1>e, <2>1, <2>3 DEF Mirroring
  <2>5. ~behind' => (S!Unmirrored' <=> S!Unmirrored)  BY <2>4 DEF S!Unmirrored, Mirroring
  <2>6. Matched'  BY <1>0, <2>1, <2>3, <2>4, <2>5 DEF Matched
  <2>7. S!TypeOK' /\ made'  BY <1>0, <2>1 DEF S!TypeOK
  <2> QED  BY <1>e, <2>1, <2>2, <2>6, <2>7 DEF StructInv, StructTyped
<1>13. ASSUME NEW m \in Module, S!DeleteAll(m)
       PROVE  StructInv'
  <2>1. /\ struct # None /\ S!Release(m, S!Released(struct, m))
        /\ UNCHANGED <<types, stask, made, behind>>
    BY <1>13 DEF S!DeleteAll
  <2>2. /\ stask' \in [Worker -> StructTask \cup {Idle}]
        /\ \A v \in Worker : (Mirroring(v)' <=> Mirroring(v)) /\ (Mirroring(v) => stask'[v] = stask[v])
    BY <1>0, <2>1 DEF Mirroring
  <2> QED  BY <1>f, <2>1, <2>2
<1>14. CASE S!DestroyUnified
  <2>1. /\ struct' = None /\ state' = S!NoStates /\ struct # None
        /\ UNCHANGED <<types, stask, made, behind>>
    BY <1>14 DEF S!DestroyUnified, S!Visible
  <2>2. S!TypeOK'  BY <1>0, <2>1, RowsMade DEF S!TypeOK, S!NoStates
  <2>3. Matched'  BY <1>0, <2>1 DEF Matched, Mirroring
  <2> QED  BY <1>0, <2>1, <2>2, <2>3 DEF StructInv, StructTyped
<1>15. ASSUME NEW c \in Extra, NEW a \in {"active", "inactive", "gone"}, S!ChangeType(c, a)
       PROVE  StructInv'
  <2>1. /\ types' = [types EXCEPT ![c] = a] /\ UNCHANGED <<struct, stask, made, behind>>
        /\ state' = state \/ state' = [state EXCEPT ![c] = None]
    BY <1>15 DEF S!ChangeType
  <2>2. /\ state' \in [S!Code -> S!Content \cup {None}]
        /\ \A d \in S!Code : state[d] = None => state'[d] = None
        /\ \A m \in Module : state'[m] = state[m]
    BY <1>0, <2>1 DEF StructFits, S!Code
  <2>3. S!TypeOK'  BY <1>0, <2>1, <2>2 DEF S!TypeOK
  <2>4. Matched'  BY <1>0, <2>1, <2>2 DEF Matched, S!Unmirrored, Mirroring
  <2> QED  BY <1>0, <2>1, <2>3, <2>4 DEF StructInv, StructTyped
<1>16. CASE UNCHANGED S!structVars
  <2>1. UNCHANGED <<struct, state, types, stask, made, behind>>  BY <1>16 DEF S!structVars
  <2>2. Matched'  BY <1>0, <2>1 DEF Matched, S!Unmirrored, Mirroring
  <2>3. S!TypeOK'  BY <1>0, <2>1 DEF S!TypeOK
  <2> QED  BY <1>0, <2>1, <2>2, <2>3 DEF StructInv, StructTyped
<1> QED
  BY <1>1, <1>2, <1>3, <1>4, <1>5, <1>6, <1>7, <1>8, <1>9, <1>10, <1>11, <1>12, <1>13, <1>14,
     <1>15, <1>16 DEF S!Next, S!Creations, S!Changes

-----------------------------------------------------------------------------
(* Booked slots. *)

\* None is no slot.
BookingFits == None \notin B!Row

BookingInv == B!TypeOK /\ B!BookedApart

Clash(x, y) == x.time # None /\ y.time # None /\ B!Meet(x.time, y.time)

LEMMA ClashBothWays ==
    ASSUME NEW x \in B!Row, NEW y \in B!Row
    PROVE  Clash(x, y) <=> Clash(y, x)
BY DEF Clash, B!Meet, B!Row, B!Interval

\* A slot that is written apart from the others that overlap it.
LEMMA SlotWritten ==
    ASSUME BookingFits, BookingInv, NEW s \in Meeting, NEW r \in B!Row,
           slots' = [slots EXCEPT ![s] = r],
           loose' \in BOOLEAN, moved' \in BOOLEAN,
           ~loose' => ~loose, ~moved' => ~moved,
           ~loose' => \A o \in B!Booked \ {s} : Clash(slots[o], r) =>
                         /\ r.members \cap slots[o].members = {} /\ r.by # slots[o].by
                         /\ moved' \/ r.room # slots[o].room \/ r.room = Outdoor
    PROVE  BookingInv'
PROOF
<1>1. /\ slots \in [Meeting -> B!Row \cup {None}]
      /\ slots' \in [Meeting -> B!Row \cup {None}]
  BY DEF BookingInv, B!TypeOK
<1>2. B!Booked' = B!Booked \cup {s} /\ slots'[s] = r /\ \A o \in B!Booked \ {s} : slots'[o] = slots[o]
  BY <1>1 DEF B!Booked, BookingFits
<1>3. \A o \in B!Booked : slots[o] \in B!Row  BY <1>1 DEF B!Booked
<1>4. ASSUME ~loose', NEW o \in B!Booked', NEW p \in B!Booked', o # p, Clash(slots'[o], slots'[p])
      PROVE  /\ slots'[o].members \cap slots'[p].members = {} /\ slots'[o].by # slots'[p].by
             /\ moved' \/ slots'[o].room # slots'[p].room \/ slots'[o].room = Outdoor
  <2>1. CASE o # s /\ p # s
    <3>1. o \in B!Booked /\ p \in B!Booked /\ slots'[o] = slots[o] /\ slots'[p] = slots[p]
      BY <1>2, <2>1
    <3> QED
      BY <1>4, <3>1 DEF BookingInv, B!BookedApart, B!PeopleApart, B!RoomsApart, Clash
  <2>2. CASE o = s
    <3>1. p \in B!Booked \ {s} /\ slots'[p] = slots[p] /\ slots[p] \in B!Row
      BY <1>2, <1>3, <1>4, <2>2
    <3>2. Clash(slots[p], r)  BY <1>2, <1>4, <2>2, <3>1, ClashBothWays
    <3> QED  BY <1>2, <1>4, <2>2, <3>1, <3>2
  <2>3. CASE p = s
    <3>1. o \in B!Booked \ {s} /\ slots'[o] = slots[o]  BY <1>2, <1>4, <2>3
    <3>2. Clash(slots[o], r)  BY <1>2, <1>4, <2>3, <3>1
    <3> QED  BY <1>2, <1>4, <2>3, <3>1, <3>2
  <2> QED  BY <2>1, <2>2, <2>3
<1>5. B!BookedApart'
  BY <1>4 DEF B!BookedApart, B!PeopleApart, B!RoomsApart, Clash
<1> QED  BY <1>1, <1>5 DEF BookingInv, B!TypeOK

LEMMA BookingStarts == B!Init => BookingInv
BY DEF B!Init, BookingInv, B!TypeOK, B!BookedApart, B!PeopleApart, B!RoomsApart, B!Booked

LEMMA BookingStep ==
    ASSUME BookingFits, BookingInv, [B!Next]_(B!slotVars)
    PROVE  BookingInv'
PROOF
<1>0. /\ slots \in [Meeting -> B!Row \cup {None}] /\ loose \in BOOLEAN /\ moved \in BOOLEAN
      /\ \A o \in B!Booked : slots[o] \in B!Row
  BY DEF BookingInv, B!TypeOK, B!Booked
\* What the check finds free is free of every slot that overlaps.
<1>1. ASSUME NEW s, NEW time, NEW o \in B!Booked \ {s}, slots[o].time # None,
             B!Meet(slots[o].time, time), NEW by, NEW people, NEW asked, NEW room,
             B!RoomFree(B!Overlapping(s, time), asked, room),
             B!PeopleFree(B!Overlapping(s, time), by, people)
      PROVE  /\ people \cap slots[o].members = {} /\ by # slots[o].by
             /\ asked # slots[o].room \/ room = Outdoor
  <2>1. o \in B!Overlapping(s, time)  BY <1>1 DEF B!Overlapping
  <2> QED  BY <1>1, <2>1 DEF B!RoomFree, B!PeopleFree
<1>2. ASSUME NEW s \in Meeting, NEW row \in B!Row, B!Book(s, row) \/ B!Change(s, row)
      PROVE  BookingInv'
  <2>1. /\ B!RoomFree(B!Overlapping(s, row.time), row.room, row.room)
        /\ B!PeopleFree(B!Overlapping(s, row.time), row.by, row.members)
        /\ slots' = [slots EXCEPT ![s] = row] /\ UNCHANGED <<loose, moved>>
    BY <1>2 DEF B!Book, B!Change
  <2>2. \A o \in B!Booked \ {s} : Clash(slots[o], row) =>
           /\ row.members \cap slots[o].members = {} /\ row.by # slots[o].by
           /\ row.room # slots[o].room \/ row.room = Outdoor
    BY <1>1, <2>1 DEF Clash
  <2> QED  BY <1>0, <2>1, <2>2, SlotWritten
<1>3. ASSUME NEW s \in Meeting, NEW row \in B!Row, B!StoreUnchecked(s, row)
      PROVE  BookingInv'
  BY <1>0, <1>3, SlotWritten DEF B!StoreUnchecked
<1>4. ASSUME NEW s \in Meeting, NEW by \in Guest, NEW time \in B!Interval,
             NEW people \in SUBSET Guest, B!Move(s, by, time, people)
      PROVE  BookingInv'
  <2> DEFINE r == [[slots[s] EXCEPT !.time = time] EXCEPT !.members = people]
  <2>1. slots[s] \in B!Row  BY <1>0, <1>4 DEF B!Move
  <2>2. /\ r \in B!Row /\ r.time = time /\ r.members = people /\ r.by = slots[s].by
    BY <2>1 DEF B!Row
  <2>3. slots' = [slots EXCEPT ![s] = r]
    <3>1. slots' = [slots EXCEPT ![s] = [[@ EXCEPT !.time = time] EXCEPT !.members = people]]
      BY <1>0, <1>4 DEF B!Move
    <3> QED  BY <1>0, <3>1
  <2> HIDE DEF r
  <2>4. /\ B!RoomFree(B!Overlapping(s, time), None, slots[s].room)
        /\ B!PeopleFree(B!Overlapping(s, time), by, people)
        /\ loose' = (loose \/ by # slots[s].by) /\ moved' = TRUE
    BY <1>4 DEF B!Move
  <2>5. by = slots[s].by => \A o \in B!Booked \ {s} : Clash(slots[o], r) =>
           r.members \cap slots[o].members = {} /\ r.by # slots[o].by
    BY <1>1, <2>2, <2>4 DEF Clash
  <2> QED  BY <1>0, <2>2, <2>3, <2>4, <2>5, SlotWritten
<1>5. ASSUME NEW s \in Meeting, B!Remove(s)
      PROVE  BookingInv'
  <2>1. /\ slots' = [slots EXCEPT ![s] = None] /\ UNCHANGED <<loose, moved>>
    BY <1>5 DEF B!Remove
  <2>2. /\ slots' \in [Meeting -> B!Row \cup {None}]
        /\ B!Booked' \subseteq B!Booked
        /\ \A o \in B!Booked' : slots'[o] = slots[o]
    BY <1>0, <2>1 DEF B!Booked
  <2>3. B!BookedApart'
    BY <2>1, <2>2 DEF BookingInv, B!BookedApart, B!PeopleApart, B!RoomsApart
  <2> QED  BY <1>0, <2>1, <2>2, <2>3 DEF BookingInv, B!TypeOK
<1>6. CASE UNCHANGED B!slotVars
  BY <1>6 DEF B!slotVars, BookingInv, B!TypeOK, B!BookedApart, B!PeopleApart, B!RoomsApart,
     B!Booked
<1> QED  BY <1>2, <1>3, <1>4, <1>5, <1>6 DEF B!Next

-----------------------------------------------------------------------------
(* Accounts. *)

\* What a request on an account has loaded.
AccountTask == [op : {"file"}, person : A!Person]
               \cup [op : {"email", "password"}, copy : A!Login]
               \cup [op : {"update"}, email : Email]
               \cup [op : {"photo", "birthday"}, copy : A!Person]

AccountInv == /\ A!TypeOK /\ A!GoneStaysGone
              /\ atask \in [Worker -> AccountTask \cup {Idle}]

LEMMA TaskOf ==
    ASSUME AccountInv, NEW w \in Worker
    PROVE  /\ A!At(w, "file") => atask[w].person \in A!Person
           /\ A!At(w, "email") \/ A!At(w, "password") => atask[w].copy \in A!Login
           /\ A!At(w, "update") => atask[w].email \in Email
           /\ A!At(w, "photo") \/ A!At(w, "birthday") => atask[w].copy \in A!Person
BY DEF AccountInv, AccountTask, A!At

LEMMA TaskSet ==
    ASSUME AccountInv, NEW w \in Worker, NEW t \in AccountTask \cup {Idle}, A!Goes(w, t)
    PROVE  atask' \in [Worker -> AccountTask \cup {Idle}]
BY DEF AccountInv, A!Goes

\* A save of a profile counts a head and refills a bucket.
LEMMA SavedProfile ==
    ASSUME MaxHeads \in Nat, AccountInv, NEW p \in A!Person, NEW n \in Nat
    PROVE  /\ A!Headed(heads[p.role] + n, p.role) \in [Role -> 0..MaxHeads]
           /\ A!Seeded(p.gender) \in {0, 1, None}
BY DEF AccountInv, A!TypeOK, A!Headed, A!Capped, A!Seeded, A!Person

LEMMA AccountStarts ==
    ASSUME MaxHeads \in Nat
    PROVE  A!Init => AccountInv
PROOF
<1> SUFFICES ASSUME A!Init  PROVE AccountInv
  OBVIOUS
<1>1. /\ login = None /\ person = None /\ bucket = None /\ filed = FALSE /\ taken = 0
      /\ heads = [r \in Role |-> 0] /\ atask = [w \in Worker |-> Idle]
  BY DEF A!Init
<1>2. heads \in [Role -> 0..MaxHeads] /\ taken \in 0..MaxHeads  BY <1>1
<1>3. atask \in [Worker -> AccountTask \cup {Idle}]  BY <1>1
<1>4. A!TypeOK  BY <1>1, <1>2 DEF A!TypeOK
<1>5. A!GoneStaysGone  BY <1>1 DEF A!GoneStaysGone
<1> QED  BY <1>3, <1>4, <1>5 DEF AccountInv

LEMMA AccountStep ==
    ASSUME MaxHeads \in Nat, AccountInv, [A!Next]_(A!accountVars)
    PROVE  AccountInv'
PROOF
<1>0. /\ login \in A!Login \cup {None} /\ person \in A!Person \cup {None}
      /\ heads \in [Role -> 0..MaxHeads] /\ bucket \in {0, 1, None}
      /\ filed \in BOOLEAN /\ taken \in 0..MaxHeads
      /\ person # None => filed
  BY DEF AccountInv, A!TypeOK, A!GoneStaysGone
<1> USE DEF AccountInv, A!TypeOK, A!GoneStaysGone
<1>1. ASSUME NEW w \in Worker, NEW email \in Email, NEW role \in Role, NEW gender \in A!Gender,
             A!FileLogin(w, email, role, gender)
      PROVE  AccountInv'
  <2> DEFINE t == [op |-> "file", person |-> [role |-> role, email |-> email, gender |-> gender]]
  <2>1. t \in AccountTask  BY DEF AccountTask, A!Person
  <2> HIDE DEF t
  <2>2. /\ login' = IF login = None THEN [email |-> email, super |-> FALSE] ELSE login
        /\ A!Goes(w, t) /\ UNCHANGED <<person, heads, bucket, filed, taken>>
    BY <1>1 DEF A!FileLogin, t
  <2>3. login' \in A!Login \cup {None}  BY <1>0, <2>2 DEF A!Login
  <2>4. atask' \in [Worker -> AccountTask \cup {Idle}]  BY <2>1, <2>2, TaskSet
  <2> QED  BY <1>0, <2>2, <2>3, <2>4
<1>2. ASSUME NEW w \in Worker, A!FileFails(w)
      PROVE  AccountInv'
  <2>1. A!Goes(w, Idle) /\ UNCHANGED <<login, person, heads, bucket, filed, taken>>
    BY <1>2 DEF A!FileFails
  <2>2. atask' \in [Worker -> AccountTask \cup {Idle}]  BY <2>1, TaskSet
  <2> QED  BY <1>0, <2>1, <2>2
<1>3. ASSUME NEW w \in Worker, A!FileProfile(w)
      PROVE  AccountInv'
  <2> DEFINE p == atask[w].person
  <2>1. p \in A!Person  BY <1>3, TaskOf DEF A!FileProfile
  <2>2. /\ login # None /\ login' = [login EXCEPT !.super = @ \/ p.role = "MD"]
        /\ person' = p /\ heads' = A!Headed(heads[p.role], p.role)
        /\ bucket' = A!Seeded(p.gender) /\ filed' = TRUE /\ taken' = taken
        /\ A!Goes(w, Idle)
    BY <1>3 DEF A!FileProfile
  <2> HIDE DEF p
  <2>3. login' \in A!Login  BY <1>0, <2>2 DEF A!Login
  <2>4. heads' \in [Role -> 0..MaxHeads] /\ bucket' \in {0, 1, None}
    <3>1. heads[p.role] + 0 = heads[p.role]  BY <1>0, <2>1 DEF A!Person
    <3> QED  BY <2>1, <2>2, <3>1, SavedProfile
  <2>5. atask' \in [Worker -> AccountTask \cup {Idle}]  BY <2>2, TaskSet
  <2> QED  BY <1>0, <2>1, <2>2, <2>3, <2>4, <2>5
<1>4. ASSUME NEW w \in Worker, A!LoadLogin(w) \/ A!LoadPassword(w)
      PROVE  AccountInv'
  <2>1. PICK op \in {"email", "password"} : A!Goes(w, [op |-> op, copy |-> login])
    BY <1>4 DEF A!LoadLogin, A!LoadPassword
  <2>2. login # None /\ UNCHANGED <<login, person, heads, bucket, filed, taken>>
    BY <1>4 DEF A!LoadLogin, A!LoadPassword
  <2>3. [op |-> op, copy |-> login] \in AccountTask  BY <1>0, <2>1, <2>2 DEF AccountTask
  <2>4. atask' \in [Worker -> AccountTask \cup {Idle}]  BY <2>1, <2>3, TaskSet
  <2> QED  BY <1>0, <2>2, <2>4
<1>5. ASSUME NEW w \in Worker, NEW email \in Email, A!SaveLogin(w, email)
      PROVE  AccountInv'
  <2>1. atask[w].copy \in A!Login  BY <1>5, TaskOf DEF A!SaveLogin
  <2>2. /\ login' = [atask[w].copy EXCEPT !.email = email]
        /\ A!Goes(w, [op |-> "update", email |-> email])
        /\ UNCHANGED <<person, heads, bucket, filed, taken>>
    BY <1>5 DEF A!SaveLogin
  <2>3. login' \in A!Login  BY <2>1, <2>2 DEF A!Login
  <2>4. [op |-> "update", email |-> email] \in AccountTask  BY DEF AccountTask
  <2>5. atask' \in [Worker -> AccountTask \cup {Idle}]  BY <2>2, <2>4, TaskSet
  <2> QED  BY <1>0, <2>2, <2>3, <2>5
<1>6. ASSUME NEW w \in Worker, NEW role \in Role, NEW gender \in A!Gender,
             A!UpdateProfile(w, role, gender)
      PROVE  AccountInv'
  <2>1. atask[w].email \in Email  BY <1>6, TaskOf DEF A!UpdateProfile
  <2>2. /\ \/ person' = person
           \/ person # None /\ person' = [role |-> role, email |-> atask[w].email, gender |-> gender]
        /\ A!Goes(w, Idle) /\ UNCHANGED <<login, heads, bucket, filed, taken>>
    BY <1>6 DEF A!UpdateProfile
  <2>3. person' = person \/ (person # None /\ person' \in A!Person)
    BY <2>1, <2>2 DEF A!Person
  <2>4. atask' \in [Worker -> AccountTask \cup {Idle}]  BY <2>2, TaskSet
  <2> QED  BY <1>0, <2>2, <2>3, <2>4
<1>7. ASSUME NEW w \in Worker, A!SavePassword(w)
      PROVE  AccountInv'
  <2>1. atask[w].copy \in A!Login  BY <1>7, TaskOf DEF A!SavePassword
  <2>2. /\ login' = IF login = None THEN None ELSE atask[w].copy
        /\ A!Goes(w, Idle) /\ UNCHANGED <<person, heads, bucket, filed, taken>>
    BY <1>7 DEF A!SavePassword
  <2>3. atask' \in [Worker -> AccountTask \cup {Idle}]  BY <2>2, TaskSet
  <2> QED  BY <1>0, <2>1, <2>2, <2>3
<1>8. ASSUME NEW w \in Worker, NEW op \in {"photo", "birthday"}, A!LoadProfile(w, op)
      PROVE  AccountInv'
  <2>1. /\ person # None /\ A!Goes(w, [op |-> op, copy |-> person])
        /\ UNCHANGED <<login, person, heads, bucket, filed, taken>>
    BY <1>8 DEF A!LoadProfile
  <2>2. [op |-> op, copy |-> person] \in AccountTask  BY <1>0, <2>1 DEF AccountTask
  <2>3. atask' \in [Worker -> AccountTask \cup {Idle}]  BY <2>1, <2>2, TaskSet
  <2> QED  BY <1>0, <2>1, <2>3
<1>9. ASSUME NEW w \in Worker, NEW saves \in {1, 2}, A!SavePhoto(w, saves)
      PROVE  AccountInv'
  <2> DEFINE p == atask[w].copy
  <2>1. p \in A!Person  BY <1>9, TaskOf DEF A!SavePhoto
  <2>2. /\ person' = IF person = None THEN None ELSE p
        /\ heads' = IF person' = None THEN heads ELSE A!Headed(heads[p.role] + saves - 1, p.role)
        /\ bucket' = IF person' = None THEN bucket ELSE A!Seeded(p.gender)
        /\ A!Goes(w, Idle) /\ UNCHANGED <<login, filed, taken>>
    BY <1>9 DEF A!SavePhoto, A!Resaved
  <2> HIDE DEF p
  <2>3. heads' \in [Role -> 0..MaxHeads] /\ bucket' \in {0, 1, None}
    <3>1. /\ saves - 1 \in Nat
          /\ heads[p.role] + saves - 1 = heads[p.role] + (saves - 1)
      BY <1>0, <2>1 DEF A!Person
    <3> QED  BY <1>0, <2>1, <2>2, <3>1, SavedProfile
  <2>4. atask' \in [Worker -> AccountTask \cup {Idle}]  BY <2>2, TaskSet
  <2> QED  BY <1>0, <2>1, <2>2, <2>3, <2>4
<1>10. ASSUME NEW w \in Worker, A!SaveBirthday(w)
       PROVE  AccountInv'
  <2> DEFINE p == atask[w].copy
  <2>1. p \in A!Person  BY <1>10, TaskOf DEF A!SaveBirthday
  <2>2. /\ heads' = IF person = None THEN heads ELSE A!Headed(heads[p.role], p.role)
        /\ bucket' = IF person = None THEN bucket ELSE A!Seeded(p.gender)
        /\ A!Goes(w, Idle) /\ UNCHANGED <<login, person, filed, taken>>
    BY <1>10 DEF A!SaveBirthday
  <2> HIDE DEF p
  <2>3. heads' \in [Role -> 0..MaxHeads] /\ bucket' \in {0, 1, None}
    <3>1. heads[p.role] + 0 = heads[p.role]  BY <1>0, <2>1 DEF A!Person
    <3> QED  BY <1>0, <2>1, <2>2, <3>1, SavedProfile
  <2>4. atask' \in [Worker -> AccountTask \cup {Idle}]  BY <2>2, TaskSet
  <2> QED  BY <1>0, <2>2, <2>3, <2>4
<1>11. CASE A!DeleteUser
  <2>1. /\ login' = None /\ person' = None /\ bucket' = None
        /\ filed' = FALSE /\ taken' = 0 /\ UNCHANGED <<heads, atask>>
    BY <1>11 DEF A!DeleteUser
  <2>2. /\ login' \in A!Login \cup {None} /\ person' \in A!Person \cup {None}
        /\ bucket' \in {0, 1, None}
    BY <2>1
  <2>5. heads' \in [Role -> 0..MaxHeads]  BY <1>0, <2>1
  <2>6. taken' \in 0..MaxHeads  BY <2>1
  <2>7. filed' \in BOOLEAN  BY <2>1
  <2>3. A!GoneStaysGone'  BY <2>1
  <2>4. atask' \in [Worker -> AccountTask \cup {Idle}]  BY <2>1
  <2> QED  BY <2>2, <2>3, <2>4, <2>5, <2>6, <2>7
<1>12. CASE A!TakeMenstrual
  BY <1>0, <1>12 DEF A!TakeMenstrual, A!Capped
<1>13. CASE A!ResetMonth
  BY <1>0, <1>13 DEF A!ResetMonth
<1>14. CASE UNCHANGED A!accountVars
  BY <1>14 DEF A!accountVars
<1> QED
  BY <1>1, <1>2, <1>3, <1>4, <1>5, <1>6, <1>7, <1>8, <1>9, <1>10, <1>11, <1>12, <1>13, <1>14
     DEF A!Next

-----------------------------------------------------------------------------
(* Groups. *)

\* What a request on a group is doing.
GroupTask == [op : {"add", "remove"}, user : Colleague, count : Nat]
             \cup [op : {"save"}, count : Nat]
             \cup [op : {"raise"}, by : Colleague, after : SUBSET Colleague]

\* A group has finitely many possible members, and Idle is no request.
GroupFits == IsFiniteSet(Colleague) /\ Idle \notin GroupTask

GroupTyped ==
  /\ group \in Nat \cup {None} /\ members \subseteq Colleague
  /\ unseen \in [Colleague -> Nat] /\ since \in [Colleague -> Nat]
  /\ posts \in 0..MaxPosts /\ asks \in 0..MaxAsks /\ gpast \in BOOLEAN
  /\ gtask \in [Worker -> GroupTask \cup {Idle}]
  /\ \A w \in Worker : G!At(w, "remove") => gtask[w].count > 0

Size(set) == Cardinality(set)

\* What the counter is while the one request there is goes on.
InStep(t, count, who) ==
  /\ t.op = "add" => count # None /\ count = Size(who) /\ t.count = Size(who) /\ t.user \notin who
  /\ t.op = "remove" => count = Size(who) /\ t.count = Size(who) /\ t.user \in who
  /\ t.op = "save" => t.count = Size(who)
  /\ t.op = "raise" /\ count # None => count = Size(who)

Counted ==
  ~gpast =>
    /\ \A v, w \in Worker : gtask[v] # Idle /\ gtask[w] # Idle => v = w
    /\ G!AtRest /\ group # None => group = Size(members)
    /\ \A w \in Worker : gtask[w] # Idle => InStep(gtask[w], group, members)

Unmissed == \A u \in Colleague : unseen[u] >= since[u]

GroupInv == GroupTyped /\ Unmissed /\ Counted

LEMMA SameSize == ASSUME NEW Z PROVE G!Cardinality(Z) = Size(Z)
BY DEF G!Cardinality, Size, Cardinality

LEMMA CountNat ==
    ASSUME GroupFits, NEW Z \in SUBSET Colleague
    PROVE  /\ Size(Z) \in Nat /\ IsFiniteSet(Z)
           /\ \A u \in Colleague \ Z : Size(Z \cup {u}) = Size(Z) + 1
           /\ \A u \in Z : Size(Z \ {u}) = Size(Z) - 1
PROOF
<1>1. IsFiniteSet(Z)  BY FS_Subset DEF GroupFits
<1> QED  BY <1>1, FS_CardinalityType, FS_AddElement, FS_RemoveElement DEF Size

\* The step of one request, alone, from t to its next state.
LEMMA OneGoesOn ==
    ASSUME NEW w \in Worker, NEW t, gtask \in [Worker -> GroupTask \cup {Idle}],
           gtask' = [gtask EXCEPT ![w] = t],
           ~gpast' => \A v \in Worker \ {w} : gtask[v] = Idle,
           ~gpast' /\ t = Idle => (group' # None => group' = Size(members')),
           ~gpast' /\ t # Idle => InStep(t, group', members')
    PROVE  Counted'
BY DEF Counted, G!AtRest

LEMMA GroupStarts ==
    ASSUME MaxPosts \in Nat, MaxAsks \in Nat
    PROVE  G!Init => GroupInv
PROOF
<1> SUFFICES ASSUME G!Init  PROVE GroupInv
  OBVIOUS
<1>1. /\ group = None /\ members = {} /\ posts = 0 /\ asks = 0 /\ gpast = FALSE
      /\ unseen = [u \in Colleague |-> 0] /\ since = [u \in Colleague |-> 0]
      /\ gtask = [w \in Worker |-> Idle]
  BY DEF G!Init
<1>2. posts \in 0..MaxPosts /\ asks \in 0..MaxAsks  BY <1>1
<1>3. GroupTyped  BY <1>1, <1>2 DEF GroupTyped, G!At
<1>4. Unmissed  BY <1>1 DEF Unmissed
<1>5. Counted  BY <1>1 DEF Counted
<1> QED  BY <1>3, <1>4, <1>5 DEF GroupInv

LEMMA GroupTaskOf ==
    ASSUME GroupTyped, NEW w \in Worker
    PROVE  /\ G!At(w, "add") => gtask[w].user \in Colleague /\ gtask[w].count \in Nat
           /\ G!At(w, "remove") => gtask[w].user \in Colleague /\ gtask[w].count \in Nat /\ gtask[w].count > 0
           /\ G!At(w, "save") => gtask[w].count \in Nat
           /\ G!At(w, "raise") => gtask[w].by \in Colleague /\ gtask[w].after \in SUBSET Colleague
BY DEF GroupTyped, GroupTask, G!At

LEMMA GroupTaskSet ==
    ASSUME GroupTyped, NEW w \in Worker, NEW t \in GroupTask \cup {Idle}, G!Goes(w, t),
           t # Idle /\ t.op = "remove" => t.count > 0
    PROVE  /\ gtask' = [gtask EXCEPT ![w] = t]
           /\ gtask' \in [Worker -> GroupTask \cup {Idle}]
           /\ \A v \in Worker : G!At(v, "remove")' => gtask'[v].count > 0
BY DEF GroupTyped, G!Goes, G!At

LEMMA GroupStep ==
    ASSUME GroupFits, MaxPosts \in Nat, MaxAsks \in Nat, GroupInv, [G!Next]_(G!groupVars)
    PROVE  GroupInv'
PROOF
<1>0. /\ group \in Nat \cup {None} /\ members \subseteq Colleague
      /\ unseen \in [Colleague -> Nat] /\ since \in [Colleague -> Nat]
      /\ posts \in 0..MaxPosts /\ asks \in 0..MaxAsks /\ gpast \in BOOLEAN
      /\ gtask \in [Worker -> GroupTask \cup {Idle}]
      /\ \A w \in Worker : G!At(w, "remove") => gtask[w].count > 0
      /\ \A u \in Colleague : unseen[u] >= since[u]
      /\ Counted
  BY DEF GroupInv, GroupTyped, Unmissed
<1>a. GroupTyped  BY DEF GroupInv
\* Of a request that begins, in case it is the only one.
<1>b. ASSUME NEW w \in Worker, NEW t \in GroupTask, G!Begin(w, t),
             UNCHANGED <<group, members, unseen, since, posts>>,
             t.op = "remove" => t.count > 0,
             group \in Nat => (group = Size(members) => InStep(t, group, members))
      PROVE  GroupInv'
  <2>1. /\ gtask[w] = Idle /\ group # None /\ asks < MaxAsks /\ asks' = asks + 1 /\ G!Goes(w, t)
        /\ gpast' = (gpast \/ ~G!AtRest)
    BY <1>b DEF G!Begin
  <2>2. /\ gtask' = [gtask EXCEPT ![w] = t] /\ gtask' \in [Worker -> GroupTask \cup {Idle}]
        /\ \A v \in Worker : G!At(v, "remove")' => gtask'[v].count > 0
    BY <1>a, <1>b, <2>1, GroupTaskSet
  <2>3. asks' \in 0..MaxAsks  BY <1>0, <2>1
  <2>4. gpast' \in BOOLEAN  BY <1>0, <2>1
  <2>5. ~gpast' => G!AtRest /\ ~gpast  BY <2>1
  <2>6. ~gpast' => group = Size(members)  BY <1>0, <2>1, <2>5 DEF Counted
  <2>7. ~gpast' => InStep(t, group', members')  BY <1>0, <1>b, <2>1, <2>6 DEF InStep
  <2>8. t # Idle  BY <1>b DEF GroupFits
  <2>9. Counted'
    BY <1>0, <2>2, <2>5, <2>7, <2>8, OneGoesOn DEF G!AtRest
  <2>10. Unmissed'  BY <1>0, <1>b DEF Unmissed
  <2>11. GroupTyped'  BY <1>0, <1>b, <2>2, <2>3, <2>4 DEF GroupTyped
  <2> QED  BY <2>9, <2>10, <2>11 DEF GroupInv
\* Of a request that goes on.
<1>c. ASSUME NEW w \in Worker, gtask[w] # Idle, gpast' = gpast
      PROVE  ~gpast' => InStep(gtask[w], group, members) /\ \A v \in Worker \ {w} : gtask[v] = Idle
  BY <1>0, <1>c DEF Counted
<1>1. ASSUME NEW w \in Worker, NEW u \in Colleague, G!Add(w, u)
      PROVE  GroupInv'
  <2> DEFINE t == [op |-> "add", user |-> u, count |-> group]
  <2>1. /\ u \notin members /\ G!Begin(w, t) /\ UNCHANGED <<group, members, unseen, since, posts>>
    BY <1>1 DEF G!Add, G!MessagesSame
  <2>2. group \in Nat  BY <1>0, <2>1 DEF G!Begin
  <2>3. t \in GroupTask  BY <2>2 DEF GroupTask
  <2>4. t.op = "add" /\ t.user = u /\ t.count = group  OBVIOUS
  <2> HIDE DEF t
  <2>5. group = Size(members) => InStep(t, group, members)  BY <2>1, <2>2, <2>4 DEF InStep, G!Begin
  <2> QED  BY <1>b, <2>1, <2>3, <2>4, <2>5
<1>2. ASSUME NEW w \in Worker, NEW u \in Colleague, G!Remove(w, u)
      PROVE  GroupInv'
  <2> DEFINE t == [op |-> "remove", user |-> u, count |-> group]
  <2>1. /\ u \in members /\ group > 2 /\ G!Begin(w, t)
        /\ UNCHANGED <<group, members, unseen, since, posts>>
    BY <1>2 DEF G!Remove, G!MessagesSame
  <2>2. group \in Nat  BY <1>0, <2>1 DEF G!Begin
  <2>3. t \in GroupTask  BY <2>2 DEF GroupTask
  <2>4. t.op = "remove" /\ t.user = u /\ t.count = group /\ group > 0  BY <2>1, <2>2
  <2> HIDE DEF t
  <2>5. group = Size(members) => InStep(t, group, members)  BY <2>1, <2>2, <2>4 DEF InStep
  <2> QED  BY <1>b, <2>1, <2>3, <2>4, <2>5
<1>3. ASSUME NEW w \in Worker, G!Rename(w)
      PROVE  GroupInv'
  <2> DEFINE t == [op |-> "save", count |-> group]
  <2>1. G!Begin(w, t) /\ UNCHANGED <<group, members, unseen, since, posts>>
    BY <1>3 DEF G!Rename, G!MessagesSame
  <2>2. group \in Nat  BY <1>0, <2>1 DEF G!Begin
  <2>3. t \in GroupTask  BY <2>2 DEF GroupTask
  <2>4. t.op = "save" /\ t.count = group  OBVIOUS
  <2> HIDE DEF t
  <2>5. group = Size(members) => InStep(t, group, members)  BY <2>1, <2>2, <2>4 DEF InStep
  <2> QED  BY <1>b, <2>1, <2>3, <2>4, <2>5
<1>4. ASSUME NEW w \in Worker, NEW u \in Colleague, G!Post(w, u)
      PROVE  GroupInv'
  <2> DEFINE t == [op |-> "raise", by |-> u, after |-> members]
  <2>1. /\ gtask[w] = Idle /\ posts < MaxPosts /\ posts' = posts + 1 /\ G!Goes(w, t)
        /\ group # None /\ gpast' = (gpast \/ ~G!AtRest)
        /\ UNCHANGED <<group, members, asks, unseen, since>>
    BY <1>4 DEF G!Post
  <2>2. t \in GroupTask  BY <1>0 DEF GroupTask
  <2>3. t.op = "raise"  OBVIOUS
  <2> HIDE DEF t
  <2>4. /\ gtask' = [gtask EXCEPT ![w] = t] /\ gtask' \in [Worker -> GroupTask \cup {Idle}]
        /\ \A v \in Worker : G!At(v, "remove")' => gtask'[v].count > 0
    BY <1>a, <2>1, <2>2, <2>3, GroupTaskSet
  <2>5. posts' \in 0..MaxPosts  BY <1>0, <2>1
  <2>6. gpast' \in BOOLEAN  BY <1>0, <2>1
  <2>7. ~gpast' => G!AtRest /\ ~gpast  BY <2>1
  <2>8. ~gpast' => InStep(t, group', members')  BY <1>0, <2>1, <2>3, <2>7 DEF InStep, Counted
  <2>9. t # Idle  BY <2>2 DEF GroupFits
  <2>10. Counted'  BY <1>0, <2>4, <2>7, <2>8, <2>9, OneGoesOn DEF G!AtRest
  <2>11. Unmissed'  BY <1>0, <2>1 DEF Unmissed
  <2>12. GroupTyped'  BY <1>0, <2>1, <2>4, <2>5, <2>6 DEF GroupTyped
  <2> QED  BY <2>10, <2>11, <2>12 DEF GroupInv
<1>5. ASSUME NEW w \in Worker, G!Insert(w)
      PROVE  GroupInv'
  <2> DEFINE u == gtask[w].user
             t == [op |-> "save", count |-> gtask[w].count + 1]
  <2>1. /\ gtask[w] # Idle /\ gtask[w].op = "add" /\ u \in Colleague /\ gtask[w].count \in Nat
    BY <1>a, <1>5, GroupTaskOf DEF G!Insert, G!At
  <2>2. /\ UNCHANGED <<group, asks, gpast, posts>> /\ G!Goes(w, t)
        /\ \/ /\ group = None \/ u \in members
              /\ UNCHANGED <<members, unseen, since>>
           \/ /\ group # None /\ u \notin members
              /\ members' = members \cup {u}
              /\ unseen' = [unseen EXCEPT ![u] = 0] /\ since' = [since EXCEPT ![u] = 0]
    BY <1>5 DEF G!Insert, G!MessagesSame
  <2>3. t \in GroupTask  BY <2>1 DEF GroupTask
  <2>4. t.op = "save" /\ t.count = gtask[w].count + 1  OBVIOUS
  <2> HIDE DEF t
  <2>5. /\ gtask' = [gtask EXCEPT ![w] = t] /\ gtask' \in [Worker -> GroupTask \cup {Idle}]
        /\ \A v \in Worker : G!At(v, "remove")' => gtask'[v].count > 0
    BY <1>a, <2>2, <2>3, <2>4, GroupTaskSet
  <2>6. ~gpast' => InStep(gtask[w], group, members) /\ \A v \in Worker \ {w} : gtask[v] = Idle
    BY <1>c, <2>1, <2>2
  <2>7. ~gpast' => InStep(t, group', members')
    <3>1. ~gpast' => group # None /\ u \notin members /\ gtask[w].count = Size(members)
      BY <2>1, <2>6 DEF InStep
    <3>2. ~gpast' => members' = members \cup {u}  BY <2>2, <3>1
    <3>3. ~gpast' => Size(members') = Size(members) + 1  BY <1>0, <2>1, <3>1, <3>2, CountNat
    <3> QED  BY <2>4, <3>1, <3>3 DEF InStep
  <2>8. t # Idle  BY <2>3 DEF GroupFits
  <2>9. Counted'  BY <1>0, <2>5, <2>6, <2>7, <2>8, OneGoesOn
  <2>10. /\ members' \subseteq Colleague /\ unseen' \in [Colleague -> Nat] /\ since' \in [Colleague -> Nat]
         /\ Unmissed'
    BY <1>0, <2>1, <2>2 DEF Unmissed
  <2>11. GroupTyped'  BY <1>0, <2>2, <2>5, <2>10 DEF GroupTyped
  <2> QED  BY <2>9, <2>10, <2>11 DEF GroupInv
<1>6. ASSUME NEW w \in Worker, G!DeleteRow(w)
      PROVE  GroupInv'
  <2> DEFINE u == gtask[w].user
             t == [op |-> "save", count |-> gtask[w].count - 1]
  <2>1. /\ gtask[w] # Idle /\ gtask[w].op = "remove" /\ u \in Colleague
        /\ gtask[w].count \in Nat /\ gtask[w].count > 0
    BY <1>a, <1>6, GroupTaskOf DEF G!DeleteRow, G!At
  <2>2. /\ UNCHANGED <<group, asks, gpast, posts, unseen, since>> /\ G!Goes(w, t)
        /\ members' = members \ {u}
    BY <1>6 DEF G!DeleteRow, G!MessagesSame, G!AfterRemoval
  <2>3. t \in GroupTask  BY <2>1 DEF GroupTask
  <2>4. t.op = "save" /\ t.count = gtask[w].count - 1  OBVIOUS
  <2> HIDE DEF t
  <2>5. /\ gtask' = [gtask EXCEPT ![w] = t] /\ gtask' \in [Worker -> GroupTask \cup {Idle}]
        /\ \A v \in Worker : G!At(v, "remove")' => gtask'[v].count > 0
    BY <1>a, <2>2, <2>3, <2>4, GroupTaskSet
  <2>6. ~gpast' => InStep(gtask[w], group, members) /\ \A v \in Worker \ {w} : gtask[v] = Idle
    BY <1>c, <2>1, <2>2
  <2>7. ~gpast' => InStep(t, group', members')
    <3>1. ~gpast' => u \in members /\ gtask[w].count = Size(members)
      BY <2>1, <2>6 DEF InStep
    <3>2. ~gpast' => Size(members') = Size(members) - 1  BY <1>0, <2>2, <3>1, CountNat
    <3> QED  BY <2>4, <3>1, <3>2 DEF InStep
  <2>8. t # Idle  BY <2>3 DEF GroupFits
  <2>9. Counted'  BY <1>0, <2>5, <2>6, <2>7, <2>8, OneGoesOn
  <2>10. members' \subseteq Colleague /\ Unmissed'  BY <1>0, <2>2 DEF Unmissed
  <2>11. GroupTyped'  BY <1>0, <2>2, <2>5, <2>10 DEF GroupTyped
  <2> QED  BY <2>9, <2>10, <2>11 DEF GroupInv
<1>7. ASSUME NEW w \in Worker, G!Save(w)
      PROVE  GroupInv'
  <2>1. gtask[w] # Idle /\ gtask[w].op = "save" /\ gtask[w].count \in Nat
    BY <1>a, <1>7, GroupTaskOf DEF G!Save, G!At
  <2>2. /\ group' = gtask[w].count /\ G!Goes(w, Idle)
        /\ UNCHANGED <<members, asks, gpast, posts, unseen, since>>
    BY <1>7 DEF G!Save, G!MessagesSame
  <2>3. /\ gtask' = [gtask EXCEPT ![w] = Idle] /\ gtask' \in [Worker -> GroupTask \cup {Idle}]
        /\ \A v \in Worker : G!At(v, "remove")' => gtask'[v].count > 0
    BY <1>a, <2>2, GroupTaskSet
  <2>4. ~gpast' => InStep(gtask[w], group, members) /\ \A v \in Worker \ {w} : gtask[v] = Idle
    BY <1>c, <2>1, <2>2
  <2>5. ~gpast' => group' = Size(members')  BY <2>1, <2>2, <2>4 DEF InStep
  <2>6. Counted'  BY <1>0, <2>3, <2>4, <2>5, OneGoesOn
  <2>7. Unmissed'  BY <1>0, <2>2 DEF Unmissed
  <2>8. GroupTyped'  BY <1>0, <2>1, <2>2, <2>3 DEF GroupTyped
  <2> QED  BY <2>6, <2>7, <2>8 DEF GroupInv
<1>8. ASSUME NEW w \in Worker, G!Raise(w)
      PROVE  GroupInv'
  <2> DEFINE others == members \ {gtask[w].by}
             after == gtask[w].after
  <2>1. gtask[w] # Idle /\ gtask[w].op = "raise"
    BY <1>8 DEF G!Raise, G!At
  <2>2. /\ unseen' = [u \in Colleague |-> IF u \in others THEN unseen[u] + 1 ELSE unseen[u]]
        /\ since' = [u \in Colleague |-> IF u \in others \cap after THEN since[u] + 1 ELSE since[u]]
        /\ G!Goes(w, Idle) /\ UNCHANGED <<group, members, posts, asks, gpast>>
    BY <1>8 DEF G!Raise, G!Raised
  <2>3. /\ gtask' = [gtask EXCEPT ![w] = Idle] /\ gtask' \in [Worker -> GroupTask \cup {Idle}]
        /\ \A v \in Worker : G!At(v, "remove")' => gtask'[v].count > 0
    BY <1>a, <2>2, GroupTaskSet
  <2>4. ~gpast' => InStep(gtask[w], group, members) /\ \A v \in Worker \ {w} : gtask[v] = Idle
    BY <1>c, <2>1, <2>2
  <2>5. ~gpast' => (group' # None => group' = Size(members'))  BY <2>1, <2>2, <2>4 DEF InStep
  <2>6. Counted'  BY <1>0, <2>3, <2>4, <2>5, OneGoesOn
  <2> HIDE DEF others, after
  <2>7. unseen' \in [Colleague -> Nat] /\ since' \in [Colleague -> Nat]  BY <1>0, <2>2
  <2>8. \A u \in Colleague : unseen[u] >= since[u] => unseen'[u] >= since'[u]  BY <1>0, <2>2
  <2>9. Unmissed'  BY <1>0, <2>2, <2>8 DEF Unmissed
  <2>10. GroupTyped'  BY <1>0, <2>2, <2>3, <2>7 DEF GroupTyped
  <2> QED  BY <2>6, <2>9, <2>10 DEF GroupInv
<1>9. CASE G!Create
  <2>1. PICK names \in SUBSET Colleague, extra \in 0..1 :
          /\ members' \subseteq names
          /\ extra = 0 => members' = names
          /\ group' = G!Cardinality(names) + extra
          /\ gpast' = (extra = 1)
    BY <1>9 DEF G!Create
  <2>2. G!AtRest /\ UNCHANGED <<gtask, asks, unseen, posts, since>> /\ members = {}
    BY <1>9 DEF G!Create, G!MessagesSame
  <2>3. G!Cardinality(names) = Size(names) /\ Size(names) \in Nat  BY SameSize, CountNat
  <2>4. /\ group' \in Nat /\ members' \subseteq Colleague /\ gpast' \in BOOLEAN
    BY <2>1, <2>3
  <2>8. ~gpast' => group' = Size(members')
    <3>1. SUFFICES ASSUME ~gpast'  PROVE group' = Size(members')
      OBVIOUS
    <3>3. extra # 1
      <4>1. gpast' <=> extra = 1  BY <2>1
      <4> QED  BY <3>1, <4>1
    <3>2. extra = 0  BY <3>3
    <3> QED  BY <2>1, <2>3, <3>2
  <2>5. Counted'  BY <2>2, <2>4, <2>8 DEF Counted, G!AtRest
  <2>6. GroupTyped'  BY <1>0, <2>2, <2>4 DEF GroupTyped, G!At
  <2>7. Unmissed'  BY <1>0, <2>2 DEF Unmissed
  <2> QED  BY <2>5, <2>6, <2>7 DEF GroupInv
<1>10. CASE G!DeleteGroup
  <2>1. /\ group' = None /\ members' = {} /\ gpast' = TRUE
        /\ UNCHANGED <<gtask, asks, unseen, posts, since>>
    BY <1>10 DEF G!DeleteGroup, G!MessagesSame
  <2>2. GroupTyped'  BY <1>0, <2>1 DEF GroupTyped, G!At
  <2>3. Counted'  BY <2>1 DEF Counted
  <2>4. Unmissed'  BY <1>0, <2>1 DEF Unmissed
  <2> QED  BY <2>2, <2>3, <2>4 DEF GroupInv
<1>11. ASSUME NEW u \in Colleague, G!MarkSeen(u)
       PROVE  GroupInv'
  <2>1. /\ unseen' = [unseen EXCEPT ![u] = 0] /\ since' = [since EXCEPT ![u] = 0]
        /\ gtask' = [w \in Worker |-> IF G!At(w, "raise") THEN [gtask[w] EXCEPT !.after = @ \ {u}]
                                      ELSE gtask[w]]
        /\ UNCHANGED <<group, members, posts, asks, gpast>>
    BY <1>11 DEF G!MarkSeen
  <2>2. ASSUME NEW w \in Worker
        PROVE  /\ gtask'[w] \in GroupTask \cup {Idle}
               /\ gtask'[w] = Idle <=> gtask[w] = Idle
               /\ ~G!At(w, "raise") => gtask'[w] = gtask[w]
               /\ G!At(w, "raise") => gtask'[w].op = "raise"
    <3>1. CASE ~G!At(w, "raise")  BY <1>0, <2>1, <3>1
    <3>2. CASE G!At(w, "raise")
      <4>1. gtask[w] \in [op : {"raise"}, by : Colleague, after : SUBSET Colleague] /\ gtask[w] # Idle
        BY <1>0, <3>2 DEF GroupTask, G!At
      <4>2. gtask'[w] = [gtask[w] EXCEPT !.after = @ \ {u}]  BY <2>1, <3>2
      <4>3. gtask'[w] \in [op : {"raise"}, by : Colleague, after : SUBSET Colleague]  BY <4>1, <4>2
      <4>4. gtask'[w] \in GroupTask /\ gtask'[w].op = "raise"  BY <4>3 DEF GroupTask
      <4> QED  BY <3>2, <4>1, <4>4 DEF GroupFits
    <3> QED  BY <3>1, <3>2
  <2>3. /\ gtask' \in [Worker -> GroupTask \cup {Idle}]
        /\ \A w \in Worker : G!At(w, "remove")' => gtask'[w].count > 0
    BY <1>0, <2>1, <2>2 DEF G!At
  <2>4. /\ unseen' \in [Colleague -> Nat] /\ since' \in [Colleague -> Nat] /\ Unmissed'
    BY <1>0, <2>1 DEF Unmissed
  <2>5. GroupTyped'  BY <1>0, <2>1, <2>3, <2>4 DEF GroupTyped
  <2>6. Counted'
    <3>1. SUFFICES ASSUME ~gpast'
                   PROVE  /\ \A v, w \in Worker : gtask'[v] # Idle /\ gtask'[w] # Idle => v = w
                          /\ G!AtRest' /\ group' # None => group' = Size(members')
                          /\ \A w \in Worker : gtask'[w] # Idle => InStep(gtask'[w], group', members')
      BY DEF Counted
    <3>2. ASSUME NEW w \in Worker, gtask'[w] # Idle  PROVE InStep(gtask'[w], group', members')
      <4>1. InStep(gtask[w], group, members) /\ gtask[w] # Idle  BY <1>0, <2>1, <2>2, <3>1, <3>2 DEF Counted
      <4>2. CASE G!At(w, "raise")
        <5>1. gtask[w].op = "raise" /\ gtask'[w].op = "raise"  BY <2>2, <4>2 DEF G!At
        <5> QED  BY <2>1, <4>1, <5>1 DEF InStep
      <4>3. CASE ~G!At(w, "raise")
        <5>1. gtask'[w] = gtask[w]  BY <2>2, <4>3
        <5> QED  BY <2>1, <4>1, <5>1 DEF InStep
      <4> QED  BY <4>2, <4>3
    <3>3. G!AtRest' => G!AtRest  BY <2>2 DEF G!AtRest
    <3> QED  BY <1>0, <2>1, <2>2, <3>1, <3>2, <3>3 DEF Counted
  <2> QED  BY <2>4, <2>5, <2>6 DEF GroupInv
<1>12. CASE UNCHANGED G!groupVars
  <2>1. UNCHANGED <<group, members, unseen, gtask, posts, asks, since, gpast>>
    BY <1>12 DEF G!groupVars
  <2>2. GroupTyped'  BY <1>0, <2>1 DEF GroupTyped, G!At
  <2>3. Unmissed'  BY <1>0, <2>1 DEF Unmissed
  <2>4. Counted'  BY <1>0, <2>1 DEF Counted, G!AtRest, InStep
  <2> QED  BY <2>2, <2>3, <2>4 DEF GroupInv
<1> QED
  BY <1>1, <1>2, <1>3, <1>4, <1>5, <1>6, <1>7, <1>8, <1>9, <1>10, <1>11, <1>12 DEF G!Next

-----------------------------------------------------------------------------
(* Chats. *)

\* What a request on a chat is doing.
MarkTask(u) == [op : {"mark"}, by : {u}, next : {[op |-> "list", by |-> u]}]

MarkTasks == UNION {MarkTask(u) : u \in H!User}

ChatTask == [op : {"create"}, pair : {<<First, Second>>}]
            \cup [op : {"link"}, by : H!User, to : 0..MaxMessages]
            \cup [op : {"drop"}]
            \cup [op : {"edit"}, msg : Nat, copy : BOOLEAN]
            \cup MarkTasks
            \cup [op : {"list"}, by : H!User]

\* Idle is no request, and an attachment that is nowhere has no place.
ChatFits == /\ MaxMessages \in Nat /\ Idle \notin ChatTask
            /\ None \notin 0..MaxMessages /\ Unlinked \notin 0..MaxMessages

ChatTyped ==
  /\ chats \subseteq {<<First, Second>>}
  /\ H!Latest \in 0..MaxMessages /\ messages \in [1..H!Latest -> H!Row]
  /\ link \in (0..MaxMessages) \cup {None, Unlinked, Gone}
  /\ told \in [H!User -> 0..MaxMessages] /\ \A u \in H!User : told[u] <= H!Latest
  /\ ctask \in [Worker -> ChatTask \cup {Idle}]

ChatInv == ChatTyped /\ H!SeenWasShown

LEMMA LastId ==
    ASSUME NEW max \in Nat, NEW n \in 0..max, NEW f, DOMAIN f = 1..n
    PROVE  (CHOOSE k \in 0..max : DOMAIN f = 1..k) = n
PROOF
<1> DEFINE k == CHOOSE k \in 0..max : DOMAIN f = 1..k
<1>1. k \in 0..max /\ DOMAIN f = 1..k  BY Zenon
<1> HIDE DEF k
<1>2. 1..k = 1..n  BY <1>1
<1>3. \A i \in Nat : i \in 1..k <=> i \in 1..n  BY <1>2
<1>4. k = n  BY <1>1, <1>3
<1> QED  BY <1>4 DEF k

\* A set of numbers below a bound has a greatest one.
LEMMA Greatest ==
    ASSUME NEW Z \in SUBSET Nat, NEW n \in Nat, \A y \in Z : y <= n, Z # {}
    PROVE  \E b \in Z : \A y \in Z : y <= b
PROOF
<1> DEFINE T == {n - x : x \in Z}
<1>1. T # {}  OBVIOUS
<1>2. T \subseteq Nat
  <2>1. \A x \in Z : n - x \in Nat  OBVIOUS
  <2> QED  BY <2>1
<1> HIDE DEF T
<1>3. IsWellFoundedOn(OpToRel(<, Nat), Nat)  BY NatLessThanWellFounded
<1>4. PICK t \in T : \A u \in T : ~(<<u, t>> \in OpToRel(<, Nat))  BY <1>1, <1>2, <1>3, WFMin
<1>5. \A u \in T : ~(u < t)
  <2>1. \A u \in T : u \in Nat /\ t \in Nat  BY <1>2
  <2>2. \A u \in T : u < t => <<u, t>> \in OpToRel(<, Nat)  BY <2>1 DEF OpToRel
  <2> QED  BY <2>2, <1>4
<1>6. PICK b \in Z : t = n - b  BY DEF T
<1>7. \A y \in Z : n - y \in T  BY DEF T
<1> QED  BY <1>5, <1>6, <1>7

LEMMA MaxIs ==
    ASSUME NEW Z \in SUBSET Nat, NEW n \in Nat, \A y \in Z : y <= n, Z # {}
    PROVE  H!Max(Z) \in Z /\ \A y \in Z : y <= H!Max(Z)
PROOF
<1> DEFINE m == CHOOSE x \in Z : \A y \in Z : x >= y
<1>1. H!Max(Z) = m  BY DEF H!Max
<1>2. \E x \in Z : \A y \in Z : x >= y
  <2>1. \E b \in Z : \A y \in Z : y <= b  BY Greatest
  <2> QED  BY <2>1
<1>3. m \in Z /\ \A y \in Z : m >= y  BY <1>2, Zenon
<1> HIDE DEF m
<1> QED  BY <1>1, <1>3

LEMMA ChatTaskOf ==
    ASSUME ChatTyped, NEW w \in Worker
    PROVE  /\ H!At(w, "create") => ctask[w].pair = <<First, Second>>
           /\ H!At(w, "link") => ctask[w].by \in H!User /\ ctask[w].to \in 0..MaxMessages
           /\ H!At(w, "edit") => ctask[w].msg \in Nat
           /\ H!At(w, "mark") => /\ ctask[w].by \in H!User
                                 /\ ctask[w].next = [op |-> "list", by |-> ctask[w].by]
           /\ H!At(w, "list") => ctask[w].by \in H!User
PROOF
<1>1. ctask[w] # Idle => ctask[w] \in ChatTask  BY DEF ChatTyped
<1> DEFINE t == ctask[w]
<1> HIDE DEF t
<1>2. ASSUME t \in ChatTask
      PROVE  \/ t \in [op : {"create"}, pair : {<<First, Second>>}]
             \/ t \in [op : {"link"}, by : H!User, to : 0..MaxMessages]
             \/ t \in [op : {"drop"}]
             \/ t \in [op : {"edit"}, msg : Nat, copy : BOOLEAN]
             \/ t \in MarkTasks
             \/ t \in [op : {"list"}, by : H!User]
  BY <1>2 DEF ChatTask
<1>3. ASSUME t \in MarkTasks
      PROVE  t.op = "mark" /\ t.by \in H!User /\ t.next = [op |-> "list", by |-> t.by]
  <2>1. PICK u \in H!User : t \in MarkTask(u)  BY <1>3 DEF MarkTasks
  <2> QED  BY <2>1 DEF MarkTask
<1>4. t \in ChatTask =>
         /\ t.op = "create" => t.pair = <<First, Second>>
         /\ t.op = "link" => t.by \in H!User /\ t.to \in 0..MaxMessages
         /\ t.op = "edit" => t.msg \in Nat
         /\ t.op = "mark" => t.by \in H!User /\ t.next = [op |-> "list", by |-> t.by]
         /\ t.op = "list" => t.by \in H!User
  BY <1>2, <1>3
<1> QED  BY <1>1, <1>4 DEF H!At, t

LEMMA ChatTaskSet ==
    ASSUME ChatTyped, NEW w \in Worker, NEW t \in ChatTask \cup {Idle}, H!Goes(w, t)
    PROVE  /\ ctask' = [ctask EXCEPT ![w] = t]
           /\ ctask' \in [Worker -> ChatTask \cup {Idle}]
BY DEF ChatTyped, H!Goes

\* A step of a worker that was not about to list, and leaves the messages alone.
LEMMA QuietStep ==
    ASSUME ChatInv, NEW w \in Worker, NEW t \in ChatTask \cup {Idle}, H!Goes(w, t),
           ~H!At(w, "list"), UNCHANGED <<messages, told>>,
           chats' \subseteq {<<First, Second>>},
           link' \in (0..MaxMessages) \cup {None, Unlinked, Gone}
    PROVE  ChatInv'
PROOF
<1>1. /\ ctask' = [ctask EXCEPT ![w] = t]
      /\ ctask' \in [Worker -> ChatTask \cup {Idle}]
      /\ ctask \in [Worker -> ChatTask \cup {Idle}]
  BY ChatTaskSet DEF ChatInv, ChatTyped
<1>2. H!Latest' = H!Latest  BY DEF H!Latest
<1>3. ChatTyped'  BY <1>1, <1>2 DEF ChatInv, ChatTyped
<1>4. \A v \in Worker : H!At(v, "list") => H!At(v, "list")' /\ ctask'[v] = ctask[v]
  BY <1>1 DEF H!At
<1>5. H!SeenWasShown'  BY <1>4 DEF ChatInv, H!SeenWasShown
<1> QED  BY <1>3, <1>5 DEF ChatInv

LEMMA ChatStarts ==
    ASSUME ChatFits
    PROVE  H!Init => ChatInv
PROOF
<1> SUFFICES ASSUME H!Init  PROVE ChatInv
  OBVIOUS
<1>1. /\ chats = {} /\ messages = <<>> /\ link = None
      /\ told = [u \in H!User |-> 0] /\ ctask = [w \in Worker |-> Idle]
  BY DEF H!Init
<1>2. DOMAIN messages = 1..0  BY <1>1
<1>3. 0 \in 0..MaxMessages  BY DEF ChatFits
<1>4. H!Latest = 0  BY <1>2, <1>3, LastId DEF ChatFits, H!Latest
<1>5. messages \in [1..0 -> H!Row]  BY <1>1
<1>6. ChatTyped  BY <1>1, <1>3, <1>4, <1>5 DEF ChatTyped
<1>7. H!SeenWasShown  BY <1>2 DEF H!SeenWasShown
<1> QED  BY <1>6, <1>7 DEF ChatInv

LEMMA ChatStep ==
    ASSUME ChatFits, ChatInv, [H!Next]_(H!chatVars)
    PROVE  ChatInv'
PROOF
<1>0. /\ chats \subseteq {<<First, Second>>}
      /\ H!Latest \in 0..MaxMessages /\ messages \in [1..H!Latest -> H!Row]
      /\ link \in (0..MaxMessages) \cup {None, Unlinked, Gone}
      /\ told \in [H!User -> 0..MaxMessages] /\ \A u \in H!User : told[u] <= H!Latest
      /\ ctask \in [Worker -> ChatTask \cup {Idle}]
      /\ MaxMessages \in Nat /\ Idle \notin ChatTask
      /\ DOMAIN messages = 1..H!Latest
  BY DEF ChatInv, ChatTyped, ChatFits
<1>a. ChatTyped /\ H!SeenWasShown  BY DEF ChatInv
<1>1. CASE H!Upload
  <2>1. link' = Unlinked /\ UNCHANGED <<chats, messages, told, ctask>>  BY <1>1 DEF H!Upload
  <2>2. H!Latest' = H!Latest  BY <2>1 DEF H!Latest
  <2>3. ChatTyped'  BY <1>0, <2>1, <2>2 DEF ChatTyped
  <2>4. H!SeenWasShown'  BY <1>a, <2>1 DEF H!SeenWasShown, H!At
  <2> QED  BY <2>3, <2>4 DEF ChatInv
<1>2. ASSUME NEW w \in Worker, NEW u \in H!User, H!StartChat(w, u)
      PROVE  ChatInv'
  <2> DEFINE t == [op |-> "create", pair |-> <<First, Second>>]
  <2>1. ctask[w] = Idle /\ H!Goes(w, t) /\ UNCHANGED <<chats, messages, link, told>>
    BY <1>2 DEF H!StartChat, H!Free, H!Pair
  <2>2. t \in ChatTask  BY DEF ChatTask
  <2> QED  BY <1>0, <2>1, <2>2, QuietStep DEF H!At
<1>3. ASSUME NEW w \in Worker, H!CreateChat(w)
      PROVE  ChatInv'
  <2>1. ctask[w].pair = <<First, Second>>  BY <1>3, <1>a, ChatTaskOf DEF H!CreateChat
  <2>2. /\ ctask[w].op = "create" /\ chats' = chats \cup {ctask[w].pair}
        /\ H!Goes(w, Idle) /\ UNCHANGED <<messages, link, told>>
    BY <1>3 DEF H!CreateChat, H!At
  <2> QED  BY <1>0, <2>1, <2>2, QuietStep DEF H!At
<1>4. ASSUME NEW w \in Worker, NEW u \in H!User, NEW attaching \in BOOLEAN, H!PostText(w, u, attaching)
      PROVE  ChatInv'
  <2> DEFINE t == IF attaching THEN [op |-> "link", by |-> u, to |-> H!Latest + 1] ELSE Idle
             n == H!Latest
             new == [by |-> u, seen |-> FALSE, edited |-> FALSE]
  <2>1. /\ ctask[w] = Idle /\ n < MaxMessages
        /\ messages' = [m \in 1..(n + 1) |-> IF m > n THEN new ELSE messages[m]]
        /\ H!Goes(w, t) /\ UNCHANGED <<chats, link, told>>
    BY <1>4 DEF H!PostText, H!Free
  <2>2. new \in H!Row /\ new.seen = FALSE  BY DEF H!Row
  <2>3. n \in Nat /\ n + 1 \in 0..MaxMessages  BY <1>0, <2>1
  <2>4. t \in ChatTask \cup {Idle}  BY <2>3 DEF ChatTask
  <2> HIDE DEF t, n, new
  <2>5. DOMAIN messages' = 1..(n + 1)  BY <2>1
  <2>6. H!Latest' = n + 1  BY <1>0, <2>3, <2>5, LastId DEF H!Latest
  <2>7. messages' \in [1..(n + 1) -> H!Row]  BY <1>0, <2>1, <2>2, <2>3 DEF n
  <2>8. /\ ctask' = [ctask EXCEPT ![w] = t] /\ ctask' \in [Worker -> ChatTask \cup {Idle}]
    BY <1>a, <2>1, <2>4, ChatTaskSet
  <2>9. \A u_ \in H!User : told[u_] <= n + 1  BY <1>0, <2>3 DEF n
  <2>10. ChatTyped'  BY <1>0, <2>1, <2>3, <2>6, <2>7, <2>8, <2>9 DEF ChatTyped
  <2>11. \A v \in Worker : H!At(v, "list") => H!At(v, "list")' /\ ctask'[v] = ctask[v]
    BY <1>0, <2>1, <2>8 DEF H!At
  <2>12. \A m \in DOMAIN messages' : messages'[m].seen =>
            m \in DOMAIN messages /\ messages'[m] = messages[m]
    BY <1>0, <2>1, <2>2, <2>3 DEF n
  <2>13. H!SeenWasShown'  BY <1>a, <2>1, <2>11, <2>12 DEF H!SeenWasShown
  <2> QED  BY <2>10, <2>13 DEF ChatInv
<1>5. ASSUME NEW w \in Worker, NEW u \in H!User, H!PostFile(w, u)
      PROVE  ChatInv'
  <2> DEFINE t == [op |-> "link", by |-> u, to |-> 0]
  <2>1. ctask[w] = Idle /\ H!Goes(w, t) /\ UNCHANGED <<chats, messages, link, told>>
    BY <1>5 DEF H!PostFile, H!Free
  <2>2. t \in ChatTask  BY <1>0 DEF ChatTask
  <2> QED  BY <1>0, <2>1, <2>2, QuietStep DEF H!At
<1>6. ASSUME NEW w \in Worker, H!Link(w)
      PROVE  ChatInv'
  <2>1. ctask[w].to \in 0..MaxMessages  BY <1>6, <1>a, ChatTaskOf DEF H!Link
  <2>2. /\ ctask[w].op = "link" /\ link' \in {link, ctask[w].to}
        /\ H!Goes(w, Idle) /\ UNCHANGED <<chats, messages, told>>
    BY <1>6 DEF H!Link, H!At
  <2> QED  BY <1>0, <2>1, <2>2, QuietStep DEF H!At
<1>7. ASSUME NEW w \in Worker, H!TakeBack(w)
      PROVE  ChatInv'
  <2>1. ctask[w] = Idle /\ H!Goes(w, [op |-> "drop"]) /\ UNCHANGED <<chats, messages, link, told>>
    BY <1>7 DEF H!TakeBack, H!Free
  <2>2. [op |-> "drop"] \in ChatTask  BY DEF ChatTask
  <2> QED  BY <1>0, <2>1, <2>2, QuietStep DEF H!At
<1>8. ASSUME NEW w \in Worker, H!Drop(w)
      PROVE  ChatInv'
  <2>1. /\ ctask[w].op = "drop" /\ link' = Gone
        /\ H!Goes(w, Idle) /\ UNCHANGED <<chats, messages, told>>
    BY <1>8 DEF H!Drop, H!At
  <2> QED  BY <1>0, <2>1, QuietStep DEF H!At
<1>9. ASSUME NEW w \in Worker, NEW u \in H!User, NEW m \in DOMAIN messages, H!LoadEdit(w, u, m)
      PROVE  ChatInv'
  <2> DEFINE t == [op |-> "edit", msg |-> m, copy |-> messages[m].seen]
  <2>1. ctask[w] = Idle /\ H!Goes(w, t) /\ UNCHANGED <<chats, messages, link, told>>
    BY <1>9 DEF H!LoadEdit, H!Free
  <2>2. t \in ChatTask
    <3>1. m \in Nat /\ messages[m].seen \in BOOLEAN  BY <1>0 DEF H!Row
    <3> QED  BY <3>1 DEF ChatTask
  <2> QED  BY <1>0, <2>1, <2>2, QuietStep DEF H!At
<1>10. ASSUME NEW w \in Worker, NEW u \in H!User, H!ReadChat(w, u)
       PROVE  ChatInv'
  <2> DEFINE t == [op |-> "mark", by |-> u, next |-> [op |-> "list", by |-> u]]
  <2>1. ctask[w] = Idle /\ H!Goes(w, t) /\ UNCHANGED <<chats, messages, link, told>>
    BY <1>10 DEF H!ReadChat, H!Free
  <2>2. t \in ChatTask
    <3>1. t \in MarkTask(u)  BY DEF MarkTask
    <3> HIDE DEF t
    <3>2. t \in MarkTasks  BY <3>1 DEF MarkTasks
    <3> QED  BY <3>2 DEF ChatTask
  <2> QED  BY <1>0, <2>1, <2>2, QuietStep DEF H!At
\* Messages marked or edited: their number and writers stay.
<1>b. ASSUME NEW row, DOMAIN row = DOMAIN messages, messages' = row,
             row = [m \in DOMAIN messages |-> row[m]],
             \A m \in DOMAIN messages : row[m] \in H!Row /\ row[m].by = messages[m].by
      PROVE  /\ H!Latest' = H!Latest /\ messages' \in [1..H!Latest -> H!Row]
             /\ DOMAIN messages' = DOMAIN messages
             /\ \A m \in DOMAIN messages : messages'[m] = row[m] /\ messages'[m].by = messages[m].by
  <2>1. DOMAIN messages' = DOMAIN messages  BY <1>b
  <2>2. H!Latest' = H!Latest  BY <2>1 DEF H!Latest
  <2>3. messages' \in [1..H!Latest -> H!Row]  BY <1>0, <1>b
  <2> QED  BY <1>b, <2>1, <2>2, <2>3
<1>11. ASSUME NEW w \in Worker, H!SaveEdit(w)
       PROVE  ChatInv'
  <2> DEFINE k == ctask[w].msg
             row == [m \in DOMAIN messages |->
                       IF m = k THEN [messages[m] EXCEPT !.edited = TRUE] ELSE messages[m]]
  <2>1. /\ messages' = [messages EXCEPT ![k] = [@ EXCEPT !.edited = TRUE]]
        /\ ctask[w].op = "edit" /\ H!Goes(w, Idle) /\ UNCHANGED <<chats, link, told>>
    BY <1>11 DEF H!SaveEdit, H!Rewritten, H!At
  <2>2. messages' = row  BY <1>0, <2>1
  <2>9. DOMAIN row = DOMAIN messages /\ row = [m \in DOMAIN messages |-> row[m]]  OBVIOUS
  <2>3. \A m \in DOMAIN messages : row[m] \in H!Row /\ row[m].by = messages[m].by
                                  /\ row[m].seen = messages[m].seen
    BY <1>0 DEF H!Row
  <2> HIDE DEF row
  <2>4. /\ H!Latest' = H!Latest /\ messages' \in [1..H!Latest -> H!Row]
        /\ DOMAIN messages' = DOMAIN messages
        /\ \A m \in DOMAIN messages : messages'[m] = row[m]
    BY <1>b, <2>2, <2>3, <2>9
  <2>5. /\ ctask' = [ctask EXCEPT ![w] = Idle] /\ ctask' \in [Worker -> ChatTask \cup {Idle}]
    BY <1>a, <2>1, ChatTaskSet
  <2>6. ChatTyped'  BY <1>0, <2>1, <2>4, <2>5 DEF ChatTyped
  <2>7. \A v \in Worker : H!At(v, "list") => H!At(v, "list")' /\ ctask'[v] = ctask[v]
    BY <1>0, <2>1, <2>5 DEF H!At
  <2>8. H!SeenWasShown'  BY <1>a, <2>1, <2>3, <2>4, <2>7 DEF H!SeenWasShown
  <2> QED  BY <2>6, <2>8 DEF ChatInv
\* Of what is marked as seen by u, only messages of the other change.
<1>c. ASSUME NEW u \in H!User, NEW ids, messages' = H!SeenBy(u, ids)
      PROVE  /\ H!Latest' = H!Latest /\ messages' \in [1..H!Latest -> H!Row]
             /\ DOMAIN messages' = DOMAIN messages
             /\ \A m \in DOMAIN messages :
                  /\ messages'[m].by = messages[m].by
                  /\ messages'[m].seen => messages[m].seen \/ (messages[m].by # u /\ m \in ids)
                  /\ messages[m].seen => messages'[m].seen
  <2> DEFINE row == [m \in DOMAIN messages |->
                       IF messages[m].by # u /\ m \in ids THEN [messages[m] EXCEPT !.seen = TRUE]
                       ELSE messages[m]]
  <2>1. messages' = row  BY <1>c DEF H!SeenBy
  <2>9. DOMAIN row = DOMAIN messages /\ row = [m \in DOMAIN messages |-> row[m]]  OBVIOUS
  <2>2. \A m \in DOMAIN messages :
           /\ row[m] \in H!Row /\ row[m].by = messages[m].by
           /\ row[m].seen => messages[m].seen \/ (messages[m].by # u /\ m \in ids)
           /\ messages[m].seen => row[m].seen
    BY <1>0 DEF H!Row
  <2> HIDE DEF row
  <2>3. /\ H!Latest' = H!Latest /\ messages' \in [1..H!Latest -> H!Row]
        /\ DOMAIN messages' = DOMAIN messages
        /\ \A m \in DOMAIN messages : messages'[m] = row[m]
    BY <1>b, <2>1, <2>2, <2>9
  <2> QED  BY <2>2, <2>3
\* Another reader's messages are not touched.
<1>d. ASSUME NEW u \in H!User, NEW v \in H!User, NEW x \in H!User, x # u, x # v
      PROVE  u = v
  BY <1>d DEF H!User
<1>e. \A m \in DOMAIN messages : m \in Nat /\ m <= H!Latest /\ messages[m].by \in H!User
  BY <1>0 DEF H!Row
<1>12. ASSUME NEW w \in Worker, H!Mark(w)
       PROVE  ChatInv'
  <2> DEFINE u == ctask[w].by
             t == [op |-> "list", by |-> u]
  <2>1. u \in H!User /\ ctask[w].next = t  BY <1>12, <1>a, ChatTaskOf DEF H!Mark
  <2>2. /\ messages' = H!SeenBy(u, DOMAIN messages) /\ ctask[w].op = "mark"
        /\ H!Goes(w, t) /\ UNCHANGED <<chats, link, told>>
    BY <1>12, <2>1 DEF H!Mark, H!At
  <2>3. t \in ChatTask /\ t.op = "list" /\ t.by = u
    <3> HIDE DEF u
    <3>1. t \in [op : {"list"}, by : H!User] /\ t.op = "list" /\ t.by = u  BY <2>1
    <3> HIDE DEF t
    <3> QED  BY <3>1 DEF ChatTask
  <2> HIDE DEF t
  <2>4. /\ ctask' = [ctask EXCEPT ![w] = t] /\ ctask' \in [Worker -> ChatTask \cup {Idle}]
    BY <1>a, <2>2, <2>3, ChatTaskSet
  <2>5. /\ H!At(w, "list")' /\ ctask'[w].by = u
        /\ \A v \in Worker : H!At(v, "list") => H!At(v, "list")' /\ ctask'[v] = ctask[v]
    BY <1>0, <2>2, <2>3, <2>4 DEF H!At
  <2> HIDE DEF u
  <2>6. /\ H!Latest' = H!Latest /\ messages' \in [1..H!Latest -> H!Row]
        /\ DOMAIN messages' = DOMAIN messages
        /\ \A m \in DOMAIN messages :
              /\ messages'[m].by = messages[m].by
              /\ messages'[m].seen => messages[m].seen \/ messages[m].by # u
    BY <1>c, <2>1, <2>2
  <2>7. ChatTyped'  BY <1>0, <2>2, <2>4, <2>6 DEF ChatTyped
  <2>8. ASSUME NEW v \in H!User, NEW m \in DOMAIN messages, messages[m].by # v, messages'[m].seen
        PROVE  m <= told[v] \/ \E x \in Worker : H!At(x, "list")' /\ ctask'[x].by = v
    <3>1. CASE v = u  BY <2>5, <3>1
    <3>2. CASE v # u
      <4>1. messages[m].by = u  BY <1>d, <1>e, <2>1, <2>8, <3>2
      <4>2. messages[m].seen  BY <2>6, <2>8, <4>1
      <4>3. m <= told[v] \/ \E x \in Worker : H!At(x, "list") /\ ctask[x].by = v
        BY <1>a, <2>8, <4>2 DEF H!SeenWasShown
      <4> QED  BY <2>5, <4>3
    <3> QED  BY <3>1, <3>2
  <2>9. H!SeenWasShown'  BY <2>2, <2>6, <2>8 DEF H!SeenWasShown
  <2> QED  BY <2>7, <2>9 DEF ChatInv
<1>13. ASSUME NEW w \in Worker, H!List(w)
       PROVE  ChatInv'
  <2> DEFINE u == ctask[w].by
  <2>1. u \in H!User  BY <1>13, <1>a, ChatTaskOf DEF H!List
  <2>2. /\ told' = [told EXCEPT ![u] = H!Latest] /\ H!Goes(w, Idle)
        /\ UNCHANGED <<chats, messages, link>>
    BY <1>13 DEF H!List
  <2>3. H!Latest' = H!Latest  BY <2>2 DEF H!Latest
  <2>4. /\ ctask' = [ctask EXCEPT ![w] = Idle] /\ ctask' \in [Worker -> ChatTask \cup {Idle}]
    BY <1>a, <2>2, ChatTaskSet
  <2>5. /\ told' \in [H!User -> 0..MaxMessages] /\ told'[u] = H!Latest
        /\ \A v \in H!User : v # u => told'[v] = told[v]
    BY <1>0, <2>1, <2>2
  <2>6. \A v \in H!User : told'[v] <= H!Latest
    <3>1. H!Latest <= H!Latest  BY <1>0
    <3> QED  BY <1>0, <2>5, <3>1
  <2>7. ChatTyped'  BY <1>0, <2>2, <2>3, <2>4, <2>5, <2>6 DEF ChatTyped
  <2>8. \A v \in Worker : H!At(v, "list") /\ ctask[v].by # u => H!At(v, "list")' /\ ctask'[v] = ctask[v]
    BY <1>0, <2>4 DEF H!At
  <2>9. H!SeenWasShown'
    <3>1. SUFFICES ASSUME NEW v \in H!User, NEW m \in DOMAIN messages, messages[m].by # v, messages[m].seen
                   PROVE  m <= told'[v] \/ \E x \in Worker : H!At(x, "list")' /\ ctask'[x].by = v
      BY <2>2 DEF H!SeenWasShown
    <3>2. CASE v = u  BY <1>e, <2>5, <3>2
    <3>3. CASE v # u
      <4>1. m <= told[v] \/ \E x \in Worker : H!At(x, "list") /\ ctask[x].by = v
        BY <1>a, <3>1 DEF H!SeenWasShown
      <4> QED  BY <2>5, <2>8, <3>3, <4>1
    <3> QED  BY <3>2, <3>3
  <2> QED  BY <2>7, <2>9 DEF ChatInv
<1>14. ASSUME NEW u \in H!User, NEW ids \in (SUBSET DOMAIN messages) \ {{}}, H!MarkSeen(u, ids)
       PROVE  ChatInv'
  <2> DEFINE all == {told[u]} \cup ids
             top == H!Max(all)
  <2>1. /\ messages' = H!SeenBy(u, ids) /\ told' = [told EXCEPT ![u] = top]
        /\ UNCHANGED <<chats, link, ctask>>
    <3>1. told' = [told EXCEPT ![u] = H!Max({@} \cup ids)]  BY <1>14 DEF H!MarkSeen
    <3>2. told' = [told EXCEPT ![u] = top]  BY <1>0, <3>1
    <3> QED  BY <1>14, <3>2 DEF H!MarkSeen
  <2>2. all \in SUBSET Nat /\ (\A y \in all : y <= H!Latest) /\ all # {}
    <3>1. told[u] \in Nat /\ told[u] <= H!Latest  BY <1>0
    <3>2. \A y \in ids : y \in Nat /\ y <= H!Latest  BY <1>e
    <3> QED  BY <3>1, <3>2
  <2> HIDE DEF all
  <2>3. top \in all /\ \A y \in all : y <= top
    <3>1. H!Latest \in Nat  BY <1>0
    <3> QED  BY <2>2, <3>1, MaxIs
  <2>4. /\ top \in 0..MaxMessages /\ top <= H!Latest /\ told[u] <= top
        /\ \A m \in ids : m <= top
    <3> HIDE DEF top
    <3>1. told[u] \in all /\ ids \subseteq all  BY DEF all
    <3>2. top \in Nat /\ top <= H!Latest  BY <2>2, <2>3
    <3> QED  BY <1>0, <2>3, <3>1, <3>2
  <2> HIDE DEF top
  <2>5. /\ H!Latest' = H!Latest /\ messages' \in [1..H!Latest -> H!Row]
        /\ DOMAIN messages' = DOMAIN messages
        /\ \A m \in DOMAIN messages :
              /\ messages'[m].by = messages[m].by
              /\ messages'[m].seen => messages[m].seen \/ (messages[m].by # u /\ m \in ids)
    BY <1>c, <2>1
  <2>6. /\ told' \in [H!User -> 0..MaxMessages] /\ told'[u] = top
        /\ \A v \in H!User : v # u => told'[v] = told[v]
    BY <1>0, <2>1, <2>4
  <2>7. \A v \in H!User : told'[v] <= H!Latest  BY <1>0, <2>4, <2>6
  <2>8. ChatTyped'  BY <1>0, <2>1, <2>5, <2>6, <2>7 DEF ChatTyped
  <2>9. ASSUME NEW v \in H!User, NEW m \in DOMAIN messages, messages[m].by # v, messages'[m].seen
        PROVE  m <= told'[v] \/ \E x \in Worker : H!At(x, "list") /\ ctask[x].by = v
    <3>1. CASE messages[m].seen
      <4>1. m <= told[v] \/ \E x \in Worker : H!At(x, "list") /\ ctask[x].by = v
        BY <1>a, <2>9, <3>1 DEF H!SeenWasShown
      <4>2. told[v] <= told'[v] /\ told[v] \in Nat /\ told'[v] \in Nat
        BY <1>0, <2>4, <2>6
      <4> QED  BY <1>e, <4>1, <4>2
    <3>2. CASE ~messages[m].seen
      <4>1. messages[m].by # u /\ m \in ids  BY <2>5, <2>9, <3>2
      <4>2. v = u  BY <1>d, <1>e, <2>9, <4>1
      <4> QED  BY <2>4, <2>6, <4>1, <4>2
    <3> QED  BY <3>1, <3>2
  <2>10. H!SeenWasShown'  BY <2>1, <2>5, <2>9 DEF H!SeenWasShown, H!At
  <2> QED  BY <2>8, <2>10 DEF ChatInv
<1>15. CASE UNCHANGED H!chatVars
  <2>1. UNCHANGED <<chats, messages, link, told, ctask>>  BY <1>15 DEF H!chatVars
  <2>2. H!Latest' = H!Latest  BY <2>1 DEF H!Latest
  <2>3. ChatTyped'  BY <1>0, <2>1, <2>2 DEF ChatTyped
  <2>4. H!SeenWasShown'  BY <1>a, <2>1 DEF H!SeenWasShown, H!At
  <2> QED  BY <2>3, <2>4 DEF ChatInv
<1> QED
  BY <1>1, <1>2, <1>3, <1>4, <1>5, <1>6, <1>7, <1>8, <1>9, <1>10, <1>11, <1>12, <1>13, <1>14,
     <1>15 DEF H!Next

-----------------------------------------------------------------------------
(* Logins. *)

\* What a login or logout has come to.
LoginTask == [at : {"off", "failed", "enter", "store"}, pw : 0..MaxPw]
             \cup [at : {"add", "incr", "set"}]
             \cup [at : {"drop"}, pw : 0..MaxPw, seen : SUBSET SessionId]
             \cup [at : {"out"}, id : SessionId]

\* There are finitely many processes; None is no number and Idle no request.
LoginFits == /\ IsFiniteSet(Worker) /\ MaxPw \in Nat /\ Limit \in Nat
             /\ None \notin Nat /\ Idle \notin LoginTask

Count(Z) == Cardinality(Z)

LoginTyped == L!TypeOK /\ ltask \in [Worker -> LoginTask \cup {Idle}]

\* Every live session belongs to the process that stored it last, and to no other; a
\* login that is to drop sessions has seen its own, one past that has none.
OwnedBy(owner) ==
  /\ \A i, j \in L!Live : owner[i] = owner[j] => i = j
  /\ \A w \in Worker :
       /\ L!At(w, "drop") => \A i \in L!Live : owner[i] = w => i \in ltask[w].seen
       /\ L!At(w, "enter") \/ L!At(w, "store") => \A i \in L!Live : owner[i] # w

Owned == \E owner \in [SessionId -> Worker] : OwnedBy(owner)

\* As long as logins do not cross, one session at most, and the flag with it.
Single(live, shown) == (\A i, j \in live : i = j) /\ (live # {} => shown)

Leaving(t, live, shown, out) ==
  /\ t.at \in {"off", "failed", "add", "incr", "set"} => Single(live, shown)
  /\ t.at = "drop" => live \subseteq t.seen
  /\ t.at = "enter" => live = {}
  /\ t.at = "store" => live = {} /\ (out \/ shown)
  /\ t.at = "out" => live \subseteq {t.id}

OneLogin ==
  ~lpast =>
    /\ \A v, w \in Worker : ltask[v] # Idle /\ ltask[w] # Idle => v = w
    /\ L!AtRest => Single(L!Live, flag)
    /\ \A w \in Worker : ltask[w] # Idle => Leaving(ltask[w], L!Live, flag, account = "gone")

\* Wrong passwords that the counter does not hold yet are each in the hands of a process.
Pending == {w \in Worker : ltask[w] # Idle /\ ltask[w].at \in {"failed", "add", "incr", "set"}}

Held == IF remote = None THEN 0 ELSE remote

Guesses == /\ tried <= Held + Count(Pending)
           /\ tried <= Limit - 1 + Count(Worker)

LoginInv == LoginTyped /\ Owned /\ OneLogin /\ Guesses

LEMMA CountOf ==
    ASSUME LoginFits, NEW Z \in SUBSET Worker
    PROVE  /\ Count(Z) \in Nat /\ Count(Worker) \in Nat /\ Count(Z) <= Count(Worker)
           /\ \A w \in Worker \ Z : Count(Z \cup {w}) = Count(Z) + 1
           /\ \A w \in Z : Count(Z \ {w}) = Count(Z) - 1
PROOF
<1>1. IsFiniteSet(Z)  BY FS_Subset DEF LoginFits
<1> QED
  BY <1>1, FS_Subset, FS_CardinalityType, FS_AddElement, FS_RemoveElement DEF LoginFits, Count

LEMMA LoginTaskOf ==
    ASSUME LoginTyped, NEW w \in Worker
    PROVE  /\ ltask[w] # Idle => ltask[w] \in LoginTask
           /\ L!At(w, "off") \/ L!At(w, "drop") \/ L!At(w, "enter") \/ L!At(w, "store") =>
                ltask[w].pw \in 0..MaxPw
           /\ L!At(w, "drop") => ltask[w].seen \in SUBSET SessionId
           /\ L!At(w, "out") => ltask[w].id \in SessionId
BY DEF LoginTyped, LoginTask, L!At

LEMMA LoginTaskSet ==
    ASSUME LoginTyped, NEW w \in Worker, NEW t \in LoginTask \cup {Idle}, L!Goes(w, t)
    PROVE  /\ ltask' = [ltask EXCEPT ![w] = t]
           /\ ltask' \in [Worker -> LoginTask \cup {Idle}]
           /\ ltask'[w] = t /\ \A v \in Worker \ {w} : ltask'[v] = ltask[v]
BY DEF LoginTyped, L!Goes

LEMMA LoginTypedNext ==
    ASSUME account' \in {"none", "user", "full", "gone"}, pw' \in 0..MaxPw,
           sess' \in [SessionId -> 0..MaxPw \cup {None}], flag' \in BOOLEAN,
           remote' \in Nat \cup {None}, local' \in [Worker -> Nat], tried' \in Nat,
           lpast' \in BOOLEAN, account' # "full" => ~flag',
           ltask' \in [Worker -> LoginTask \cup {Idle}]
    PROVE  LoginTyped'
PROOF
<1>1. L!TypeOK'  BY Zenon DEF L!TypeOK
<1> QED  BY <1>1 DEF LoginTyped

\* The flag is up for an account only, as long as both stay.
LEMMA FlagStays ==
    ASSUME LoginTyped, account' = account, flag' = flag
    PROVE  /\ flag' \in BOOLEAN /\ account' \in {"none", "user", "full", "gone"}
           /\ account' # "full" => ~flag'
           /\ account # "full" => ~flag'
BY DEF LoginTyped, L!TypeOK

LEMMA PastStays == LoginTyped /\ lpast' = lpast => lpast' \in BOOLEAN
BY DEF LoginTyped, L!TypeOK

-----------------------------------------------------------------------------
(* Who owns a session *)

\* Sessions end, and nobody gets nearer to storing one.
LEMMA OwnedStays ==
    ASSUME Owned, L!Live' \subseteq L!Live,
           \A w \in Worker : \/ ltask'[w] = ltask[w]
                             \/ ltask'[w] = Idle
                             \/ ltask'[w].at \notin {"drop", "enter", "store"}
    PROVE  Owned'
PROOF
<1>1. PICK owner \in [SessionId -> Worker] : OwnedBy(owner)  BY DEF Owned
<1>2. \A w \in Worker : \A s \in {"drop", "enter", "store"} :
         L!At(w, s)' => L!At(w, s) /\ ltask'[w] = ltask[w]
  BY DEF L!At
<1>3. OwnedBy(owner)'  BY <1>1, <1>2 DEF OwnedBy
<1> QED  BY <1>3 DEF Owned

\* A login goes on, past the sessions it has seen.
LEMMA OwnedOn ==
    ASSUME Owned, NEW w \in Worker, \A v \in Worker \ {w} : ltask'[v] = ltask[v],
           L!Live' \subseteq L!Live,
           \A owner \in [SessionId -> Worker] : OwnedBy(owner) =>
             /\ L!At(w, "drop")' => \A i \in L!Live' : owner[i] = w => i \in ltask'[w].seen
             /\ L!At(w, "enter")' \/ L!At(w, "store")' => \A i \in L!Live' : owner[i] # w
    PROVE  Owned'
PROOF
<1>1. PICK owner \in [SessionId -> Worker] : OwnedBy(owner)  BY DEF Owned
<1>2. \A v \in Worker \ {w} : \A s \in {"drop", "enter", "store"} :
         L!At(v, s)' => L!At(v, s) /\ ltask'[v] = ltask[v]
  BY DEF L!At
<1>3. /\ L!At(w, "drop")' => \A i \in L!Live' : owner[i] = w => i \in ltask'[w].seen
      /\ L!At(w, "enter")' \/ L!At(w, "store")' => \A i \in L!Live' : owner[i] # w
  BY <1>1
<1>4. OwnedBy(owner)'  BY <1>1, <1>2, <1>3 DEF OwnedBy
<1> QED  BY <1>4 DEF Owned

\* A process without a session stores one.
LEMMA OwnedMore ==
    ASSUME Owned, NEW w \in Worker, L!At(w, "store"), \A v \in Worker \ {w} : ltask'[v] = ltask[v],
           ltask'[w] = Idle, NEW id \in SessionId, L!Live' \subseteq L!Live \cup {id},
           L!Live \subseteq SessionId
    PROVE  Owned'
PROOF
<1>1. PICK owner \in [SessionId -> Worker] : OwnedBy(owner)  BY DEF Owned
<1> DEFINE new == [owner EXCEPT ![id] = w]
<1>2. /\ new \in [SessionId -> Worker] /\ new[id] = w
      /\ \A i \in SessionId : i # id => new[i] = owner[i]
  OBVIOUS
<1> HIDE DEF new
<1>3. \A v \in Worker \ {w} : \A s \in {"drop", "enter", "store"} :
         L!At(v, s)' => L!At(v, s) /\ ltask'[v] = ltask[v]
  BY DEF L!At
<1>4. \A s \in {"drop", "enter", "store"} : ~L!At(w, s)'  BY DEF L!At
<1>5. \A i \in L!Live : owner[i] # w  BY <1>1 DEF OwnedBy
<1>6. \A i, j \in L!Live' : new[i] = new[j] => i = j
  BY <1>1, <1>2, <1>5 DEF OwnedBy
<1>7. OwnedBy(new)'  BY <1>1, <1>2, <1>3, <1>4, <1>6 DEF OwnedBy
<1> QED  BY <1>2, <1>7 DEF Owned

LEMMA OwnedBounds ==
    ASSUME LoginFits, Owned, L!Live \subseteq SessionId
    PROVE  IsFiniteSet(L!Live) /\ Cardinality(L!Live) <= Cardinality(Worker)
PROOF
<1>1. PICK owner \in [SessionId -> Worker] : OwnedBy(owner)  BY DEF Owned
<1> DEFINE f == [i \in L!Live |-> owner[i]]
<1>2. f \in Injection(L!Live, Worker)
  <2>1. f \in [L!Live -> Worker]  OBVIOUS
  <2>2. \A i, j \in L!Live : f[i] = f[j] => i = j  BY <1>1 DEF OwnedBy
  <2> HIDE DEF f
  <2> QED  BY <2>1, <2>2 DEF Injection, IsInjective
<1> HIDE DEF f
<1> QED  BY <1>2, FS_Injection DEF LoginFits

-----------------------------------------------------------------------------
(* One login at a time *)

\* The step of one login, alone, to t.
LEMMA AloneOn ==
    ASSUME OneLogin, NEW w \in Worker, NEW t, ltask'[w] = t, \A v \in Worker \ {w} : ltask'[v] = ltask[v],
           ~lpast' => ~lpast /\ (ltask[w] # Idle \/ L!AtRest),
           ~lpast' /\ t = Idle => Single(L!Live', flag'),
           ~lpast' /\ t # Idle => Leaving(t, L!Live', flag', account' = "gone")
    PROVE  OneLogin'
PROOF
<1> SUFFICES ASSUME ~lpast'
             PROVE  /\ \A v, x \in Worker : ltask'[v] # Idle /\ ltask'[x] # Idle => v = x
                    /\ L!AtRest' => Single(L!Live', flag')
                    /\ \A v \in Worker : ltask'[v] # Idle =>
                         Leaving(ltask'[v], L!Live', flag', account' = "gone")
  BY DEF OneLogin
<1>1. \A v \in Worker \ {w} : ltask'[v] = Idle  BY DEF OneLogin, L!AtRest
<1>2. \A v \in Worker : ltask'[v] # Idle => v = w  BY <1>1
<1>3. L!AtRest' => t = Idle  BY DEF L!AtRest
<1> QED  BY <1>2, <1>3

\* Sessions end, the flag only with them all, and no login goes on.
LEMMA AloneStays ==
    ASSUME OneLogin, L!Live' \subseteq L!Live, L!Live' = {} \/ flag' = flag, UNCHANGED <<ltask, lpast>>,
           account = "gone" => account' = "gone",
           flag => flag' \/ account' = "gone"
    PROVE  OneLogin'
PROOF
<1> SUFFICES ASSUME ~lpast'
             PROVE  /\ \A v, x \in Worker : ltask'[v] # Idle /\ ltask'[x] # Idle => v = x
                    /\ L!AtRest' => Single(L!Live', flag')
                    /\ \A v \in Worker : ltask'[v] # Idle =>
                         Leaving(ltask'[v], L!Live', flag', account' = "gone")
  BY DEF OneLogin
<1>1. Single(L!Live, flag) => Single(L!Live', flag')  BY DEF Single
<1>2. \A v \in Worker : Leaving(ltask[v], L!Live, flag, account = "gone") =>
                        Leaving(ltask[v], L!Live', flag', account' = "gone")
  BY <1>1 DEF Leaving
<1> QED  BY <1>1, <1>2 DEF OneLogin, L!AtRest
-----------------------------------------------------------------------------
(* Guesses *)

\* What counts as pending is decided by each process's own place.
LEMMA PendingOn ==
    ASSUME LoginFits, NEW w \in Worker, \A v \in Worker \ {w} : ltask'[v] = ltask[v]
    PROVE  /\ (w \in Pending <=> w \in Pending') => Pending' = Pending
           /\ w \notin Pending /\ w \in Pending' => Count(Pending') = Count(Pending) + 1
           /\ w \in Pending /\ w \notin Pending' => Count(Pending') = Count(Pending) - 1
           /\ Count(Pending) \in Nat /\ Count(Pending') \in Nat
           /\ Count(Pending') <= Count(Worker) /\ Count(Worker) \in Nat
           /\ w \in Pending => Count(Pending) > 0
PROOF
<1>1. Pending \in SUBSET Worker /\ Pending' \in SUBSET Worker  BY DEF Pending
<1>2. \A v \in Worker \ {w} : v \in Pending <=> v \in Pending'  BY DEF Pending
<1>3. w \notin Pending /\ w \in Pending' => Pending' = Pending \cup {w}  BY <1>1, <1>2
<1>4. w \in Pending /\ w \notin Pending' => Pending' = Pending \ {w}  BY <1>1, <1>2
<1>5. (w \in Pending <=> w \in Pending') => Pending' = Pending  BY <1>1, <1>2
<1>6. w \in Pending => Count(Pending \ {w}) = Count(Pending) - 1 /\ Count(Pending \ {w}) \in Nat
  BY <1>1, CountOf
<1> QED  BY <1>1, <1>3, <1>4, <1>5, <1>6, CountOf

\* The larger of two.
LEMMA LargerOf ==
    ASSUME NEW x \in Nat, NEW y \in Nat
    PROVE  L!Max({x, y}) >= x /\ L!Max({x, y}) \in Nat
PROOF
<1> DEFINE m == CHOOSE i \in {x, y} : \A j \in {x, y} : i >= j
<1>1. L!Max({x, y}) = m  BY DEF L!Max
<1>2. \E i \in {x, y} : \A j \in {x, y} : i >= j  OBVIOUS
<1>3. m \in {x, y} /\ \A j \in {x, y} : m >= j  BY <1>2, Zenon
<1> HIDE DEF m
<1> QED  BY <1>1, <1>3

LEMMA LoginStarts == LoginFits /\ Limit > 0 /\ Worker # {} /\ L!Init => LoginInv
PROOF
<1> SUFFICES ASSUME LoginFits, Limit > 0, Worker # {}, L!Init  PROVE LoginInv
  OBVIOUS
<1>1. /\ account = "none" /\ pw = 0 /\ flag = FALSE /\ sess = [i \in SessionId |-> None]
      /\ ltask = [w \in Worker |-> Idle] /\ remote = None
      /\ local = [w \in Worker |-> 0] /\ tried = 0 /\ lpast = FALSE
  BY DEF L!Init
<1>2. LoginTyped
  <2>1. /\ account \in {"none", "user", "full", "gone"} /\ pw \in 0..MaxPw
        /\ sess \in [SessionId -> 0..MaxPw \cup {None}]
        /\ remote \in Nat \cup {None} /\ local \in [Worker -> Nat] /\ tried \in Nat
        /\ ltask \in [Worker -> LoginTask \cup {Idle}]
    BY <1>1 DEF LoginFits
  <2>2. flag \in BOOLEAN /\ ~flag  BY <1>1
  <2>3. lpast \in BOOLEAN  BY <1>1
  <2> QED  BY <2>1, <2>2, <2>3, Zenon DEF LoginTyped, L!TypeOK
<1>3. L!Live = {}  BY <1>1 DEF L!Live
<1>4. Owned
  <2>1. PICK w \in Worker : TRUE  OBVIOUS
  <2> DEFINE owner == [i \in SessionId |-> w]
  <2>2. owner \in [SessionId -> Worker]  OBVIOUS
  <2> HIDE DEF owner
  <2>3. OwnedBy(owner)  BY <1>3 DEF OwnedBy
  <2> QED  BY <2>2, <2>3 DEF Owned
<1>5. OneLogin  BY <1>1, <1>3 DEF OneLogin, Single
<1>6. Guesses
  <2>1. Pending \in SUBSET Worker  BY DEF Pending
  <2>2. Count(Pending) \in Nat /\ Count(Worker) \in Nat  BY <2>1, CountOf
  <2>3. Held = 0  BY <1>1 DEF Held
  <2> QED  BY <1>1, <2>2, <2>3 DEF Guesses, LoginFits
<1> QED  BY <1>2, <1>4, <1>5, <1>6 DEF LoginInv

LEMMA LoginStep ==
    ASSUME LoginFits, LoginInv, [L!Next]_(L!loginVars)
    PROVE  LoginInv'
PROOF
<1>0. /\ account \in {"none", "user", "full", "gone"} /\ pw \in 0..MaxPw
      /\ sess \in [SessionId -> 0..MaxPw \cup {None}] /\ flag \in BOOLEAN
      /\ remote \in Nat \cup {None} /\ local \in [Worker -> Nat] /\ tried \in Nat
      /\ lpast \in BOOLEAN /\ account # "full" => ~flag
      /\ ltask \in [Worker -> LoginTask \cup {Idle}]
      /\ L!Live \subseteq SessionId /\ Held \in Nat
      /\ MaxPw \in Nat /\ Limit \in Nat /\ None \notin Nat /\ Idle \notin LoginTask
  BY DEF LoginInv, LoginTyped, L!TypeOK, L!Live, LoginFits, Held
<1>a. LoginTyped /\ Owned /\ OneLogin /\ Guesses  BY DEF LoginInv
\* Of a step of one process: what is pending, and what stays.
<1>b. ASSUME NEW w \in Worker, NEW t \in LoginTask \cup {Idle}, L!Goes(w, t)
      PROVE  /\ ltask' \in [Worker -> LoginTask \cup {Idle}]
             /\ ltask'[w] = t /\ \A v \in Worker \ {w} : ltask'[v] = ltask[v]
             /\ w \in Pending' <=> t # Idle /\ t.at \in {"failed", "add", "incr", "set"}
             /\ w \in Pending <=> ltask[w] # Idle /\ ltask[w].at \in {"failed", "add", "incr", "set"}
  BY <1>a, <1>b, LoginTaskSet DEF Pending
\* Of a request that begins: whether another goes on.
<1>c. ASSUME NEW w \in Worker, NEW t \in LoginTask, L!Begin(w, t)
      PROVE  /\ L!Goes(w, t) /\ ltask[w] = Idle /\ lpast' \in BOOLEAN
             /\ ~lpast' => ~lpast /\ L!AtRest /\ Single(L!Live, flag)
  BY <1>0, <1>a, <1>c DEF L!Begin, OneLogin
\* Of one that goes on.
<1>d. ASSUME NEW w \in Worker, ltask[w] # Idle
      PROVE  ~lpast => Leaving(ltask[w], L!Live, flag, account = "gone")
  BY <1>a, <1>d DEF OneLogin
<1>1. ASSUME NEW w \in Worker, NEW good \in BOOLEAN, L!Post(w, good)
      PROVE  LoginInv'
  <2> DEFINE t == [at |-> IF good THEN "off" ELSE "failed", pw |-> pw]
  <2>1. /\ L!Count(w) < Limit /\ L!Begin(w, t) /\ tried' = IF good THEN tried ELSE tried + 1
        /\ UNCHANGED <<sess, flag, remote, local, account, pw>>
    BY <1>1 DEF L!Post, L!AccountSame
  <2>2. t \in LoginTask /\ t.at = IF good THEN "off" ELSE "failed"  BY <1>0 DEF LoginTask
  <2> HIDE DEF t
  <2>3. /\ L!Goes(w, t) /\ ltask[w] = Idle /\ lpast' \in BOOLEAN
        /\ ~lpast' => ~lpast /\ L!AtRest /\ Single(L!Live, flag)
    BY <1>c, <2>1, <2>2
  <2>4. /\ ltask' \in [Worker -> LoginTask \cup {Idle}]
        /\ ltask'[w] = t /\ \A v \in Worker \ {w} : ltask'[v] = ltask[v]
        /\ w \notin Pending
    BY <1>b, <2>2, <2>3
  <2>p. (good => w \notin Pending') /\ (~good => w \in Pending')
    <3>1. t # Idle  BY <1>0, <2>2
    <3>2. w \in Pending' <=> t.at \in {"failed", "add", "incr", "set"}  BY <1>b, <2>2, <2>3, <3>1
    <3> QED  BY <2>2, <3>2
  <2>5. L!Live' = L!Live  BY <2>1 DEF L!Live
  <2>6. Owned'
    BY <1>a, <2>2, <2>4, <2>5, OwnedStays
  <2>7. OneLogin'
    <3>1. ~lpast' => Leaving(t, L!Live', flag', account' = "gone")
      BY <2>1, <2>2, <2>3, <2>5 DEF Leaving
    <3> QED  BY <1>0, <1>a, <2>2, <2>3, <2>4, <3>1, AloneOn
  <2>8. LoginTyped'
    <3>1. flag' \in BOOLEAN /\ account' \in {"none", "user", "full", "gone"} /\ (account' # "full" => ~flag')
      BY <1>a, <2>1, FlagStays
    <3>2. /\ pw' \in 0..MaxPw /\ sess' \in [SessionId -> 0..MaxPw \cup {None}]
          /\ remote' \in Nat \cup {None} /\ local' \in [Worker -> Nat]
      BY <1>0, <2>1
    <3>3. tried' \in Nat  BY <1>0, <2>1
    <3> QED  BY <2>3, <2>4, <3>1, <3>2, <3>3, LoginTypedNext
  <2>9. Held' = Held /\ Held <= Limit - 1
    <3>1. CASE remote = None
      <4>1. Held = 0 /\ local[w] < Limit  BY <2>1, <3>1 DEF L!Count, Held
      <4> QED  BY <1>0, <2>1, <4>1 DEF Held
    <3>2. CASE remote # None
      <4>1. L!Max({remote, local[w]}) < Limit /\ remote \in Nat /\ local[w] \in Nat /\ Held = remote
        BY <1>0, <2>1, <3>2 DEF L!Count, Held
      <4>2. L!Max({remote, local[w]}) >= remote /\ L!Max({remote, local[w]}) \in Nat
        BY <4>1, LargerOf
      <4> QED  BY <1>0, <2>1, <4>1, <4>2 DEF Held
    <3> QED  BY <3>1, <3>2
  <2>10. Guesses'
    <3>1. CASE good
      <4>1. Pending' = Pending /\ tried' = tried  BY <2>1, <2>4, <2>p, <3>1, PendingOn
      <4> QED  BY <1>a, <2>9, <4>1 DEF Guesses
    <3>2. CASE ~good
      <4>1. /\ Count(Pending') = Count(Pending) + 1 /\ tried' = tried + 1
            /\ Count(Pending) \in Nat /\ Count(Pending') <= Count(Worker) /\ Count(Worker) \in Nat
        BY <2>1, <2>4, <2>p, <3>2, PendingOn
      <4> QED  BY <1>0, <1>a, <2>9, <4>1 DEF Guesses
    <3> QED  BY <3>1, <3>2
  <2> QED  BY <2>6, <2>7, <2>8, <2>10 DEF LoginInv
\* A step of the counting: sessions and flag stay, and what is tried is accounted for.
<1>e. ASSUME NEW w \in Worker, L!At(w, "failed") \/ L!At(w, "add") \/ L!At(w, "incr") \/ L!At(w, "set"),
             NEW t \in LoginTask \cup {Idle}, L!Goes(w, t),
             t # Idle => t.at \in {"add", "incr", "set"},
             account' = account, pw' = pw, sess' = sess, flag' = flag, lpast' = lpast,
             remote' \in Nat \cup {None}, local' \in [Worker -> Nat], tried' \in Nat,
             tried' = 0 \/ (tried' = tried /\ t # Idle /\ Held' = Held)
                        \/ (tried' = tried /\ Held' = Held + 1)
      PROVE  LoginInv'
  <2>1. /\ ltask' \in [Worker -> LoginTask \cup {Idle}]
        /\ ltask'[w] = t /\ \A v \in Worker \ {w} : ltask'[v] = ltask[v]
        /\ w \in Pending' <=> t # Idle
        /\ w \in Pending /\ ltask[w] # Idle
    BY <1>b, <1>e DEF L!At
  <2>2. L!Live' = L!Live  BY <1>e DEF L!Live
  <2>3. Owned'  BY <1>a, <1>e, <2>1, <2>2, OwnedStays
  <2>4. ~lpast => Single(L!Live, flag)
    <3>1. ~lpast => Leaving(ltask[w], L!Live, flag, account = "gone")  BY <1>d, <2>1
    <3> QED  BY <1>e, <3>1 DEF L!At, Leaving
  <2>5. ~lpast' => Single(L!Live', flag')  BY <1>e, <2>2, <2>4
  <2>6. ~lpast' /\ t # Idle => Leaving(t, L!Live', flag', account' = "gone")
    BY <1>e, <2>5 DEF Leaving
  <2>7. OneLogin'  BY <1>a, <1>e, <2>1, <2>5, <2>6, AloneOn
  <2>8. LoginTyped'
    <3>1. flag' \in BOOLEAN /\ account' \in {"none", "user", "full", "gone"} /\ (account' # "full" => ~flag')
      BY <1>a, <1>e, FlagStays
    <3>2. pw' \in 0..MaxPw /\ sess' \in [SessionId -> 0..MaxPw \cup {None}] 
      BY <1>0, <1>e
    <3>3. lpast' \in BOOLEAN  BY <1>a, <1>e, PastStays
    <3> QED  BY <1>e, <2>1, <3>1, <3>2, <3>3, LoginTypedNext
  <2>9. /\ Count(Pending) \in Nat /\ Count(Pending') \in Nat /\ Count(Worker) \in Nat
        /\ t # Idle => Count(Pending') = Count(Pending)
        /\ Count(Pending') >= Count(Pending) - 1
        /\ Count(Worker) > 0
    <3>1. Count(Pending) > 0 /\ Count(Pending) \in Nat /\ Count(Pending') \in Nat
          /\ Count(Worker) \in Nat
      BY <2>1, PendingOn
    <3>2. Count(Pending) <= Count(Worker)
      <4>1. Pending \in SUBSET Worker  BY DEF Pending
      <4> QED  BY <4>1, CountOf
    <3>3. t # Idle => Pending' = Pending  BY <2>1, PendingOn
    <3>4. t = Idle => Count(Pending') = Count(Pending) - 1  BY <2>1, PendingOn
    <3> QED  BY <3>1, <3>2, <3>3, <3>4
  <2>10. Held' \in Nat  BY <1>e DEF Held
  <2>11. Guesses'
    <3>1. tried' <= Held' + Count(Pending')  BY <1>0, <1>a, <1>e, <2>9, <2>10 DEF Guesses
    <3>2. tried' <= Limit - 1 + Count(Worker)  BY <1>0, <1>a, <1>e, <2>9 DEF Guesses
    <3> QED  BY <3>1, <3>2 DEF Guesses, Count
  <2> QED  BY <2>3, <2>7, <2>8, <2>11 DEF LoginInv
<1>2. ASSUME NEW w \in Worker, L!FailLocally(w)
      PROVE  LoginInv'
  <2> DEFINE t == [at |-> "add"]
  <2>1. /\ L!At(w, "failed") /\ local' = [local EXCEPT ![w] = @ + 1] /\ L!Goes(w, t)
        /\ UNCHANGED <<account, pw, sess, flag, remote, tried, lpast>>
    BY <1>2 DEF L!FailLocally, L!AccountSame
  <2>2. t \in LoginTask /\ t # Idle /\ t.at = "add"  BY <1>0 DEF LoginTask
  <2>3. local' \in [Worker -> Nat] /\ Held' = Held  BY <1>0, <2>1 DEF Held
  <2> HIDE DEF t
  <2>4. tried' \in Nat /\ tried' = tried /\ remote' \in Nat \cup {None} /\ local' \in [Worker -> Nat]
    BY <1>0, <2>1, <2>3
  <2>5. (t # Idle /\ Held' = Held) \/ Held' = Held + 1  BY <2>2, <2>3
  <2> QED  BY <1>e, <2>1, <2>2, <2>4, <2>5
<1>3. ASSUME NEW w \in Worker, L!AddKey(w)
      PROVE  LoginInv'
  <2> DEFINE t == IF remote = None THEN Idle ELSE [at |-> "incr"]
  <2>1. /\ L!At(w, "add") /\ remote' = (IF remote = None THEN 1 ELSE remote) /\ L!Goes(w, t)
        /\ UNCHANGED <<account, pw, sess, flag, local, tried, lpast>>
    BY <1>3 DEF L!AddKey, L!AccountSame
  <2>2. /\ t \in LoginTask \cup {Idle}
        /\ t # Idle => t.at = "incr"
        /\ t = Idle <=> remote = None
    BY <1>0 DEF LoginTask
  <2> HIDE DEF t
  <2>3. /\ remote' \in Nat \cup {None}
        /\ (remote = None => Held' = Held + 1) /\ (remote # None => Held' = Held)
    <3>1. CASE remote = None  BY <1>0, <2>1, <3>1 DEF Held
    <3>2. CASE remote # None  BY <1>0, <2>1, <3>2 DEF Held
    <3> QED  BY <3>1, <3>2
  <2>4. tried' \in Nat /\ tried' = tried /\ local' \in [Worker -> Nat]  BY <1>0, <2>1
  <2>5. (t # Idle /\ Held' = Held) \/ Held' = Held + 1  BY <2>2, <2>3
  <2> QED  BY <1>e, <2>1, <2>2, <2>3, <2>4, <2>5
<1>4. ASSUME NEW w \in Worker, L!IncrKey(w)
      PROVE  LoginInv'
  <2> DEFINE t == IF remote = None THEN [at |-> "set"] ELSE Idle
  <2>1. /\ L!At(w, "incr") /\ remote' = (IF remote = None THEN None ELSE remote + 1) /\ L!Goes(w, t)
        /\ UNCHANGED <<account, pw, sess, flag, local, tried, lpast>>
    BY <1>4 DEF L!IncrKey, L!Incremented, L!AccountSame
  <2>2. /\ t \in LoginTask \cup {Idle}
        /\ t # Idle => t.at = "set"
        /\ t # Idle <=> remote = None
    BY <1>0 DEF LoginTask
  <2> HIDE DEF t
  <2>3. /\ remote' \in Nat \cup {None}
        /\ (remote = None => Held' = Held) /\ (remote # None => Held' = Held + 1)
    <3>1. CASE remote = None  BY <1>0, <2>1, <3>1 DEF Held
    <3>2. CASE remote # None  BY <1>0, <2>1, <3>2 DEF Held
    <3> QED  BY <3>1, <3>2
  <2>4. tried' \in Nat /\ tried' = tried /\ local' \in [Worker -> Nat]  BY <1>0, <2>1
  <2>5. (t # Idle /\ Held' = Held) \/ Held' = Held + 1  BY <2>2, <2>3
  <2> QED  BY <1>e, <2>1, <2>2, <2>3, <2>4, <2>5
<1>5. ASSUME NEW w \in Worker, L!SetKey(w)
      PROVE  LoginInv'
  <2>1. /\ L!At(w, "set") /\ remote' = local[w] /\ tried' = 0 /\ L!Goes(w, Idle)
        /\ UNCHANGED <<account, pw, sess, flag, local, lpast>>
    BY <1>5 DEF L!SetKey, L!AccountSame
  <2>2. remote' \in Nat \cup {None} /\ local' \in [Worker -> Nat] /\ tried' \in Nat  BY <1>0, <2>1
  <2> QED  BY <1>e, <2>1, <2>2
\* A step besides: sessions, the account or a counter go.
<1>f. ASSUME ltask' = ltask, lpast' = lpast, pw' = pw, account' \in {"none", "user", "full", "gone"},
             sess' \in [SessionId -> 0..MaxPw \cup {None}], flag' \in BOOLEAN,
             account' # "full" => ~flag',
             L!Live' \subseteq L!Live, L!Live' = {} \/ flag' = flag,
             account = "gone" => account' = "gone", flag => flag' \/ account' = "gone",
             remote' \in Nat \cup {None}, local' \in [Worker -> Nat],
             (tried' = tried /\ remote' = remote) \/ tried' = 0
      PROVE  LoginInv'
  <2>1. Owned'  BY <1>a, <1>f, OwnedStays
  <2>2. OneLogin'  BY <1>a, <1>f, AloneStays
  <2>3. LoginTyped'
    <3>1. /\ pw' \in 0..MaxPw /\ ltask' \in [Worker -> LoginTask \cup {Idle}]
      BY <1>0, <1>f
    <3>2. tried' \in Nat  BY <1>0, <1>f
    <3>3. lpast' \in BOOLEAN  BY <1>a, <1>f, PastStays
    <3> QED  BY <1>f, <3>1, <3>2, <3>3, LoginTypedNext
  <2>4. Pending' = Pending  BY <1>f DEF Pending
  <2>5. Count(Pending) \in Nat
    <3>1. Pending \in SUBSET Worker  BY DEF Pending
    <3> QED  BY <3>1, CountOf
  <2>6. Held' \in Nat /\ (remote' = remote => Held' = Held)  BY <1>0, <1>f DEF Held
  <2>7. tried' <= Held' + Count(Pending')  BY <1>0, <1>a, <1>f, <2>4, <2>5, <2>6 DEF Guesses
  <2>8. tried' <= Limit - 1 + Count(Worker)
    <3>1. tried \in Nat /\ tried <= Limit - 1 + Count(Worker)  BY <1>0, <1>a DEF Guesses
    <3>2. Count(Worker) \in Nat  BY CountOf
    <3> QED  BY <1>0, <1>f, <3>1, <3>2
  <2> QED  BY <2>1, <2>2, <2>3, <2>7, <2>8 DEF LoginInv, Guesses, Count
<1>6. ASSUME NEW w \in Worker, L!Expire(w)
      PROVE  LoginInv'
  <2>1. /\ local' = [local EXCEPT ![w] = 0]
        /\ UNCHANGED <<account, pw, sess, flag, ltask, remote, tried, lpast>>
    BY <1>6 DEF L!Expire, L!AccountSame
  <2>2. local' \in [Worker -> Nat] /\ L!Live' = L!Live  BY <1>0, <2>1 DEF L!Live
  <2>3. flag' \in BOOLEAN /\ account' \in {"none", "user", "full", "gone"} /\ (account' # "full" => ~flag')
    BY <1>a, <2>1, FlagStays
  <2>4. sess' \in [SessionId -> 0..MaxPw \cup {None}] /\ remote' \in Nat \cup {None} /\ local' \in [Worker -> Nat]
    BY <1>0, <2>1, <2>2
  <2>5. L!Live' \subseteq L!Live /\ flag' = flag /\ (account = "gone" => account' = "gone")
        /\ (flag => flag' \/ account' = "gone")
    BY <2>1, <2>2
  <2>6. (tried' = tried /\ remote' = remote) \/ tried' = 0  BY <2>1
  <2> QED  BY <1>f, <2>1, <2>3, <2>4, <2>5, <2>6
<1>7. CASE L!ExpireKey
  <2>1. /\ remote' = None /\ tried' = 0
        /\ UNCHANGED <<account, pw, sess, flag, ltask, local, lpast>>
    BY <1>7 DEF L!ExpireKey, L!AccountSame
  <2>2. L!Live' = L!Live  BY <2>1 DEF L!Live
  <2>3. flag' \in BOOLEAN /\ account' \in {"none", "user", "full", "gone"} /\ (account' # "full" => ~flag')
    BY <1>a, <2>1, FlagStays
  <2>4. sess' \in [SessionId -> 0..MaxPw \cup {None}] /\ remote' \in Nat \cup {None} /\ local' \in [Worker -> Nat]
    BY <1>0, <2>1, <2>2
  <2>5. L!Live' \subseteq L!Live /\ flag' = flag /\ (account = "gone" => account' = "gone")
        /\ (flag => flag' \/ account' = "gone")
    BY <2>1, <2>2
  <2>6. (tried' = tried /\ remote' = remote) \/ tried' = 0  BY <2>1
  <2> QED  BY <1>f, <2>1, <2>3, <2>4, <2>5, <2>6
\* A login or logout goes on, without guesses.
<1>g. ASSUME NEW w \in Worker, w \notin Pending, NEW t \in LoginTask \cup {Idle}, L!Goes(w, t),
             t # Idle => t.at \notin {"failed", "add", "incr", "set"},
             account' = account, pw' = pw,
             sess' \in [SessionId -> 0..MaxPw \cup {None}], flag' \in BOOLEAN,
             account # "full" => ~flag',
             (remote' = remote /\ tried' = tried) \/ (remote' = None /\ tried' = 0),
             local' \in [Worker -> Nat], lpast' \in BOOLEAN,
             Owned', OneLogin'
      PROVE  LoginInv'
  <2>1. /\ ltask' \in [Worker -> LoginTask \cup {Idle}]
        /\ ltask'[w] = t /\ \A v \in Worker \ {w} : ltask'[v] = ltask[v]
        /\ w \notin Pending'
    BY <1>b, <1>g
  <2>2. Pending' = Pending  BY <1>g, <2>1, PendingOn
  <2>3. LoginTyped'
    <3>1. account' \in {"none", "user", "full", "gone"} /\ pw' \in 0..MaxPw  BY <1>0, <1>g
    <3>2. remote' \in Nat \cup {None}  BY <1>0, <1>g
    <3>3. tried' \in Nat  BY <1>0, <1>g
    <3>4. account' # "full" => ~flag'  BY <1>g
    <3> QED  BY <1>g, <2>1, <3>1, <3>2, <3>3, <3>4, LoginTypedNext
  <2>4. Count(Pending) \in Nat /\ Count(Worker) \in Nat  BY <2>1, PendingOn
  <2>5. Held' \in Nat /\ (remote' = remote => Held' = Held)  BY <1>0, <1>g DEF Held
  <2>6. tried' <= Held' + Count(Pending')  BY <1>0, <1>a, <1>g, <2>2, <2>4, <2>5 DEF Guesses
  <2>7. tried' <= Limit - 1 + Count(Worker)
    <3>1. tried \in Nat /\ tried <= Limit - 1 + Count(Worker)  BY <1>0, <1>a DEF Guesses
    <3> QED  BY <1>0, <1>g, <2>4, <3>1
  <2> QED  BY <1>g, <2>3, <2>6, <2>7 DEF LoginInv, Guesses, Count
<1>8. ASSUME NEW w \in Worker, L!LogOff(w)
      PROVE  LoginInv'
  <2> DEFINE t == [at |-> "drop", pw |-> ltask[w].pw, seen |-> L!Live]
  <2>1. /\ L!At(w, "off") /\ flag' = FALSE /\ L!Goes(w, t)
        /\ UNCHANGED <<account, pw, sess, remote, local, tried, lpast>>
    BY <1>8 DEF L!LogOff, L!AccountSame, L!CountersSame
  <2>2. t \in LoginTask /\ t.at = "drop" /\ t.seen = L!Live
    <3>1. ltask[w].pw \in 0..MaxPw  BY <1>a, <2>1, LoginTaskOf
    <3> QED  BY <1>0, <3>1 DEF LoginTask
  <2> HIDE DEF t
  <2>3. ltask'[w] = t /\ (\A v \in Worker \ {w} : ltask'[v] = ltask[v]) /\ w \notin Pending
    BY <1>b, <2>1, <2>2 DEF L!At
  <2>4. L!Live' = L!Live  BY <2>1 DEF L!Live
  <2>5. /\ L!At(w, "drop")' => \A i \in L!Live' : i \in ltask'[w].seen
        /\ ~L!At(w, "enter")' /\ ~L!At(w, "store")'
    BY <2>2, <2>3, <2>4 DEF L!At
  <2>6. Owned'  BY <1>a, <2>3, <2>4, <2>5, OwnedOn
  <2>7. OneLogin'
    <3>1. Leaving(t, L!Live', flag', account' = "gone")  BY <2>2, <2>4 DEF Leaving
    <3>2. t # Idle  BY <1>0, <2>2
    <3> QED  BY <1>a, <2>1, <2>3, <3>1, <3>2, AloneOn DEF L!At
  <2>8. flag' \in BOOLEAN /\ ~flag'  BY <2>1
  <2>9. sess' \in [SessionId -> 0..MaxPw \cup {None}] /\ local' \in [Worker -> Nat]
    BY <1>0, <2>1
  <2>p. lpast' \in BOOLEAN  BY <1>a, <2>1, PastStays
  <2>10. account' = account /\ pw' = pw /\ remote' = remote /\ tried' = tried  BY <2>1
  <2> QED  BY <1>g, <2>p, <2>1, <2>2, <2>3, <2>6, <2>7, <2>8, <2>9, <2>10
<1>9. ASSUME NEW w \in Worker, L!Drop(w)
      PROVE  LoginInv'
  <2> DEFINE t == [at |-> "enter", pw |-> ltask[w].pw]
             seen == ltask[w].seen
  <2>1. /\ L!At(w, "drop") /\ L!Goes(w, t)
        /\ sess' = [i \in SessionId |-> IF i \in seen THEN None ELSE sess[i]]
        /\ UNCHANGED <<account, pw, flag, remote, local, tried, lpast>>
    BY <1>9 DEF L!Drop, L!Dropped, L!AccountSame, L!CountersSame
  <2>2. t \in LoginTask /\ t.at = "enter"
    <3>1. ltask[w].pw \in 0..MaxPw  BY <1>a, <2>1, LoginTaskOf
    <3> QED  BY <1>0, <3>1 DEF LoginTask
  <2> HIDE DEF t
  <2>3. ltask'[w] = t /\ (\A v \in Worker \ {w} : ltask'[v] = ltask[v]) /\ w \notin Pending
    BY <1>b, <2>1, <2>2 DEF L!At
  <2>4. L!Live' = L!Live \ seen /\ sess' \in [SessionId -> 0..MaxPw \cup {None}]
    BY <1>0, <2>1 DEF L!Live
  <2>5. ASSUME NEW owner \in [SessionId -> Worker], OwnedBy(owner)
        PROVE  (\A i \in L!Live' : owner[i] # w) /\ ~L!At(w, "drop")'
    BY <2>1, <2>2, <2>3, <2>4, <2>5 DEF OwnedBy, L!At
  <2>6. Owned'
    <3>1. L!Live' \subseteq L!Live  BY <2>4
    <3> QED  BY <1>a, <2>3, <2>5, <3>1, OwnedOn
  <2>7. OneLogin'
    <3>1. ltask[w] # Idle /\ ltask[w].at = "drop"  BY <2>1 DEF L!At
    <3>2. ~lpast => L!Live \subseteq seen  BY <1>d, <3>1 DEF Leaving
    <3>3. ~lpast => Leaving(t, L!Live', flag', account' = "gone")  BY <2>2, <2>4, <3>2 DEF Leaving
    <3>4. t # Idle  BY <1>0, <2>2
    <3> QED  BY <1>a, <2>1, <2>3, <3>1, <3>3, <3>4, AloneOn
  <2>8. flag' \in BOOLEAN /\ (account # "full" => ~flag')  BY <1>a, <2>1, FlagStays
  <2>9. local' \in [Worker -> Nat]  BY <1>0, <2>1
  <2>p. lpast' \in BOOLEAN  BY <1>a, <2>1, PastStays
  <2>10. account' = account /\ pw' = pw /\ remote' = remote /\ tried' = tried  BY <2>1
  <2> QED  BY <1>g, <2>p, <2>1, <2>2, <2>3, <2>4, <2>6, <2>7, <2>8, <2>9, <2>10
<1>10. ASSUME NEW w \in Worker, L!Enter(w)
       PROVE  LoginInv'
  <2> DEFINE t == IF account = "full" THEN [at |-> "store", pw |-> ltask[w].pw] ELSE Idle
  <2>1. /\ L!At(w, "enter") /\ L!Goes(w, t) /\ local' = [local EXCEPT ![w] = 0]
        /\ remote' = None /\ tried' = 0 /\ flag' = (account = "full")
        /\ UNCHANGED <<account, pw, sess, lpast>>
    BY <1>10 DEF L!Enter, L!AccountSame
  <2>2. t \in LoginTask \cup {Idle} /\ (t # Idle => t.at = "store" /\ account = "full")
    <3>1. ltask[w].pw \in 0..MaxPw  BY <1>a, <2>1, LoginTaskOf
    <3> QED  BY <1>0, <3>1 DEF LoginTask
  <2> HIDE DEF t
  <2>3. ltask'[w] = t /\ (\A v \in Worker \ {w} : ltask'[v] = ltask[v]) /\ w \notin Pending
    BY <1>b, <2>1, <2>2 DEF L!At
  <2>4. L!Live' = L!Live  BY <2>1 DEF L!Live
  <2>5. ASSUME NEW owner \in [SessionId -> Worker], OwnedBy(owner)
        PROVE  (\A i \in L!Live' : owner[i] # w) /\ ~L!At(w, "drop")'
    BY <2>1, <2>2, <2>3, <2>4, <2>5 DEF OwnedBy, L!At
  <2>6. Owned'
    <3>1. L!Live' \subseteq L!Live  BY <2>4
    <3> QED  BY <1>a, <2>3, <2>5, <3>1, OwnedOn
  <2>7. flag' \in BOOLEAN /\ (account = "full" => flag') /\ (account # "full" => ~flag')
    BY <2>1
  <2>8. OneLogin'
    <3>1. ltask[w] # Idle /\ ltask[w].at = "enter"  BY <2>1 DEF L!At
    <3>2. ~lpast => L!Live = {}  BY <1>d, <3>1 DEF Leaving
    <3>3. ~lpast /\ t # Idle => Leaving(t, L!Live', flag', account' = "gone")
      BY <2>2, <2>4, <2>7, <3>2 DEF Leaving
    <3>4. ~lpast => Single(L!Live', flag')  BY <2>4, <3>2 DEF Single
    <3> QED  BY <1>a, <2>1, <2>3, <3>1, <3>3, <3>4, AloneOn
  <2>9. sess' \in [SessionId -> 0..MaxPw \cup {None}] /\ local' \in [Worker -> Nat]
    BY <1>0, <2>1
  <2>p. lpast' \in BOOLEAN  BY <1>a, <2>1, PastStays
  <2>10. account' = account /\ pw' = pw /\ remote' = None /\ tried' = 0  BY <2>1
  <2> QED  BY <1>g, <2>p, <2>1, <2>2, <2>3, <2>6, <2>7, <2>8, <2>9, <2>10
<1>11. ASSUME NEW w \in Worker, L!Store(w)
       PROVE  LoginInv'
  <2> DEFINE id == L!Min(L!Free)
  <2>1. /\ L!At(w, "store") /\ L!Goes(w, Idle)
        /\ sess' = IF account = "gone" THEN sess ELSE [sess EXCEPT ![id] = ltask[w].pw]
        /\ UNCHANGED <<account, pw, flag, remote, local, tried, lpast>>
    BY <1>11 DEF L!Store, L!AccountSame, L!CountersSame
  <2> HIDE DEF id
  <2>2. ltask[w].pw \in 0..MaxPw  BY <1>a, <2>1, LoginTaskOf
  <2>3. ltask'[w] = Idle /\ (\A v \in Worker \ {w} : ltask'[v] = ltask[v]) /\ w \notin Pending
    BY <1>b, <2>1 DEF L!At
  <2>4. sess' \in [SessionId -> 0..MaxPw \cup {None}]  BY <1>0, <2>1, <2>2
  <2>5. /\ L!Live' \subseteq L!Live \cup {id}
        /\ account = "gone" \/ id \notin SessionId => L!Live' = L!Live
    BY <1>0, <2>1 DEF L!Live
  <2>6. Owned'
    <3>1. CASE id \in SessionId
      BY <1>0, <1>a, <2>1, <2>3, <2>5, <3>1, OwnedMore
    <3>2. CASE id \notin SessionId
      BY <1>a, <2>3, <2>5, <3>2, OwnedStays
    <3> QED  BY <3>1, <3>2
  <2>7. OneLogin'
    <3>1. ltask[w] # Idle /\ ltask[w].at = "store"  BY <2>1 DEF L!At
    <3>2. ~lpast => L!Live = {} /\ (account = "gone" \/ flag)  BY <1>d, <3>1 DEF Leaving
    <3>3. ~lpast => Single(L!Live', flag')  BY <2>1, <2>5, <3>2 DEF Single
    <3> QED  BY <1>a, <2>1, <2>3, <3>1, <3>3, AloneOn
  <2>8. flag' \in BOOLEAN /\ (account # "full" => ~flag')  BY <1>a, <2>1, FlagStays
  <2>9. local' \in [Worker -> Nat]  BY <1>0, <2>1
  <2>p. lpast' \in BOOLEAN  BY <1>a, <2>1, PastStays
  <2>10. account' = account /\ pw' = pw /\ remote' = remote /\ tried' = tried  BY <2>1
  <2> QED  BY <1>g, <2>p, <2>1, <2>3, <2>4, <2>6, <2>7, <2>8, <2>9, <2>10
<1>12. ASSUME NEW w \in Worker, NEW i \in SessionId, L!AskLogout(w, i)
       PROVE  LoginInv'
  <2> DEFINE t == [at |-> "out", id |-> i]
  <2>1. /\ sess[i] # None /\ L!Begin(w, t)
        /\ UNCHANGED <<account, pw, sess, flag, remote, local, tried>>
    BY <1>12 DEF L!AskLogout, L!AccountSame, L!CountersSame
  <2>2. t \in LoginTask /\ t.at = "out" /\ t.id = i  BY DEF LoginTask
  <2> HIDE DEF t
  <2>3. /\ L!Goes(w, t) /\ ltask[w] = Idle /\ lpast' \in BOOLEAN
        /\ ~lpast' => ~lpast /\ L!AtRest /\ Single(L!Live, flag)
    BY <1>c, <2>1, <2>2
  <2>4. ltask'[w] = t /\ (\A v \in Worker \ {w} : ltask'[v] = ltask[v]) /\ w \notin Pending
    BY <1>b, <2>2, <2>3
  <2>5. L!Live' = L!Live /\ i \in L!Live  BY <2>1 DEF L!Live
  <2>6. Owned'  BY <1>a, <2>2, <2>4, <2>5, OwnedStays
  <2>7. OneLogin'
    <3>1. ~lpast' => L!Live' \subseteq {i}  BY <2>3, <2>5 DEF Single
    <3>2. ~lpast' => Leaving(t, L!Live', flag', account' = "gone")  BY <2>2, <3>1 DEF Leaving
    <3>3. t # Idle  BY <1>0, <2>2
    <3> QED  BY <1>a, <2>3, <2>4, <3>2, <3>3, AloneOn
  <2>8. flag' \in BOOLEAN /\ (account # "full" => ~flag')  BY <1>a, <2>1, FlagStays
  <2>9. sess' \in [SessionId -> 0..MaxPw \cup {None}] /\ local' \in [Worker -> Nat]  BY <1>0, <2>1
  <2>10. account' = account /\ pw' = pw /\ remote' = remote /\ tried' = tried  BY <2>1
  <2> QED  BY <1>g, <2>1, <2>2, <2>3, <2>4, <2>6, <2>7, <2>8, <2>9, <2>10
<1>13. ASSUME NEW w \in Worker, L!LogOut(w)
       PROVE  LoginInv'
  <2> DEFINE id == ltask[w].id
  <2>1. /\ L!At(w, "out") /\ L!Goes(w, Idle) /\ flag' = FALSE
        /\ sess' = [sess EXCEPT ![id] = None]
        /\ UNCHANGED <<account, pw, remote, local, tried, lpast>>
    BY <1>13 DEF L!LogOut, L!AccountSame, L!CountersSame
  <2>2. ltask'[w] = Idle /\ (\A v \in Worker \ {w} : ltask'[v] = ltask[v]) /\ w \notin Pending
    BY <1>b, <2>1 DEF L!At
  <2>3. sess' \in [SessionId -> 0..MaxPw \cup {None}] /\ L!Live' \subseteq L!Live \ {id}
    BY <1>0, <2>1 DEF L!Live
  <2>4. Owned'
    <3>1. L!Live' \subseteq L!Live  BY <2>3
    <3> QED  BY <1>a, <2>2, <3>1, OwnedStays
  <2>5. OneLogin'
    <3>1. ltask[w] # Idle /\ ltask[w].at = "out"  BY <2>1 DEF L!At
    <3>2. ~lpast => L!Live \subseteq {id}  BY <1>d, <3>1 DEF Leaving
    <3>3. ~lpast => Single(L!Live', flag')  BY <2>3, <3>2 DEF Single
    <3> QED  BY <1>a, <2>1, <2>2, <3>1, <3>3, AloneOn
  <2>6. flag' \in BOOLEAN /\ ~flag'  BY <2>1
  <2>7. local' \in [Worker -> Nat]  BY <1>0, <2>1
  <2>p. lpast' \in BOOLEAN  BY <1>a, <2>1, PastStays
  <2>8. account' = account /\ pw' = pw /\ remote' = remote /\ tried' = tried  BY <2>1
  <2> QED  BY <1>g, <2>p, <2>1, <2>2, <2>3, <2>4, <2>5, <2>6, <2>7, <2>8
<1>14. ASSUME NEW w \in Worker, L!Kill(w)
       PROVE  LoginInv'
  <2>1. /\ ltask[w] # Idle /\ L!Goes(w, Idle) /\ lpast' = TRUE
        /\ tried' = IF ltask[w].at \in {"failed", "add", "incr", "set"} /\ tried > 0 THEN tried - 1
                    ELSE tried
        /\ local' = [local EXCEPT ![w] = 0]
        /\ UNCHANGED <<account, pw, sess, flag, remote>>
    BY <1>14 DEF L!Kill, L!AccountSame
  <2>2. /\ ltask' \in [Worker -> LoginTask \cup {Idle}]
        /\ ltask'[w] = Idle /\ (\A v \in Worker \ {w} : ltask'[v] = ltask[v])
        /\ w \notin Pending'
        /\ w \in Pending => ltask[w].at \in {"failed", "add", "incr", "set"}
        /\ w \notin Pending => ltask[w].at \notin {"failed", "add", "incr", "set"}
    BY <1>b, <2>1
  <2>3. L!Live' = L!Live /\ Held' = Held  BY <2>1 DEF L!Live, Held
  <2>4. Owned'  BY <1>a, <2>2, <2>3, OwnedStays
  <2>5. OneLogin'  BY <2>1 DEF OneLogin
  <2>6. tried' \in Nat /\ tried' <= tried /\ (w \in Pending => tried' = 0 \/ tried' = tried - 1)
    <3>1. CASE w \in Pending /\ tried > 0
      <4>1. tried' = tried - 1  BY <2>1, <2>2, <3>1
      <4> QED  BY <1>0, <3>1, <4>1
    <3>2. CASE ~(w \in Pending /\ tried > 0)
      <4>1. tried' = tried  BY <2>1, <2>2, <3>2
      <4> QED  BY <1>0, <3>2, <4>1
    <3> QED  BY <3>1, <3>2
  <2>7. local' \in [Worker -> Nat] /\ lpast' \in BOOLEAN  BY <1>0, <2>1
  <2>8. LoginTyped'
    <3>1. flag' \in BOOLEAN /\ account' \in {"none", "user", "full", "gone"} /\ (account' # "full" => ~flag')
      BY <1>a, <2>1, FlagStays
    <3>2. pw' \in 0..MaxPw /\ sess' \in [SessionId -> 0..MaxPw \cup {None}] /\ remote' \in Nat \cup {None}
      BY <1>0, <2>1
    <3> QED  BY <2>2, <2>6, <2>7, <3>1, <3>2, LoginTypedNext
  <2>9. /\ Count(Pending) \in Nat /\ Count(Pending') \in Nat /\ Count(Worker) \in Nat
        /\ w \in Pending => Count(Pending') = Count(Pending) - 1
        /\ w \notin Pending => Count(Pending') = Count(Pending)
    <3>1. w \notin Pending => Pending' = Pending  BY <2>2, PendingOn
    <3> QED  BY <2>2, <3>1, PendingOn
  <2>10. tried' <= Held' + Count(Pending')  BY <1>0, <1>a, <2>3, <2>6, <2>9 DEF Guesses
  <2>11. tried' <= Limit - 1 + Count(Worker)  BY <1>0, <1>a, <2>6, <2>9 DEF Guesses
  <2> QED  BY <2>4, <2>5, <2>8, <2>10, <2>11 DEF LoginInv, Guesses, Count
<1>15. ASSUME NEW i \in SessionId, L!ExpireSession(i)
       PROVE  LoginInv'
  <2>1. /\ sess' = [sess EXCEPT ![i] = None]
        /\ UNCHANGED <<account, pw, flag, ltask, remote, local, tried, lpast>>
    BY <1>15 DEF L!ExpireSession, L!AccountSame, L!CountersSame
  <2>2. L!Live' \subseteq L!Live /\ sess' \in [SessionId -> 0..MaxPw \cup {None}]
    BY <1>0, <2>1 DEF L!Live
  <2>3. flag' \in BOOLEAN /\ account' \in {"none", "user", "full", "gone"} /\ (account' # "full" => ~flag')
    BY <1>a, <2>1, FlagStays
  <2>4. sess' \in [SessionId -> 0..MaxPw \cup {None}] /\ remote' \in Nat \cup {None} /\ local' \in [Worker -> Nat]
    BY <1>0, <2>1, <2>2
  <2>5. L!Live' \subseteq L!Live /\ flag' = flag /\ (account = "gone" => account' = "gone")
        /\ (flag => flag' \/ account' = "gone")
    BY <2>1, <2>2
  <2>6. (tried' = tried /\ remote' = remote) \/ tried' = 0  BY <2>1
  <2> QED  BY <1>f, <2>1, <2>3, <2>4, <2>5, <2>6
<1>16. CASE L!CreateUser \/ L!CreateProfile
  <2>1. /\ account # "gone" /\ account # "full" /\ account' \in {"user", "full"}
        /\ UNCHANGED <<pw, sess, flag, ltask, remote, local, tried, lpast>>
    BY <1>16 DEF L!CreateUser, L!CreateProfile, L!CountersSame
  <2>2. L!Live' = L!Live  BY <2>1 DEF L!Live
  <2>3. account' \in {"none", "user", "full", "gone"}  BY <2>1
  <2>4. flag' \in BOOLEAN /\ ~flag'
    <3>1. flag' = flag  BY <2>1
    <3>2. account # "full"  BY <2>1
    <3>3. flag \in BOOLEAN /\ (account # "full" => ~flag)  BY <1>a DEF LoginTyped, L!TypeOK
    <3> QED  BY <3>1, <3>2, <3>3
  <2>5. sess' \in [SessionId -> 0..MaxPw \cup {None}] /\ remote' \in Nat \cup {None} /\ local' \in [Worker -> Nat]
    BY <1>0, <2>1
  <2>6. L!Live' \subseteq L!Live /\ flag' = flag /\ account # "gone" /\ (flag => flag')  BY <2>1, <2>2
  <2>7. tried' = tried /\ remote' = remote  BY <2>1
  <2> QED  BY <1>f, <2>1, <2>3, <2>4, <2>5, <2>6, <2>7
<1>17. CASE L!ChangePassword
  <2>1. /\ pw' = pw + 1 /\ pw < MaxPw
        /\ UNCHANGED <<account, sess, flag, ltask, remote, local, tried, lpast>>
    BY <1>17 DEF L!ChangePassword, L!CountersSame
  <2>2. L!Live' = L!Live /\ pw' \in 0..MaxPw  BY <1>0, <2>1 DEF L!Live
  <2>3. LoginTyped'
    <3>1. flag' \in BOOLEAN /\ account' \in {"none", "user", "full", "gone"} /\ (account' # "full" => ~flag')
      BY <1>a, <2>1, FlagStays
    <3>2. sess' \in [SessionId -> 0..MaxPw \cup {None}] /\ remote' \in Nat \cup {None} /\ local' \in [Worker -> Nat]
      BY <1>0, <2>1
    <3>3. tried' \in Nat /\ ltask' \in [Worker -> LoginTask \cup {Idle}]  BY <1>0, <2>1
    <3>4. lpast' \in BOOLEAN  BY <1>a, <2>1, PastStays
    <3> QED  BY <2>2, <3>1, <3>2, <3>3, <3>4, LoginTypedNext
  <2>4. Owned'  BY <1>a, <2>1, <2>2, OwnedStays
  <2>5. OneLogin'  BY <1>a, <2>1, <2>2, AloneStays
  <2>6. Guesses'  BY <1>a, <2>1 DEF Guesses, Held, Pending, Count
  <2> QED  BY <2>3, <2>4, <2>5, <2>6 DEF LoginInv
<1>18. CASE L!DeleteUser
  <2>1. /\ account' = "gone" /\ flag' = FALSE /\ sess' = [i \in SessionId |-> None]
        /\ UNCHANGED <<pw, ltask, remote, local, tried, lpast>>
    BY <1>18 DEF L!DeleteUser, L!CountersSame
  <2>2. L!Live' = {} /\ sess' \in [SessionId -> 0..MaxPw \cup {None}]  BY <2>1 DEF L!Live
  <2>3. flag' \in BOOLEAN /\ ~flag'  BY <2>1
  <2>4. account' = "gone" /\ account' \in {"none", "user", "full", "gone"}  BY <2>1
  <2>5. L!Live' \subseteq L!Live  BY <2>2
  <2>6. sess' \in [SessionId -> 0..MaxPw \cup {None}] /\ remote' \in Nat \cup {None} /\ local' \in [Worker -> Nat]
    BY <1>0, <2>1, <2>2
  <2>7. tried' = tried /\ remote' = remote  BY <2>1
  <2> QED  BY <1>f, <2>1, <2>2, <2>3, <2>4, <2>5, <2>6, <2>7
<1>19. CASE UNCHANGED L!loginVars
  <2>1. UNCHANGED <<account, pw, sess, flag, ltask, remote, local, tried, lpast>>
    BY <1>19 DEF L!loginVars
  <2>2. L!Live' = L!Live  BY <2>1 DEF L!Live
  <2>3. flag' \in BOOLEAN /\ account' \in {"none", "user", "full", "gone"} /\ (account' # "full" => ~flag')
    BY <1>a, <2>1, FlagStays
  <2>4. sess' \in [SessionId -> 0..MaxPw \cup {None}] /\ remote' \in Nat \cup {None} /\ local' \in [Worker -> Nat]
    BY <1>0, <2>1, <2>2
  <2>5. L!Live' \subseteq L!Live /\ flag' = flag /\ (account = "gone" => account' = "gone")
        /\ (flag => flag' \/ account' = "gone")
    BY <2>1, <2>2
  <2>6. (tried' = tried /\ remote' = remote) \/ tried' = 0  BY <2>1
  <2> QED  BY <1>f, <2>1, <2>3, <2>4, <2>5, <2>6
<1> QED
  BY <1>1, <1>2, <1>3, <1>4, <1>5, <1>6, <1>7, <1>8, <1>9, <1>10, <1>11, <1>12, <1>13, <1>14,
     <1>15, <1>16, <1>17, <1>18, <1>19 DEF L!Next

-----------------------------------------------------------------------------
(* What the invariants of the parts say of their properties. *)

\* The last saved row has been mirrored: a module without a state has no content.
LEMMA OthersKeptBy ==
    ASSUME StructFits, StructInv, NEW m \in Module, S!ReleasedBy(m), ~S!Unmirrored, ~behind,
           NEW o \in Module \ {m}
    PROVE  IF struct' = None THEN struct = None \/ (struct.col[o] = "blank" /\ state[o] = None)
           ELSE struct'.col[o] = struct.col[o] /\ struct'.has[o] = struct.has[o]
                /\ state'[o] = state[o]
PROOF
<1>1. /\ struct \in S!Columns \cup {None} /\ state \in [S!Code -> S!Content \cup {None}]
      /\ None \notin S!Columns /\ o \in S!Code /\ m \in S!Code
  BY DEF StructInv, StructTyped, S!TypeOK, StructFits, S!Code
<1>2. PICK row : \/ struct = None /\ struct' = None
                 \/ struct # None /\ S!Release(m, row)
  <2>1. ASSUME NEW w \in Worker, stask[w].by = m, S!Destroy(w)
        PROVE  \E row : \/ struct = None /\ struct' = None
                        \/ struct # None /\ S!Release(m, row)
    BY <2>1 DEF S!Destroy
  <2>2. CASE S!DeleteAll(m)  BY <2>2 DEF S!DeleteAll
  <2> QED  BY <2>1, <2>2 DEF S!ReleasedBy
<1>3. CASE struct = None /\ struct' = None  BY <1>3
<1>4. CASE struct # None /\ S!Release(m, row)
  <2>1. /\ S!Without(m)[o] = state[o]
        /\ S!Released(struct, m).col[o] = struct.col[o]
        /\ S!Released(struct, m).has[o] = struct.has[o]
        /\ S!Released(struct, m) \in S!Columns
    BY <1>1, <1>4, RowsMade DEF S!Without, S!Released, S!Columns
  <2>2. CASE S!Unowned(row, S!Without(m))
    <3>1. struct' = None /\ state[o] = None  BY <1>1, <1>4, <2>1, <2>2 DEF S!Release, S!Unowned
    <3>2. struct.col[o] # "filled"  BY <1>4, <3>1 DEF StructInv, Matched
    <3>3. struct.col[o] \in S!Content  BY <1>1, <1>4, ColumnsAre
    <3> QED  BY <3>1, <3>2, <3>3 DEF S!Content
  <2>3. CASE ~S!Unowned(row, S!Without(m))
    <3>1. struct' = S!Released(struct, m) /\ state' = S!Without(m)
      BY <1>4, <2>3 DEF S!Release
    <3> QED  BY <1>1, <2>1, <3>1
  <2> QED  BY <2>2, <2>3
<1> QED  BY <1>2, <1>3, <1>4

LEMMA GroupSays == GroupInv => G!TypeOK /\ G!MembersCounted /\ G!NothingMissed
PROOF
<1> SUFFICES ASSUME GroupInv  PROVE G!TypeOK /\ G!MembersCounted /\ G!NothingMissed
  OBVIOUS
<1>1. G!TypeOK  BY DEF GroupInv, GroupTyped, G!TypeOK
<1>2. G!MembersCounted  BY SameSize DEF GroupInv, Counted, G!MembersCounted
<1>3. G!NothingMissed  BY DEF GroupInv, GroupTyped, Unmissed, G!NothingMissed
<1> QED  BY <1>1, <1>2, <1>3

LEMMA AtMostOne == ASSUME NEW Z, Z = {} \/ \E x : Z = {x} PROVE Cardinality(Z) <= 1
PROOF
<1>1. CASE Z = {}
  <2>1. Cardinality(Z) = 0  BY <1>1, FS_EmptySet, Zenon
  <2> QED  BY <2>1
<1>2. ASSUME NEW x, Z = {x}  PROVE Cardinality(Z) <= 1
  <2>1. Cardinality({x}) = 1  BY FS_Singleton, Zenon
  <2> QED  BY <1>2, <2>1
<1> QED  BY <1>1, <1>2

LEMMA ChatSays ==
    ASSUME ChatInv
    PROVE  H!TypeOK /\ H!OneChat /\ H!SeenWasShown
PROOF
<1>1. H!TypeOK
  <2>1. chats \subseteq H!User \X H!User  BY DEF ChatInv, ChatTyped, H!User
  <2>2. messages \in UNION {[1..n -> H!Row] : n \in 0..MaxMessages}  BY DEF ChatInv, ChatTyped
  <2> QED  BY <2>1, <2>2 DEF ChatInv, ChatTyped, H!TypeOK
<1>2. H!OneChat
  <2>1. chats = {} \/ chats = {<<First, Second>>}  BY DEF ChatInv, ChatTyped
  <2>2. Cardinality(chats) <= 1  BY <2>1, AtMostOne
  <2>3. H!Cardinality(chats) = Cardinality(chats)  BY DEF H!Cardinality, Cardinality
  <2> QED  BY <2>2, <2>3 DEF H!OneChat
<1> QED  BY <1>1, <1>2 DEF ChatInv

\* No step of a chat takes back a place or a mark.
LEMMA ChatKeeps ==
    ASSUME ChatFits, ChatInv, [H!Next]_(H!chatVars)
    PROVE  /\ link \in (0..MaxMessages) => link' \in {link, Gone}
           /\ \A m \in DOMAIN messages : messages[m].seen => messages'[m].seen
PROOF
<1>0. /\ H!Latest \in 0..MaxMessages /\ DOMAIN messages = 1..H!Latest
      /\ \A m \in DOMAIN messages : messages[m] \in H!Row
      /\ None \notin 0..MaxMessages /\ Unlinked \notin 0..MaxMessages
  BY DEF ChatInv, ChatTyped, ChatFits
<1>1. CASE UNCHANGED messages /\ link' \in {link, Gone}  BY <1>1
<1>2. CASE link \notin 0..MaxMessages /\ UNCHANGED messages  BY <1>2
<1>3. ASSUME NEW u \in H!User, NEW ids, messages' = H!SeenBy(u, ids), UNCHANGED link
      PROVE  \A m \in DOMAIN messages : messages[m].seen => messages'[m].seen
  BY <1>0, <1>3 DEF H!SeenBy, H!Row
<1>4. ASSUME NEW w \in Worker, NEW u \in H!User, NEW attaching \in BOOLEAN, H!PostText(w, u, attaching)
      PROVE  UNCHANGED link /\ \A m \in DOMAIN messages : messages'[m] = messages[m]
  BY <1>0, <1>4 DEF H!PostText
<1>5. ASSUME NEW w \in Worker, H!SaveEdit(w)
      PROVE  UNCHANGED link /\ \A m \in DOMAIN messages : messages[m].seen => messages'[m].seen
  BY <1>0, <1>5 DEF H!SaveEdit, H!Rewritten, H!Row
<1>6. ASSUME NEW w \in Worker, H!Mark(w)
      PROVE  \E u \in H!User : \E ids : messages' = H!SeenBy(u, ids) /\ UNCHANGED link
  <2>1. ctask[w].by \in H!User
    BY <1>6 DEF H!Mark, H!At, ChatInv, ChatTyped, ChatTask, MarkTasks, MarkTask
  <2> QED  BY <1>6, <2>1 DEF H!Mark
<1>7. ASSUME NEW w \in Worker, H!Link(w)
      PROVE  UNCHANGED messages /\ (link \in 0..MaxMessages => link' = link)
  BY <1>0, <1>7 DEF H!Link, H!Linkable
<1>8. CASE H!Next
  <2>1. CASE H!Upload  BY <1>0, <1>2, <2>1 DEF H!Upload
  <2>2. CASE \E u \in H!User : \E ids \in (SUBSET DOMAIN messages) \ {{}} : H!MarkSeen(u, ids)
    BY <1>3, <2>2 DEF H!MarkSeen
  <2>3. ASSUME NEW w \in Worker, NEW u \in H!User,
               \/ H!StartChat(w, u) \/ H!PostFile(w, u) \/ H!ReadChat(w, u)
               \/ \E m \in DOMAIN messages : H!LoadEdit(w, u, m)
        PROVE  UNCHANGED <<messages, link>>
    BY <2>3 DEF H!StartChat, H!PostFile, H!ReadChat, H!LoadEdit
  <2>4. ASSUME NEW w \in Worker, H!CreateChat(w) \/ H!TakeBack(w) \/ H!Drop(w) \/ H!List(w)
        PROVE  UNCHANGED messages /\ link' \in {link, Gone}
    BY <2>4 DEF H!CreateChat, H!TakeBack, H!Drop, H!List
  <2> QED  BY <1>1, <1>3, <1>4, <1>5, <1>6, <1>7, <1>8, <2>1, <2>2, <2>3, <2>4 DEF H!Next
<1> QED  BY <1>1, <1>8 DEF H!chatVars

LEMMA LoginSays ==
    ASSUME LoginFits, LoginInv
    PROVE  L!TypeOK /\ L!OneDevice /\ L!GuessesCapped
PROOF
<1>1. L!TypeOK  BY DEF LoginInv, LoginTyped
<1>2. L!Live \subseteq SessionId  BY DEF L!Live
<1>3. \A Z : L!Cardinality(Z) = Cardinality(Z)  BY DEF L!Cardinality, Cardinality
<1>4. L!Cardinality(L!Live) <= L!Cardinality(Worker)  BY <1>2, <1>3, OwnedBounds DEF LoginInv
<1>5. ASSUME L!AtRest, ~lpast
      PROVE  L!Cardinality(L!Live) <= 1 /\ (L!Live # {} => flag)
  <2>1. Single(L!Live, flag)  BY <1>5 DEF LoginInv, OneLogin
  <2>2. L!Live = {} \/ \E i : L!Live = {i}  BY <2>1 DEF Single
  <2>3. Cardinality(L!Live) <= 1  BY <2>2, AtMostOne
  <2> QED  BY <1>3, <2>1, <2>3 DEF Single
<1>6. L!GuessesCapped  BY <1>3 DEF LoginInv, Guesses, Count, L!GuessesCapped
<1> QED  BY <1>1, <1>4, <1>5, <1>6 DEF L!OneDevice

-----------------------------------------------------------------------------
(* The office *)

OfficeFits ==
  /\ FormFits /\ StructFits /\ BookingFits /\ GroupFits /\ ChatFits /\ LoginFits
  /\ Limit > 0 /\ Worker # {}
  /\ MaxHeads \in Nat /\ MaxPosts \in Nat /\ MaxAsks \in Nat

LEMMA PartsStart ==
    OfficeInit => Init /\ F!Init /\ S!Init /\ B!Init /\ L!Init /\ A!Init /\ G!Init /\ H!Init
BY DEF OfficeInit

\* A step of the office is a step or a stutter of each part.
LEMMA PartsStep ==
    ASSUME [OfficeNext]_everything
    PROVE  /\ [Next]_vars /\ [F!Next]_(F!formVars) /\ [S!Next]_(S!structVars)
           /\ [B!Next]_(B!slotVars) /\ [L!Next]_(L!loginVars) /\ [A!Next]_(A!accountVars)
           /\ [G!Next]_(G!groupVars) /\ [H!Next]_(H!chatVars)
PROOF
<1> DEFINE Parts == /\ [Next]_vars /\ [F!Next]_(F!formVars) /\ [S!Next]_(S!structVars)
                    /\ [B!Next]_(B!slotVars) /\ [L!Next]_(L!loginVars) /\ [A!Next]_(A!accountVars)
                    /\ [G!Next]_(G!groupVars) /\ [H!Next]_(H!chatVars)
           rest(p) == /\ p # "checklist" => UNCHANGED vars
                      /\ p # "form" => UNCHANGED (F!formVars)
                      /\ p # "structure" => UNCHANGED (S!structVars)
                      /\ p # "booking" => UNCHANGED (B!slotVars)
                      /\ p # "login" => UNCHANGED (L!loginVars)
                      /\ p # "account" => UNCHANGED (A!accountVars)
                      /\ p # "group" => UNCHANGED (G!groupVars)
                      /\ p # "chat" => UNCHANGED (H!chatVars)
<1>1. ASSUME NEW p, Only(p)  PROVE rest(p)
  BY <1>1 DEF Only, formState, structureState, bookingState, loginState, accountState, groupState,
              chatState, F!formVars, S!structVars, B!slotVars, L!loginVars, A!accountVars,
              G!groupVars, H!chatVars
<1>2. CASE UNCHANGED everything
  BY <1>2 DEF everything, formState, structureState, bookingState, loginState, accountState,
              groupState, chatState, F!formVars, S!structVars, B!slotVars, L!loginVars,
              A!accountVars, G!groupVars, H!chatVars
<1>3. CASE Only("checklist") /\ Next  BY <1>1, <1>3
<1>4. CASE Only("form") /\ F!Next  BY <1>1, <1>4
<1>5. CASE Only("structure") /\ S!Next  BY <1>1, <1>5
<1>6. CASE Only("booking") /\ B!Next  BY <1>1, <1>6
<1>7. CASE Only("login") /\ L!Next  BY <1>1, <1>7
<1>8. CASE Only("account") /\ A!Next  BY <1>1, <1>8
<1>9. CASE Only("group") /\ G!Next  BY <1>1, <1>9
<1>10. CASE Only("chat") /\ H!Next  BY <1>1, <1>10
<1> QED  BY <1>2, <1>3, <1>4, <1>5, <1>6, <1>7, <1>8, <1>9, <1>10 DEF OfficeNext

\* Each part keeps its invariant throughout.
LEMMA FormInvHolds == ASSUME FormFits PROVE OfficeSpec => []FormInv
PROOF
<1>1. OfficeInit => FormInv  BY PartsStart, FormStarts
<1>2. FormInv /\ [OfficeNext]_everything => FormInv'  BY PartsStep, FormKept
<1> QED  BY <1>1, <1>2, PTL DEF OfficeSpec

LEMMA StructHolds == ASSUME StructFits PROVE OfficeSpec => []StructInv
PROOF
<1>1. OfficeInit => StructInv  BY PartsStart, StructStarts
<1>2. StructInv /\ [OfficeNext]_everything => StructInv'  BY PartsStep, StructStep
<1> QED  BY <1>1, <1>2, PTL DEF OfficeSpec

LEMMA BookingHolds == ASSUME BookingFits PROVE OfficeSpec => []BookingInv
PROOF
<1>1. OfficeInit => BookingInv  BY PartsStart, BookingStarts
<1>2. BookingInv /\ [OfficeNext]_everything => BookingInv'  BY PartsStep, BookingStep
<1> QED  BY <1>1, <1>2, PTL DEF OfficeSpec

LEMMA AccountHolds == ASSUME MaxHeads \in Nat PROVE OfficeSpec => []AccountInv
PROOF
<1>1. OfficeInit => AccountInv  BY PartsStart, AccountStarts
<1>2. AccountInv /\ [OfficeNext]_everything => AccountInv'  BY PartsStep, AccountStep
<1> QED  BY <1>1, <1>2, PTL DEF OfficeSpec

LEMMA GroupHolds ==
    ASSUME GroupFits, MaxPosts \in Nat, MaxAsks \in Nat
    PROVE  OfficeSpec => []GroupInv
PROOF
<1>1. OfficeInit => GroupInv  BY PartsStart, GroupStarts
<1>2. GroupInv /\ [OfficeNext]_everything => GroupInv'  BY PartsStep, GroupStep
<1> QED  BY <1>1, <1>2, PTL DEF OfficeSpec

LEMMA ChatHolds == ASSUME ChatFits PROVE OfficeSpec => []ChatInv
PROOF
<1>1. OfficeInit => ChatInv  BY PartsStart, ChatStarts
<1>2. ChatInv /\ [OfficeNext]_everything => ChatInv'  BY PartsStep, ChatStep
<1> QED  BY <1>1, <1>2, PTL DEF OfficeSpec

LEMMA LoginHolds ==
    ASSUME LoginFits, Limit > 0, Worker # {}
    PROVE  OfficeSpec => []LoginInv
PROOF
<1>1. OfficeInit => LoginInv  BY PartsStart, LoginStarts
<1>2. LoginInv /\ [OfficeNext]_everything => LoginInv'  BY PartsStep, LoginStep
<1> QED  BY <1>1, <1>2, PTL DEF OfficeSpec

LEMMA ChecklistHolds == OfficeSpec => []ChecklistInv
PROOF
<1>1. OfficeInit => ChecklistInv  BY PartsStart, InvStarts
<1>2. ChecklistInv /\ [OfficeNext]_everything => ChecklistInv'  BY PartsStep, InvKept
<1> QED  BY <1>1, <1>2, PTL DEF OfficeSpec

-----------------------------------------------------------------------------
(* Theorems *)

\* Every part keeps its type: an entry belongs to a form that is there, states to a
\* structure, the flag of a login to an account with a profile, however late a
\* request finishes.
THEOREM OfficeTypes == ASSUME OfficeFits PROVE OfficeSpec => []TypesOK
PROOF
<1>1. /\ ChecklistInv => TypeOK
      /\ FormInv => F!TypeOK
      /\ StructInv => S!TypeOK
      /\ BookingInv => B!TypeOK
      /\ AccountInv => A!TypeOK
  BY DEF ChecklistInv, FormInv, StructInv, StructTyped, BookingInv, AccountInv
<1>2. GroupInv => G!TypeOK  BY GroupSays
<1>3. ChatInv => H!TypeOK  BY ChatSays DEF OfficeFits
<1>4. LoginInv => L!TypeOK  BY LoginSays DEF OfficeFits
<1>5. /\ ChecklistInv /\ FormInv /\ StructInv /\ BookingInv /\ AccountInv
      /\ GroupInv /\ ChatInv /\ LoginInv
      => TypesOK
  BY <1>1, <1>2, <1>3, <1>4 DEF TypesOK
<1>6. OfficeFits  OBVIOUS
<1>7. /\ OfficeSpec => []FormInv
      /\ OfficeSpec => []StructInv
      /\ OfficeSpec => []BookingInv
      /\ OfficeSpec => []AccountInv
      /\ OfficeSpec => []GroupInv
      /\ OfficeSpec => []ChatInv
      /\ OfficeSpec => []LoginInv
  BY FormInvHolds, StructHolds, BookingHolds, AccountHolds, GroupHolds, ChatHolds, LoginHolds
     DEF OfficeFits
<1> QED  BY <1>5, <1>7, ChecklistHolds, PTL

\* For any number of entries and workers, an approved entry says what it said when
\* the MD approved it or what the MD has made of it since
\* (InfraProjectFormViewSet.approve_entry, InfraProjectFormSerializer.update).
THEOREM ApprovedForAll == ASSUME FormFits PROVE OfficeSpec => []ApprovedAsSigned
PROOF
<1>1. FormInv => ApprovedAsSigned  BY DEF FormInv, ApprovedAsSigned
<1> QED  BY <1>1, FormInvHolds, PTL

\* However many workers edit a structure, a deletion by one module leaves the columns
\* and states of the others (perform_destroy, delete_all), unless a mirroring is due
\* or was crossed.
THEOREM OthersKeptForAll == ASSUME StructFits PROVE OfficeSpec => OthersKept
PROOF
<1>1. StructInv /\ [OfficeNext]_everything
        => [\A m \in Module : S!ReleasedBy(m) /\ ~S!Unmirrored /\ ~behind =>
             \A o \in Module \ {m} :
               IF struct' = None THEN struct = None \/ (struct.col[o] = "blank" /\ state[o] = None)
               ELSE struct'.col[o] = struct.col[o] /\ struct'.has[o] = struct.has[o]
                    /\ state'[o] = state[o]]_(S!structVars)
  BY OthersKeptBy
<1> QED  BY <1>1, StructHolds, PTL DEF OfficeSpec, OthersKept, S!OthersKept

\* However many meetings, people and rooms, and in whatever order they are booked,
\* changed whole and removed: no room and nobody is booked twice for the same time
\* (the validation of the slot serializer), until a change is stored that it skips.
THEOREM BookedApartForAll == ASSUME BookingFits PROVE OfficeSpec => []BookedApart
PROOF
<1>1. BookingInv => BookedApart  BY DEF BookingInv, BookedApart
<1> QED  BY <1>1, BookingHolds, PTL

\* For any number of processes: a user has no more sessions than processes, one after
\* logins that do not cross, guesses stay below the limit and one for each other
\* process, and a deleted account stays deleted.
THEOREM AccountsForAll ==
    ASSUME LoginFits, Limit > 0, Worker # {}, MaxHeads \in Nat
    PROVE  OfficeSpec => []AccountsKept
PROOF
<1>1. LoginInv /\ AccountInv => AccountsKept  BY LoginSays DEF AccountInv, AccountsKept
<1>2. OfficeSpec => []LoginInv  BY LoginHolds
<1>3. OfficeSpec => []AccountInv  BY AccountHolds
<1> QED  BY <1>1, <1>2, <1>3, PTL

\* For groups of any size and chats of any length: the counter of a group is its
\* size, no member misses a message unnoticed, a pair has one chat, and what is marked
\* seen was shown.
THEOREM ChatsForAll ==
    ASSUME GroupFits, MaxPosts \in Nat, MaxAsks \in Nat, ChatFits
    PROVE  OfficeSpec => []ChatsKept
PROOF
<1>1. GroupInv /\ ChatInv => ChatsKept  BY GroupSays, ChatSays DEF ChatsKept
<1>2. OfficeSpec => []GroupInv  BY GroupHolds
<1>3. OfficeSpec => []ChatInv  BY ChatHolds
<1> QED  BY <1>1, <1>2, <1>3, PTL

\* No interleaving of sending, taking back, editing and reading gives an attachment a
\* second place or makes a message unseen.
THEOREM NothingUndoneForAll == ASSUME ChatFits PROVE OfficeSpec => NothingUndone
PROOF
<1>1. ChatInv /\ [OfficeNext]_everything
        => [/\ link \in (0..MaxMessages) => link' \in {link, Gone}
            /\ \A m \in DOMAIN messages : messages[m].seen => messages'[m].seen]_(H!chatVars)
  BY PartsStep, ChatKeeps
<1> QED  BY <1>1, ChatHolds, PTL DEF OfficeSpec, NothingUndone, H!NothingUndone
=============================================================================
