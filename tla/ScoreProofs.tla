---------------------------- MODULE ScoreProofs ----------------------------
(***************************************************************************)
(* Proofs about the scores: the rows keep their types, a DM entry is never   *)
(* taken off twice, no month of any period is worth more than its profile's  *)
(* hundred points, the months of a period add up, and more work or one more  *)
(* leave never moves a score the wrong way.  The bounds follow from the      *)
(* types state by state: one on each category, their sum by scoring profile. *)
(***************************************************************************)
EXTENDS PerformanceScore, SumProofs

USE ScoreAssumption DEF Point

-----------------------------------------------------------------------------
(* Lemmas on the rules *)

LEMMA CappedTop ==
  ASSUME NEW r \in Int, NEW c \in Int
  PROVE  Capped(r, c) \in Int /\ Capped(r, c) <= c
BY DEF Capped

LEMMA PortionTop ==
  ASSUME NEW n \in Int, NEW t \in Int, NEW c \in Nat
  PROVE  Portion(n, t, c) \in Int /\ Portion(n, t, c) <= c
<1>1. CASE n <= 0 \/ t <= 0
  BY <1>1 DEF Portion
<1>2. CASE ~(n <= 0 \/ t <= 0)
  <2>1. n * c \in Int
    OBVIOUS
  <2>2. (n * c) \div t \in Int
    BY <1>2, <2>1
  <2>3. Portion(n, t, c) = Capped((n * c) \div t, c)
    BY <1>2 DEF Portion
  <2> DEFINE q == (n * c) \div t
  <2>4. q \in Int
    BY <2>2
  <2>5. Portion(n, t, c) = Capped(q, c)
    BY <2>3
  <2> HIDE DEF q
  <2> QED
    BY <2>4, <2>5, CappedTop
<1> QED
  BY <1>1, <1>2

\* The leaves that cost points can be counted.
LEMMA ChargedCount ==
  ASSUME NEW s \in Seq({"half", "full"}), NEW l
  PROVE  Charged(s, l) \in Nat
<1>1. IsFiniteSet(1 .. Len(s))
  BY FS_Interval
<1>2. {i \in DOMAIN s : s[i] = l /\ ~Waived(s, i)} \subseteq 1 .. Len(s)
  OBVIOUS
<1> QED
  BY <1>1, <1>2, FS_Subset, FS_CardinalityType DEF Charged

\* The order of products of whole numbers.
LEMMA TimesOrder ==
  ASSUME NEW t \in Nat, NEW d \in Nat, NEW q \in Int, q = 1201 + d, t > 0
  PROVE  t * q > t * 1200
<1>1. t * d >= 0
  OBVIOUS
<1>2. t * q = t * 1201 + t * d
  OBVIOUS
<1> QED
  BY <1>1, <1>2

LEMMA LeaveTop ==
  ASSUME NEW s \in Seq({"half", "full"})
  PROVE  LeavePoints(s) \in Int /\ LeavePoints(s) <= 480
<1>1. Charged(s, "half") \in Nat /\ Charged(s, "full") \in Nat
  BY ChargedCount
<1> QED
  BY <1>1 DEF LeavePoints

LEMMA PersonalTop ==
  ASSUME NEW n \in [Kind -> Nat], NEW s \in Seq({"half", "full"})
  PROVE  Personal(n, s) \in Int /\ Personal(n, s) <= 30 * 60
<1>1. n["indoor"] \in Nat /\ n["outdoor"] \in Nat /\ n["certificate"] \in Nat
      /\ n["coauthored"] \in Nat
  BY DEF Kind
<1>2. MeetingMain(n) \in Int /\ MeetingMain(n) <= 420
  BY <1>1 DEF MeetingMain, Capped
<1>3. CertificationMain(n) \in Int /\ CertificationMain(n) <= 300
  BY <1>1 DEF CertificationMain
<1>4. CoAuthorMain(n) \in Int /\ CoAuthorMain(n) <= 600
  BY <1>1 DEF CoAuthorMain, Capped
<1> QED
  BY <1>2, <1>3, <1>4, LeaveTop DEF Personal

\* The assets' share: those that perform are not more than there are.
LEMMA AssetTop ==
  ASSUME NEW a \in [total : Nat, bad : Nat], a.bad <= a.total
  PROVE  AdminAssetMain(a) \in Int /\ AdminAssetMain(a) <= 1200
<1>1. CASE a.total = 0
  BY <1>1 DEF AdminAssetMain
<1>2. CASE a.total > 0
  <2> DEFINE x == (a.total - a.bad) * 1200
             q == x \div a.total
  <2>1. x \in Nat /\ x <= 1200 * a.total
    OBVIOUS
  <2>2. q \in Int /\ a.total * q <= x
    <3>1. a.total \in Nat /\ a.total > 0 /\ x \in Int
      BY <1>2, <2>1
    <3> HIDE DEF x
    <3> QED
      BY <3>1, Quotient
  <2>3. q <= 1200
    <3>1. SUFFICES ASSUME q >= 1201 PROVE FALSE
      BY <2>2
    <3> HIDE DEF q, x
    <3>2. a.total \in Nat /\ q \in Int /\ q - 1201 \in Nat /\ q = 1201 + (q - 1201)
      BY <2>2, <3>1
    <3>3. a.total * q > a.total * 1200
      BY <1>2, <3>2, TimesOrder
    <3>4. x \in Int /\ a.total * q \in Int /\ a.total * 1200 = 1200 * a.total
      BY <2>1, <3>2
    <3> QED
      BY <2>1, <2>2, <3>2, <3>3, <3>4
  <2>4. AdminAssetMain(a) = q
    BY <1>2 DEF AdminAssetMain
  <2> QED
    BY <2>2, <2>3, <2>4
<1> QED
  BY <1>1, <1>2

-----------------------------------------------------------------------------
(* Lemmas on the work of a month *)

Targets0(t) == t \in [Field -> Nat \ {0}]

LEMMA ProfileCases ==
  ASSUME NEW x
  PROVE  ScoringProfile(x) \in {"hr", "admin", "mmr_rg", "dm", "ps", "intern", "core", "default"}
BY DEF ScoringProfile

LEMMA CountsRange ==
  ASSUME NEW n \in [Kind -> Nat]
  PROVE  \A k \in Kind : n[k] \in Nat
OBVIOUS

LEMMA EntriesTop ==
  ASSUME NEW x, NEW n \in [Kind -> Nat]
  PROVE  EntriesMain(x, n) \in Int /\ EntriesMain(x, n) <= (IF Special(x) THEN 1200 ELSE 0)
<1>1. n["entry"] \in Nat
  BY DEF Kind
<1> QED
  BY <1>1 DEF EntriesMain, Capped

LEMMA ChecklistTop ==
  ASSUME NEW x, NEW n \in [Kind -> Nat]
  PROVE  /\ ChecklistMain(x, n) \in Int
         /\ ChecklistMain(x, n) <= (IF Special(x) THEN 3000 ELSE 4200)
<1>1. n["checklist"] \in Nat
  BY DEF Kind
<1>2. ChecklistRate(x) \in {450, 600, 750, 1050}
  BY DEF ChecklistRate
<1> DEFINE raw == ChecklistRate(x) * n["checklist"]
<1>3. raw \in Int
  BY <1>1, <1>2
<1>4. ChecklistMain(x, n) = IF x.role = "Intern" THEN 0
                            ELSE Capped(raw, IF Special(x) THEN 3000 ELSE 4200)
  BY DEF ChecklistMain
<1> HIDE DEF raw
<1>5. /\ Capped(raw, 3000) \in Int /\ Capped(raw, 3000) <= 3000
      /\ Capped(raw, 4200) \in Int /\ Capped(raw, 4200) <= 4200
  BY <1>3 DEF Capped
<1> QED
  BY <1>4, <1>5

LEMMA CoreTop ==
  ASSUME NEW x, NEW n \in [Kind -> Nat]
  PROVE  CoreMain(x, n) \in Int /\ CoreMain(x, n) <= (IF Special(x) THEN 3000 ELSE 4200)
<1>1. n["farm_task"] \in Nat
  BY DEF Kind
<1> QED
  BY <1>1 DEF CoreMain, Capped

LEMMA InternTop ==
  ASSUME NEW n \in [Kind -> Nat]
  PROVE  InternTaskMain(n) \in Int /\ InternTaskMain(n) <= 4200
<1>1. n["intern_task"] \in Nat
  BY DEF Kind
<1> DEFINE v == n["intern_task"]
<1>2. v \in Int /\ InternTaskMain(n) = Portion(v, 21, 4200)
  BY <1>1 DEF InternTaskMain
<1> HIDE DEF v
<1>3. Portion(v, 21, 4200) \in Int /\ Portion(v, 21, 4200) <= 4200
  BY <1>2, PortionTop
<1> QED
  BY <1>2, <1>3

LEMMA AdminTaskTop ==
  ASSUME NEW n \in [Kind -> Nat]
  PROVE  AdminTaskMain(n) \in Int /\ AdminTaskMain(n) <= 3000
<1>1. n["ten_day"] \in Nat /\ n["one_day"] \in Nat
  BY DEF Kind
<1> QED
  BY <1>1 DEF AdminTaskMain, Capped

LEMMA TargetedTop ==
  ASSUME NEW n \in [Kind -> Nat], NEW t, Targets0(t)
  PROVE  /\ ClientProfileMain(n, t) \in Int /\ ClientProfileMain(n, t) <= 1800
         /\ CustomerPanelMain(n, t) \in Int /\ CustomerPanelMain(n, t) <= 2400
         /\ DmMain(n, t) \in Int /\ DmMain(n, t) <= 4200
         /\ PsMain(n, t) \in Int /\ PsMain(n, t) <= 4200
<1>1. Field \subseteq Kind
  BY DEF Field, MmrRgField, DmField, Kind
<1>2. \A f \in Field : n[f] \in Int /\ t[f] \in Int
  BY <1>1 DEF Targets0
<1>3. \A f \in Field : \A c \in Nat : /\ Portion(n[f], t[f], c) \in Int
                                      /\ Portion(n[f], t[f], c) <= c
  BY <1>2, PortionTop
<1>4. {"proposal", "profiles", "proforma", "panel", "media", "content", "quantity"} \subseteq Field
  BY DEF Field, MmrRgField, DmField
<1>c. 70 * 60 = 4200 /\ 40 * 60 = 2400 /\ 4200 \in Nat /\ 2400 \in Nat
  OBVIOUS
<1>5. ClientProfileMain(n, t) \in Int /\ ClientProfileMain(n, t) <= 1800
  <2>1. ClientProfileMain(n, t) = Portion(n["proposal"], t["proposal"], 600)
                                  + Portion(n["profiles"], t["profiles"], 600)
                                  + Portion(n["proforma"], t["proforma"], 600)
    BY DEF ClientProfileMain
  <2>2. \A f \in Field : Portion(n[f], t[f], 600) \in Int /\ Portion(n[f], t[f], 600) <= 600
    BY <1>3
  <2> QED
    BY <1>4, <2>1, <2>2
<1>6. CustomerPanelMain(n, t) \in Int /\ CustomerPanelMain(n, t) <= 2400
  <2>1. CustomerPanelMain(n, t) = Portion(n["panel"], t["panel"], 2400)
    BY <1>c DEF CustomerPanelMain
  <2> QED
    BY <1>3, <1>4, <1>c, <2>1
<1>7. DmMain(n, t) \in Int /\ DmMain(n, t) <= 4200
  <2>1. DmMain(n, t) = Portion(n["media"], t["media"], 2400)
                       + Portion(n["content"], t["content"], 1800)
    BY DEF DmMain
  <2> DEFINE pm == Portion(n["media"], t["media"], 2400)
             pc == Portion(n["content"], t["content"], 1800)
  <2>2. \A f \in Field : Portion(n[f], t[f], 2400) \in Int /\ Portion(n[f], t[f], 2400) <= 2400
    BY <1>3
  <2>3. \A f \in Field : Portion(n[f], t[f], 1800) \in Int /\ Portion(n[f], t[f], 1800) <= 1800
    BY <1>3
  <2>4. pm \in Int /\ pm <= 2400 /\ pc \in Int /\ pc <= 1800
    BY <1>4, <2>2, <2>3
  <2>5. DmMain(n, t) = pm + pc
    BY <2>1
  <2> HIDE DEF pm, pc
  <2> QED
    BY <2>4, <2>5
<1>8. PsMain(n, t) \in Int /\ PsMain(n, t) <= 4200
  <2>1. PsMain(n, t) = Portion(n["quantity"], t["quantity"], 4200)
    BY <1>c DEF PsMain
  <2> QED
    BY <1>3, <1>4, <1>c, <2>1
<1> QED
  BY <1>5, <1>6, <1>7, <1>8

\* The work of a month fits beside the thirty personal points.
Assets0(a) == a \in [total : Nat, bad : Nat] /\ a.bad <= a.total

LEMMA WorkTop ==
  ASSUME NEW x, NEW n \in [Kind -> Nat], NEW t, Targets0(t), NEW a, Assets0(a)
  PROVE  Work(x, n, t, a) \in Int /\ Work(x, n, t, a) + 1800 <= MonthlyTop(x)
<1> DEFINE as == ScoringProfile(x)
<1>0. as \in {"hr", "admin", "mmr_rg", "dm", "ps", "intern", "core", "default"}
  BY ProfileCases
<1>1. CASE as = "hr"
  BY <1>1 DEF Work, MonthlyTop
<1>2. CASE as = "admin"
  BY <1>2, AdminTaskTop, AssetTop DEF Work, MonthlyTop, Assets0
<1>3. CASE as = "mmr_rg"
  BY <1>3, TargetedTop DEF Work, MonthlyTop
<1>4. CASE as = "dm"
  BY <1>4, TargetedTop DEF Work, MonthlyTop
<1>5. CASE as = "ps"
  BY <1>5, TargetedTop DEF Work, MonthlyTop
<1>6. CASE as = "intern"
  BY <1>6, InternTop, EntriesTop DEF Work, MonthlyTop
<1>7. CASE as = "core"
  BY <1>7, CoreTop, EntriesTop DEF Work, MonthlyTop
<1>8. CASE as = "default"
  BY <1>8, ChecklistTop, EntriesTop DEF Work, MonthlyTop
<1> QED
  BY <1>0, <1>1, <1>2, <1>3, <1>4, <1>5, <1>6, <1>7, <1>8

-----------------------------------------------------------------------------
(* The rows *)

LEMMA InsertType ==
  ASSUME NEW S, NEW s \in Seq(S), NEW i \in 0 .. Len(s), NEW l \in S
  PROVE  InsertAt(s, i + 1, l) \in Seq(S)
<1>1. SubSeq(s, 1, i) \in Seq(S)
  OBVIOUS
<1>2. SubSeq(s, i + 1, Len(s)) \in Seq(S)
  OBVIOUS
<1>3. <<l>> \in Seq(S)
  OBVIOUS
<1>4. i + 1 - 1 = i
  OBVIOUS
<1> QED
  BY <1>1, <1>2, <1>3, <1>4 DEF InsertAt

\* The fields are kinds of rows.
LEMMA FieldKind ==
  /\ Field \subseteq Kind /\ UtcKind \subseteq Kind
  /\ {"media", "content"} \subseteq UtcKind
  /\ MmrRgField \subseteq Field /\ DmField \subseteq Field /\ {"quantity"} \subseteq Field
BY DEF Field, UtcKind, MmrRgField, DmField, Kind

LEMMA TypeInit == ScoreInit => ScoreTypeOK
<1> SUFFICES ASSUME ScoreInit PROVE ScoreTypeOK
  OBVIOUS
<1> PICK r \in Starts :
     /\ done = [e \in Person |-> [k \in Kind |-> [m \in Month |-> r.count]]]
     /\ leaves = [e \in Person |-> [m \in Month |-> r.leaves]]
  BY DEF ScoreInit
<1>1. r.count \in Nat /\ r.leaves \in Seq({"half", "full"})
  OBVIOUS
<1>2. done \in [Person -> [Kind -> [Month -> Nat]]]
  BY <1>1
<1>3. leaves \in [Person -> [Month -> Seq({"half", "full"})]]
  BY <1>1
<1>4. early \in [Person -> [UtcKind -> [Month -> Nat]]]
  BY DEF ScoreInit
<1>5. \A e \in Person, k \in UtcKind, m \in Month : early[e][k][m] <= done[e][k][m]
  BY <1>1, FieldKind DEF ScoreInit
<1>6. target \in [Person -> [Field -> [Month -> (Nat \ {0}) \cup {None}]]]
  BY DEF ScoreInit
<1>7. profile \in [Person -> Profile]
  BY DEF ScoreInit
<1>8. assets \in [total : Nat, bad : Nat] /\ assets.bad <= assets.total /\ ops \in 0 .. MaxOps
  BY DEF ScoreInit
<1> QED
  BY <1>2, <1>3, <1>4, <1>5, <1>6, <1>7, <1>8 DEF ScoreTypeOK

\* What an action that leaves the counted rows alone has to show.
LEMMA OthersKept ==
  ASSUME ScoreTypeOK, Op, UNCHANGED <<profile, done, early>>,
         leaves' \in [Person -> [Month -> Seq({"half", "full"})]],
         target' \in [Person -> [Field -> [Month -> (Nat \ {0}) \cup {None}]]],
         assets' \in [total : Nat, bad : Nat] /\ (assets').bad <= (assets').total
  PROVE  ScoreTypeOK'
BY DEF ScoreTypeOK, Op

CountsOK(D, E) ==
  /\ D \in [Person -> [Kind -> [Month -> Nat]]]
  /\ E \in [Person -> [UtcKind -> [Month -> Nat]]]
  /\ \A e \in Person, k \in UtcKind, m \in Month : E[e][k][m] <= D[e][k][m]

\* n rows more, or one less, of one kind and month.
Written(D, E, D2, E2, e, k, m, n, isEarly) ==
  /\ e \in Person /\ k \in Kind /\ m \in Month /\ n \in Int
  /\ isEarly => k \in UtcKind
  /\ D[e][k][m] + n >= 0
  /\ isEarly => E[e][k][m] + n >= 0
  /\ k \in UtcKind /\ ~isEarly => E[e][k][m] <= D[e][k][m] + n
  /\ D2 = [D EXCEPT ![e][k][m] = @ + n]
  /\ E2 = IF isEarly THEN [E EXCEPT ![e][k][m] = @ + n] ELSE E

\* What an action on the counted rows has to show.
LEMMA CountsKept ==
  ASSUME ScoreTypeOK, Op, UNCHANGED <<profile, leaves, target, assets>>,
         CountsOK(done', early')
  PROVE  ScoreTypeOK'
BY DEF ScoreTypeOK, Op, CountsOK

Grid(K, D) == D \in [Person -> [K -> [Month -> Nat]]]

Cell(K, D, D2, e, k, m, n) ==
  /\ e \in Person /\ k \in K /\ m \in Month /\ n \in Int /\ D[e][k][m] + n >= 0
  /\ D2 = [D EXCEPT ![e][k][m] = @ + n]

LEMMA EntryWritten ==
  ASSUME NEW K, NEW D, NEW D2, NEW e, NEW k, NEW m, NEW n,
         Grid(K, D), Cell(K, D, D2, e, k, m, n)
  PROVE  /\ Grid(K, D2)
         /\ \A f \in Person, j \in K, o \in Month :
              D2[f][j][o] = IF f = e /\ j = k /\ o = m THEN D[f][j][o] + n ELSE D[f][j][o]
<1> USE DEF Grid, Cell
<1>1. D[e] \in [K -> [Month -> Nat]] /\ D[e][k] \in [Month -> Nat]
  OBVIOUS
<1>2. D[e][k][m] + n \in Nat
  BY <1>1
<1> DEFINE R == [D[e][k] EXCEPT ![m] = @ + n]
           Q == [D[e] EXCEPT ![k] = R]
<1>3. R \in [Month -> Nat] /\ \A o \in Month : R[o] = IF o = m THEN D[e][k][m] + n ELSE D[e][k][o]
  BY <1>1, <1>2
<1>4. D2 = [D EXCEPT ![e] = Q]
  BY <1>1
<1> HIDE DEF R
<1>5. Q \in [K -> [Month -> Nat]] /\ \A j \in K : Q[j] = IF j = k THEN R ELSE D[e][j]
  BY <1>1, <1>3
<1> HIDE DEF Q
<1>6. D2 \in [Person -> [K -> [Month -> Nat]]] /\ \A f \in Person : D2[f] = IF f = e THEN Q ELSE D[f]
  BY <1>4, <1>5
<1> QED
  BY <1>3, <1>5, <1>6

LEMMA CountWritten ==
  ASSUME NEW D, NEW E, NEW D2, NEW E2, NEW e, NEW k, NEW m, NEW n, NEW isEarly \in BOOLEAN,
         CountsOK(D, E), Written(D, E, D2, E2, e, k, m, n, isEarly)
  PROVE  CountsOK(D2, E2)
<1>0. Grid(Kind, D) /\ Grid(UtcKind, E) /\ UtcKind \subseteq Kind
  BY FieldKind DEF CountsOK, Grid
<1>1. Cell(Kind, D, D2, e, k, m, n)
  BY DEF Written, Cell
<1>2. /\ Grid(Kind, D2)
      /\ \A f \in Person, j \in Kind, o \in Month :
           D2[f][j][o] = IF f = e /\ j = k /\ o = m THEN D[f][j][o] + n ELSE D[f][j][o]
  BY <1>0, <1>1, EntryWritten
<1>3. \A f \in Person, j \in UtcKind, o \in Month :
        E[f][j][o] \in Nat /\ D[f][j][o] \in Nat /\ E[f][j][o] <= D[f][j][o]
  BY <1>0 DEF CountsOK
<1>4. /\ Grid(UtcKind, E2)
      /\ \A f \in Person, j \in UtcKind, o \in Month :
           E2[f][j][o] = IF isEarly /\ f = e /\ j = k /\ o = m THEN E[f][j][o] + n ELSE E[f][j][o]
  <2>1. CASE isEarly
    <3>1. Cell(UtcKind, E, E2, e, k, m, n)
      BY <2>1 DEF Written, Cell
    <3> QED
      BY <1>0, <2>1, <3>1, EntryWritten
  <2>2. CASE ~isEarly
    <3>1. E2 = E
      BY <2>2 DEF Written
    <3> QED
      BY <1>0, <2>2, <3>1
  <2> QED
    BY <2>1, <2>2
<1>5. ASSUME NEW f \in Person, NEW j \in UtcKind, NEW o \in Month
      PROVE  E2[f][j][o] <= D2[f][j][o]
  <2>1. n \in Int /\ (k \in UtcKind /\ ~isEarly => E[e][k][m] <= D[e][k][m] + n)
    BY DEF Written
  <2>2. j \in Kind
    BY <1>0
  <2>3. D2[f][j][o] = IF f = e /\ j = k /\ o = m THEN D[f][j][o] + n ELSE D[f][j][o]
    BY <1>2, <2>2
  <2>4. E2[f][j][o] = IF isEarly /\ f = e /\ j = k /\ o = m THEN E[f][j][o] + n ELSE E[f][j][o]
    BY <1>4
  <2>5. E[f][j][o] \in Nat /\ D[f][j][o] \in Nat /\ E[f][j][o] <= D[f][j][o]
    BY <1>3
  <2> QED
    BY <2>1, <2>3, <2>4, <2>5
<1> QED
  BY <1>2, <1>4, <1>5 DEF CountsOK, Grid

LEMMA TargetsWritten ==
  ASSUME ScoreTypeOK, NEW e \in Person, NEW F, NEW m \in Month, NEW given,
         given \in [DOMAIN given -> Targets \cup {None}], NEW put \in BOOLEAN,
         WriteTargets(e, F, m, given, put)
  PROVE  ScoreTypeOK'
<1> DEFINE V == (Nat \ {0}) \cup {None}
           row == [f \in Field |-> IF f \in DOMAIN given THEN [target[e][f] EXCEPT ![m] = given[f]]
                                   ELSE IF put /\ f \in F THEN [target[e][f] EXCEPT ![m] = None]
                                   ELSE target[e][f]]
<1>1. target \in [Person -> [Field -> [Month -> V]]]
  BY DEF ScoreTypeOK
<1>2. \A f \in DOMAIN given : given[f] \in V
  OBVIOUS
<1>3. row \in [Field -> [Month -> V]]
  <2> SUFFICES ASSUME NEW f \in Field PROVE row[f] \in [Month -> V]
    OBVIOUS
  <2>1. target[e][f] \in [Month -> V]
    BY <1>1
  <2>2. \A v \in V : [target[e][f] EXCEPT ![m] = v] \in [Month -> V]
    BY <2>1
  <2> QED
    BY <1>2, <2>1, <2>2
<1>4. target' = [target EXCEPT ![e] = row]
  BY <1>1 DEF WriteTargets
<1>5. target' \in [Person -> [Field -> [Month -> V]]]
  <2> HIDE DEF row
  <2> QED
    BY <1>1, <1>3, <1>4
<1> QED
  BY <1>5, OthersKept DEF WriteTargets, ScoreTypeOK

LEMMA TargetsReset ==
  ASSUME ScoreTypeOK, NEW e \in Person, NEW ms, ResetTargets(e, ms)
  PROVE  ScoreTypeOK'
<1> DEFINE V == (Nat \ {0}) \cup {None}
           row == [f \in Field |-> [m \in Month |-> IF f \in MmrRgField /\ m \in ms THEN None
                                                    ELSE target[e][f][m]]]
<1>1. target \in [Person -> [Field -> [Month -> V]]]
  BY DEF ScoreTypeOK
<1>2. row \in [Field -> [Month -> V]]
  BY <1>1
<1>3. target' = [target EXCEPT ![e] = row]
  BY <1>1 DEF ResetTargets
<1>4. target' \in [Person -> [Field -> [Month -> V]]]
  <2> HIDE DEF row
  <2> QED
    BY <1>1, <1>2, <1>3
<1> QED
  BY <1>4, OthersKept DEF ResetTargets, ScoreTypeOK

LEMMA TypeNext == ScoreTypeOK /\ [ScoreNext]_scoreVars => ScoreTypeOK'
<1> SUFFICES ASSUME ScoreTypeOK, [ScoreNext]_scoreVars PROVE ScoreTypeOK'
  OBVIOUS
<1>t. /\ done \in [Person -> [Kind -> [Month -> Nat]]]
      /\ early \in [Person -> [UtcKind -> [Month -> Nat]]]
      /\ \A e \in Person, k \in UtcKind, m \in Month : early[e][k][m] <= done[e][k][m]
      /\ leaves \in [Person -> [Month -> Seq({"half", "full"})]]
  BY DEF ScoreTypeOK
<1>c. CountsOK(done, early)
  BY <1>t DEF CountsOK
<1>1. ASSUME NEW e \in Person, NEW m \in Month, NEW k \in Kind, NEW n \in Steps,
             NEW b \in BOOLEAN, Record(e, k, m, n, b)
      PROVE  ScoreTypeOK'
  <2>1. n \in Nat /\ done[e][k][m] \in Nat
    BY <1>t
  <2>2. k \in UtcKind => early[e][k][m] \in Nat /\ early[e][k][m] <= done[e][k][m]
    BY <1>t
  <2>3. /\ done[e][k][m] + n >= 0
        /\ b => early[e][k][m] + n >= 0
        /\ k \in UtcKind /\ ~b => early[e][k][m] <= done[e][k][m] + n
    BY <1>1, <2>1, <2>2 DEF Record
  <2>4. /\ done' = [done EXCEPT ![e][k][m] = @ + n]
        /\ early' = IF b THEN [early EXCEPT ![e][k][m] = @ + n] ELSE early
        /\ b => k \in UtcKind
    BY <1>1 DEF Record
  <2>w. Written(done, early, done', early', e, k, m, n, b)
    BY <2>1, <2>3, <2>4 DEF Written
  <2>5. CountsOK(done', early')
    BY <1>c, <2>w, CountWritten
  <2> QED
    BY <1>1, <2>5, CountsKept DEF Record
<1>2. ASSUME NEW e \in Person, NEW m \in Month, NEW k \in Kind, NEW b \in BOOLEAN,
             ApproveDm(e, k, m, b)
      PROVE  ScoreTypeOK'
  <2>1. k \in UtcKind /\ done[e][k][m] \in Nat /\ early[e][k][m] \in Nat
        /\ early[e][k][m] <= done[e][k][m]
    BY <1>2, <1>t, FieldKind DEF ApproveDm
  <2>2. /\ done' = [done EXCEPT ![e][k][m] = @ + 1]
        /\ early' = IF b THEN [early EXCEPT ![e][k][m] = @ + 1] ELSE early
    BY <1>2 DEF ApproveDm
  <2>w. Written(done, early, done', early', e, k, m, 1, b)
    BY <2>1, <2>2 DEF Written
  <2>3. CountsOK(done', early')
    BY <1>c, <2>w, CountWritten
  <2> QED
    BY <1>2, <2>3, CountsKept DEF ApproveDm
<1>3. ASSUME NEW e \in Person, NEW m \in Month, NEW k \in Kind, NEW b \in BOOLEAN,
             RejectDm(e, k, m, b)
      PROVE  ScoreTypeOK'
  <2>1. k \in UtcKind /\ done[e][k][m] \in Nat /\ early[e][k][m] \in Nat
        /\ early[e][k][m] <= done[e][k][m]
    BY <1>3, <1>t, FieldKind DEF RejectDm
  <2>2. IF b THEN early[e][k][m] > 0 ELSE done[e][k][m] > early[e][k][m]
    BY <1>3 DEF RejectDm
  <2>3. /\ done[e][k][m] + (-1) >= 0
        /\ b => early[e][k][m] + (-1) >= 0
        /\ k \in UtcKind /\ ~b => early[e][k][m] <= done[e][k][m] + (-1)
    BY <2>1, <2>2
  <2>4. /\ done' = [done EXCEPT ![e][k][m] = @ + (-1)]
        /\ early' = IF b THEN [early EXCEPT ![e][k][m] = @ + (-1)] ELSE early
    <3>1. done[e][k][m] - 1 = done[e][k][m] + (-1) /\ early[e][k][m] - 1 = early[e][k][m] + (-1)
      BY <2>1
    <3> QED
      BY <1>3, <3>1 DEF RejectDm
  <2>5. -1 \in Int /\ (b => k \in UtcKind)
    BY <2>1
  <2>w. Written(done, early, done', early', e, k, m, -1, b)
    BY <2>3, <2>4, <2>5 DEF Written
  <2>6. CountsOK(done', early')
    BY <1>c, <2>w, CountWritten
  <2> QED
    BY <1>3, <2>6, CountsKept DEF RejectDm
<1>4. ASSUME NEW e \in Person, NEW m \in Month, NEW l \in {"half", "full"},
             NEW i \in 0 .. Len(leaves[e][m]), ApproveLeave(e, m, l, i)
      PROVE  ScoreTypeOK'
  <2>1. leaves[e][m] \in Seq({"half", "full"})
    BY <1>t
  <2>2. InsertAt(leaves[e][m], i + 1, l) \in Seq({"half", "full"})
    BY <2>1, InsertType
  <2>3. leaves' \in [Person -> [Month -> Seq({"half", "full"})]]
    BY <1>4, <1>t, <2>2 DEF ApproveLeave
  <2> QED
    BY <1>4, <2>3, OthersKept DEF ApproveLeave, ScoreTypeOK
<1>5. ASSUME NEW e \in Person, NEW m \in Month, NEW f \in Field,
             NEW v \in Targets \cup {None}, NEW put \in BOOLEAN,
             SetOne(e, m, f, v, put)
      PROVE  ScoreTypeOK'
  <2> DEFINE given == [g \in {f} |-> v]
  <2>1. given \in [DOMAIN given -> Targets \cup {None}]
    OBVIOUS
  <2> HIDE DEF given
  <2>2. \/ WriteTargets(e, MmrRgField, m, given, put)
        \/ WriteTargets(e, DmField, m, given, put)
        \/ WriteTargets(e, {"quantity"}, m, given, FALSE)
    BY <1>5 DEF SetOne, given, SetMmrRgTargets, SetDmTargets, SetPsTarget
  <2>3. CASE WriteTargets(e, MmrRgField, m, given, put)
    BY <2>1, <2>3, TargetsWritten
  <2>4. CASE WriteTargets(e, DmField, m, given, put)
    BY <2>1, <2>4, TargetsWritten
  <2>5. CASE WriteTargets(e, {"quantity"}, m, given, FALSE)
    BY <2>1, <2>5, TargetsWritten
  <2> QED
    BY <2>2, <2>3, <2>4, <2>5
<1>6. ASSUME NEW e \in Person, NEW ms, ResetTargets(e, ms) PROVE ScoreTypeOK'
  BY <1>6, TargetsReset
<1>7. ASSUME NEW a \in [total : 0 .. 2, bad : 0 .. 2], ChangeAssets(a) PROVE ScoreTypeOK'
  <2>1. (assets') \in [total : Nat, bad : Nat] /\ (assets').bad <= (assets').total
    BY <1>7 DEF ChangeAssets
  <2> QED
    BY <1>7, <2>1, OthersKept DEF ChangeAssets, ScoreTypeOK
<1>8. CASE UNCHANGED scoreVars
  BY <1>8 DEF ScoreTypeOK, scoreVars
<1>9. ASSUME NEW e \in Person, NEW m \in Month, About(e, m) PROVE ScoreTypeOK'
  <2>1. CASE \E k \in Kind, n \in Steps, b \in BOOLEAN : Record(e, k, m, n, b)
    BY <1>1, <2>1
  <2>2. CASE \E k \in Kind, b \in BOOLEAN : ApproveDm(e, k, m, b) \/ RejectDm(e, k, m, b)
    BY <1>2, <1>3, <2>2
  <2>3. CASE \E l \in {"half", "full"}, i \in 0 .. Len(leaves[e][m]) : ApproveLeave(e, m, l, i)
    BY <1>4, <2>3
  <2>4. CASE \E f \in Field, v \in Targets \cup {None}, put \in BOOLEAN : SetOne(e, m, f, v, put)
    BY <1>5, <2>4
  <2>5. CASE ResetTargets(e, {m})
    BY <1>6, <2>5
  <2> QED
    BY <1>9, <2>1, <2>2, <2>3, <2>4, <2>5 DEF About
<1> QED
  BY <1>6, <1>7, <1>8, <1>9 DEF ScoreNext

\* The rows keep their types: no action takes off what was never counted, and the
\* rows of the first hours of a month stay among its rows.
THEOREM ScoreTypes == ScoreSpec => []ScoreTypeOK
BY TypeInit, TypeNext, PTL DEF ScoreSpec

-----------------------------------------------------------------------------
(* The scores *)

LEMMA FiledType ==
  ASSUME ScoreTypeOK, NEW e \in Person, NEW k \in Kind, NEW p, NEW m \in Int
  PROVE  Filed(e, k, p, m) \in Nat
<1>1. \A o \in Int : InMonth(done[e][k], o) \in Nat
  BY DEF ScoreTypeOK, InMonth
<1>2. CASE k \notin UtcKind
  BY <1>1, <1>2 DEF Filed
<1>3. CASE k \in UtcKind
  <2>1. \A o \in Int : InMonth(early[e][k], o) \in Nat /\ InMonth(early[e][k], o) <= InMonth(done[e][k], o)
    BY <1>3 DEF ScoreTypeOK, InMonth
  <2>2. m + 1 \in Int
    OBVIOUS
  <2> DEFINE d == InMonth(done[e][k], m)
             x == InMonth(early[e][k], m)
             y == InMonth(early[e][k], m + 1)
  <2>3. d \in Nat /\ x \in Nat /\ y \in Nat /\ x <= d
    BY <1>1, <2>1, <2>2
  <2>4. Filed(e, k, p, m) = d - x + (IF m + 1 \in MonthsInPeriod(p) THEN y ELSE 0)
    BY <1>3 DEF Filed
  <2> HIDE DEF d, x, y
  <2> QED
    BY <2>3, <2>4
<1> QED
  BY <1>2, <1>3

\* A month's points are whole, and its work fits beside the thirty personal points.
LEMMA MonthParts ==
  ASSUME ScoreTypeOK, NEW e \in Person, NEW p, NEW m \in Int
  PROVE  /\ PersonalMain(e, p, m) \in Int /\ PersonalMain(e, p, m) <= 1800
         /\ WorkMain(e, p, m) \in Int /\ WorkMain(e, p, m) + 1800 <= MonthlyTop(profile[e])
         /\ MonthMain(e, p, m) = PersonalMain(e, p, m) + WorkMain(e, p, m)
         /\ MonthlyTop(profile[e]) \in Int
<1> DEFINE n == Counts(e, p, m)
           t == TargetsOf(e, m)
           s == LeavesIn(e, m)
<1>1. n \in [Kind -> Nat]
  BY FiledType DEF Counts
<1>2. \A f \in Field : Default[f] \in Nat \ {0}
  BY DEF Default, Field, MmrRgField, DmField
<1>3. \A f \in Field : EffectiveTarget(e, f, m) \in Nat \ {0}
  BY <1>2 DEF EffectiveTarget, ScoreTypeOK
<1>4. Targets0(t)
  BY <1>3 DEF Targets0, TargetsOf
<1>5. s \in Seq({"half", "full"})
  BY DEF LeavesIn, ScoreTypeOK
<1>6. Assets0(assets)
  BY DEF ScoreTypeOK, Assets0
<1>7. PersonalMain(e, p, m) = Personal(n, s) /\ WorkMain(e, p, m) = Work(profile[e], n, t, assets)
  BY DEF PersonalMain, WorkMain
<1> HIDE DEF n, t, s
<1> DEFINE z == profile[e]
<1>8. Personal(n, s) \in Int /\ Personal(n, s) <= 1800
  BY <1>1, <1>5, PersonalTop
<1>9. /\ Work(profile[e], n, t, assets) \in Int
      /\ Work(profile[e], n, t, assets) + 1800 <= MonthlyTop(profile[e])
  <2> HIDE DEF z
  <2>1. Work(z, n, t, assets) \in Int /\ Work(z, n, t, assets) + 1800 <= MonthlyTop(z)
    BY <1>1, <1>4, <1>6, WorkTop
  <2> QED
    BY <2>1 DEF z
<1>10. MonthlyTop(profile[e]) \in Int
  BY DEF MonthlyTop
<1> QED
  BY <1>7, <1>8, <1>9, <1>10 DEF MonthMain

LEMMA MonthTop ==
  ASSUME ScoreTypeOK, NEW e \in Person, NEW p, NEW m \in Int
  PROVE  MonthMain(e, p, m) <= MonthlyTop(profile[e])
BY MonthParts

\* No month is worth more than its profile's hundred points, for any employees,
\* any rows, targets and leaves, and any combination of role and functions.
THEOREM NoMonthAboveTheTop == ScoreSpec => []HundredIsTheTop
<1>1. ScoreTypeOK => HundredIsTheTop
  <2> SUFFICES ASSUME ScoreTypeOK, NEW e \in Person,
                      NEW p \in Periods \cup {MonthOf(m) : m \in Month},
                      NEW m \in MonthsInPeriod(p)
               PROVE  MonthMain(e, p, m) <= MonthlyTop(profile[e])
    BY DEF HundredIsTheTop
  <2>1. p.from \in Int /\ p.to \in Int
    BY DEF MonthOf
  <2>2. m \in Int
    BY <2>1 DEF MonthsInPeriod
  <2> QED
    BY <2>2, MonthTop
<1> QED
  BY <1>1, ScoreTypes, PTL

-----------------------------------------------------------------------------
(* Periods *)

LEMMA FiledApart ==
  ASSUME ScoreTypeOK, NoEarlyRow, NEW e \in Person, NEW k \in Kind, NEW p, NEW m \in Int
  PROVE  Filed(e, k, p, m) = InMonth(done[e][k], m)
<1>1. InMonth(done[e][k], m) \in Int
  BY DEF ScoreTypeOK, InMonth
<1>2. CASE k \in UtcKind
  <2>1. \A o \in Int : InMonth(early[e][k], o) = 0
    BY <1>2 DEF NoEarlyRow, InMonth
  <2>2. InMonth(early[e][k], m) = 0 /\ InMonth(early[e][k], m + 1) = 0
    BY <2>1
  <2> QED
    BY <1>1, <1>2, <2>2 DEF Filed
<1> QED
  BY <1>2 DEF Filed

\* Without a row in the first hours of a month, a month is worth the same in any period.
LEMMA MonthApart ==
  ASSUME ScoreTypeOK, NoEarlyRow, NEW e \in Person, NEW p, NEW q, NEW m \in Int
  PROVE  /\ WorkMain(e, p, m) = WorkMain(e, q, m)
         /\ MonthMain(e, p, m) = MonthMain(e, q, m)
<1>1. Counts(e, p, m) = Counts(e, q, m)
  BY FiledApart DEF Counts
<1> QED
  BY <1>1 DEF MonthMain, PersonalMain, WorkMain

LEMMA PeriodMonths ==
  ASSUME NEW p \in Periods
  PROVE  /\ p.from \in Nat /\ p.to \in Nat /\ p.from <= p.to
         /\ IsFiniteSet(MonthsInPeriod(p)) /\ MonthsInPeriod(p) # {}
         /\ MonthsInPeriod(p) \subseteq Int
         /\ Cardinality(MonthsInPeriod(p)) = p.to - p.from + 1
<1>1. p.from \in Nat /\ p.to \in Nat /\ p.from <= p.to
  OBVIOUS
<1> DEFINE a == p.from
           b == p.to
<1>2. a \in Int /\ b \in Int /\ a <= b /\ MonthsInPeriod(p) = a .. b /\ b - a + 1 = p.to - p.from + 1
  BY <1>1 DEF MonthsInPeriod
<1> HIDE DEF a, b
<1>3. IsFiniteSet(a .. b) /\ Cardinality(a .. b) = b - a + 1
  BY <1>2, FS_Interval
<1>4. a \in a .. b /\ a .. b \subseteq Int
  BY <1>2
<1> QED
  BY <1>1, <1>2, <1>3, <1>4

LEMMA OneMonth ==
  ASSUME NEW m \in Int
  PROVE  /\ MonthsInPeriod(MonthOf(m)) = {m}
         /\ MonthOf(m).to - MonthOf(m).from + 1 = 1
         /\ \A f : DOMAIN f = {m} /\ f[m] \in Int => Total(f) = f[m]
<1>1. MonthsInPeriod(MonthOf(m)) = {m} /\ MonthOf(m).to - MonthOf(m).from + 1 = 1
  BY DEF MonthsInPeriod, MonthOf
<1>2. ASSUME NEW f, DOMAIN f = {m}, f[m] \in Int PROVE Total(f) = f[m]
  <2>1. SumFunctionOnSet(f, {m}) = f[m]
    BY <1>2, FS_Singleton, SumOne
  <2> QED
    BY <1>2, <2>1 DEF Total, SumFunction
<1> QED
  BY <1>1, <1>2

LEMMA PoolFinite == IsFiniteSet(Pool) /\ Pool \subseteq Person /\ Cardinality(Pool) \in Nat
BY FS_Subset, FS_CardinalityType DEF Pool

\* A month asked for alone has the work of the pool in that month.
LEMMA OrgMonth ==
  ASSUME ScoreTypeOK, NEW m \in Int
  PROVE  /\ OrgWork(MonthOf(m))
              = SumFunctionOnSet([e \in Pool |-> WorkMain(e, MonthOf(m), m)], Pool)
         /\ OrgWork(MonthOf(m)) \in Int
<1> DEFINE one == [e \in Pool |-> Total([o \in MonthsInPeriod(MonthOf(m)) |-> WorkMain(e, MonthOf(m), o)])]
           work == [e \in Pool |-> WorkMain(e, MonthOf(m), m)]
<1>1. \A e \in Pool : work[e] \in Int
  BY PoolFinite, MonthParts
<1>2. ASSUME NEW e \in Pool PROVE one[e] = work[e]
  <2> DEFINE f == [o \in MonthsInPeriod(MonthOf(m)) |-> WorkMain(e, MonthOf(m), o)]
  <2>1. DOMAIN f = {m} /\ f[m] = work[e]
    BY OneMonth
  <2>2. Total(f) = f[m]
    <3> HIDE DEF f, work
    <3> QED
      BY <1>1, <2>1, OneMonth
  <2> QED
    BY <2>1, <2>2
<1>3. OrgWork(MonthOf(m)) = SumFunctionOnSet(one, Pool)
  BY DEF OrgWork, SumFunction
<1> HIDE DEF one, work
<1>4. SumFunctionOnSet(one, Pool) = SumFunctionOnSet(work, Pool)
  BY <1>2, PoolFinite, SumSame
<1>5. SumFunctionOnSet(work, Pool) \in Int
  BY <1>1, PoolFinite, SumInt
<1> QED
  BY <1>3, <1>4, <1>5 DEF work

\* The work of the pool in a period is that of its months.
LEMMA OrgWorkApart ==
  ASSUME ScoreTypeOK, NoEarlyRow, NEW p \in Periods
  PROVE  /\ \A m \in MonthsInPeriod(p) : OrgWork(MonthOf(m)) \in Int
         /\ OrgWork(p) = SumFunctionOnSet([m \in MonthsInPeriod(p) |-> OrgWork(MonthOf(m))],
                                          MonthsInPeriod(p))
<1> DEFINE M == MonthsInPeriod(p)
           F == [e \in Pool |-> [m \in M |-> WorkMain(e, p, m)]]
           G == [m \in M |-> [e \in Pool |-> WorkMain(e, p, m)]]
           A == [e \in Pool |-> Total([m \in M |-> WorkMain(e, p, m)])]
           B == [m \in M |-> OrgWork(MonthOf(m))]
<1>1. IsFiniteSet(M) /\ M \subseteq Int /\ IsFiniteSet(Pool) /\ Pool \subseteq Person
  BY PeriodMonths, PoolFinite
<1>2. \A e \in Pool, m \in M : F[e][m] \in Int /\ G[m][e] = F[e][m]
  BY <1>1, MonthParts
<1>3. \A e \in Pool : A[e] = SumFunctionOnSet(F[e], M)
  BY DEF Total, SumFunction
<1>4. OrgWork(p) = SumFunctionOnSet(A, Pool)
  BY DEF OrgWork, SumFunction
<1>5. ASSUME NEW m \in M PROVE B[m] = SumFunctionOnSet(G[m], Pool)
  <2> DEFINE one == [e \in Pool |-> WorkMain(e, MonthOf(m), m)]
  <2>0. m \in Int
    BY <1>1
  <2>1. \A e \in Pool : one[e] = G[m][e]
    BY <1>1, <2>0, MonthApart
  <2>2. B[m] = SumFunctionOnSet(one, Pool)
    BY <2>0, OrgMonth
  <2> HIDE DEF one, G, B
  <2> QED
    BY <1>1, <2>1, <2>2, SumSame
<1>6. \A m \in M : OrgWork(MonthOf(m)) \in Int
  BY <1>1, OrgMonth
<1>7. SumFunctionOnSet(A, Pool) = SumFunctionOnSet(B, M)
  <2> HIDE DEF A, B, F, G, M
  <2> DEFINE T == M
             S == Pool
  <2>1. IsFiniteSet(S) /\ IsFiniteSet(T)
    BY <1>1
  <2>2. \A x \in S, y \in T : F[x][y] \in Int
    BY <1>2
  <2>3. \A x \in S : A[x] = SumFunctionOnSet(F[x], T)
    BY <1>3
  <2>4. \A y \in T : B[y] = SumFunctionOnSet(G[y], S)
    BY <1>5
  <2>5. \A x \in S, y \in T : G[y][x] = F[x][y]
    BY <1>2
  <2> HIDE DEF S, T
  <2> HIDE ScoreAssumption DEF Point
  <2>6. SumFunctionOnSet(A, S) = SumFunctionOnSet(B, T)
    BY <2>1, <2>2, <2>3, <2>4, <2>5, SumSwap
  <2> QED
    BY <2>6 DEF S, T
<1> QED
  BY <1>4, <1>6, <1>7

\* A month's average is at most seventy points when nobody can have more.
LEMMA MonthShare ==
  ASSUME ScoreTypeOK, NobodyOver(Pool), NEW m \in Int, Cardinality(Pool) > 0
  PROVE  /\ OrgShare(OrgWork(MonthOf(m)), Cardinality(Pool), 1)
              = OrgWork(MonthOf(m)) \div Cardinality(Pool)
         /\ OrgWork(MonthOf(m)) \div Cardinality(Pool) \in Int
         /\ OrgWork(MonthOf(m)) <= 4200 * Cardinality(Pool)
<1> DEFINE n == Cardinality(Pool)
           x == OrgWork(MonthOf(m))
           work == [e \in Pool |-> WorkMain(e, MonthOf(m), m)]
<1>1. n \in Nat /\ n > 0 /\ IsFiniteSet(Pool) /\ Pool \subseteq Person
  BY PoolFinite
<1>2. ASSUME NEW e \in Pool PROVE work[e] \in Int /\ work[e] <= 4200
  <2>1. MonthlyTop(profile[e]) <= 6000
    BY DEF NobodyOver
  <2> QED
    BY <1>1, <2>1, MonthParts
<1>3. x \in Int /\ x = SumFunctionOnSet(work, Pool)
  BY OrgMonth
<1>4. x <= 4200 * n
  <2>1. 4200 \in Int
    OBVIOUS
  <2> HIDE DEF work, x
  <2> QED
    BY <1>1, <1>2, <1>3, <2>1, SumBelow
<1> HIDE DEF n, x
<1>5. x \div n <= 4200 /\ x \div n \in Int
  BY <1>1, <1>3, <1>4, QuotientBelow, Quotient
<1> DEFINE q == x \div n
<1>6. OrgShare(x, n, 1) = Capped(q, 4200)
  <2>1. 70 * 60 * 1 = 4200
    OBVIOUS
  <2> QED
    BY <1>1, <2>1 DEF OrgShare
<1>7. Capped(q, 4200) = q
  <2> HIDE DEF q
  <2>1. q \in Int /\ q <= 4200
    BY <1>5 DEF q
  <2> QED
    BY <2>1 DEF Capped
<1> QED
  BY <1>4, <1>5, <1>6, <1>7 DEF n, x, q

\* The average of a period is those of its months, but for the rounding of each.
LEMMA ShareApart ==
  ASSUME ScoreTypeOK, NoEarlyRow, NobodyOver(Pool), NEW p \in Periods,
         NEW Q, \A m \in MonthsInPeriod(p) :
                  Q[m] = OrgShare(OrgWork(MonthOf(m)), Cardinality(Pool), 1)
  PROVE  /\ \A m \in MonthsInPeriod(p) : Q[m] \in Int
         /\ OrgShare(OrgWork(p), Cardinality(Pool), p.to - p.from + 1)
              - SumFunctionOnSet(Q, MonthsInPeriod(p))
              \in 0 .. (IF Cardinality(Pool) > 1 THEN p.to - p.from ELSE 0)
<1> DEFINE n == Cardinality(Pool)
           T == MonthsInPeriod(p)
           X == [m \in T |-> OrgWork(MonthOf(m))]
           k == Cardinality(T)
<1>1. n \in Nat /\ IsFiniteSet(T) /\ T # {} /\ T \subseteq Int /\ k = p.to - p.from + 1 /\ k \in Nat
      /\ p.to - p.from = k - 1 /\ k >= 1
  BY PoolFinite, PeriodMonths, FS_CardinalityType
<1>2. CASE n = 0
  <2>1. OrgShare(OrgWork(p), n, p.to - p.from + 1) = 0
    BY <1>2 DEF OrgShare
  <2>2. \A m \in T : Q[m] = 0
    BY <1>2 DEF OrgShare
  <2>3. SumFunctionOnSet(Q, T) = 0
    <3> HIDE DEF T
    <3> QED
      BY <1>1, <2>2, SumNothing
  <2> QED
    BY <1>1, <1>2, <2>1, <2>2, <2>3
<1>3. CASE n > 0
  <2>1. ASSUME NEW m \in T
        PROVE  /\ X[m] \in Int /\ X[m] <= 4200 * n
               /\ Q[m] = X[m] \div n /\ Q[m] \in Int
    <3>1. m \in Int
      BY <1>1
    <3>2. X[m] = OrgWork(MonthOf(m)) /\ Q[m] = OrgShare(OrgWork(MonthOf(m)), n, 1)
      OBVIOUS
    <3>3. OrgWork(MonthOf(m)) \in Int
      BY <3>1, OrgMonth
    <3>4. /\ OrgShare(OrgWork(MonthOf(m)), n, 1) = OrgWork(MonthOf(m)) \div n
          /\ OrgWork(MonthOf(m)) \div n \in Int
          /\ OrgWork(MonthOf(m)) <= 4200 * n
      BY <1>3, <3>1, MonthShare
    <3> QED
      BY <3>2, <3>3, <3>4
  <2>2. OrgWork(p) = SumFunctionOnSet(X, T)
    BY OrgWorkApart
  <2> DEFINE x == SumFunctionOnSet(X, T)
             s == SumFunctionOnSet(Q, T)
             q == x \div n
  <2>i. IsFiniteSet(T) /\ T # {}
    BY <1>1
  <2>j. n \in Nat /\ k \in Nat /\ k = Cardinality(T)
    BY <1>1
  <2>k. \A m \in T : X[m] \in Int /\ X[m] <= 4200 * n
    BY <2>1
  <2>l. \A m \in T : X[m] \in Int /\ Q[m] = X[m] \div n
    BY <2>1
  <2>m. \A m \in T : Q[m] \in Int
    BY <2>1
  <2> HIDE DEF T, X, n, k
  <2> HIDE ScoreAssumption
  <2>4. q - s \in 0 .. (IF n = 1 THEN 0 ELSE k - 1)
    BY <1>3, <2>i, <2>j, <2>l, SumOfQuotients
  <2>5. s \in Int
    BY <2>i, <2>m, SumInt
  <2>6. q \in Int /\ q <= 4200 * k
    BY <1>3, <2>i, <2>j, <2>k, AveragesBelow
  <2>7. OrgShare(x, n, k) = q
    <3>1. OrgShare(x, n, k) = Capped(q, 4200 * k)
      <4>1. 70 * 60 * k = 4200 * k
        BY <2>j
      <4> HIDE DEF x
      <4> QED
        BY <1>3, <4>1 DEF OrgShare
    <3> HIDE DEF q
    <3> QED
      BY <2>j, <2>6, <3>1 DEF Capped
  <2>8. OrgShare(OrgWork(p), n, p.to - p.from + 1) = q
    <3> HIDE DEF q, x
    <3>1. OrgWork(p) = x /\ p.to - p.from + 1 = k
      BY <1>1, <2>2 DEF x
    <3> QED
      BY <2>7, <3>1, Zenon
  <2>9. k - 1 = p.to - p.from /\ (n = 1 <=> ~(n > 1))
    BY <1>1, <1>3
  <2>10. q - s \in 0 .. (IF n > 1 THEN p.to - p.from ELSE 0)
    <3> HIDE DEF q, s
    <3> QED
      BY <2>4, <2>5, <2>6, <2>9
  <2> HIDE DEF q
  <2> QED
    BY <2>8, <2>10, <2>m DEF s, T, n
<1> QED
  BY <1>1, <1>2, <1>3

\* A month asked for alone: its points, and for HR the average of that month.
LEMMA MonthCombined ==
  ASSUME ScoreTypeOK, NEW e \in Person, NEW m \in Int
  PROVE  /\ MonthMain(e, MonthOf(m), m) \in Int
         /\ Combined(e, MonthOf(m))
              = MonthMain(e, MonthOf(m), m)
                + IF profile[e].role = "HR"
                  THEN OrgShare(OrgWork(MonthOf(m)), Cardinality(Pool), 1) ELSE 0
<1> DEFINE f == [o \in MonthsInPeriod(MonthOf(m)) |-> MonthMain(e, MonthOf(m), o)]
           share(k) == IF profile[e].role = "HR"
                       THEN OrgShare(OrgWork(MonthOf(m)), Cardinality(Pool), k) ELSE 0
<1>1. MonthMain(e, MonthOf(m), m) \in Int
  BY MonthParts
<1>2. DOMAIN f = {m} /\ f[m] = MonthMain(e, MonthOf(m), m)
  BY OneMonth
<1>3. Total(f) = f[m]
  <2> HIDE DEF f
  <2> QED
    BY <1>1, <1>2, OneMonth
<1>4. MonthOf(m).to - MonthOf(m).from + 1 = 1
  BY OneMonth
<1>5. Combined(e, MonthOf(m)) = Total(f) + share(MonthOf(m).to - MonthOf(m).from + 1)
  BY DEF Combined
<1> HIDE DEF f, share
<1>6. Combined(e, MonthOf(m)) = MonthMain(e, MonthOf(m), m) + share(1)
  BY <1>2, <1>3, <1>4, <1>5
<1> QED
  BY <1>1, <1>6 DEF share

LEMMA OrgShareInt ==
  ASSUME ScoreTypeOK, NoEarlyRow, NEW p \in Periods
  PROVE  OrgShare(OrgWork(p), Cardinality(Pool), p.to - p.from + 1) \in Int
<1> DEFINE n == Cardinality(Pool)
           x == OrgWork(p)
           k == p.to - p.from + 1
           X == [m \in MonthsInPeriod(p) |-> OrgWork(MonthOf(m))]
<1>1. n \in Nat /\ k \in Int /\ IsFiniteSet(MonthsInPeriod(p))
  BY PoolFinite, PeriodMonths
<1>2. x \in Int
  <2>1. \A m \in MonthsInPeriod(p) : X[m] \in Int
    BY OrgWorkApart
  <2>2. x = SumFunctionOnSet(X, MonthsInPeriod(p))
    BY OrgWorkApart
  <2> HIDE ScoreAssumption DEF X, x
  <2> QED
    BY <1>1, <2>1, <2>2, SumInt
<1> HIDE DEF n, x, k
<1> DEFINE q == x \div n
<1>3. CASE n = 0
  BY <1>3 DEF OrgShare, n, x, k
<1>4. CASE n > 0
  <2>1. q \in Int
    BY <1>1, <1>2, <1>4, Quotient
  <2>2. OrgShare(x, n, k) = Capped(q, 70 * 60 * k)
    BY <1>4 DEF OrgShare
  <2> HIDE DEF q
  <2>3. Capped(q, 70 * 60 * k) \in Int
    BY <1>1, <2>1 DEF Capped
  <2> QED
    BY <2>2, <2>3 DEF n, x, k
<1> QED
  BY <1>1, <1>3, <1>4

LEMMA PeriodsRight == ScoreTypeOK => PeriodsAddUp
<1> SUFFICES ASSUME ScoreTypeOK, NoEarlyRow, NEW e \in Person, NEW p \in Periods,
                    profile[e].role # "HR" \/ NobodyOver(Pool)
             PROVE  Combined(e, p) - Total([m \in MonthsInPeriod(p) |-> Combined(e, MonthOf(m))])
                      \in 0 .. IF profile[e].role = "HR" /\ Cardinality(Pool) > 1
                               THEN p.to - p.from ELSE 0
  BY DEF PeriodsAddUp
<1> DEFINE T == MonthsInPeriod(p)
           hr == profile[e].role = "HR"
           F == [m \in T |-> MonthMain(e, p, m)]
           Q == [m \in T |-> IF hr THEN OrgShare(OrgWork(MonthOf(m)), Cardinality(Pool), 1) ELSE 0]
           H == [m \in T |-> Combined(e, MonthOf(m))]
           w == IF hr THEN OrgShare(OrgWork(p), Cardinality(Pool), p.to - p.from + 1) ELSE 0
           f == SumFunctionOnSet(F, T)
           q == SumFunctionOnSet(Q, T)
           apart == IF hr /\ Cardinality(Pool) > 1 THEN p.to - p.from ELSE 0
<1>1. IsFiniteSet(T) /\ T \subseteq Int
  BY PeriodMonths
<1>2. /\ Combined(e, p) = f + w
      /\ Total(H) = SumFunctionOnSet(H, T)
  BY DEF Combined, Total, SumFunction
<1>3. /\ \A m \in T : Q[m] \in Int
      /\ w - q \in 0 .. apart
  <2>1. CASE hr
    <3>1. \A m \in T : Q[m] = OrgShare(OrgWork(MonthOf(m)), Cardinality(Pool), 1)
      BY <2>1
    <3>2. w = OrgShare(OrgWork(p), Cardinality(Pool), p.to - p.from + 1)
      BY <2>1
    <3>3. NobodyOver(Pool) /\ apart = IF Cardinality(Pool) > 1 THEN p.to - p.from ELSE 0
      BY <2>1
    <3> HIDE DEF Q, w, apart
    <3>4. /\ \A m \in T : Q[m] \in Int
          /\ OrgShare(OrgWork(p), Cardinality(Pool), p.to - p.from + 1) - q
               \in 0 .. (IF Cardinality(Pool) > 1 THEN p.to - p.from ELSE 0)
      BY <3>1, <3>3, ShareApart
    <3> QED
      BY <3>2, <3>3, <3>4, Zenon
  <2>2. CASE ~hr
    <3>1. \A m \in T : Q[m] = 0
      BY <2>2
    <3>2. q = 0
      <4> HIDE DEF Q, T
      <4> QED
        BY <1>1, <3>1, SumNothing
    <3>3. w = 0 /\ apart = 0
      BY <2>2
    <3> HIDE DEF Q, w, q, apart
    <3> QED
      BY <3>1, <3>2, <3>3
  <2> QED
    BY <2>1, <2>2
<1>4. ASSUME NEW m \in T PROVE F[m] \in Int /\ H[m] = F[m] + Q[m]
  <2>1. m \in Int
    BY <1>1
  <2>2. MonthMain(e, p, m) = MonthMain(e, MonthOf(m), m)
    BY <2>1, MonthApart
  <2>3. F[m] = MonthMain(e, MonthOf(m), m)
    BY <2>2
  <2>4. Q[m] = IF hr THEN OrgShare(OrgWork(MonthOf(m)), Cardinality(Pool), 1) ELSE 0
    OBVIOUS
  <2>5. H[m] = Combined(e, MonthOf(m))
    OBVIOUS
  <2>6. MonthMain(e, MonthOf(m), m) \in Int
    BY <2>1, MonthCombined
  <2>7. Combined(e, MonthOf(m))
          = MonthMain(e, MonthOf(m), m)
            + IF hr THEN OrgShare(OrgWork(MonthOf(m)), Cardinality(Pool), 1) ELSE 0
    BY <2>1, MonthCombined
  <2> HIDE DEF F, Q, H, hr
  <2> QED
    BY <2>3, <2>4, <2>5, <2>6, <2>7
<1> HIDE ScoreAssumption DEF Point
<1>5. SumFunctionOnSet(H, T) = f + q
  <2> HIDE DEF F, Q, H, T
  <2>1. \A m \in T : F[m] \in Int /\ Q[m] \in Int /\ H[m] = F[m] + Q[m]
    BY <1>3, <1>4
  <2> QED
    BY <1>1, <2>1, SumPlus
<1>6. f \in Int /\ q \in Int
  <2> HIDE DEF F, Q, T
  <2> QED
    BY <1>1, <1>3, <1>4, SumInt
<1>7. w \in Int
  <2>1. CASE hr
    BY <2>1, PoolFinite, OrgShareInt
  <2>2. CASE ~hr
    BY <2>2
  <2> QED
    BY <2>1, <2>2
<1>8. (f + w) - (f + q) = w - q
  <2> HIDE DEF f, q, w
  <2> QED
    BY <1>6, <1>7
<1>9. Combined(e, p) - Total(H) \in 0 .. apart
  <2> HIDE DEF f, q, w, H, apart
  <2> QED
    BY <1>2, <1>3, <1>5, <1>8
<1> QED
  BY <1>9

\* A quarter's or year's combined score is that of its months asked for one by
\* one, but for the one rounding of an average over several employees: for any
\* employees, periods, rows, targets and leaves.
THEOREM PeriodsAddUpForAll == ScoreSpec => []PeriodsAddUp
BY PeriodsRight, ScoreTypes, PTL

-----------------------------------------------------------------------------
(* One leave more *)

\* What holds of 0 and goes from each number to the next holds up to n.
LEMMA UpTo ==
  ASSUME NEW n \in Nat, NEW Good, 0 \in Good, \A j \in 0 .. n - 1 : j \in Good => j + 1 \in Good
  PROVE  0 .. n \subseteq Good
<1> DEFINE Bad == {j \in Nat : j <= n /\ j \notin Good}
<1> HIDE ScoreAssumption
<1>1. SUFFICES ASSUME Bad # {} PROVE FALSE
  BY DEF Bad
<1>2. Bad \subseteq Nat
  OBVIOUS
<1>3. PICK j \in Bad : \A i \in Bad : <<i, j>> \notin OpToRel(<, Nat)
  <2>1. IsWellFoundedOn(OpToRel(<, Nat), Nat)
    BY NatLessThanWellFounded
  <2> HIDE DEF Bad
  <2> QED
    BY <1>1, <1>2, <2>1, WFMin
<1>4. j \in Nat /\ j <= n /\ j \notin Good /\ j # 0
  BY <1>3
<1>5. j - 1 \in Nat /\ j - 1 \in 0 .. n - 1 /\ (j - 1) + 1 = j /\ j - 1 < j /\ j - 1 <= n
  BY <1>4
<1>6. <<j - 1, j>> \in OpToRel(<, Nat)
  BY <1>4, <1>5 DEF OpToRel
<1>7. j - 1 \notin Bad
  BY <1>3, <1>6, Zenon
<1>8. j - 1 \in Good
  BY <1>5, <1>7 DEF Bad
<1>9. (j - 1) + 1 \in Good
  BY <1>5, <1>8
<1> QED
  BY <1>4, <1>5, <1>9

\* The allowance after one leave more.
After(u, l) == IF u + HalfDays(l) <= 4 THEN u + HalfDays(l) ELSE u

UsedOn(s, n, u) == u = [i \in 0 .. n |-> IF i = 0 THEN 0 ELSE After(u[i - 1], s[i])]

LEMMA UsedExists ==
  ASSUME NEW s, NEW n \in Nat
  PROVE  \E u : UsedOn(s, n, u)
<1> DEFINE Good == {j \in Nat : \E u : UsedOn(s, j, u)}
<1>1. 0 \in Good
  <2>1. UsedOn(s, 0, [i \in 0 .. 0 |-> 0])
    BY DEF UsedOn
  <2> QED
    BY <2>1
<1>2. ASSUME NEW j \in 0 .. n - 1, j \in Good PROVE j + 1 \in Good
  <2>1. PICK u : UsedOn(s, j, u)
    BY <1>2
  <2> DEFINE v == [i \in 0 .. j + 1 |-> IF i = 0 THEN 0 ELSE After(u[i - 1], s[i])]
  <2>2. \A i \in 0 .. j : v[i] = u[i]
    BY <2>1 DEF UsedOn
  <2>3. UsedOn(s, j + 1, v)
    <3>1. \A i \in 0 .. j + 1 : i # 0 => i - 1 \in 0 .. j
      OBVIOUS
    <3>2. \A i \in 0 .. j + 1 : i # 0 => v[i - 1] = u[i - 1]
      BY <2>2, <3>1
    <3> QED
      BY <3>2 DEF UsedOn
  <2> QED
    BY <2>3
<1> HIDE DEF Good
<1>3. 0 .. n \subseteq Good
  BY <1>1, <1>2, UpTo
<1> QED
  BY <1>3 DEF Good

\* The allowance grows leave by leave and never beyond two days.
LEMMA UsedSteps ==
  ASSUME NEW s \in Seq({"half", "full"})
  PROVE  /\ Used(s)[0] = 0
         /\ \A j \in 1 .. Len(s) : Used(s)[j] = After(Used(s)[j - 1], s[j])
         /\ \A j \in 0 .. Len(s) : Used(s)[j] \in 0 .. 4
<1> DEFINE n == Len(s)
           v == CHOOSE u : UsedOn(s, n, u)
<1>1. UsedOn(s, n, v)
  BY UsedExists
<1>2. Used(s) = v
  BY DEF Used, UsedOn, After
<1> HIDE DEF v
<1>3. v[0] = 0 /\ \A j \in 1 .. n : v[j] = After(v[j - 1], s[j])
  BY <1>1 DEF UsedOn
<1> DEFINE Good == {j \in Nat : j <= n => v[j] \in 0 .. 4}
<1>4. 0 \in Good
  BY <1>3
<1>5. ASSUME NEW j \in 0 .. n - 1, j \in Good PROVE j + 1 \in Good
  <2>1. v[j + 1] = After(v[j], s[j + 1]) /\ v[j] \in 0 .. 4
    BY <1>3, <1>5
  <2> QED
    BY <2>1 DEF After, HalfDays
<1> HIDE DEF Good
<1>6. 0 .. n \subseteq Good
  BY <1>4, <1>5, UpTo
<1>7. \A j \in 0 .. n : v[j] \in 0 .. 4
  BY <1>6 DEF Good
<1> QED
  BY <1>2, <1>3, <1>7

\* The first j leaves that are charged, by length.
ChargedTo(s, l, j) == {i \in 1 .. j : s[i] = l /\ ~Waived(s, i)}

\* Half days charged and half days free make the half days taken.
Taken(s, j) == Cardinality(ChargedTo(s, "half", j)) + 2 * Cardinality(ChargedTo(s, "full", j))
               + Used(s)[j]

LEMMA ChargedSteps ==
  ASSUME NEW s, NEW l, NEW j \in Nat \ {0}
  PROVE  /\ Cardinality(ChargedTo(s, l, j - 1)) \in Nat
         /\ Cardinality(ChargedTo(s, l, j))
              = Cardinality(ChargedTo(s, l, j - 1)) + (IF s[j] = l /\ ~Waived(s, j) THEN 1 ELSE 0)
<1> DEFINE C == ChargedTo(s, l, j - 1)
<1>1. IsFiniteSet(C)
  <2>1. j - 1 \in Int /\ 1 \in Int
    OBVIOUS
  <2>2. IsFiniteSet(1 .. j - 1)
    BY <2>1, FS_Interval
  <2> QED
    BY <2>2, FS_Subset DEF ChargedTo
<1>2. Cardinality(C) \in Nat
  BY <1>1, FS_CardinalityType
<1>3. CASE s[j] = l /\ ~Waived(s, j)
  <2>1. ChargedTo(s, l, j) = C \cup {j} /\ j \notin C
    BY <1>3 DEF ChargedTo
  <2> HIDE DEF C
  <2>2. Cardinality(C \cup {j}) = Cardinality(C) + 1
    BY <1>1, <2>1, FS_AddElement
  <2> QED
    BY <1>2, <1>3, <2>1, <2>2 DEF C
<1>4. CASE ~(s[j] = l /\ ~Waived(s, j))
  <2>1. ChargedTo(s, l, j) = C
    BY <1>4 DEF ChargedTo
  <2> QED
    BY <1>2, <1>4, <2>1
<1> QED
  BY <1>3, <1>4

LEMMA ChargedNone ==
  ASSUME NEW s, NEW l
  PROVE  Cardinality(ChargedTo(s, l, 0)) = 0
<1>1. ChargedTo(s, l, 0) = {}
  BY DEF ChargedTo
<1> QED
  BY <1>1, FS_EmptySet

LEMMA TakenSteps ==
  ASSUME NEW s \in Seq({"half", "full"})
  PROVE  /\ Taken(s, 0) = 0
         /\ \A j \in 1 .. Len(s) : /\ Taken(s, j - 1) \in Int
                                   /\ Taken(s, j) = Taken(s, j - 1) + HalfDays(s[j])
<1>1. Taken(s, 0) = 0
  BY ChargedNone, UsedSteps DEF Taken
<1>2. ASSUME NEW j \in 1 .. Len(s)
      PROVE  /\ Taken(s, j - 1) \in Int
             /\ Taken(s, j) = Taken(s, j - 1) + HalfDays(s[j])
  <2> DEFINE h == Cardinality(ChargedTo(s, "half", j - 1))
             f == Cardinality(ChargedTo(s, "full", j - 1))
             h2 == Cardinality(ChargedTo(s, "half", j))
             f2 == Cardinality(ChargedTo(s, "full", j))
             u == Used(s)[j - 1]
             u2 == Used(s)[j]
             x == s[j]
             w == Waived(s, j)
  <2>0. j \in Nat \ {0} /\ j - 1 \in 0 .. Len(s)
    OBVIOUS
  <2>1. /\ h \in Nat /\ h2 = h + (IF x = "half" /\ ~w THEN 1 ELSE 0)
        /\ f \in Nat /\ f2 = f + (IF x = "full" /\ ~w THEN 1 ELSE 0)
    BY <2>0, ChargedSteps
  <2>2. u \in 0 .. 4 /\ u2 = After(u, x)
    BY <2>0, UsedSteps
  <2>3. w <=> u2 # u
    BY DEF Waived
  <2>4. Taken(s, j - 1) = h + 2 * f + u /\ Taken(s, j) = h2 + 2 * f2 + u2
    BY DEF Taken
  <2>5. x \in {"half", "full"}
    OBVIOUS
  <2> HIDE DEF h, f, h2, f2, u, u2, w, x
  <2>6. CASE x = "half" /\ u + 1 <= 4
    <3>1. u2 = u + 1 /\ w /\ h2 = h /\ f2 = f
      BY <2>1, <2>2, <2>3, <2>6 DEF After, HalfDays
    <3> QED
      BY <2>1, <2>2, <2>4, <2>6, <3>1 DEF HalfDays, x
  <2>7. CASE x = "half" /\ ~(u + 1 <= 4)
    <3>1. u2 = u /\ ~w /\ h2 = h + 1 /\ f2 = f
      BY <2>1, <2>2, <2>3, <2>7 DEF After, HalfDays
    <3> QED
      BY <2>1, <2>2, <2>4, <2>7, <3>1 DEF HalfDays, x
  <2>8. CASE x = "full" /\ u + 2 <= 4
    <3>1. u2 = u + 2 /\ w /\ h2 = h /\ f2 = f
      BY <2>1, <2>2, <2>3, <2>8 DEF After, HalfDays
    <3> QED
      BY <2>1, <2>2, <2>4, <2>8, <3>1 DEF HalfDays, x
  <2>9. CASE x = "full" /\ ~(u + 2 <= 4)
    <3>1. u2 = u /\ ~w /\ h2 = h /\ f2 = f + 1
      BY <2>1, <2>2, <2>3, <2>9 DEF After, HalfDays
    <3>2. 2 * f2 = 2 * f + 2
      BY <2>1, <3>1
    <3>3. HalfDays(s[j]) = 2
      BY <2>9 DEF HalfDays, x
    <3> QED
      BY <2>1, <2>2, <2>4, <3>1, <3>2, <3>3
  <2> QED
    BY <2>5, <2>6, <2>7, <2>8, <2>9
<1> QED
  BY <1>1, <1>2

LEMMA Joined ==
  ASSUME NEW S, NEW a \in Seq(S), NEW b \in Seq(S)
  PROVE  /\ a \o b \in Seq(S) /\ Len(a \o b) = Len(a) + Len(b)
         /\ \A j \in 1 .. Len(a) : (a \o b)[j] = a[j]
         /\ \A j \in Len(a) + 1 .. Len(a) + Len(b) : (a \o b)[j] = b[j - Len(a)]
<1> HIDE ScoreAssumption
<1> QED
  OBVIOUS

\* A leave that comes in after the first i: the ones before it keep their place.
WithOne(t, s, i, l) ==
  /\ t \in Seq({"half", "full"}) /\ Len(t) = Len(s) + 1
  /\ \A j \in 1 .. i : t[j] = s[j]
  /\ t[i + 1] = l
  /\ \A j \in i + 1 .. Len(s) : t[j + 1] = s[j]

LEMMA Inserted ==
  ASSUME NEW s \in Seq({"half", "full"}), NEW i \in 0 .. Len(s), NEW l \in {"half", "full"}
  PROVE  WithOne(InsertAt(s, i + 1, l), s, i, l)
<1> HIDE ScoreAssumption
<1> DEFINE t == InsertAt(s, i + 1, l)
           a == SubSeq(s, 1, i)
           b == SubSeq(s, i + 1, Len(s))
<1>1. t = a \o <<l>> \o b
  <2>1. (i + 1) - 1 = i
    OBVIOUS
  <2> QED
    BY <2>1 DEF InsertAt
<1>2. /\ a \in Seq({"half", "full"}) /\ Len(a) = i /\ \A j \in 1 .. i : a[j] = s[j]
  OBVIOUS
<1>3. /\ b \in Seq({"half", "full"}) /\ Len(b) = Len(s) - i
      /\ \A j \in 1 .. Len(s) - i : b[j] = s[i + j]
  OBVIOUS
<1> HIDE DEF a, b, t
<1> DEFINE c == a \o <<l>>
<1>4. /\ c \in Seq({"half", "full"}) /\ Len(c) = i + 1 /\ c[i + 1] = l
      /\ \A j \in 1 .. i : c[j] = s[j]
  BY <1>2
<1>5. t = c \o b
  BY <1>1
<1> HIDE DEF c
<1>6. t \in Seq({"half", "full"}) /\ Len(t) = Len(s) + 1
  <2>1. c \o b \in Seq({"half", "full"}) /\ Len(c \o b) = Len(c) + Len(b)
    BY <1>3, <1>4, Joined
  <2>2. Len(c) + Len(b) = Len(s) + 1
    BY <1>3, <1>4
  <2> QED
    BY <1>5, <2>1, <2>2, Zenon
<1>7. \A j \in 1 .. i + 1 : t[j] = c[j]
  <2>1. \A j \in 1 .. Len(c) : (c \o b)[j] = c[j]
    BY <1>3, <1>4, Joined
  <2> QED
    BY <1>4, <1>5, <2>1
<1>8. ASSUME NEW j \in i + 1 .. Len(s) PROVE t[j + 1] = s[j]
  <2>1. t[j + 1] = b[(j + 1) - (i + 1)]
    <3>1. b \in Seq({"half", "full"}) /\ Len(b) = Len(s) - i
      BY <1>3
    <3>2. c \in Seq({"half", "full"}) /\ Len(c) = i + 1
      BY <1>4
    <3>3. j + 1 \in Len(c) + 1 .. Len(c) + Len(b)
      BY <3>1, <3>2
    <3>4. (c \o b)[j + 1] = b[(j + 1) - Len(c)]
      BY <3>1, <3>2, <3>3, Joined
    <3> QED
      BY <1>5, <3>2, <3>4
  <2>2. (j + 1) - (i + 1) = j - i /\ j - i \in 1 .. Len(s) - i /\ i + (j - i) = j
    OBVIOUS
  <2> QED
    BY <1>3, <2>1, <2>2
<1>9. \A j \in 1 .. i : t[j] = s[j]
  BY <1>4, <1>7
<1>10. t[i + 1] = l
  BY <1>4, <1>7
<1> QED
  BY <1>6, <1>8, <1>9, <1>10 DEF WithOne, t

\* What one more leave takes of the allowance is at most its own length, and what it
\* leaves to a longer one may go to a shorter one.
LEMMA AllowanceAfter ==
  ASSUME NEW u \in 0 .. 4, NEW v \in 0 .. 4, NEW d \in {1, 2}, v <= u + d,
         NEW x \in {"half", "full"}
  PROVE  After(v, x) <= After(u, x) + d
<1>1. HalfDays(x) \in {1, 2}
  BY DEF HalfDays
<1> QED
  BY <1>1 DEF After

LEMMA TakenWith ==
  ASSUME NEW s \in Seq({"half", "full"}), NEW i \in 0 .. Len(s), NEW l \in {"half", "full"},
         NEW t, WithOne(t, s, i, l)
  PROVE  /\ Taken(t, Len(s) + 1) = Taken(s, Len(s)) + HalfDays(l)
         /\ Used(t)[Len(s) + 1] <= Used(s)[Len(s)] + HalfDays(l)
<1> HIDE ScoreAssumption
<1>1. /\ t \in Seq({"half", "full"}) /\ Len(t) = Len(s) + 1
      /\ \A j \in 1 .. i : t[j] = s[j]
      /\ t[i + 1] = l
      /\ \A j \in i + 1 .. Len(s) : t[j + 1] = s[j]
  BY DEF WithOne
<1> DEFINE n == Len(s)
           d == HalfDays(l)
<1>2. d \in {1, 2} /\ n \in Nat /\ i \in 0 .. n
  BY DEF HalfDays
<1>3. /\ Used(s)[0] = 0 /\ Taken(s, 0) = 0
      /\ \A j \in 1 .. n : /\ Used(s)[j] = After(Used(s)[j - 1], s[j])
                           /\ Taken(s, j - 1) \in Int
                           /\ Taken(s, j) = Taken(s, j - 1) + HalfDays(s[j])
      /\ \A j \in 0 .. n : Used(s)[j] \in 0 .. 4
  BY UsedSteps, TakenSteps
<1>4. /\ Used(t)[0] = 0 /\ Taken(t, 0) = 0
      /\ \A j \in 1 .. n + 1 : /\ Used(t)[j] = After(Used(t)[j - 1], t[j])
                               /\ Taken(t, j - 1) \in Int
                               /\ Taken(t, j) = Taken(t, j - 1) + HalfDays(t[j])
      /\ \A j \in 0 .. n + 1 : Used(t)[j] \in 0 .. 4
  BY <1>1, UsedSteps, TakenSteps
<1>5. \A x \in {"half", "full"} : HalfDays(x) \in {1, 2}
  BY DEF HalfDays
<1> DEFINE Before(j) == Used(t)[j] = Used(s)[j] /\ Taken(t, j) = Taken(s, j) /\ Taken(s, j) \in Int
           Behind(j) == /\ Used(t)[j + 1] <= Used(s)[j] + d
                        /\ Taken(t, j + 1) = Taken(s, j) + d /\ Taken(s, j) \in Int
           Good == {j \in Nat : IF j < i THEN Before(j)
                                ELSE (j = i => Before(j)) /\ (j <= n => Behind(j))}
<1>6. ASSUME Before(i) PROVE Behind(i)
  <2> DEFINE u == Used(s)[i]
  <2>0. i + 1 \in 1 .. n + 1 /\ (i + 1) - 1 = i
    BY <1>2
  <2>1. Used(t)[i + 1] = After(u, l) /\ Taken(t, i + 1) = Taken(t, i) + d
    BY <1>1, <1>4, <1>6, <2>0
  <2>2. u \in 0 .. 4
    BY <1>2, <1>3
  <2>3. After(u, l) <= u + d
    <3> HIDE DEF u
    <3> QED
      BY <1>2, <2>2 DEF After
  <2> QED
    BY <1>6, <2>1, <2>3
<1>7. 0 \in Good
  <2>1. Before(0)
    BY <1>3, <1>4
  <2> HIDE DEF Before, Behind
  <2> QED
    BY <1>2, <1>6, <2>1
<1>8. ASSUME NEW j \in 0 .. n - 1, j \in Good PROVE j + 1 \in Good
  <2>0. j + 1 \in 1 .. n /\ (j + 1) - 1 = j /\ j \in Nat
    BY <1>2
  <2>1. CASE j < i
    <3>1. Before(j) /\ t[j + 1] = s[j + 1] /\ j + 1 \in 1 .. n + 1
      BY <1>1, <1>2, <1>8, <2>1
    <3>2. Used(s)[j + 1] = After(Used(s)[j], s[j + 1]) /\ Taken(s, j + 1) = Taken(s, j) + HalfDays(s[j + 1])
      BY <1>3, <2>0
    <3>3. Used(t)[j + 1] = After(Used(t)[j], t[j + 1]) /\ Taken(t, j + 1) = Taken(t, j) + HalfDays(t[j + 1])
      BY <1>4, <2>0, <3>1
    <3>4. HalfDays(s[j + 1]) \in Int
      BY <1>5, <2>0
    <3>5. Before(j + 1)
      BY <3>1, <3>2, <3>3, <3>4
    <3> HIDE DEF Before, Behind
    <3> QED
      BY <1>2, <1>6, <2>0, <2>1, <3>5
  <2>2. CASE j >= i
    <3> DEFINE x == s[j + 1]
               u == Used(s)[j]
               v == Used(t)[j + 1]
    <3>1. Behind(j)
      BY <1>2, <1>8, <2>2
    <3>2. t[(j + 1) + 1] = x /\ x \in {"half", "full"}
      BY <1>1, <2>0, <2>2
    <3>3. Used(s)[j + 1] = After(u, x) /\ Taken(s, j + 1) = Taken(s, j) + HalfDays(x)
      BY <1>3, <2>0
    <3>4. (j + 1) + 1 \in 1 .. n + 1 /\ ((j + 1) + 1) - 1 = j + 1
      BY <2>0
    <3>5. Used(t)[(j + 1) + 1] = After(v, x) /\ Taken(t, (j + 1) + 1) = Taken(t, j + 1) + HalfDays(x)
      BY <1>4, <3>2, <3>4
    <3>6. u \in 0 .. 4 /\ v \in 0 .. 4 /\ v <= u + d /\ HalfDays(x) \in {1, 2}
      <4>1. j \in 0 .. n /\ j + 1 \in 0 .. n + 1
        BY <1>2
      <4>2. u \in 0 .. 4 /\ v \in 0 .. 4
        BY <1>3, <1>4, <4>1
      <4>3. v <= u + d
        BY <3>1
      <4> QED
        BY <1>5, <3>2, <4>2, <4>3
    <3>7. After(v, x) <= After(u, x) + d
      <4> HIDE DEF u, v, x, d
      <4> QED
        BY <1>2, <3>2, <3>6, AllowanceAfter
    <3>8. Behind(j + 1)
      BY <1>2, <3>1, <3>3, <3>5, <3>6, <3>7
    <3> HIDE DEF Before, Behind
    <3> QED
      BY <2>0, <2>2, <3>8
  <2> QED
    BY <1>2, <2>0, <2>1, <2>2
<1>9. n \in Good
  <2> HIDE DEF Good
  <2>1. 0 .. n \subseteq Good
    BY <1>2, <1>7, <1>8, UpTo
  <2>2. n \in 0 .. n
    BY <1>2
  <2> QED
    BY <2>1, <2>2
<1> QED
  BY <1>2, <1>9

\* One more leave never earns points, wherever it falls among the others.
LEMMA LeaveCosts ==
  ASSUME NEW s \in Seq({"half", "full"}), NEW i \in 0 .. Len(s), NEW l \in {"half", "full"}
  PROVE  LeavePoints(InsertAt(s, i + 1, l)) <= LeavePoints(s)
<1> DEFINE t == InsertAt(s, i + 1, l)
           n == Len(s)
           h == Charged(s, "half")
           f == Charged(s, "full")
           h2 == Charged(t, "half")
           f2 == Charged(t, "full")
<1>0. WithOne(t, s, i, l)
  BY Inserted, Zenon
<1>1. t \in Seq({"half", "full"}) /\ Len(t) = n + 1
  BY <1>0 DEF WithOne
<1>2. h \in Nat /\ f \in Nat /\ h2 \in Nat /\ f2 \in Nat
  <2> HIDE DEF t
  <2> QED
    BY <1>1, ChargedCount
<1>3. /\ Taken(t, n + 1) = Taken(s, n) + HalfDays(l)
      /\ Used(t)[n + 1] <= Used(s)[n] + HalfDays(l)
  <2> HIDE DEF t
  <2> QED
    BY <1>0, TakenWith
<1>4. Taken(s, n) = h + 2 * f + Used(s)[n]
  <2>1. DOMAIN s = 1 .. n
    OBVIOUS
  <2>2. \A x : ChargedTo(s, x, n) = {j \in DOMAIN s : s[j] = x /\ ~Waived(s, j)}
    BY <2>1 DEF ChargedTo
  <2> QED
    BY <2>2 DEF Taken, Charged
<1>5. Taken(t, n + 1) = h2 + 2 * f2 + Used(t)[n + 1]
  <2> HIDE DEF t
  <2>1. DOMAIN t = 1 .. n + 1
    BY <1>1
  <2> QED
    BY <2>1 DEF Taken, Charged, ChargedTo
<1>6. Used(s)[n] \in Int /\ Used(t)[n + 1] \in Int /\ HalfDays(l) \in Int
  <2>1. n \in 0 .. n /\ n + 1 \in 0 .. n + 1
    OBVIOUS
  <2> HIDE DEF t
  <2>2. Used(s)[n] \in 0 .. 4 /\ Used(t)[n + 1] \in 0 .. 4
    BY <1>1, <2>1, UsedSteps
  <2> QED
    BY <2>2 DEF HalfDays
<1>7. h2 + 2 * f2 >= h + 2 * f
  <2> HIDE DEF h, f, h2, f2, t
  <2> QED
    BY <1>2, <1>3, <1>4, <1>5, <1>6
<1>8. /\ LeavePoints(s) = IF 24 * h + 48 * f < 480 THEN 480 - (24 * h + 48 * f) ELSE 0
      /\ LeavePoints(t) = IF 24 * h2 + 48 * f2 < 480 THEN 480 - (24 * h2 + 48 * f2) ELSE 0
  BY DEF LeavePoints
<1> HIDE DEF h, f, h2, f2, t
<1> QED
  BY <1>2, <1>7, <1>8 DEF t

-----------------------------------------------------------------------------
(* More work, category by category *)

LEMMA CappedGrows ==
  ASSUME NEW r \in Int, NEW q \in Int, r <= q, NEW c \in Int
  PROVE  Capped(r, c) <= Capped(q, c)
BY DEF Capped

LEMMA PortionGrows ==
  ASSUME NEW n \in Int, NEW o \in Int, n <= o, NEW t \in Int, NEW c \in Nat
  PROVE  Portion(n, t, c) <= Portion(o, t, c)
<1> HIDE ScoreAssumption
<1> DEFINE a == n * c
           b == o * c
<1>1. CASE t <= 0 \/ o <= 0
  BY <1>1 DEF Portion
<1>2. CASE t > 0 /\ o > 0
  <2>1. a \in Int /\ b \in Int /\ b >= 0
    BY <1>2
  <2>2. Portion(o, t, c) = Capped(b \div t, c)
    BY <1>2 DEF Portion
  <2>3. CASE n <= 0
    <3>1. Portion(n, t, c) = 0
      BY <2>3 DEF Portion
    <3> DEFINE q == b \div t
    <3>2. q \in Int /\ q >= 0
      <4> HIDE DEF b
      <4>1. 0 \div t <= b \div t /\ b \div t \in Int
        BY <1>2, <2>1, QuotientOrder, Quotient
      <4>2. 0 \div t = 0
        BY <1>2
      <4> QED
        BY <4>1, <4>2
    <3> HIDE DEF q
    <3>3. Capped(q, c) >= 0
      BY <3>2 DEF Capped
    <3> QED
      BY <2>2, <3>1, <3>3 DEF q
  <2>4. CASE n > 0
    <3>1. Portion(n, t, c) = Capped(a \div t, c)
      BY <1>2, <2>4 DEF Portion
    <3>2. a <= b
      <4>1. c * n <= c * o
        BY TimesOrdered
      <4> QED
        BY <4>1
    <3> DEFINE p == a \div t
               q == b \div t
    <3>3. p \in Int /\ q \in Int /\ p <= q
      <4> HIDE DEF a, b
      <4> QED
        BY <1>2, <2>1, <3>2, QuotientOrder, Quotient
    <3> HIDE DEF p, q
    <3>4. Capped(p, c) <= Capped(q, c)
      BY <3>3, CappedGrows
    <3> QED
      BY <2>2, <3>1, <3>4 DEF p, q
  <2> QED
    BY <2>3, <2>4
<1> QED
  BY <1>1, <1>2

\* The counts o of a month are at least n.
AtLeast(o, n) == /\ n \in [Kind -> Nat] /\ o \in [Kind -> Nat]
                 /\ \A k \in Kind : n[k] <= o[k]

LEMMA PersonalGrows ==
  ASSUME NEW n, NEW o, AtLeast(o, n), NEW s \in Seq({"half", "full"})
  PROVE  Personal(n, s) <= Personal(o, s)
<1>1. /\ n["indoor"] \in Nat /\ o["indoor"] \in Nat /\ n["indoor"] <= o["indoor"]
      /\ n["outdoor"] \in Nat /\ o["outdoor"] \in Nat /\ n["outdoor"] <= o["outdoor"]
      /\ n["certificate"] \in Nat /\ o["certificate"] \in Nat /\ n["certificate"] <= o["certificate"]
      /\ n["coauthored"] \in Nat /\ o["coauthored"] \in Nat /\ n["coauthored"] <= o["coauthored"]
  BY DEF Kind, AtLeast
<1>2. MeetingMain(n) \in Int /\ MeetingMain(o) \in Int /\ MeetingMain(n) <= MeetingMain(o)
  <2> DEFINE a == 15 * n["indoor"]
             b == 15 * o["indoor"]
             c == 30 * n["outdoor"]
             e == 30 * o["outdoor"]
  <2>1. a \in Int /\ b \in Int /\ a <= b
    BY <1>1
  <2>4. c \in Int /\ e \in Int /\ c <= e
    BY <1>1
  <2>2. MeetingMain(n) = Capped(a, 210) + Capped(c, 210)
    BY DEF MeetingMain
  <2>3. MeetingMain(o) = Capped(b, 210) + Capped(e, 210)
    BY DEF MeetingMain
  <2> HIDE DEF a, b, c, e
  <2> QED
    BY <2>1, <2>4, <2>2, <2>3 DEF Capped
<1>3. /\ CertificationMain(n) \in Int /\ CertificationMain(o) \in Int
      /\ CertificationMain(n) <= CertificationMain(o)
  BY <1>1 DEF CertificationMain
<1>4. CoAuthorMain(n) \in Int /\ CoAuthorMain(o) \in Int /\ CoAuthorMain(n) <= CoAuthorMain(o)
  BY <1>1 DEF CoAuthorMain, Capped
<1> QED
  BY <1>2, <1>3, <1>4, LeaveTop DEF Personal

LEMMA EntriesGrow ==
  ASSUME NEW x, NEW n, NEW o, AtLeast(o, n)
  PROVE  /\ EntriesMain(x, n) \in Int /\ EntriesMain(x, o) \in Int
         /\ EntriesMain(x, n) <= EntriesMain(x, o)
<1>1. n["entry"] \in Nat /\ o["entry"] \in Nat /\ n["entry"] <= o["entry"]
  BY DEF Kind, AtLeast
<1> QED
  BY <1>1 DEF EntriesMain, Capped

LEMMA TasksGrow ==
  ASSUME NEW x, NEW n, NEW o, AtLeast(o, n)
  PROVE  /\ ChecklistMain(x, n) \in Int /\ ChecklistMain(x, o) \in Int
         /\ ChecklistMain(x, n) <= ChecklistMain(x, o)
         /\ CoreMain(x, n) \in Int /\ CoreMain(x, o) \in Int /\ CoreMain(x, n) <= CoreMain(x, o)
<1>0. n \in [Kind -> Nat] /\ o \in [Kind -> Nat]
  BY DEF AtLeast
<1>1. /\ n["checklist"] \in Nat /\ o["checklist"] \in Nat /\ n["checklist"] <= o["checklist"]
      /\ n["farm_task"] \in Nat /\ o["farm_task"] \in Nat /\ n["farm_task"] <= o["farm_task"]
  BY DEF Kind, AtLeast
<1>2. ChecklistMain(x, n) <= ChecklistMain(x, o)
  <2>1. ChecklistRate(x) \in {450, 600, 750, 1050}
    BY DEF ChecklistRate
  <2> DEFINE a == ChecklistRate(x) * n["checklist"]
             b == ChecklistRate(x) * o["checklist"]
             c == IF Special(x) THEN 3000 ELSE 4200
  <2>2. a \in Int /\ b \in Int /\ a <= b /\ c \in Int
    BY <1>1, <2>1
  <2>3. /\ ChecklistMain(x, n) = IF x.role = "Intern" THEN 0 ELSE Capped(a, c)
        /\ ChecklistMain(x, o) = IF x.role = "Intern" THEN 0 ELSE Capped(b, c)
    BY DEF ChecklistMain
  <2> HIDE DEF a, b, c
  <2> QED
    BY <2>2, <2>3, CappedGrows
<1>3. CoreMain(x, n) <= CoreMain(x, o)
  BY <1>1 DEF CoreMain, Capped
<1> QED
  BY <1>0, <1>2, <1>3, ChecklistTop, CoreTop

LEMMA OwnTasksGrow ==
  ASSUME NEW n, NEW o, AtLeast(o, n)
  PROVE  /\ InternTaskMain(n) \in Int /\ InternTaskMain(o) \in Int
         /\ InternTaskMain(n) <= InternTaskMain(o)
         /\ AdminTaskMain(n) \in Int /\ AdminTaskMain(o) \in Int
         /\ AdminTaskMain(n) <= AdminTaskMain(o)
<1>0. n \in [Kind -> Nat] /\ o \in [Kind -> Nat]
  BY DEF AtLeast
<1>1. /\ n["intern_task"] \in Nat /\ o["intern_task"] \in Nat /\ n["intern_task"] <= o["intern_task"]
      /\ n["ten_day"] \in Nat /\ o["ten_day"] \in Nat /\ n["ten_day"] <= o["ten_day"]
      /\ n["one_day"] \in Nat /\ o["one_day"] \in Nat /\ n["one_day"] <= o["one_day"]
  BY DEF Kind, AtLeast
<1>2. InternTaskMain(n) <= InternTaskMain(o)
  <2>1. 70 * 60 \in Nat /\ 21 \in Int
    OBVIOUS
  <2> DEFINE a == n["intern_task"]
             b == o["intern_task"]
  <2>3. a \in Int /\ b \in Int /\ a <= b
    BY <1>1
  <2> HIDE DEF a, b
  <2>2. \A c \in Nat : Portion(a, 21, c) <= Portion(b, 21, c)
    BY <2>1, <2>3, PortionGrows
  <2> USE DEF a, b
  <2> QED
    BY <2>1, <2>2 DEF InternTaskMain
<1>3. AdminTaskMain(n) <= AdminTaskMain(o)
  <2> DEFINE a == 10 * 60 * n["ten_day"]
             b == 10 * 60 * o["ten_day"]
             c == 60 * n["one_day"]
             e == 60 * o["one_day"]
             top == 30 * 60
             second == 20 * 60
  <2>1. a \in Int /\ b \in Int /\ a <= b /\ top \in Int /\ second \in Int
    BY <1>1
  <2>4. c \in Int /\ e \in Int /\ c <= e
    BY <1>1
  <2>2. AdminTaskMain(n) = Capped(a, top) + Capped(c, second)
    BY DEF AdminTaskMain
  <2>3. AdminTaskMain(o) = Capped(b, top) + Capped(e, second)
    BY DEF AdminTaskMain
  <2> HIDE DEF a, b, c, e, top, second
  <2> QED
    BY <2>1, <2>4, <2>2, <2>3 DEF Capped
<1> QED
  BY <1>0, <1>2, <1>3, InternTop, AdminTaskTop

LEMMA TargetedGrow ==
  ASSUME NEW n, NEW o, AtLeast(o, n), NEW t, Targets0(t)
  PROVE  /\ ClientProfileMain(n, t) <= ClientProfileMain(o, t)
         /\ CustomerPanelMain(n, t) <= CustomerPanelMain(o, t)
         /\ DmMain(n, t) <= DmMain(o, t)
         /\ PsMain(n, t) <= PsMain(o, t)
<1>1. \A f \in Field : n[f] \in Int /\ o[f] \in Int /\ n[f] <= o[f] /\ t[f] \in Int
  BY FieldKind DEF Targets0, AtLeast
<1>2. {"proposal", "profiles", "proforma", "panel", "media", "content", "quantity"} \subseteq Field
  BY DEF Field, MmrRgField, DmField
<1>3. \A f \in Field : \A c \in Nat :
        /\ Portion(n[f], t[f], c) \in Int /\ Portion(o[f], t[f], c) \in Int
        /\ Portion(n[f], t[f], c) <= Portion(o[f], t[f], c)
  BY <1>1, PortionTop, PortionGrows
<1>4. 10 * 60 \in Nat /\ 30 * 60 \in Nat /\ 40 * 60 \in Nat /\ 70 * 60 \in Nat
  OBVIOUS
<1> DEFINE low(f, c) == Portion(n[f], t[f], c)
           high(f, c) == Portion(o[f], t[f], c)
<1>5. \A f \in Field : \A c \in {10 * 60, 30 * 60, 40 * 60, 70 * 60} :
        low(f, c) \in Int /\ high(f, c) \in Int /\ low(f, c) <= high(f, c)
  BY <1>3, <1>4
<1>6. /\ ClientProfileMain(n, t)
           = low("proposal", 10 * 60) + low("profiles", 10 * 60) + low("proforma", 10 * 60)
      /\ ClientProfileMain(o, t)
           = high("proposal", 10 * 60) + high("profiles", 10 * 60) + high("proforma", 10 * 60)
  BY DEF ClientProfileMain
<1>7. /\ CustomerPanelMain(n, t) = low("panel", 40 * 60)
      /\ CustomerPanelMain(o, t) = high("panel", 40 * 60)
      /\ DmMain(n, t) = low("media", 40 * 60) + low("content", 30 * 60)
      /\ DmMain(o, t) = high("media", 40 * 60) + high("content", 30 * 60)
      /\ PsMain(n, t) = low("quantity", 70 * 60)
      /\ PsMain(o, t) = high("quantity", 70 * 60)
  BY DEF CustomerPanelMain, DmMain, PsMain
<1> HIDE DEF low, high
<1>8. \A f \in {"proposal", "profiles", "proforma"} :
        low(f, 10 * 60) \in Int /\ high(f, 10 * 60) \in Int /\ low(f, 10 * 60) <= high(f, 10 * 60)
  BY <1>2, <1>5
<1>9. ClientProfileMain(n, t) <= ClientProfileMain(o, t)
  BY <1>6, <1>8
<1>10. CustomerPanelMain(n, t) <= CustomerPanelMain(o, t)
  BY <1>2, <1>5, <1>7
<1>11. DmMain(n, t) <= DmMain(o, t)
  <2>1. /\ low("media", 40 * 60) \in Int /\ high("media", 40 * 60) \in Int
        /\ low("media", 40 * 60) <= high("media", 40 * 60)
    BY <1>2, <1>5
  <2>2. /\ low("content", 30 * 60) \in Int /\ high("content", 30 * 60) \in Int
        /\ low("content", 30 * 60) <= high("content", 30 * 60)
    BY <1>2, <1>5
  <2> QED
    BY <1>7, <2>1, <2>2
<1>12. PsMain(n, t) <= PsMain(o, t)
  BY <1>2, <1>5, <1>7
<1> QED
  BY <1>9, <1>10, <1>11, <1>12

LEMMA WorkGrows ==
  ASSUME NEW x, NEW n, NEW o, AtLeast(o, n), NEW t, Targets0(t), NEW a, Assets0(a)
  PROVE  Work(x, n, t, a) <= Work(x, o, t, a)
<1> DEFINE as == ScoringProfile(x)
<1>0. as \in {"hr", "admin", "mmr_rg", "dm", "ps", "intern", "core", "default"}
  BY ProfileCases
<1>n. n \in [Kind -> Nat] /\ o \in [Kind -> Nat]
  BY DEF AtLeast
<1>1. CASE as = "hr"
  BY <1>1 DEF Work
<1>2. CASE as = "admin"
  <2>1. AdminAssetMain(a) \in Int
    BY AssetTop DEF Assets0
  <2>2. /\ Work(x, n, t, a) = AdminTaskMain(n) + AdminAssetMain(a)
        /\ Work(x, o, t, a) = AdminTaskMain(o) + AdminAssetMain(a)
    BY <1>2 DEF Work
  <2> QED
    BY <2>1, <2>2, OwnTasksGrow
<1>3. CASE as = "mmr_rg"
  BY <1>3, <1>n, TargetedGrow, TargetedTop DEF Work
<1>4. CASE as = "dm"
  BY <1>4, TargetedGrow DEF Work
<1>5. CASE as = "ps"
  BY <1>5, TargetedGrow DEF Work
<1>6. CASE as = "intern"
  <2>1. /\ Work(x, n, t, a) = InternTaskMain(n) + EntriesMain(x, n)
        /\ Work(x, o, t, a) = InternTaskMain(o) + EntriesMain(x, o)
    BY <1>6 DEF Work
  <2> QED
    BY <2>1, OwnTasksGrow, EntriesGrow
<1>7. CASE as = "core"
  BY <1>7, TasksGrow, EntriesGrow DEF Work
<1>8. CASE as = "default"
  BY <1>8, TasksGrow, EntriesGrow DEF Work
<1> QED
  BY <1>0, <1>1, <1>2, <1>3, <1>4, <1>5, <1>6, <1>7, <1>8

-----------------------------------------------------------------------------
(* More work, and one leave more, in the points of a period *)

\* The counts of every row and of the rows a UTC month keeps are at least as high.
Grows(D, E, D2, E2) ==
  /\ \A e \in Person, k \in Kind, m \in Month : D[e][k][m] <= D2[e][k][m]
  /\ \A e \in Person, k \in UtcKind, m \in Month :
       E[e][k][m] <= E2[e][k][m] /\ D[e][k][m] - E[e][k][m] <= D2[e][k][m] - E2[e][k][m]

LEMMA WrittenGrows ==
  ASSUME NEW D, NEW E, NEW D2, NEW E2, NEW e, NEW k, NEW m, NEW n, NEW isEarly \in BOOLEAN,
         CountsOK(D, E), Written(D, E, D2, E2, e, k, m, n, isEarly), n >= 0
  PROVE  Grows(D, E, D2, E2)
<1>0. Grid(Kind, D) /\ Grid(UtcKind, E) /\ UtcKind \subseteq Kind
  BY FieldKind DEF CountsOK, Grid
<1>1. Cell(Kind, D, D2, e, k, m, n) /\ n \in Int
  BY DEF Written, Cell
<1>2. \A f \in Person, j \in Kind, o \in Month :
        D2[f][j][o] = IF f = e /\ j = k /\ o = m THEN D[f][j][o] + n ELSE D[f][j][o]
  BY <1>0, <1>1, EntryWritten
<1>3. /\ \A f \in Person, j \in Kind, o \in Month : D[f][j][o] \in Nat
      /\ \A f \in Person, j \in UtcKind, o \in Month : E[f][j][o] \in Nat
  BY <1>0 DEF CountsOK
<1>4. \A f \in Person, j \in UtcKind, o \in Month :
        E2[f][j][o] = IF isEarly /\ f = e /\ j = k /\ o = m THEN E[f][j][o] + n ELSE E[f][j][o]
  <2>1. CASE isEarly
    <3>1. Cell(UtcKind, E, E2, e, k, m, n)
      BY <2>1 DEF Written, Cell
    <3> QED
      BY <1>0, <2>1, <3>1, EntryWritten
  <2>2. CASE ~isEarly
    <3>1. E2 = E
      BY <2>2 DEF Written
    <3> QED
      BY <1>0, <2>2, <3>1
  <2> QED
    BY <2>1, <2>2
<1>5. ASSUME NEW f \in Person, NEW j \in Kind, NEW o \in Month
      PROVE  D[f][j][o] <= D2[f][j][o]
  BY <1>1, <1>2, <1>3
<1>6. ASSUME NEW f \in Person, NEW j \in UtcKind, NEW o \in Month
      PROVE  E[f][j][o] <= E2[f][j][o] /\ D[f][j][o] - E[f][j][o] <= D2[f][j][o] - E2[f][j][o]
  <2>1. D2[f][j][o] = IF f = e /\ j = k /\ o = m THEN D[f][j][o] + n ELSE D[f][j][o]
    BY <1>0, <1>2
  <2>2. E2[f][j][o] = IF isEarly /\ f = e /\ j = k /\ o = m THEN E[f][j][o] + n ELSE E[f][j][o]
    BY <1>4
  <2> DEFINE d == D[f][j][o]
             x == E[f][j][o]
             d2 == D2[f][j][o]
             x2 == E2[f][j][o]
  <2>3. d \in Nat /\ x \in Nat /\ n \in Int
    BY <1>0, <1>1, <1>3
  <2>4. \/ d2 = d + n /\ x2 = x + n
        \/ d2 = d + n /\ x2 = x
        \/ d2 = d /\ x2 = x
    BY <2>1, <2>2
  <2> HIDE DEF d, x, d2, x2
  <2>5. x <= x2 /\ d - x <= d2 - x2
    BY <2>3, <2>4
  <2> QED
    BY <2>5 DEF d, x, d2, x2
<1> QED
  BY <1>5, <1>6 DEF Grows

\* A step after which no count is lower wrote rows, and took none off.
LEMMA StepGrows ==
  ASSUME ScoreTypeOK, [ScoreNext]_scoreVars, Grown
  PROVE  Grows(done, early, done', early')
<1>c. CountsOK(done, early)
  BY DEF ScoreTypeOK, CountsOK
<1>t. /\ done \in [Person -> [Kind -> [Month -> Nat]]]
      /\ early \in [Person -> [UtcKind -> [Month -> Nat]]]
      /\ \A e \in Person, k \in UtcKind, m \in Month : early[e][k][m] <= done[e][k][m]
  BY DEF ScoreTypeOK
<1>g. /\ ~(done' = done /\ early' = early)
      /\ \A e \in Person, k \in Kind, m \in Month : done'[e][k][m] >= done[e][k][m]
  BY DEF Grown
<1>1. ASSUME NEW e \in Person, NEW m \in Month, NEW k \in Kind, NEW n \in Nat,
             NEW b \in BOOLEAN, b => k \in UtcKind,
             done' = [done EXCEPT ![e][k][m] = @ + n],
             early' = IF b THEN [early EXCEPT ![e][k][m] = @ + n] ELSE early
      PROVE  Grows(done, early, done', early')
  <2>1. /\ done[e][k][m] \in Nat
        /\ k \in UtcKind => early[e][k][m] \in Nat /\ early[e][k][m] <= done[e][k][m]
    BY <1>t
  <2>2. Written(done, early, done', early', e, k, m, n, b)
    BY <1>1, <2>1 DEF Written
  <2>3. n >= 0
    OBVIOUS
  <2> QED
    BY <1>c, <2>2, <2>3, WrittenGrows
<1>2. ASSUME NEW e \in Person, NEW m \in Month, NEW k \in Kind, NEW b \in BOOLEAN,
             RejectDm(e, k, m, b)
      PROVE  FALSE
  <2>1. done' = [done EXCEPT ![e][k][m] = @ - 1] /\ done[e][k][m] \in Nat
    BY <1>2, <1>t DEF RejectDm
  <2>2. done'[e][k][m] = done[e][k][m] - 1
    BY <1>t, <2>1
  <2> QED
    BY <1>g, <2>1, <2>2
<1>3. ASSUME NEW e \in Person, NEW m \in Month, About(e, m)
      PROVE  Grows(done, early, done', early')
  <2>1. ASSUME NEW k \in Kind, NEW n \in Steps, NEW b \in BOOLEAN, Record(e, k, m, n, b)
        PROVE  Grows(done, early, done', early')
    <3>1. /\ n \in Nat
          /\ b => k \in UtcKind
          /\ done' = [done EXCEPT ![e][k][m] = @ + n]
          /\ early' = IF b THEN [early EXCEPT ![e][k][m] = @ + n] ELSE early
      BY <2>1 DEF Record
    <3> QED
      BY <1>1, <3>1
  <2>2. ASSUME NEW k \in Kind, NEW b \in BOOLEAN, ApproveDm(e, k, m, b)
        PROVE  Grows(done, early, done', early')
    <3>1. /\ 1 \in Nat
          /\ b => k \in UtcKind
          /\ done' = [done EXCEPT ![e][k][m] = @ + 1]
          /\ early' = IF b THEN [early EXCEPT ![e][k][m] = @ + 1] ELSE early
      BY <2>2, FieldKind DEF ApproveDm
    <3> QED
      BY <1>1, <3>1
  <2>3. CASE \E l \in {"half", "full"}, i \in 0 .. Len(leaves[e][m]) : ApproveLeave(e, m, l, i)
    BY <1>g, <2>3 DEF ApproveLeave
  <2>4. CASE \E f \in Field, v \in Targets \cup {None}, put \in BOOLEAN : SetOne(e, m, f, v, put)
    BY <1>g, <2>4 DEF SetOne, SetMmrRgTargets, SetDmTargets, SetPsTarget, WriteTargets
  <2>5. CASE ResetTargets(e, {m})
    BY <1>g, <2>5 DEF ResetTargets
  <2> QED
    BY <1>2, <1>3, <2>1, <2>2, <2>3, <2>4, <2>5 DEF About
<1>4. CASE \E e \in Person, p \in Periods :
             p.to - p.from = 11 /\ ResetTargets(e, MonthsInPeriod(p))
  BY <1>g, <1>4 DEF ResetTargets
<1>5. CASE \E a \in [total : 0 .. 2, bad : 0 .. 2] : ChangeAssets(a)
  BY <1>g, <1>5 DEF ChangeAssets
<1>6. CASE UNCHANGED scoreVars
  BY <1>g, <1>6 DEF scoreVars
<1> QED
  BY <1>3, <1>4, <1>5, <1>6 DEF ScoreNext

\* What a query files under a month.
LEMMA FiledGrows ==
  ASSUME ScoreTypeOK, ScoreTypeOK', Grows(done, early, done', early'),
         NEW e \in Person, NEW k \in Kind, NEW p, NEW m \in Int
  PROVE  Filed(e, k, p, m) <= Filed(e, k, p, m)'
<1>1. \A o \in Int : /\ InMonth(done[e][k], o) \in Nat /\ InMonth(done'[e][k], o) \in Nat
                     /\ InMonth(done[e][k], o) <= InMonth(done'[e][k], o)
  BY DEF ScoreTypeOK, InMonth, Grows
<1>2. CASE k \notin UtcKind
  <2>1. Filed(e, k, p, m) = InMonth(done[e][k], m) /\ Filed(e, k, p, m)' = InMonth(done'[e][k], m)
    BY <1>2 DEF Filed
  <2> QED
    BY <1>1, <2>1
<1>3. CASE k \in UtcKind
  <2>1. \A o \in Int :
          /\ InMonth(early[e][k], o) \in Nat /\ InMonth(early'[e][k], o) \in Nat
          /\ InMonth(early[e][k], o) <= InMonth(early'[e][k], o)
          /\ InMonth(done[e][k], o) - InMonth(early[e][k], o)
               <= InMonth(done'[e][k], o) - InMonth(early'[e][k], o)
    BY <1>3 DEF ScoreTypeOK, InMonth, Grows
  <2> DEFINE d == InMonth(done[e][k], m)
             x == InMonth(early[e][k], m)
             y == InMonth(early[e][k], m + 1)
             d2 == InMonth(done'[e][k], m)
             x2 == InMonth(early'[e][k], m)
             y2 == InMonth(early'[e][k], m + 1)
  <2>2. m + 1 \in Int
    OBVIOUS
  <2>3. /\ d \in Nat /\ x \in Nat /\ d2 \in Nat /\ x2 \in Nat /\ d - x <= d2 - x2
        /\ y \in Nat /\ y2 \in Nat /\ y <= y2
    BY <1>1, <2>1, <2>2
  <2>4. Filed(e, k, p, m) = d - x + (IF m + 1 \in MonthsInPeriod(p) THEN y ELSE 0)
    BY <1>3 DEF Filed
  <2>5. Filed(e, k, p, m)' = d2 - x2 + (IF m + 1 \in MonthsInPeriod(p) THEN y2 ELSE 0)
    BY <1>3 DEF Filed
  <2> HIDE DEF d, x, y, d2, x2, y2
  <2> QED
    BY <2>3, <2>4, <2>5
<1> QED
  BY <1>2, <1>3

\* What a month's points are made of, in every state.
MonthsWhole ==
  /\ \A e \in Person, p \in Asked, m \in Int :
       /\ Counts(e, p, m) \in [Kind -> Nat]
       /\ LeavesIn(e, m) \in Seq({"half", "full"})
       /\ Targets0(TargetsOf(e, m))
       /\ PersonalMain(e, p, m) \in Int /\ WorkMain(e, p, m) \in Int
       /\ MonthMain(e, p, m) = PersonalMain(e, p, m) + WorkMain(e, p, m)
  /\ Assets0(assets)
  /\ IsFiniteSet(Pool) /\ Pool \subseteq Person /\ Cardinality(Pool) \in Nat

LEMMA AlwaysWhole == ScoreTypeOK => MonthsWhole
<1> SUFFICES ASSUME ScoreTypeOK PROVE MonthsWhole
  OBVIOUS
<1>1. ASSUME NEW e \in Person, NEW p \in Asked, NEW m \in Int
      PROVE  /\ Counts(e, p, m) \in [Kind -> Nat]
             /\ LeavesIn(e, m) \in Seq({"half", "full"})
             /\ Targets0(TargetsOf(e, m))
             /\ PersonalMain(e, p, m) \in Int /\ WorkMain(e, p, m) \in Int
             /\ MonthMain(e, p, m) = PersonalMain(e, p, m) + WorkMain(e, p, m)
  <2>1. Counts(e, p, m) \in [Kind -> Nat]
    BY FiledType DEF Counts
  <2>2. LeavesIn(e, m) \in Seq({"half", "full"})
    BY DEF LeavesIn, ScoreTypeOK
  <2>3. \A f \in Field : Default[f] \in Nat \ {0}
    BY DEF Default, Field, MmrRgField, DmField
  <2>4. \A f \in Field : EffectiveTarget(e, f, m) \in Nat \ {0}
    BY <2>3 DEF EffectiveTarget, ScoreTypeOK
  <2>5. Targets0(TargetsOf(e, m))
    BY <2>4 DEF Targets0, TargetsOf
  <2> QED
    BY <2>1, <2>2, <2>5, MonthParts
<1>2. Assets0(assets)
  BY DEF ScoreTypeOK, Assets0
<1> QED
  BY <1>1, <1>2, PoolFinite DEF MonthsWhole

LEMMA AskedMonths ==
  ASSUME NEW p \in Asked
  PROVE  /\ IsFiniteSet(MonthsInPeriod(p)) /\ MonthsInPeriod(p) \subseteq Int
         /\ p.to - p.from + 1 \in Int
<1>1. CASE p \in Periods
  BY <1>1, PeriodMonths
<1>2. CASE p \notin Periods
  <2>1. PICK m \in Month : p = MonthOf(m)
    BY <1>2 DEF Asked
  <2>2. m \in Int
    OBVIOUS
  <2>3. MonthsInPeriod(p) = {m} /\ p.to - p.from + 1 = 1
    BY <2>1, <2>2, OneMonth
  <2>4. IsFiniteSet({m})
    BY FS_Singleton
  <2> QED
    BY <2>2, <2>3, <2>4
<1> QED
  BY <1>1, <1>2

\* The points of the months M of a period of k months, month by month F, with the
\* organisation's share of an HR employee from the work W of the employees P.
PointsOf(M, F, P, W, hr, k) ==
  SumFunctionOnSet(F, M)
    + IF hr THEN OrgShare(SumFunctionOnSet(W, P), Cardinality(P), k) ELSE 0

LEMMA OrgShareGrows ==
  ASSUME NEW x \in Int, NEW y \in Int, x <= y, NEW n \in Nat, NEW k \in Int
  PROVE  /\ OrgShare(x, n, k) \in Int /\ OrgShare(y, n, k) \in Int
         /\ OrgShare(x, n, k) <= OrgShare(y, n, k)
<1> HIDE ScoreAssumption
<1>1. CASE n = 0
  BY <1>1 DEF OrgShare
<1>2. CASE n > 0
  <2> DEFINE p == x \div n
             q == y \div n
             c == 70 * 60 * k
  <2>1. p \in Int /\ q \in Int /\ p <= q
    BY <1>2, QuotientOrder, Quotient
  <2>2. c \in Int
    OBVIOUS
  <2>3. OrgShare(x, n, k) = Capped(p, c) /\ OrgShare(y, n, k) = Capped(q, c)
    BY <1>2 DEF OrgShare
  <2> HIDE DEF p, q, c
  <2> QED
    BY <2>1, <2>2, <2>3 DEF Capped
<1> QED
  BY <1>1, <1>2

LEMMA PointsGrow ==
  ASSUME NEW M, IsFiniteSet(M), NEW P, IsFiniteSet(P), Cardinality(P) \in Nat, NEW k \in Int,
         NEW F, NEW G, \A m \in M : F[m] \in Int /\ G[m] \in Int /\ F[m] <= G[m],
         NEW V, NEW W, \A e \in P : V[e] \in Int /\ W[e] \in Int /\ V[e] <= W[e],
         NEW hr
  PROVE  PointsOf(M, F, P, V, hr, k) <= PointsOf(M, G, P, W, hr, k)
<1> HIDE ScoreAssumption DEF Point
<1> DEFINE a == SumFunctionOnSet(F, M)
           b == SumFunctionOnSet(G, M)
           c == SumFunctionOnSet(V, P)
           d == SumFunctionOnSet(W, P)
           n == Cardinality(P)
<1>1. a <= b
  BY SumOrder
<1>2. a \in Int /\ b \in Int
  BY SumInt
<1>3. c <= d
  BY SumOrder
<1>4. c \in Int /\ d \in Int
  BY SumInt
<1>5. n \in Nat
  OBVIOUS
<1> HIDE DEF a, b, c, d, n
<1> DEFINE x == OrgShare(c, n, k)
           y == OrgShare(d, n, k)
<1>6. x \in Int /\ y \in Int /\ x <= y
  BY <1>3, <1>4, <1>5, OrgShareGrows
<1>7. /\ PointsOf(M, F, P, V, hr, k) = a + (IF hr THEN x ELSE 0)
      /\ PointsOf(M, G, P, W, hr, k) = b + (IF hr THEN y ELSE 0)
  BY DEF PointsOf, a, b, c, d, n
<1> HIDE DEF x, y
<1> QED
  BY <1>1, <1>2, <1>6, <1>7

\* The points of a period, of one employee.
MonthRow(e, p) == [m \in MonthsInPeriod(p) |-> MonthMain(e, p, m)]
WorkRow(e, p) == [m \in MonthsInPeriod(p) |-> WorkMain(e, p, m)]
WorkRows(p) == [e \in Pool |-> Total(WorkRow(e, p))]

LEMMA CombinedPoints ==
  ASSUME NEW e, NEW p
  PROVE  Combined(e, p) = PointsOf(MonthsInPeriod(p), MonthRow(e, p), Pool, WorkRows(p),
                                   profile[e].role = "HR", p.to - p.from + 1)
<1>1. Total(MonthRow(e, p)) = SumFunctionOnSet(MonthRow(e, p), MonthsInPeriod(p))
  BY DEF Total, SumFunction, MonthRow
<1>2. OrgWork(p) = SumFunctionOnSet(WorkRows(p), Pool)
  BY DEF OrgWork, SumFunction, WorkRows, WorkRow
<1> QED
  BY <1>1, <1>2 DEF Combined, PointsOf, MonthRow

\* The same of every employee and period, as a formula of the state.
AllPoints ==
  \A e \in Person, p \in Asked :
    Combined(e, p) = PointsOf(MonthsInPeriod(p), MonthRow(e, p), Pool, WorkRows(p),
                              profile[e].role = "HR", p.to - p.from + 1)

LEMMA AlwaysPoints == AllPoints
BY CombinedPoints DEF AllPoints

\* When no month's points and no work of the pool falls, the period's do not; when none
\* rises, they do not rise.
LEMMA PeriodFollows ==
  ASSUME MonthsWhole, MonthsWhole', profile' = profile, NEW e \in Person, NEW p \in Asked
  PROVE  /\ (\A f \in Person, m \in MonthsInPeriod(p) :
               /\ MonthMain(f, p, m) <= MonthMain(f, p, m)'
               /\ WorkMain(f, p, m) <= WorkMain(f, p, m)')
              => Combined(e, p) <= Combined(e, p)'
         /\ (\A f \in Person, m \in MonthsInPeriod(p) :
               /\ MonthMain(f, p, m)' <= MonthMain(f, p, m)
               /\ WorkMain(f, p, m)' <= WorkMain(f, p, m))
              => Combined(e, p)' <= Combined(e, p)
<1> DEFINE M == MonthsInPeriod(p)
           k == p.to - p.from + 1
           hr == profile[e].role = "HR"
           P == Pool
           F == MonthRow(e, p)
           G == MonthRow(e, p)'
           V == WorkRows(p)
           W == WorkRows(p)'
           v(f) == WorkRow(f, p)
           w(f) == WorkRow(f, p)'
<1>1. IsFiniteSet(M) /\ M \subseteq Int /\ k \in Int
  BY AskedMonths
<1>2. IsFiniteSet(P) /\ Cardinality(P) \in Nat /\ P \subseteq Person
  BY DEF MonthsWhole
<1>3. Pool' = P
  BY DEF Pool
<1>4. ASSUME NEW f \in Person, NEW m \in M
      PROVE  /\ MonthMain(f, p, m) \in Int /\ MonthMain(f, p, m)' \in Int
             /\ WorkMain(f, p, m) \in Int /\ WorkMain(f, p, m)' \in Int
  <2>1. m \in Int
    BY <1>1
  <2>2. /\ PersonalMain(f, p, m) \in Int /\ WorkMain(f, p, m) \in Int
        /\ MonthMain(f, p, m) = PersonalMain(f, p, m) + WorkMain(f, p, m)
    BY <2>1 DEF MonthsWhole
  <2>3. /\ PersonalMain(f, p, m)' \in Int /\ WorkMain(f, p, m)' \in Int
        /\ MonthMain(f, p, m)' = PersonalMain(f, p, m)' + WorkMain(f, p, m)'
    BY <2>1 DEF MonthsWhole
  <2> QED
    BY <2>2, <2>3
<1>5. \A m \in M : F[m] = MonthMain(e, p, m) /\ G[m] = MonthMain(e, p, m)'
  BY DEF MonthRow
<1>6. \A f \in P, m \in M : v(f)[m] = WorkMain(f, p, m) /\ w(f)[m] = WorkMain(f, p, m)'
  BY DEF WorkRow
<1>7. \A f \in P : V[f] = SumFunctionOnSet(v(f), M)
  BY DEF WorkRows, WorkRow, Total, SumFunction
<1>8. \A f \in P : W[f] = SumFunctionOnSet(w(f), M)
  BY <1>3 DEF WorkRows, WorkRow, Total, SumFunction
<1>9. Combined(e, p) = PointsOf(M, F, P, V, hr, k)
  BY CombinedPoints
<1>10. Combined(e, p)' = PointsOf(M, G, P, W, hr, k)
  <2>1. AllPoints'
    BY AlwaysPoints, PTL
  <2>2. Combined(e, p)' = PointsOf(M, G, Pool', W, profile'[e].role = "HR", k)
    BY <2>1 DEF AllPoints
  <2> QED
    BY <1>3, <2>2
<1>11. \A m \in M : F[m] \in Int /\ G[m] \in Int
  BY <1>4, <1>5
<1>12. \A f \in P, m \in M : v(f)[m] \in Int /\ w(f)[m] \in Int
  BY <1>2, <1>4, <1>6
<1>13. ASSUME NEW f \in P PROVE V[f] \in Int /\ W[f] \in Int
  <2> DEFINE a == v(f)
             b == w(f)
  <2>1. \A m \in M : a[m] \in Int /\ b[m] \in Int
    BY <1>12
  <2>2. V[f] = SumFunctionOnSet(a, M) /\ W[f] = SumFunctionOnSet(b, M)
    BY <1>7, <1>8
  <2> HIDE DEF a, b, M, V, W
  <2> HIDE ScoreAssumption DEF Point
  <2>3. SumFunctionOnSet(a, M) \in Int /\ SumFunctionOnSet(b, M) \in Int
    BY <1>1, <2>1, SumInt
  <2> QED
    BY <2>2, <2>3
<1>14. ASSUME \A f \in Person, m \in M : /\ MonthMain(f, p, m) <= MonthMain(f, p, m)'
                                         /\ WorkMain(f, p, m) <= WorkMain(f, p, m)'
       PROVE  Combined(e, p) <= Combined(e, p)'
  <2>1. \A m \in M : F[m] <= G[m]
    BY <1>5, <1>14
  <2>2. ASSUME NEW f \in P PROVE V[f] <= W[f]
    <3> DEFINE a == v(f)
               b == w(f)
    <3>1. \A m \in M : a[m] \in Int /\ b[m] \in Int /\ a[m] <= b[m]
      BY <1>2, <1>6, <1>12, <1>14
    <3>2. V[f] = SumFunctionOnSet(a, M) /\ W[f] = SumFunctionOnSet(b, M)
      BY <1>7, <1>8
    <3> HIDE DEF a, b, M, V, W
    <3> HIDE ScoreAssumption DEF Point
    <3>3. SumFunctionOnSet(a, M) <= SumFunctionOnSet(b, M)
      BY <1>1, <3>1, SumOrder
    <3> QED
      BY <3>2, <3>3
  <2> HIDE DEF M, k, hr, P, F, G, V, W
  <2>3. PointsOf(M, F, P, V, hr, k) <= PointsOf(M, G, P, W, hr, k)
    BY <1>1, <1>2, <1>11, <1>13, <2>1, <2>2, PointsGrow
  <2> QED
    BY <1>9, <1>10, <2>3
<1>15. ASSUME \A f \in Person, m \in M : /\ MonthMain(f, p, m)' <= MonthMain(f, p, m)
                                         /\ WorkMain(f, p, m)' <= WorkMain(f, p, m)
       PROVE  Combined(e, p)' <= Combined(e, p)
  <2>1. \A m \in M : G[m] <= F[m]
    BY <1>5, <1>15
  <2>2. ASSUME NEW f \in P PROVE W[f] <= V[f]
    <3> DEFINE a == v(f)
               b == w(f)
    <3>1. \A m \in M : a[m] \in Int /\ b[m] \in Int /\ b[m] <= a[m]
      BY <1>2, <1>6, <1>12, <1>15
    <3>2. V[f] = SumFunctionOnSet(a, M) /\ W[f] = SumFunctionOnSet(b, M)
      BY <1>7, <1>8
    <3> HIDE DEF a, b, M, V, W
    <3> HIDE ScoreAssumption DEF Point
    <3>3. SumFunctionOnSet(b, M) <= SumFunctionOnSet(a, M)
      BY <1>1, <3>1, SumOrder
    <3> QED
      BY <3>2, <3>3
  <2> HIDE DEF M, k, hr, P, F, G, V, W
  <2>3. PointsOf(M, G, P, W, hr, k) <= PointsOf(M, F, P, V, hr, k)
    BY <1>1, <1>2, <1>11, <1>13, <2>1, <2>2, PointsGrow
  <2> QED
    BY <1>9, <1>10, <2>3
<1> QED
  BY <1>14, <1>15

\* More rows: each month's personal points and its work.
LEMMA MonthGrows ==
  ASSUME ScoreTypeOK, ScoreTypeOK', MonthsWhole, MonthsWhole', Grows(done, early, done', early'),
         UNCHANGED <<profile, leaves, target, assets>>,
         NEW e \in Person, NEW p \in Asked, NEW m \in Int
  PROVE  /\ MonthMain(e, p, m) <= MonthMain(e, p, m)'
         /\ WorkMain(e, p, m) <= WorkMain(e, p, m)'
<1> DEFINE n == Counts(e, p, m)
           o == Counts(e, p, m)'
           s == LeavesIn(e, m)
           t == TargetsOf(e, m)
           x == profile[e]
           a == assets
<1>1. /\ n \in [Kind -> Nat] /\ s \in Seq({"half", "full"}) /\ Targets0(t) /\ Assets0(a)
      /\ PersonalMain(e, p, m) \in Int /\ WorkMain(e, p, m) \in Int
      /\ MonthMain(e, p, m) = PersonalMain(e, p, m) + WorkMain(e, p, m)
  BY DEF MonthsWhole
<1>2. /\ o \in [Kind -> Nat]
      /\ PersonalMain(e, p, m)' \in Int /\ WorkMain(e, p, m)' \in Int
      /\ MonthMain(e, p, m)' = PersonalMain(e, p, m)' + WorkMain(e, p, m)'
  BY DEF MonthsWhole
<1>3. ASSUME NEW j \in Kind PROVE n[j] <= o[j]
  <2>1. n[j] = Filed(e, j, p, m) /\ o[j] = Filed(e, j, p, m)'
    BY DEF Counts
  <2> QED
    BY <2>1, FiledGrows
<1>4. AtLeast(o, n)
  BY <1>1, <1>2, <1>3 DEF AtLeast
<1>5. LeavesIn(e, m)' = s
  BY DEF LeavesIn
<1>6. TargetsOf(e, m)' = t
  BY DEF TargetsOf, EffectiveTarget
<1>7. PersonalMain(e, p, m) = Personal(n, s) /\ PersonalMain(e, p, m)' = Personal(o, s)
  BY <1>5 DEF PersonalMain
<1>8. WorkMain(e, p, m) = Work(x, n, t, a) /\ WorkMain(e, p, m)' = Work(x, o, t, a)
  BY <1>6 DEF WorkMain
<1> HIDE DEF n, o, s, t, x, a
<1>9. Personal(n, s) <= Personal(o, s)
  BY <1>1, <1>4, PersonalGrows
<1>10. Work(x, n, t, a) <= Work(x, o, t, a)
  BY <1>1, <1>4, WorkGrows
<1> QED
  BY <1>1, <1>2, <1>7, <1>8, <1>9, <1>10

\* One leave more: the month it starts in, for its employee, and nothing else.
LEMMA MonthFalls ==
  ASSUME ScoreTypeOK, MonthsWhole, MonthsWhole',
         UNCHANGED <<profile, done, early, target, assets>>,
         NEW g \in Person, NEW r \in Month, NEW l \in {"half", "full"},
         NEW i \in 0 .. Len(leaves[g][r]),
         leaves' = [leaves EXCEPT ![g][r] = InsertAt(@, i + 1, l)],
         NEW e \in Person, NEW p \in Asked, NEW m \in Int
  PROVE  /\ MonthMain(e, p, m)' <= MonthMain(e, p, m)
         /\ WorkMain(e, p, m)' <= WorkMain(e, p, m)
<1> DEFINE n == Counts(e, p, m)
           s == LeavesIn(e, m)
           u == LeavesIn(e, m)'
<1>1. /\ n \in [Kind -> Nat] /\ s \in Seq({"half", "full"})
      /\ PersonalMain(e, p, m) \in Int /\ WorkMain(e, p, m) \in Int
      /\ MonthMain(e, p, m) = PersonalMain(e, p, m) + WorkMain(e, p, m)
  BY DEF MonthsWhole
<1>2. /\ u \in Seq({"half", "full"})
      /\ PersonalMain(e, p, m)' \in Int /\ WorkMain(e, p, m)' \in Int
      /\ MonthMain(e, p, m)' = PersonalMain(e, p, m)' + WorkMain(e, p, m)'
  BY DEF MonthsWhole
<1>3. Counts(e, p, m)' = n
  BY DEF Counts, Filed
<1>4. WorkMain(e, p, m)' = WorkMain(e, p, m)
  BY <1>3 DEF WorkMain, TargetsOf, EffectiveTarget
<1>5. LeavePoints(u) <= LeavePoints(s)
  <2>1. leaves \in [Person -> [Month -> Seq({"half", "full"})]]
    BY DEF ScoreTypeOK
  <2>2. CASE e = g /\ m = r
    <3>1. s = leaves[g][r] /\ u = leaves'[g][r]
      BY <2>2 DEF LeavesIn
    <3>2. leaves'[g][r] = InsertAt(leaves[g][r], i + 1, l)
      BY <2>1
    <3> QED
      BY <2>1, <3>1, <3>2, LeaveCosts
  <2>3. CASE ~(e = g /\ m = r)
    <3>1. m \in Month => leaves'[e][m] = leaves[e][m]
      BY <2>1, <2>3
    <3>2. u = s
      BY <3>1 DEF LeavesIn
    <3>3. LeavePoints(s) \in Int
      BY <1>1, LeaveTop
    <3> QED
      BY <3>2, <3>3
  <2> QED
    BY <2>2, <2>3
<1>6. PersonalMain(e, p, m) = Personal(n, s) /\ PersonalMain(e, p, m)' = Personal(n, u)
  BY <1>3 DEF PersonalMain
<1> HIDE DEF n, s, u
<1>7. LeavePoints(s) \in Int /\ LeavePoints(u) \in Int
  BY <1>1, <1>2, LeaveTop
<1> DEFINE rest == MeetingMain(n) + CertificationMain(n) + CoAuthorMain(n)
<1>8. Personal(n, u) <= Personal(n, s)
  <2>1. n["indoor"] \in Nat /\ n["outdoor"] \in Nat /\ n["certificate"] \in Nat
        /\ n["coauthored"] \in Nat
    BY <1>1 DEF Kind
  <2>2. MeetingMain(n) \in Int
    <3>1. 15 * n["indoor"] \in Int /\ 30 * n["outdoor"] \in Int /\ 210 \in Int
      BY <2>1
    <3>2. Capped(15 * n["indoor"], 210) \in Int /\ Capped(30 * n["outdoor"], 210) \in Int
      BY <3>1, CappedTop
    <3> QED
      BY <3>2 DEF MeetingMain
  <2>3. CertificationMain(n) \in Int
    BY <2>1 DEF CertificationMain
  <2>4. CoAuthorMain(n) \in Int
    BY <2>1 DEF CoAuthorMain, Capped
  <2> QED
    BY <1>5, <1>7, <2>2, <2>3, <2>4 DEF Personal
<1> QED
  BY <1>1, <1>2, <1>4, <1>6, <1>8

\* The only action that changes a leave adds one.
LEMMA LeaveStep ==
  ASSUME [ScoreNext]_scoreVars, leaves' # leaves
  PROVE  \E g \in Person, r \in Month, l \in {"half", "full"} :
           \E i \in 0 .. Len(leaves[g][r]) :
             leaves' = [leaves EXCEPT ![g][r] = InsertAt(@, i + 1, l)]
<1>1. ASSUME NEW e \in Person, NEW m \in Month, About(e, m)
      PROVE  \E l \in {"half", "full"}, i \in 0 .. Len(leaves[e][m]) : ApproveLeave(e, m, l, i)
  BY <1>1 DEF About, Record, ApproveDm, RejectDm, SetOne, SetMmrRgTargets, SetDmTargets,
              SetPsTarget, WriteTargets, ResetTargets
<1>2. \E e \in Person, m \in Month : About(e, m)
  BY DEF ScoreNext, ResetTargets, ChangeAssets, scoreVars
<1> QED
  BY <1>1, <1>2 DEF ApproveLeave

LEMMA MoreStep ==
  ScoreTypeOK /\ ScoreTypeOK' /\ [ScoreNext]_scoreVars
    => [\A e \in Person, p \in Asked :
          /\ Grown => Combined(e, p)' >= Combined(e, p)
          /\ LongerLeave => Combined(e, p)' <= Combined(e, p)]_scoreVars
<1> SUFFICES ASSUME ScoreTypeOK, ScoreTypeOK', [ScoreNext]_scoreVars,
                    NEW e \in Person, NEW p \in Asked
             PROVE  /\ Grown => Combined(e, p)' >= Combined(e, p)
                    /\ LongerLeave => Combined(e, p)' <= Combined(e, p)
  OBVIOUS
<1>1. MonthsWhole /\ MonthsWhole'
  BY AlwaysWhole, PTL
<1>2. MonthsInPeriod(p) \subseteq Int
  BY AskedMonths
<1>3. ASSUME Grown PROVE Combined(e, p) <= Combined(e, p)'
  <2>1. Grows(done, early, done', early')
    BY <1>3, StepGrows
  <2>2. UNCHANGED <<profile, leaves, target, assets>>
    BY <1>3 DEF Grown
  <2>3. \A f \in Person, m \in MonthsInPeriod(p) :
          /\ MonthMain(f, p, m) <= MonthMain(f, p, m)'
          /\ WorkMain(f, p, m) <= WorkMain(f, p, m)'
    BY <1>1, <1>2, <2>1, <2>2, MonthGrows
  <2> QED
    BY <1>1, <2>2, <2>3, PeriodFollows
<1>4. ASSUME LongerLeave PROVE Combined(e, p)' <= Combined(e, p)
  <2>1. leaves' # leaves /\ UNCHANGED <<profile, done, early, target, assets>>
    BY <1>4 DEF LongerLeave
  <2>2. PICK g \in Person, r \in Month, l \in {"half", "full"} :
          \E i \in 0 .. Len(leaves[g][r]) :
            leaves' = [leaves EXCEPT ![g][r] = InsertAt(@, i + 1, l)]
    BY <2>1, LeaveStep
  <2>3. PICK i \in 0 .. Len(leaves[g][r]) :
          leaves' = [leaves EXCEPT ![g][r] = InsertAt(@, i + 1, l)]
    BY <2>2
  <2>4. \A f \in Person, m \in MonthsInPeriod(p) :
          /\ MonthMain(f, p, m)' <= MonthMain(f, p, m)
          /\ WorkMain(f, p, m)' <= WorkMain(f, p, m)
    BY <1>1, <1>2, <2>1, <2>3, MonthFalls
  <2> QED
    BY <1>1, <2>1, <2>4, PeriodFollows
<1> QED
  BY <1>3, <1>4

\* More work costs nobody points, and one more approved leave earns none: for any
\* employees, months and periods, whatever the order of the leaves.
THEOREM MoreNeverLowersForAll == ScoreSpec => MoreNeverLowers
<1>1. ScoreTypeOK /\ ScoreTypeOK' /\ [ScoreNext]_scoreVars
        => [\A e \in Person, p \in Asked :
              /\ Grown => Combined(e, p)' >= Combined(e, p)
              /\ LongerLeave => Combined(e, p)' <= Combined(e, p)]_scoreVars
  BY MoreStep
<1> QED
  BY <1>1, ScoreTypes, PTL DEF ScoreSpec, MoreNeverLowers
=============================================================================
