----------------------- MODULE LeaveApplicationProofs -----------------------
(***************************************************************************)
(* What holds of every leave application, for any number of workers, any    *)
(* users, requests, balances and bounds.                                     *)
(***************************************************************************)
EXTENDS LeaveApplication, TLAPS

-----------------------------------------------------------------------------
(* Rails. *)

\* The rail helpers keep a row a row.
LEMMA RailHelpers ==
    ASSUME NEW r \in Row, NEW role \in Roles, NEW ld \in Person
    PROVE  /\ ClearRails(r) \in Row
           /\ UnlockHrMd(r) \in Row
           /\ FirstRail(r, role, ld) \in Row
           /\ AfterCover(r, role, ld) \in Row
           /\ PreApproved(r) \in Row
           /\ InitialCover(r) \in Row
PROOF
<1>1. ClearRails(r) \in Row  BY DEF ClearRails, Row, Rail, Statuses
<1>2. UnlockHrMd(r) \in Row  BY DEF UnlockHrMd, Row, Rail, Statuses
<1>3. FirstRail(r, role, ld) \in Row  BY DEF FirstRail, Row, Rail, Statuses
<1>4. AfterCover(r, role, ld) \in Row
  BY <1>2 DEF AfterCover, Row, Rail, Statuses
<1>5. PreApproved(r) \in Row  BY DEF PreApproved, Row, Rail, Statuses
<1>6. InitialCover(r) \in Row  BY DEF InitialCover, Row, Rail, Statuses
<1> QED  BY <1>1, <1>2, <1>3, <1>4, <1>5, <1>6

\* The rails of a new row, and those of a row whose cover person changes.
LEMMA RailSetters ==
    ASSUME NEW r \in Row, NEW role \in Roles, NEW ld \in Person, NEW old \in Person
    PROVE  /\ RegularRails(r, role, ld) \in Row
           /\ ShortRails(r, role, ld) \in Row
           /\ ResyncCover(r, old) \in Row
           /\ ResyncRails(r, role, ld) \in Row
PROOF
<1> DEFINE c == ClearRails(r)
<1>0. c \in Row  BY RailHelpers
<1> HIDE DEF c
<1>1. FirstRail(c, role, ld) \in Row  BY <1>0, RailHelpers
<1>2. RegularRails(r, role, ld) \in Row
  BY <1>0, <1>1 DEF RegularRails, Row, Rail, Statuses, c
<1>3. ShortRails(r, role, ld) \in Row
  BY <1>0 DEF ShortRails, Row, Rail, Statuses, c
<1>4. ResyncCover(r, old) \in Row  BY DEF ResyncCover, Row, Rail, Statuses
<1>5. ResyncRails(r, role, ld) \in Row  BY <1>0, <1>1 DEF ResyncRails, c
<1> QED  BY <1>2, <1>3, <1>4, <1>5

-----------------------------------------------------------------------------
(* Balances. *)

\* The waterfall takes no more than a balance holds and charges every unit.
LEMMA SplitFacts ==
    ASSUME NEW s \in Summary, NEW units \in Nat, NEW intern \in BOOLEAN
    PROVE  /\ SplitOf(s, units, intern) \in Split
           /\ SplitOf(s, units, intern).casual <= s.casual
           /\ SplitOf(s, units, intern).earn <= s.earn
           /\ Total(SplitOf(s, units, intern)) = units
BY DEF SplitOf, Split, Summary, Least, Total

LEMMA ConsumeType ==
    ASSUME NEW s \in Summary, NEW read \in Summary, NEW units \in Nat,
           NEW intern \in BOOLEAN
    PROVE  Consume(s, read, units, intern) \in Summary
PROOF
<1> DEFINE sp == SplitOf(read, units, intern)
<1>1. /\ sp \in Split
      /\ sp.casual <= read.casual
      /\ sp.earn <= read.earn
  BY SplitFacts
<1> HIDE DEF sp
<1>2. /\ sp.casual \in Nat /\ sp.earn \in Nat /\ sp.unpaid \in Nat
      /\ read.casual \in Nat /\ read.earn \in Nat /\ read.unpaid \in Nat /\ read.used \in Nat
  BY <1>1 DEF Split, Summary
<1>3. /\ read.casual - sp.casual \in Nat /\ read.earn - sp.earn \in Nat
      /\ read.unpaid + sp.unpaid \in Nat /\ read.unpaid + units \in Nat
      /\ read.used + ((sp.casual + sp.earn) \div 2) \in Nat
  BY <1>1, <1>2
<1> QED  BY <1>3 DEF Consume, sp, Summary

LEMMA SlotType ==
    ASSUME NEW s \in Summary
    PROVE  /\ SyncMonth(s) \in Summary
           /\ FinalizeShort(s) \in Summary
           /\ ConsumeMenstrual(s) \in Summary
PROOF
<1> DEFINE m == SyncMonth(s)
<1>1. m \in Summary  BY ShortQuotaAssumption DEF SyncMonth, Summary
<1> HIDE DEF m
<1>2. ASSUME ~(m.short < 1)
      PROVE  [m EXCEPT !.short = m.short - 1] \in Summary
  <2>1. m.short \in Nat /\ m.short - 1 \in Nat  BY <1>1, <1>2 DEF Summary
  <2> QED  BY <1>1, <2>1 DEF Summary
<1>3. FinalizeShort(s) \in Summary  BY <1>1, <1>2 DEF FinalizeShort, m
<1>4. ConsumeMenstrual(s) \in Summary  BY DEF ConsumeMenstrual, Summary
<1> QED  BY <1>1, <1>3, <1>4 DEF m

LEMMA UnitsType ==
    ASSUME NEW r \in Row
    PROVE  DebitUnits(r.kind, r.days) \in Nat
BY DEF DebitUnits, Row

-----------------------------------------------------------------------------
(* Columns. *)

RowColumns == {"state", "kind", "emergency", "days", "lead", "alt", "altAp", "tlAp",
               "hrAp", "mdAp", "adAp", "split", "slot"}

\* The values a column may be given.
Column(f) == CASE f \in RailNames -> Rail
               [] f = "alt"       -> Person
               [] f = "kind"      -> Kinds
               [] f = "days"      -> Nat
               [] f = "split"     -> Split
               [] OTHER           -> {}

\* Writing some columns of a row with values those columns may hold gives a row.
LEMMA OverwriteType ==
    ASSUME NEW r \in Row, NEW a, NEW fs,
           \A f \in fs \cap RowColumns : a[f] \in Column(f)
    PROVE  Overwrite(r, a, fs) \in Row
PROOF
<1> DEFINE o == Overwrite(r, a, fs)
<1>1. DOMAIN r = RowColumns  BY DEF Row, RowColumns
<1>2. o = [f \in RowColumns |-> IF f \in fs THEN a[f] ELSE r[f]]
  BY <1>1 DEF Overwrite
<1>3. "state" \notin fs /\ "emergency" \notin fs /\ "lead" \notin fs /\ "slot" \notin fs
  BY DEF Column, RowColumns, RailNames
<1>4. /\ o["state"] = r["state"] /\ o["emergency"] = r["emergency"]
      /\ o["lead"] = r["lead"] /\ o["slot"] = r["slot"]
  BY <1>2, <1>3 DEF RowColumns
<1>5. \A f \in RailNames : o[f] \in Rail
  BY <1>2 DEF RowColumns, RailNames, Column, Row
<1>6. o["kind"] \in Kinds /\ o["alt"] \in Person /\ o["days"] \in Nat /\ o["split"] \in Split
  BY <1>2 DEF RowColumns, RailNames, Column, Row
<1>7. r["state"] \in {"absent", "live", "deleted"} /\ r["emergency"] \in BOOLEAN
      /\ r["lead"] \in Person /\ r["slot"] \in BOOLEAN
  BY DEF Row
<1>8. o = [f \in RowColumns |-> o[f]]  BY <1>2
<1>9. /\ o["state"] \in {"absent", "live", "deleted"} /\ o["emergency"] \in BOOLEAN
      /\ o["lead"] \in Person /\ o["slot"] \in BOOLEAN
  BY <1>4, <1>7
<1>10. /\ o["altAp"] \in Rail /\ o["tlAp"] \in Rail /\ o["hrAp"] \in Rail
       /\ o["mdAp"] \in Rail /\ o["adAp"] \in Rail
  BY <1>5 DEF RailNames
<1> HIDE DEF o
<1>11. o \in Row  BY <1>6, <1>8, <1>9, <1>10 DEF Row, RowColumns
<1> QED  BY <1>11 DEF o

Writable == RailNames \cup Drafts \cup {"split"}

LEMMA RowColumn ==
    ASSUME NEW p \in Row, NEW f \in Writable
    PROVE  p[f] \in Column(f)
BY DEF Row, Writable, Drafts, RailNames, Column

\* A request's values are values of the columns they name.
LEMMA AssignedColumn ==
    ASSUME NEW q \in Requests, NEW f \in DOMAIN q.set
    PROVE  /\ q.user \in Users
           /\ f \in RailNames \cup Drafts
           /\ q.set[f] \in Column(f)
PROOF
<1>1. WellFormed(q)  BY LeaveAssumption
<1>2. f \in Fields /\ q.set[f] \in FieldValues(f)  BY <1>1 DEF WellFormed
<1>3. f \in RailNames \cup Drafts  BY <1>2 DEF Fields, RailNames, Drafts
<1>4. q.set[f] \in Column(f)
  BY <1>2, <1>3 DEF FieldValues, Column, RailNames, Drafts, Rail, Person, Kinds
<1> QED  BY <1>1, <1>3, <1>4 DEF WellFormed

-----------------------------------------------------------------------------
(* The handlers' instances. *)

ProfileOK == profile \in [role : Roles, lead : Person]

LEMMA UnlockedType ==
    ASSUME ProfileOK, NEW q \in Requests, NEW r \in Row
    PROVE  /\ Signed(q.set, q.user, r) \in Row
           /\ Unlocked(q.set, q.user, r) \in Row
PROOF
<1> DEFINE s == Signed(q.set, q.user, r)
<1>1. \A f \in Taken(q.set, q.user, r) : q.set[f] \in Column(f)
  BY AssignedColumn DEF Taken
<1>2. s \in Row  BY <1>1, OverwriteType DEF Signed
<1> HIDE DEF s
<1>3. profile.role \in Roles /\ profile.lead \in Person  BY DEF ProfileOK
<1>4. AfterCover(s, profile.role, profile.lead) \in Row  BY <1>2, <1>3, RailHelpers
<1>5. UnlockHrMd(s) \in Row /\ UnlockHrMd(AfterCover(s, profile.role, profile.lead)) \in Row
  BY <1>2, <1>3, <1>4, RailHelpers
<1>6. Unlocked(q.set, q.user, r) \in Row  BY <1>2, <1>4, <1>5 DEF Unlocked, s
<1> QED  BY <1>2, <1>6 DEF s

LEMMA EditedType ==
    ASSUME ProfileOK, NEW q \in Requests, NEW r \in Row
    PROVE  /\ Edited(r, q.set) \in Row
           /\ Redrafted(r, q.set) \in Row
PROOF
<1> DEFINE e == Overwrite(r, q.set, DOMAIN q.set \cap Drafts)
<1>1. e \in Row  BY AssignedColumn, OverwriteType
<1> HIDE DEF e
<1>2. r.alt \in Person /\ profile.role \in Roles /\ profile.lead \in Person
  BY DEF Row, ProfileOK
<1>3. ResyncCover(e, r.alt) \in Row  BY <1>1, <1>2, RailSetters
<1>4. Edited(r, q.set) \in Row  BY <1>1, <1>3 DEF Edited, e
<1>5. Redrafted(r, q.set) \in Row  BY <1>2, <1>4, RailSetters DEF Redrafted
<1> QED  BY <1>4, <1>5

LEMMA PatchedType ==
    ASSUME ProfileOK, NEW q \in Requests, NEW r \in Row, NEW read \in Summary
    PROVE  Patched(q.set, q.user, r, read) \in Row
PROOF
<1> DEFINE n == Unlocked(q.set, q.user, r)
           sp == SplitOf(read, DebitUnits(r.kind, r.days), Intern)
           p == IF Charges(q.set, q.user, r) THEN [n EXCEPT !.split = sp] ELSE n
<1>1. n \in Row  BY UnlockedType
<1>2. sp \in Split
  <2>1. Intern \in BOOLEAN  BY DEF Intern
  <2> QED  BY <2>1, UnitsType, SplitFacts
<1> HIDE DEF n, sp
<1>3. p \in Row  BY <1>1, <1>2 DEF Row
<1> HIDE DEF p
<1>4. Redrafted(p, q.set) \in Row  BY <1>3, EditedType
<1> QED  BY <1>3, <1>4 DEF Patched, p, n, sp

LEMMA TouchedColumns ==
    ASSUME NEW q, NEW r
    PROVE  /\ EditColumns(r, q.set) \subseteq Writable
           /\ Touched(q.set, q.user, r) \subseteq Writable
PROOF
<1>0. "altAp" \in RailNames  BY DEF RailNames
<1>1. \A x : EditColumns(x, q.set) \subseteq Writable
  BY <1>0 DEF EditColumns, Writable
<1>2. Taken(q.set, q.user, r) \subseteq RailNames  BY DEF Taken, MayWrite
<1> DEFINE n == Unlocked(q.set, q.user, r)
<1> HIDE DEF n
<1>3. EditColumns(n, q.set) \subseteq Writable  BY <1>1
<1>4. Touched(q.set, q.user, r) \subseteq Writable
  BY <1>2, <1>3 DEF Touched, Writable, n
<1> QED  BY <1>1, <1>4

-----------------------------------------------------------------------------
(* The receivers, and the save that runs them. *)

LEMMA SignalType ==
    ASSUME NEW r \in Row, NEW p \in Row, NEW old \in Row, NEW s \in Summary
    PROVE  /\ SignalRow(r, p, old, s) \in Row
           /\ SignalSummary(s, p, old) \in Summary
PROOF
<1> DEFINE sp == SplitOf(s, DebitUnits(p.kind, p.days), Intern)
<1>0. Intern \in BOOLEAN /\ DebitUnits(p.kind, p.days) \in Nat  BY UnitsType DEF Intern
<1>1. sp \in Split  BY <1>0, SplitFacts
<1> HIDE DEF sp
<1>2. SignalSlot(p, old) \in BOOLEAN /\ GetsSlot(s) \in BOOLEAN
  BY DEF SignalSlot, GetsSlot, IsShort
<1>3. SignalRow(r, p, old, s) \in Row  BY <1>1, <1>2 DEF SignalRow, Row, sp
<1>4. SignalSummary(s, p, old) \in Summary
  BY <1>0, SlotType, ConsumeType DEF SignalSummary
<1> QED  BY <1>3, <1>4

LEMMA SaveType ==
    ASSUME TypeOK, NEW w \in Workers, NEW p \in Row, NEW fs \in SUBSET Writable,
           NEW s \in Summary, NEW c \in Nat, NEW n \in SUBSET Audience,
           Save(w, p, fs, s, c, n)
    PROVE  TypeOK'
PROOF
<1>1. CASE row.state # "live"
  <2>1. Reject(w)  BY <1>1 DEF Save
  <2> QED  BY <2>1 DEF Reject, TypeOK
<1>2. CASE row.state = "live"
  <2> DEFINE m == Overwrite(row, p, fs)
             runs == c + (IF SignalCharge(p, row) THEN 1 ELSE 0)
  <2>1. m \in Row  BY RowColumn, OverwriteType DEF TypeOK
  <2>2. runs \in Nat /\ runs * DebitUnits(p.kind, p.days) \in Nat  BY UnitsType
  <2> HIDE DEF m, runs
  <2>3. /\ row' = SignalRow(m, p, row, s)
        /\ summary' = SignalSummary(s, p, row)
        /\ thread' = [thread EXCEPT ![w] = Idle]
        /\ sent' = n
        /\ profile' = profile /\ gone' = gone
        /\ Remember
    BY <1>2 DEF Save, m
  <2>4. \E k \in Nat : tally' = [tally EXCEPT !.charges = @ + runs,
                                 !.units = @ + runs * DebitUnits(p.kind, p.days),
                                 !.approvals = @ + k]
    BY <1>2 DEF Save, m, runs
  <2>5. row' \in Row /\ summary' \in Summary  BY <2>1, <2>3, SignalType DEF TypeOK
  <2>6. tally' \in [charges : Nat, units : Nat, approvals : Nat, credits : Nat]
    <3> DEFINE u == runs * DebitUnits(p.kind, p.days)
    <3> HIDE DEF u
    <3>1. u \in Nat  BY <2>2 DEF u
    <3>2. PICK k \in Nat : tally' = [tally EXCEPT !.charges = @ + runs,
                                !.units = @ + u, !.approvals = @ + k]
      BY <2>4 DEF u
    <3>3. tally \in [charges : Nat, units : Nat, approvals : Nat, credits : Nat]
      BY DEF TypeOK
    <3>4. runs \in Nat  BY <2>2
    <3>5. /\ tally.charges + runs \in Nat /\ tally.units + u \in Nat
          /\ tally.approvals + k \in Nat
      BY <3>1, <3>3, <3>4
    <3> QED  BY <3>2, <3>3, <3>5
  <2>7. opened' \in BOOLEAN
    <3>1. \A a, b : (a \/ b) \in BOOLEAN  OBVIOUS
    <3> QED  BY <2>3, <3>1 DEF Remember
  <2> QED  BY <2>3, <2>5, <2>6, <2>7 DEF TypeOK
<1> QED  BY <1>1, <1>2

-----------------------------------------------------------------------------
(* Creation. *)

LEMMA CreatedType ==
    ASSUME TypeOK, NEW r \in Row, NEW s \in Summary, NEW c \in Nat,
           NEW n \in SUBSET Audience, Created(r, s, c, n)
    PROVE  TypeOK'
PROOF
<1> DEFINE u == c * DebitUnits(r.kind, r.days)
<1>1. u \in Nat  BY UnitsType
<1> HIDE DEF u
<1>2. /\ row' = r /\ summary' = s /\ sent' = n
      /\ profile' = profile /\ gone' = gone /\ thread' = thread
      /\ Remember
  BY DEF Created
<1>3. PICK k \in Nat : tally' = [tally EXCEPT !.charges = @ + c, !.units = @ + u,
                                             !.approvals = @ + k]
  BY DEF Created, u
<1>4. tally \in [charges : Nat, units : Nat, approvals : Nat, credits : Nat]
  BY DEF TypeOK
<1>5. /\ tally.charges + c \in Nat /\ tally.units + u \in Nat /\ tally.approvals + k \in Nat
  BY <1>1, <1>4
<1>6. tally' \in [charges : Nat, units : Nat, approvals : Nat, credits : Nat]
  BY <1>3, <1>4, <1>5
<1>7. \A a, b : (a \/ b) \in BOOLEAN  OBVIOUS
<1>8. opened' \in BOOLEAN  BY <1>2, <1>7 DEF Remember
<1> QED  BY <1>2, <1>6, <1>8 DEF TypeOK

LEMMA NoRowType == NoRow \in Row
BY NoOneAssumption DEF NoRow, Row, Rail, Statuses, Kinds, Person, NoSplit, Split

LEMMA FreshType ==
    ASSUME TypeOK, NEW c \in Creation, NEW b \in BOOLEAN
    PROVE  /\ Fresh(c) \in Row
           /\ [Fresh(c) EXCEPT !.emergency = b] \in Row
BY NoRowType DEF Fresh, Creation, Row, TypeOK, Person

LEMMA CreateType ==
    ASSUME TypeOK, Create
    PROVE  TypeOK'
PROOF
<1> DEFINE ro == profile.role
           ld == profile.lead
<1>0. /\ ro \in Roles /\ ld \in Person /\ summary \in Summary /\ NoRow \in Row
      /\ Intern \in BOOLEAN /\ {} \in SUBSET Audience /\ {"cover"} \in SUBSET Audience
  BY NoRowType DEF TypeOK, Intern, Audience
<1>1. PICK c \in Creation : \/ CreateGeneral(c)   \/ CreateShort(c)
                           \/ CreateMenstrual(c) \/ CreateEmergency(c)
  BY LeaveAssumption DEF Create
<1>c. c.kind \in Kinds /\ c.days \in Nat /\ c.flag \in BOOLEAN  BY DEF Creation
<1> HIDE DEF ro, ld
<1>2. CASE CreateGeneral(c)
  <2> DEFINE f == [Fresh(c) EXCEPT !.emergency = c.flag]
             g == RegularRails(f, ro, ld)
             r == InitialCover(g)
             s1 == SignalSummary(summary, r, NoRow)
             r1 == SignalRow(r, r, NoRow, summary)
             units == DebitUnits(c.kind, c.days)
             again == ro = "MD" /\ Chargeable(r)
             s2 == IF again THEN Consume(s1, s1, units, Intern)
                   ELSE IF ro = "MD" /\ ~c.flag /\ c.kind = "Menstrual"
                   THEN ConsumeMenstrual(s1) ELSE s1
             r2 == IF again THEN [r1 EXCEPT !.split = SplitOf(s1, units, Intern)] ELSE r1
             n  == IF ~c.flag /\ c.kind # "Short" /\ c.alt # NoOne THEN {"cover"} ELSE {}
  <2>1. f \in Row  BY <1>c, FreshType
  <2> HIDE DEF f
  <2>2. g \in Row  BY <1>0, <2>1, RailSetters
  <2> HIDE DEF g
  <2>3. r \in Row  BY <1>0, <2>2, RailHelpers
  <2> HIDE DEF r
  <2>4. s1 \in Summary /\ r1 \in Row  BY <1>0, <2>3, SignalType
  <2>5. units \in Nat  BY <1>c DEF DebitUnits
  <2> HIDE DEF s1, r1, units, again
  <2>6. s2 \in Summary  BY <1>0, <2>4, <2>5, ConsumeType, SlotType
  <2>7. SplitOf(s1, units, Intern) \in Split  BY <1>0, <2>4, <2>5, SplitFacts
  <2>8. r2 \in Row  BY <2>4, <2>7 DEF Row
  <2>9. Created(r2, s2, IF again THEN 2 ELSE 0, n)
    BY <1>2 DEF CreateGeneral, f, g, r, s1, r1, units, again, ro, ld
  <2>10. n \in SUBSET Audience /\ (IF again THEN 2 ELSE 0) \in Nat  BY <1>0
  <2> HIDE DEF r2, s2, n
  <2> QED  BY <2>6, <2>8, <2>9, <2>10, CreatedType
<1>3. CASE CreateShort(c)
  <2> DEFINE m == SyncMonth(summary)
             g == ShortRails(Fresh(c), ro, ld)
             r == InitialCover(g)
  <2>1. m \in Summary  BY <1>0, SlotType
  <2>2. g \in Row  BY <1>0, FreshType, RailSetters
  <2> HIDE DEF m, g
  <2>3. r \in Row  BY <1>0, <2>2, RailHelpers
  <2> HIDE DEF r
  <2>4. SignalRow(r, r, NoRow, m) \in Row /\ SignalSummary(m, r, NoRow) \in Summary
    BY <1>0, <2>1, <2>3, SignalType
  <2>5. Created(SignalRow(r, r, NoRow, m), SignalSummary(m, r, NoRow), 0, {})
    BY <1>3 DEF CreateShort, m, g, r, ro, ld
  <2> QED  BY <1>0, <2>4, <2>5, CreatedType
<1>4. CASE CreateMenstrual(c)
  <2> DEFINE r == PreApproved(Fresh(c))
  <2>1. r \in Row  BY <1>0, FreshType, RailHelpers
  <2> HIDE DEF r
  <2>2. ConsumeMenstrual(SignalSummary(summary, r, NoRow)) \in Summary
    BY <1>0, <2>1, SignalType, SlotType
  <2>3. Created(r, ConsumeMenstrual(SignalSummary(summary, r, NoRow)), 0, {})
    BY <1>4 DEF CreateMenstrual, r
  <2> QED  BY <1>0, <2>1, <2>2, <2>3, CreatedType
<1>5. CASE CreateEmergency(c)
  <2> DEFINE f == [Fresh(c) EXCEPT !.emergency = TRUE]
             g == PreApproved(f)
             r == InitialCover(g)
             s == [summary EXCEPT !.emergency = @ - c.days, !.used = @ + c.days]
  <2>1. f \in Row  BY FreshType
  <2> HIDE DEF f
  <2>2. g \in Row  BY <1>0, <2>1, RailHelpers
  <2> HIDE DEF g
  <2>3. r \in Row  BY <1>0, <2>2, RailHelpers
  <2>4. CASE c.kind = "Menstrual"
    <3>1. Created(r, ConsumeMenstrual(summary), 0, {})
      BY <1>5, <2>4 DEF CreateEmergency, f, g
    <3>2. ConsumeMenstrual(summary) \in Summary  BY <1>0, SlotType
    <3> HIDE DEF r
    <3> QED  BY <1>0, <2>3, <3>1, <3>2, CreatedType
  <2>5. CASE c.kind # "Menstrual"
    <3>1. Created(r, s, 0, {}) /\ c.days <= summary.emergency
      BY <1>5, <2>5 DEF CreateEmergency, f, g
    <3>2. summary.emergency - c.days \in Nat /\ summary.used + c.days \in Nat
      BY <1>0, <1>c, <3>1 DEF Summary
    <3>3. s \in Summary  BY <1>0, <3>2 DEF Summary
    <3> HIDE DEF r, s
    <3> QED  BY <1>0, <2>3, <3>1, <3>3, CreatedType
  <2> QED  BY <2>4, <2>5
<1> QED  BY <1>1, <1>2, <1>3, <1>4, <1>5

-----------------------------------------------------------------------------
(* Type correctness. *)

LEMMA ThreadFacts ==
    ASSUME TypeOK, NEW w \in Workers, thread[w] # Idle
    PROVE  /\ thread[w] \in Thread
           /\ thread[w].q \in Requests
           /\ thread[w].row \in Row
           /\ thread[w].read \in Summary
BY DEF TypeOK, Thread

LEMMA RejectType ==
    ASSUME TypeOK, NEW w \in Workers, Reject(w)
    PROVE  TypeOK'
BY DEF Reject, TypeOK

LEMMA LoadType ==
    ASSUME TypeOK, NEW w \in Workers, NEW q \in Requests, Load(w, q)
    PROVE  TypeOK'
PROOF
<1> DEFINE t == [pc |-> "loaded", q |-> q, row |-> row, read |-> Summary0]
<1>1. t \in Thread  BY LeaveAssumption DEF Thread, TypeOK
<1> HIDE DEF t
<1>2. thread' = [thread EXCEPT ![w] = t]  BY DEF Load, t
<1> QED  BY <1>1, <1>2 DEF Load, TypeOK

LEMMA ReadBalanceType ==
    ASSUME TypeOK, NEW w \in Workers, ReadBalance(w)
    PROVE  TypeOK'
PROOF
<1> DEFINE t == [thread[w] EXCEPT !.pc = "charging", !.read = summary]
<1>1. t \in Thread  BY ThreadFacts DEF ReadBalance, Busy, Thread, TypeOK
<1> HIDE DEF t
<1>2. thread' = [thread EXCEPT ![w] = t]  BY DEF ReadBalance, t
<1> QED  BY <1>1, <1>2 DEF ReadBalance, TypeOK

LEMMA NotesType ==
    ASSUME NEW r, NEW p
    PROVE  Notes(r, p) \in SUBSET Audience
BY DEF Notes, Audience

LEMMA PatchType ==
    ASSUME TypeOK, NEW w \in Workers, Patch(w)
    PROVE  TypeOK'
PROOF
<1> DEFINE q == thread[w].q
           r == thread[w].row
           read == thread[w].read
           c == Charges(q.set, q.user, r)
           p == Patched(q.set, q.user, r, read)
           fs == Touched(q.set, q.user, r)
           s == IF c THEN Consume(summary, read, DebitUnits(r.kind, r.days), Intern)
                ELSE IF Approves(q.set, q.user, r, "mdAp") /\ ~r.emergency
                        /\ r.kind = "Menstrual"
                THEN ConsumeMenstrual(summary) ELSE summary
           k == IF c THEN 1 ELSE 0
<1>1. q \in Requests /\ r \in Row /\ read \in Summary  BY ThreadFacts DEF Patch
<1>2. Reject(w) \/ Save(w, p, fs, s, k, Notes(r, p))  BY DEF Patch
<1> HIDE DEF q, r, read
<1>3. p \in Row  BY <1>1, PatchedType DEF TypeOK, ProfileOK
<1>4. fs \in SUBSET Writable  BY TouchedColumns
<1>5. s \in Summary
  <2>1. Intern \in BOOLEAN /\ summary \in Summary  BY DEF Intern, TypeOK
  <2> QED  BY <1>1, <2>1, UnitsType, ConsumeType, SlotType
<1>6. k \in Nat  OBVIOUS
<1>7. Notes(r, p) \in SUBSET Audience  BY NotesType
<1> HIDE DEF p, fs, s, k
<1> QED  BY <1>2, <1>3, <1>4, <1>5, <1>6, <1>7, RejectType, SaveType

LEMMA RespondType ==
    ASSUME TypeOK, NEW w \in Workers, Respond(w)
    PROVE  TypeOK'
PROOF
<1> DEFINE q == thread[w].q
           r == thread[w].row
           s == [r EXCEPT !.altAp = q.set["altAp"]]
           p == IF s.altAp = "Approved" /\ Sequential(r, profile.role)
                THEN AfterCover(s, profile.role, profile.lead) ELSE s
           fs == {"altAp"} \cup {f \in RailNames : p[f] # r[f]}
           n == IF s.altAp = "Approved" THEN Notes(r, s) ELSE {}
<1>1. q \in Requests /\ r \in Row /\ q.op = "respond"  BY ThreadFacts DEF Respond, Busy
<1>2. Reject(w) \/ Save(w, p, fs, summary, 0, n)  BY DEF Respond
<1> HIDE DEF q, r
<1>3. q.set["altAp"] \in Statuses  BY <1>1, LeaveAssumption DEF WellFormed, Statuses
<1>4. s \in Row  BY <1>1, <1>3 DEF Row, Rail
<1> HIDE DEF s
<1>5. p \in Row  BY <1>4, RailHelpers DEF TypeOK
<1>6. fs \in SUBSET Writable  BY DEF Writable, RailNames
<1>7. n \in SUBSET Audience  BY NotesType
<1>8. summary \in Summary  BY DEF TypeOK
<1> HIDE DEF p, fs, n
<1> QED  BY <1>2, <1>5, <1>6, <1>7, <1>8, RejectType, SaveType

LEMMA EditHistoryType ==
    ASSUME TypeOK, NEW w \in Workers, EditHistory(w)
    PROVE  TypeOK'
PROOF
<1> DEFINE q == thread[w].q
           r == thread[w].row
           p == Redrafted(r, q.set)
           fs == EditColumns(r, q.set)
<1>1. q \in Requests /\ r \in Row  BY ThreadFacts DEF EditHistory, Busy
<1>2. Reject(w) \/ Save(w, p, fs, summary, 0, {})  BY DEF EditHistory
<1> HIDE DEF q, r
<1>3. p \in Row  BY <1>1, EditedType DEF TypeOK, ProfileOK
<1>4. fs \in SUBSET Writable  BY TouchedColumns
<1>5. summary \in Summary  BY DEF TypeOK
<1> HIDE DEF p, fs
<1> QED  BY <1>2, <1>3, <1>4, <1>5, RejectType, SaveType

LEMMA DestroyType ==
    ASSUME TypeOK, NEW w \in Workers, Destroy(w)
    PROVE  TypeOK'
PROOF
<1>1. CASE Reject(w)  BY <1>1, RejectType
<1>2. CASE /\ row' = [row EXCEPT !.state = "deleted"]
           /\ thread' = [thread EXCEPT ![w] = Idle]
           /\ sent' = {}
           /\ UNCHANGED <<summary, profile, gone, tally>>
           /\ Remember
  <2>1. \A a, b : (a \/ b) \in BOOLEAN  OBVIOUS
  <2>2. opened' \in BOOLEAN  BY <1>2, <2>1 DEF Remember
  <2>3. row' \in Row  BY <1>2 DEF TypeOK, Row
  <2> QED  BY <1>2, <2>2, <2>3 DEF TypeOK
<1> QED  BY <1>1, <1>2 DEF Destroy

\* Reassigned leads, deleted users, credits and new months.
LEMMA OutsideType ==
    ASSUME TypeOK, CreditEarn \/ NextMonth \/ Reassign \/ DeleteUser
    PROVE  TypeOK'
PROOF
<1>0. \A a, b : (a \/ b) \in BOOLEAN  OBVIOUS
<1>1. CASE CreditEarn
  <2>1. summary.earn + 2 \in Nat /\ tally.credits + 2 \in Nat  BY DEF TypeOK, Summary
  <2>2. summary' \in Summary  BY <1>1, <2>1 DEF CreditEarn, TypeOK, Summary
  <2>3. tally' \in [charges : Nat, units : Nat, approvals : Nat, credits : Nat]
    BY <1>1, <2>1 DEF CreditEarn, TypeOK
  <2> QED  BY <1>1, <2>2, <2>3 DEF CreditEarn, TypeOK
<1>2. CASE NextMonth
  <2>1. summary' \in Summary  BY <1>2 DEF NextMonth, TypeOK, Summary
  <2> QED  BY <1>2, <2>1 DEF NextMonth, TypeOK
<1>3. CASE Reassign
  <2>1. profile' \in [role : Roles, lead : Person]
    BY <1>3, LeaveAssumption DEF Reassign, TypeOK, Person
  <2>2. opened' \in BOOLEAN  BY <1>0, <1>3 DEF Reassign, Remember
  <2> QED  BY <1>3, <2>1, <2>2 DEF Reassign, TypeOK
<1>4. CASE DeleteUser
  <2>1. PICK u \in Leavers \ gone :
           /\ gone' = gone \cup {u}
           /\ row' = [row EXCEPT !.alt = IF @ = u THEN NoOne ELSE @,
                                 !.lead = IF @ = u THEN NoOne ELSE @]
           /\ profile' = IF profile.lead = u
                         THEN [role |-> "NoProfile", lead |-> NoOne] ELSE profile
    BY <1>4 DEF DeleteUser
  <2>0. u \in Users  BY LeaveAssumption
  <2>2. row' \in Row  BY <2>1 DEF TypeOK, Row, Person
  <2>3. profile' \in [role : Roles, lead : Person]  BY <2>1 DEF TypeOK, Person, Roles
  <2>4. opened' \in BOOLEAN  BY <1>0, <1>4 DEF DeleteUser, Remember
  <2> QED  BY <1>4, <2>0, <2>1, <2>2, <2>3, <2>4 DEF DeleteUser, TypeOK
<1> QED  BY <1>1, <1>2, <1>3, <1>4

LEMMA TypeInit == Init => TypeOK
PROOF
<1> SUFFICES ASSUME Init PROVE TypeOK
  OBVIOUS
<1>1. row \in Row /\ summary \in Summary
  BY LeaveAssumption, NoRowType DEF Init
<1>2. profile \in [role : Roles, lead : Person]
  <2>1. ApplicantRoles \subseteq Roles /\ Leads \cup {NoOne} \subseteq Person
    BY LeaveAssumption DEF Person
  <2> QED  BY <2>1 DEF Init
<1>3. thread \in [Workers -> Thread \cup {Idle}]  BY DEF Init
<1>4. tally \in [charges : Nat, units : Nat, approvals : Nat, credits : Nat]
  BY DEF Init
<1> QED  BY <1>1, <1>2, <1>3, <1>4 DEF Init, TypeOK

LEMMA TypeStep == TypeOK /\ [Next]_vars => TypeOK'
PROOF
<1> SUFFICES ASSUME TypeOK, [Next]_vars PROVE TypeOK'
  OBVIOUS
<1>1. CASE Create  BY <1>1, CreateType
<1>2. CASE CreditEarn \/ NextMonth \/ Reassign \/ DeleteUser  BY <1>2, OutsideType
<1>3. ASSUME NEW w \in Workers,
             \/ \E q \in Requests : Load(w, q)
             \/ ReadBalance(w) \/ Serve(w)
      PROVE  TypeOK'
  BY <1>3, LoadType, ReadBalanceType, PatchType, RespondType, EditHistoryType, DestroyType
     DEF Serve
<1>4. CASE UNCHANGED vars  BY <1>4 DEF vars, TypeOK
<1> QED  BY <1>1, <1>2, <1>3, <1>4 DEF Next

\* Rows, balances, copies and histories keep their types in every reachable state; no
\* balance goes below zero however approvals, credits and months interleave.
THEOREM TypeCorrect == Spec => []TypeOK
PROOF
<1> QED  BY TypeInit, TypeStep, PTL DEF Spec

-----------------------------------------------------------------------------
(* The gate of HR and MD.  A handler decides on the copy it loaded, so the     *)
(* invariant speaks of the row and of every copy: whichever meets the gate,    *)
(* the gate has been open before.                                              *)

CopyBehindGate(w) ==
    thread[w] # Idle =>
        /\ row.state # "absent"
        /\ GateMet(thread[w].row, profile.role) => opened

GateInv ==
    /\ TypeOK
    /\ row.state = "live" /\ GateMet(row, profile.role) => opened
    /\ \A w \in Workers : CopyBehindGate(w)

\* No role has a stricter gate than an applicant whose profile is gone.
LEMMA NoProfileStrictest ==
    ASSUME NEW r \in Row, NEW role \in Roles, GateMet(r, "NoProfile")
    PROVE  GateMet(r, role)
BY DEF GateMet, Sequential, LeadPriorOk, SkipsLead, ShortSequential, ShortSkipsLead,
       CoverGateOk, IsShort, Row, Roles

\* The server's two gates for staff agree with the one the property speaks of.
LEMMA UnblockedMeetsGate ==
    ASSUME NEW r \in Row, NEW role \in Roles, ~StaffBlocked(r, role)
    PROVE  GateMet(r, role)
BY DEF GateMet, StaffBlocked, ShortBlocked, ChainBlocked, CoverRefused, CoverMissing,
       LeadMissing, CoverGateOk, LeadPriorOk

\* A step that keeps the copies but for one that is dropped, and records the gate.
LEMMA GateKept ==
    ASSUME GateInv, TypeOK', Remember, profile' = profile,
           row.state = "absent" \/ row'.state # "absent",
           \A v \in Workers : thread'[v] = thread[v] \/ thread'[v] = Idle
    PROVE  GateInv'
PROOF
<1>1. opened => opened'  BY DEF Remember
<1>2. row'.state = "live" /\ GateMet(row', profile'.role) => opened'  BY DEF Remember
<1>3. ASSUME NEW v \in Workers, thread'[v] # Idle
      PROVE  /\ row'.state # "absent"
             /\ GateMet(thread'[v].row, profile'.role) => opened'
  <2>1. thread'[v] = thread[v] /\ CopyBehindGate(v)  BY <1>3 DEF GateInv
  <2> QED  BY <1>1, <1>3, <2>1 DEF CopyBehindGate
<1>4. \A v \in Workers : CopyBehindGate(v)'  BY <1>3 DEF CopyBehindGate
<1> QED  BY <1>2, <1>4 DEF GateInv

Behind == \A f \in {"hrAp", "mdAp"} : NewlyApproved(f) => opened

LEMMA RejectGate ==
    ASSUME GateInv, TypeOK', NEW w \in Workers, Reject(w)
    PROVE  GateInv' /\ Behind
PROOF
<1>1. \A v \in Workers : thread'[v] = thread[v] \/ thread'[v] = Idle
  BY DEF Reject, GateInv, TypeOK
<1>2. \A v \in Workers : CopyBehindGate(v)'
  BY <1>1 DEF Reject, GateInv, CopyBehindGate
<1>3. Behind  BY DEF Reject, Behind, NewlyApproved
<1> QED  BY <1>2, <1>3 DEF Reject, GateInv

\* What a save has to show: an approval among its columns had the gate open.
LEMMA SaveGate ==
    ASSUME GateInv, TypeOK', NEW w \in Workers, NEW p \in Row, NEW fs \in SUBSET Writable,
           NEW s, NEW c, NEW n, Save(w, p, fs, s, c, n),
           \A f \in fs \cap {"hrAp", "mdAp"} : p[f] = "Approved" => opened
    PROVE  GateInv' /\ Behind
PROOF
<1>1. CASE row.state # "live"
  <2>1. Reject(w)  BY <1>1 DEF Save
  <2> QED  BY <2>1, RejectGate
<1>2. CASE row.state = "live"
  <2> DEFINE m == Overwrite(row, p, fs)
  <2>1. /\ row' = SignalRow(m, p, row, s)
        /\ thread' = [thread EXCEPT ![w] = Idle]
        /\ profile' = profile
        /\ Remember
    BY <1>2 DEF Save, m
  <2>2. m \in Row  BY RowColumn, OverwriteType DEF GateInv, TypeOK
  <2>3. DOMAIN row = RowColumns  BY DEF GateInv, TypeOK, Row, RowColumns
  <2>4. \A f \in RowColumns : m[f] = IF f \in fs THEN p[f] ELSE row[f]
    BY <2>3 DEF Overwrite, m
  <2>5. "state" \notin fs  BY DEF Writable, RailNames, Drafts
  <2>6. m["state"] = row["state"]  BY <2>4, <2>5 DEF RowColumns
  <2> HIDE DEF m
  <2>7. row'["state"] = m["state"] /\ row'["hrAp"] = m["hrAp"] /\ row'["mdAp"] = m["mdAp"]
    BY <2>1, <2>2 DEF SignalRow, Row
  <2>8. row'.state # "absent"  BY <1>2, <2>6, <2>7
  <2>9. \A v \in Workers : thread'[v] = thread[v] \/ thread'[v] = Idle
    BY <2>1 DEF GateInv, TypeOK
  <2>10. GateInv'  BY <2>1, <2>8, <2>9, GateKept
  <2>11. ASSUME NEW f \in {"hrAp", "mdAp"}, NewlyApproved(f)  PROVE opened
    <3>1. f \in RowColumns /\ row'[f] = m[f]  BY <2>7 DEF RowColumns
    <3>2. f \in fs /\ p[f] = "Approved"  BY <2>4, <2>11, <3>1 DEF NewlyApproved
    <3> QED  BY <3>2
  <2> QED  BY <2>10, <2>11 DEF Behind
<1> QED  BY <1>1, <1>2

StaffRails == {"tlAp", "hrAp", "mdAp", "adAp"}

\* The helpers that follow an approval or an edit never approve a rail of staff.
LEMMA FollowUpsGrantNothing ==
    ASSUME NEW r \in Row, NEW role \in Roles, NEW ld \in Person, NEW f \in StaffRails
    PROVE  /\ UnlockHrMd(r)[f] = "Approved" => r[f] = "Approved"
           /\ AfterCover(r, role, ld)[f] = "Approved" => r[f] = "Approved"
           /\ ResyncRails(r, role, ld)[f] = "Approved" => r[f] = "Approved"
           /\ ResetsRails(r, role) => r[f] # "Approved"
PROOF
<1>1. UnlockHrMd(r)[f] = "Approved" => r[f] = "Approved"  BY DEF UnlockHrMd, Row, StaffRails
<1>2. AfterCover(r, role, ld)[f] = "Approved" => r[f] = "Approved"
  BY <1>1 DEF AfterCover, Row, StaffRails
<1>3. ClearRails(r) \in Row /\ ClearRails(r)[f] = "None"  BY RailHelpers DEF ClearRails, Row, StaffRails
<1>4. FirstRail(ClearRails(r), role, ld)[f] # "Approved"
  BY <1>3 DEF FirstRail, Row, StaffRails
<1>5. ResyncRails(r, role, ld)[f] = "Approved" => r[f] = "Approved"
  BY <1>3, <1>4 DEF ResyncRails
<1>6. ResetsRails(r, role) => r[f] # "Approved"
  BY DEF ResetsRails, AnyGranted, RailNames, StaffRails
<1> QED  BY <1>1, <1>2, <1>5, <1>6

\* An edit of the draft approves nothing, and leaves an approved rail out of its columns.
LEMMA EditGrantsNothing ==
    ASSUME ProfileOK, NEW q \in Requests, NEW r \in Row, NEW f \in StaffRails
    PROVE  /\ Redrafted(r, q.set)[f] = "Approved" => r[f] = "Approved"
           /\ f \in EditColumns(r, q.set) => r[f] # "Approved"
PROOF
<1> DEFINE o == Overwrite(r, q.set, DOMAIN q.set \cap Drafts)
           e == Edited(r, q.set)
<1>0. profile.role \in Roles /\ profile.lead \in Person  BY DEF ProfileOK
<1>1. e \in Row /\ o \in Row  BY EditedType, AssignedColumn, OverwriteType
<1>2. o[f] = r[f]
  BY DEF Overwrite, Drafts, Row, StaffRails
<1> HIDE DEF o
<1>3. ResyncCover(o, r.alt)[f] = o[f]  BY <1>1 DEF ResyncCover, Row, StaffRails
<1>4. e[f] = r[f]  BY <1>2, <1>3 DEF Edited, o
<1> HIDE DEF e
<1>5. ResyncRails(e, profile.role, profile.lead)[f] = "Approved" => e[f] = "Approved"
  BY <1>0, <1>1, FollowUpsGrantNothing
<1>6. Redrafted(r, q.set)[f] = "Approved" => r[f] = "Approved"
  BY <1>4, <1>5 DEF Redrafted, e
<1>7. ResetsRails(e, profile.role) => e[f] # "Approved"
  BY <1>0, <1>1, FollowUpsGrantNothing
<1>8. f \in EditColumns(r, q.set) => ResetsRails(e, profile.role)
  BY DEF EditColumns, Drafts, StaffRails, e
<1> QED  BY <1>4, <1>6, <1>7, <1>8

\* Unlocking the rails after an approval approves none of the others.
LEMMA UnlockedGrantsTaken ==
    ASSUME ProfileOK, NEW q \in Requests, NEW r \in Row, NEW f \in StaffRails,
           Unlocked(q.set, q.user, r)[f] = "Approved"
    PROVE  f \in Taken(q.set, q.user, r) \/ r[f] = "Approved"
PROOF
<1> DEFINE s == Signed(q.set, q.user, r)
           c == AfterCover(s, profile.role, profile.lead)
<1>0. profile.role \in Roles /\ profile.lead \in Person  BY DEF ProfileOK
<1>1. f \notin Taken(q.set, q.user, r) => s[f] = r[f]  BY DEF Signed, Overwrite, Row, StaffRails
<1>2. s \in Row  BY UnlockedType
<1> HIDE DEF s
<1>3. c \in Row  BY <1>0, <1>2, RailHelpers
<1>4. c[f] = "Approved" => s[f] = "Approved"  BY <1>0, <1>2, FollowUpsGrantNothing
<1> HIDE DEF c
<1>5. \/ Unlocked(q.set, q.user, r) = s    \/ Unlocked(q.set, q.user, r) = UnlockHrMd(s)
      \/ Unlocked(q.set, q.user, r) = c    \/ Unlocked(q.set, q.user, r) = UnlockHrMd(c)
  BY DEF Unlocked, s, c
<1>6. s[f] = "Approved"
  BY <1>0, <1>2, <1>3, <1>4, <1>5, FollowUpsGrantNothing
<1> QED  BY <1>1, <1>6

\* A PATCH that is not refused and approves for HR or MD had the gate open on its copy.
LEMMA PatchBehindGate ==
    ASSUME ProfileOK, NEW q \in Requests, NEW r \in Row, NEW read \in Summary,
           ~Refused(q.set, q.user, r),
           NEW f \in Touched(q.set, q.user, r) \cap {"hrAp", "mdAp"},
           Patched(q.set, q.user, r, read)[f] = "Approved"
    PROVE  GateMet(r, profile.role)
PROOF
<1> DEFINE n == Unlocked(q.set, q.user, r)
           sp == SplitOf(read, DebitUnits(r.kind, r.days), Intern)
           p == IF Charges(q.set, q.user, r) THEN [n EXCEPT !.split = sp] ELSE n
           t == Taken(q.set, q.user, r)
<1>0. profile.role \in Roles  BY DEF ProfileOK
<1>1. n \in Row  BY UnlockedType
<1>2. sp \in Split
  <2>1. Intern \in BOOLEAN  BY DEF Intern
  <2> QED  BY <2>1, UnitsType, SplitFacts
<1>3. f \in RailNames  BY DEF RailNames
<1> HIDE DEF sp
<1>4. p \in Row /\ p[f] = n[f]
  <2> HIDE DEF n
  <2> QED  BY <1>1, <1>2 DEF Row
<1>5. EditsDraft(q.set, q.user, r) => n[f] # "Approved"
  BY <1>3 DEF EditsDraft, AnyGranted
<1>6. Patched(q.set, q.user, r, read)
        = IF EditsDraft(q.set, q.user, r) THEN Redrafted(p, q.set) ELSE p
  BY DEF Patched, sp
<1>7. n[f] = "Approved" => f \in t \/ r[f] = "Approved"  BY UnlockedGrantsTaken DEF StaffRails
<1>8. f \in t \/ n[f] # r[f] \/ EditsDraft(q.set, q.user, r)  BY <1>3 DEF Touched
<1> HIDE DEF n, p
<1>9. ~EditsDraft(q.set, q.user, r)  BY <1>4, <1>5, <1>6, EditGrantsNothing DEF StaffRails
<1>10. f \in t  BY <1>4, <1>6, <1>7, <1>8, <1>9
<1>11. ~StaffBlocked(r, profile.role)  BY <1>10 DEF Refused
<1> QED  BY <1>0, <1>11, UnblockedMeetsGate

LEMMA PatchGate ==
    ASSUME GateInv, TypeOK', NEW w \in Workers, Patch(w)
    PROVE  GateInv' /\ Behind
PROOF
<1> DEFINE q == thread[w].q
           r == thread[w].row
           read == thread[w].read
           c == Charges(q.set, q.user, r)
           p == Patched(q.set, q.user, r, read)
           fs == Touched(q.set, q.user, r)
           s == IF c THEN Consume(summary, read, DebitUnits(r.kind, r.days), Intern)
                ELSE IF Approves(q.set, q.user, r, "mdAp") /\ ~r.emergency
                        /\ r.kind = "Menstrual"
                THEN ConsumeMenstrual(summary) ELSE summary
           k == IF c THEN 1 ELSE 0
<1>0. TypeOK /\ ProfileOK  BY DEF GateInv, TypeOK, ProfileOK
<1>1. q \in Requests /\ r \in Row /\ read \in Summary  BY <1>0, ThreadFacts DEF Patch
<1>2. GateMet(r, profile.role) => opened  BY DEF GateInv, CopyBehindGate, Patch
<1>3. \/ Reject(w)
      \/ Save(w, p, fs, s, k, Notes(r, p)) /\ ~Refused(q.set, q.user, r)
  BY DEF Patch
<1> HIDE DEF q, r, read
<1>4. p \in Row  BY <1>0, <1>1, PatchedType
<1>5. fs \in SUBSET Writable  BY TouchedColumns
<1>6. ASSUME ~Refused(q.set, q.user, r), NEW f \in fs \cap {"hrAp", "mdAp"}, p[f] = "Approved"
      PROVE  opened
  BY <1>0, <1>1, <1>2, <1>6, PatchBehindGate
<1> HIDE DEF p, fs, s, k
<1> QED  BY <1>3, <1>4, <1>5, <1>6, RejectGate, SaveGate

LEMMA RespondGate ==
    ASSUME GateInv, TypeOK', NEW w \in Workers, Respond(w)
    PROVE  GateInv' /\ Behind
PROOF
<1> DEFINE q == thread[w].q
           r == thread[w].row
           s == [r EXCEPT !.altAp = q.set["altAp"]]
           p == IF s.altAp = "Approved" /\ Sequential(r, profile.role)
                THEN AfterCover(s, profile.role, profile.lead) ELSE s
           fs == {"altAp"} \cup {f \in RailNames : p[f] # r[f]}
           n == IF s.altAp = "Approved" THEN Notes(r, s) ELSE {}
<1>0. TypeOK /\ profile.role \in Roles /\ profile.lead \in Person
  BY DEF GateInv, TypeOK
<1>1. q \in Requests /\ r \in Row /\ q.op = "respond"
  BY <1>0, ThreadFacts DEF Respond, Busy
<1>2. Reject(w) \/ Save(w, p, fs, summary, 0, n)  BY DEF Respond
<1> HIDE DEF q, r
<1>3. q.set["altAp"] \in Statuses  BY <1>1, LeaveAssumption DEF WellFormed, Statuses
<1>4. s \in Row /\ s["hrAp"] = r["hrAp"] /\ s["mdAp"] = r["mdAp"]
  BY <1>1, <1>3 DEF Row, Rail
<1> HIDE DEF s
<1>5. p \in Row  BY <1>0, <1>4, RailHelpers
<1>6. fs \in SUBSET Writable  BY DEF Writable, RailNames
<1>7. ASSUME NEW f \in fs \cap {"hrAp", "mdAp"}, p[f] = "Approved"  PROVE FALSE
  <2>1. p[f] # r[f]  BY <1>7
  <2>2. s[f] = "Approved"  BY <1>0, <1>4, <1>7, FollowUpsGrantNothing DEF StaffRails
  <2> QED  BY <1>4, <1>7, <2>1, <2>2
<1> HIDE DEF p, fs, n
<1> QED  BY <1>2, <1>5, <1>6, <1>7, RejectGate, SaveGate

LEMMA EditHistoryGate ==
    ASSUME GateInv, TypeOK', NEW w \in Workers, EditHistory(w)
    PROVE  GateInv' /\ Behind
PROOF
<1> DEFINE q == thread[w].q
           r == thread[w].row
           p == Redrafted(r, q.set)
           fs == EditColumns(r, q.set)
<1>0. TypeOK /\ ProfileOK  BY DEF GateInv, TypeOK, ProfileOK
<1>1. q \in Requests /\ r \in Row  BY <1>0, ThreadFacts DEF EditHistory, Busy
<1>2. Reject(w) \/ Save(w, p, fs, summary, 0, {})  BY DEF EditHistory
<1> HIDE DEF q, r
<1>3. p \in Row  BY <1>0, <1>1, EditedType
<1>4. fs \in SUBSET Writable  BY TouchedColumns
<1>5. \A f \in fs \cap {"hrAp", "mdAp"} : p[f] # "Approved"
  BY <1>0, <1>1, EditGrantsNothing DEF StaffRails
<1> HIDE DEF p, fs
<1> QED  BY <1>2, <1>3, <1>4, <1>5, RejectGate, SaveGate

LEMMA DestroyGate ==
    ASSUME GateInv, TypeOK', NEW w \in Workers, Destroy(w)
    PROVE  GateInv' /\ Behind
PROOF
<1>1. CASE Reject(w)  BY <1>1, RejectGate
<1>2. CASE /\ row.state = "live"
           /\ row' = [row EXCEPT !.state = "deleted"]
           /\ thread' = [thread EXCEPT ![w] = Idle]
           /\ profile' = profile
           /\ Remember
  <2>1. row'.state = "deleted" /\ row'.hrAp = row.hrAp /\ row'.mdAp = row.mdAp
    BY <1>2 DEF GateInv, TypeOK, Row
  <2>2. \A v \in Workers : thread'[v] = thread[v] \/ thread'[v] = Idle
    BY <1>2 DEF GateInv, TypeOK
  <2>3. GateInv'  BY <1>2, <2>1, <2>2, GateKept
  <2>4. Behind  BY <2>1 DEF Behind, NewlyApproved
  <2> QED  BY <2>3, <2>4
<1> QED  BY <1>1, <1>2 DEF Destroy

LEMMA CreateGate ==
    ASSUME GateInv, TypeOK', Create
    PROVE  GateInv' /\ Behind
PROOF
<1>1. PICK c \in Creations : \/ CreateGeneral(c)   \/ CreateShort(c)
                            \/ CreateMenstrual(c) \/ CreateEmergency(c)
  BY DEF Create
<1>2. profile' = profile /\ thread' = thread /\ Remember
  <2>1. ASSUME NEW r, NEW s, NEW k, NEW n, Created(r, s, k, n)
        PROVE  profile' = profile /\ thread' = thread /\ Remember
    BY <2>1 DEF Created
  <2>2. CreateGeneral(c) => profile' = profile /\ thread' = thread /\ Remember
    BY <2>1 DEF CreateGeneral
  <2>3. CreateShort(c) => profile' = profile /\ thread' = thread /\ Remember
    BY <2>1 DEF CreateShort
  <2>4. CreateMenstrual(c) => profile' = profile /\ thread' = thread /\ Remember
    BY <2>1 DEF CreateMenstrual
  <2>5. CreateEmergency(c) => profile' = profile /\ thread' = thread /\ Remember
    BY <2>1 DEF CreateEmergency
  <2> QED  BY <1>1, <2>2, <2>3, <2>4, <2>5
<1>3. row.state = "absent"  BY DEF Create
<1> QED  BY <1>2, <1>3, GateKept DEF Behind, NewlyApproved

\* Staff changes and balances: the row's rails stay, and the gate is not made weaker.
LEMMA OutsideGate ==
    ASSUME GateInv, TypeOK', CreditEarn \/ NextMonth \/ Reassign \/ DeleteUser
    PROVE  GateInv' /\ Behind
PROOF
<1>0. TypeOK /\ thread' = thread
  BY DEF GateInv, CreditEarn, NextMonth, Reassign, DeleteUser
<1>1. CASE CreditEarn \/ NextMonth
  <2>1. UNCHANGED <<row, profile, opened>>  BY <1>1 DEF CreditEarn, NextMonth
  <2>2. \A v \in Workers : CopyBehindGate(v)'
    BY <1>0, <2>1 DEF GateInv, CopyBehindGate
  <2> QED  BY <2>1, <2>2 DEF GateInv, Behind, NewlyApproved
<1>2. CASE Reassign \/ DeleteUser
  <2>1. /\ row'.state = row.state
        /\ row'.hrAp = row.hrAp
        /\ row'.mdAp = row.mdAp
    BY <1>0, <1>2 DEF Reassign, DeleteUser, TypeOK, Row
  <2>2. profile'.role \in {profile.role, "NoProfile"} /\ profile.role \in Roles
    <3>1. profile \in [role : Roles, lead : Person]  BY <1>0 DEF TypeOK
    <3>2. CASE Reassign  BY <3>1, <3>2 DEF Reassign
    <3>3. CASE DeleteUser
      <4>1. profile' = profile \/ profile' = [role |-> "NoProfile", lead |-> NoOne]
        BY <3>3 DEF DeleteUser
      <4> QED  BY <3>1, <4>1
    <3> QED  BY <1>2, <3>2, <3>3
  <2>3. Remember  BY <1>2 DEF Reassign, DeleteUser
  <2>4. (opened => opened') /\ (row'.state = "live" /\ GateMet(row', profile'.role) => opened')
    BY <2>3 DEF Remember
  <2>5. ASSUME NEW v \in Workers, thread'[v] # Idle
        PROVE  /\ row'.state # "absent"
               /\ GateMet(thread'[v].row, profile'.role) => opened'
    <3>1. CopyBehindGate(v) /\ thread[v] # Idle  BY <1>0, <2>5 DEF GateInv
    <3>2. thread[v].row \in Row  BY <1>0, <3>1, ThreadFacts
    <3>3. GateMet(thread[v].row, profile'.role) => GateMet(thread[v].row, profile.role)
      BY <2>2, <3>2, NoProfileStrictest
    <3> QED  BY <1>0, <2>1, <2>4, <3>1, <3>3 DEF CopyBehindGate
  <2>6. \A v \in Workers : CopyBehindGate(v)'  BY <2>5 DEF CopyBehindGate
  <2> QED  BY <2>1, <2>4, <2>6 DEF GateInv, Behind, NewlyApproved
<1> QED  BY <1>1, <1>2

LEMMA LoadGate ==
    ASSUME GateInv, TypeOK', NEW w \in Workers,
           ReadBalance(w) \/ \E q \in Requests : Load(w, q)
    PROVE  GateInv' /\ Behind
PROOF
<1>0. TypeOK /\ UNCHANGED <<row, profile, opened>>
  BY DEF GateInv, ReadBalance, Load
<1>1. \A v \in Workers : thread'[v] # Idle =>
         \/ thread[v] # Idle /\ thread'[v].row = thread[v].row
         \/ row.state = "live" /\ thread'[v].row = row
  <2>1. CASE ReadBalance(w)
    BY <1>0, <2>1, ThreadFacts DEF ReadBalance, Busy, TypeOK, Thread
  <2>2. CASE \E q \in Requests : Load(w, q)
    BY <1>0, <2>2 DEF Load, TypeOK
  <2> QED  BY <2>1, <2>2
<1>2. \A v \in Workers : CopyBehindGate(v)'
  BY <1>0, <1>1 DEF GateInv, CopyBehindGate
<1> QED  BY <1>0, <1>2 DEF GateInv, Behind, NewlyApproved

LEMMA GateStep ==
    ASSUME GateInv, [Next]_vars
    PROVE  GateInv' /\ Behind
PROOF
<1>0. TypeOK'  BY TypeStep DEF GateInv
<1>1. CASE Create  BY <1>0, <1>1, CreateGate
<1>2. CASE CreditEarn \/ NextMonth \/ Reassign \/ DeleteUser  BY <1>0, <1>2, OutsideGate
<1>3. ASSUME NEW w \in Workers,
             \/ \E q \in Requests : Load(w, q)
             \/ ReadBalance(w) \/ Serve(w)
      PROVE  GateInv' /\ Behind
  BY <1>0, <1>3, LoadGate, PatchGate, RespondGate, EditHistoryGate, DestroyGate DEF Serve
<1>4. CASE UNCHANGED vars
  <2>1. \A v \in Workers : CopyBehindGate(v)'
    BY <1>4 DEF vars, GateInv, CopyBehindGate
  <2> QED  BY <1>0, <1>4, <2>1 DEF vars, GateInv, Behind, NewlyApproved
<1> QED  BY <1>1, <1>2, <1>3, <1>4 DEF Next

LEMMA GateInit == Init => GateInv
PROOF
<1> SUFFICES ASSUME Init PROVE GateInv
  OBVIOUS
<1>1. TypeOK  BY TypeInit
<1>2. row.state = "absent"  BY DEF Init, NoRow
<1>3. \A v \in Workers : CopyBehindGate(v)  BY DEF Init, CopyBehindGate
<1> QED  BY <1>1, <1>2, <1>3 DEF GateInv

\* However many workers decide on stale copies, and whatever else happens to the row,
\* the applicant's profile or the staff meanwhile: HR and MD approve only what has
\* passed its cover person and team lead.
THEOREM GateHolds == Spec => NoApprovalAheadOfTheGate
PROOF
<1>1. GateInv /\ [Next]_vars => GateInv'  BY GateStep
<1>2. GateInv /\ [Next]_vars =>
        [\A f \in {"hrAp", "mdAp"} : NewlyApproved(f) => opened]_vars
  BY GateStep DEF Behind
<1> QED  BY GateInit, <1>1, <1>2, PTL DEF Spec, NoApprovalAheadOfTheGate

-----------------------------------------------------------------------------
(* One request at a time.  What two overlapping requests can break holds as    *)
(* long as no two workers hold the application at once: one worker, or a lock   *)
(* on the row from the load to the save.                                      *)

OneAtATime == \A v, w \in Workers : thread[v] # Idle /\ thread[w] # Idle => v = w

\* A worker's copy and the row then agree, but for a cover person or a team lead
\* deleted meanwhile, and an MD's approval still knows the balances.
Kept == RowColumns \ {"alt", "lead"}

SameFunds(s, t) == s.casual = t.casual /\ s.earn = t.earn /\ s.unpaid = t.unpaid

CopyCurrent(w) ==
    thread[w] # Idle =>
        /\ thread[w].row.state = "live"
        /\ \A f \in Kept : thread[w].row[f] = row[f]
        /\ row.alt \in {thread[w].row.alt, NoOne}

InTurn == TypeOK /\ \A w \in Workers : CopyCurrent(w)

ReadCurrent == \A w \in Workers : Busy(w, "charging") => SameFunds(thread[w].read, summary)

\* No credit is booked between an approval's read of the balances and its save.
CreditsApart == CreditEarn => \A w \in Workers : ~Busy(w, "charging")

\* One worker takes its requests in turn.
LEMMA OneWorkerInTurn ==
    ASSUME \A v, w \in Workers : v = w
    PROVE  []OneAtATime
PROOF
<1>1. OneAtATime  BY DEF OneAtATime
<1> QED  BY <1>1, PTL

\* A served request leaves its worker idle, so nobody is left holding a copy.
LEMMA ServedDropsCopies ==
    ASSUME TypeOK, OneAtATime, NEW w \in Workers, thread[w] # Idle,
           thread' = [thread EXCEPT ![w] = Idle]
    PROVE  \A v \in Workers : CopyCurrent(v)'
PROOF
<1>1. \A v \in Workers : thread'[v] = Idle
  BY DEF OneAtATime, TypeOK
<1> QED  BY <1>1 DEF CopyCurrent

LEMMA ServeDrops ==
    ASSUME NEW w \in Workers, Serve(w)
    PROVE  thread[w] # Idle /\ thread' = [thread EXCEPT ![w] = Idle]
PROOF
<1>1. ASSUME NEW p, NEW fs, NEW s, NEW c, NEW n, Save(w, p, fs, s, c, n)
      PROVE  thread' = [thread EXCEPT ![w] = Idle]
  BY <1>1 DEF Save, Reject
<1>2. Reject(w) => thread' = [thread EXCEPT ![w] = Idle]  BY DEF Reject
<1>3. CASE Patch(w)  BY <1>1, <1>2, <1>3 DEF Patch
<1>4. CASE Respond(w)  BY <1>1, <1>2, <1>4 DEF Respond, Busy
<1>5. CASE EditHistory(w)  BY <1>1, <1>2, <1>5 DEF EditHistory, Busy
<1>6. CASE Destroy(w)  BY <1>2, <1>6 DEF Destroy, Busy
<1> QED  BY <1>3, <1>4, <1>5, <1>6 DEF Serve

LEMMA ServeKeepsProfile ==
    ASSUME NEW w \in Workers, Serve(w)
    PROVE  UNCHANGED <<profile, gone>>
PROOF
<1>1. ASSUME NEW p, NEW fs, NEW s, NEW c, NEW n, Save(w, p, fs, s, c, n)
      PROVE  UNCHANGED <<profile, gone>>
  BY <1>1 DEF Save, Reject
<1> QED
  BY <1>1 DEF Serve, Patch, Respond, EditHistory, Destroy, Reject

\* Creating the row changes no copy.
LEMMA CreateKeepsThreads ==
    ASSUME Create
    PROVE  /\ row.state = "absent"
           /\ UNCHANGED <<profile, gone, thread>>
           /\ Remember
           /\ sent' \subseteq {"cover"}
PROOF
<1>1. ASSUME NEW r, NEW s, NEW k, NEW n, Created(r, s, k, n)
      PROVE  UNCHANGED <<profile, gone, thread>> /\ Remember /\ sent' = n
  BY <1>1 DEF Created
<1>2. PICK c \in Creations : \/ CreateGeneral(c)   \/ CreateShort(c)
                            \/ CreateMenstrual(c) \/ CreateEmergency(c)
  BY DEF Create
<1>3. CASE CreateGeneral(c)  BY <1>1, <1>3 DEF CreateGeneral, Create
<1>4. CASE CreateShort(c)  BY <1>1, <1>4 DEF CreateShort, Create
<1>5. CASE CreateMenstrual(c)  BY <1>1, <1>5 DEF CreateMenstrual, Create
<1>6. CASE CreateEmergency(c)  BY <1>1, <1>6 DEF CreateEmergency, Create
<1>7. row.state = "absent"  BY DEF Create
<1> QED  BY <1>2, <1>3, <1>4, <1>5, <1>6, <1>7

LEMMA InTurnStep ==
    ASSUME InTurn, OneAtATime, [Next]_vars
    PROVE  InTurn'
PROOF
<1>0. TypeOK /\ TypeOK'  BY TypeStep DEF InTurn
<1>1. CASE Create
  <2>1. \A v \in Workers : thread[v] = Idle
    BY <1>0, <1>1, CreateKeepsThreads DEF InTurn, CopyCurrent, Kept, RowColumns
  <2>2. \A v \in Workers : CopyCurrent(v)'
    BY <1>1, <2>1, CreateKeepsThreads DEF CopyCurrent
  <2> QED  BY <1>0, <2>2 DEF InTurn
<1>2. CASE CreditEarn \/ NextMonth \/ Reassign
  <2>1. UNCHANGED <<row, thread>>  BY <1>2 DEF CreditEarn, NextMonth, Reassign
  <2>2. \A v \in Workers : CopyCurrent(v)'  BY <2>1 DEF InTurn, CopyCurrent
  <2> QED  BY <1>0, <2>2 DEF InTurn
<1>3. CASE DeleteUser
  <2>1. thread' = thread  BY <1>3 DEF DeleteUser
  <2>2. row'.alt \in {row.alt, NoOne} /\ \A f \in Kept : row'[f] = row[f]
    BY <1>0, <1>3 DEF DeleteUser, TypeOK, Row, Kept, RowColumns
  <2>3. \A v \in Workers : CopyCurrent(v)'
    BY <2>1, <2>2 DEF InTurn, CopyCurrent
  <2> QED  BY <1>0, <2>3 DEF InTurn
<1>4. ASSUME NEW w \in Workers, NEW q \in Requests, Load(w, q)
      PROVE  InTurn'
  <2>1. row' = row /\ row.state = "live"  BY <1>4 DEF Load
  <2>2. \A v \in Workers : thread'[v] = thread[v] \/ thread'[v].row = row
    BY <1>0, <1>4 DEF Load, TypeOK
  <2>3. \A v \in Workers : CopyCurrent(v)'
    BY <2>1, <2>2 DEF InTurn, CopyCurrent
  <2> QED  BY <1>0, <2>3 DEF InTurn
<1>5. ASSUME NEW w \in Workers, ReadBalance(w)
      PROVE  InTurn'
  <2>1. row' = row  BY <1>5 DEF ReadBalance
  <2>2. thread[w] \in Thread /\ thread[w] # Idle
    BY <1>0, <1>5, ThreadFacts DEF ReadBalance, Busy
  <2>3. thread'[w] = [thread[w] EXCEPT !.pc = "charging", !.read = summary]
    BY <1>0, <1>5 DEF ReadBalance, TypeOK
  <2>4. thread'[w].row = thread[w].row  BY <2>2, <2>3 DEF Thread
  <2>5. \A v \in Workers \ {w} : thread'[v] = thread[v]
    BY <1>0, <1>5 DEF ReadBalance, TypeOK
  <2>6. \A v \in Workers : CopyCurrent(v)'
    BY <2>1, <2>2, <2>4, <2>5 DEF InTurn, CopyCurrent
  <2> QED  BY <1>0, <2>6 DEF InTurn
<1>6. ASSUME NEW w \in Workers, Serve(w)
      PROVE  InTurn'
  BY <1>0, <1>6, ServeDrops, ServedDropsCopies DEF InTurn
<1>7. CASE UNCHANGED vars
  <2>1. \A v \in Workers : CopyCurrent(v)'  BY <1>7 DEF vars, InTurn, CopyCurrent
  <2> QED  BY <1>0, <2>1 DEF InTurn
<1> QED  BY <1>1, <1>2, <1>3, <1>4, <1>5, <1>6, <1>7 DEF Next

\* A credit is never a stuttering step.
LEMMA CreditMoves ==
    ASSUME TypeOK, CreditEarn, [CreditsApart]_vars
    PROVE  CreditsApart
PROOF
<1>1. tally'.credits # tally.credits  BY DEF CreditEarn, TypeOK
<1> QED  BY <1>1 DEF vars

LEMMA ReadStep ==
    ASSUME InTurn, ReadCurrent, OneAtATime, [CreditsApart]_vars, [Next]_vars
    PROVE  ReadCurrent'
PROOF
<1>0. TypeOK  BY DEF InTurn
<1>1. CASE Create
  <2>1. thread' = thread /\ row.state = "absent"  BY <1>1, CreateKeepsThreads
  <2>2. \A v \in Workers : thread[v] = Idle
    BY <2>1 DEF InTurn, CopyCurrent, Kept, RowColumns
  <2> QED  BY <2>1, <2>2 DEF ReadCurrent, Busy
<1>2. CASE CreditEarn
  <2>1. CreditsApart  BY <1>0, <1>2, CreditMoves
  <2> QED  BY <1>2, <2>1 DEF CreditsApart, CreditEarn, ReadCurrent, Busy
<1>3. CASE NextMonth
  <2>1. SameFunds(summary, summary')
    BY <1>0, <1>3 DEF NextMonth, TypeOK, Summary, SameFunds
  <2> QED  BY <1>3, <2>1 DEF NextMonth, ReadCurrent, Busy, SameFunds
<1>4. CASE Reassign \/ DeleteUser
  <2>1. UNCHANGED <<thread, summary>>  BY <1>4 DEF Reassign, DeleteUser
  <2> QED  BY <2>1 DEF ReadCurrent, Busy
<1>5. ASSUME NEW w \in Workers, NEW q \in Requests, Load(w, q)
      PROVE  ReadCurrent'
  <2>1. summary' = summary  BY <1>5 DEF Load
  <2>2. \A v \in Workers : thread'[v] = thread[v] \/ thread'[v].pc = "loaded"
    BY <1>0, <1>5 DEF Load, TypeOK
  <2> QED  BY <2>1, <2>2 DEF ReadCurrent, Busy
<1>6. ASSUME NEW w \in Workers, ReadBalance(w)
      PROVE  ReadCurrent'
  <2>1. summary' = summary  BY <1>6 DEF ReadBalance
  <2>2. thread[w] \in Thread  BY <1>0, <1>6, ThreadFacts DEF ReadBalance, Busy
  <2>3. thread'[w].read = summary
    BY <1>0, <1>6, <2>2 DEF ReadBalance, TypeOK, Thread
  <2>4. \A v \in Workers \ {w} : thread'[v] = thread[v]
    BY <1>0, <1>6 DEF ReadBalance, TypeOK
  <2> QED  BY <2>1, <2>3, <2>4 DEF ReadCurrent, Busy, SameFunds
<1>7. ASSUME NEW w \in Workers, Serve(w)
      PROVE  ReadCurrent'
  <2>1. \A v \in Workers : thread'[v] = Idle
    BY <1>0, <1>7, ServeDrops DEF OneAtATime, TypeOK
  <2> QED  BY <2>1 DEF ReadCurrent, Busy
<1>8. CASE UNCHANGED vars  BY <1>8 DEF vars, ReadCurrent, Busy
<1> QED  BY <1>1, <1>2, <1>3, <1>4, <1>5, <1>6, <1>7, <1>8 DEF Next

LEMMA InTurnInit == Init => InTurn /\ ReadCurrent
BY TypeInit DEF Init, InTurn, CopyCurrent, ReadCurrent, Busy

-----------------------------------------------------------------------------
(* What a PATCH saves: either the applicant's edit of a draft that nobody has   *)
(* approved, or rails alone, with the split when it charges.                   *)

\* Unlocking keeps every approval the payload does not touch, and what it signs.
LEMMA UnlockedKeeps ==
    ASSUME ProfileOK, NEW q \in Requests, NEW r \in Row
    PROVE  LET n == Unlocked(q.set, q.user, r) IN
           /\ \A f \in RowColumns \ RailNames : n[f] = r[f]
           /\ n["altAp"] = IF "altAp" \in Taken(q.set, q.user, r) THEN q.set["altAp"] ELSE r["altAp"]
           /\ \A f \in StaffRails \ Taken(q.set, q.user, r) :
                 r[f] = "Approved" => n[f] = "Approved"
           /\ \A f \in StaffRails \cap Taken(q.set, q.user, r) :
                 q.set[f] = "Approved" <=> n[f] = "Approved"
PROOF
<1> DEFINE s == Signed(q.set, q.user, r)
           c == AfterCover(s, profile.role, profile.lead)
           n == Unlocked(q.set, q.user, r)
           t == Taken(q.set, q.user, r)
<1>0. profile.role \in Roles /\ profile.lead \in Person  BY DEF ProfileOK
<1>1. s \in Row /\ n \in Row  BY UnlockedType
<1>2. t \subseteq RailNames  BY DEF Taken, MayWrite
<1>3. \A f \in RowColumns : s[f] = IF f \in t THEN q.set[f] ELSE r[f]
  BY DEF Signed, Overwrite, Row, RowColumns
<1> HIDE DEF s, t
<1>4. c \in Row  BY <1>0, <1>1, RailHelpers
<1>5. ASSUME NEW x \in Row
      PROVE  /\ \A f \in RowColumns \ StaffRails :
                   UnlockHrMd(x)[f] = x[f] /\ AfterCover(x, profile.role, profile.lead)[f] = x[f]
             /\ \A f \in StaffRails : x[f] = "Approved" =>
                   /\ UnlockHrMd(x)[f] = "Approved"
                   /\ AfterCover(x, profile.role, profile.lead)[f] = "Approved"
  BY DEF UnlockHrMd, AfterCover, Row, RowColumns, StaffRails
<1>6. ASSUME NEW f \in StaffRails, NEW x \in Row
      PROVE  /\ UnlockHrMd(x)[f] = "Approved" => x[f] = "Approved"
             /\ AfterCover(x, profile.role, profile.lead)[f] = "Approved" => x[f] = "Approved"
  BY <1>0, FollowUpsGrantNothing
<1> HIDE DEF c
<1>7. n = s \/ n = UnlockHrMd(s) \/ n = c \/ n = UnlockHrMd(c)
  BY DEF Unlocked, s, c
<1> HIDE DEF n
<1>8. /\ \A f \in RowColumns \ StaffRails : n[f] = s[f]
      /\ \A f \in StaffRails : s[f] = "Approved" <=> n[f] = "Approved"
  BY <1>1, <1>4, <1>5, <1>6, <1>7 DEF c
<1>9. StaffRails \subseteq RowColumns /\ StaffRails \subseteq RailNames /\ "altAp" \in RowColumns
      /\ "altAp" \notin StaffRails
  BY DEF StaffRails, RowColumns, RailNames
<1>10. \A f \in RowColumns \ RailNames : n[f] = r[f]  BY <1>2, <1>3, <1>8, <1>9
<1>11. n["altAp"] = IF "altAp" \in t THEN q.set["altAp"] ELSE r["altAp"]
  BY <1>3, <1>8, <1>9
<1>12. /\ \A f \in StaffRails \ t : r[f] = "Approved" => n[f] = "Approved"
       /\ \A f \in StaffRails \cap t : q.set[f] = "Approved" <=> n[f] = "Approved"
  BY <1>3, <1>8, <1>9
<1> QED  BY <1>10, <1>11, <1>12 DEF n, t

\* The applicant's edit by PATCH: nothing is approved before or after it.
LEMMA DraftPatch ==
    ASSUME ProfileOK, NEW q \in Requests, NEW r \in Row, NEW read \in Summary,
           EditsDraft(q.set, q.user, r)
    PROVE  LET p  == Patched(q.set, q.user, r, read)
               fs == Touched(q.set, q.user, r)
           IN  /\ ~Charges(q.set, q.user, r)
               /\ "split" \notin fs
               /\ \A f \in StaffRails : /\ p[f] # "Approved"
                                        /\ f \in fs \/ r[f] # "Approved"
PROOF
<1> DEFINE n == Unlocked(q.set, q.user, r)
<1>1. n \in Row  BY UnlockedType
<1>2. \A f \in RailNames : n[f] # "Approved"  BY DEF EditsDraft, AnyGranted
<1>3. ~Charges(q.set, q.user, r)
  <2>1. SUFFICES ASSUME Charges(q.set, q.user, r) PROVE FALSE
    OBVIOUS
  <2>2. "mdAp" \in Taken(q.set, q.user, r) /\ q.set["mdAp"] = "Approved"
    BY <2>1 DEF Charges, Approves
  <2>3. n["mdAp"] = "Approved"  BY <2>2, UnlockedKeeps DEF StaffRails
  <2> QED  BY <1>2, <2>3 DEF RailNames
<1>4. Patched(q.set, q.user, r, read) = Redrafted(n, q.set)
  BY <1>3 DEF Patched
<1>5. StaffRails \subseteq RailNames  BY DEF StaffRails, RailNames
<1>6. \A f \in StaffRails : n[f] # r[f] => f \in Touched(q.set, q.user, r)
  BY <1>5 DEF Touched
<1>7. "split" \notin Touched(q.set, q.user, r)
  <2>1. "split" \notin Taken(q.set, q.user, r)  BY DEF Taken, MayWrite, RailNames
  <2>2. "split" \notin EditColumns(n, q.set)
    BY DEF EditColumns, Drafts, RailNames
  <2> HIDE DEF n
  <2> QED  BY <1>3, <2>1, <2>2 DEF Touched, RailNames, n
<1> HIDE DEF n
<1>8. \A f \in StaffRails : Redrafted(n, q.set)[f] # "Approved"
  BY <1>1, <1>2, <1>5, EditGrantsNothing
<1>9. \A f \in StaffRails : f \in Touched(q.set, q.user, r) \/ r[f] # "Approved"
  BY <1>2, <1>5, <1>6
<1> QED  BY <1>3, <1>4, <1>7, <1>8, <1>9

\* Any other PATCH: rails, and the split if it charges.
LEMMA RailPatch ==
    ASSUME ProfileOK, NEW q \in Requests, NEW r \in Row, NEW read \in Summary,
           ~EditsDraft(q.set, q.user, r)
    PROVE  LET p  == Patched(q.set, q.user, r, read)
               fs == Touched(q.set, q.user, r)
               n  == Unlocked(q.set, q.user, r)
               sp == SplitOf(read, DebitUnits(r.kind, r.days), Intern)
           IN  /\ fs \subseteq RailNames \cup {"split"}
               /\ "split" \in fs <=> Charges(q.set, q.user, r)
               /\ \A f \in RowColumns \ {"split"} : p[f] = n[f]
               /\ p["split"] = IF Charges(q.set, q.user, r) THEN sp ELSE r["split"]
               /\ \A f \in RailNames : p[f] # r[f] => f \in fs
PROOF
<1> DEFINE p == Patched(q.set, q.user, r, read)
           fs == Touched(q.set, q.user, r)
           n == Unlocked(q.set, q.user, r)
           sp == SplitOf(read, DebitUnits(r.kind, r.days), Intern)
<1>1. n \in Row  BY UnlockedType
<1>2. Taken(q.set, q.user, r) \subseteq RailNames  BY DEF Taken, MayWrite
<1>3. p = IF Charges(q.set, q.user, r) THEN [n EXCEPT !.split = sp] ELSE n
  BY DEF Patched
<1>4. fs = Taken(q.set, q.user, r) \cup {f \in RailNames : n[f] # r[f]}
           \cup (IF Charges(q.set, q.user, r) THEN {"split"} ELSE {})
  BY DEF Touched
<1>5. n["split"] = r["split"]  BY UnlockedKeeps DEF RowColumns, RailNames
<1> HIDE DEF p, fs, n, sp
<1>6. /\ \A f \in RowColumns \ {"split"} : p[f] = n[f]
      /\ p["split"] = IF Charges(q.set, q.user, r) THEN sp ELSE r["split"]
  BY <1>1, <1>3, <1>5 DEF Row, RowColumns
<1>7. fs \subseteq RailNames \cup {"split"}  BY <1>2, <1>4
<1>8. "split" \in fs <=> Charges(q.set, q.user, r)
  BY <1>2, <1>4 DEF RailNames
<1>9. \A f \in RailNames : p[f] # r[f] => f \in fs
  BY <1>4, <1>6 DEF RailNames, RowColumns
<1> QED  BY <1>6, <1>7, <1>8, <1>9 DEF p, fs, n, sp

\* A rail of staff that a PATCH approves anew is one the payload approves.
LEMMA FreshApproval ==
    ASSUME ProfileOK, NEW q \in Requests, NEW r \in Row, NEW read \in Summary,
           NEW f \in StaffRails, Patched(q.set, q.user, r, read)[f] = "Approved",
           r[f] # "Approved"
    PROVE  /\ ~EditsDraft(q.set, q.user, r)
           /\ Approves(q.set, q.user, r, f)
           /\ f \in Touched(q.set, q.user, r)
PROOF
<1>1. ~EditsDraft(q.set, q.user, r)  BY DraftPatch
<1>2. f \in RowColumns \ {"split"} /\ f \in RailNames
  BY DEF StaffRails, RowColumns, RailNames
<1>3. Unlocked(q.set, q.user, r)[f] = "Approved"  BY <1>1, <1>2, RailPatch
<1>4. f \in Taken(q.set, q.user, r)  BY <1>3, UnlockedGrantsTaken
<1>5. q.set[f] = "Approved"  BY <1>3, <1>4, UnlockedKeeps
<1> QED  BY <1>1, <1>4, <1>5 DEF Approves, Touched

\* The handler has charged whatever it approves, so the safety net finds a split.
LEMMA PatchNoSafetyNet ==
    ASSUME ProfileOK, NEW q \in Requests, NEW r \in Row, NEW read \in Summary,
           r.mdAp = row.mdAp
    PROVE  ~SignalCharge(Patched(q.set, q.user, r, read), row)
PROOF
<1> DEFINE p == Patched(q.set, q.user, r, read)
           n == Unlocked(q.set, q.user, r)
           units == DebitUnits(r.kind, r.days)
           sp == SplitOf(read, units, Intern)
<1>1. SUFFICES ASSUME SignalCharge(p, row) PROVE FALSE
  OBVIOUS
<1>2. Chargeable(p) /\ p.mdAp = "Approved" /\ r.mdAp # "Approved" /\ Total(p.split) = 0
  BY <1>1 DEF SignalCharge, MdSaved
<1>3. Approves(q.set, q.user, r, "mdAp") /\ ~EditsDraft(q.set, q.user, r)
  BY <1>2, FreshApproval DEF StaffRails
<1>4. \A f \in RowColumns \ {"split"} : p[f] = n[f]  BY <1>3, RailPatch
<1>5. p["kind"] = r["kind"] /\ p["days"] = r["days"] /\ p["emergency"] = r["emergency"]
  BY <1>4, UnlockedKeeps DEF RowColumns, RailNames
<1>6. Charges(q.set, q.user, r) /\ units > 0  BY <1>2, <1>3, <1>5 DEF Charges, Chargeable
<1>7. p["split"] = sp  BY <1>3, <1>6, RailPatch
<1>8. Total(sp) = units
  <2>1. Intern \in BOOLEAN  BY DEF Intern
  <2> QED  BY <2>1, UnitsType, SplitFacts
<1> HIDE DEF p, sp, units
<1> QED  BY <1>2, <1>6, <1>7, <1>8

-----------------------------------------------------------------------------
(* The books of one application. *)

LEMMA SlotKeepsFunds ==
    ASSUME NEW s \in Summary
    PROVE  /\ SameFunds(SyncMonth(s), s)
           /\ SameFunds(FinalizeShort(s), s)
           /\ SameFunds(ConsumeMenstrual(s), s)
PROOF
<1> DEFINE m == SyncMonth(s)
<1>1. m \in Summary /\ SameFunds(m, s)
  BY SlotType DEF SyncMonth, Summary, SameFunds
<1> HIDE DEF m
<1>2. SameFunds(FinalizeShort(s), s)
  BY <1>1 DEF FinalizeShort, Summary, SameFunds, m
<1> QED  BY <1>1, <1>2 DEF ConsumeMenstrual, Summary, SameFunds, m

\* What the waterfall takes from the balances it was given is what it charges.
LEMMA ConsumeAddsUp ==
    ASSUME NEW s \in Summary, NEW read \in Summary, NEW units \in Nat,
           NEW intern \in BOOLEAN, SameFunds(read, s)
    PROVE  LET t == Consume(s, read, units, intern) IN
           t.casual + t.earn + units + s.unpaid = s.casual + s.earn + t.unpaid
PROOF
<1> DEFINE sp == SplitOf(read, units, intern)
<1>1. /\ sp \in Split
      /\ Total(sp) = units
      /\ intern => sp.casual = 0 /\ sp.earn = 0
  BY SplitFacts DEF SplitOf
<1> HIDE DEF sp
<1>2. CASE intern
  BY <1>1, <1>2 DEF Consume, Summary, SameFunds, Split
<1>3. CASE ~intern
  BY <1>1, <1>3 DEF Consume, Summary, SameFunds, Split, Total, sp
<1> QED  BY <1>2, <1>3

\* A save that finds the row writes the columns it names and no other, but for the
\* split and the slot that the receivers may set.
LEMMA SavedRow ==
    ASSUME TypeOK, NEW w \in Workers, NEW p \in Row, NEW fs \in SUBSET Writable,
           NEW s, NEW c, NEW n, Save(w, p, fs, s, c, n), row.state = "live"
    PROVE  /\ \A f \in RowColumns \ {"slot", "split"} : row'[f] = IF f \in fs THEN p[f] ELSE row[f]
           /\ row'["state"] = "live" /\ row'["emergency"] = row["emergency"]
           /\ row'["lead"] = row["lead"]
           /\ ~SignalCharge(p, row) => row'["split"] = IF "split" \in fs THEN p["split"] ELSE row["split"]
           /\ UNCHANGED <<profile, gone>>
           /\ sent' = n
PROOF
<1> DEFINE m == Overwrite(row, p, fs)
<1>1. row' = SignalRow(m, p, row, s) /\ UNCHANGED <<profile, gone>> /\ sent' = n
  BY DEF Save, m
<1>2. m \in Row  BY RowColumn, OverwriteType DEF TypeOK
<1>3. DOMAIN row = RowColumns  BY DEF TypeOK, Row, RowColumns
<1>4. \A f \in RowColumns : m[f] = IF f \in fs THEN p[f] ELSE row[f]
  BY <1>3 DEF Overwrite, m
<1>5. "state" \notin fs /\ "emergency" \notin fs /\ "lead" \notin fs
  BY DEF Writable, RailNames, Drafts
<1> HIDE DEF m
<1>6. /\ \A f \in RowColumns \ {"slot", "split"} : row'[f] = m[f]
      /\ ~SignalCharge(p, row) => row'["split"] = m["split"]
  BY <1>1, <1>2 DEF SignalRow, Row, RowColumns
<1> QED  BY <1>1, <1>4, <1>5, <1>6 DEF RowColumns

\* A save that finds the row, when the safety net has nothing to charge.
LEMMA SaveBooks ==
    ASSUME TypeOK, NEW w \in Workers, NEW p \in Row, NEW fs \in SUBSET Writable,
           NEW s \in Summary, NEW c \in Nat, NEW n, Save(w, p, fs, s, c, n),
           row.state = "live", ~SignalCharge(p, row)
    PROVE  /\ \A f \in RowColumns \ {"slot"} : row'[f] = IF f \in fs THEN p[f] ELSE row[f]
           /\ row'["state"] = "live"
           /\ SameFunds(summary', s)
           /\ UNCHANGED <<profile, gone>>
           /\ sent' = n
           /\ tally'.charges = tally.charges + c
           /\ tally'.units = tally.units + c * DebitUnits(p.kind, p.days)
           /\ tally'.credits = tally.credits
           /\ tally'.approvals = tally.approvals +
                 (IF row'.mdAp = "Approved" /\ row.mdAp # "Approved" /\ Chargeable(row')
                  THEN 1 ELSE 0)
PROOF
<1>1. /\ summary' = SignalSummary(s, p, row)
      /\ tally' = [tally EXCEPT
             !.charges = @ + (c + 0),
             !.units = @ + (c + 0) * DebitUnits(p.kind, p.days),
             !.approvals = @ + (IF row'.mdAp = "Approved" /\ row.mdAp # "Approved"
                                   /\ Chargeable(row') THEN 1 ELSE 0)]
  BY DEF Save
<1>2. SameFunds(summary', s)
  BY <1>1, SlotKeepsFunds DEF SignalSummary, SameFunds
<1>3. tally \in [charges : Nat, units : Nat, approvals : Nat, credits : Nat]
  BY DEF TypeOK
<1>4. c + 0 = c  OBVIOUS
<1>5. /\ \A f \in RowColumns \ {"slot", "split"} : row'[f] = IF f \in fs THEN p[f] ELSE row[f]
      /\ row'["split"] = IF "split" \in fs THEN p["split"] ELSE row["split"]
  BY SavedRow
<1>6. row'["state"] = "live" /\ UNCHANGED <<profile, gone>> /\ sent' = n  BY SavedRow
<1> QED  BY <1>1, <1>2, <1>3, <1>4, <1>5, <1>6

Books == ChargedAsApproved /\ BalancesAddUp

LEMMA Carried ==
    ASSUME NEW a \in Nat, NEW b \in Nat, NEW t \in Nat, NEW z \in Nat, NEW x \in Nat,
           NEW y \in Nat, NEW d \in Nat, NEW u \in Nat, NEW a1 \in Nat, NEW b1 \in Nat,
           NEW u1 \in Nat, NEW n \in Nat,
           a + b + t + z = x + y + d + u,
           a1 + b1 + n + u = a + b + u1
    PROVE  a1 + b1 + (t + n) + z = x + y + d + u1
OBVIOUS

\* A step that leaves the row's own charge and the balances alone.
LEMMA BooksUntouched ==
    ASSUME Books, SameFunds(summary', summary),
           tally'.units = tally.units, tally'.credits = tally.credits,
           row'.state = "live" => row.state = "live" /\ \A f \in Kept : row'[f] = row[f]
    PROVE  Books'
BY DEF Books, ChargedAsApproved, BalancesAddUp, SameFunds, Chargeable, Kept, RowColumns

LEMMA RejectBooks ==
    ASSUME Books, NEW w \in Workers, Reject(w)
    PROVE  Books' /\ UNCHANGED <<row, tally>>
BY BooksUntouched DEF Reject, SameFunds

\* An approval by the MD charges what it approves, and no other PATCH does.
LEMMA PatchBooks ==
    ASSUME InTurn, ReadCurrent, Books, NEW w \in Workers, Patch(w)
    PROVE  /\ Books'
           /\ OneChargePerApproval => OneChargePerApproval'
PROOF
<1> DEFINE q == thread[w].q
           r == thread[w].row
           read == thread[w].read
           units == DebitUnits(r.kind, r.days)
           c == Charges(q.set, q.user, r)
           p == Patched(q.set, q.user, r, read)
           fs == Touched(q.set, q.user, r)
           s == IF c THEN Consume(summary, read, units, Intern)
                ELSE IF Approves(q.set, q.user, r, "mdAp") /\ ~r.emergency
                        /\ r.kind = "Menstrual"
                THEN ConsumeMenstrual(summary) ELSE summary
           k == IF c THEN 1 ELSE 0
<1>0. TypeOK /\ ProfileOK /\ summary \in Summary /\ row \in Row
  BY DEF InTurn, TypeOK, ProfileOK
<1>1. thread[w] # Idle /\ q \in Requests /\ r \in Row /\ read \in Summary
  BY <1>0, ThreadFacts DEF Patch
<1>2. /\ \A f \in Kept : r[f] = row[f]
      /\ thread[w].pc = "charging" => SameFunds(read, summary)
  BY <1>1 DEF InTurn, CopyCurrent, ReadCurrent, Busy
<1>3. CASE Reject(w)
  BY <1>3, RejectBooks DEF OneChargePerApproval
<1>4. CASE ~Reject(w)
  <2>1. /\ Save(w, p, fs, s, k, Notes(r, p))
        /\ ~Refused(q.set, q.user, r)
        /\ c => thread[w].pc = "charging"
    BY <1>4 DEF Patch
  <2>2. row.state = "live"  BY <1>4, <2>1 DEF Save
  <2> HIDE DEF q, r, read
  <2>3. p \in Row /\ fs \in SUBSET Writable  BY <1>0, <1>1, PatchedType, TouchedColumns
  <2>4. r.mdAp = row.mdAp /\ r.kind = row.kind /\ r.days = row.days
        /\ r.emergency = row.emergency /\ r.split = row.split
    BY <1>2 DEF Kept, RowColumns
  <2>5. ~SignalCharge(p, row)  BY <1>0, <1>1, <2>4, PatchNoSafetyNet
  <2>6. units \in Nat /\ Intern \in BOOLEAN  BY <1>1, UnitsType DEF Intern
  <2>7. s \in Summary /\ k \in Nat
    BY <1>0, <1>1, <2>6, ConsumeType, SlotType
  <2>8. /\ \A f \in RowColumns \ {"slot"} : row'[f] = IF f \in fs THEN p[f] ELSE row[f]
        /\ row'["state"] = "live"
        /\ SameFunds(summary', s)
        /\ tally'.charges = tally.charges + k
        /\ tally'.units = tally.units + k * DebitUnits(p.kind, p.days)
        /\ tally'.credits = tally.credits
        /\ tally'.approvals = tally.approvals +
              (IF row'.mdAp = "Approved" /\ row.mdAp # "Approved" /\ Chargeable(row')
               THEN 1 ELSE 0)
    <3> HIDE DEF p, fs, s, k
    <3> QED  BY <1>0, <2>1, <2>2, <2>3, <2>5, <2>7, SaveBooks
  <2>9. tally \in [charges : Nat, units : Nat, approvals : Nat, credits : Nat]
    BY <1>0 DEF TypeOK
  <2>10. CASE c
    <3>1. Approves(q.set, q.user, r, "mdAp") /\ Chargeable(r) /\ units > 0
      BY <2>10 DEF Charges, Chargeable
    <3>2. ~EditsDraft(q.set, q.user, r)
      BY <1>0, <1>1, <2>10, DraftPatch
    <3>3. /\ "mdAp" \in fs /\ "split" \in fs
          /\ fs \subseteq RailNames \cup {"split"}
      BY <1>0, <1>1, <2>10, <3>1, <3>2, RailPatch DEF Touched, Approves
    <3>4. /\ p["kind"] = r["kind"] /\ p["days"] = r["days"]
          /\ p["split"] = SplitOf(read, units, Intern)
      BY <1>0, <1>1, <2>10, <3>2, RailPatch, UnlockedKeeps DEF RowColumns, RailNames
    <3>5. p["mdAp"] = "Approved"
      BY <1>0, <1>1, <3>1, <3>2, RailPatch, UnlockedKeeps
         DEF RowColumns, StaffRails, Approves
    <3>6. Total(p["split"]) = units  BY <1>1, <2>6, <3>4, SplitFacts
    <3>7. SameFunds(read, summary)  BY <1>2, <2>1, <2>10
    <3>8. s = Consume(summary, read, units, Intern)  BY <2>10
    <3>9. s.casual + s.earn + units + summary.unpaid = summary.casual + summary.earn + s.unpaid
      BY <1>0, <1>1, <2>6, <3>7, <3>8, ConsumeAddsUp
    <3>10. k = 1 /\ DebitUnits(p.kind, p.days) = units  BY <2>10, <3>4
    <3> HIDE DEF p, fs, s, k, c
    <3>11. /\ row'["mdAp"] = "Approved" /\ row'["split"] = p["split"]
           /\ row'["kind"] = r["kind"] /\ row'["days"] = r["days"]
           /\ row'["emergency"] = r["emergency"]
      BY <2>4, <2>8, <3>3, <3>5 DEF RowColumns, RailNames
    <3>12. Chargeable(row') /\ row.mdAp # "Approved"
      BY <2>4, <3>1, <3>11 DEF Chargeable, Approves
    <3>13. ChargedAsApproved'  BY <3>6, <3>11 DEF ChargedAsApproved
    <3>14. tally'.units = tally.units + units  BY <2>8, <2>9, <3>10, <2>6
    <3>15. summary' \in Summary /\ Summary0 \in Summary
      BY <1>0, LeaveAssumption, TypeStep, <2>1, <2>3, <2>7, SaveType, NotesType DEF TypeOK
    <3>16. BalancesAddUp'
      <4>1. summary.casual + summary.earn + tally.units + Summary0.unpaid
              = Summary0.casual + Summary0.earn + tally.credits + summary.unpaid
        BY DEF Books, BalancesAddUp
      <4>2. summary'.casual = s.casual /\ summary'.earn = s.earn /\ summary'.unpaid = s.unpaid
            /\ tally'.credits = tally.credits
        BY <2>8 DEF SameFunds
      <4>3. /\ s.casual \in Nat /\ s.earn \in Nat /\ s.unpaid \in Nat
            /\ summary.casual \in Nat /\ summary.earn \in Nat /\ summary.unpaid \in Nat
            /\ Summary0.casual \in Nat /\ Summary0.earn \in Nat /\ Summary0.unpaid \in Nat
            /\ tally.units \in Nat /\ tally.credits \in Nat
        BY <1>0, <2>7, <2>9, <3>15 DEF Summary
      <4>4. s.casual + s.earn + (tally.units + units) + Summary0.unpaid
              = Summary0.casual + Summary0.earn + tally.credits + s.unpaid
        <5> HIDE DEF units
        <5> QED  BY <2>6, <3>9, <4>1, <4>3, Carried
      <4> QED  BY <3>14, <4>2, <4>4 DEF BalancesAddUp
    <3>17. OneChargePerApproval => OneChargePerApproval'
      BY <2>8, <2>9, <3>10, <3>11, <3>12 DEF OneChargePerApproval
    <3> QED  BY <3>13, <3>16, <3>17 DEF Books
  <2>11. CASE ~c
    <3>1. k = 0 /\ tally'.units = tally.units
      <4>1. k = 0 /\ DebitUnits(p.kind, p.days) \in Nat  BY <2>3, <2>11, UnitsType
      <4> HIDE DEF k, p
      <4> QED  BY <2>8, <2>9, <4>1
    <3>2. SameFunds(s, summary)
      BY <1>0, <2>11, SlotKeepsFunds DEF SameFunds
    <3>3. p["mdAp"] = "Approved" /\ r["mdAp"] # "Approved" => ~Chargeable(r)
      BY <1>0, <1>1, <2>11, FreshApproval DEF StaffRails, Charges
    <3>4. CASE EditsDraft(q.set, q.user, r)
      <4>1. p["mdAp"] # "Approved" /\ ("mdAp" \in fs \/ r["mdAp"] # "Approved")
        BY <1>0, <1>1, <3>4, DraftPatch DEF StaffRails
      <4> HIDE DEF p, fs, s, k, c
      <4>2. row'["mdAp"] # "Approved"
        BY <2>4, <2>8, <4>1 DEF RowColumns
      <4>3. ChargedAsApproved'  BY <4>2 DEF ChargedAsApproved
      <4>4. BalancesAddUp'
        BY <2>8, <3>1, <3>2 DEF Books, BalancesAddUp, SameFunds
      <4>5. OneChargePerApproval => OneChargePerApproval'
        BY <2>8, <2>9, <3>1, <4>2 DEF OneChargePerApproval
      <4> QED  BY <4>3, <4>4, <4>5 DEF Books
    <3>5. CASE ~EditsDraft(q.set, q.user, r)
      <4>1. fs \subseteq RailNames  BY <1>0, <1>1, <2>11, <3>5, RailPatch
      <4> HIDE DEF p, fs, s, k, c
      <4>2. \A f \in {"kind", "days", "emergency", "split"} : row'[f] = r[f]
        BY <2>4, <2>8, <4>1 DEF RowColumns, RailNames
      <4>3. Chargeable(row') <=> Chargeable(r)  BY <4>2 DEF Chargeable
      <4>4. row'["mdAp"] = "Approved" /\ r["mdAp"] # "Approved" => ~Chargeable(r)
        BY <2>4, <2>8, <3>3 DEF RowColumns
      <4>5. ChargedAsApproved'
        BY <2>2, <2>4, <4>2, <4>3, <4>4 DEF Books, ChargedAsApproved, Chargeable
      <4>6. BalancesAddUp'
        BY <2>8, <3>1, <3>2 DEF Books, BalancesAddUp, SameFunds
      <4>7. OneChargePerApproval => OneChargePerApproval'
        BY <2>8, <2>9, <3>1 DEF OneChargePerApproval
      <4> QED  BY <4>5, <4>6, <4>7 DEF Books
    <3> QED  BY <3>4, <3>5
  <2> QED  BY <2>10, <2>11
<1> QED  BY <1>3, <1>4

\* A save that approves nothing for the MD and leaves an approved row's draft alone.
LEMMA QuietSaveBooks ==
    ASSUME TypeOK, Books, NEW w \in Workers, NEW p \in Row, NEW fs \in SUBSET Writable,
           NEW n, Save(w, p, fs, summary, 0, n),
           "split" \notin fs,
           p.mdAp = "Approved" => row.mdAp = "Approved",
           row.mdAp = "Approved" => fs \subseteq RailNames
    PROVE  /\ Books'
           /\ OneChargePerApproval => OneChargePerApproval'
PROOF
<1>1. CASE Reject(w)  BY <1>1, RejectBooks DEF OneChargePerApproval
<1>2. CASE ~Reject(w)
  <2>1. row.state = "live"  BY <1>2 DEF Save
  <2>2. ~SignalCharge(p, row)  BY DEF SignalCharge, MdSaved
  <2>3. summary \in Summary /\ 0 \in Nat /\ DebitUnits(p.kind, p.days) \in Nat
    BY UnitsType DEF TypeOK
  <2>4. /\ \A f \in RowColumns \ {"slot"} : row'[f] = IF f \in fs THEN p[f] ELSE row[f]
        /\ SameFunds(summary', summary)
        /\ tally'.charges = tally.charges + 0
        /\ tally'.units = tally.units + 0 * DebitUnits(p.kind, p.days)
        /\ tally'.credits = tally.credits
        /\ tally'.approvals = tally.approvals +
              (IF row'.mdAp = "Approved" /\ row.mdAp # "Approved" /\ Chargeable(row')
               THEN 1 ELSE 0)
    BY <2>1, <2>2, <2>3, SaveBooks
  <2>5. tally \in [charges : Nat, units : Nat, approvals : Nat, credits : Nat]
    BY DEF TypeOK
  <2>6. tally'.units = tally.units /\ tally'.charges = tally.charges
        /\ tally'.approvals \in Nat /\ tally'.approvals >= tally.approvals
    BY <2>3, <2>4, <2>5
  <2>7. row'["mdAp"] = "Approved" =>
          /\ row["mdAp"] = "Approved"
          /\ \A f \in {"kind", "days", "emergency", "split"} : row'[f] = row[f]
    BY <2>4 DEF RowColumns, RailNames
  <2>8. ChargedAsApproved'
    BY <2>1, <2>7 DEF Books, ChargedAsApproved, Chargeable
  <2>9. BalancesAddUp'
    BY <2>4, <2>6 DEF Books, BalancesAddUp, SameFunds
  <2>10. OneChargePerApproval => OneChargePerApproval'
    BY <2>5, <2>6 DEF OneChargePerApproval
  <2> QED  BY <2>8, <2>9, <2>10 DEF Books
<1> QED  BY <1>1, <1>2

\* The answer of the cover person and the applicant's edit of the history charge nothing.
LEMMA OtherServeBooks ==
    ASSUME InTurn, Books, NEW w \in Workers, Respond(w) \/ EditHistory(w) \/ Destroy(w)
    PROVE  /\ Books'
           /\ OneChargePerApproval => OneChargePerApproval'
PROOF
<1> DEFINE q == thread[w].q
           r == thread[w].row
<1>0. TypeOK /\ ProfileOK /\ profile.role \in Roles /\ profile.lead \in Person
  BY DEF InTurn, TypeOK, ProfileOK
<1>1. thread[w] # Idle /\ q \in Requests /\ r \in Row
  BY <1>0, ThreadFacts DEF Respond, EditHistory, Destroy, Busy
<1>2. \A f \in Kept : r[f] = row[f]  BY <1>1 DEF InTurn, CopyCurrent
<1>3. r["mdAp"] = row["mdAp"]  BY <1>2 DEF Kept, RowColumns
<1>4. CASE Reject(w)  BY <1>4, RejectBooks DEF OneChargePerApproval
<1>5. CASE Respond(w) /\ ~Reject(w)
  <2> DEFINE s == [r EXCEPT !.altAp = q.set["altAp"]]
             p == IF s.altAp = "Approved" /\ Sequential(r, profile.role)
                  THEN AfterCover(s, profile.role, profile.lead) ELSE s
             fs == {"altAp"} \cup {f \in RailNames : p[f] # r[f]}
             n == IF s.altAp = "Approved" THEN Notes(r, s) ELSE {}
  <2>1. Save(w, p, fs, summary, 0, n) /\ q.op = "respond"
    BY <1>5 DEF Respond, Busy
  <2> HIDE DEF q, r
  <2>2. q.set["altAp"] \in Statuses  BY <1>1, <2>1, LeaveAssumption DEF WellFormed, Statuses
  <2>3. s \in Row /\ s["mdAp"] = r["mdAp"]  BY <1>1, <2>2 DEF Row, Rail
  <2> HIDE DEF s
  <2>4. p \in Row  BY <1>0, <2>3, RailHelpers
  <2>5. p["mdAp"] = "Approved" => r["mdAp"] = "Approved"
    BY <1>0, <2>3, FollowUpsGrantNothing DEF StaffRails
  <2>6. fs \subseteq RailNames /\ fs \in SUBSET Writable /\ "split" \notin fs
    BY DEF Writable, RailNames
  <2> HIDE DEF p, fs, n
  <2> QED  BY <1>0, <1>3, <2>1, <2>4, <2>5, <2>6, QuietSaveBooks
<1>6. CASE EditHistory(w) /\ ~Reject(w)
  <2> DEFINE p == Redrafted(r, q.set)
             fs == EditColumns(r, q.set)
  <2>1. Save(w, p, fs, summary, 0, {}) /\ ~StaffGranted(r)
    BY <1>6 DEF EditHistory
  <2> HIDE DEF q, r
  <2>2. p \in Row /\ fs \in SUBSET Writable  BY <1>0, <1>1, EditedType, TouchedColumns
  <2>3. r["mdAp"] # "Approved"  BY <2>1 DEF StaffGranted, RailNames
  <2>4. p["mdAp"] # "Approved"
    BY <1>0, <1>1, <2>3, EditGrantsNothing DEF StaffRails
  <2>5. "split" \notin fs  BY DEF EditColumns, Drafts, RailNames
  <2> HIDE DEF p, fs
  <2> QED  BY <1>0, <1>3, <2>1, <2>2, <2>3, <2>4, <2>5, QuietSaveBooks
<1>7. CASE Destroy(w) /\ ~Reject(w)
  <2>1. row' = [row EXCEPT !.state = "deleted"] /\ UNCHANGED <<summary, tally>>
    BY <1>7 DEF Destroy
  <2>2. row'.state # "live"  BY <1>0, <2>1 DEF TypeOK, Row
  <2> QED  BY <2>1, <2>2, BooksUntouched DEF SameFunds, OneChargePerApproval
<1> QED  BY <1>4, <1>5, <1>6, <1>7

LEMMA CreatedBooks ==
    ASSUME TypeOK, Books, row.state = "absent",
           NEW r \in Row, NEW s \in Summary, NEW c \in Nat, NEW n, Created(r, s, c, n),
           NEW units \in Nat, units = c * DebitUnits(r.kind, r.days),
           s.casual + s.earn + units + summary.unpaid = summary.casual + summary.earn + s.unpaid,
           r.mdAp = "Approved" /\ Chargeable(r) => Total(r.split) = DebitUnits(r.kind, r.days)
    PROVE  /\ Books'
           /\ c = 0 /\ OneChargePerApproval => OneChargePerApproval'
PROOF
<1>1. /\ row' = r /\ summary' = s
      /\ tally' = [tally EXCEPT !.charges = @ + c,
                    !.units = @ + c * DebitUnits(r.kind, r.days),
                    !.approvals = @ + (IF r.mdAp = "Approved" /\ Chargeable(r) THEN 1 ELSE 0)]
  BY DEF Created
<1>2. tally \in [charges : Nat, units : Nat, approvals : Nat, credits : Nat]
      /\ summary \in Summary /\ Summary0 \in Summary
  BY LeaveAssumption DEF TypeOK
<1>3. /\ tally'.charges = tally.charges + c
      /\ tally'.units = tally.units + units
      /\ tally'.credits = tally.credits
      /\ tally'.approvals \in Nat /\ tally'.approvals >= tally.approvals
  BY <1>1, <1>2
<1>4. ChargedAsApproved'  BY <1>1 DEF ChargedAsApproved
<1>5. BalancesAddUp'
  <2>1. summary.casual + summary.earn + tally.units + Summary0.unpaid
          = Summary0.casual + Summary0.earn + tally.credits + summary.unpaid
    BY DEF Books, BalancesAddUp
  <2>2. /\ s.casual \in Nat /\ s.earn \in Nat /\ s.unpaid \in Nat
        /\ summary.casual \in Nat /\ summary.earn \in Nat /\ summary.unpaid \in Nat
        /\ Summary0.casual \in Nat /\ Summary0.earn \in Nat /\ Summary0.unpaid \in Nat
        /\ tally.units \in Nat /\ tally.credits \in Nat
    BY <1>2 DEF Summary
  <2>3. s.casual + s.earn + (tally.units + units) + Summary0.unpaid
          = Summary0.casual + Summary0.earn + tally.credits + s.unpaid
    BY <2>1, <2>2, Carried
  <2> QED  BY <1>1, <1>3, <2>3 DEF BalancesAddUp
<1>6. c = 0 /\ OneChargePerApproval => OneChargePerApproval'
  BY <1>2, <1>3 DEF OneChargePerApproval
<1> QED  BY <1>4, <1>5, <1>6 DEF Books

\* Only an MD's own application starts with the MD's approval, and the endpoint then
\* charges it twice: the receivers of the save once, create() once more.
LEMMA CreateGeneralBooks ==
    ASSUME TypeOK, Books, row.state = "absent", NEW c \in Creation, CreateGeneral(c)
    PROVE  /\ Books'
           /\ profile.role # "MD" /\ OneChargePerApproval => OneChargePerApproval'
PROOF
<1> DEFINE ro == profile.role
           ld == profile.lead
           f == [Fresh(c) EXCEPT !.emergency = c.flag]
           g == RegularRails(f, ro, ld)
           r == InitialCover(g)
           s1 == SignalSummary(summary, r, NoRow)
           r1 == SignalRow(r, r, NoRow, summary)
           units == DebitUnits(c.kind, c.days)
           again == ro = "MD" /\ Chargeable(r)
           s2 == IF again THEN Consume(s1, s1, units, Intern)
                 ELSE IF ro = "MD" /\ ~c.flag /\ c.kind = "Menstrual"
                 THEN ConsumeMenstrual(s1) ELSE s1
           r2 == IF again THEN [r1 EXCEPT !.split = SplitOf(s1, units, Intern)] ELSE r1
           n  == IF ~c.flag /\ c.kind # "Short" /\ c.alt # NoOne THEN {"cover"} ELSE {}
           k  == IF again THEN 2 ELSE 0
<1>0. /\ ro \in Roles /\ ld \in Person /\ summary \in Summary /\ NoRow \in Row
      /\ Intern \in BOOLEAN
  BY NoRowType DEF TypeOK, Intern
<1>c. c.kind \in Kinds /\ c.days \in Nat /\ c.flag \in BOOLEAN  BY DEF Creation
<1>1. Created(r2, s2, k, n)  BY DEF CreateGeneral
<1> HIDE DEF ro, ld
<1>2. f \in Row /\ f.kind = c.kind /\ f.days = c.days /\ f.split = NoSplit
  <2> DEFINE x == Fresh(c)
  <2>1. f \in Row /\ x \in Row  BY <1>c, FreshType
  <2>2. x.kind = c.kind /\ x.days = c.days /\ x.split = NoSplit  BY DEF Fresh, NoRow
  <2>3. f = [x EXCEPT !.emergency = c.flag]  OBVIOUS
  <2> HIDE DEF x, f
  <2> QED  BY <2>1, <2>2, <2>3 DEF Row
<1> HIDE DEF f
<1>3. /\ g \in Row /\ g.kind = f.kind /\ g.days = f.days /\ g.split = f.split
      /\ g.mdAp = "Approved" => ro = "MD"
  <2>1. g \in Row  BY <1>0, <1>2, RailSetters
  <2> DEFINE cl == ClearRails(f)
  <2>2. /\ cl \in Row /\ cl.kind = f.kind /\ cl.days = f.days /\ cl.split = f.split
        /\ cl.mdAp = "None"
    <3>1. cl \in Row  BY <1>0, <1>2, RailHelpers
    <3> QED  BY <1>2, <3>1 DEF ClearRails, Row
  <2> HIDE DEF cl
  <2>3. FirstRail(cl, ro, ld) \in Row
        /\ FirstRail(cl, ro, ld).kind = f.kind /\ FirstRail(cl, ro, ld).days = f.days
        /\ FirstRail(cl, ro, ld).split = f.split
        /\ FirstRail(cl, ro, ld).mdAp # "Approved"
    BY <2>2, <1>0, RailHelpers DEF FirstRail, Row
  <2>4. \/ ro = "MD" /\ g = [cl EXCEPT !.mdAp = "Approved"]
        \/ g = [cl EXCEPT !.mdAp = "Pending"]
        \/ g = cl
        \/ g = FirstRail(cl, ro, ld)
    BY DEF RegularRails, cl
  <2> HIDE DEF g
  <2> QED  BY <2>1, <2>2, <2>3, <2>4 DEF Row
<1> HIDE DEF g
<1>4. /\ r \in Row /\ r.kind = c.kind /\ r.days = c.days /\ r.split = NoSplit
      /\ r.mdAp = "Approved" => ro = "MD"
      /\ r.mdAp = g.mdAp
  BY <1>0, <1>2, <1>3, RailHelpers DEF InitialCover, Row
<1>5. ro = "MD" => r.mdAp = "Approved"
  BY <1>0, <1>2, <1>4, RailHelpers DEF RegularRails, g, Row
<1> HIDE DEF r
<1>6. s1 \in Summary /\ r1 \in Row  BY <1>0, <1>4, SignalType
<1>7. /\ r1.kind = c.kind /\ r1.days = c.days /\ r1.mdAp = r.mdAp
      /\ Chargeable(r1) => Chargeable(r)
  BY <1>4 DEF SignalRow, Row, Chargeable
<1>8. units \in Nat  BY <1>c DEF DebitUnits
<1>9. s2 \in Summary
  BY <1>0, <1>6, <1>8, ConsumeType, SlotType
<1>10. r2 \in Row
  <2>1. SplitOf(s1, units, Intern) \in Split  BY <1>0, <1>6, <1>8, SplitFacts
  <2> HIDE DEF r1
  <2> QED  BY <1>6, <2>1 DEF Row
<1>11. CASE again
  <2>1. SignalCharge(r, NoRow) /\ ~SignalSlot(r, NoRow) /\ ~SignalMenstrual(r, NoRow)
    BY <1>4, <1>5, <1>11 DEF SignalCharge, SignalSlot, SignalMenstrual, MdSaved,
       Chargeable, Total, NoSplit, NoRow, IsShort
  <2>2. s1 = Consume(summary, summary, units, Intern)
    BY <1>4, <2>1 DEF SignalSummary
  <2>3. s2 = Consume(s1, s1, units, Intern) /\ k = 2  BY <1>11
  <2> HIDE DEF s1
  <2>4. s1.casual + s1.earn + units + summary.unpaid = summary.casual + summary.earn + s1.unpaid
    BY <1>0, <1>8, <2>2, ConsumeAddsUp DEF SameFunds
  <2>5. s2.casual + s2.earn + units + s1.unpaid = s1.casual + s1.earn + s2.unpaid
    BY <1>0, <1>6, <1>8, <2>3, ConsumeAddsUp DEF SameFunds
  <2>6. s2.casual + s2.earn + (2 * units) + summary.unpaid
          = summary.casual + summary.earn + s2.unpaid
    <3>1. /\ s1.casual \in Nat /\ s1.earn \in Nat /\ s1.unpaid \in Nat
          /\ s2.casual \in Nat /\ s2.earn \in Nat /\ s2.unpaid \in Nat
          /\ summary.casual \in Nat /\ summary.earn \in Nat /\ summary.unpaid \in Nat
      BY <1>0, <1>6, <1>9 DEF Summary
    <3>2. ASSUME NEW a \in Nat, NEW b \in Nat, NEW u \in Nat, NEW a1 \in Nat, NEW b1 \in Nat,
                 NEW u1 \in Nat, NEW a2 \in Nat, NEW b2 \in Nat, NEW u2 \in Nat, NEW x \in Nat,
                 a1 + b1 + x + u = a + b + u1, a2 + b2 + x + u1 = a1 + b1 + u2
          PROVE  a2 + b2 + (2 * x) + u = a + b + u2
      BY <3>2
    <3> HIDE DEF s2, units
    <3> QED  BY <1>8, <2>4, <2>5, <3>1, <3>2
  <2>7. r2.kind = c.kind /\ r2.days = c.days /\ r2.split = SplitOf(s1, units, Intern)
    <3> HIDE DEF r1
    <3> QED  BY <1>6, <1>7, <1>11 DEF Row
  <2>8. Total(r2.split) = units  BY <1>0, <1>6, <1>8, <2>7, SplitFacts
  <2>9. 2 * units \in Nat /\ 2 * units = k * DebitUnits(r2.kind, r2.days)
    BY <1>8, <2>3, <2>7
  <2>10. profile.role = "MD"  BY <1>11 DEF ro
  <2> HIDE DEF s2, r2, k, n
  <2>11. k \in Nat  BY <2>3
  <2>12. Total(r2.split) = DebitUnits(r2.kind, r2.days)  BY <2>7, <2>8
  <2> HIDE DEF units
  <2> QED  BY <1>1, <1>9, <1>10, <2>6, <2>9, <2>10, <2>11, <2>12, CreatedBooks
<1>12. CASE ~again
  <2>1. ~SignalCharge(r, NoRow)
    BY <1>4, <1>12 DEF SignalCharge, MdSaved
  <2>2. SameFunds(s1, summary)
    BY <1>0, <2>1, SlotKeepsFunds DEF SignalSummary, SameFunds
  <2>3. SameFunds(s2, s1)
    BY <1>6, <1>12, SlotKeepsFunds DEF SameFunds
  <2>4. s2.casual + s2.earn + 0 + summary.unpaid = summary.casual + summary.earn + s2.unpaid
    <3>1. s2.casual = summary.casual /\ s2.earn = summary.earn /\ s2.unpaid = summary.unpaid
      BY <2>2, <2>3 DEF SameFunds
    <3>2. summary.casual \in Nat /\ summary.earn \in Nat /\ summary.unpaid \in Nat
      BY <1>0 DEF Summary
    <3> HIDE DEF s2
    <3> QED  BY <3>1, <3>2
  <2>5. r2 = r1 /\ k = 0  BY <1>12
  <2>6. ~(r2.mdAp = "Approved" /\ Chargeable(r2))
    BY <1>4, <1>7, <1>12, <2>5
  <2>7. DebitUnits(r2.kind, r2.days) \in Nat  BY <1>10, UnitsType
  <2> HIDE DEF s2, r2, k, n
  <2>8. 0 = k * DebitUnits(r2.kind, r2.days)  BY <2>5, <2>7
  <2>9. k \in Nat /\ 0 \in Nat  BY <2>5
  <2> QED  BY <1>1, <1>9, <1>10, <2>4, <2>5, <2>6, <2>8, <2>9, CreatedBooks
<1> QED  BY <1>11, <1>12

\* The other endpoints create rows that the waterfall is not for.
LEMMA UnchargedCreation ==
    ASSUME TypeOK, Books, row.state = "absent",
           NEW r \in Row, NEW s \in Summary, NEW n, Created(r, s, 0, n),
           SameFunds(s, summary), ~Chargeable(r)
    PROVE  Books' /\ (OneChargePerApproval => OneChargePerApproval')
PROOF
<1>1. DebitUnits(r.kind, r.days) \in Nat  BY UnitsType
<1>2. 0 \in Nat /\ 0 = 0 * DebitUnits(r.kind, r.days)  BY <1>1
<1>3. s.casual + s.earn + 0 + summary.unpaid = summary.casual + summary.earn + s.unpaid
  BY DEF SameFunds, Summary, TypeOK
<1> QED  BY <1>2, <1>3, CreatedBooks

LEMMA CreateOtherBooks ==
    ASSUME TypeOK, Books, row.state = "absent", NEW c \in Creation,
           CreateShort(c) \/ CreateMenstrual(c) \/ CreateEmergency(c)
    PROVE  Books' /\ (OneChargePerApproval => OneChargePerApproval')
PROOF
<1> DEFINE ro == profile.role
           ld == profile.lead
<1>0. /\ ro \in Roles /\ ld \in Person /\ summary \in Summary /\ NoRow \in Row
  BY NoRowType DEF TypeOK
<1>c. c.kind \in Kinds /\ c.days \in Nat /\ c.flag \in BOOLEAN  BY DEF Creation
<1>f. Fresh(c) \in Row /\ Fresh(c).kind = c.kind
  BY <1>c, FreshType DEF Fresh, NoRow
<1> HIDE DEF ro, ld
<1>1. CASE CreateShort(c)
  <2> DEFINE m == SyncMonth(summary)
             g == ShortRails(Fresh(c), ro, ld)
             r == InitialCover(g)
  <2>1. m \in Summary /\ SameFunds(m, summary)  BY <1>0, SlotType, SlotKeepsFunds
  <2>2. g \in Row /\ g.kind = "Short"
    <3>1. g \in Row  BY <1>0, <1>f, RailSetters
    <3>2. c.kind = "Short"  BY <1>1 DEF CreateShort
    <3>3. g.kind = Fresh(c).kind
      BY <1>f DEF ShortRails, ClearRails, Row
    <3> QED  BY <1>f, <3>1, <3>2, <3>3
  <2> HIDE DEF m, g
  <2>3. r \in Row /\ r.kind = "Short"  BY <1>0, <2>2, RailHelpers DEF InitialCover, Row
  <2> HIDE DEF r
  <2>4. SignalRow(r, r, NoRow, m) \in Row /\ SignalSummary(m, r, NoRow) \in Summary
    BY <1>0, <2>1, <2>3, SignalType
  <2>5. SignalRow(r, r, NoRow, m).kind = "Short"  BY <2>3 DEF SignalRow, Row
  <2>6. ~Chargeable(SignalRow(r, r, NoRow, m)) /\ ~Chargeable(r)
    BY <2>3, <2>5 DEF Chargeable
  <2>7. SameFunds(SignalSummary(m, r, NoRow), summary)
    BY <2>1, <2>6, SlotKeepsFunds DEF SignalSummary, SignalCharge, SameFunds
  <2>8. Created(SignalRow(r, r, NoRow, m), SignalSummary(m, r, NoRow), 0, {})
    BY <1>1 DEF CreateShort, m, g, r, ro, ld
  <2> QED  BY <2>4, <2>6, <2>7, <2>8, UnchargedCreation
<1>2. CASE CreateMenstrual(c)
  <2> DEFINE r == PreApproved(Fresh(c))
             s == SignalSummary(summary, r, NoRow)
  <2>1. r \in Row /\ r.kind = "Menstrual"
    <3>1. r \in Row  BY <1>0, <1>f, RailHelpers
    <3>2. c.kind = "Menstrual"  BY <1>2 DEF CreateMenstrual
    <3>3. r.kind = Fresh(c).kind  BY <1>f DEF PreApproved, Row
    <3> QED  BY <1>f, <3>1, <3>2, <3>3
  <2>2. Created(r, ConsumeMenstrual(s), 0, {})  BY <1>2 DEF CreateMenstrual
  <2> HIDE DEF r
  <2>3. ~Chargeable(r)  BY <2>1 DEF Chargeable
  <2>4. s \in Summary  BY <1>0, <2>1, SignalType
  <2>5. SameFunds(s, summary)
    BY <1>0, <2>3, SlotKeepsFunds DEF SignalSummary, SignalCharge, SameFunds
  <2> HIDE DEF s
  <2>6. ConsumeMenstrual(s) \in Summary /\ SameFunds(ConsumeMenstrual(s), summary)
    BY <2>4, <2>5, SlotType, SlotKeepsFunds DEF SameFunds
  <2> QED  BY <2>1, <2>2, <2>3, <2>6, UnchargedCreation
<1>3. CASE CreateEmergency(c)
  <2> DEFINE f == [Fresh(c) EXCEPT !.emergency = TRUE]
             g == PreApproved(f)
             r == InitialCover(g)
             s == [summary EXCEPT !.emergency = @ - c.days, !.used = @ + c.days]
  <2>1. f \in Row /\ f.emergency = TRUE
    <3>1. f \in Row  BY FreshType
    <3> QED  BY <1>f, <3>1 DEF Row
  <2> HIDE DEF f
  <2>2. g \in Row /\ g.emergency = TRUE
    <3>1. g \in Row  BY <1>0, <2>1, RailHelpers
    <3> QED  BY <2>1, <3>1 DEF PreApproved, Row
  <2> HIDE DEF g
  <2>3. r \in Row /\ r.emergency = TRUE
    <3>1. r \in Row  BY <1>0, <2>2, RailHelpers
    <3> QED  BY <2>2, <3>1 DEF InitialCover, Row
  <2>4. ~Chargeable(r)  BY <2>3 DEF Chargeable
  <2>5. CASE c.kind = "Menstrual"
    <3>1. Created(r, ConsumeMenstrual(summary), 0, {})
      BY <1>3, <2>5 DEF CreateEmergency, f, g
    <3>2. ConsumeMenstrual(summary) \in Summary /\ SameFunds(ConsumeMenstrual(summary), summary)
      BY <1>0, SlotType, SlotKeepsFunds
    <3> HIDE DEF r
    <3> QED  BY <2>3, <2>4, <3>1, <3>2, UnchargedCreation
  <2>6. CASE c.kind # "Menstrual"
    <3>1. Created(r, s, 0, {}) /\ c.days <= summary.emergency
      BY <1>3, <2>6 DEF CreateEmergency, f, g
    <3>2. summary.emergency - c.days \in Nat /\ summary.used + c.days \in Nat
      BY <1>0, <1>c, <3>1 DEF Summary
    <3>3. s \in Summary /\ SameFunds(s, summary)  BY <1>0, <3>2 DEF Summary, SameFunds
    <3> HIDE DEF r, s
    <3> QED  BY <2>3, <2>4, <3>1, <3>3, UnchargedCreation
  <2> QED  BY <2>5, <2>6
<1> QED  BY <1>1, <1>2, <1>3

LEMMA OutsideBooks ==
    ASSUME TypeOK, Books, CreditEarn \/ NextMonth \/ Reassign \/ DeleteUser
    PROVE  Books' /\ (OneChargePerApproval => OneChargePerApproval')
PROOF
<1>1. CASE CreditEarn
  <2>1. /\ summary' = [summary EXCEPT !.earn = @ + 2]
        /\ tally' = [tally EXCEPT !.credits = @ + 2] /\ row' = row
    BY <1>1 DEF CreditEarn
  <2>2. ChargedAsApproved'  BY <2>1 DEF Books, ChargedAsApproved
  <2>3. /\ summary'.casual = summary.casual /\ summary'.earn = summary.earn + 2
        /\ summary'.unpaid = summary.unpaid
        /\ tally'.units = tally.units /\ tally'.credits = tally.credits + 2
        /\ tally'.charges = tally.charges /\ tally'.approvals = tally.approvals
    BY <2>1 DEF TypeOK, Summary
  <2>4. BalancesAddUp'
    BY <2>3, LeaveAssumption DEF Books, BalancesAddUp, TypeOK, Summary
  <2> QED  BY <2>2, <2>3, <2>4 DEF Books, OneChargePerApproval
<1>2. CASE NextMonth
  <2>1. summary' = [summary EXCEPT !.stamp = FALSE] /\ UNCHANGED <<row, tally>>
    BY <1>2 DEF NextMonth
  <2>2. SameFunds(summary', summary)  BY <2>1 DEF TypeOK, Summary, SameFunds
  <2> QED  BY <2>1, <2>2, BooksUntouched DEF OneChargePerApproval
<1>3. CASE Reassign
  BY <1>3, BooksUntouched DEF Reassign, OneChargePerApproval, SameFunds
<1>4. CASE DeleteUser
  <2>1. UNCHANGED <<summary, tally>>  BY <1>4 DEF DeleteUser
  <2>2. row'.state = row.state /\ \A f \in Kept : row'[f] = row[f]
    BY <1>4 DEF DeleteUser, TypeOK, Row, Kept, RowColumns
  <2> QED  BY <2>1, <2>2, BooksUntouched DEF OneChargePerApproval, SameFunds
<1> QED  BY <1>1, <1>2, <1>3, <1>4

LEMMA BooksStep ==
    ASSUME InTurn, ReadCurrent, Books, [Next]_vars
    PROVE  /\ Books'
           /\ profile.role # "MD" /\ OneChargePerApproval => OneChargePerApproval'
PROOF
<1>0. TypeOK  BY DEF InTurn
<1>1. CASE Create
  <2>1. PICK c \in Creation : \/ CreateGeneral(c)   \/ CreateShort(c)
                             \/ CreateMenstrual(c) \/ CreateEmergency(c)
    BY <1>1, LeaveAssumption DEF Create
  <2>2. row.state = "absent"  BY <1>1 DEF Create
  <2> QED  BY <1>0, <2>1, <2>2, CreateGeneralBooks, CreateOtherBooks
<1>2. CASE CreditEarn \/ NextMonth \/ Reassign \/ DeleteUser  BY <1>0, <1>2, OutsideBooks
<1>3. ASSUME NEW w \in Workers, ReadBalance(w) \/ \E q \in Requests : Load(w, q)
      PROVE  Books' /\ (OneChargePerApproval => OneChargePerApproval')
  BY <1>3, BooksUntouched DEF ReadBalance, Load, SameFunds, OneChargePerApproval
<1>4. ASSUME NEW w \in Workers, Serve(w)
      PROVE  Books' /\ (OneChargePerApproval => OneChargePerApproval')
  BY <1>4, PatchBooks, OtherServeBooks DEF Serve
<1>5. CASE UNCHANGED vars
  BY <1>5, BooksUntouched DEF vars, SameFunds, OneChargePerApproval
<1> QED  BY <1>1, <1>2, <1>3, <1>4, <1>5 DEF Next

LEMMA BooksInit == Init => Books /\ OneChargePerApproval
PROOF
<1> SUFFICES ASSUME Init PROVE Books /\ OneChargePerApproval
  OBVIOUS
<1>1. row.state = "absent" /\ summary = Summary0  BY DEF Init, NoRow
<1>2. tally = [charges |-> 0, units |-> 0, approvals |-> 0, credits |-> 0]  BY DEF Init
<1>3. BalancesAddUp  BY <1>1, <1>2, LeaveAssumption DEF BalancesAddUp, Summary
<1>4. ChargedAsApproved  BY <1>1 DEF ChargedAsApproved
<1> QED  BY <1>2, <1>3, <1>4 DEF Books, OneChargePerApproval

\* An applicant's role changes only with the loss of the profile.
RoleKept == profile.role \in ApplicantRoles \cup {"NoProfile"}

LEMMA RoleStep ==
    ASSUME TypeOK, RoleKept, [Next]_vars
    PROVE  RoleKept'
PROOF
<1>1. CASE Create  BY <1>1, CreateKeepsThreads DEF RoleKept
<1>2. CASE CreditEarn \/ NextMonth  BY <1>2 DEF CreditEarn, NextMonth, RoleKept
<1>3. CASE Reassign  BY <1>3 DEF Reassign, RoleKept, TypeOK
<1>4. CASE DeleteUser  BY <1>4 DEF DeleteUser, RoleKept, TypeOK
<1>5. ASSUME NEW w \in Workers, ReadBalance(w) \/ \E q \in Requests : Load(w, q)
      PROVE  RoleKept'
  BY <1>5 DEF ReadBalance, Load, RoleKept
<1>6. ASSUME NEW w \in Workers, Serve(w)
      PROVE  RoleKept'
  BY <1>6, ServeKeepsProfile DEF RoleKept
<1>7. CASE UNCHANGED vars  BY <1>7 DEF vars, RoleKept
<1> QED  BY <1>1, <1>2, <1>3, <1>4, <1>5, <1>6, <1>7 DEF Next

\* Whatever the applicant's role, the requests and the balances: as long as no two
\* workers hold the application at once and no credit lands inside an approval, an
\* approved application carries the split of its own length and no half-day is lost.
THEOREM BooksBalance ==
    Spec /\ []OneAtATime /\ [][CreditsApart]_vars => [](ChargedAsApproved /\ BalancesAddUp)
PROOF
<1> DEFINE I == InTurn /\ ReadCurrent /\ Books
<1>1. Init => I  BY InTurnInit, BooksInit
<1>2. I /\ OneAtATime /\ [CreditsApart]_vars /\ [Next]_vars => I'
  BY InTurnStep, ReadStep, BooksStep
<1>3. I => ChargedAsApproved /\ BalancesAddUp  BY DEF Books
<1> HIDE DEF I
<1> QED  BY <1>1, <1>2, <1>3, PTL DEF Spec

\* If besides no MD is the applicant, each approval by the MD is paid for once: the
\* property that two overlapping approvals, a credit in between and the MD's own
\* application break.
THEOREM ChargedOnceInTurn ==
    ASSUME "MD" \notin ApplicantRoles
    PROVE  Spec /\ []OneAtATime /\ [][CreditsApart]_vars => []ChargedOnce
PROOF
<1> DEFINE I == InTurn /\ ReadCurrent /\ Books /\ OneChargePerApproval /\ RoleKept
<1>1. Init => I
  <2>1. Init => RoleKept  BY DEF Init, RoleKept
  <2> QED  BY <2>1, InTurnInit, BooksInit
<1>2. I /\ OneAtATime /\ [CreditsApart]_vars /\ [Next]_vars => I'
  <2> SUFFICES ASSUME I, OneAtATime, [CreditsApart]_vars, [Next]_vars
               PROVE  I'
    OBVIOUS
  <2>1. TypeOK /\ profile.role # "MD"  BY DEF InTurn, RoleKept
  <2>2. RoleKept'  BY <2>1, RoleStep
  <2> QED  BY <2>1, <2>2, InTurnStep, ReadStep, BooksStep
<1>3. I => ChargedOnce  BY DEF Books, ChargedOnce
<1> HIDE DEF I
<1> QED  BY <1>1, <1>2, <1>3, PTL DEF Spec

-----------------------------------------------------------------------------
(* The consent of the cover person. *)

\* Losing the profile must not put the chain on an application that HR or MD filed
\* without one.
RoleStays == Leavers = {} \/ profile.role \notin {"HR", "MD"}

ConsentInv == InTurn /\ RoleStays /\ CoverConsent

\* A saved row whose approvals by staff are old ones, or whose cover has consented.
LEMMA SaveConsent ==
    ASSUME TypeOK, CoverConsent, NEW w \in Workers, NEW p \in Row, NEW fs \in SUBSET Writable,
           NEW s, NEW c, NEW n, Save(w, p, fs, s, c, n),
           \/ \A f \in {"tlAp", "hrAp", "mdAp"} :
                 p[f] # "Approved" /\ (f \in fs \/ row[f] # "Approved")
           \/ /\ fs \cap {"kind", "alt"} = {}
              /\ "altAp" \notin fs \/ row.alt = NoOne \/ ~CoverGateOk(row)
              /\ \A f \in fs \cap {"tlAp", "hrAp", "mdAp"} :
                    p[f] = "Approved" /\ Sequential(row, profile.role)
                       => row[f] = "Approved" \/ CoverGateOk(row)
    PROVE  CoverConsent'
PROOF
<1>1. CASE row.state # "live"
  BY <1>1 DEF Save, Reject, CoverConsent
<1>2. CASE row.state = "live"
  <2>1. profile' = profile /\ row'["emergency"] = row["emergency"]
    BY <1>2, SavedRow
  <2>2. \A f \in RowColumns \ {"slot", "split"} : row'[f] = IF f \in fs THEN p[f] ELSE row[f]
    BY <1>2, SavedRow
  <2>3. CASE \A f \in {"tlAp", "hrAp", "mdAp"} :
                p[f] # "Approved" /\ (f \in fs \/ row[f] # "Approved")
    <3>1. \A f \in {"tlAp", "hrAp", "mdAp"} : row'[f] # "Approved"
      BY <2>2, <2>3 DEF RowColumns
    <3> QED  BY <3>1 DEF CoverConsent
  <2>4. CASE /\ fs \cap {"kind", "alt"} = {}
             /\ "altAp" \notin fs \/ row.alt = NoOne \/ ~CoverGateOk(row)
             /\ \A f \in fs \cap {"tlAp", "hrAp", "mdAp"} :
                   p[f] = "Approved" /\ Sequential(row, profile.role)
                      => row[f] = "Approved" \/ CoverGateOk(row)
    <3>1. row'["kind"] = row["kind"] /\ row'["alt"] = row["alt"]
          /\ row'["emergency"] = row["emergency"]
      BY <2>1, <2>2, <2>4 DEF RowColumns
    <3>2. Sequential(row', profile.role) <=> Sequential(row, profile.role)
      BY <3>1 DEF Sequential
    <3>3. CoverGateOk(row) => CoverGateOk(row')
      BY <2>2, <2>4, <3>1 DEF RowColumns, CoverGateOk
    <3>4. ASSUME Sequential(row, profile.role), NEW f \in {"tlAp", "hrAp", "mdAp"},
                 row'[f] = "Approved"
          PROVE  CoverGateOk(row)
      BY <1>2, <2>2, <2>4, <3>4 DEF RowColumns, CoverConsent
    <3> QED  BY <2>1, <3>2, <3>3, <3>4 DEF CoverConsent
  <2> QED  BY <2>3, <2>4
<1> QED  BY <1>1, <1>2

\* While staff decide, the cover person's answer stands: a PATCH that is not refused
\* writes that rail only if it is still open.
LEMMA PatchConsent ==
    ASSUME ConsentInv, NEW w \in Workers, Patch(w)
    PROVE  CoverConsent'
PROOF
<1> DEFINE q == thread[w].q
           r == thread[w].row
           read == thread[w].read
           c == Charges(q.set, q.user, r)
           p == Patched(q.set, q.user, r, read)
           fs == Touched(q.set, q.user, r)
           n == Unlocked(q.set, q.user, r)
           t == Taken(q.set, q.user, r)
           s == IF c THEN Consume(summary, read, DebitUnits(r.kind, r.days), Intern)
                ELSE IF Approves(q.set, q.user, r, "mdAp") /\ ~r.emergency
                        /\ r.kind = "Menstrual"
                THEN ConsumeMenstrual(summary) ELSE summary
           k == IF c THEN 1 ELSE 0
<1>0. TypeOK /\ ProfileOK /\ CoverConsent  BY DEF ConsentInv, InTurn, TypeOK, ProfileOK
<1>1. thread[w] # Idle /\ q \in Requests /\ r \in Row /\ read \in Summary
  BY <1>0, ThreadFacts DEF Patch
<1>2. /\ \A f \in Kept : r[f] = row[f]
      /\ row.alt \in {r.alt, NoOne}
  BY <1>1 DEF ConsentInv, InTurn, CopyCurrent
<1>3. \/ Reject(w)
      \/ Save(w, p, fs, s, k, Notes(r, p)) /\ ~Refused(q.set, q.user, r)
  BY DEF Patch
<1>4. CASE Reject(w)  BY <1>0, <1>4 DEF Reject, CoverConsent
<1>5. CASE Save(w, p, fs, s, k, Notes(r, p)) /\ ~Refused(q.set, q.user, r)
  <2> HIDE DEF q, r, read
  <2>1. p \in Row /\ fs \in SUBSET Writable  BY <1>0, <1>1, PatchedType, TouchedColumns
  <2>2. \A f \in RailNames : r[f] = row[f]
    BY <1>2 DEF Kept, RowColumns, RailNames
  <2>3. CASE EditsDraft(q.set, q.user, r)
    <3>1. \A f \in {"tlAp", "hrAp", "mdAp"} :
             p[f] # "Approved" /\ (f \in fs \/ row[f] # "Approved")
      BY <1>0, <1>1, <2>2, <2>3, DraftPatch DEF StaffRails, RailNames
    <3> HIDE DEF p, fs, s, k
    <3> QED  BY <1>0, <1>5, <2>1, <3>1, SaveConsent
  <2>4. CASE ~EditsDraft(q.set, q.user, r)
    <3>1. fs \subseteq RailNames \cup {"split"}  BY <1>0, <1>1, <2>4, RailPatch
    <3>2. fs \cap {"kind", "alt"} = {}  BY <3>1 DEF RailNames
    <3>3. Sequential(row, profile.role) <=> Sequential(r, profile.role)
      BY <1>2 DEF Sequential, Kept, RowColumns
    <3>4. CoverGateOk(r) => CoverGateOk(row)
      BY <1>2, <2>2 DEF CoverGateOk, RailNames
    <3>5. ASSUME NEW f \in fs \cap {"tlAp", "hrAp", "mdAp"},
                 p[f] = "Approved", Sequential(row, profile.role), row[f] # "Approved"
          PROVE  CoverGateOk(row)
      <4>1. f \in t
        BY <1>0, <1>1, <2>2, <3>5, FreshApproval DEF StaffRails, RailNames, Approves
      <4>2. CoverGateOk(r)
        <5> HIDE DEF t, p, fs
        <5> QED
          BY <1>5, <3>3, <3>5, <4>1 DEF t, Refused, LeadBlocked, StaffBlocked, ChainBlocked,
             CoverMissing, CoverGateOk
      <4> QED  BY <3>4, <4>2
    <3>6. "altAp" \notin fs \/ row.alt = NoOne \/ ~CoverGateOk(row)
      <4>1. SUFFICES ASSUME "altAp" \in fs, row.alt # NoOne PROVE ~CoverGateOk(row)
        OBVIOUS
      <4>2. "altAp" \in t
        <5>1. n["altAp"] = IF "altAp" \in t THEN q.set["altAp"] ELSE r["altAp"]
          BY <1>0, <1>1, UnlockedKeeps
        <5>2. "altAp" \in t \/ n["altAp"] # r["altAp"]
          BY <2>4, <4>1 DEF Touched
        <5> QED  BY <5>1, <5>2
      <4>3. "altAp" \in DOMAIN q.set /\ r.alt = q.user
        BY <4>2 DEF Taken, MayWrite
      <4>4. r["altAp"] \notin {"Approved", "Rejected"}
        BY <1>5, <4>3 DEF Refused
      <4> QED  BY <2>2, <4>1, <4>4 DEF CoverGateOk, RailNames
    <3> HIDE DEF p, fs, s, k
    <3> QED  BY <1>0, <1>5, <2>1, <3>2, <3>5, <3>6, SaveConsent
  <2> QED  BY <2>3, <2>4
<1> QED  BY <1>3, <1>4, <1>5

LEMMA OtherServeConsent ==
    ASSUME ConsentInv, NEW w \in Workers, Respond(w) \/ EditHistory(w) \/ Destroy(w)
    PROVE  CoverConsent'
PROOF
<1> DEFINE q == thread[w].q
           r == thread[w].row
<1>0. TypeOK /\ ProfileOK /\ CoverConsent /\ profile.role \in Roles /\ profile.lead \in Person
  BY DEF ConsentInv, InTurn, TypeOK, ProfileOK
<1>1. thread[w] # Idle /\ q \in Requests /\ r \in Row
  BY <1>0, ThreadFacts DEF Respond, EditHistory, Destroy, Busy
<1>2. \A f \in RailNames : r[f] = row[f]
  BY <1>1 DEF ConsentInv, InTurn, CopyCurrent, Kept, RowColumns, RailNames
<1>3. CASE Reject(w)  BY <1>0, <1>3 DEF Reject, CoverConsent
<1>4. CASE Respond(w) /\ ~Reject(w)
  <2> DEFINE s == [r EXCEPT !.altAp = q.set["altAp"]]
             p == IF s.altAp = "Approved" /\ Sequential(r, profile.role)
                  THEN AfterCover(s, profile.role, profile.lead) ELSE s
             fs == {"altAp"} \cup {f \in RailNames : p[f] # r[f]}
             n == IF s.altAp = "Approved" THEN Notes(r, s) ELSE {}
  <2>1. /\ Save(w, p, fs, summary, 0, n) /\ q.op = "respond"
        /\ r.altAp \notin {"Approved", "Rejected"}
    BY <1>4 DEF Respond, Busy
  <2> HIDE DEF q, r
  <2>2. q.set["altAp"] \in Statuses  BY <1>1, <2>1, LeaveAssumption DEF WellFormed, Statuses
  <2>3. s \in Row /\ \A f \in StaffRails : s[f] = r[f]
    BY <1>1, <2>2 DEF Row, Rail, StaffRails
  <2> HIDE DEF s
  <2>4. p \in Row  BY <1>0, <2>3, RailHelpers
  <2>5. \A f \in StaffRails : p[f] = "Approved" => row[f] = "Approved"
    BY <1>0, <1>2, <2>3, FollowUpsGrantNothing DEF StaffRails, RailNames
  <2>6. fs \in SUBSET Writable /\ fs \cap {"kind", "alt"} = {}
    BY DEF Writable, RailNames
  <2>7. row.alt = NoOne \/ ~CoverGateOk(row)
    BY <1>2, <2>1 DEF CoverGateOk, RailNames
  <2> HIDE DEF p, fs, n
  <2> QED  BY <1>0, <2>1, <2>4, <2>5, <2>6, <2>7, SaveConsent DEF StaffRails
<1>5. CASE EditHistory(w) /\ ~Reject(w)
  <2> DEFINE p == Redrafted(r, q.set)
             fs == EditColumns(r, q.set)
  <2>1. Save(w, p, fs, summary, 0, {}) /\ ~StaffGranted(r)
    BY <1>5 DEF EditHistory
  <2> HIDE DEF q, r
  <2>2. p \in Row /\ fs \in SUBSET Writable  BY <1>0, <1>1, EditedType, TouchedColumns
  <2>3. \A f \in StaffRails : r[f] # "Approved" /\ row[f] # "Approved"
    BY <1>2, <2>1 DEF StaffGranted, RailNames, StaffRails
  <2>4. \A f \in StaffRails : p[f] # "Approved"
    BY <1>0, <1>1, <2>3, EditGrantsNothing
  <2> HIDE DEF p, fs
  <2> QED  BY <1>0, <2>1, <2>2, <2>3, <2>4, SaveConsent DEF StaffRails
<1>6. CASE Destroy(w) /\ ~Reject(w)
  <2>1. row' = [row EXCEPT !.state = "deleted"]  BY <1>6 DEF Destroy
  <2>2. row'.state # "live"  BY <1>0, <2>1 DEF TypeOK, Row
  <2> QED  BY <2>2 DEF CoverConsent
<1> QED  BY <1>3, <1>4, <1>5, <1>6

\* A new row has no approval by staff, or no chain.
LEMMA CreateConsent ==
    ASSUME TypeOK, Create
    PROVE  CoverConsent'
PROOF
<1>1. PICK c \in Creation : \/ CreateGeneral(c)   \/ CreateShort(c)
                           \/ CreateMenstrual(c) \/ CreateEmergency(c)
  BY LeaveAssumption DEF Create
<1> DEFINE ro == profile.role
           ld == profile.lead
<1>0. /\ ro \in Roles /\ ld \in Person /\ NoRow \in Row /\ profile' = profile
      /\ c.kind \in Kinds /\ c.flag \in BOOLEAN
  BY NoRowType, CreateKeepsThreads DEF TypeOK, Creation
<1>f. Fresh(c) \in Row /\ [Fresh(c) EXCEPT !.emergency = c.flag] \in Row
      /\ [Fresh(c) EXCEPT !.emergency = TRUE] \in Row /\ Fresh(c).kind = c.kind
  BY <1>0, FreshType DEF Fresh, NoRow
\* What decides: the rails of staff, the kind and the flag of the row that is stored.
<1>2. ASSUME NEW r, NEW s, NEW k, NEW n, Created(r, s, k, n),
             \/ ro = "MD"
             \/ r.emergency = TRUE
             \/ r.kind \in {"Short", "Menstrual"}
             \/ \A f \in {"tlAp", "hrAp", "mdAp"} : r[f] # "Approved"
      PROVE  CoverConsent'
  BY <1>0, <1>2 DEF Created, CoverConsent, Sequential
<1> HIDE DEF ro, ld
<1>3. CASE CreateGeneral(c)
  <2> DEFINE f == [Fresh(c) EXCEPT !.emergency = c.flag]
             g == RegularRails(f, ro, ld)
             r == InitialCover(g)
             s1 == SignalSummary(summary, r, NoRow)
             r1 == SignalRow(r, r, NoRow, summary)
             units == DebitUnits(c.kind, c.days)
             again == ro = "MD" /\ Chargeable(r)
             s2 == IF again THEN Consume(s1, s1, units, Intern)
                   ELSE IF ro = "MD" /\ ~c.flag /\ c.kind = "Menstrual"
                   THEN ConsumeMenstrual(s1) ELSE s1
             r2 == IF again THEN [r1 EXCEPT !.split = SplitOf(s1, units, Intern)] ELSE r1
             n  == IF ~c.flag /\ c.kind # "Short" /\ c.alt # NoOne THEN {"cover"} ELSE {}
  <2>1. Created(r2, s2, IF again THEN 2 ELSE 0, n)  BY <1>3 DEF CreateGeneral, ro, ld
  <2>2. CASE ro = "MD"  BY <1>2, <2>1, <2>2
  <2>3. CASE ro # "MD"
    <3>1. r2 = r1  BY <2>3
    <3>2. g \in Row  BY <1>0, <1>f, RailSetters
    <3>3. \A x \in {"tlAp", "hrAp", "mdAp"} : g[x] # "Approved"
      <4> DEFINE cl == ClearRails(f)
      <4>1. cl \in Row /\ \A x \in {"tlAp", "hrAp", "mdAp"} : cl[x] = "None"
        <5>1. cl \in Row  BY <1>0, <1>f, RailHelpers
        <5> QED  BY <1>f, <5>1 DEF ClearRails, Row
      <4> HIDE DEF cl
      <4>2. \A x \in {"tlAp", "hrAp", "mdAp"} : FirstRail(cl, ro, ld)[x] # "Approved"
        BY <4>1 DEF FirstRail, Row
      <4>3. \/ g = [cl EXCEPT !.mdAp = "Pending"]
            \/ g = cl
            \/ g = FirstRail(cl, ro, ld)
        BY <2>3 DEF RegularRails, cl
      <4> HIDE DEF g
      <4> QED  BY <4>1, <4>2, <4>3 DEF Row
    <3> HIDE DEF g
    <3>4. r \in Row /\ \A x \in {"tlAp", "hrAp", "mdAp"} : r[x] # "Approved"
      <4>1. r \in Row  BY <1>0, <3>2, RailHelpers
      <4> QED  BY <3>2, <3>3, <4>1 DEF InitialCover, Row
    <3> HIDE DEF r
    <3>5. \A x \in {"tlAp", "hrAp", "mdAp"} : r1[x] # "Approved"
      BY <3>4 DEF SignalRow, Row
    <3> HIDE DEF r1, r2, s2
    <3> QED  BY <1>2, <2>1, <3>1, <3>5
  <2> QED  BY <2>2, <2>3
<1>4. CASE CreateShort(c)
  <2> DEFINE m == SyncMonth(summary)
             g == ShortRails(Fresh(c), ro, ld)
             r == InitialCover(g)
  <2>1. Created(SignalRow(r, r, NoRow, m), SignalSummary(m, r, NoRow), 0, {})
        /\ c.kind = "Short"
    BY <1>4 DEF CreateShort, ro, ld
  <2>2. g \in Row /\ g.kind = "Short"
    <3>1. g \in Row  BY <1>0, <1>f, RailSetters
    <3>2. g.kind = Fresh(c).kind  BY <1>f DEF ShortRails, ClearRails, Row
    <3> QED  BY <1>f, <2>1, <3>1, <3>2
  <2> HIDE DEF m, g
  <2>3. r \in Row /\ r.kind = "Short"  BY <1>0, <2>2, RailHelpers DEF InitialCover, Row
  <2> HIDE DEF r
  <2>4. SignalRow(r, r, NoRow, m).kind = "Short"  BY <2>3 DEF SignalRow, Row
  <2> QED  BY <1>2, <2>1, <2>4
<1>5. CASE CreateMenstrual(c)
  <2> DEFINE r == PreApproved(Fresh(c))
  <2>1. Created(r, ConsumeMenstrual(SignalSummary(summary, r, NoRow)), 0, {})
        /\ c.kind = "Menstrual"
    BY <1>5 DEF CreateMenstrual
  <2>2. r.kind = "Menstrual"
    <3>1. r.kind = Fresh(c).kind  BY <1>f DEF PreApproved, Row
    <3> QED  BY <1>f, <2>1, <3>1
  <2> HIDE DEF r
  <2> QED  BY <1>2, <2>1, <2>2
<1>6. CASE CreateEmergency(c)
  <2> DEFINE f == [Fresh(c) EXCEPT !.emergency = TRUE]
             g == PreApproved(f)
             r == InitialCover(g)
  <2>1. PICK s : Created(r, s, 0, {})  BY <1>6 DEF CreateEmergency
  <2>2. f.emergency = TRUE  BY <1>f DEF Row
  <2>3. f \in Row  BY <1>f
  <2> HIDE DEF f
  <2>4. g \in Row /\ g.emergency = TRUE
    <3>1. g \in Row  BY <1>0, <2>3, RailHelpers
    <3> QED  BY <2>2, <2>3, <3>1 DEF PreApproved, Row
  <2> HIDE DEF g
  <2>5. r.emergency = TRUE  BY <2>4 DEF InitialCover, Row
  <2> HIDE DEF r
  <2> QED  BY <1>2, <2>1, <2>5
<1> QED  BY <1>1, <1>3, <1>4, <1>5, <1>6

LEMMA OutsideConsent ==
    ASSUME ConsentInv, CreditEarn \/ NextMonth \/ Reassign \/ DeleteUser
    PROVE  CoverConsent' /\ RoleStays'
PROOF
<1>0. TypeOK /\ CoverConsent /\ RoleStays  BY DEF ConsentInv, InTurn
<1>1. CASE CreditEarn \/ NextMonth
  BY <1>0, <1>1 DEF CreditEarn, NextMonth, CoverConsent, RoleStays
<1>2. CASE Reassign
  <2>1. row' = row /\ profile'.role = profile.role
    BY <1>0, <1>2 DEF Reassign, TypeOK
  <2> QED  BY <1>0, <2>1 DEF CoverConsent, RoleStays
<1>3. CASE DeleteUser
  <2>1. profile.role \notin {"HR", "MD"}  BY <1>0, <1>3 DEF RoleStays, DeleteUser
  <2>2. profile' = profile \/ profile'.role = "NoProfile"
    <3>1. profile' = profile \/ profile' = [role |-> "NoProfile", lead |-> NoOne]
      BY <1>3 DEF DeleteUser
    <3> QED  BY <3>1
  <2>3. /\ row'.alt \in {row.alt, NoOne}
        /\ \A f \in Kept : row'[f] = row[f]
    BY <1>0, <1>3 DEF DeleteUser, TypeOK, Row, Kept, RowColumns
  <2>4. Sequential(row', profile'.role) => Sequential(row, profile.role)
    BY <2>1, <2>3 DEF Sequential, Kept, RowColumns
  <2>5. CoverGateOk(row) => CoverGateOk(row')
    BY <2>3 DEF CoverGateOk, Kept, RowColumns
  <2>6. CoverConsent'
    BY <1>0, <2>3, <2>4, <2>5 DEF CoverConsent, Kept, RowColumns
  <2> QED  BY <2>1, <2>2, <2>6 DEF RoleStays
<1> QED  BY <1>1, <1>2, <1>3

LEMMA ConsentStep ==
    ASSUME ConsentInv, OneAtATime, [Next]_vars
    PROVE  ConsentInv'
PROOF
<1>0. InTurn' /\ TypeOK /\ CoverConsent /\ RoleStays
  BY InTurnStep DEF ConsentInv, InTurn
<1>1. CASE Create
  BY <1>0, <1>1, CreateConsent, CreateKeepsThreads DEF ConsentInv, RoleStays
<1>2. CASE CreditEarn \/ NextMonth \/ Reassign \/ DeleteUser
  BY <1>0, <1>2, OutsideConsent DEF ConsentInv
<1>3. ASSUME NEW w \in Workers, ReadBalance(w) \/ \E q \in Requests : Load(w, q)
      PROVE  ConsentInv'
  BY <1>0, <1>3 DEF ReadBalance, Load, ConsentInv, CoverConsent, RoleStays
<1>4. ASSUME NEW w \in Workers, Serve(w)
      PROVE  ConsentInv'
  <2>1. CoverConsent'  BY <1>4, PatchConsent, OtherServeConsent DEF Serve
  <2>2. profile' = profile  BY <1>4, ServeKeepsProfile
  <2> QED  BY <1>0, <2>1, <2>2 DEF ConsentInv, RoleStays
<1>5. CASE UNCHANGED vars
  BY <1>0, <1>5 DEF vars, ConsentInv, CoverConsent, RoleStays
<1> QED  BY <1>1, <1>2, <1>3, <1>4, <1>5 DEF Next

\* What the team lead, HR or the MD have approved stands on the consent of the cover
\* person named now, through edits, answers and deleted accounts, as long as no two
\* workers hold the application at once.
THEOREM ConsentInTurn ==
    ASSUME Leavers = {} \/ {"HR", "MD"} \cap ApplicantRoles = {}
    PROVE  Spec /\ []OneAtATime => []CoverConsent
PROOF
<1>1. Init => ConsentInv
  <2>1. Init => RoleStays  BY DEF Init, RoleStays
  <2>2. Init => CoverConsent  BY DEF Init, NoRow, CoverConsent
  <2> QED  BY <2>1, <2>2, InTurnInit DEF ConsentInv
<1>2. ConsentInv /\ OneAtATime /\ [Next]_vars => ConsentInv'  BY ConsentStep
<1>3. ConsentInv => CoverConsent  BY DEF ConsentInv
<1> QED  BY <1>1, <1>2, <1>3, PTL DEF Spec

-----------------------------------------------------------------------------
(* What the MD has approved stays. *)

\* The applicant does not write a rail of staff and a draft field in one request.  An
\* applicant with the role of HR, Admin or MD could take back an approval of their own
\* and edit the application in the same request.
EditsApart ==
    \A q \in Requests :
        q.user = Applicant /\ DOMAIN q.set \cap Drafts # {} => DOMAIN q.set \cap StaffRails = {}

\* The three action properties of ApprovedStays, as one action.
Announced  == sent' # sent /\ "applicant" \in sent' => NewlyApproved("mdAp")
Undeleted  == row.state = "live" /\ row'.state = "deleted" => row.mdAp # "Approved"
Unedited   == DraftChanged /\ gone' = gone => ~StaffGranted(row)

\* A step that leaves the row alone, and does not announce the final approval.
LEMMA RowStands ==
    ASSUME row' = row, "applicant" \notin sent' \/ sent' = sent
    PROVE  Announced /\ Undeleted /\ Unedited
PROOF
<1>1. Undeleted
  <2>1. row.state = "live" => row'.state # "deleted"  OBVIOUS
  <2> QED  BY <2>1 DEF Undeleted
<1>2. Unedited  BY DEF Unedited, DraftChanged
<1> QED  BY <1>1, <1>2 DEF Announced

\* A save: what it announces it approves, and a draft that changes had no approval.
LEMMA SaveStays ==
    ASSUME TypeOK, NEW w \in Workers, NEW p \in Row, NEW fs \in SUBSET Writable,
           NEW s, NEW c, NEW n, Save(w, p, fs, s, c, n),
           "applicant" \in n =>
               "mdAp" \in fs /\ p["mdAp"] = "Approved" /\ row["mdAp"] # "Approved",
           fs \cap Drafts # {} => ~StaffGranted(row)
    PROVE  Announced /\ Undeleted /\ Unedited
PROOF
<1>1. CASE row.state # "live"
  <2>1. row' = row /\ sent' = {}  BY <1>1 DEF Save, Reject
  <2> QED  BY <2>1, RowStands
<1>2. CASE row.state = "live"
  <2>1. sent' = n /\ row'["state"] = "live"  BY <1>2, SavedRow
  <2>2. \A f \in RowColumns \ {"slot", "split"} : row'[f] = IF f \in fs THEN p[f] ELSE row[f]
    BY <1>2, SavedRow
  <2>3. Announced
    BY <1>2, <2>1, <2>2 DEF Announced, NewlyApproved, RowColumns
  <2>4. Undeleted  BY <2>1 DEF Undeleted
  <2>5. Unedited
    BY <2>2 DEF Unedited, DraftChanged, Drafts, RowColumns
  <2> QED  BY <2>3, <2>4, <2>5
<1> QED  BY <1>1, <1>2

LEMMA NotesApproved ==
    ASSUME NEW r, NEW p, "applicant" \in Notes(r, p)
    PROVE  p["mdAp"] = "Approved" /\ r["mdAp"] # "Approved"
BY DEF Notes

LEMMA PatchStays ==
    ASSUME EditsApart, InTurn, NEW w \in Workers, Patch(w)
    PROVE  Announced /\ Undeleted /\ Unedited
PROOF
<1> DEFINE q == thread[w].q
           r == thread[w].row
           read == thread[w].read
           c == Charges(q.set, q.user, r)
           p == Patched(q.set, q.user, r, read)
           fs == Touched(q.set, q.user, r)
           s == IF c THEN Consume(summary, read, DebitUnits(r.kind, r.days), Intern)
                ELSE IF Approves(q.set, q.user, r, "mdAp") /\ ~r.emergency
                        /\ r.kind = "Menstrual"
                THEN ConsumeMenstrual(summary) ELSE summary
           k == IF c THEN 1 ELSE 0
<1>0. TypeOK /\ ProfileOK  BY DEF InTurn, TypeOK, ProfileOK
<1>1. thread[w] # Idle /\ q \in Requests /\ r \in Row /\ read \in Summary
  BY <1>0, ThreadFacts DEF Patch
<1>2. \A f \in RailNames : r[f] = row[f]
  BY <1>1 DEF InTurn, CopyCurrent, Kept, RowColumns, RailNames
<1>3. Reject(w) \/ Save(w, p, fs, s, k, Notes(r, p))  BY DEF Patch
<1>4. CASE Reject(w)  BY <1>4, RowStands DEF Reject
<1>5. CASE Save(w, p, fs, s, k, Notes(r, p))
  <2> HIDE DEF q, r, read
  <2>1. p \in Row /\ fs \in SUBSET Writable  BY <1>0, <1>1, PatchedType, TouchedColumns
  <2>2. "applicant" \in Notes(r, p) =>
          "mdAp" \in fs /\ p["mdAp"] = "Approved" /\ row["mdAp"] # "Approved"
    BY <1>0, <1>1, <1>2, NotesApproved, FreshApproval DEF StaffRails, RailNames
  <2>3. ASSUME fs \cap Drafts # {} PROVE ~StaffGranted(row)
    <3>1. EditsDraft(q.set, q.user, r)
      BY <1>0, <1>1, <2>3, RailPatch DEF RailNames, Drafts
    <3>2. DOMAIN q.set \cap StaffRails = {} /\ ~AnyGranted(Unlocked(q.set, q.user, r))
      BY <1>1, <3>1 DEF EditsDraft, EditsApart
    <3>3. \A f \in StaffRails : f \notin Taken(q.set, q.user, r)
      BY <3>2 DEF Taken
    <3>4. \A f \in StaffRails : r[f] # "Approved"
      BY <1>0, <1>1, <3>2, <3>3, UnlockedKeeps DEF AnyGranted, StaffRails, RailNames
    <3> QED  BY <1>2, <3>4 DEF StaffGranted, StaffRails, RailNames
  <2> HIDE DEF p, fs, s, k
  <2> QED  BY <1>0, <1>5, <2>1, <2>2, <2>3, SaveStays
<1> QED  BY <1>3, <1>4, <1>5

LEMMA OtherServeStays ==
    ASSUME InTurn, NEW w \in Workers, Respond(w) \/ EditHistory(w) \/ Destroy(w)
    PROVE  Announced /\ Undeleted /\ Unedited
PROOF
<1> DEFINE q == thread[w].q
           r == thread[w].row
<1>0. TypeOK /\ ProfileOK /\ profile.role \in Roles /\ profile.lead \in Person
  BY DEF InTurn, TypeOK, ProfileOK
<1>1. thread[w] # Idle /\ q \in Requests /\ r \in Row
  BY <1>0, ThreadFacts DEF Respond, EditHistory, Destroy, Busy
<1>2. \A f \in RailNames : r[f] = row[f]
  BY <1>1 DEF InTurn, CopyCurrent, Kept, RowColumns, RailNames
<1>3. CASE Reject(w)  BY <1>3, RowStands DEF Reject
<1>4. CASE Respond(w) /\ ~Reject(w)
  <2> DEFINE s == [r EXCEPT !.altAp = q.set["altAp"]]
             p == IF s.altAp = "Approved" /\ Sequential(r, profile.role)
                  THEN AfterCover(s, profile.role, profile.lead) ELSE s
             fs == {"altAp"} \cup {f \in RailNames : p[f] # r[f]}
             n == IF s.altAp = "Approved" THEN Notes(r, s) ELSE {}
  <2>1. Save(w, p, fs, summary, 0, n) /\ q.op = "respond"  BY <1>4 DEF Respond, Busy
  <2> HIDE DEF q, r
  <2>2. q.set["altAp"] \in Statuses  BY <1>1, <2>1, LeaveAssumption DEF WellFormed, Statuses
  <2>3. s \in Row /\ s["mdAp"] = r["mdAp"]  BY <1>1, <2>2 DEF Row, Rail
  <2> HIDE DEF s
  <2>4. p \in Row  BY <1>0, <2>3, RailHelpers
  <2>5. "applicant" \notin n  BY <2>3, NotesApproved
  <2>6. fs \in SUBSET Writable /\ fs \cap Drafts = {}
    BY DEF Writable, RailNames, Drafts
  <2> HIDE DEF p, fs, n
  <2> QED  BY <1>0, <2>1, <2>4, <2>5, <2>6, SaveStays
<1>5. CASE EditHistory(w) /\ ~Reject(w)
  <2> DEFINE p == Redrafted(r, q.set)
             fs == EditColumns(r, q.set)
  <2>1. Save(w, p, fs, summary, 0, {}) /\ ~StaffGranted(r)
    BY <1>5 DEF EditHistory
  <2> HIDE DEF q, r
  <2>2. p \in Row /\ fs \in SUBSET Writable  BY <1>0, <1>1, EditedType, TouchedColumns
  <2>3. ~StaffGranted(row)  BY <1>2, <2>1 DEF StaffGranted, RailNames
  <2>4. "applicant" \notin {}  OBVIOUS
  <2> HIDE DEF p, fs
  <2> QED  BY <1>0, <2>1, <2>2, <2>3, <2>4, SaveStays
<1>6. CASE Destroy(w) /\ ~Reject(w)
  <2>1. row' = [row EXCEPT !.state = "deleted"] /\ sent' = {} /\ r.mdAp # "Approved"
    BY <1>6 DEF Destroy
  <2>2. \A f \in Drafts : row'[f] = row[f]
    BY <1>0, <2>1 DEF TypeOK, Row, Drafts
  <2>3. row["mdAp"] # "Approved"  BY <1>2, <2>1 DEF RailNames
  <2> QED  BY <2>1, <2>2, <2>3 DEF Announced, Undeleted, Unedited, DraftChanged
<1> QED  BY <1>3, <1>4, <1>5, <1>6

LEMMA StaysStep ==
    ASSUME EditsApart, InTurn, [Next]_vars
    PROVE  Announced /\ Undeleted /\ Unedited
PROOF
<1>0. TypeOK  BY DEF InTurn
<1>1. CASE Create
  <2>1. row.state # "live" /\ "applicant" \notin sent'  BY <1>1, CreateKeepsThreads
  <2> QED  BY <2>1 DEF Announced, Undeleted, Unedited, DraftChanged
<1>2. CASE CreditEarn \/ NextMonth \/ Reassign
  BY <1>2, RowStands DEF CreditEarn, NextMonth, Reassign
<1>3. CASE DeleteUser
  <2>1. gone' # gone /\ sent' = {}  BY <1>3 DEF DeleteUser
  <2>2. row'.state = row.state  BY <1>0, <1>3 DEF DeleteUser, TypeOK, Row
  <2>3. Undeleted
    <3>1. row.state = "live" => row'.state # "deleted"  BY <2>2
    <3> QED  BY <3>1 DEF Undeleted
  <2> QED  BY <2>1, <2>3 DEF Announced, Unedited
<1>4. ASSUME NEW w \in Workers, ReadBalance(w) \/ \E q \in Requests : Load(w, q)
      PROVE  Announced /\ Undeleted /\ Unedited
  BY <1>4, RowStands DEF ReadBalance, Load
<1>5. ASSUME NEW w \in Workers, Serve(w)
      PROVE  Announced /\ Undeleted /\ Unedited
  BY <1>5, PatchStays, OtherServeStays DEF Serve
<1>6. CASE UNCHANGED vars  BY <1>6, RowStands DEF vars
<1> QED  BY <1>1, <1>2, <1>3, <1>4, <1>5, <1>6 DEF Next

\* With no two workers at the application at once, and drafts and staff rails written
\* apart, the applicant hears of the final approval exactly when it is given, and
\* nothing the MD has approved is deleted or edited.
THEOREM ApprovedStaysInTurn ==
    ASSUME EditsApart
    PROVE  Spec /\ []OneAtATime => ApprovedStays
PROOF
<1>1. Init => InTurn  BY InTurnInit
<1>2. InTurn /\ OneAtATime /\ [Next]_vars => InTurn'  BY InTurnStep
<1>3. InTurn /\ [Next]_vars => [sent' # sent /\ "applicant" \in sent' => NewlyApproved("mdAp")]_vars
  BY StaysStep DEF Announced
<1>4. InTurn /\ [Next]_vars =>
        [row.state = "live" /\ row'.state = "deleted" => row.mdAp # "Approved"]_vars
  BY StaysStep DEF Undeleted
<1>5. InTurn /\ [Next]_vars => [DraftChanged /\ gone' = gone => ~StaffGranted(row)]_vars
  BY StaysStep DEF Unedited
<1> QED
  BY <1>1, <1>2, <1>3, <1>4, <1>5, PTL
     DEF Spec, ApprovedStays, FinalNoticeOnApproval, NoDeleteAfterApproval, NoEditAfterStaffApproval

-----------------------------------------------------------------------------
(* Whose turn it is. *)

\* Ways to create the row, requests and people for which the queue, the authority
\* check and the gates agree.
QueueFits ==
    /\ NewLeads = {} /\ Leavers = {}
    /\ "MD" \notin ApplicantRoles
    /\ \A u \in Leads : RoleOf[u] = "TeamLead"
    /\ \E u \in Users \ {Applicant} : RoleOf[u] = "MD"
    /\ \A c \in Creations :
          c.by = "short" \/ (c.by = "general" /\ ~c.flag /\ c.kind \in {"Full_day", "Half_day"})
    /\ \A q \in Requests : "kind" \in DOMAIN q.set => q.set["kind"] # "Short"

\* An application rests with the cover person, with the team lead named on it, or with
\* the MD; a rail is hidden only while somebody before it has to decide.
Turn(r) ==
    /\ r.lead = profile.lead /\ ~r.emergency /\ r.kind # "Menstrual"
    /\ r.tlAp # "None" => r.lead # NoOne
    /\ r.tlAp = "Approved" \/ profile.role = "HR" => r.mdAp # "None"
    /\ profile.role # "HR" /\ (CoverGateOk(r) \/ IsShort(r)) /\ r.tlAp = "None"
          => /\ r.mdAp # "None"
             /\ \/ r.lead = NoOne
                \/ IsShort(r) /\ ShortSkipsLead(profile.role)
                \/ ~IsShort(r) /\ SkipsLead(profile.role)

TurnColumns == RailNames \cup {"alt", "kind", "lead", "emergency"}

LEMMA SameTurn ==
    ASSUME NEW x, NEW y, Turn(x), \A f \in TurnColumns : y[f] = x[f]
    PROVE  Turn(y)
BY DEF Turn, TurnColumns, RailNames, CoverGateOk, IsShort

StaffInPlace ==
    /\ profile.role \in ApplicantRoles
    /\ profile.lead \in Leads \cup {NoOne}
    /\ gone = {}

\* The lead or the MD, whoever has the turn, sees the application and may approve it.
LEMMA SomebodysTurn ==
    ASSUME QueueFits, TypeOK, StaffInPlace, Turn(row)
    PROVE  NeverOrphaned
PROOF
<1> SUFFICES ASSUME Undecided
             PROVE  \E u \in Users \ gone, f \in RailNames :
                       /\ Queued(f, row, u, Role(u), profile.role)
                       /\ f \in MayWrite(u, row)
                       /\ ~Refused([g \in {f} |-> "Approved"], u, row)
  BY DEF NeverOrphaned
<1>0. /\ row \in Row /\ gone = {} /\ NoOne \notin Users
      /\ profile.role \in Roles /\ profile.lead \in Person /\ profile.role # "MD"
  BY LeaveAssumption, NoOneAssumption DEF TypeOK, StaffInPlace, QueueFits
<1>1. /\ row.state = "live" /\ row["mdAp"] # "Approved"
      /\ row["mdAp"] # "Rejected" /\ row["altAp"] # "Rejected" /\ row["tlAp"] # "Rejected"
  BY DEF Undecided, RailNames
<1>2. /\ row["altAp"] \in Rail /\ row["tlAp"] \in Rail /\ row["mdAp"] \in Rail
      /\ row["alt"] \in Person
  BY <1>0 DEF Row
\* An approval alone edits no draft.
<1>3. ASSUME NEW f \in RailNames
      PROVE  /\ DOMAIN [g \in {f} |-> "Approved"] = {f}
             /\ {f} \cap Drafts = {}
  BY DEF RailNames, Drafts
<1>4. CASE ~CoverGateOk(row)
  <2> DEFINE u == row["alt"]
             a == [g \in {"altAp"} |-> "Approved"]
  <2>1. u \in Users /\ row["altAp"] \in {"None", "Pending"}
    BY <1>1, <1>2, <1>4 DEF CoverGateOk, Person, Rail, Statuses
  <2>2. "altAp" \in MayWrite(u, row) /\ Queued("altAp", row, u, Role(u), profile.role)
    BY <2>1 DEF MayWrite, Queued, RailNames
  <2>3. Taken(a, u, row) = {"altAp"}  BY <2>2 DEF Taken
  <2>4. ~Refused(a, u, row)
    BY <1>3, <2>1, <2>3 DEF Refused, RailNames
  <2> QED  BY <1>0, <2>1, <2>2, <2>4 DEF RailNames
<1>5. CASE CoverGateOk(row) /\ row["tlAp"] = "Pending"
  <2> DEFINE u == row["lead"]
             a == [g \in {"tlAp"} |-> "Approved"]
  <2>1. u = profile.lead /\ u \in Leads /\ u \in Users /\ u # Applicant /\ RoleOf[u] = "TeamLead"
    BY <1>5, LeaveAssumption DEF Turn, StaffInPlace, QueueFits
  <2>2. "tlAp" \in MayWrite(u, row)  BY <2>1 DEF MayWrite, RailNames
  <2>3. Queued("tlAp", row, u, Role(u), profile.role)
    BY <1>1, <1>5, <2>1 DEF Queued, Role, CoverRefused
  <2>4. Taken(a, u, row) = {"tlAp"}  BY <2>2 DEF Taken
  <2>5. ~LeadBlocked(row, profile.role)
    BY <1>1, <1>5 DEF LeadBlocked, CoverRefused, CoverMissing, CoverGateOk
  <2>6. ~Refused(a, u, row)  BY <1>3, <2>4, <2>5 DEF Refused, RailNames
  <2> QED  BY <1>0, <2>1, <2>2, <2>3, <2>6 DEF RailNames
<1>6. CASE CoverGateOk(row) /\ row["tlAp"] # "Pending"
  <2> DEFINE a == [g \in {"mdAp"} |-> "Approved"]
  <2>1. PICK u \in Users \ {Applicant} : RoleOf[u] = "MD"  BY DEF QueueFits
  <2>2. Role(u) = "MD"  BY <2>1 DEF Role
  <2>3. row["tlAp"] \in {"None", "Approved"}
    BY <1>1, <1>2, <1>6 DEF Rail, Statuses
  <2>4. row["mdAp"] = "Pending"
    BY <1>1, <1>2, <1>6, <2>3 DEF Turn, Rail, Statuses
  <2>5. \/ profile.role = "HR"
        \/ /\ IsShort(row) \/ LeadPriorOk(row, profile.role)
           /\ IsShort(row) => LeadPriorOk(row, profile.role)
                 /\ (ShortSkipsLead(profile.role) \/ ~LeadMissing(row))
    BY <1>6, <2>3 DEF Turn, LeadPriorOk, LeadMissing, ShortSkipsLead, SkipsLead
  <2>6. Queued("mdAp", row, u, Role(u), profile.role)
    BY <1>1, <1>6, <2>2, <2>4, <2>5 DEF Queued, CoverRefused
  <2>7. ~StaffBlocked(row, profile.role)
    BY <1>1, <1>6, <2>5 DEF StaffBlocked, ShortBlocked, ChainBlocked, CoverRefused, CoverMissing,
       CoverGateOk, LeadMissing, LeadPriorOk, ShortSequential, Sequential
  <2>8. "mdAp" \in MayWrite(u, row)  BY <2>2 DEF MayWrite, ActsAsMD, RailNames
  <2>9. Taken(a, u, row) = {"mdAp"}  BY <2>8 DEF Taken
  <2>10. ~Refused(a, u, row)  BY <1>3, <2>7, <2>9 DEF Refused, RailNames
  <2> QED  BY <1>0, <2>1, <2>6, <2>8, <2>10 DEF RailNames
<1> QED  BY <1>4, <1>5, <1>6

\* An edit of an application that staff have not approved.
LEMMA RedraftTurn ==
    ASSUME ProfileOK, NEW q \in Requests, NEW x \in Row, Turn(x), ~StaffGranted(x),
           profile.role # "MD",
           "kind" \in DOMAIN q.set => q.set["kind"] # "Short"
    PROVE  Turn(Redrafted(x, q.set))
PROOF
<1> DEFINE a == q.set
           o == Overwrite(x, a, DOMAIN a \cap Drafts)
           e == Edited(x, a)
           y == Redrafted(x, a)
<1>0. NoOne \notin Users /\ profile.role \in Roles /\ profile.lead \in Person
  BY NoOneAssumption DEF ProfileOK
<1>1. e \in Row /\ y \in Row /\ o \in Row  BY EditedType, AssignedColumn, OverwriteType
<1>2. /\ \A f \in RailNames \cup {"lead", "emergency"} : o[f] = x[f]
      /\ o["alt"] = IF "alt" \in DOMAIN a THEN a["alt"] ELSE x["alt"]
      /\ o["kind"] = IF "kind" \in DOMAIN a THEN a["kind"] ELSE x["kind"]
  <2>1. DOMAIN x = RowColumns  BY DEF Row, RowColumns
  <2> QED  BY <2>1 DEF Overwrite, RowColumns, RailNames, Drafts
<1>3. o["kind"] # "Menstrual" /\ (IsShort(o) => IsShort(x))
  <2>1. "kind" \in DOMAIN a => a["kind"] \in FieldValues("kind")
    BY LeaveAssumption DEF WellFormed
  <2>2. "kind" \in DOMAIN a => a["kind"] # "Menstrual"
    BY <2>1 DEF FieldValues, RailNames
  <2> QED  BY <1>2, <2>2 DEF Turn, IsShort
<1>4. \A f \in StaffRails : x[f] # "Approved"
  BY DEF StaffGranted, StaffRails, RailNames
<1> HIDE DEF o, a
<1>5. CASE "alt" \notin DOMAIN a
  <2>1. y = o  BY <1>5 DEF Redrafted, Edited, o
  <2>2. Turn(o)
    BY <1>2, <1>3, <1>5 DEF Turn, RailNames, CoverGateOk, IsShort, ShortSkipsLead, SkipsLead
  <2> QED  BY <2>1, <2>2 DEF a
<1>6. CASE "alt" \in DOMAIN a
  <2>1. e = ResyncCover(o, x.alt) /\ y = ResyncRails(e, profile.role, profile.lead)
    BY <1>6 DEF Redrafted, Edited, o
  <2>2. /\ \A f \in StaffRails \cup {"lead", "emergency", "alt", "kind"} : e[f] = o[f]
        /\ e["altAp"] = IF o["alt"] = NoOne THEN "None"
                        ELSE IF o["alt"] # x["alt"] THEN "Pending" ELSE o["altAp"]
    BY <1>1, <2>1 DEF ResyncCover, Row, StaffRails
  <2>3. \A f \in StaffRails \cup {"lead", "emergency"} : e[f] = x[f]
    BY <1>2, <2>2 DEF StaffRails, RailNames
  <2>4. e["kind"] # "Menstrual" /\ (IsShort(e) => IsShort(x))
    BY <1>3, <2>2 DEF IsShort
  <2> HIDE DEF e, y
  <2>5. CASE ResetsRails(e, profile.role)
    <3> DEFINE cl == ClearRails(e)
    <3>1. /\ cl \in Row
          /\ \A f \in StaffRails : cl[f] = "None"
          /\ \A f \in {"lead", "emergency", "alt", "kind", "altAp"} : cl[f] = e[f]
      <4>1. cl \in Row  BY <1>0, <1>1, RailHelpers
      <4> QED  BY <1>1, <4>1 DEF ClearRails, Row, StaffRails
    <3> HIDE DEF cl
    <3>2. profile.role # "HR" /\ ~IsShort(e) /\ e["altAp"] # "Approved"
      BY <2>5 DEF ResetsRails, Sequential, AnyGranted, IsShort, RailNames
    <3>3. CASE e.alt # NoOne
      <4>1. y = cl  BY <2>1, <2>5, <3>3 DEF ResyncRails, cl
      <4> QED
        BY <2>3, <2>4, <3>1, <3>2, <3>3, <4>1 DEF Turn, CoverGateOk, IsShort, StaffRails, a, y
    <3>4. CASE e.alt = NoOne
      <4>1. y = FirstRail(cl, profile.role, profile.lead)
        BY <2>1, <2>5, <3>4 DEF ResyncRails, cl
      <4>2. /\ \A f \in {"lead", "emergency", "alt", "kind", "altAp"} : y[f] = e[f]
            /\ IF ~SkipsLead(profile.role) /\ profile.lead # NoOne
               THEN y["tlAp"] = "Pending"
               ELSE y["mdAp"] = "Pending" /\ y["tlAp"] = "None"
        BY <1>1, <3>1, <4>1 DEF FirstRail, Row, StaffRails
      <4> QED
        BY <2>3, <2>4, <3>2, <4>2 DEF Turn, IsShort, StaffRails, a, y
    <3> QED  BY <3>3, <3>4
  <2>6. CASE ~ResetsRails(e, profile.role)
    <3>1. y = e  BY <2>1, <2>6 DEF ResyncRails
    <3>2. profile.role = "HR" \/ IsShort(e) \/ (CoverGateOk(e) /\ CoverGateOk(x))
      <4>1. CASE Sequential(e, profile.role)
        <5>1. e["altAp"] = "Approved"
          BY <1>4, <2>3, <2>6, <4>1 DEF ResetsRails, AnyGranted, StaffRails, RailNames
        <5>2. x["altAp"] = "Approved"  BY <1>2, <2>2, <5>1 DEF RailNames
        <5> QED  BY <5>1, <5>2 DEF CoverGateOk
      <4>2. CASE ~Sequential(e, profile.role)
        BY <2>3, <2>4, <4>2 DEF Sequential, IsShort, Turn
      <4> QED  BY <4>1, <4>2
    <3> QED
      BY <2>3, <2>4, <3>1, <3>2 DEF Turn, IsShort, StaffRails, ShortSkipsLead, SkipsLead, a, y
  <2> QED  BY <2>5, <2>6
<1> QED  BY <1>5, <1>6

\* Rails are never cleared by a signature or by what follows it.
LEMMA FollowUps ==
    ASSUME NEW x \in Row, NEW role \in Roles, NEW ld \in Person
    PROVE  /\ \A f \in {"altAp", "alt", "kind", "lead", "emergency"} :
                 /\ UnlockHrMd(x)[f] = x[f]
                 /\ AfterCover(x, role, ld)[f] = x[f]
           /\ UnlockHrMd(x)["tlAp"] = x["tlAp"]
           /\ UnlockHrMd(x)["mdAp"] # "None"
           /\ x["mdAp"] # "None" => AfterCover(x, role, ld)["mdAp"] # "None"
           /\ x["tlAp"] # "None" => AfterCover(x, role, ld)["tlAp"] = x["tlAp"]
           /\ AfterCover(x, role, ld)["tlAp"] # x["tlAp"]
                 => ld # NoOne /\ AfterCover(x, role, ld)["tlAp"] = "Pending"
           /\ AfterCover(x, role, ld)["tlAp"] = "None"
                 => /\ SkipsLead(role) \/ ld = NoOne \/ x["lead"] = NoOne
                    /\ AfterCover(x, role, ld)["mdAp"] # "None"
PROOF
<1>1. /\ \A f \in {"altAp", "alt", "kind", "lead", "emergency"} : UnlockHrMd(x)[f] = x[f]
      /\ UnlockHrMd(x)["tlAp"] = x["tlAp"]
      /\ UnlockHrMd(x)["mdAp"] # "None"
  BY DEF UnlockHrMd, Row
<1> DEFINE y == [x EXCEPT !.tlAp = IF @ = "None" THEN "Pending" ELSE @]
<1>2. /\ \A f \in {"altAp", "alt", "kind", "lead", "emergency", "mdAp"} : y[f] = x[f]
      /\ y["tlAp"] = IF x["tlAp"] = "None" THEN "Pending" ELSE x["tlAp"]
  BY DEF Row
<1> HIDE DEF y
<1>3. AfterCover(x, role, ld) = IF ~SkipsLead(role) /\ ld # NoOne /\ x["lead"] # NoOne
                                THEN y ELSE UnlockHrMd(x)
  BY DEF AfterCover, y
<1> QED  BY <1>1, <1>2, <1>3

\* Signing and what the signature unlocks.
LEMMA SignedTurn ==
    ASSUME ProfileOK, QueueFits, StaffInPlace, NEW q \in Requests, NEW r \in Row, Turn(r),
           ~Refused(q.set, q.user, r)
    PROVE  Turn(Unlocked(q.set, q.user, r))
PROOF
<1> DEFINE role == profile.role
           ld == profile.lead
           s == Signed(q.set, q.user, r)
           c == AfterCover(s, role, ld)
           t == Taken(q.set, q.user, r)
           n == Unlocked(q.set, q.user, r)
           accepts == Sequential(r, role) /\ Approves(q.set, q.user, r, "altAp")
           x == IF accepts THEN c ELSE s
           leads == Approves(q.set, q.user, r, "tlAp")
                       /\ (Sequential(r, role) \/ (IsShort(r) /\ ShortSequential(role)))
<1>0. /\ role \in Roles /\ ld \in Person /\ role # "MD" /\ q.user \in Users /\ NoOne \notin Users
      /\ t \subseteq RailNames
  BY LeaveAssumption, NoOneAssumption
     DEF ProfileOK, QueueFits, StaffInPlace, WellFormed, Taken, MayWrite
<1>1. s \in Row /\ n \in Row  BY UnlockedType
<1>2. \A f \in RowColumns : s[f] = IF f \in t THEN q.set[f] ELSE r[f]
  BY DEF Signed, Overwrite, Row, RowColumns
<1>3. \A f \in t : q.set[f] \in Statuses
  <2>1. \A f \in t : q.set[f] \in FieldValues(f)
    BY LeaveAssumption DEF Taken, WellFormed
  <2>2. \A f \in RailNames : FieldValues(f) = Statuses
    BY DEF FieldValues, RailNames
  <2> QED  BY <1>0, <2>1, <2>2
<1>4. "tlAp" \in t => ld = q.user  BY DEF Taken, MayWrite
<1>5. n = IF leads THEN UnlockHrMd(x) ELSE x
  BY DEF Unlocked
<1>6. accepts <=> Sequential(r, role) /\ "altAp" \in t /\ q.set["altAp"] = "Approved"
                  /\ r["altAp"] # "Approved"
  BY DEF Approves
<1>7. leads <=> /\ "tlAp" \in t /\ q.set["tlAp"] = "Approved" /\ r["tlAp"] # "Approved"
                /\ Sequential(r, role) \/ (IsShort(r) /\ ShortSequential(role))
  BY DEF Approves
<1> HIDE DEF s, t, n, role, ld, accepts, leads
<1>8. /\ \A f \in {"alt", "kind", "lead", "emergency"} : s[f] = r[f]
      /\ \A f \in {"tlAp", "mdAp", "altAp"} :
            /\ f \in t => s[f] # "None" /\ s[f] = q.set[f]
            /\ f \notin t => s[f] = r[f]
  BY <1>0, <1>2, <1>3 DEF RowColumns, RailNames, Statuses
<1>9. c \in Row  BY <1>0, <1>1, RailHelpers
<1>10. /\ \A f \in {"altAp", "alt", "kind", "lead", "emergency"} : c[f] = s[f]
       /\ s["mdAp"] # "None" => c["mdAp"] # "None"
       /\ s["tlAp"] # "None" => c["tlAp"] = s["tlAp"]
       /\ c["tlAp"] # s["tlAp"] => ld # NoOne /\ c["tlAp"] = "Pending"
       /\ c["tlAp"] = "None" => /\ SkipsLead(role) \/ ld = NoOne \/ s["lead"] = NoOne
                                /\ c["mdAp"] # "None"
  BY <1>0, <1>1, FollowUps
<1> HIDE DEF c
<1>11. x \in Row  BY <1>1, <1>9
<1>12. /\ \A f \in {"alt", "kind", "lead", "emergency"} : x[f] = r[f]
       /\ x["altAp"] = s["altAp"]
       /\ s["mdAp"] # "None" => x["mdAp"] # "None"
       /\ s["tlAp"] # "None" => x["tlAp"] = s["tlAp"]
       /\ x["tlAp"] # s["tlAp"] => ld # NoOne /\ x["tlAp"] = "Pending"
       /\ accepts /\ x["tlAp"] = "None" => /\ SkipsLead(role) \/ ld = NoOne \/ r["lead"] = NoOne
                                          /\ x["mdAp"] # "None"
  BY <1>8, <1>10
<1> HIDE DEF x
<1>13. /\ \A f \in {"altAp", "alt", "kind", "lead", "emergency", "tlAp"} : n[f] = x[f]
       /\ leads => n["mdAp"] # "None"
       /\ x["mdAp"] # "None" => n["mdAp"] # "None"
  BY <1>0, <1>5, <1>11, FollowUps
<1>14. r["mdAp"] # "None" => n["mdAp"] # "None"  BY <1>8, <1>12, <1>13
<1>15. n["tlAp"] # "None" => n["lead"] # NoOne
  BY <1>0, <1>4, <1>8, <1>12, <1>13 DEF Turn, ld
<1>16. n["tlAp"] = "Approved" \/ role = "HR" => n["mdAp"] # "None"
  <2>1. CASE role = "HR"  BY <1>14, <2>1 DEF Turn, role
  <2>2. CASE role # "HR" /\ r["tlAp"] = "Approved"  BY <1>14, <2>2 DEF Turn
  <2>3. CASE role # "HR" /\ r["tlAp"] # "Approved" /\ n["tlAp"] = "Approved"
    <3>1. "tlAp" \in t /\ q.set["tlAp"] = "Approved"
      BY <1>8, <1>12, <1>13, <2>3
    <3>2. leads
      BY <1>0, <1>7, <2>3, <3>1 DEF Turn, Sequential, IsShort, ShortSequential
    <3> QED  BY <1>13, <3>2
  <2> QED  BY <2>1, <2>2, <2>3
<1>17. ASSUME role # "HR", CoverGateOk(n) \/ IsShort(n), n["tlAp"] = "None"
       PROVE  /\ n["mdAp"] # "None"
              /\ \/ n["lead"] = NoOne
                 \/ IsShort(n) /\ ShortSkipsLead(role)
                 \/ ~IsShort(n) /\ SkipsLead(role)
  <2>1. x["tlAp"] = "None" /\ r["tlAp"] = "None"  BY <1>8, <1>12, <1>13, <1>17
  <2>2. CASE CoverGateOk(r) \/ IsShort(r)
    BY <1>12, <1>13, <1>14, <1>17, <2>1, <2>2 DEF Turn, IsShort, role
  <2>3. CASE ~(CoverGateOk(r) \/ IsShort(r))
    <3>1. accepts
      BY <1>0, <1>6, <1>8, <1>12, <1>13, <1>17, <2>3 DEF Turn, Sequential, IsShort, CoverGateOk
    <3> QED  BY <1>12, <1>13, <2>1, <2>3, <3>1 DEF IsShort, Turn, ld
  <2> QED  BY <2>2, <2>3
<1> QED
  BY <1>12, <1>13, <1>15, <1>16, <1>17 DEF Turn, n, role

\* The cover person answers.
LEMMA AnsweredTurn ==
    ASSUME ProfileOK, QueueFits, StaffInPlace, NEW r \in Row, Turn(r), NEW v \in Statuses
    PROVE  LET s == [r EXCEPT !.altAp = v]
               p == IF s.altAp = "Approved" /\ Sequential(r, profile.role)
                    THEN AfterCover(s, profile.role, profile.lead) ELSE s
           IN  Turn(p)
PROOF
<1> DEFINE role == profile.role
           ld == profile.lead
           s == [r EXCEPT !.altAp = v]
           c == AfterCover(s, role, ld)
           p == IF s.altAp = "Approved" /\ Sequential(r, role) THEN c ELSE s
<1>0. role \in Roles /\ ld \in Person /\ role # "MD"
  BY DEF ProfileOK, QueueFits, StaffInPlace
<1>1. s \in Row  BY DEF Row, Rail
<1>2. /\ \A f \in {"alt", "kind", "lead", "emergency", "tlAp", "mdAp"} : s[f] = r[f]
      /\ s["altAp"] = v
  BY DEF Row
<1> HIDE DEF s, role, ld
<1>3. /\ \A f \in {"altAp", "alt", "kind", "lead", "emergency"} : c[f] = s[f]
      /\ s["mdAp"] # "None" => c["mdAp"] # "None"
      /\ s["tlAp"] # "None" => c["tlAp"] = s["tlAp"]
      /\ c["tlAp"] # s["tlAp"] => ld # NoOne /\ c["tlAp"] = "Pending"
      /\ c["tlAp"] = "None" => /\ SkipsLead(role) \/ ld = NoOne \/ s["lead"] = NoOne
                               /\ c["mdAp"] # "None"
  BY <1>0, <1>1, FollowUps
<1> HIDE DEF c
<1>4. CASE v = "Approved" /\ Sequential(r, role)
  <2>1. p = c  BY <1>2, <1>4
  <2>2. Turn(c)
    BY <1>0, <1>2, <1>3, <1>4 DEF Turn, Sequential, CoverGateOk, IsShort, role, ld
  <2> QED  BY <2>1, <2>2 DEF s, c, role, ld
<1>5. CASE ~(v = "Approved" /\ Sequential(r, role))
  <2>1. p = s  BY <1>2, <1>5
  <2>2. Turn(s)
    BY <1>0, <1>2, <1>5 DEF Turn, Sequential, CoverGateOk, IsShort, role
  <2> QED  BY <2>1, <2>2 DEF s, c, role, ld
<1> QED  BY <1>4, <1>5

\* A column that a request does not touch keeps the value it was loaded with.
LEMMA RedraftColumns ==
    ASSUME ProfileOK, NEW q \in Requests, NEW x \in Row,
           NEW f \in TurnColumns \ EditColumns(x, q.set)
    PROVE  Redrafted(x, q.set)[f] = x[f]
PROOF
<1> DEFINE a == q.set
           o == Overwrite(x, a, DOMAIN a \cap Drafts)
           e == Edited(x, a)
           y == Redrafted(x, a)
<1>0. profile.role \in Roles /\ profile.lead \in Person  BY DEF ProfileOK
<1>1. e \in Row /\ y \in Row /\ o \in Row  BY EditedType, AssignedColumn, OverwriteType
<1>2. f \notin DOMAIN a \cap Drafts  BY DEF EditColumns
<1>3. DOMAIN x = RowColumns /\ f \in RowColumns
  BY DEF Row, RowColumns, TurnColumns, RailNames
<1>4. o[f] = x[f]  BY <1>2, <1>3 DEF Overwrite
<1>5. CASE "alt" \notin DOMAIN a
  BY <1>4, <1>5 DEF Redrafted, Edited
<1>6. CASE "alt" \in DOMAIN a
  <2>1. f # "altAp"  BY <1>6 DEF EditColumns
  <2>2. ResetsRails(e, profile.role) => f \notin RailNames
    BY <1>6, <2>1 DEF EditColumns
  <2> HIDE DEF o
  <2>3. e = ResyncCover(o, x.alt) /\ y = ResyncRails(e, profile.role, profile.lead)
    BY <1>6 DEF Redrafted, Edited, o
  <2>4. e[f] = o[f]  BY <1>1, <1>3, <2>1, <2>3 DEF ResyncCover, Row, RowColumns
  <2> HIDE DEF e, y
  <2>5. f \notin RailNames => y[f] = e[f]
    <3> DEFINE cl == ClearRails(e)
    <3>1. cl \in Row  BY <1>0, <1>1, RailHelpers
    <3>2. f \notin RailNames => cl[f] = e[f]
      BY <1>1, <1>3 DEF ClearRails, Row, RowColumns, RailNames
    <3> HIDE DEF cl
    <3>3. f \notin RailNames => FirstRail(cl, profile.role, profile.lead)[f] = cl[f]
      BY <1>3, <3>1 DEF FirstRail, Row, RowColumns, RailNames
    <3> QED  BY <2>3, <3>2, <3>3 DEF ResyncRails, cl
  <2>6. ~ResetsRails(e, profile.role) => y = e  BY <2>3 DEF ResyncRails
  <2> QED  BY <1>4, <2>2, <2>4, <2>5, <2>6 DEF y, a
<1> QED  BY <1>5, <1>6

LEMMA PatchColumns ==
    ASSUME ProfileOK, NEW q \in Requests, NEW r \in Row, NEW read \in Summary,
           NEW f \in TurnColumns \ Touched(q.set, q.user, r)
    PROVE  Patched(q.set, q.user, r, read)[f] = r[f]
PROOF
<1> DEFINE a == q.set
           u == q.user
           n == Unlocked(a, u, r)
           p == Patched(a, u, r, read)
<1>1. n \in Row  BY UnlockedType
<1>2. f \in RowColumns /\ f # "split" /\ f # "altAp" => f \in StaffRails \/ f \notin RailNames
  BY DEF TurnColumns, RailNames, RowColumns, StaffRails
<1>3. f \in RowColumns /\ f # "split"
  BY DEF TurnColumns, RailNames, RowColumns
<1>4. n[f] = r[f]
  <2>1. f \in RailNames => n[f] = r[f]  BY DEF Touched
  <2>2. f \notin RailNames => n[f] = r[f]  BY <1>3, UnlockedKeeps
  <2> QED  BY <2>1, <2>2
<1>5. CASE EditsDraft(a, u, r)
  <2>1. ~Charges(a, u, r)  BY <1>5, DraftPatch
  <2>2. p = Redrafted(n, a)  BY <1>5, <2>1 DEF Patched
  <2>3. f \notin EditColumns(n, a)  BY <1>5 DEF Touched
  <2> HIDE DEF n, p
  <2>4. Redrafted(n, a)[f] = n[f]  BY <1>1, <2>3, RedraftColumns
  <2> QED  BY <1>4, <2>2, <2>4 DEF p
<1>6. CASE ~EditsDraft(a, u, r)
  <2> HIDE DEF n
  <2>1. p = n \/ p = [n EXCEPT !.split = SplitOf(read, DebitUnits(r.kind, r.days), Intern)]
    BY <1>6 DEF Patched, n
  <2>2. p[f] = n[f]  BY <1>1, <1>3, <2>1 DEF Row, RowColumns
  <2> QED  BY <1>4, <2>2
<1> QED  BY <1>5, <1>6

\* Nobody is deleted, so what a worker holds is the whole row.
WholeCopies == \A w \in Workers : thread[w] # Idle => thread[w].row = row

TurnInv == InTurn /\ StaffInPlace /\ WholeCopies /\ (row.state = "live" => Turn(row))

LEMMA SaveTurn ==
    ASSUME TypeOK, NEW w \in Workers, NEW p \in Row, NEW fs \in SUBSET Writable,
           NEW s, NEW c, NEW n, Save(w, p, fs, s, c, n), Turn(p)
    PROVE  (\A f \in TurnColumns \ fs : p[f] = row[f]) /\ row'.state = "live" => Turn(row')
PROOF
<1>1. CASE row.state # "live"  BY <1>1 DEF Save, Reject
<1>2. CASE row.state = "live"
  <2>1. \A f \in RowColumns \ {"slot", "split"} : row'[f] = IF f \in fs THEN p[f] ELSE row[f]
    BY <1>2, SavedRow
  <2>2. (\A f \in TurnColumns \ fs : p[f] = row[f]) => \A f \in TurnColumns : row'[f] = p[f]
    BY <2>1 DEF TurnColumns, RowColumns, RailNames
  <2> QED  BY <2>2, SameTurn
<1> QED  BY <1>1, <1>2

LEMMA PatchTurn ==
    ASSUME QueueFits, TurnInv, NEW w \in Workers, Patch(w)
    PROVE  row'.state = "live" => Turn(row')
PROOF
<1> DEFINE q == thread[w].q
           r == thread[w].row
           read == thread[w].read
           c == Charges(q.set, q.user, r)
           p == Patched(q.set, q.user, r, read)
           fs == Touched(q.set, q.user, r)
           n == Unlocked(q.set, q.user, r)
           s == IF c THEN Consume(summary, read, DebitUnits(r.kind, r.days), Intern)
                ELSE IF Approves(q.set, q.user, r, "mdAp") /\ ~r.emergency
                        /\ r.kind = "Menstrual"
                THEN ConsumeMenstrual(summary) ELSE summary
           k == IF c THEN 1 ELSE 0
<1>0. TypeOK /\ ProfileOK /\ StaffInPlace  BY DEF TurnInv, InTurn, TypeOK, ProfileOK
<1>1. /\ thread[w] # Idle /\ q \in Requests /\ r \in Row /\ read \in Summary /\ r = row
      /\ r.state = "live"
  BY <1>0, ThreadFacts DEF Patch, TurnInv, WholeCopies, InTurn, CopyCurrent
<1>2. Turn(r)  BY <1>1 DEF TurnInv
<1>3. \/ Reject(w)
      \/ Save(w, p, fs, s, k, Notes(r, p)) /\ ~Refused(q.set, q.user, r)
  BY DEF Patch
<1>4. CASE Reject(w)  BY <1>4 DEF Reject, TurnInv
<1>5. CASE Save(w, p, fs, s, k, Notes(r, p)) /\ ~Refused(q.set, q.user, r)
  <2> HIDE DEF q, r, read
  <2>1. p \in Row /\ fs \in SUBSET Writable /\ n \in Row
    BY <1>0, <1>1, PatchedType, TouchedColumns, UnlockedType
  <2>2. Turn(n)  BY <1>0, <1>1, <1>2, <1>5, SignedTurn
  <2>3. \A f \in TurnColumns \ fs : p[f] = row[f]
    BY <1>0, <1>1, PatchColumns
  <2>4. CASE EditsDraft(q.set, q.user, r)
    <3>1. p = Redrafted(n, q.set)
      BY <1>0, <1>1, <2>4, DraftPatch DEF Patched
    <3>2. ~StaffGranted(n)  BY <2>4 DEF EditsDraft, AnyGranted, StaffGranted
    <3>3. profile.role # "MD" /\ ("kind" \in DOMAIN q.set => q.set["kind"] # "Short")
      BY <1>0, <1>1 DEF QueueFits, StaffInPlace
    <3> HIDE DEF p, fs, n, s, k
    <3>4. Turn(p)  BY <1>0, <1>1, <2>1, <2>2, <3>1, <3>2, <3>3, RedraftTurn
    <3> QED  BY <1>0, <1>5, <2>1, <2>3, <3>4, SaveTurn
  <2>5. CASE ~EditsDraft(q.set, q.user, r)
    <3> HIDE DEF n
    <3>1. p = n \/ p = [n EXCEPT !.split = SplitOf(read, DebitUnits(r.kind, r.days), Intern)]
      BY <2>5 DEF Patched, n
    <3>2. \A f \in TurnColumns : p[f] = n[f]
      BY <2>1, <3>1 DEF Row, TurnColumns, RailNames
    <3> HIDE DEF p, fs, s, k
    <3>3. Turn(p)  BY <2>2, <3>2, SameTurn
    <3> QED  BY <1>0, <1>5, <2>1, <2>3, <3>3, SaveTurn
  <2> QED  BY <2>4, <2>5
<1> QED  BY <1>3, <1>4, <1>5

LEMMA OtherServeTurn ==
    ASSUME QueueFits, TurnInv, NEW w \in Workers, Respond(w) \/ EditHistory(w) \/ Destroy(w)
    PROVE  row'.state = "live" => Turn(row')
PROOF
<1> DEFINE q == thread[w].q
           r == thread[w].row
<1>0. TypeOK /\ ProfileOK /\ StaffInPlace /\ profile.role \in Roles /\ profile.lead \in Person
  BY DEF TurnInv, InTurn, TypeOK, ProfileOK
<1>1. /\ thread[w] # Idle /\ q \in Requests /\ r \in Row /\ r = row /\ r.state = "live"
  BY <1>0, ThreadFacts
     DEF Respond, EditHistory, Destroy, Busy, TurnInv, WholeCopies, InTurn, CopyCurrent
<1>2. Turn(r)  BY <1>1 DEF TurnInv
<1>3. CASE Reject(w)  BY <1>3 DEF Reject, TurnInv
<1>4. CASE Respond(w) /\ ~Reject(w)
  <2> DEFINE s == [r EXCEPT !.altAp = q.set["altAp"]]
             p == IF s.altAp = "Approved" /\ Sequential(r, profile.role)
                  THEN AfterCover(s, profile.role, profile.lead) ELSE s
             fs == {"altAp"} \cup {f \in RailNames : p[f] # r[f]}
             n == IF s.altAp = "Approved" THEN Notes(r, s) ELSE {}
  <2>1. Save(w, p, fs, summary, 0, n) /\ q.op = "respond"
    BY <1>4 DEF Respond, Busy
  <2> HIDE DEF q, r
  <2>2. q.set["altAp"] \in Statuses  BY <1>1, <2>1, LeaveAssumption DEF WellFormed, Statuses
  <2>3. Turn(p)  BY <1>0, <1>1, <1>2, <2>2, AnsweredTurn
  <2>4. s \in Row /\ \A f \in RowColumns \ {"altAp"} : s[f] = r[f]
    BY <1>1, <2>2 DEF Row, Rail, RowColumns
  <2> HIDE DEF s
  <2>5. p \in Row  BY <1>0, <2>4, RailHelpers
  <2>6. fs \in SUBSET Writable  BY DEF Writable, RailNames
  <2>7. \A f \in {"alt", "kind", "lead", "emergency"} : p[f] = row[f]
    <3>1. \A f \in {"alt", "kind", "lead", "emergency"} :
             AfterCover(s, profile.role, profile.lead)[f] = s[f]
      BY <1>0, <2>4, FollowUps
    <3> QED  BY <1>1, <2>4, <3>1 DEF RowColumns
  <2>8. \A f \in TurnColumns \ fs : p[f] = row[f]
    BY <1>1, <2>7 DEF TurnColumns
  <2> HIDE DEF p, fs, n
  <2> QED  BY <1>0, <2>1, <2>3, <2>5, <2>6, <2>8, SaveTurn
<1>5. CASE EditHistory(w) /\ ~Reject(w)
  <2> DEFINE p == Redrafted(r, q.set)
             fs == EditColumns(r, q.set)
  <2>1. Save(w, p, fs, summary, 0, {}) /\ ~StaffGranted(r)
    BY <1>5 DEF EditHistory
  <2> HIDE DEF q, r
  <2>2. p \in Row /\ fs \in SUBSET Writable  BY <1>0, <1>1, EditedType, TouchedColumns
  <2>3. profile.role # "MD" /\ ("kind" \in DOMAIN q.set => q.set["kind"] # "Short")
    BY <1>0, <1>1 DEF QueueFits, StaffInPlace
  <2>4. Turn(p)  BY <1>0, <1>1, <1>2, <2>1, <2>3, RedraftTurn
  <2>5. \A f \in TurnColumns \ fs : p[f] = row[f]  BY <1>0, <1>1, RedraftColumns
  <2> HIDE DEF p, fs
  <2> QED  BY <1>0, <2>1, <2>2, <2>4, <2>5, SaveTurn
<1>6. CASE Destroy(w) /\ ~Reject(w)
  <2>1. row' = [row EXCEPT !.state = "deleted"]  BY <1>6 DEF Destroy
  <2> QED  BY <1>0, <2>1 DEF TypeOK, Row
<1> QED  BY <1>3, <1>4, <1>5, <1>6

LEMMA CreateTurn ==
    ASSUME QueueFits, TurnInv, Create
    PROVE  Turn(row')
PROOF
<1>1. PICK c \in Creations : \/ CreateGeneral(c)   \/ CreateShort(c)
                            \/ CreateMenstrual(c) \/ CreateEmergency(c)
  BY DEF Create
<1> DEFINE ro == profile.role
           ld == profile.lead
           f == [Fresh(c) EXCEPT !.emergency = c.flag]
<1>0. /\ ro \in Roles /\ ld \in Person /\ NoRow \in Row /\ ro # "MD"
      /\ c \in Creation
      /\ c.by = "short" \/ (c.by = "general" /\ ~c.flag /\ c.kind \in {"Full_day", "Half_day"})
  BY NoRowType, LeaveAssumption DEF TurnInv, InTurn, TypeOK, QueueFits, StaffInPlace
<1>2. Fresh(c) \in Row /\ f \in Row
  BY <1>0, FreshType DEF TurnInv, InTurn, Creation
<1>3. /\ Fresh(c)["kind"] = c.kind /\ Fresh(c)["alt"] = c.alt /\ Fresh(c)["lead"] = ld
      /\ Fresh(c)["emergency"] = FALSE
      /\ f["kind"] = c.kind /\ f["alt"] = c.alt /\ f["lead"] = ld /\ f["emergency"] = c.flag
  BY DEF Fresh, NoRow
<1> HIDE DEF ro, ld, f
\* The rails as they are stored: the receivers write neither of these columns.
<1>4. ASSUME NEW r \in Row, NEW r1, NEW s, NEW m, NEW k, NEW n, Turn(r),
             r1 = SignalRow(r, r, NoRow, m), Created(r1, s, k, n)
      PROVE  Turn(row')
  <2>1. row' = r1  BY <1>4 DEF Created
  <2>2. \A x \in TurnColumns : row'[x] = r[x]
    BY <1>4, <2>1 DEF SignalRow, Row, TurnColumns, RailNames
  <2> QED  BY <1>4, <2>2, SameTurn
\* The cover person's rail follows from the name, whatever the others are.
<1>5. ASSUME NEW x \in Row
      PROVE  /\ InitialCover(x) \in Row
             /\ \A y \in TurnColumns \ {"altAp"} : InitialCover(x)[y] = x[y]
             /\ InitialCover(x)["altAp"] # "Approved"
  <2>1. InitialCover(x) \in Row  BY <1>0, RailHelpers
  <2> QED  BY <2>1 DEF InitialCover, Row, TurnColumns, RailNames
<1>6. ASSUME NEW x \in Row
      PROVE  /\ ClearRails(x) \in Row
             /\ \A y \in {"tlAp", "mdAp"} : ClearRails(x)[y] = "None"
             /\ \A y \in {"kind", "alt", "lead", "emergency"} : ClearRails(x)[y] = x[y]
  <2>1. ClearRails(x) \in Row  BY <1>0, RailHelpers
  <2> QED  BY <2>1 DEF ClearRails, Row
<1>7. CASE CreateGeneral(c)
  <2> DEFINE cl == ClearRails(f)
             g == RegularRails(f, ro, ld)
             r == InitialCover(g)
             r1 == SignalRow(r, r, NoRow, summary)
  <2>1. /\ \E s, k, n : Created(r1, s, k, n)
        /\ c.by = "general"
    BY <1>0, <1>7 DEF CreateGeneral, ro, ld, f
  <2>2. ~c.flag /\ c.kind \notin {"Short", "Menstrual"}
    BY <1>0, <2>1
  <2>3. cl \in Row /\ g \in Row  BY <1>0, <1>2, RailHelpers, RailSetters
  <2>4. /\ cl["tlAp"] = "None" /\ cl["mdAp"] = "None"
        /\ \A y \in {"kind", "alt", "lead", "emergency"} : cl[y] = f[y]
    BY <1>2, <1>6
  <2>5. g = IF ro = "HR" THEN [cl EXCEPT !.mdAp = "Pending"]
            ELSE IF f.alt # NoOne THEN cl ELSE FirstRail(cl, ro, ld)
    BY <1>0 DEF RegularRails
  <2> HIDE DEF cl, g
  <2>6. /\ \A y \in {"kind", "alt", "lead", "emergency"} : g[y] = f[y]
        /\ ro = "HR" => g["mdAp"] = "Pending" /\ g["tlAp"] = "None"
        /\ ro # "HR" /\ f["alt"] # NoOne => g["tlAp"] = "None"
        /\ ro # "HR" /\ f["alt"] = NoOne =>
              \/ g["tlAp"] = "Pending" /\ ld # NoOne
              \/ g["tlAp"] = "None" /\ g["mdAp"] = "Pending" /\ (SkipsLead(ro) \/ ld = NoOne)
    BY <2>3, <2>4, <2>5 DEF FirstRail, Row
  <2>7. /\ r \in Row /\ r["altAp"] # "Approved"
        /\ \A y \in {"kind", "alt", "lead", "emergency", "tlAp", "mdAp"} : r[y] = g[y]
    BY <1>5, <2>3 DEF TurnColumns, RailNames
  <2> HIDE DEF r
  <2>8. Turn(r)
    BY <1>3, <2>2, <2>6, <2>7 DEF Turn, IsShort, CoverGateOk, ro, ld
  <2> QED  BY <1>4, <2>1, <2>7, <2>8
<1>8. CASE CreateShort(c)
  <2> DEFINE cl == ClearRails(Fresh(c))
             m == SyncMonth(summary)
             g == ShortRails(Fresh(c), ro, ld)
             r == InitialCover(g)
             r1 == SignalRow(r, r, NoRow, m)
  <2>1. /\ Created(r1, SignalSummary(m, r, NoRow), 0, {})
        /\ c.kind = "Short"
    BY <1>8 DEF CreateShort, ro, ld
  <2>2. cl \in Row /\ g \in Row  BY <1>0, <1>2, RailHelpers, RailSetters
  <2>3. /\ cl["tlAp"] = "None" /\ cl["mdAp"] = "None"
        /\ \A y \in {"kind", "alt", "lead", "emergency"} : cl[y] = Fresh(c)[y]
    BY <1>2, <1>6
  <2>4. g = IF ro = "HR" THEN [cl EXCEPT !.mdAp = "Pending"]
            ELSE IF ro # "TeamLead" /\ ld # NoOne THEN [cl EXCEPT !.tlAp = "Pending"]
            ELSE [cl EXCEPT !.hrAp = "Pending", !.mdAp = "Pending"]
    BY <1>0 DEF ShortRails
  <2> HIDE DEF cl, g, m
  <2>5. /\ \A y \in {"kind", "alt", "lead", "emergency"} : g[y] = Fresh(c)[y]
        /\ ro = "HR" => g["mdAp"] = "Pending" /\ g["tlAp"] = "None"
        /\ ro # "HR" =>
              \/ g["tlAp"] = "Pending" /\ ld # NoOne
              \/ g["tlAp"] = "None" /\ g["mdAp"] = "Pending" /\ (ro = "TeamLead" \/ ld = NoOne)
    BY <2>2, <2>3, <2>4 DEF Row
  <2>6. /\ r \in Row
        /\ \A y \in {"kind", "alt", "lead", "emergency", "tlAp", "mdAp"} : r[y] = g[y]
    BY <1>5, <2>2 DEF TurnColumns, RailNames
  <2> HIDE DEF r
  <2>7. Turn(r)
    BY <1>3, <2>1, <2>5, <2>6 DEF Turn, IsShort, ShortSkipsLead, ro, ld
  <2> QED  BY <1>4, <2>1, <2>6, <2>7
<1> QED  BY <1>0, <1>1, <1>7, <1>8 DEF CreateMenstrual, CreateEmergency

LEMMA TurnStep ==
    ASSUME QueueFits, TurnInv, OneAtATime, [Next]_vars
    PROVE  TurnInv'
PROOF
<1>0. InTurn' /\ TypeOK /\ NewLeads = {} /\ Leavers = {}
  BY InTurnStep DEF TurnInv, InTurn, QueueFits
<1>1. ASSUME UNCHANGED <<profile, gone>>, WholeCopies', row'.state = "live" => Turn(row')
      PROVE  TurnInv'
  <2>1. StaffInPlace'  BY <1>1 DEF TurnInv, StaffInPlace
  <2>2. row'.state = "live" => Turn(row)'  BY <1>1 DEF Turn
  <2> QED  BY <1>0, <1>1, <2>1, <2>2 DEF TurnInv
<1>2. CASE Create
  <2>1. \A v \in Workers : thread[v] = Idle
    BY <1>2, CreateKeepsThreads DEF TurnInv, InTurn, CopyCurrent, Kept, RowColumns
  <2>2. WholeCopies' /\ UNCHANGED <<profile, gone>>
    BY <1>2, <2>1, CreateKeepsThreads DEF WholeCopies
  <2> QED  BY <1>1, <1>2, <2>2, CreateTurn
<1>3. CASE CreditEarn \/ NextMonth
  BY <1>1, <1>3 DEF CreditEarn, NextMonth, TurnInv, WholeCopies
<1>4. ~Reassign /\ ~DeleteUser  BY <1>0 DEF Reassign, DeleteUser
<1>5. ASSUME NEW w \in Workers, NEW q \in Requests, Load(w, q)
      PROVE  TurnInv'
  <2>1. UNCHANGED <<row, profile, gone>>  BY <1>5 DEF Load
  <2>2. \A v \in Workers : thread'[v] = thread[v] \/ thread'[v].row = row
    BY <1>0, <1>5 DEF Load, TypeOK
  <2>3. WholeCopies'  BY <2>1, <2>2 DEF TurnInv, WholeCopies
  <2> QED  BY <1>1, <2>1, <2>3 DEF TurnInv
<1>6. ASSUME NEW w \in Workers, ReadBalance(w)
      PROVE  TurnInv'
  <2>1. UNCHANGED <<row, profile, gone>>  BY <1>6 DEF ReadBalance
  <2>2. thread[w] \in Thread /\ thread[w] # Idle
    BY <1>0, <1>6, ThreadFacts DEF ReadBalance, Busy
  <2>3. thread'[w] = [thread[w] EXCEPT !.pc = "charging", !.read = summary]
    BY <1>0, <1>6 DEF ReadBalance, TypeOK
  <2>4. thread'[w].row = thread[w].row  BY <2>2, <2>3 DEF Thread
  <2>5. \A v \in Workers \ {w} : thread'[v] = thread[v]
    BY <1>0, <1>6 DEF ReadBalance, TypeOK
  <2>6. WholeCopies'  BY <2>1, <2>2, <2>4, <2>5 DEF TurnInv, WholeCopies
  <2> QED  BY <1>1, <2>1, <2>6 DEF TurnInv
<1>7. ASSUME NEW w \in Workers, Serve(w)
      PROVE  TurnInv'
  <2>1. \A v \in Workers : thread'[v] = Idle
    BY <1>0, <1>7, ServeDrops DEF OneAtATime, TypeOK
  <2>2. WholeCopies'  BY <2>1 DEF WholeCopies
  <2>3. UNCHANGED <<profile, gone>>  BY <1>7, ServeKeepsProfile
  <2>4. row'.state = "live" => Turn(row')
    BY <1>7, PatchTurn, OtherServeTurn DEF Serve
  <2> QED  BY <1>1, <2>2, <2>3, <2>4
<1>8. CASE UNCHANGED vars
  BY <1>1, <1>8 DEF vars, TurnInv, WholeCopies
<1> QED  BY <1>2, <1>3, <1>4, <1>5, <1>6, <1>7, <1>8 DEF Next

\* As long as nobody is moved or deleted and everybody the chain needs is there, an
\* undecided application is in the queue of somebody whose approval the server accepts:
\* the queue filter, the authority check and the gates agree on every path of the chain.
THEOREM QueuedInTurn ==
    ASSUME QueueFits
    PROVE  Spec /\ []OneAtATime => []NeverOrphaned
PROOF
<1>1. Init => TurnInv
  <2>1. Init => StaffInPlace  BY DEF Init, StaffInPlace
  <2>2. Init => WholeCopies /\ row.state # "live"  BY DEF Init, NoRow, WholeCopies
  <2> QED  BY <2>1, <2>2, InTurnInit DEF TurnInv
<1>2. TurnInv /\ OneAtATime /\ [Next]_vars => TurnInv'  BY TurnStep
<1>3. TurnInv => NeverOrphaned
  <2>1. row.state # "live" => NeverOrphaned  BY DEF NeverOrphaned, Undecided
  <2>2. TurnInv /\ row.state = "live" => NeverOrphaned
    BY SomebodysTurn DEF TurnInv, InTurn
  <2> QED  BY <2>1, <2>2
<1> QED  BY <1>1, <1>2, <1>3, PTL DEF Spec
=============================================================================
