-------------------------- MODULE PerformanceScore --------------------------
(***************************************************************************)
(* The facts behind the scores and the scores read from them: what each     *)
(* employee has done in each month, the leaves approved, the targets the MD  *)
(* sets for one employee and month, the state of the assets.  A score is    *)
(* stored nowhere; every request computes it anew from these rows.          *)
(*                                                                         *)
(* A row with a time of day may fall into the first hours of a month: local *)
(* time (Asia/Kolkata) is ahead of the UTC in which Django hands the time   *)
(* out, so its UTC month is the month before.                               *)
(***************************************************************************)
EXTENDS ScoreRules, SequencesExt

CONSTANTS Person,
          Profiles,   \* profiles[e] an instance may start with: [Person -> Profile]
          Month,      \* months in which facts are recorded
          Periods,    \* quarters and years asked for
          Starts,     \* rows a behaviour may start from: the count of every kind
                      \* and the leaves of every month
          Steps,      \* how much one action records
          Targets,    \* values a custom target may have
          MaxOps,     \* bound on the actions of a behaviour
          None

UtcKind == {"ten_day", "one_day", "intern_task", "media", "content"}

MmrRgField == {"panel", "proposal", "profiles", "proforma"}
DmField    == {"media", "content"}
Field      == MmrRgField \cup DmField \cup {"quantity"}

Default == [panel |-> 10, proposal |-> 10, profiles |-> 5, proforma |-> 10,
            media |-> 10, content |-> 8, quantity |-> 100]

Profile == [role : {"Employee", "TeamLead", "Intern", "HR", "Admin", "MD"},
            functions : SUBSET {"MMR", "RG", "DM", "P&S", "NPD", "HC", "IP", "NPC"},
            core : BOOLEAN]

ASSUME ScoreAssumption ==
  /\ IsFiniteSet(Person) /\ Profiles \subseteq [Person -> Profile]
  /\ Month \subseteq Nat
  /\ Periods \subseteq [from : Nat, to : Nat] /\ \A p \in Periods : p.from <= p.to
  /\ Starts \subseteq [count : Nat, leaves : Seq({"half", "full"})]
  /\ Steps \subseteq Nat /\ Targets \subseteq Nat \ {0}
  /\ MaxOps \in Nat
  /\ None \notin Nat

VARIABLES profile,
          done,    \* done[e][k][m]: rows of kind k that fall into local month m
          early,   \* those of them that a UTC month puts into the month before
          leaves,  \* leaves[e][m]: approved leaves in order of their start
          target,  \* target[e][f][m]: the custom target, or None
          assets,
          ops

scoreVars == <<profile, done, early, leaves, target, assets, ops>>

ScoreTypeOK ==
  /\ profile \in [Person -> Profile]
  /\ done \in [Person -> [Kind -> [Month -> Nat]]]
  /\ early \in [Person -> [UtcKind -> [Month -> Nat]]]
  /\ \A e \in Person, k \in UtcKind, m \in Month : early[e][k][m] <= done[e][k][m]
  /\ leaves \in [Person -> [Month -> Seq({"half", "full"})]]
  /\ target \in [Person -> [Field -> [Month -> (Nat \ {0}) \cup {None}]]]
  /\ assets \in [total : Nat, bad : Nat] /\ assets.bad <= assets.total
  /\ ops \in 0 .. MaxOps

ScoreInit ==
  /\ profile \in Profiles
  /\ \E r \in Starts :
       /\ done = [e \in Person |-> [k \in Kind |-> [m \in Month |-> r.count]]]
       /\ leaves = [e \in Person |-> [m \in Month |-> r.leaves]]
  /\ early = [e \in Person |-> [k \in UtcKind |-> [m \in Month |-> 0]]]
  /\ target = [e \in Person |-> [f \in Field |-> [m \in Month |-> None]]]
  /\ assets = [total |-> 0, bad |-> 0]
  /\ ops = 0

-----------------------------------------------------------------------------
(* What a request reads *)

InMonth(count, m) == IF m \in Month THEN count[m] ELSE 0

\* The rows that the query of period p selects and the loop files under m: the
\* query goes by local months, the key of a UtcKind by the UTC month.
Filed(e, k, p, m) ==
  IF k \notin UtcKind THEN InMonth(done[e][k], m)
  ELSE InMonth(done[e][k], m) - InMonth(early[e][k], m)
       + (IF m + 1 \in MonthsInPeriod(p) THEN InMonth(early[e][k], m + 1) ELSE 0)

Counts(e, p, m) == [k \in Kind |-> Filed(e, k, p, m)]

EffectiveTarget(e, f, m) ==
  IF m \in Month /\ target[e][f][m] # None THEN target[e][f][m] ELSE Default[f]

TargetsOf(e, m) == [f \in Field |-> EffectiveTarget(e, f, m)]

LeavesIn(e, m) == IF m \in Month THEN leaves[e][m] ELSE <<>>

PersonalMain(e, p, m) == Personal(Counts(e, p, m), LeavesIn(e, m))
WorkMain(e, p, m) == Work(profile[e], Counts(e, p, m), TargetsOf(e, m), assets)

MonthMain(e, p, m) == PersonalMain(e, p, m) + WorkMain(e, p, m)

\* The sum over the months of a period.
Total(score) == SumFunction(score)

\* The employees whose work makes up the organisation's average.
Pool == {e \in Person : profile[e].role \notin OrgExcluded}

OrgWork(p) ==
  SumFunction([e \in Pool |-> Total([m \in MonthsInPeriod(p) |-> WorkMain(e, p, m)])])

Combined(e, p) ==
  Total([m \in MonthsInPeriod(p) |-> MonthMain(e, p, m)])
    + IF profile[e].role = "HR"
      THEN OrgShare(OrgWork(p), Cardinality(Pool), p.to - p.from + 1)
      ELSE 0

-----------------------------------------------------------------------------
(* What changes the rows *)

Op == ops < MaxOps /\ ops' = ops + 1

\* Rows of the other parts of the system that count: a meeting held, a task or a
\* checklist item completed, a certificate filed, an amount logged.
Record(e, k, m, n, isEarly) ==
  /\ Op
  /\ k \notin {"media", "content"}
  /\ isEarly => k \in UtcKind
  /\ done' = [done EXCEPT ![e][k][m] = @ + n]
  /\ early' = IF isEarly THEN [early EXCEPT ![e][k][m] = @ + n] ELSE early
  /\ UNCHANGED <<profile, leaves, target, assets>>

\* The MD approves a DM work entry, pending or rejected before.
ApproveDm(e, k, m, isEarly) ==
  /\ Op
  /\ k \in {"media", "content"} /\ "DM" \in profile[e].functions
  /\ done' = [done EXCEPT ![e][k][m] = @ + 1]
  /\ early' = IF isEarly THEN [early EXCEPT ![e][k][m] = @ + 1] ELSE early
  /\ UNCHANGED <<profile, leaves, target, assets>>

\* Mutant of RejectDm: an entry that was never approved is taken off.
RejectDmAny(e, k, m, isEarly) ==
  /\ Op
  /\ k \in {"media", "content"}
  /\ done' = [done EXCEPT ![e][k][m] = @ - 1]
  /\ UNCHANGED <<profile, early, leaves, target, assets>>

\* Nothing keeps the MD from rejecting an entry that has been approved.
RejectDm(e, k, m, isEarly) ==
  /\ Op
  /\ k \in {"media", "content"}
  /\ IF isEarly THEN early[e][k][m] > 0 ELSE done[e][k][m] > early[e][k][m]
  /\ done' = [done EXCEPT ![e][k][m] = @ - 1]
  /\ early' = IF isEarly THEN [early EXCEPT ![e][k][m] = @ - 1] ELSE early
  /\ UNCHANGED <<profile, leaves, target, assets>>

\* The MD approves a leave that starts before all but the first i of the month.
ApproveLeave(e, m, l, i) ==
  /\ Op
  /\ i \in 0 .. Len(leaves[e][m])
  /\ leaves' = [leaves EXCEPT ![e][m] = InsertAt(@, i + 1, l)]
  /\ UNCHANGED <<profile, done, early, target, assets>>

IsMmrRg(x) == x.functions \cap {"MMR", "RG"} # {}

\* One statement sets the fields that are given; PUT clears the others of the row.
WriteTargets(e, F, m, given, put) ==
  /\ Op
  /\ target' = [target EXCEPT ![e] =
       [f \in Field |-> IF f \in DOMAIN given THEN [@[f] EXCEPT ![m] = given[f]]
                        ELSE IF put /\ f \in F THEN [@[f] EXCEPT ![m] = None]
                        ELSE @[f]]]
  /\ UNCHANGED <<profile, done, early, leaves, assets>>

SetMmrRgTargets(e, m, given, put) ==
  /\ IsMmrRg(profile[e])
  /\ DOMAIN given \subseteq MmrRgField
  /\ WriteTargets(e, MmrRgField, m, given, put)

SetDmTargets(e, m, given, put) ==
  /\ "DM" \in profile[e].functions
  /\ DOMAIN given \subseteq DmField
  /\ WriteTargets(e, DmField, m, given, put)

\* PUT and PATCH are the same here: the row has one target.
SetPsTarget(e, m, given) ==
  /\ "P&S" \in profile[e].functions
  /\ DOMAIN given = {"quantity"}
  /\ WriteTargets(e, {"quantity"}, m, given, FALSE)

\* Only the MMR/RG targets can be reset, for one month or for a calendar year.
ResetTargets(e, ms) ==
  /\ Op
  /\ IsMmrRg(profile[e])
  /\ target' = [target EXCEPT ![e] =
       [f \in Field |-> [m \in Month |-> IF f \in MmrRgField /\ m \in ms THEN None
                                         ELSE @[f][m]]]]
  /\ UNCHANGED <<profile, done, early, leaves, assets>>

\* An asset is bought, or marked as performing or not.
ChangeAssets(a) ==
  /\ Op
  /\ a.bad <= a.total
  /\ assets' = a
  /\ UNCHANGED <<profile, done, early, leaves, target>>

SetOne(e, m, f, v, put) ==
  LET given == [g \in {f} |-> v] IN
  SetMmrRgTargets(e, m, given, put) \/ SetDmTargets(e, m, given, put) \/ SetPsTarget(e, m, given)

\* The actions that concern one month of one employee.
About(e, m) ==
  \/ \E k \in Kind, n \in Steps, b \in BOOLEAN : Record(e, k, m, n, b)
  \/ \E k \in Kind, b \in BOOLEAN : ApproveDm(e, k, m, b) \/ RejectDm(e, k, m, b)
  \/ \E l \in {"half", "full"}, i \in 0 .. Len(leaves[e][m]) : ApproveLeave(e, m, l, i)
  \/ \E f \in Field, v \in Targets \cup {None}, put \in BOOLEAN : SetOne(e, m, f, v, put)
  \/ ResetTargets(e, {m})

ScoreNext ==
  \/ \E e \in Person, m \in Month : About(e, m)
  \/ \E e \in Person, p \in Periods :
       p.to - p.from = 11 /\ ResetTargets(e, MonthsInPeriod(p))
  \/ \E a \in [total : 0 .. 2, bad : 0 .. 2] : ChangeAssets(a)

ScoreSpec == ScoreInit /\ [][ScoreNext]_scoreVars

-----------------------------------------------------------------------------
(* Properties *)

\* The categories are cut so that a month is worth 100 points: 30 personal ones,
\* and 70 of work, which an HR employee takes from the organisation.  An intern
\* with one of the functions NPD, HC, IP is the exception: 70 for tasks and 20
\* for entries beside the 30.
MonthlyTop(x) == CASE ScoringProfile(x) = "hr"                    -> 30 * Point
                   [] ScoringProfile(x) = "intern" /\ Special(x) -> 120 * Point
                   [] OTHER                                       -> 100 * Point

\* No month of any period is worth more than that, whatever the rows, the
\* targets and the combination of role, functions and branch.
HundredIsTheTop ==
  \A e \in Person, p \in Periods \cup {MonthOf(m) : m \in Month} :
    \A m \in MonthsInPeriod(p) : MonthMain(e, p, m) <= MonthlyTop(profile[e])

NoEarlyRow == \A e \in Person, k \in UtcKind, m \in Month : early[e][k][m] = 0
NobodyOver(S) == \A e \in S : MonthlyTop(profile[e]) <= 100 * Point

\* "Quarter / year totals sum monthly main_score" (the header of each scoring
\* file): a period's combined score is that of its months asked for one by one,
\* each month with its own targets, as long as no row lies in the first hours of a
\* month and, for HR, the organisation's cap of 70 cannot bite in one month only.
\* An average over several employees is rounded once for the period, once for
\* each month when the months are asked for: less than a sixtieth a month apart.
PeriodsAddUp ==
  NoEarlyRow =>
    \A e \in Person, p \in Periods :
      LET months == Total([m \in MonthsInPeriod(p) |-> Combined(e, MonthOf(m))])
          apart  == IF profile[e].role = "HR" /\ Cardinality(Pool) > 1 THEN p.to - p.from ELSE 0
      IN (profile[e].role # "HR" \/ NobodyOver(Pool)) => Combined(e, p) - months \in 0 .. apart

\* The same of the tasks of an intern alone, wherever their rows lie
\* (src/task_management/intern_task_scoring.py:10).
InternPeriodsAddUp ==
  \A e \in Person, p \in Periods :
    Total([m \in MonthsInPeriod(p) |-> InternTaskMain(Counts(e, p, m))])
      = Total([m \in MonthsInPeriod(p) |-> InternTaskMain(Counts(e, MonthOf(m), m))])

Asked == Periods \cup {MonthOf(m) : m \in Month}

Grown == /\ <<done, early>>' # <<done, early>>
         /\ \A e \in Person, k \in Kind, m \in Month : done'[e][k][m] >= done[e][k][m]
         /\ UNCHANGED <<profile, leaves, target, assets>>

LongerLeave == leaves' # leaves /\ UNCHANGED <<profile, done, early, target, assets>>

\* More work never costs anybody points, their own or through the organisation's
\* average; and one more approved leave, wherever it falls in the month and
\* whatever it does to the allowance left for the others, never earns any.
MoreNeverLowers ==
  [][\A e \in Person, p \in Asked :
       /\ Grown => Combined(e, p)' >= Combined(e, p)
       /\ LongerLeave => Combined(e, p)' <= Combined(e, p)]_scoreVars
=============================================================================
