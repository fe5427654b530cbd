----------------------------- MODULE ScoreRules -----------------------------
(***************************************************************************)
(* How a month of an employee's work is turned into points: the scoring     *)
(* files that src/accounts/performance_scoring.py combines.  A month's      *)
(* counts n are what its query has selected and filed under the month; t    *)
(* holds the month's targets; x is the employee's profile.  Only the main   *)
(* score is modelled (the combined score leaves the bonus out).             *)
(*                                                                         *)
(* Points are counted in sixtieths, so that every rate is whole; an amount  *)
(* of money is counted in tenths of its default target.                     *)
(***************************************************************************)
EXTENDS Integers, FiniteSets, Sequences, FiniteSetsExt

Point == 60

Capped(raw, cap) == IF raw < cap THEN raw ELSE cap

\* The points of an achievement measured against a target.
Portion(achieved, target, cap) ==
  IF achieved <= 0 \/ target <= 0 THEN 0
  ELSE Capped((achieved * cap) \div target, cap)

-----------------------------------------------------------------------------
(* Months and periods: month m of year y is 12 * y + m, so that the last    *)
(* quarter of a financial year falls into the next calendar year.           *)

MonthOf(m)       == [from |-> m, to |-> m]
QuarterOf(y, q)  == [from |-> 12 * y + 3 * q + 1, to |-> 12 * y + 3 * q + 3]
YearOf(y)        == [from |-> 12 * y + 1, to |-> 12 * y + 12]
MonthsInPeriod(p) == p.from .. p.to

-----------------------------------------------------------------------------
(* Profiles: role, functions, and whether the branch is Farm or Infra Core. *)

Kind == {"indoor", "outdoor", "certificate", "coauthored", "entry", "checklist",
         "farm_task", "ten_day", "one_day", "intern_task", "media", "content",
         "quantity", "proposal", "profiles", "proforma", "panel"}

Special(x) == x.functions \cap {"NPD", "HC", "IP"} # {}

\* build_performance_score and the order of _compute_individual_performance_score.
ScoringProfile(x) ==
  CASE x.role = "HR"                                   -> "hr"
    [] x.role = "Admin"                                -> "admin"
    [] x.functions \cap {"MMR", "RG"} # {}             -> "mmr_rg"
    [] "DM" \in x.functions                            -> "dm"
    [] "P&S" \in x.functions                           -> "ps"
    [] x.role = "Intern"                               -> "intern"
    [] x.core /\ (Special(x) \/ "NPC" \in x.functions) -> "core"
    [] OTHER                                           -> "default"

-----------------------------------------------------------------------------
(* Leave: the month starts at 8 points and has two free days.  s is the     *)
(* month's approved leaves in order of their start.                         *)

HalfDays(l) == IF l = "half" THEN 1 ELSE 2

\* The free half-days used by the first i leaves; a leave that no longer fits is
\* charged and leaves the rest of the allowance to the later ones.
Used(s) ==
  LET u[i \in 0 .. Len(s)] ==
        IF i = 0 THEN 0
        ELSE IF u[i - 1] + HalfDays(s[i]) <= 4 THEN u[i - 1] + HalfDays(s[i])
        ELSE u[i - 1]
  IN u

Waived(s, i) == Used(s)[i] # Used(s)[i - 1]

Charged(s, l) == Cardinality({i \in DOMAIN s : s[i] = l /\ ~Waived(s, i)})

LeavePoints(s) ==
  LET lost == 24 * Charged(s, "half") + 48 * Charged(s, "full")
  IN IF lost < 8 * Point THEN 8 * Point - lost ELSE 0

-----------------------------------------------------------------------------
(* The categories everybody has *)

MeetingMain(n) == Capped(15 * n["indoor"], 210) + Capped(30 * n["outdoor"], 210)

\* Mutant of CertificationMain: a second certificate takes the points back.
CertificationOnce(n) == IF n["certificate"] = 1 THEN 5 * Point ELSE 0

CertificationMain(n) == IF n["certificate"] > 0 THEN 5 * Point ELSE 0

CoAuthorMain(n) == Capped(2 * Point * n["coauthored"], 10 * Point)

-----------------------------------------------------------------------------
(* The work of one's role or function *)

EntriesMain(x, n) == IF Special(x) THEN Capped(4 * Point * n["entry"], 20 * Point) ELSE 0

ChecklistRate(x) ==
  CASE Special(x) /\ x.role = "TeamLead" -> 450
    [] Special(x) /\ x.role # "TeamLead" -> 750
    [] x.role = "TeamLead"               -> 600
    [] OTHER                             -> 1050

ChecklistMain(x, n) ==
  IF x.role = "Intern" THEN 0
  ELSE Capped(ChecklistRate(x) * n["checklist"], IF Special(x) THEN 50 * Point ELSE 70 * Point)

\* Mutant of CoreMain: the cap of NPC is preferred where both are present.
CoreMainNpc(x, n) ==
  Capped(10 * Point * n["farm_task"], IF "NPC" \in x.functions THEN 70 * Point ELSE 50 * Point)

CoreMain(x, n) ==
  Capped(10 * Point * n["farm_task"], IF Special(x) THEN 50 * Point ELSE 70 * Point)

InternTaskMain(n) == Portion(n["intern_task"], 21, 70 * Point)

AdminTaskMain(n) == Capped(10 * Point * n["ten_day"], 30 * Point)
                    + Capped(Point * n["one_day"], 20 * Point)

AdminAssetMain(a) == IF a.total = 0 THEN 20 * Point
                     ELSE ((a.total - a.bad) * 20 * Point) \div a.total

ClientProfileMain(n, t) == Portion(n["proposal"], t["proposal"], 10 * Point)
                           + Portion(n["profiles"], t["profiles"], 10 * Point)
                           + Portion(n["proforma"], t["proforma"], 10 * Point)

CustomerPanelMain(n, t) == Portion(n["panel"], t["panel"], 40 * Point)

DmMain(n, t) == Portion(n["media"], t["media"], 40 * Point)
                + Portion(n["content"], t["content"], 30 * Point)

PsMain(n, t) == Portion(n["quantity"], t["quantity"], 70 * Point)

-----------------------------------------------------------------------------
(* The month *)

Personal(n, s) == LeavePoints(s) + MeetingMain(n) + CertificationMain(n) + CoAuthorMain(n)

\* An HR employee has no work category: the organisation's average takes its place.
Work(x, n, t, a) ==
  LET as == ScoringProfile(x) IN
  CASE as = "hr"      -> 0
    [] as = "admin"   -> AdminTaskMain(n) + AdminAssetMain(a)
    [] as = "mmr_rg"  -> ClientProfileMain(n, t) + CustomerPanelMain(n, t)
    [] as = "dm"      -> DmMain(n, t)
    [] as = "ps"      -> PsMain(n, t)
    [] as = "intern"  -> InternTaskMain(n) + EntriesMain(x, n)
    [] as = "core"    -> CoreMain(x, n) + EntriesMain(x, n)
    [] as = "default" -> ChecklistMain(x, n) + EntriesMain(x, n)

OrgExcluded == {"HR", "MD", "Admin"}

\* Mutant of OrgShare: the cap of a month is applied to every period.
OrgShareMonth(total, count, months) ==
  IF count = 0 THEN 0 ELSE Capped(total \div count, 70 * Point)

\* The organisation's share of an HR score: the average, at most 70 a month.
OrgShare(total, count, months) ==
  IF count = 0 THEN 0 ELSE Capped(total \div count, 70 * Point * months)
=============================================================================
