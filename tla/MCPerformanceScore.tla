------------------------ MODULE MCPerformanceScore ------------------------
(* An employee of every scoring profile, one with the default profile and an *)
(* HR employee, around the turn of a financial year: months 315 and 316 are  *)
(* March and April 2026.                                                     *)
EXTENDS PerformanceScore

CONSTANTS emp, col, hr

Of(role, functions, core) ==
  (emp :> [role |-> role, functions |-> functions, core |-> core])
    @@ (col :> [role |-> "Employee", functions |-> {}, core |-> FALSE])
    @@ (hr :> [role |-> "HR", functions |-> {}, core |-> FALSE])

MCProfiles ==
  {Of("Employee", {}, FALSE), Of("Employee", {"NPD"}, FALSE), Of("TeamLead", {}, FALSE),
   Of("TeamLead", {"HC"}, FALSE), Of("Employee", {"NPC"}, TRUE),
   Of("Employee", {"NPC", "IP"}, TRUE), Of("Intern", {}, FALSE), Of("Intern", {"NPD"}, TRUE),
   Of("Intern", {"DM", "IP"}, FALSE), Of("Employee", {"MMR", "DM"}, FALSE),
   Of("Employee", {"P&S", "NPD"}, TRUE), Of("Admin", {"MMR"}, FALSE), Of("MD", {"NPD"}, FALSE)}

Row(n, s) == [count |-> n, leaves |-> s]
MCStarts ==
  {Row(n, <<"full">>) : n \in {0, 1, 20, 120}}
    \cup {Row(0, s) : s \in {<<"half", "full">>, <<"full", "full">>, <<"half", "full", "half">>,
                             <<"half", "half", "half">>, <<"full", "half", "full", "full">>}}

MCMonth   == {315, 316}
MCPeriods == {QuarterOf(25, 4), QuarterOf(26, 1), YearOf(26)}
===========================================================================
