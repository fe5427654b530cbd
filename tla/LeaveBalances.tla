--------------------------- MODULE LeaveBalances ---------------------------
(***************************************************************************)
(* The applicant's LeaveSummary row and how leave is charged to it          *)
(* (accounts/leave_views.py).  Day balances are counted in half-days, so    *)
(* that Decimal("0.5") is 1; used_leaves and the emergency quota are whole  *)
(* days, as in the code.                                                    *)
(***************************************************************************)
EXTENDS Naturals

CONSTANT ShortQuota      \* settings.SHORT_LEAVE_MONTHLY_QUOTA

ASSUME ShortQuotaAssumption == ShortQuota \in Nat

Summary == [casual: Nat, earn: Nat, unpaid: Nat, used: Nat, total: Nat,
            emergency: Nat, menstrual: Nat, short: Nat, stamp: BOOLEAN]

Split   == [casual: Nat, earn: Nat, unpaid: Nat]
NoSplit == [casual |-> 0, earn |-> 0, unpaid |-> 0]
Total(s) == s.casual + s.earn + s.unpaid

Least(a, b) == IF a <= b THEN a ELSE b

\* Half-days to charge: a half day is one, short leave none.
DebitUnits(kind, days) ==
    CASE kind = "Half_day" -> 1
      [] kind = "Short"    -> 0
      [] OTHER             -> 2 * days

\* Mutant of SplitOf: casual leave is not capped by its balance.
SplitUncapped(s, units, intern) ==
    [casual |-> units, earn |-> 0, unpaid |-> 0]

\* casual -> earn -> unpaid; an intern's leave is all unpaid.
SplitOf(s, units, intern) ==
    LET fromCasual == IF intern THEN 0 ELSE Least(s.casual, units)
        fromEarn   == IF intern THEN 0 ELSE Least(s.earn, units - fromCasual)
    IN  [casual |-> fromCasual, earn |-> fromEarn,
         unpaid |-> units - fromCasual - fromEarn]

\* Mutant of Consume: earn_leaves missing from update_fields.
ConsumeKeepsEarn(s, read, units, intern) ==
    LET sp == SplitOf(read, units, intern)
    IN  [s EXCEPT !.casual = read.casual - sp.casual,
                  !.unpaid = read.unpaid + sp.unpaid]

\* The columns _consume_casual_earn_unpaid writes, computed from the summary
\* "read" it loaded, on the summary "s" that is in the table when it saves.
\* The intern branch saves unpaid_leaves alone.
Consume(s, read, units, intern) ==
    LET sp == SplitOf(read, units, intern)
    IN  IF intern
        THEN [s EXCEPT !.unpaid = read.unpaid + units]
        ELSE [s EXCEPT !.casual = read.casual - sp.casual,
                       !.earn   = read.earn - sp.earn,
                       !.unpaid = read.unpaid + sp.unpaid,
                       !.used   = read.used + ((sp.casual + sp.earn) \div 2)]

ConsumeMenstrual(s) == [s EXCEPT !.menstrual = 0]

\* A new calendar month refills the short-leave slots on first use.
SyncMonth(s) == IF s.stamp THEN s
                ELSE [s EXCEPT !.short = ShortQuota, !.stamp = TRUE]

\* finalize_short_leave_monthly_debit under its row locks.  With no slot left
\* it saves the month and returns: the application stays without a slot.
FinalizeShort(s) ==
    LET m == SyncMonth(s)
    IN  IF m.short < 1 THEN m ELSE [m EXCEPT !.short = @ - 1]

GetsSlot(s) == SyncMonth(s).short >= 1

\* max(0, total - used), in days.
Remaining(s) == IF s.total >= s.used THEN s.total - s.used ELSE 0
=============================================================================
