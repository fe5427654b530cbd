----------------------------- MODULE OfficeBooks -----------------------------
(***************************************************************************)
(* The administration panel of src/adminpanel (models.py, serializers.py,          *)
(* views.py), which superusers alone may use: an expense and its vendor, the         *)
(* advances of the months, a bill and its category, an asset and who has it, and      *)
(* the figures computed from them.  A change of an expense or an asset loads the row   *)
(* and writes it whole later; the rest is one statement.                               *)
(***************************************************************************)
EXTENDS Integers, FiniteSets, Functions

CONSTANTS Expense, Vendor, Category,     \* ids of expenses, of vendors, of bill categories
          Month, Amount,                 \* months are numbers
          Name, Staff,                   \* names of assignees, and employee ids
          Worker, Idle, None

VARIABLES expense,   \* each expense: its amount, month and vendor, or None
          vendors,   \* the vendors there are
          advance,   \* the advance of each month, or None
          bill,      \* a bill: its amount and category, or None
          bills,     \* the bill categories there are
          asset,     \* an asset: the name and the employee id it is assigned to, or None
          profile,   \* whose profile has each name now, or None
          otask      \* what each worker is doing

officeVars == <<expense, vendors, advance, bill, bills, asset, profile, otask>>

ExpenseRow == [amount : Amount, month : Month, vendor : Vendor \cup {None}]

TypeOK ==
  /\ expense \in [Expense -> ExpenseRow \cup {None}]
  /\ vendors \subseteq Vendor /\ bills \subseteq Category
  /\ advance \in [Month -> Amount \cup {None}]
  /\ bill \in [amount : Amount, category : Category] \cup {None}
  /\ asset \in [name : Name \cup {None}, id : Staff \cup {None}] \cup {None}
  /\ profile \in [Name -> Staff \cup {None}]

Init ==
  /\ expense = [e \in Expense |-> None] /\ vendors = {}
  /\ advance = [m \in Month |-> None]
  /\ bill = None /\ bills = Category /\ asset = None
  /\ profile \in [Name -> Staff \cup {None}]
  /\ otask = [w \in Worker |-> Idle]

-----------------------------------------------------------------------------

At(w, op) == otask[w] # Idle /\ otask[w].op = op
Goes(w, t) == otask' = [otask EXCEPT ![w] = t]
Spending == UNCHANGED <<bill, bills, asset, profile>>
Others == UNCHANGED <<expense, vendors, advance, bill, bills>>

\* VendorExpenseField: a vendor that is there, by id or by name, or none.
AddExpense(e, amount, month, v) ==
  /\ expense[e] = None /\ v \in vendors \cup {None}
  /\ expense' = [expense EXCEPT ![e] = [amount |-> amount, month |-> month, vendor |-> v]]
  /\ UNCHANGED <<vendors, advance, otask>> /\ Spending

LoadExpense(w, e) ==
  /\ otask[w] = Idle /\ expense[e] # None
  /\ Goes(w, [op |-> "expense", id |-> e, copy |-> expense[e]])
  /\ UNCHANGED <<expense, vendors, advance>> /\ Spending

\* The copy with what was sent; the foreign key refuses a vendor that is gone by now.
SaveExpense(w, amount, month, v) ==
  /\ At(w, "expense")
  /\ v \in vendors \cup {None, otask[w].copy.vendor}
  /\ expense' = IF v \in vendors \cup {None}
                THEN [expense EXCEPT ![otask[w].id] = [amount |-> amount, month |-> month, vendor |-> v]]
                ELSE expense
  /\ Goes(w, Idle)
  /\ UNCHANGED <<vendors, advance>> /\ Spending

DropExpense(e) ==
  /\ expense[e] # None
  /\ expense' = [expense EXCEPT ![e] = None]
  /\ UNCHANGED <<vendors, advance, otask>> /\ Spending

AddVendor(v) ==
  /\ vendors' = vendors \cup {v}
  /\ UNCHANGED <<expense, advance, otask>> /\ Spending

\* Mutant of Unlinked: the expenses keep the id.
UnlinkedNot(row, v) == row

\* ExpenseTracker.vendor, on_delete=SET_NULL
Unlinked(row, v) == IF row # None /\ row.vendor = v THEN [row EXCEPT !.vendor = None] ELSE row

DropVendor(v) ==
  /\ v \in vendors /\ vendors' = vendors \ {v}
  /\ expense' = [e \in Expense |-> Unlinked(expense[e], v)]
  /\ UNCHANGED <<advance, otask>> /\ Spending

\* ExpenseMonthlyAdvanceSerializer.validate and the unique constraint: one of a month.
\* A change may move it to a month that has none; deleting leaves none.
SetAdvance(from, to, amount) ==
  /\ from = to \/ advance[to] = None
  /\ advance' = [advance EXCEPT ![from] = None, ![to] = amount]
  /\ UNCHANGED <<expense, vendors, otask>> /\ Spending

PutBill(amount, c) ==
  /\ c \in bills /\ bill' = [amount |-> amount, category |-> c]
  /\ UNCHANGED <<expense, vendors, advance, bills, asset, profile, otask>>

DropBill ==
  /\ bill # None /\ bill' = None
  /\ UNCHANGED <<expense, vendors, advance, bills, asset, profile, otask>>

AddCategory(c) ==
  /\ bills' = bills \cup {c}
  /\ UNCHANGED <<expense, vendors, advance, bill, asset, profile, otask>>

\* Bill.category, on_delete=CASCADE: the bills of a category go with it.
DropCategory(c) ==
  /\ c \in bills /\ bills' = bills \ {c}
  /\ bill' = IF bill # None /\ bill.category = c THEN None ELSE bill
  /\ UNCHANGED <<expense, vendors, advance, asset, profile, otask>>

\* _resolve_employee_id_from_name; "spare" and unknown names have no id.
IdOf(n) == IF n = None THEN None ELSE profile[n]

\* AssetSerializer.create: an id that is sent is kept for whoever is named.
AddAsset(n, id) ==
  /\ asset = None
  /\ asset' = [name |-> n, id |-> IF n = None THEN None ELSE IF id # None THEN id ELSE IdOf(n)]
  /\ UNCHANGED <<profile, otask>> /\ Others

LoadAsset(w) ==
  /\ otask[w] = Idle /\ asset # None
  /\ Goes(w, [op |-> "asset", copy |-> asset])
  /\ UNCHANGED <<asset, profile>> /\ Others

\* Mutant of Assigned: an id that is not sent is left alone.
AssignedAsSent(copy, n, id) == [name |-> n, id |-> IF id # None THEN id ELSE copy.id]

\* AssetSerializer.update: whatever is changed, the id follows the name again.
Assigned(copy, n, id) ==
  [name |-> n, id |-> IF n = None THEN None ELSE IF id # None THEN id ELSE IdOf(n)]

\* A name that is not sent is the copy's.
SaveAsset(w, n, id) ==
  /\ At(w, "asset")
  /\ asset' = Assigned(otask[w].copy, n, id)
  /\ Goes(w, Idle)
  /\ UNCHANGED profile /\ Others

DropAsset ==
  /\ asset # None /\ asset' = None
  /\ UNCHANGED <<profile, otask>> /\ Others

\* Outside the panel: somebody joins, leaves or is renamed.
Rename(n, id) ==
  /\ profile' = [profile EXCEPT ![n] = id]
  /\ UNCHANGED <<asset, otask>> /\ Others

Next ==
  \/ \E amount \in Amount :
       \/ \E e \in Expense, month \in Month, v \in Vendor \cup {None} : AddExpense(e, amount, month, v)
       \/ \E w \in Worker, month \in Month, v \in Vendor \cup {None} : SaveExpense(w, amount, month, v)
       \/ \E c \in Category : PutBill(amount, c)
  \/ \E from \in Month, to \in Month, amount \in Amount \cup {None} : SetAdvance(from, to, amount)
  \/ \E e \in Expense : DropExpense(e) \/ \E w \in Worker : LoadExpense(w, e)
  \/ \E v \in Vendor : AddVendor(v) \/ DropVendor(v)
  \/ DropBill \/ \E c \in Category : AddCategory(c) \/ DropCategory(c)
  \/ \E n \in Name \cup {None}, id \in Staff \cup {None} :
       AddAsset(n, id) \/ \E w \in Worker : SaveAsset(w, n, id)
  \/ DropAsset \/ \E w \in Worker : LoadAsset(w)
  \/ \E n \in Name, id \in Staff \cup {None} : Rename(n, id)

Spec == Init /\ [][Next]_officeVars

-----------------------------------------------------------------------------
(* What the panel shows *)

Recorded == {e \in Expense : expense[e] # None}
Sum(es) == SumFunction([e \in es |-> expense[e].amount])

\* ExpenseTrackerViewSet.get_queryset: the expenses paid in these months.
Paid(months) == {e \in Recorded : expense[e].month \in months}

\* month_summary: what is left of the advance; below zero when more was spent.
MonthSummary(m) == (IF advance[m] = None THEN 0 ELSE advance[m]) - Sum(Paid({m}))

\* range_summary
RangeSummary(first, last) ==
  [total |-> Sum(Paid(first .. last)), months |-> [m \in first .. last |-> Sum(Paid({m}))]]

\* VendorViewSet.get_queryset: for each vendor there is.
ServicePrice(v) == Sum({e \in Recorded : expense[e].vendor = v})

\* dashboard_summary
Dashboard == [expenses |-> Sum(Recorded),
              bills |-> IF bill = None THEN 0 ELSE bill.amount,
              byCategory |-> [c \in bills |-> IF bill # None /\ bill.category = c THEN bill.amount ELSE 0]]

-----------------------------------------------------------------------------
(* Properties *)

\* The figures agree with each other whatever was deleted under a change: the vendors'
\* totals and the expenses without a vendor make the dashboard's total, and so do the
\* months; the bills by category make the total of the bills; and an asset that nobody
\* has stands under nobody's employee id, where it would be scored (get_queryset,
\* range_summary, dashboard_summary, AssetSerializer).
FiguresAgree ==
  /\ Dashboard.expenses = SumFunction([v \in vendors |-> ServicePrice(v)])
                          + Sum({e \in Recorded : expense[e].vendor = None})
  /\ \A first \in Month, last \in Month :
       RangeSummary(first, last).total = SumFunction(RangeSummary(first, last).months)
  /\ SumFunction([m \in Month |-> MonthSummary(m)])
       = SumFunction([m \in Month |-> IF advance[m] = None THEN 0 ELSE advance[m]])
         - Dashboard.expenses
  /\ Dashboard.bills = SumFunction(Dashboard.byCategory)
  /\ asset # None /\ asset.id # None => asset.name # None
=============================================================================
