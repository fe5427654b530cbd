--------------------------- MODULE CustomerEntry ---------------------------
(***************************************************************************)
(* One entry of src/CustomerPanel (models.py, views.py): its value, tax and     *)
(* total, the members who may open it besides its creator, and the payments      *)
(* logged for it.  No request runs in a transaction: an update checks one copy     *)
(* of the entry, writes another one whole, then clears the members and adds the     *)
(* new ones one by one.                                                             *)
(***************************************************************************)
EXTENDS Integers, FiniteSets, Functions

CONSTANTS User, Creator,       \* those who may be members, and who filed the entry
          Admin,               \* users with the role Admin or MD
          Price,               \* values of an entry, amounts of a payment
          Log,                 \* ids of payments
          Worker, Idle, None

VARIABLES panel,     \* the row: its value, tax in percent, total and division, or None
          shared,    \* CustomerPanelEntryMembers rows
          paid,      \* the amount of each payment, or None
          ptask      \* what each worker is doing

panelVars == <<panel, shared, paid, ptask>>

Tax == {0, 100}
Division == {"farm", "infra", "others"}    \* "others": rows without one, older than the field

\* _calc_total
Total(value, tax) == value + (value * tax) \div 100

Entry == [value : Price, tax : Tax, total : Nat, division : Division]

TypeOK ==
  /\ panel \in Entry \cup {None}
  /\ shared \subseteq User
  /\ paid \in [Log -> Price \cup {None}]

\* No entry yet, or one filed before entries had a division.
Init ==
  /\ panel \in {None} \cup {[value |-> v, tax |-> 0, total |-> v, division |-> "others"] : v \in Price}
  /\ shared = {}
  /\ paid = [l \in Log |-> None]
  /\ ptask = [w \in Worker |-> Idle]

-----------------------------------------------------------------------------

At(w, op) == ptask[w] # Idle /\ ptask[w].op = op
Goes(w, t) == ptask' = [ptask EXCEPT ![w] = t]
Logged == {l \in Log : paid[l] # None}
Sum(logs) == SumFunctionOnSet(paid, logs)

\* _user_can_access_entry; to anybody else the entry is not found.
MayOpen(u) == u = Creator \/ u \in shared \/ u \in Admin

\* _create_entry_sync; _apply_members_to_entry follows, as after an update.
Create(w, value, tax, division) ==
  /\ panel = None /\ \A v \in Worker : ptask[v] = Idle
  /\ panel' = [value |-> value, tax |-> tax, total |-> Total(value, tax), division |-> division]
  /\ \E ids \in SUBSET User : Goes(w, [op |-> "share", ids |-> ids])
  /\ UNCHANGED <<shared, paid>>

\* detail_update_delete_entry: the check, on a copy that is then forgotten.
Ask(w, u, op) ==
  /\ ptask[w] = Idle /\ panel # None /\ MayOpen(u)
  /\ op \in {"load", "delete"}
  /\ Goes(w, [op |-> op])
  /\ UNCHANGED <<panel, shared, paid>>

\* _update_entry_sync: get().  An entry that is gone by now fails the request.
Load(w) ==
  /\ At(w, "load")
  /\ Goes(w, IF panel = None THEN Idle ELSE [op |-> "save", copy |-> panel])
  /\ UNCHANGED <<panel, shared, paid>>

\* Mutant of Priced: the total follows the value alone.
PricedByValue(copy, value, tax) ==
  [copy EXCEPT !.value = value, !.tax = tax,
               !.total = IF value # copy.value THEN Total(value, tax) ELSE copy.total]

\* Mutant of Priced: what was not sent is left as it is stored.
PricedFields(copy, value, tax) ==
  [copy EXCEPT !.value = IF value = copy.value /\ panel # None THEN panel.value ELSE value,
               !.tax = IF tax = copy.tax /\ panel # None THEN panel.tax ELSE tax,
               !.total = Total(value, tax)]

\* The total is computed anew when the value or the tax is in the request.
Priced(copy, value, tax) ==
  [copy EXCEPT !.value = value, !.tax = tax,
               !.total = IF value # copy.value \/ tax # copy.tax THEN Total(value, tax) ELSE copy.total]

\* save() writes every column of the copy, into a new row when the old one is gone;
\* the members follow when they are in the request.
Save(w) ==
  /\ At(w, "save")
  /\ \E value \in Price, tax \in Tax, division \in {ptask[w].copy.division, "farm", "infra"} :
       panel' = [Priced(ptask[w].copy, value, tax) EXCEPT !.division = division]
  /\ \/ Goes(w, Idle)
     \/ \E ids \in SUBSET User : Goes(w, [op |-> "clear", ids |-> ids])
  /\ UNCHANGED <<shared, paid>>

\* obj.members.clear()
Clear(w) ==
  /\ At(w, "clear")
  /\ shared' = {}
  /\ Goes(w, [op |-> "share", ids |-> ptask[w].ids])
  /\ UNCHANGED <<panel, paid>>

\* _apply_members_to_entry: get_or_create for each of them.  For an entry that is gone
\* the foreign key refuses the row and the request fails.
Share(w) ==
  /\ At(w, "share")
  /\ IF ptask[w].ids = {} \/ panel = None
     THEN Goes(w, Idle) /\ UNCHANGED shared
     ELSE \E u \in ptask[w].ids :
            shared' = shared \cup {u} /\ Goes(w, [op |-> "share", ids |-> ptask[w].ids \ {u}])
  /\ UNCHANGED <<panel, paid>>

\* obj.delete(): members and payments go with the entry.
Delete(w) ==
  /\ At(w, "delete")
  /\ panel' = None /\ shared' = {} /\ paid' = [l \in Log |-> None]
  /\ Goes(w, Idle)

\* amount_log_list_create: all the items or none; whoever can open the entry.
AddPayments(u, logs, amount) ==
  /\ panel # None /\ MayOpen(u)
  /\ logs # {} /\ logs \cap Logged = {}
  /\ paid' = [l \in Log |-> IF l \in logs THEN amount ELSE paid[l]]
  /\ UNCHANGED <<panel, shared, ptask>>

\* amount_log_detail_update_delete, _update_amount_log_sync: get().
LoadPayment(w, u, l) ==
  /\ ptask[w] = Idle /\ panel # None /\ MayOpen(u) /\ l \in Logged
  /\ Goes(w, [op |-> "pay", log |-> l])
  /\ UNCHANGED <<panel, shared, paid>>

\* ... then save(): a payment deleted meanwhile is written again, unless the entry has
\* gone with it and the foreign key refuses it.
SavePayment(w, amount) ==
  /\ At(w, "pay")
  /\ paid' = IF panel = None THEN paid ELSE [paid EXCEPT ![ptask[w].log] = amount]
  /\ Goes(w, Idle)
  /\ UNCHANGED <<panel, shared>>

\* _delete_amount_log_sync
DeletePayment(u, l) ==
  /\ panel # None /\ MayOpen(u) /\ l \in Logged
  /\ paid' = [paid EXCEPT ![l] = None]
  /\ UNCHANGED <<panel, shared, ptask>>

Next ==
  \/ \E w \in Worker :
       \/ \E value \in Price, tax \in Tax, division \in {"farm", "infra"} :
            Create(w, value, tax, division)
       \/ \E u \in User \cup {Creator} \cup Admin :
            \/ \E op \in {"load", "delete"} : Ask(w, u, op)
            \/ \E l \in Log : LoadPayment(w, u, l)
       \/ Load(w) \/ Save(w) \/ Clear(w) \/ Share(w) \/ Delete(w)
       \/ \E amount \in Price : SavePayment(w, amount)
  \/ \E u \in User \cup {Creator} \cup Admin :
       \/ \E logs \in SUBSET Log, amount \in Price : AddPayments(u, logs, amount)
       \/ \E l \in Log : DeletePayment(u, l)

Spec == Init /\ [][Next]_panelVars

-----------------------------------------------------------------------------
(* What the lists show *)

\* _list_entries_ledger_sync: what is left to pay; below zero when too much was paid.
Remaining == IF panel = None THEN 0 ELSE panel.total - Sum(Logged)

\* _summary_totals_for_scope: the entries and the payments of one division, or of all.
ScopeTotal(divisions) == IF panel # None /\ panel.division \in divisions THEN panel.total ELSE 0
ScopePaid(divisions) == IF panel # None /\ panel.division \in divisions THEN Sum(Logged) ELSE 0

\* _entries_summary_sync
Summary == [all |-> ScopeTotal(Division) - ScopePaid(Division),
            parts |-> [d \in Division |-> ScopeTotal({d}) - ScopePaid({d})]]

-----------------------------------------------------------------------------
(* Properties *)

\* What the ledger and the summary show as left to pay is the value with its tax less
\* the payments, in all and over the divisions, however updates of the value and of the
\* tax cross each other (_update_entry_sync, _list_entries_ledger_sync,
\* _entries_summary_sync).
LedgerAgrees ==
  /\ panel # None => Remaining = Total(panel.value, panel.tax) - Sum(Logged)
  /\ Summary.all = Remaining
  /\ Summary.all = SumFunction(Summary.parts)
=============================================================================
