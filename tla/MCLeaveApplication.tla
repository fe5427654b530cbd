------------------------- MODULE MCLeaveApplication -------------------------
(***************************************************************************)
(* Instances of LeaveApplication for TLC: the people of one small team, the *)
(* requests they may send and the ways the application is created.           *)
(***************************************************************************)
EXTENDS LeaveApplication, TLC

CONSTANTS emp, cover, lead, hr, adm, md, w1, w2,
          Casual, Earn        \* half-days at the start

MCUsers  == {emp, cover, lead, hr, adm, md}
MCRoleOf == [u \in MCUsers |->
                CASE u = lead -> "TeamLead" [] u = hr -> "HR" [] u = adm -> "Admin"
                  [] u = md   -> "MD"       [] OTHER -> "Employee"]
MCSummary0 == [casual |-> Casual, earn |-> Earn, unpaid |-> 0, used |-> 0, total |-> 2,
               emergency |-> 1, menstrual |-> 1, short |-> ShortQuota, stamp |-> TRUE]
MCAttentive == {<<cover, "altAp">>, <<lead, "altAp">>, <<lead, "tlAp">>, <<hr, "hrAp">>, <<md, "mdAp">>}
Symmetry == Permutations(Workers)

Ask(op, u, set) == [op |-> op, user |-> u, set |-> set]
Sign(u, f, st)  == Ask("patch", u, [g \in {f} |-> st])

Approvals == {Sign(lead, "tlAp", "Approved"), Sign(hr, "hrAp", "Approved"),
              Sign(md, "mdAp", "Approved"), Ask("respond", cover, [altAp |-> "Approved"])}
Refusals  == {Sign(lead, "tlAp", "Rejected"), Sign(hr, "hrAp", "Rejected"),
              Sign(md, "mdAp", "Rejected"), Ask("respond", cover, [altAp |-> "Rejected"])}
Others    == {Sign(adm, "adAp", "Approved"), Sign(lead, "tlAp", "Pending"),
              Sign(cover, "altAp", "Approved"), Sign(md, "mdAp", "Pending"),
              Ask("patch", lead, [tlAp |-> "Approved", altAp |-> "Approved"])}
Covers    == {Ask(op, emp, [alt |-> u]) : op \in {"patch", "history"}, u \in {cover, NoOne}}
Recovers  == {Ask("history", emp, [alt |-> u]) : u \in {cover, lead, NoOne}}
Lengths   == {Ask("patch", emp, [days |-> 2]), Ask("history", emp, [days |-> 2])}
Types     == {Ask("patch", emp, [kind |-> k]) : k \in {"Half_day", "Short"}}
             \cup {Ask("history", emp, [kind |-> "Full_day", alt |-> cover])}
Cancel    == Ask("delete", emp, [g \in {} |-> 0])

Make(by, k, n, a) == [by |-> by, kind |-> k, days |-> n, alt |-> a, flag |-> FALSE]
Ordinary  == {Make("general", "Full_day", 1, a) : a \in {cover, NoOne}}
Shorts    == {Make("short", "Short", 1, NoOne)}
Flagged   == {[Make("general", "Full_day", 1, NoOne) EXCEPT !.flag = TRUE]}
Menstrual == {Make("menstrual", "Menstrual", 1, NoOne), Make("general", "Menstrual", 1, cover),
              Make("emergency", "Menstrual", 1, NoOne)}
Emergency == {Make("emergency", "Full_day", 1, cover)}
QueueWays == Ordinary \cup Shorts
RaceWays  == {Make("general", "Full_day", 1, cover)}
AllWays   == Ordinary \cup Shorts \cup Flagged \cup Menstrual \cup Emergency

AllRequests    == Approvals \cup Refusals \cup Others \cup Covers \cup Lengths \cup Types \cup {Cancel}
RaceRequests   == Approvals \cup {Sign(md, "mdAp", "Rejected"), Ask("history", emp, [alt |-> lead])}
QueueRequests  == Approvals \cup Recovers \cup {Cancel}
                  \cup {Sign(lead, "tlAp", "Pending"), Sign(lead, "tlAp", "Rejected"),
                        Sign(lead, "altAp", "Approved"), Sign(md, "mdAp", "Rejected")}
=============================================================================
