--------------------------- MODULE EmployeeAccount ---------------------------
(***************************************************************************)
(* One employee in src/accounts (views.py, signals.py, models.py): the login, the *)
(* profile, the head count of the roles and the menstrual leave of the month that   *)
(* every save of the profile touches.  Administrators file, change and delete the     *)
(* account; anybody may wish the employee a happy birthday (src/events/views.py).      *)
(* A request loads rows and writes them later; only the last part of filing is one      *)
(* transaction.                                                                          *)
(***************************************************************************)
EXTENDS Naturals, FiniteSets

CONSTANTS Role,              \* names of roles; "MD" makes a superuser
          Email,             \* addresses, on the login and on the profile
          MaxHeads,          \* bound on the head counts and on leaves counted
          Worker, Idle, None

VARIABLES login,      \* the User row: its address and whether it is a superuser, or None
          person,     \* the Profile row: its role, address and gender, or None
          heads,      \* Roles.total_count
          bucket,     \* LeaveSummary.menstrual_leaves, or None without a summary
          atask,      \* what each worker is doing
          filed,      \* history: filed, and not deleted since
          taken       \* history: menstrual leaves taken since the monthly reset

accountVars == <<login, person, heads, bucket, atask, filed, taken>>

Gender == {"Female", "Other"}
Login == [email : Email, super : BOOLEAN]
Person == [role : Role, email : Email, gender : Gender]

TypeOK ==
  /\ login \in Login \cup {None} /\ person \in Person \cup {None}
  /\ heads \in [Role -> 0..MaxHeads] /\ bucket \in {0, 1, None}
  /\ filed \in BOOLEAN /\ taken \in 0..MaxHeads

Init ==
  /\ login = None /\ person = None /\ bucket = None
  /\ heads = [r \in Role |-> 0]
  /\ atask = [w \in Worker |-> Idle] /\ filed = FALSE /\ taken = 0

-----------------------------------------------------------------------------

At(w, op) == atask[w] # Idle /\ atask[w].op = op
Goes(w, t) == atask' = [atask EXCEPT ![w] = t]
Capped(n) == IF n > MaxHeads THEN MaxHeads ELSE n

\* Mutant of Seeded: what is left is left alone.
SeededOnce(gender) == IF gender = "Female" /\ bucket = None THEN 1 ELSE bucket

\* _seed_menstrual_leave_for_female_sync, at every save of a profile.
Seeded(gender) == IF gender = "Female" THEN 1 ELSE bucket

\* _create_emp_profile_sync, at every save of a profile: the count of the copy plus one.
Headed(count, role) == [heads EXCEPT ![role] = Capped(count + 1)]

\* _create_employee_login_sync, first transaction: the login, or the one that is there.
\* When a branch, designation or role is unknown the request ends and the login stays.
FileLogin(w, email, role, gender) ==
  /\ atask[w] = Idle
  /\ login' = IF login = None THEN [email |-> email, super |-> FALSE] ELSE login
  /\ Goes(w, [op |-> "file", person |-> [role |-> role, email |-> email, gender |-> gender]])
  /\ UNCHANGED <<person, heads, bucket, filed, taken>>

FileFails(w) ==
  /\ At(w, "file")
  /\ Goes(w, Idle)
  /\ UNCHANGED <<login, person, heads, bucket, filed, taken>>

\* ... last transaction: the profile, and the signals of its save.  Refused when there
\* is a profile already or the login is gone.
FileProfile(w) ==
  /\ At(w, "file") /\ login # None /\ person = None
  /\ LET p == atask[w].person IN
       /\ person' = p
       /\ login' = [login EXCEPT !.super = @ \/ p.role = "MD"]
       /\ heads' = Headed(heads[p.role], p.role)
       /\ bucket' = Seeded(p.gender)
  /\ filed' = TRUE
  /\ Goes(w, Idle)
  /\ UNCHANGED taken

\* _update_profile_sync: the login is loaded at the start,
LoadLogin(w) ==
  /\ atask[w] = Idle /\ login # None
  /\ Goes(w, [op |-> "email", copy |-> login])
  /\ UNCHANGED <<login, person, heads, bucket, filed, taken>>

\* ... saved whole with the new address, in a new row if it was deleted,
SaveLogin(w, email) ==
  /\ At(w, "email")
  /\ login' = [atask[w].copy EXCEPT !.email = email]
  /\ Goes(w, [op |-> "update", email |-> email])
  /\ UNCHANGED <<person, heads, bucket, filed, taken>>

\* ... and the profile is updated by a query, which sends no signal and counts no
\* heads, unless a later field is unknown.
UpdateProfile(w, role, gender) ==
  /\ At(w, "update")
  /\ person' \in {person} \cup
       (IF person = None THEN {} ELSE {[role |-> role, email |-> atask[w].email, gender |-> gender]})
  /\ Goes(w, Idle)
  /\ UNCHANGED <<login, heads, bucket, filed, taken>>

\* _change_password_sync: the login written whole, but never in a new row.
LoadPassword(w) ==
  /\ atask[w] = Idle /\ login # None
  /\ Goes(w, [op |-> "password", copy |-> login])
  /\ UNCHANGED <<login, person, heads, bucket, filed, taken>>

SavePassword(w) ==
  /\ At(w, "password")
  /\ login' = IF login = None THEN None ELSE atask[w].copy
  /\ Goes(w, Idle)
  /\ UNCHANGED <<person, heads, bucket, filed, taken>>

\* _update_photo_sync, _birthdaycounter_bulk_post_sync
LoadProfile(w, op) ==
  /\ atask[w] = Idle /\ person # None
  /\ op \in {"photo", "birthday"}
  /\ Goes(w, [op |-> op, copy |-> person])
  /\ UNCHANGED <<login, person, heads, bucket, filed, taken>>

\* Mutant of Resaved: save() without force_update.
ResavedPlain(copy) == copy

\* save(force_update=True): a profile that is gone stays gone and the request fails.
Resaved(copy) == IF person = None THEN None ELSE copy

\* Once for the photo, twice when an old one is deleted first: the whole profile, with
\* its signals; the copy of the role is loaded at the first of them.
SavePhoto(w, saves) ==
  /\ At(w, "photo")
  /\ LET p == atask[w].copy IN
       /\ person' = Resaved(p)
       /\ heads' = IF person' = None THEN heads ELSE Headed(heads[p.role] + saves - 1, p.role)
       /\ bucket' = IF person' = None THEN bucket ELSE Seeded(p.gender)
  /\ Goes(w, Idle)
  /\ UNCHANGED <<login, filed, taken>>

\* save(update_fields=["birthday_counter"]) sends the same signals.
SaveBirthday(w) ==
  /\ At(w, "birthday")
  /\ LET p == atask[w].copy IN
       /\ heads' = IF person = None THEN heads ELSE Headed(heads[p.role], p.role)
       /\ bucket' = IF person = None THEN bucket ELSE Seeded(p.gender)
  /\ Goes(w, Idle)
  /\ UNCHANGED <<login, person, filed, taken>>

\* _delete_user_sync: profile and summary go with the login; the heads stay.
DeleteUser ==
  /\ login # None
  /\ login' = None /\ person' = None /\ bucket' = None
  /\ filed' = FALSE /\ taken' = 0
  /\ UNCHANGED <<heads, atask>>

\* The menstrual branch of leave creation: approved at once, out of the month's bucket.
TakeMenstrual ==
  /\ person # None /\ person.gender = "Female" /\ bucket = 1
  /\ bucket' = 0 /\ taken' = Capped(taken + 1)
  /\ UNCHANGED <<login, person, heads, atask, filed>>

\* credit_menstrual_leave, on the first of the month.
ResetMonth ==
  /\ bucket' = IF person # None /\ person.gender = "Female" /\ bucket # None THEN 1 ELSE bucket
  /\ taken' = 0
  /\ UNCHANGED <<login, person, heads, atask, filed>>

Next ==
  \/ \E w \in Worker :
       \/ \E email \in Email, role \in Role, gender \in Gender : FileLogin(w, email, role, gender)
       \/ \E role \in Role, gender \in Gender : UpdateProfile(w, role, gender)
       \/ \E email \in Email : SaveLogin(w, email)
       \/ \E op \in {"photo", "birthday"} : LoadProfile(w, op)
       \/ \E saves \in {1, 2} : SavePhoto(w, saves)
       \/ FileFails(w) \/ FileProfile(w) \/ LoadLogin(w)
       \/ LoadPassword(w) \/ SavePassword(w) \/ SaveBirthday(w)
  \/ DeleteUser \/ TakeMenstrual \/ ResetMonth

Spec == Init /\ [][Next]_accountVars

-----------------------------------------------------------------------------
(* Properties *)

\* Nobody who was deleted has a profile again before being filed again, whatever photo,
\* birthday, password or profile change the deletion crosses (force_update,
\* update_fields, the query of _update_profile_sync).
GoneStaysGone == person # None => filed

\* The menstrual bucket is refilled by the monthly command alone, so that it pays for
\* one leave a month (LeaveSummary.menstrual_leaves, credit_menstrual_leave).
OneLeaveAMonth == taken <= 1
=============================================================================
