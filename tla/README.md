# A verification project for the employee management system

The repository is the back end of a company's employee management system ("EMS"):
Django with Channels, some thirty apps around one PostgreSQL database and one
Redis.  This directory holds TLA+ models of the parts in which several people or
several requests work on the same rows, the TLC configurations that check them,
and proofs of the results that hold for any number of users and workers.

## 1. How the program runs

These facts decide what may interleave, and every model is built on them.

* gunicorn runs several UvicornWorker processes.  An async view hands its
  synchronous part to `sync_to_async`, DRF views run in threads: two requests
  run at the same time, in one process or in two.
* There is no `ATOMIC_REQUESTS` and hardly any `select_for_update`.  A handler
  reads a row, decides on the Python object it got, and saves: every column
  (`obj.save()`), or the columns of `update_fields`.  PostgreSQL works at READ
  COMMITTED, so what was read may be out of date when it is used.
* Signal receivers run inside the save, in the same thread; some keep notes in a
  dictionary of the process between `pre_save` and `post_save`.
* Socket consumers call the database and Redis through
  `sync_to_async(thread_sensitive=True)`: within a process one call after the
  other, across processes in any order.
* Redis holds the channel layer, the GET cache, the presence counters and the
  login rate limit.  Its failures are caught and swallowed.
* Monthly credits, holiday and meeting reminders are management commands run by
  cron, next to the server.

## 2. Inventory

For each component: the state it keeps, its operations, whom it talks to, what
is hard about it, and what makes it correct.  `PROJECT.json` lists them all with
their status.

| Component | State | Operations | Talks to | Hard part | Correct means |
|---|---|---|---|---|---|
| **Leave applications** (`accounts/leave_views.py`, `signals.py`, `leave_notifications.py`) | `LeaveApplicationData`: five nullable approval rails, type, length, split of the charge | create (general, short, menstrual, emergency), update / partial_update by role, alternative-respond, view_history edit, delete, approval queue | `LeaveSummary`, `Profile`, notifications | decisions on stale rows; three places that charge; queue, authority and gates encoded separately | nobody approves ahead of the chain; one charge per approval; each application is decided in the end |
| **Leave balances** (`LeaveSummary`, `credit_*` commands) | casual, earned, unpaid, menstrual, short-leave slots and their month | waterfall, slot debit, monthly credit and reset | leave applications | read-compute-save against an `F()` update | every half day charged or credited is in the balances |
| **One-to-one calls** (`Calling/views.py`, call receivers of `Messaging/signals.py`) | `Call` status and screen-share flag, `MissedCallCount` | initiate, accept, decline, end, end all, share, stop, reset count | sockets of both parties | whole-row saves, a note per process between receivers, lapse by age | one live call per callee; a finished call stays finished; the counter tells missed calls |
| **Group calls** (`Calling/views.py`) | `GroupCall`, `GroupCallParticipant` | initiate, join, leave, end, share | channel room | writes and broadcasts one after the other without a transaction; workers die | ended for good; the creator's leaving ends it; clients' list is the database's |
| **Sockets** (`Calling/consumer.py`, `Messaging/consumers.py`) | group membership of a connection | relay of signalling, chat and typing | channel layer | delivery order | what is sent reaches the room |
| **Presence** (`ems/ws_presence.py`, `notifications/consumer.py`) | a Redis counter with expiry per user | connect, ping, disconnect, force offline | login and logout, directory | several tabs, several processes, killed processes | online exactly while a tab is open; ghosts fade |
| **GET cache** (`ems/middleware.py`, `cache_utils.py`, `cache_invalidation.py`) | cached responses per user or per chat | lookup, fill, drop by signal, drop after a mutation | every view | fill after an invalidation; naming the affected users | one reads one's own writes; staleness is bounded by the timeout |
| **Login, sessions, profiles** (`accounts/views.py`) | sessions, `Profile.is_logged_in`, role head counts | login (drops other sessions), logout, create / update / delete employee | presence, cache | two logins at once; flag, sessions and presence written separately | one device per user; flag agrees with sessions |
| **Login rate limit** (`accounts/login_rate_limit.py`) | counters in Redis and in each process | test, count, clear | login | tested before, counted after; two copies | no more failures per window than the limit and one for each other process |
| **Scoring** (`accounts/performance_scoring.py` and a dozen `*_scoring.py`) | none: functions of rows | monthly, quarterly, yearly scores per profile type | all apps | allowances, caps, proration, financial years | within caps; independent of representation |
| **Targets and work logs** (`accounts/*target_views.py`, `dm_work_views.py`) | one row per period | upsert, list | scoring | — | one row per period |
| **Chats and groups** (`Messaging/`) | chats, groups with a participants counter, messages, unseen counters, attachments | start, post, mark seen, create group, add / remove member, broadcast | sockets, notifications, cache | counters beside rows, check-then-create | counter equals members; unseen equals messages not seen |
| **Notifications** (`notifications/`) | notification rows | push, list, mark read, meeting push | channel layer | — | — |
| **Project checklists** (`projects_deadline/`) | project, phases with a JSON checklist holding the MD's decisions | create, patch (archive and recreate phases), MD approval, delete | scoring | a decision taken between reading and recreating; one JSON column for many decisions | the MD's decisions survive edits |
| **Actionable entries** (`QuaterlyReports/`) | entry status, co-author status, share chain | create, update, approve as co-author, share further, complete | notifications, scoring | final status derived from a chain that others extend | completed only when everybody has; completed for good |
| **Client leads** (`Clients/`) | lead, members, acknowledgement, sales statistics | create, update, acknowledge, delete | scoring | clear-and-re-add of members, whole-row saves | members keep access, acknowledgements survive |
| **Customer panel** (`CustomerPanel/`) | entries with amount log | create, update, delete | scoring | what is left is computed in three places | ledger, summary and payments agree |
| **Tour advances** (`tour_advance/`) | request, status, files in S3 | create, edit, decide, delete | S3 | edit against decision | a decided request is not edited |
| **Infrastructure forms** (`infra_forms/`) | one structure row shared by modules, service states | create, edit, smart delete, bulk import | — | ownership flags on stale copies | a row lives while a module owns it |
| **Farm services** (`farm_services/`) | services with nested rows | create, update, delete | scoring | — | — |
| **Tasks** (`task_management/`) | task, assignees, counters by type, messages | create, update, change status, message, report | notifications, scoring | whole-row saves, counters | no change lost; counters agree |
| **Events** (`events/`) | rooms, slots, tours, holidays, birthdays, meetings | book and move slots, row edits | scoring | overlap of times, partial changes; the birthday counter's save sends the profile's signals | no room and nobody booked twice |
| **Recruitment** (`recruitment/`) | openings with two approvals, applicants | create, edit, approve, apply, delete | S3 | apply against close | only approved openings take applications |
| **Admin panel, certificates, assets, announcements, alerts, attendance, notes, projects** | independent rows or files | create, read, update, delete | S3, other services | little | — |
| **Summaries and insight** | stored text | calls to language models | other services | — | — |
| **Framework glue** (`ems/`) | configuration | — | all | sets workers, transactions, timeouts | — |

Components interact in four ways: foreign keys into `User` and `Profile` (a
deleted user nulls an application's keys, a deleted lead takes the members'
profiles along); receivers (a leave approval charges balances, a missed call
increments a counter, any watched save drops cached responses); channel-layer
messages (calls, rosters, notices); and Redis keys (presence, cache).

## 3. Modules

| Module | What it is | Code |
|---|---|---|
| `LeaveRails` | pure functions of a row: which chain applies, setting and unlocking rails, gates, the queue filter | helpers of `leave_views.py`, 404–925 |
| `LeaveBalances` | the `LeaveSummary` row and what charges do to it | `leave_views.py`, 253–508 |
| `LeaveApplication` | one application, its applicant's balances and profile, workers serving requests | the viewset, the receivers in `accounts/signals.py` |
| `CallContract` | abstract: what a 1:1 call promises | `Calling/models.py`, transitions of `views.py` |
| `CallLifecycle` | the handlers of 1:1 calls, one statement at a time; implements `CallContract` | `Calling/views.py` 33–704, `Messaging/signals.py` 560–597 |
| `GroupCall` | one group call and its room | `Calling/views.py` 371–453, 709–1058 |
| `Presence` | one user's socket counter | `ems/ws_presence.py`, `notifications/consumer.py` |
| `GetCache` | one cached read | `ems/middleware.py`, `cache_utils.py`, `cache_invalidation.py` |
| `ChecklistContract` | abstract: what a project promises about the decisions on its items | `projects_deadline/checklist_md_approval.py` |
| `Checklist` | one project: edits, deletion, MD decisions; implements `ChecklistContract` | `projects_deadline/views.py`, `checklist_md_approval.py`, `serializers.py` |
| `ActionableContract` | abstract: what an actionable entry promises about its chain and its sign-off | `QuaterlyReports/views.py`, `serializers.py` |
| `ActionableEntry` | one entry: creator, co-author, share chain, the receivers that tell the creator; implements `ActionableContract` | `QuaterlyReports/` |
| `ScoreRules` | pure functions: the points of a month | the `*_scoring.py` files |
| `PerformanceScore` | the rows behind the scores, the targets, and the scores read from them | `accounts/performance_scoring.py`, target views |
| `ProjectForm` | one infrastructure project form and its approved entries | `infra_forms/views.py`, `serializers.py` |
| `StructureEntry` | one structure row shared by modules, and its service states | `infra_forms/views.py`, `service_state_sync.py`, `excel_bulk_import.py` |
| `SlotBooking` | the slots of a day | `events/serializers.py`, `views.py` |
| `LoginSession` | logins and logouts of one account, the limit on failed ones | `accounts/views.py`, `login_rate_limit.py` |
| `EmployeeAccount` | one employee's login, profile, head counts, menstrual leave | `accounts/views.py`, `signals.py`, `events/views.py` |
| `GroupChat` | one group, its counter of members and their unseen counts | `Messaging/views.py`, `signals.py` |
| `ChatPost` | a pair of users: the start of their chat, messages, edits, an attachment | `Messaging/views.py`, `models.py` |
| `ClientLead` | one lead, members, notes, sales statistics, reminders | `Clients/views.py` |
| `TourAdvance` | one tour advance, its members and a bill | `tour_advance/serializers.py`, `views.py` |
| `TaskWork` | one task, its completion log, messages, counters | `task_management/` |
| `CustomerEntry` | one entry of the customer panel, its payments, ledger and summary | `CustomerPanel/views.py` |
| `JobPosting` | one opening, its two approvals, its state, applications | `recruitment/` |
| `OfficeBooks` | expenses, vendors, advances, bills, an asset and the figures | `adminpanel/` |
| `Office` | eight of these side by side, with their parameters: `Checklist`, `ProjectForm`, `StructureEntry`, `SlotBooking`, `LoginSession`, `EmployeeAccount`, `GroupChat`, `ChatPost` | see 3.9 |
| `Settles` | three parts of which somebody waits for something, with their parameters: `Presence`, `GetCache`, `ActionableEntry`; and `CallLifecycle` | see 3.9 |
| `Records` | eight more side by side, with their parameters: `GroupCall`, `CallLifecycle`, `ClientLead`, `TourAdvance`, `TaskWork`, `CustomerEntry`, `JobPosting`, `OfficeBooks` | see 3.9 |
| `MCLeaveApplication`, `MCPerformanceScore`, `MCSettles`, `MCOffice`, `MCRecords` | instances for TLC | |
| `LeaveApplicationProofs`, `CallProofs`, `ActionableProofs`, `ScoreProofs`, `SettlesProofs`, `OfficeProofs`, `RecordsProofs` | theorems (group calls in `RecordsProofs`, checklists in `OfficeProofs`) | |
| `SumProofs` | lemmas on sums over finite sets, for the two of them that add up | |

Two forms recur.  A **request** is an element of `task[w]`: what worker `w` has loaded, and at
which statement it stands.  A handler that reads a row and saves it is a pair of actions, `Load...` and
`Save...`, so that everything another request may do between them is in the model; the
saved value is the *copy* with the payload's changes (`obj.save()` writes every
column), or only some of its columns (`update_fields`), or nothing if the row is gone
(`force_update`, `QuerySet.update`); a plain `save()` of a row that is gone inserts it again, and
the models do the same.  **History variables** (`past`, `signed`, `tried`, `done` and the like) are
marked so where they are declared; no action reads them except to respect a bound.

Mutants (`...But...`, `...Uncapped` and so on) are next to the definition they vary.  They are
alternatives a plausible slip would produce and no part of the specification.

### 3.1 Leave

`row` is the `LeaveApplicationData` row, with `"None"` for a null rail; `summary`
is the `LeaveSummary`; `profile` the applicant's role and team lead; `thread[w]`
what worker `w` has loaded.  Day balances are counted in half days, so that the
code's `Decimal("0.5")` is 1.

A request is a record: operation, user, and the fields the payload sets.  A worker
does what the view does: `Load` is `get_object()`; `Patch`, `Respond`,
`EditHistory` and `Destroy` decide on the loaded copy, and `Save` writes just the
columns the code puts into `update_fields`, merges them with the row as it is by
then, and runs the receivers.  `ReadBalance` is a step of its own because
`_consume_casual_earn_unpaid` loads the summary, computes and saves absolute
values.  The creation endpoints are one transaction each and one step here; the
approved creation of an MD, HR's emergency leave and menstrual leave charge where
the code charges, twice where it does so twice.

`Reassign` and `DeleteUser` are the two changes of other tables that reach the row
while requests are in progress; `CreditEarn` and `NextMonth` are the cron job and
the calendar.  `opened` (the gate of HR and MD has stood open), `tally` (charges, half
days charged, approvals, credits) and `sent` (whom the last step notified) are history.
The notice of an approval may be lost or doubled when two saves overlap, which is why
notices are a property of `leave_serial`.

### 3.2 Calls

`CallContract` knows a status and two parties per call.  `Ring` needs a callee who
is in no live call; `Move` lets one statement move a set of calls, each along an
allowed transition.  It is the promise; `CallLifecycle` is the program: every
handler a chain of single statements, between which any other handler may run.
`Decide` keeps what the handler read, `PreSave`, `WriteRow`, `PostSave`,
`WriteCount` are the four parts of `call.save()` with its receivers, and `prior` is
the dictionary `_call_previous_status` of a process.  `lapsed`, `seen` and
`answered` are history.  `Age` makes a ringing call older than the three minutes of
`_initiate_call_sync`.

`GroupCall`: the call's row, one participant row per user, the list the clients in the room
have (`roster`), and what each worker is about to do.  A worker may `Die` between
any two statements.  `past` remembers whether one died and whether two were ever at
work at once; the properties that hold only otherwise say so.

### 3.3 Presence and GET cache

`Presence`: one user.  `n` and `ttl` are the Redis key, `sock[s]` the state of each socket.  A
connect is one `MULTI` block; a disconnect is `EXISTS`, `DECR`, `DELETE`, which calls
of other processes (`ProcessOf`) may separate.  `past` collects what disturbed the
counting: failure, expiry, logout, overlap.

`GetCache`: one read, of one of four kinds that differ in who shares an entry and whose
entries a write drops: a chat, actionable entries, alerts, any other list.  Lookup,
view, fill are separate steps, and so are save, signal and the middleware's drop.
The data is its version number.  `own`, `all` and `served` relate an answered read
to the mutations answered before it began.

### 3.4 Project checklists

`lists` maps each active phase to its checklist column; a phase is the number of the
round that made it and its place.  An archived phase is read by no query, so its column
is not kept, and a decision written to one has no effect.  `Create`, `Rename`,
`Delete` and `Commit` are the ends of POST, PATCH and DELETE; a PATCH with phases is
`Load` (before the transaction), `SaveAndRead` (`project.save()`, which takes the row's
lock, and the read of the phases), `Archive`, `Commit`.  `Decide` and `WriteDecision`
are the two halves of the MD's request, which takes no lock on the project.  `Merge` is
`merge_preserved_md_fields` on one item.  Item texts, dates and notes are left out, and
payloads do not name one item twice (the code would accept it, and keep both).
The migration `0006` has given old items a status, so a missing one does not occur.
`granted` (items the MD has approved since they were last checked) and `overlap` are history.

### 3.5 Actionable entries

`row` has the co-author, the approval and the final status; `chain` the share rows in order,
each with its user and status; `ereq`/`req` the request of each user.  A PATCH is `Load`, the
pre_save receiver's note, the write, the post_save receiver's push; work on a share saves one column;
`share_further` saves one column of the last share and inserts the next.  The note that
`pre_save` leaves is kept per process, and whichever `post_save` comes first takes it: `noted`.
`ActionableContract` has the members of the chain, those whose part is finished, and a stage.
`KeepsEntryContract` asks for its steps as long as requests have not overlapped; `EntryCompleted` is the
liveness that must survive all overlaps.  The creator may sign off or co-sign while creating,
whatever the comment at `QuaterlyReports/serializers.py:240` says of later changes: the stage `"filed"`.
A co-author's save that crosses a deletion inserts the entry again.

### 3.6 Scores

Nothing is stored: `PerformanceScore` holds the rows that the queries count (`done`, by kind, person and
month; `early`, those of them in the first hours of a month, whose UTC month is the one before), leaves,
targets and assets; `Combined(e, p)` is the response for an employee and a period.  Points are
sixtieths, which makes every rate whole, and the months of a behaviour lie around the turn
of a financial year.  `ScoreRules` has one operator per scoring file.  The bonus is not part of
the combined score and is left out.  Found while modelling and kept as the code has it: the ratio of
usable assets is applied to past months as well; points of a checklist vanish with the
archived project; a special intern's month is worth 120 points; an MD may reject an
approved DM entry, which takes its points back.

A period's average over the organisation is rounded once, the averages of its months once each, so an HR employee's
quarter may be worth up to two sixtieths of a point more than its three months.  `PeriodsAddUp` allows for that and for
nothing else.  It first asked for equality, which TLC confirmed with one employee beside HR, where no average is
rounded; the proof did not go through, and with a second employee TLC shows why.  The instance has had two since.

### 3.7 Forms, slots, accounts, chats (composed in `Office`)

* `ProjectForm`.  An edit and a merge of the whole list write whole rows from what they loaded;
  a decision writes its own columns.  `append_entries` answers 400 from inside
  `transaction.atomic()` without an exception, so that the rows before the bad one stay.
* `StructureEntry`.  Content of a column is `"blank"` or `"filled"`.  A module's endpoint writes the row
  and mirrors it into the service states in a second transaction; the smart delete
  writes its own columns and removes the row that nobody owns any more.  `Kill` is a process that dies
  between the two transactions; `behind` (history) says that a mirroring was lost or crossed since the
  states last agreed with the columns.  `OthersKept` asks for steps while no mirroring is due, lost or
  crossed: a module's columns that are in no state yet are invisible to another module's deletion.  Its two
  extra conditions come from the proof: a third worker is needed to see that they are missing (one saves,
  one mirrors an older copy, one deletes), and with three workers TLC finds it.
* `SlotBooking`.  A request is one step.  A booking without a date or times is not checked; a
  PATCH is checked against what it carries only, which is why a slot that is *moved* may meet another in its
  room: `BookedApart` leaves rooms out from then on (`moved`), and everything once a request went unchecked (`loose`).
  Nothing protects two bookings that cross.
* `LoginSession`.  A login is test, password, log off the others, drop their sessions, enter,
  store; each a commit.  The counters are that of the process and that in Redis.
* `EmployeeAccount`.  Filing is two transactions; `_update_profile_sync` saves the login and
  updates the profile by a query.  Every `save()` of a profile runs the receivers: the
  head count goes up at each, and the menstrual bucket is filled.  An update that crosses a deletion inserts
  the login again, and a demoted MD stays superuser.
* `GroupChat`.  The participants counter is saved with the whole group row, the members by
  statements of their own, the unseen counts by one UPDATE.  `past` is set by requests that cross, and by a
  creation that names an unknown user.
* `ChatPost`.  One chat between two users, one attachment, messages as a function of their numbers; the run
  has two of them.

### 3.8 Records (composed in `Records`)

* `ClientLead`.  An update clears the members, adds the new ones one by one, and saves the whole row
  at its end; a counted note adds to the statistics of the day `timezone.now()` gives, while the row of
  the day carries the local date: with `UtcDay` the day before, which is so until half past five in the
  morning, `SalesCounted` fails.  A save undoes an acknowledgement it crosses.
* `TourAdvance`.  The creator's edit is allowed while Pending and saves the whole row.  A bill's amount may
  change after the approval.
* `TaskWork`.  `save()` of a completed task writes the log again, so any edit moves the completion date
  forward; the counter of created tasks is only raised, until a command refreshes it.
* `CustomerEntry`, `JobPosting`, `OfficeBooks`.  Figures computed from rows that requests change from
  copies.  An application for an opening is tested and stored in two steps, so it may
  arrive after the opening is closed; it never arrives for one that was not offered.

### 3.9 Composition

Components that act on one row are composed in one module: balances, rails and the application in `LeaveApplication`;
login, presence's forced logout, profile and receivers in `Presence` and `EmployeeAccount`; a call with
its receivers and counter in `CallLifecycle`; rules and rows in `PerformanceScore`.

`Settles`, `Office` and `Records` put components that share *no* state side by side, so that each is
checked on its own without a run of its own: `which` names the part whose behaviour a state belongs to,
`Only(one)` keeps the variables of all others as they are, and the initial state picks the part.
A behaviour of the composite is a behaviour of one part with constants beside it, which loses nothing: no
part reads another's variables.  A property that joins several parts says in each conjunct which part it
is about.  Fairness is that of the parts; the entry of `Settles` is put to rest in its state "gone" when
it is not selected, so that the fairness of its steps asks for nothing then.
The three take the parameters of their parts as constants of their own, so that `SettlesProofs`, `OfficeProofs` and
`RecordsProofs` can speak of all their values; `MCSettles`, `MCOffice` and `MCRecords` are the instances that the
runs check.

## 4. Runs

| Run | Question | Bounds |
|---|---|---|
| `leave_serial` | Served one at a time: does every creation path and every request of every approver, the applicant and the cover person keep balances, charges, consents, notices and protections? | one employee, one person per role, one worker, requests in any order and number, at most 2 runs of the waterfall before a further approval is loaded, one day in two lengths, one short-leave slot |
| `leave_race` | Does the approval chain hold when two workers decide on stale copies, the lead changes or is deleted, and a credit arrives? | two workers, approvals and rejections plus a change of cover person, one new lead, one leaver, one credit |
| `leave_queue` | Do the queue filter, the authority check and the gates agree, so that every ordinary or short leave of an employee, a team lead or HR is decided? | one worker, applicant free to change the cover person for ever |
| `scoring` | Is no month worth more than its top, are periods the sum of their months, does more work never cost points and more leave never earn any? | an employee of each of 13 profiles, one with the default profile and an HR employee, months March and April, a quarter on each side and a year, counts 0, 1, 20, 120, eight sequences of half and full days, one more row, leave, target or asset |
| `settles` | What somebody waits for, under fairness, and what holds beside it: presence, GET cache, actionable entries; and a 1:1 call with two handlers at once in one process | presence: two tabs in one process and one in another, counter between -3 and 3; cache: two users, two workers, two mutations; entry: creator, co-author and two others, chain of three, two requests nobody is obliged to make; call: two users, one call, which may age |
| `office` | Several requests at once on a checklist, a form, a structure, slots, logins, an account, a group, a chat | checklist: two items, together or apart in two places, phases made three times; two workers throughout; one form entry; two modules and one further service; two slots, two people, one room and outdoors, three hours; three sessions, limit two, one change of password; one address, two roles; a creator and two others, two posts, two changes; two messages |
| `records` | Rows read, changed and saved: group calls whose workers die, 1:1 calls one at a time, leads, tours, tasks, customers, openings, books | group call: creator and two others, two workers; 1:1: three users, two calls, of which one may age, one worker; else two workers, two users, one row, one or two amounts, months, messages or applications |
| `leave_md_own` (violation) | An MD's own leave is charged twice | |
| `leave_lost_credit` (violation) | A monthly credit between read and save of a charge is lost | |
| `cache_tasks` (violation) | A watched model other than the actionable entry drops nobody's cached lists by signal | |
| `menstrual` (violation) | Any save of a profile refills the menstrual leave of the month | one worker |
| `scoring_utc` (violation) | A task completed in the first hours of a month counts in the quarter and in none of its months | as `scoring` |

What the properties of the composites say of each part is with their definitions; the names used in
the findings and hazards are these:

| Property | Part: what it states |
|---|---|
| `CountedMeansMissed`, `RingsOnce` | 1:1 call, two handlers: a counter above zero has a missed call; nothing rings twice |
| `CallsKeepContract`, `MissedCounted` | 1:1 calls one at a time: the contract with the busy rule, sharing taken down only on request; the counter is exact |
| `RosterCurrent`, `CreatorGoneEndsIt`, `EndedForGood` | group call |
| `TabsCounted`, `GhostFades` | presence: multi-tab safe, never overcounted, always expiring; a ghost fades |
| `WritesSeen`, `StaleFades` | cache: one's own and shared writes are seen; what overlap left goes |
| `KeepsEntryContract`, `NewsArrives`, `EntryCompleted` | actionable entry |
| `EachItemOnce`, `PointsNeedApproval`, `KeepsContract` | checklist |
| `ApprovedAsSigned` | project form: what is approved is what was approved |
| `OthersKept` | structure: one module's deletion spares the others |
| `BookedApart` | slots |
| `AccountsKept` | login: one device, guesses capped; account: who is deleted stays so |
| `ChatsKept`, `NothingUndone` | group: counter and unseen counts; chat: one chat, seen was shown, attachments and marks stay |
| `FiguresAgree` | ledger and summary of customer entries; vendors, months, bills and assets of the office books |
| `NobodyLoses` | members of leads and their statistics, approved tours and their travellers, completion dates and messages of tasks, applications to offered openings |
| `StateIsTheCreators` | openings |

Why the bounds suffice.  A leave has one row, and what one request can do to another is
seen with two workers: each holds one stale copy.  Two waterfall runs show a repeated
charge; the lengths 1 and 2 and the initial balances (one half day casual, two earned)
make a charge cross from casual into earned and into unpaid.  A second call is what
"busy" needs, a third user what a second call needs.  Two mutations and two workers
give every order of fill and invalidation; a third version would only repeat them.
The presence bound lets all three sockets be counted and lets the counter go below
zero.  A chain of three is the least in which one person has finished and another still passes the entry on.
For rows saved from copies, a stale copy needs one other request, hence two workers, and values
must differ from each other, hence two of each; the three hours of a day let slots touch, overlap and
contain one another.  In the scores the counts lie below, at and above every cap.
What the bounds leave open for safety is what the theorems are about.

Deadlock is not checked where the system may come to rest: a deleted application, a
call that is over with no key left, an ended group call, a deleted row with no request in progress.

### Fairness

* Leave: a worker finishes what it loaded (weak fairness of `ReadBalance` and `Serve`:
  a request thread runs on); an approver whose queue shows the application again and
  again in the end opens it and approves it (strong fairness of `Attend`, one per person
  and rail).  Strong, because the applicant may change the cover person in between and
  take the application out of the queue and put it back.  It is an assumption about
  people, stated for the approval through the queue and nothing else: no fairness on
  creation, edits, deletion or rejection.
* Presence: a disconnect that has begun runs on; time passes; Redis expires a key that is
  due.  Nobody is obliged to connect, ping or close.
* GET cache: a request that has begun runs to its end; every entry has a timeout
  (`CACHE_GET_TIMEOUT`).  Nobody is obliged to read or to write.
* Actionable entry: a request that has begun runs on; the entry is filed; the co-author approves, a
  member of the chain finishes his share, and the creator signs off when it is their turn (weak: their turn
  does not pass).  Nobody is obliged to pass an entry on, to edit, to reopen or to delete it;
  those requests are bounded by `MaxEdits`, as people who edit for ever keep an entry open for ever.

Calls and group calls claim no liveness: an accepted call whose two clients vanish stays
accepted in this code, as no timer ends it.

### Findings

Five runs show the code at odds with what the repository says of it.

1. `leave_md_own`: the post_save receiver charges an MD's own leave and
   `create()` charges it again, as the instance in hand has no split
   (`leave_views.py:1000` against `signals.py:98`).
2. `leave_lost_credit`: a charge saves absolute balances, so a credit that lands between
   read and save disappears, though the month is stamped as credited
   (`leave_views.py:365` against `credit_earn_leave.py:13`).
3. `cache_tasks`: the table of affected users compares `app_label.model_name`, which is
   lower case, with names in mixed case, so only the actionable entries are found
   (`ems/cache_invalidation.py:16` against line 12).
4. `menstrual`: the receiver that gives a new employee her menstrual leave runs at every save of the
   profile, so that a birthday wish or a new photo gives it again (`accounts/signals.py:30` against
   `accounts/models.py:190`).
5. `scoring_utc`: completed tasks are selected by the local month and filed under the UTC month, so that
   the quarter is not the sum of its months (`task_management/intern_task_scoring.py:181` against line 10).

Known without a run of their own, and the reason why some properties ask only for steps without overlap:

* An accept tests PENDING on the row it read and saves every column, so a call that ended in
  between is live again (`Calling/views.py:137`).
* A decision of the MD that falls between a PATCH's read and its commit is written to an archived
  phase and lost, and of two decisions on one phase at once one overwrites the other
  (`projects_deadline/views.py:290`, `:386`).
* An update that crosses a deletion inserts the row again: leads, tour advances, tasks, customer entries,
  actionable entries, logins.
* Logins that cross in different processes leave a session each (`accounts/views.py:383`); a success clears
  Redis and the counter of its own process only.
* A PATCH of a slot that names no room is not checked against its room (`events/serializers.py`).
* `perform_destroy` asks the ownership flags of the instance the request loaded.  An update of another module
  that has saved its flag in between, and has not mirrored its columns yet, is not seen, and the row goes
  (`infra_forms/views.py:149`; line 99 says it goes "only when no module owns it anymore").
* A change of an opening that crosses its closing or removal undoes it (`recruitment/views.py`).

## 5. Proofs

All theorems are checked by `tlapm`; nothing is assumed beyond the named `ASSUME`s of the
constants, which TLC evaluates in the runs.

**Leave** (`LeaveApplicationProofs`).  `TypeCorrect`: for any users, roles, requests, ways
of creation and workers.  The one thing in it that is not shape is that no balance goes
below zero: `SplitFacts` bounds each part of a split by the balance it was computed from,
and since a charge writes balance-read minus part-of-read, no later state of the summary
matters.  `GateHolds`: HR and MD approve only after the gate has stood open at some moment.
The invariant `GateInv` adds to types that whenever the row, or the copy of any
worker, meets the gate under the present profile, `opened` is already true.  Rows change
under `Remember`, copies are taken from the row, and a profile that is lost with its
lead gives the strictest gate of all (`NoProfileStrictest`).  A step that
writes an approval passed `StaffBlocked` on its copy, so `UnblockedMeetsGate` applies; and
follow-up changes of rails never grant anything by themselves (`FollowUpsGrantNothing`,
`EditGrantsNothing`).

What two overlapping requests can break holds for one at a time.  `OneAtATime` says that no two workers hold
the application at once; it is a hypothesis of the five theorems below, on the behaviour, and not on the
constants: a lock on the row would give it, and one worker has it (`OneWorkerInTurn`).  `InTurn` then says that
a copy is the row, but for a cover person whose account has gone meanwhile; `ReadCurrent` that the balances
read for a charge are those of the summary, as long as no credit lands between read and save (`CreditsApart`).

* `BooksBalance`: an approved application carries the split of its own length, and what was
  there at the start and came in is what is left and was charged (`Books`).
* `ChargedOnceInTurn`: besides, one charge for each approval, unless the applicant is an MD, whose own
  leave is charged twice (run `leave_md_own`).
* `ConsentInTurn`: what the staff have approved stands on the consent of the cover person who is named now.
  The profile's role must not get lost with its lead while the applicant is HR or MD: they file without the
  chain, and an applicant without profile is under it (`RoleStays`).
* `ApprovedStaysInTurn`: the applicant hears of the final approval when it is given, and what the MD has approved
  is neither deleted nor edited.  It needs requests that do not change the draft and a rail of the staff in
  one (`EditsApart`); without that TLC shows a draft changed along with an approval.
* `QueuedInTurn`: an undecided application is in the queue of somebody whose approval the server takes.
  `QueueFits` names what it takes: nobody moves or is deleted, leads have the role, there is another MD than the
  applicant, and ordinary or short leave.  `Turn` is the heart: a rail is hidden only while somebody before it
  has to decide, and an application rests with the cover person, the lead stored on it or the MD.

`ConsentInv`, `TurnInv`, `Books` and the rest were checked by TLC as invariants, on an instance of two million
states, before they were proved.

**Calls** (`CallProofs`).  `CallInv` is types, existence of the rows that workers hold, and
that no worker holds an instance saying PENDING; this gives `CallTypeCorrect` and
`CallsRingOnce` for any workers and processes.  `CountInv` adds that a worker about to
increment holds a call that lapsed, and a counter above zero has such a call: `NobodyToldOfNothing`.
With one worker (`Worker = {w}`), `Fresh` says that what the worker read still holds;
then each step is a step of the contract or a stutter (`StepOfContract`), hence
`SerialImplementsContract`, and the contract's own theorems `ContractKeepsBusy` and
`ContractOverIsOver` carry over.  `SerialInv` adds the counters: the number of calls missed since the receiver last
looked is the counter and, while the one handler is between the save and the increment, one more (`NearlyExact`,
`ToCount`); nobody who answered is in a call filed as missed.  Hence `SerialCountsMissed`; and since what a handler
saves carries the flag it read, `SerialSharesUntilStopped`.

**Group calls** (`RecordsProofs`).  `GroupEndsForGood` needs no invariant beyond types.
`LeavingCreatorEnds` uses `SomebodyCloses`: a creator who has left, with no death so far,
has ended the call or a worker is on its way to it.  `SerialJoinsActive` and
`SerialRosterCurrent` use `Alone` (no overlap so far means at most one busy worker),
`JoinsWhatItRead` and `RosterFollows`, which describe the room's list at each stage of a
handler; `NobodyBefore` covers the time before the call exists.

**Checklists** (`OfficeProofs`).  `ChecklistInv` adds to the two properties: at most one
PATCH is between its save and its commit, and what it archives is all that is active
(`OnePatch`); every approval that a request carries, in a PATCH's `prev` or the MD's copy of a phase
that is still active, was granted (`CarriedApproved`); the MD's copy has the items the phase has
(`SameItems`).  A commit that withdraws approvals also replaces the phases that stale copies refer
to, which is the reason a late decision cannot bring one back: `Numbered` keeps old copies off
new phases.  This gives `NoItemTwice` and `ApprovedByTheMD` for any number of workers.  `Alone`
adds that without overlap what a request has read is still so; then each step is one of the
contract (`SerialKeepsContract`).

**Scores** (`ScoreProofs`).  `ScoreTypes`: counts stay natural and an early row stays one of the month's rows
under every recording, approval, rejection, target and reset.  `NoMonthAboveTheTop`: for every number of rows,
leaves, targets and assets, and every combination of role, functions and branch.  One lemma per scoring file
bounds its part (`PortionTop` is the common core: an achievement against a target stays within the cap);
`WorkTop` adds them up by scoring profile, `PersonalTop` the thirty personal points, of which `LeaveTop`
needs that charged leave never is more than what was taken; `MonthTop` puts them together.  The organisation's
average of an HR employee is cut at 70 and needs no bound on its parts.

`PeriodsAddUpForAll`.  Without a row in the first hours of a month a month is worth the same in every period
(`MonthApart`); so a period's points are the sum of the months' points, and the pool's work is the months' work
added up in the other order (`OrgWorkApart`, by `SumSwap`).  When nobody in the pool can have more than a hundred,
neither the cap of a month nor that of the period bites (`MonthShare`, `AveragesBelow`), and what is left is the
rounding: the quotient of a sum less the sum of the quotients is at least 0 and, of `k` terms, at most `k - 1`
(`SumOfQuotients`).

`MoreNeverLowersForAll` compares two states of one step.  *Rows*: the only steps after which no count is lower write
rows (`StepGrows`: a rejected entry lowers one), and a written row raises what a query files under its month or,
when it is early, under the month before, never lowering the other (`FiledGrows`); every category grows with its
count, capped or not, the targets being the same (`WorkGrows`).  *Leave*: one more leave, anywhere among the
others, can move the free days from a long leave to a short one, so no single leave's charge is monotone.  What
is: the half-days taken are those charged and those waived (`TakenSteps`), and the allowance used up to each later
leave exceeds the old one by at most the new leave's length (`TakenWith`, by induction along the sequence with
`UpTo`); so the half-days charged never shrink (`LeaveCosts`).  `PeriodFollows` carries either direction from the
months to the period and, through the pool's sum, its quotient and its cap, to an HR employee's share.

**Sums** (`SumProofs`).  The models add up with `SumFunction`, a fold whose induction step is an operator, which is
why the library has no theorem a prover here could use.  `SumIsValue` goes back to the recursive function behind
the fold, `SumsExist` shows that there is one, and `SubsetInduction` does the induction on finite sets by the
set of those subsets for which the statement holds, from `FS_StrictSubsetOrderingWellFounded`.  The rest follows from these
three: a term more, sums of sums, the order, a union, sums by a key (`SumByKey`) and in two orders (`SumSwap`).

**Actionable entries** (`ActionableProofs`).  `EntryTypes` includes that nobody is in a chain twice, which
`Appended` takes from the test that `AddMember` makes of the new member.  `Alone` says of a request that no other has
overlapped that the entry is there and that what it read is still so: the copy is the row; whoever is about to sign
found every part finished; whoever passes the entry on found none.  With `Recorded` (who
shows a completed part has completed one) each statement is a step of `ActionableContract` or changes nothing that shows:
`SerialKeepsEntryContract`.  `SerialSignedMeansDone` then follows from the contract's steps alone.

`NewsIsTold` is about the two messages to the creator.  `ChainNews` holds under every
interleaving: a last share that is completed and not yet told of is in the hands of the member who completed it,
whose own request tells (`Reporting`).  `ApprovalNews` needs requests that have not overlapped, because the note of the `pre_save`
receiver is kept for the process and not for the request: then what was noted is what the save changes.

**Settles** (`SettlesProofs`).  The theorems speak of `SettlesSpec`.  `SettlesParts` projects, calls are covered by
`CallProofs`, entries by an instance of `ActionableProofs`; the module's own invariants are those of presence
and of the cache.  The hypotheses (`PresenceFits`, `CacheFits`, `EP!NewsFit`, together `SettlesFits`) say that there are finitely many
tabs, that "no key", "no entry" and "no request" are not mistaken for a value, and what a patch is; TLC
evaluates them to true on the instance of the run.

* Presence, `TabsCountedForAll`, for any finite set of tabs and any processes.  `Lasting`: a key without expiry
  is one that a disconnect made and is about to delete, so none is left between calls.
  `NeverOvercounted` is inductive but for the sockets that Redis left uncounted (`SilentFailed`).
  `Exact`: undisturbed, at most one disconnect is under way and the counter is the number of counted sockets, or
  the key is gone and there are none; `MultiTabSafe` is that between calls.
* Cache, `WritesSeenForAll`, for any readers, workers and number of mutations.  `OneByOne`: as long as
  requests come one at a time, no cached answer lacks what its reader has been told of, nor, where the affected users are
  found, what anybody has (`Current`); what a request in progress knows is still so (`KnowsOf`): a reader
  has what the database has, a mutation's version is no later than that, and behind the signal of a chat or an
  entry nothing is cached any more.
* Entries, `EntryContractForAll` and `NewsForAll`; calls, the types in `SettlesTypes`.

**Office** (`OfficeProofs`).  The theorems speak of `OfficeSpec`, for any number of workers, entries, modules,
meetings, people, sessions, posts and messages.  `PartsStep` projects: a step of the office is a step or a
stutter of each part, so each part has an inductive invariant of its own.  Their hypotheses (`FormFits`,
`StructFits`, `BookingFits`, `GroupFits`, `ChatFits`, `LoginFits`, together `OfficeFits`) say that "no row", "no
request" and "linked to nothing" are not mistaken for a row, a request or a place; that members and
processes are finitely many; that bounds are numbers; that there is a process and the limit is not 0.  TLC
evaluates `OfficeFits` to true on the instance of the run.

* Forms, `ApprovedForAll`.  `FormInv` adds what requests have loaded: an edit by staff
  loaded a row that was not approved, and writes that back, so whatever it overwrites is no longer approved
  (`StaffGood`); what the MD's own edit leaves approved, the MD has made so (`StandGood`).  `MergedRow` is the same
  for each row of a whole-form request.
* Structures, `OthersKeptForAll`.  `Matched`: unless a mirroring was lost or crossed, one request at most has one to
  do, and each filled column is in the states or in the copy it is about to mirror.  A deletion looks at states
  and at the columns it loaded; what is in the states is what it spares.
* Slots, `BookedApartForAll`.  Nobody holds a copy, so the property is inductive by itself.  The work is in
  `SlotWritten`: the validation tests the new slot against the others by two strict comparisons, and what it
  tests for creator, members and room is symmetric.
* Logins and accounts, `AccountsForAll`.  `Owned`: there is a way to give every live session to one process
  so that no process has two, and none that is past dropping the others has any: hence no more sessions than
  processes.  `OneLogin` is the case without crossing, in which there is one session and the flag tells of it.
  `Guesses`: the wrong passwords that the shared counter does not hold yet are each in the hands of a
  process, and a process tries only below the limit, which gives `GuessesCapped` the limit and one for each
  other process.  A deleted account stays deleted, except for the updates that cross the deletion.
* Groups and chats, `ChatsForAll`.  `Counted` says what the counter is at each stage of the one request there is,
  in terms of the members' cardinality; `Unmissed` bounds the unseen count from below by the posts since the
  member last looked.  In a chat, `ChatInv` adds to `SeenWasShown` the messages each request is to mark: shown,
  and not the reader's own.  `NothingUndoneForAll` follows from the types of the attachment's place.

`OfficeTypes` puts the types of all together, among them what is more than shape: no late save brings an entry
into a deleted form, states belong to a structure, the flag of a login to an account that has a profile.

**Records** (`RecordsProofs`).  The theorems speak of `RecordsSpec`, and `RecordsParts` projects.  Hypotheses:
`LeadFits`, `TourFits`, `WorkFits`, `PanelFits`, `JobFits`, `BooksFits` say that "no row" and "no request" are not
mistaken for a value, that workers and what is summed over are finitely many and that bounds, prices and months are
numbers.  TLC evaluates them to true on the instance of the run.  `LeadFits` says besides that it is the same day in
India and in UTC, as otherwise `SalesCounted` is false (3.8).  Each part has an inductive invariant that adds to its
types and properties what its requests hold:

* Leads, `LeadInv`.  `Listed`: of the list that was cleared last, whoever is not a member yet is still to be added
  by one request.  `Counted`: the statistics of the day and the requests about to raise them make the conversations.
* Tours, `TourInv`.  A creator's edit holds a copy that was pending, which takes a decision back and alters none.
* Tasks, `WorkInv`.  `Noticed`: the unseen messages of an assignee are at most his count and the requests about to
  raise it, unless one is about to show them.  `Dated`: a completed task has its date, or a receiver is about to log it.
* Openings, `JobInv`.  Every copy that would take applications has been offered: `Offered`.  A copy in the hands of
  somebody other than the creator is saved with the state that it was loaded with: `StateForAll`.
* Customer entries, `PanelInv`.  The total, stored or loaded, is that of value and tax (`PricedRight`), as an update of
  one of the two recomputes it from the copy that it saves.
* Books, `BooksInv`.  `Linked`: an expense is under a vendor and a bill under a category that are there.  With this and
  `SumByKey`, `FiguresForAll` follows for any number of rows: the vendors' prices and the expenses without a vendor
  are the expenses, the months are the period, the categories the bills.

The 1:1 calls are an instance of `CallProofs`, with one handler for `MissedCountedForAll` and `CallsContractForAll`.
`NobodyLosesForAll`, `StateForAll`, `FiguresForAll` and `RecordsTypes` collect the parts.

Model-checked only: liveness (`Decided`, `GhostFades`, `StaleFades`, `EntryCompleted`), which is out of the
prover's reach.  What the theorems about overlapping requests assume (one handler, no overlap so
far) is stated in each; without it the findings above are counterexamples.

## 6. Not modelled, and why

Formatting, validation of field syntax, pagination, permissions that read only the user's
role and guard a single row, files in object storage, and the read-only endpoints.
Within modelled components:

* Leave: menstrual leave of several days and short leave sent to the general endpoint; the
  deletion of the cover person, after which a pending application's rails stay null; the two
  spellings `HR` and `Hr`; the casual and short-leave credit commands; the quota
  tests, which need two applications of one person.
* Calls: which sockets hear of what; the requester's own busyness, which the code does not test.
* Cache: the employee directory, which has its own key; a queryset's `update()`, which sends
  no signal; failures of Redis.
* Presence: the users' list that reads the counters.
* Scores: bonus points, rankings, the texts of a response.
* Group chats: attachments (those of a chat are modelled) and the list of chats.  A `new_message` push never
  carries the attachment; a mark in a group ignores which messages it names, and is modelled so.
* Actionable entries: monthly schedules and functional goals, which are rows that one person edits.
* Structure rows: the columns of a module are two, by what they amount to.
* Tour advances, recruitment, administration panel: uploads.

Whole components without a module: notifications and meeting pushes (rows and sends without a protocol of
their own), farm services (nested rows in one serializer call; their points are in `ScoreRules`),
certificates (a row and a file), asset management and requests, announcements and alerts, notes, projects
(row edits by one person), attendance, summaries and insight (proxies of other services), maintenance scripts, settings.

The list of hazards in `PROJECT.json` keeps what no property covers yet: three of leave, where the model
follows one application or one chain.

## 7. Plan

In this order.

1. Done: every component with state that several requests change; contracts for calls, checklists and
   actionable entries; liveness for leave, presence, cache and entries.
2. Done: theorems for every safety property that a passing run checks.
3. `LeaveQuotas`: two applications of one person against the short-leave quota, and the credit
   commands that reset a column.
4. Meetings and notifications, once a protocol between them and the sockets exists to be checked.
