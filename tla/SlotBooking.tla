----------------------------- MODULE SlotBooking -----------------------------
(***************************************************************************)
(* Meeting slots of one day in src/events (models.py, serializers.py,          *)
(* views.py): who has booked which room from when to when with whom.  A request   *)
(* is checked against the slots whose time overlaps the one it carries; one that    *)
(* carries no date or no time is not checked at all.  Requests do not cross here:    *)
(* nothing keeps two that do from booking the same room.                               *)
(***************************************************************************)
EXTENDS Naturals, FiniteSets

CONSTANTS Slot, Person, Indoor, Outdoor,   \* slots, people, the rooms and "Outdoor"
          Hours,                           \* bound on times: 0..Hours
          None

VARIABLES slots,   \* BookSlot and SlotMembers rows, None where there is none
          loose,   \* history: a change was stored that was not checked
          moved    \* history: a slot was given a time without naming its room

slotVars == <<slots, loose, moved>>

Room == Indoor \cup {Outdoor}
Interval == {t \in (0..Hours) \X (0..Hours) : t[1] < t[2]}
Row == [time : Interval \cup {None}, room : Room, by : Person, members : SUBSET Person]

TypeOK == slots \in [Slot -> Row \cup {None}] /\ loose \in BOOLEAN /\ moved \in BOOLEAN

Init == slots = [s \in Slot |-> None] /\ loose = FALSE /\ moved = FALSE

-----------------------------------------------------------------------------

Booked == {s \in Slot : slots[s] # None}

\* Mutant of Meet: the beginning falls into the other.
MeetAtStart(t, u) == u[1] <= t[1] /\ t[1] < u[2]

Meet(t, u) == t[1] < u[2] /\ t[2] > u[1]

\* _get_overlapping_slots, of whatever status, but for the slot itself.
Overlapping(s, time) ==
  {o \in Booked \ {s} : slots[o].time # None /\ Meet(slots[o].time, time)}

\* validate: the room that is asked for, None where the request names none, and the
\* room the slot has after it.
RoomFree(others, asked, room) ==
  room # Outdoor =>
    /\ ~Indoor \subseteq {slots[o].room : o \in others}
    /\ \A o \in others : slots[o].room # asked

\* validate: who asks has no slot of his own then, and the members have none, nor are
\* members of one.
PeopleFree(others, by, members) ==
  /\ members # {}
  /\ \A o \in others : slots[o].by # by /\ members \cap ({slots[o].by} \cup slots[o].members) = {}

Book(s, row) ==
  /\ slots[s] = None /\ row.time # None
  /\ LET others == Overlapping(s, row.time) IN
       RoomFree(others, row.room, row.room) /\ PeopleFree(others, row.by, row.members)
  /\ slots' = [slots EXCEPT ![s] = row]
  /\ UNCHANGED <<loose, moved>>

\* PUT with everything: who changes a slot becomes its creator (a hidden field that
\* defaults to the user).
Change(s, row) ==
  /\ s \in Booked /\ row.time # None
  /\ LET others == Overlapping(s, row.time) IN
       RoomFree(others, row.room, row.room) /\ PeopleFree(others, row.by, row.members)
  /\ slots' = [slots EXCEPT ![s] = row]
  /\ UNCHANGED <<loose, moved>>

\* PATCH of date, times and members: the room is compared with the one that was sent.
\* The check for another slot is about who asks, the creator stays.
Move(s, by, time, members) ==
  /\ s \in Booked
  /\ LET others == Overlapping(s, time) IN
       RoomFree(others, None, slots[s].room) /\ PeopleFree(others, by, members)
  /\ slots' = [slots EXCEPT ![s].time = time, ![s].members = members]
  /\ loose' = (loose \/ by # slots[s].by)
  /\ moved' = TRUE

\* A request without date or times, POST, PUT or PATCH: validate returns at once.
StoreUnchecked(s, row) ==
  /\ slots[s] = None => row.time = None
  /\ slots' = [slots EXCEPT ![s] = row]
  /\ loose' = TRUE
  /\ UNCHANGED moved

Remove(s) ==
  /\ s \in Booked
  /\ slots' = [slots EXCEPT ![s] = None]
  /\ UNCHANGED <<loose, moved>>

Next ==
  \E s \in Slot :
    \/ \E row \in Row : Book(s, row) \/ Change(s, row) \/ StoreUnchecked(s, row)
    \/ \E by \in Person, time \in Interval, members \in SUBSET Person : Move(s, by, time, members)
    \/ Remove(s)

Spec == Init /\ [][Next]_slotVars

-----------------------------------------------------------------------------
(* Properties *)

\* "This room is already booked for the selected time slot." (serializers.py): no two
\* slots that overlap are in one room, outdoors apart.
RoomsApart ==
  \A s, o \in Booked :
    s # o /\ slots[s].time # None /\ slots[o].time # None /\ Meet(slots[s].time, slots[o].time) =>
      slots[s].room # slots[o].room \/ slots[s].room = Outdoor

\* Nobody is a member of two such slots, nobody has made two.
PeopleApart ==
  \A s, o \in Booked :
    s # o /\ slots[s].time # None /\ slots[o].time # None /\ Meet(slots[s].time, slots[o].time) =>
      slots[s].members \cap slots[o].members = {} /\ slots[s].by # slots[o].by

\* Bookings and full changes, in any order, with removals between them, keep rooms and
\* people apart; changes that name only a part of a slot do not.
BookedApart == ~loose => PeopleApart /\ (moved \/ RoomsApart)

\* The room of a slot that is moved is checked like that of one that is booked.
MovedApart == ~loose => RoomsApart
=============================================================================
