------------------------------- MODULE Office -------------------------------
(***************************************************************************)
(* Eight parts that several people edit at once: the checklist and the form  *)
(* of a project, its structure, booked slots, logins, accounts, a group and a *)
(* chat.  They share no state: a behaviour runs the part that "which" names,  *)
(* the others rest.                                                           *)
(***************************************************************************)
EXTENDS Checklist

CONSTANTS EntryId, Value,                                    \* ProjectForm
          Module, Extra,                                     \* StructureEntry
          Meeting, Guest, Indoor, Outdoor, Hours,           \* SlotBooking
          SessionId, Limit, MaxPw,                           \* LoginSession
          Role, Email, MaxHeads,                             \* EmployeeAccount
          Colleague, Creator, Md, MaxPosts, MaxAsks,              \* GroupChat
          First, Second, Uploader, MaxMessages, Unlinked, Gone,   \* ChatPost
          None

VARIABLES which,
          form, entry, used, freq, signed,   \* ProjectForm
          struct, state, types, stask, made, behind,   \* StructureEntry
          slots, loose, moved,   \* SlotBooking
          account, pw, sess, flag, ltask, remote, local, tried, lpast,   \* LoginSession
          login, person, heads, bucket, atask, filed, taken,   \* EmployeeAccount
          group, members, unseen, gtask, posts, asks, since, gpast,   \* GroupChat
          chats, messages, link, told, ctask   \* ChatPost

F == INSTANCE ProjectForm WITH request <- freq
S == INSTANCE StructureEntry WITH task <- stask
B == INSTANCE SlotBooking WITH Slot <- Meeting, Person <- Guest
L == INSTANCE LoginSession WITH task <- ltask, past <- lpast
A == INSTANCE EmployeeAccount
G == INSTANCE GroupChat WITH task <- gtask, past <- gpast, User <- Colleague
H == INSTANCE ChatPost WITH MaxPosts <- MaxMessages

formState == <<form, entry, used, freq, signed>>
structureState == <<struct, state, types, stask, made, behind>>
bookingState == <<slots, loose, moved>>
loginState == <<account, pw, sess, flag, ltask, remote, local, tried, lpast>>
accountState == <<login, person, heads, bucket, atask, filed, taken>>
groupState == <<group, members, unseen, gtask, posts, asks, since, gpast>>
chatState == <<chats, messages, link, told, ctask>>

\* One part moves, the others rest.
Only(one) ==
  /\ which = one
  /\ IF which = "checklist" THEN TRUE ELSE UNCHANGED vars
  /\ IF which = "form" THEN TRUE ELSE UNCHANGED formState
  /\ IF which = "structure" THEN TRUE ELSE UNCHANGED structureState
  /\ IF which = "booking" THEN TRUE ELSE UNCHANGED bookingState
  /\ IF which = "login" THEN TRUE ELSE UNCHANGED loginState
  /\ IF which = "account" THEN TRUE ELSE UNCHANGED accountState
  /\ IF which = "group" THEN TRUE ELSE UNCHANGED groupState
  /\ IF which = "chat" THEN TRUE ELSE UNCHANGED chatState
  /\ UNCHANGED which

OfficeInit ==
  /\ which \in {"checklist", "form", "structure", "booking", "login", "account", "group", "chat"}
  /\ Init /\ F!Init /\ S!Init /\ B!Init /\ L!Init /\ A!Init /\ G!Init /\ H!Init
  /\ which # "checklist" => rounds = 0
  /\ which # "form" => used = {}

OfficeNext ==
  \/ Only("checklist") /\ Next
  \/ Only("form")      /\ F!Next
  \/ Only("structure") /\ S!Next
  \/ Only("booking")   /\ B!Next
  \/ Only("login")     /\ L!Next
  \/ Only("account")   /\ A!Next
  \/ Only("group")     /\ G!Next
  \/ Only("chat")      /\ H!Next

everything ==
  <<which, vars, formState, structureState, bookingState,
    loginState, accountState, groupState, chatState>>

OfficeSpec == OfficeInit /\ [][OfficeNext]_everything

(* The properties of the parts.                                            *)

\* Every part keeps its type.
TypesOK ==
  /\ which = "checklist" => TypeOK
  /\ which = "form"      => F!TypeOK
  /\ which = "structure" => S!TypeOK
  /\ which = "booking"   => B!TypeOK
  /\ which = "login"     => L!TypeOK
  /\ which = "account"   => A!TypeOK
  /\ which = "group"     => G!TypeOK
  /\ which = "chat"      => H!TypeOK

\* What the MD approved of a form's entry is what the entry says.
ApprovedAsSigned == F!ApprovedAsSigned

\* Saving one module of a structure leaves the states of the others alone.
OthersKept == S!OthersKept

\* No room and no person is booked twice for the same time.
BookedApart == which = "booking" => B!BookedApart

\* One device per user, guesses capped, and nothing brings back a deleted account.
AccountsKept ==
  /\ which = "login"   => L!OneDevice /\ L!GuessesCapped
  /\ which = "account" => A!GoneStaysGone

\* Two people have one chat, a group counts its members, and nobody misses a
\* message without being told so, or is told they saw what they were not shown.
ChatsKept ==
  /\ which = "group" => G!MembersCounted /\ G!NothingMissed
  /\ which = "chat"  => H!OneChat /\ H!SeenWasShown

\* What has been seen, edited or attached in a chat is not undone.
NothingUndone == H!NothingUndone
============================================================================
