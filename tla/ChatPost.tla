------------------------------ MODULE ChatPost -------------------------------
(***************************************************************************)
(* One pair of users and their chat in src/Messaging: the chat is made by the  *)
(* first of them who starts it, its messages are posted, edited and seen, and an *)
(* attachment is uploaded, then sent with a message or by itself, or taken back.  *)
(* Requests are handled by several workers; each statement is a step.             *)
(***************************************************************************)
EXTENDS Naturals, FiniteSetsExt

CONSTANTS First, Second,   \* the two users, by their ids
          Uploader,        \* the one whose attachment is followed
          MaxPosts,        \* bound on messages
          Worker, Idle, None, Unlinked, Gone

VARIABLES chats,      \* IndividualChats rows: pairs of participants
          messages,   \* IndividualMessages, by id from 1: who sent it, seen by the other, edited
          link,       \* the MessageAttachment row: None, or its message, 0 where it
                      \* stands alone, Unlinked, Gone once deleted
          told,       \* history: the last message each user was shown or told seen
          ctask       \* what each worker is doing

chatVars == <<chats, messages, link, told, ctask>>

User == {First, Second}
Other(u) == CHOOSE v \in User : v # u

Row == [by : User, seen : BOOLEAN, edited : BOOLEAN]

\* The last id given.
Latest == CHOOSE n \in 0..MaxPosts : DOMAIN messages = 1..n

TypeOK ==
  /\ chats \subseteq User \X User
  /\ messages \in UNION {[1..n -> Row] : n \in 0..MaxPosts}
  /\ link \in (0..MaxPosts) \cup {None, Unlinked, Gone}
  /\ told \in [User -> 0..MaxPosts]

Init ==
  /\ chats = {} /\ messages = <<>> /\ link = None
  /\ told = [u \in User |-> 0] /\ ctask = [w \in Worker |-> Idle]

-----------------------------------------------------------------------------

At(w, op) == ctask[w] # Idle /\ ctask[w].op = op
Goes(w, t) == ctask' = [ctask EXCEPT ![w] = t]
Free(w) == ctask[w] = Idle

\* Mutant of Pair: as the request names them.
PairAsAsked(u, v) == <<u, v>>

\* get_or_create_indivisual_Chat: the smaller id first.
Pair(u, v) == <<First, Second>>

StartChat(w, u) ==
  /\ Free(w) /\ Pair(Other(u), u) \notin chats
  /\ Goes(w, [op |-> "create", pair |-> Pair(Other(u), u)])
  /\ UNCHANGED <<chats, messages, link, told>>

\* The pair is unique: a second insertion is refused with an error.
CreateChat(w) ==
  /\ At(w, "create")
  /\ chats' = chats \cup {ctask[w].pair}
  /\ Goes(w, Idle)
  /\ UNCHANGED <<messages, link, told>>

-----------------------------------------------------------------------------
(* Posting *)

\* upload_message_file, add_link: a row that belongs to nothing yet.
Upload ==
  /\ link = None /\ link' = Unlinked
  /\ UNCHANGED <<chats, messages, told, ctask>>

\* A message; what is attached to it is linked by the next statement.
PostText(w, u, attaching) ==
  /\ Free(w) /\ chats # {} /\ Latest < MaxPosts
  /\ messages' = [m \in 1..(Latest + 1) |->
                    IF m > Latest THEN [by |-> u, seen |-> FALSE, edited |-> FALSE] ELSE messages[m]]
  /\ Goes(w, IF attaching THEN [op |-> "link", by |-> u, to |-> Latest + 1] ELSE Idle)
  /\ UNCHANGED <<chats, link, told>>

\* Without text the attachment stands alone in the chat.
PostFile(w, u) ==
  /\ Free(w) /\ chats # {}
  /\ Goes(w, [op |-> "link", by |-> u, to |-> 0])
  /\ UNCHANGED <<chats, messages, link, told>>

\* Mutant of Linkable: not asking whether it is sent already.
LinkableAgain(u) == u = Uploader /\ link \notin {None, Gone}

\* _get_unlinked_attachments_queryset: the sender's own, linked to nothing.
Linkable(u) == u = Uploader /\ link = Unlinked

\* One UPDATE of the rows that are linkable when it runs.
Link(w) ==
  /\ At(w, "link")
  /\ link' = IF Linkable(ctask[w].by) THEN ctask[w].to ELSE link
  /\ Goes(w, Idle)
  /\ UNCHANGED <<chats, messages, told>>

\* delete_attachment: asked of the loaded row; the file, then the row, go later, sent
\* by then or not.
TakeBack(w) ==
  /\ Free(w) /\ link = Unlinked
  /\ Goes(w, [op |-> "drop"])
  /\ UNCHANGED <<chats, messages, link, told>>

Drop(w) ==
  /\ At(w, "drop")
  /\ link' = Gone
  /\ Goes(w, Idle)
  /\ UNCHANGED <<chats, messages, told>>

-----------------------------------------------------------------------------
(* Editing and reading *)

LoadEdit(w, u, m) ==
  /\ Free(w) /\ messages[m].by = u
  /\ Goes(w, [op |-> "edit", msg |-> m, copy |-> messages[m].seen])
  /\ UNCHANGED <<chats, messages, link, told>>

\* Mutant of Rewritten: the whole row, as it was loaded.
RewrittenWhole(row, copy) == [row EXCEPT !.edited = TRUE, !.seen = copy]

\* save(update_fields = content, edited, updated_at)
Rewritten(row, copy) == [row EXCEPT !.edited = TRUE]

SaveEdit(w) ==
  /\ At(w, "edit")
  /\ messages' = [messages EXCEPT ![ctask[w].msg] = Rewritten(@, ctask[w].copy)]
  /\ Goes(w, Idle)
  /\ UNCHANGED <<chats, link, told>>

\* The messages of the other user that an UPDATE marks.
SeenBy(u, ids) ==
  [m \in DOMAIN messages |->
     IF messages[m].by # u /\ m \in ids THEN [messages[m] EXCEPT !.seen = TRUE] ELSE messages[m]]

\* Mutant of ReadChat: the list first, the marks after it.
ReadChatListedFirst(w, u) ==
  /\ Free(w) /\ chats # {}
  /\ told' = [told EXCEPT ![u] = Latest]
  /\ Goes(w, [op |-> "mark", by |-> u, next |-> Idle])
  /\ UNCHANGED <<chats, messages, link>>

\* get_messages, and mark_seen without ids: first the marks, then the query that the
\* answer (the list, or the last id) is made from.
ReadChat(w, u) ==
  /\ Free(w) /\ chats # {}
  /\ Goes(w, [op |-> "mark", by |-> u, next |-> [op |-> "list", by |-> u]])
  /\ UNCHANGED <<chats, messages, link, told>>

Mark(w) ==
  /\ At(w, "mark")
  /\ messages' = SeenBy(ctask[w].by, DOMAIN messages)
  /\ Goes(w, ctask[w].next)
  /\ UNCHANGED <<chats, link, told>>

List(w) ==
  /\ At(w, "list")
  /\ told' = [told EXCEPT ![ctask[w].by] = Latest]
  /\ Goes(w, Idle)
  /\ UNCHANGED <<chats, messages, link>>

\* mark_seen of the ids named, or of all up to one: the answer names them.
MarkSeen(u, ids) ==
  /\ chats # {}
  /\ messages' = SeenBy(u, ids)
  /\ told' = [told EXCEPT ![u] = Max({@} \cup ids)]
  /\ UNCHANGED <<chats, link, ctask>>

Next ==
  \/ Upload
  \/ \E u \in User : \E ids \in (SUBSET DOMAIN messages) \ {{}} : MarkSeen(u, ids)
  \/ \E w \in Worker :
       \/ \E u \in User :
            \/ StartChat(w, u) \/ PostFile(w, u) \/ ReadChat(w, u)
            \/ \E attaching \in BOOLEAN : PostText(w, u, attaching)
            \/ \E m \in DOMAIN messages : LoadEdit(w, u, m)
       \/ CreateChat(w) \/ Link(w) \/ TakeBack(w) \/ Drop(w)
       \/ SaveEdit(w) \/ Mark(w) \/ List(w)

Spec == Init /\ [][Next]_chatVars

-----------------------------------------------------------------------------
(* Properties *)

\* Two users have one chat, whoever starts it and however the starts cross
\* (get_or_create_indivisual_Chat): otherwise each would write where the other does
\* not read.
OneChat == Cardinality(chats) <= 1

\* A message counts as seen only if its reader was shown it, or said it was seen: none
\* that arrives while a chat is being read is marked unread by anybody
\* (_get_messages_sync evaluates its query after the UPDATE).
SeenWasShown ==
  \A u \in User, m \in DOMAIN messages :
    messages[m].by # u /\ messages[m].seen =>
      m <= told[u] \/ \E w \in Worker : At(w, "list") /\ ctask[w].by = u

\* What was sent and what was read stays so: an attachment keeps its place once it has
\* one, though a deletion that crossed the sending may remove it, and no edit makes a
\* message unseen (_get_unlinked_attachments_queryset, edit_message).
NothingUndone ==
  [][ /\ link \in (0..MaxPosts) => link' \in {link, Gone}
      /\ \A m \in DOMAIN messages : messages[m].seen => messages'[m].seen ]_chatVars
=============================================================================
