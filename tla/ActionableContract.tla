------------------------ MODULE ActionableContract ------------------------
(***************************************************************************)
(* What an actionable entry of src/QuaterlyReports promises when its        *)
(* requests do not overlap: the people an entry is shared with finish their *)
(* part, nobody joins once a part is finished, the creator signs the entry  *)
(* off when every part is finished, and a deleted entry stays deleted.      *)
(***************************************************************************)
CONSTANT User

VARIABLES stage,     \* "filed": it was created as completed, nobody signed it
          member,    \* who the entry is shared with
          finished,  \* members whose part is COMPLETED now
          done       \* history: members who have ever completed their part

vars == <<stage, member, finished, done>>

Stage == {"none", "open", "filed", "signed", "gone"}
Alive == {"open", "filed", "signed"}

ContractTypeOK ==
  /\ stage \in Stage
  /\ member \subseteq User
  /\ finished \subseteq member
  /\ done \subseteq User

Init == stage = "none" /\ member = {} /\ finished = {} /\ done = {}

Create ==
  /\ stage = "none"
  /\ stage' \in {"open", "filed"}
  /\ member' \in {{}} \cup {{u} : u \in User}
  /\ UNCHANGED <<finished, done>>

Join(u) ==
  /\ stage = "open"
  /\ finished = {}
  /\ member' = member \cup {u}
  /\ UNCHANGED <<stage, finished, done>>

Work(u) ==
  /\ stage \in Alive
  /\ u \in member
  /\ finished' \in {finished \cup {u}, finished \ {u}}
  /\ done' = done \cup finished'
  /\ UNCHANGED <<stage, member>>

Sign ==
  /\ stage \in Alive
  /\ finished = member
  /\ stage' = "signed"
  /\ UNCHANGED <<member, finished, done>>

Reopen ==
  /\ stage \in Alive
  /\ stage' = "open"
  /\ UNCHANGED <<member, finished, done>>

Delete ==
  /\ stage \in Alive
  /\ stage' = "gone"
  /\ member' = {} /\ finished' = {}
  /\ UNCHANGED done

Next == Create \/ Sign \/ Reopen \/ Delete \/ \E u \in User : Join(u) \/ Work(u)

Spec == Init /\ [][Next]_vars

\* An entry the creator has signed off is shared only with people who have
\* finished their part, however often they reopened it since
\* (FunctionsEntriesSerializer.update and _share_further_sync).
SignedMeansDone == stage = "signed" => member \subseteq done
============================================================================
