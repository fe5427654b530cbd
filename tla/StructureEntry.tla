--------------------------- MODULE StructureEntry ---------------------------
(***************************************************************************)
(* One row of the unified table of structures (src/infra_forms: the          *)
(* viewsets of the BOQ, LiDAR and SAR modules, the unified one, the Excel     *)
(* import, service_state_sync.py).  Each module owns two columns and a flag   *)
(* of the shared row; the same content is kept again as rows of              *)
(* StructureEntryServiceState, one per service type, built-in or added.       *)
(*                                                                         *)
(* A request loads the row and writes every column of its copy later; only   *)
(* the smart delete writes the columns of its module alone.  The module       *)
(* endpoints mirror the columns into states in a second transaction.          *)
(***************************************************************************)
EXTENDS Naturals, FiniteSets

CONSTANTS Module,         \* the built-in modules: boq, lidar, sar
          Extra,          \* service types beyond the three built-in ones
          Worker, Idle, None

Code == Module \cup Extra

\* What a status and remark amount to; a state row may exist without any.
Content == {"blank", "filled"}
Columns == [col : [Module -> Content], has : [Module -> BOOLEAN]]

VARIABLES struct,   \* the row, None where there is none
          state,    \* state[c]: the state row of service type c, None if there is none
          types,    \* service types that exist, and whether they are active
          task,     \* what each worker has loaded
          made,     \* bound: the row has been created
          behind    \* history: the row was last saved while a mirroring was due, or the
                    \* mirroring due since has been lost

structVars == <<struct, state, types, task, made, behind>>

TypeOK ==
  /\ struct \in Columns \cup {None}
  /\ state \in [Code -> Content \cup {None}]
  /\ types \in [Extra -> {"active", "inactive", "gone"}]
  /\ struct = None => \A c \in Code : state[c] = None

NoStates == [c \in Code |-> None]

Init ==
  /\ struct = None /\ state = NoStates /\ made = FALSE /\ behind = FALSE
  /\ types = [c \in Extra |-> "active"]
  /\ task = [w \in Worker |-> Idle]

-----------------------------------------------------------------------------
(* service_state_sync.py *)

\* The columns are the source: a module with neither flag nor content loses its
\* state row.
Mirrored(row, s) ==
  [c \in Code |-> IF c \notin Module THEN s[c]
                  ELSE IF row.has[c] \/ row.col[c] = "filled" THEN row.col[c]
                  ELSE None]

\* The state rows are the source: a module without content loses its flag.
FromStates(s) ==
  [col |-> [m \in Module |-> IF s[m] = None THEN "blank" ELSE s[m]],
   has |-> [m \in Module |-> s[m] = "filled"]]

Usable == Module \cup {c \in Extra : types[c] = "active"}

\* PATCH semantics: the codes listed are written, the others stay.
Upserted(s, items) == [c \in Code |-> IF c \in DOMAIN items THEN items[c] ELSE s[c]]

-----------------------------------------------------------------------------
(* serializers.py: what a request makes of the row it has loaded *)

Blank == [col |-> [m \in Module |-> "blank"], has |-> [m \in Module |-> FALSE]]

\* A module's serializer: its columns, as far as given, and its flag.
ByModule(row, m, c) ==
  [col |-> IF c = None THEN row.col ELSE [row.col EXCEPT ![m] = c],
   has |-> [row.has EXCEPT ![m] = TRUE]]

\* The unified serializer's triples set every module's columns and flag.
ByTriples(t) == [col |-> t, has |-> [m \in Module |-> t[m] = "filled"]]

Visible == struct # None /\ (\E m \in Module : struct.has[m] \/ \E c \in Code : state[c] # None)

Finish(w) == task' = [task EXCEPT ![w] = Idle]

Unmirrored == \E w \in Worker : task[w] # Idle /\ task[w].op = "mirror"

\* Items of a services payload; several in one payload are written one after the
\* other, so that payloads of one item reach the same rows.
Items == UNION {[{c} -> Content] : c \in Code}

-----------------------------------------------------------------------------
(* Creation: by a module (one request, or a row of an imported sheet) and by     *)
(* the unified endpoint, where something has to be filled.                      *)

\* The module's row is stored first and mirrored in a second step.
CreateByModule(w, m, c) ==
  /\ task[w] = Idle /\ ~made
  /\ struct' = ByModule(Blank, m, c) /\ made' = TRUE
  /\ task' = [task EXCEPT ![w] = [op |-> "mirror", row |-> struct']]
  /\ UNCHANGED <<state, types, behind>>

\* All rows of a sheet are stored and mirrored in one transaction, or none.
ImportSheet(m, c) ==
  /\ ~made
  /\ struct' = ByModule(Blank, m, c) /\ made' = TRUE
  /\ state' = Mirrored(struct', NoStates)
  /\ UNCHANGED <<types, task, behind>>

CreateUnified(t) ==
  /\ ~made /\ \E m \in Module : t[m] = "filled"
  /\ struct' = ByTriples(t) /\ made' = TRUE
  /\ state' = Mirrored(struct', NoStates)
  /\ UNCHANGED <<types, task, behind>>

CreateByServices(items) ==
  /\ ~made
  /\ \E c \in DOMAIN items : items[c] = "filled"
  /\ DOMAIN items \subseteq Usable
  /\ state' = Upserted(NoStates, items)
  /\ struct' = FromStates(state') /\ made' = TRUE
  /\ UNCHANGED <<types, task, behind>>

-----------------------------------------------------------------------------
(* Changes: the row is loaded with the request ... *)

LoadByModule(w, op, m) ==
  /\ task[w] = Idle /\ struct # None /\ struct.has[m]
  /\ task' = [task EXCEPT ![w] = [op |-> op, by |-> m, row |-> struct]]
  /\ UNCHANGED <<struct, state, types, made, behind>>

LoadUnified(w) ==
  /\ task[w] = Idle /\ Visible
  /\ task' = [task EXCEPT ![w] = [op |-> "unified", row |-> struct]]
  /\ UNCHANGED <<struct, state, types, made, behind>>

\* ... and saved whole: if it has been deleted meanwhile, it is there again.
SaveByModule(w, c) ==
  /\ task[w] # Idle /\ task[w].op = "update"
  /\ struct' = ByModule(task[w].row, task[w].by, c)
  /\ task' = [task EXCEPT ![w] = [op |-> "mirror", row |-> struct']]
  /\ behind' = Unmirrored
  /\ UNCHANGED <<state, types, made>>

\* The second transaction of a module's request; without the row its states would
\* refer to nothing, and the request fails.
Mirror(w) ==
  /\ task[w] # Idle /\ task[w].op = "mirror"
  /\ state' = IF struct = None THEN state ELSE Mirrored(task[w].row, state)
  /\ Finish(w) /\ UNCHANGED <<struct, types, made, behind>>

\* The unified endpoint saves and mirrors in one transaction; t is None where the
\* request leaves the columns alone.
SaveUnified(w, t) ==
  /\ task[w] # Idle /\ task[w].op = "unified"
  /\ struct' = IF t = None THEN task[w].row ELSE ByTriples(t)
  /\ state' = Mirrored(struct', state)
  /\ behind' = Unmirrored
  /\ Finish(w) /\ UNCHANGED <<types, made>>

\* An unknown or inactive code undoes the request.
SaveByServices(w, items) ==
  /\ task[w] # Idle /\ task[w].op = "unified"
  /\ IF DOMAIN items \subseteq Usable
     THEN state' = Upserted(state, items) /\ struct' = FromStates(state') /\ behind' = Unmirrored
     ELSE UNCHANGED <<state, struct, behind>>
  /\ Finish(w) /\ UNCHANGED <<types, made>>

\* gunicorn kills a process between the statements or transactions of a request.
Kill(w) ==
  /\ task[w] # Idle /\ Finish(w)
  /\ behind' = (behind \/ task[w].op = "mirror")
  /\ UNCHANGED <<struct, state, types, made>>

-----------------------------------------------------------------------------
(* Deletion *)

Without(m) == [state EXCEPT ![m] = None]

\* The columns and flag of module m, written alone.
Released(row, m) == [col |-> [row.col EXCEPT ![m] = "blank"], has |-> [row.has EXCEPT ![m] = FALSE]]

\* Mutant of Unowned: the flags of the loaded row decide alone.
UnownedByFlags(row, s) == \A m \in Module : ~row.has[m]

\* No module's flag, on the loaded row, and no state row, in the table, is left.
Unowned(row, s) == (\A m \in Module : ~row.has[m]) /\ \A c \in Code : s[c] = None

\* A row nobody owns goes, with every state row still on it.
Release(m, row) ==
  IF Unowned(row, Without(m)) THEN struct' = None /\ state' = NoStates
  ELSE struct' = Released(struct, m) /\ state' = Without(m)

\* perform_destroy, one transaction; row is the copy it has loaded.
Destroy(w) ==
  /\ task[w] # Idle /\ task[w].op = "destroy"
  /\ LET m == task[w].by IN
       IF struct = None THEN UNCHANGED <<struct, state>>
       ELSE Release(m, Released(task[w].row, m))
  /\ Finish(w) /\ UNCHANGED <<types, made, behind>>

\* delete_all: the same for every row of the module, and rows nobody owns.
DeleteAll(m) ==
  /\ struct # None /\ struct.has[m]
  /\ Release(m, Released(struct, m))
  /\ UNCHANGED <<types, task, made, behind>>

DestroyUnified ==
  /\ Visible
  /\ struct' = None /\ state' = NoStates
  /\ UNCHANGED <<types, task, made, behind>>

\* A service type is switched on or off, or deleted with its state rows.  The
\* three built-in types are taken to stay.
ChangeType(c, a) ==
  /\ types[c] # "gone"
  /\ types' = [types EXCEPT ![c] = a]
  /\ state' = IF a = "gone" THEN [state EXCEPT ![c] = None] ELSE state
  /\ UNCHANGED <<struct, task, made, behind>>

Triples == [Module -> Content]

Creations ==
  \/ \E w \in Worker, m \in Module, c \in Content : CreateByModule(w, m, c)
  \/ \E m \in Module, c \in Content : ImportSheet(m, c)
  \/ \E t \in Triples : CreateUnified(t)
  \/ \E items \in Items : CreateByServices(items)

Changes(w) ==
  \/ \E op \in {"update", "destroy"}, m \in Module : LoadByModule(w, op, m)
  \/ LoadUnified(w)
  \/ \E c \in Content \cup {None} : SaveByModule(w, c)
  \/ Mirror(w)
  \/ \E t \in Triples \cup {None} : SaveUnified(w, t)
  \/ \E items \in Items : SaveByServices(w, items)
  \/ Destroy(w)
  \/ Kill(w)

Next ==
  \/ Creations
  \/ \E w \in Worker : Changes(w)
  \/ \E m \in Module : DeleteAll(m)
  \/ DestroyUnified
  \/ \E c \in Extra, a \in {"active", "inactive", "gone"} : ChangeType(c, a)

Spec == Init /\ [][Next]_structVars

-----------------------------------------------------------------------------
(* Properties *)

\* A request of m's endpoint that releases the row.
ReleasedBy(m) ==
  \/ \E w \in Worker : task[w] # Idle /\ task[w].op = "destroy" /\ task[w].by = m /\ Destroy(w)
  \/ DeleteAll(m)

\* "Cross-module data is never destroyed" (views.py): a module's deletion leaves the
\* columns and states of the others as they are, and takes the row away only if no
\* other module has content in it, whatever its loaded copy says.  It cannot see
\* content that is in the columns alone: between the two transactions of a module's
\* own update, or when another save or a killed process came between them.
OthersKept ==
  [][\A m \in Module : ReleasedBy(m) /\ ~Unmirrored /\ ~behind =>
       \A o \in Module \ {m} :
         IF struct' = None THEN struct = None \/ (struct.col[o] = "blank" /\ state[o] = None)
         ELSE struct'.col[o] = struct.col[o] /\ struct'.has[o] = struct.has[o]
              /\ state'[o] = state[o]]_structVars
=============================================================================
