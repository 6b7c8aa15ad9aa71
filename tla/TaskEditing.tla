----------------------------- MODULE TaskEditing -----------------------------
(***************************************************************************)
(* A browser edits the tasks of a project while others edit them too.  The *)
(* browser shows one task at a time, in a modal over one store; every save *)
(* sends the store's version, and the server refuses it if the task has    *)
(* moved on (TaskService::updateTask).  Calls and their answers overlap,   *)
(* are reordered and get lost, and the user may close the modal and open   *)
(* another task meanwhile.  Of the other browsers only the edits that the  *)
(* server has accepted matter to this one.                                 *)
(***************************************************************************)
EXTENDS Naturals, FiniteSets

CONSTANTS
  Task, Null,
  Text,         \* fields edited in a form: title, description
  Status,       \* the field that is set by a click on a value
  Value,        \* values of a field
  MaxVersion,   \* bound on the edits the server accepts
  MaxCalls      \* bound on the calls that are under way

Field == Text \cup {Status}

Row == [val: [Field -> Value], version: 1..MaxVersion]

Shown == [id: Task, val: [Field -> Value], version: 1..MaxVersion]

ASSUME TaskEditingAssumption ==
  /\ Status \notin Text /\ Value # {}
  /\ Null \notin Task \cup Shown
  /\ MaxVersion \in Nat \ {0} /\ MaxCalls \in Nat \ {0}

VARIABLES
  tasks,    \* the rows
  store,    \* the task in the store, if the modal is open
  form,     \* the open forms, by field
  calls,    \* calls and answers under way
  foreign,  \* history: the fields others edited last
  hasty     \* history: the user has gone on while a call was under way

vars == <<tasks, store, form, calls, foreign, hasty>>

\* A form remembers, as history, the value the user saw when it was opened.
Form == [id: Task, seen: Value]

\* mounted: the modal that sent the call is still open.
Call ==
  [type: {"get"}, id: Task]
  \cup [type: {"task"}, task: Shown]
  \cup [type: {"patch"}, id: Task, field: Field, value: Value, seen: Value,
        version: 1..MaxVersion, mounted: BOOLEAN]
  \cup [type: {"saved"}, field: Field, value: Value,
        version: 1..MaxVersion, mounted: BOOLEAN]
  \cup [type: {"conflict"}]

\* A form is open for the task the modal shows, or not at all.
TypeOK ==
  /\ \A f \in Text : form[f] # Null => store # Null /\ form[f].id = store.id
  /\ tasks \in [Task -> Row]
  /\ store \in Shown \cup {Null}
  /\ form \in [Text -> Form \cup {Null}]
  /\ calls \subseteq Call
  /\ foreign \in [Task -> SUBSET Field] /\ hasty \in BOOLEAN

Closed == [f \in Text |-> Null]

Init ==
  /\ \E v \in Value : tasks = [t \in Task |-> [val |-> [f \in Field |-> v], version |-> 1]]
  /\ store = Null
  /\ form = Closed
  /\ calls = {}
  /\ foreign = [t \in Task |-> {}] /\ hasty = FALSE

-----------------------------------------------------------------------------
(* The browser.                                                            *)

CanCall == Cardinality(calls) < MaxCalls

\* The user starts a call, or closes the modal.
GoesOn == hasty' = (hasty \/ calls # {})

\* openModal of Task.vue: a card can be clicked until the modal covers it.
OpenModal(t) ==
  /\ store = Null /\ CanCall
  /\ calls' = calls \cup {[type |-> "get", id |-> t]}
  /\ GoesOn
  /\ UNCHANGED <<tasks, store, form, foreign>>

\* Variant of the next definition: a form does not know its task.
IsOpen(f, t) == form[f] # Null

IsOpenFor(f, t) == form[f] # Null /\ form[f].id = t

\* The answer fills the store, whatever the modal shows by now.
SetTask(m) ==
  /\ m.type = "task"
  /\ store' = m.task
  /\ form' = [f \in Text |-> IF IsOpenFor(f, m.task.id) THEN form[f] ELSE Null]
  /\ calls' = calls \ {m}
  /\ UNCHANGED <<tasks, foreign, hasty>>

\* The answer to a call of a modal that is gone no longer reaches its forms.
Unmounted(m) == IF m.type \in {"patch", "saved"} THEN [m EXCEPT !.mounted = FALSE] ELSE m

CloseModal ==
  /\ store # Null
  /\ store' = Null /\ form' = Closed
  /\ calls' = {Unmounted(m) : m \in calls}
  /\ GoesOn
  /\ UNCHANGED <<tasks, foreign>>

OpenForm(f) ==
  /\ store # Null
  /\ form' = [form EXCEPT ![f] = [id |-> store.id, seen |-> store.val[f]]]
  /\ UNCHANGED <<tasks, store, calls, foreign, hasty>>

CloseForm(f) ==
  /\ form[f] # Null
  /\ form' = [form EXCEPT ![f] = Null]
  /\ UNCHANGED <<tasks, store, calls, foreign, hasty>>

\* The version is the store's at the time of the save.
Save(f, v, seen) ==
  /\ CanCall
  /\ calls' = calls \cup
       {[type |-> "patch", id |-> store.id, field |-> f, value |-> v, seen |-> seen,
         version |-> store.version, mounted |-> TRUE]}
  /\ GoesOn
  /\ UNCHANGED <<tasks, store, form, foreign>>

UpdateText(f, v) ==
  /\ store # Null /\ form[f] # Null
  /\ v # store.val[f]
  /\ Save(f, v, form[f].seen)

ChangeStatus(v) ==
  /\ store # Null
  /\ Save(Status, v, store.val[Status])

\* The store takes over the field that was saved and the version, without a
\* look at the task it shows.
Taken(shown, m) == [shown EXCEPT !.val[m.field] = m.value, !.version = m.version]

ReceiveSaved(m) ==
  /\ m.type = "saved"
  /\ store' = IF store = Null THEN Null ELSE Taken(store, m)
  /\ form' = IF m.mounted /\ m.field \in Text THEN [form EXCEPT ![m.field] = Null] ELSE form
  /\ calls' = calls \ {m}
  /\ UNCHANGED <<tasks, foreign, hasty>>

\* The user is told to refresh, or that a call has failed; the form stays open.
ReceiveError(m) ==
  /\ calls' = calls \ {m}
  /\ UNCHANGED <<tasks, store, form, foreign, hasty>>

-----------------------------------------------------------------------------
(* The server.                                                             *)

ShowTask(m) ==
  /\ m.type = "get"
  /\ calls' = (calls \ {m}) \cup
       {[type |-> "task",
         task |-> [id |-> m.id, val |-> tasks[m.id].val, version |-> tasks[m.id].version]]}
  /\ UNCHANGED <<tasks, store, form, foreign, hasty>>

\* Variant of the next definition: a new status does not count as an edit.
BumpsForText(row, f, v) == f \in Text

\* A text always counts as changed, a status only if it is another one.
Bumps(row, f, v) == f \in Text \/ row.val[f] # v

Edited(row, f, v) ==
  [val |-> [row.val EXCEPT ![f] = v],
   version |-> IF Bumps(row, f, v) THEN row.version + 1 ELSE row.version]

\* Variant of the next definition: an older browser is let through.
MatchesOrOlder(row, m) == m.version <= row.version

Matches(row, m) == m.version = row.version

UpdateTask(m) ==
  /\ m.type = "patch"
  /\ IF Matches(tasks[m.id], m)
     THEN LET row == Edited(tasks[m.id], m.field, m.value) IN
            /\ row.version <= MaxVersion
            /\ tasks' = [tasks EXCEPT ![m.id] = row]
            /\ foreign' = [foreign EXCEPT ![m.id] = @ \ {m.field}]
            /\ calls' = (calls \ {m}) \cup
                 {[type |-> "saved", field |-> m.field, value |-> m.value,
                   version |-> row.version, mounted |-> m.mounted]}
     ELSE /\ calls' = (calls \ {m}) \cup {[type |-> "conflict"]}
          /\ UNCHANGED <<tasks, foreign>>
  /\ UNCHANGED <<store, form, hasty>>

\* The edit of another browser is accepted.
EditElsewhere(t, f, v) ==
  LET row == Edited(tasks[t], f, v) IN
    /\ row.version \in tasks[t].version + 1 .. MaxVersion
    /\ tasks' = [tasks EXCEPT ![t] = row]
    /\ foreign' = [foreign EXCEPT ![t] = @ \cup {f}]
    /\ UNCHANGED <<store, form, calls, hasty>>

-----------------------------------------------------------------------------
UserStep ==
  \/ \E t \in Task : OpenModal(t)
  \/ CloseModal
  \/ \E f \in Text : OpenForm(f) \/ CloseForm(f)
  \/ \E f \in Text, v \in Value : UpdateText(f, v)
  \/ \E v \in Value : ChangeStatus(v)

Next ==
  \/ UserStep
  \/ \E m \in calls : SetTask(m) \/ ReceiveSaved(m) \/ ReceiveError(m)
  \/ \E m \in calls : ShowTask(m) \/ UpdateTask(m)
  \/ \E t \in Task, f \in Field, v \in Value : EditElsewhere(t, f, v)

Spec == Init /\ [][Next]_vars

-----------------------------------------------------------------------------
(* Properties.                                                             *)

\* m is accepted and replaces a value that the user had not seen when they
\* began the edit.
Overwrites(m) ==
  /\ m.type = "patch" /\ UpdateTask(m)
  /\ tasks' # tasks /\ m.seen # tasks[m.id].val[m.field]

\* A user who does one thing after the other never overwrites an edit they have
\* not seen, although calls and answers get lost and others edit the same task
\* at any moment.
PatientEditsAreSafe == [][~hasty => \A m \in calls : ~Overwrites(m)]_vars

\* The version in the store of such a user stands for what the store shows:
\* while it is the task's, so are the fields.
ShownIsCurrent ==
  ~hasty /\ store # Null /\ store.version = tasks[store.id].version
    => store.val = tasks[store.id].val

\* "Submit a stale version and confirm 409 recovery works without silently
\* losing the user's changes" (local-docs/FRONTEND_REMEDIATION_PLAN.md): nobody
\* replaces another user's edit without a conflict.  A late answer puts its
\* version on whatever the modal shows, and under a form that is open.
NoSilentOverwrite ==
  [][\A m \in calls : Overwrites(m) => m.field \notin foreign[m.id]]_vars
=============================================================================
