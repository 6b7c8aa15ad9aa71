-------------------------- MODULE TaskEditingProofs --------------------------
(***************************************************************************)
(* For any tasks, fields, values and number of calls: while the user does  *)
(* one thing after the other, what the modal shows is what its version     *)
(* stands for, and no save replaces a value the user has not seen.         *)
(*                                                                         *)
(* Such a user has one call under way at most.  A save under way carries   *)
(* the version and the values of the store, because nothing changes the    *)
(* store before its answer.  If the server accepts it, the versions agree, *)
(* so the store shows the row, and what the user saw is what is replaced.  *)
(***************************************************************************)
EXTENDS TaskEditing, TLAPS

\* What every kind of call carries.
LEMMA CallKinds ==
  ASSUME NEW m \in Call
  PROVE  /\ m.type = "get" => m.id \in Task
         /\ m.type = "task" => m.task \in Shown
         /\ m.type = "patch" =>
              m \in [type: {"patch"}, id: Task, field: Field, value: Value, seen: Value,
                     version: 1..MaxVersion, mounted: BOOLEAN]
         /\ m.type = "saved" =>
              m \in [type: {"saved"}, field: Field, value: Value,
                     version: 1..MaxVersion, mounted: BOOLEAN]
         /\ m.type \in {"get", "task", "patch", "saved", "conflict"}
  BY DEF Call

LEMMA UnmountedType ==
  ASSUME NEW m \in Call
  PROVE  Unmounted(m) \in Call
<1>1. CASE m.type = "patch"
  BY <1>1, CallKinds DEF Unmounted, Call
<1>2. CASE m.type = "saved"
  BY <1>2, CallKinds DEF Unmounted, Call
<1>3. CASE m.type \notin {"patch", "saved"}
  BY <1>3 DEF Unmounted
<1>. QED BY <1>1, <1>2, <1>3

LEMMA RowFields ==
  ASSUME TypeOK, NEW t \in Task
  PROVE  /\ tasks[t] \in Row
         /\ tasks[t].val \in [Field -> Value] /\ tasks[t].version \in 1..MaxVersion
  BY DEF TypeOK, Row

LEMMA EditedType ==
  ASSUME TypeOK, NEW t \in Task, NEW f \in Field, NEW v \in Value,
         Edited(tasks[t], f, v).version <= MaxVersion
  PROVE  /\ Edited(tasks[t], f, v) \in Row
         /\ Edited(tasks[t], f, v).val = [tasks[t].val EXCEPT ![f] = v]
         /\ Edited(tasks[t], f, v).version =
              IF Bumps(tasks[t], f, v) THEN tasks[t].version + 1 ELSE tasks[t].version
<1>1. /\ Edited(tasks[t], f, v).val = [tasks[t].val EXCEPT ![f] = v]
      /\ Edited(tasks[t], f, v).version =
           IF Bumps(tasks[t], f, v) THEN tasks[t].version + 1 ELSE tasks[t].version
  BY DEF Edited
<1>2. /\ Edited(tasks[t], f, v).val \in [Field -> Value]
      /\ Edited(tasks[t], f, v).version \in 1..MaxVersion
  BY <1>1, RowFields, TaskEditingAssumption
<1>3. Edited(tasks[t], f, v) =
        [val |-> Edited(tasks[t], f, v).val, version |-> Edited(tasks[t], f, v).version]
  BY DEF Edited
<1>. QED BY <1>1, <1>2, <1>3 DEF Row

LEMMA InitType == Init => TypeOK
<1>. SUFFICES ASSUME Init PROVE TypeOK
  OBVIOUS
<1>1. PICK v \in Value :
        tasks = [t \in Task |-> [val |-> [f \in Field |-> v], version |-> 1]]
  BY DEF Init
<1>2. [val |-> [f \in Field |-> v], version |-> 1] \in Row
  BY TaskEditingAssumption DEF Row
<1>. QED BY <1>1, <1>2, TaskEditingAssumption DEF Init, TypeOK, Closed

LEMMA TypeStep == TypeOK /\ [Next]_vars => TypeOK'
<1>. SUFFICES ASSUME TypeOK, [Next]_vars PROVE TypeOK'
  OBVIOUS
<1>. USE TaskEditingAssumption
<1>1. ASSUME NEW t \in Task, OpenModal(t) PROVE TypeOK'
  <2>1. [type |-> "get", id |-> t] \in Call
    BY DEF Call
  <2>. QED BY <1>1, <2>1 DEF OpenModal, GoesOn, TypeOK
<1>2. CASE CloseModal
  <2>1. calls' \subseteq Call
    BY <1>2, UnmountedType DEF CloseModal, TypeOK
  <2>. QED BY <1>2, <2>1 DEF CloseModal, Closed, GoesOn, TypeOK
<1>3. ASSUME NEW f \in Text, OpenForm(f) PROVE TypeOK'
  <2>1. store.id \in Task /\ store.val[f] \in Value
    BY <1>3 DEF OpenForm, TypeOK, Shown, Field
  <2>2. [id |-> store.id, seen |-> store.val[f]] \in Form
    BY <2>1 DEF Form
  <2>. QED BY <1>3, <2>2 DEF OpenForm, TypeOK
<1>4. ASSUME NEW f \in Text, CloseForm(f) PROVE TypeOK'
  BY <1>4 DEF CloseForm, TypeOK
<1>5. ASSUME NEW f \in Field, NEW v \in Value, NEW seen \in Value, store # Null,
             Save(f, v, seen)
      PROVE  TypeOK'
  <2>1. store.id \in Task /\ store.version \in 1..MaxVersion
    BY <1>5 DEF TypeOK, Shown
  <2>2. [type |-> "patch", id |-> store.id, field |-> f, value |-> v, seen |-> seen,
         version |-> store.version, mounted |-> TRUE] \in Call
    BY <2>1 DEF Call
  <2>. QED BY <1>5, <2>2 DEF Save, GoesOn, TypeOK
<1>6. ASSUME NEW f \in Text, NEW v \in Value, UpdateText(f, v) PROVE TypeOK'
  <2>1. f \in Field /\ form[f].seen \in Value
    BY <1>6 DEF UpdateText, TypeOK, Form, Field
  <2>. QED BY <1>5, <1>6, <2>1 DEF UpdateText
<1>7. ASSUME NEW v \in Value, ChangeStatus(v) PROVE TypeOK'
  <2>1. Status \in Field /\ store.val[Status] \in Value
    BY <1>7 DEF ChangeStatus, TypeOK, Shown, Field
  <2>. QED BY <1>5, <1>7, <2>1 DEF ChangeStatus
<1>8. ASSUME NEW m \in calls, SetTask(m) PROVE TypeOK'
  <2>1. m.task \in Shown
    BY <1>8, CallKinds DEF SetTask, TypeOK
  <2>2. form' \in [Text -> Form \cup {Null}]
    BY <1>8 DEF SetTask, TypeOK
  <2>3. store' = m.task /\ store' # Null
    BY <1>8, <2>1 DEF SetTask
  <2>4. \A f \in Text : form'[f] # Null => form'[f].id = store'.id
    BY <1>8, <2>3 DEF SetTask, IsOpenFor
  <2>. QED BY <1>8, <2>1, <2>2, <2>3, <2>4 DEF SetTask, TypeOK
<1>9. ASSUME NEW m \in calls, ReceiveSaved(m) PROVE TypeOK'
  <2>1. m.field \in Field /\ m.value \in Value /\ m.version \in 1..MaxVersion
    BY <1>9, CallKinds DEF ReceiveSaved, TypeOK
  <2>2. store # Null => /\ Taken(store, m) \in Shown
                        /\ Taken(store, m).id = store.id
    BY <2>1 DEF Taken, TypeOK, Shown
  <2>3. form' \in [Text -> Form \cup {Null}]
        /\ \A f \in Text : form'[f] # Null => form'[f] = form[f]
    BY <1>9 DEF ReceiveSaved, TypeOK
  <2>4. store' = IF store = Null THEN Null ELSE Taken(store, m)
    BY <1>9 DEF ReceiveSaved
  <2>5. store' \in Shown \cup {Null}
    BY <2>2, <2>4
  <2>6. \A f \in Text : form'[f] # Null => store' # Null /\ form'[f].id = store'.id
    BY <2>2, <2>3, <2>4 DEF TypeOK
  <2>. QED BY <1>9, <2>3, <2>5, <2>6 DEF ReceiveSaved, TypeOK
<1>10. ASSUME NEW m \in calls, ReceiveError(m) PROVE TypeOK'
  BY <1>10 DEF ReceiveError, TypeOK
<1>11. ASSUME NEW m \in calls, ShowTask(m) PROVE TypeOK'
  <2>1. m.id \in Task
    BY <1>11, CallKinds DEF ShowTask, TypeOK
  <2>2. [id |-> m.id, val |-> tasks[m.id].val, version |-> tasks[m.id].version] \in Shown
    BY <2>1, RowFields DEF Shown
  <2>3. [type |-> "task", task |-> [id |-> m.id, val |-> tasks[m.id].val,
                                    version |-> tasks[m.id].version]] \in Call
    BY <2>2 DEF Call
  <2>. QED BY <1>11, <2>3 DEF ShowTask, TypeOK
<1>12. ASSUME NEW m \in calls, UpdateTask(m) PROVE TypeOK'
  <2>1. /\ m.id \in Task /\ m.field \in Field /\ m.value \in Value
        /\ m.mounted \in BOOLEAN
    BY <1>12, CallKinds DEF UpdateTask, TypeOK
  <2>. DEFINE row == Edited(tasks[m.id], m.field, m.value)
              saved == [type |-> "saved", field |-> m.field, value |-> m.value,
                        version |-> row.version, mounted |-> m.mounted]
              conflict == [type |-> "conflict"]
  <2>2. CASE Matches(tasks[m.id], m)
    <3>1. row.version <= MaxVersion
      BY <1>12, <2>2 DEF UpdateTask
    <3>2. row \in Row /\ row.version \in 1..MaxVersion
      BY <2>1, <3>1, EditedType DEF Row
    <3>3. saved \in Call
      BY <2>1, <3>2 DEF Call
    <3>. QED BY <1>12, <2>1, <2>2, <3>2, <3>3 DEF UpdateTask, TypeOK
  <2>3. CASE ~Matches(tasks[m.id], m)
    <3>1. conflict \in Call
      BY DEF Call
    <3>. QED BY <1>12, <2>3, <3>1 DEF UpdateTask, TypeOK
  <2>. QED BY <2>2, <2>3
<1>13. ASSUME NEW t \in Task, NEW f \in Field, NEW v \in Value, EditElsewhere(t, f, v)
       PROVE  TypeOK'
  <2>1. Edited(tasks[t], f, v) \in Row
    <3>1. Edited(tasks[t], f, v).version <= MaxVersion
      BY <1>13, RowFields DEF EditElsewhere
    <3>. QED BY <3>1, EditedType
  <2>. QED BY <1>13, <2>1 DEF EditElsewhere, TypeOK
<1>14. CASE UNCHANGED vars
  BY <1>14 DEF vars, TypeOK
<1>. QED
  BY <1>1, <1>2, <1>3, <1>4, <1>6, <1>7, <1>8, <1>9, <1>10, <1>11, <1>12, <1>13, <1>14
  DEF Next, UserStep
\* For all tasks, fields and values, a form is only ever open for the task shown.
THEOREM TypeCorrect == Spec => []TypeOK
  BY InitType, TypeStep, PTL DEF Spec

-----------------------------------------------------------------------------
(* A user who does one thing after the other.                              *)

\* What is shown is older than the row, or is the row.
Current(rows, shown) ==
  /\ shown.version <= rows[shown.id].version
  /\ shown.version = rows[shown.id].version => shown.val = rows[shown.id].val

\* A call under way, of a user who waits for it.
Awaited(rows, s, m) ==
  /\ m.type = "get" => s = Null
  /\ m.type = "task" => s = Null /\ Current(rows, m.task)
  /\ m.type = "patch" =>
       /\ s # Null
       /\ m.id = s.id /\ m.version = s.version
       /\ m.seen = s.val[m.field] /\ m.mounted
  /\ m.type = "saved" =>
       /\ s # Null /\ m.mounted
       /\ Current(rows, Taken(s, m))

Calm ==
  /\ \A m, n \in calls : m = n
  /\ store # Null => Current(tasks, store)
  /\ \A f \in Text : form[f] # Null => form[f].seen = store.val[f]
  /\ \A m \in calls : Awaited(tasks, store, m)

Inv == TypeOK /\ (~hasty => Calm)

\* The row of an accepted save is what the modal shows.
LEMMA AcceptedIsShown ==
  ASSUME TypeOK, Calm, NEW m \in calls, m.type = "patch", Matches(tasks[m.id], m)
  PROVE  /\ store # Null /\ m.id = store.id
         /\ tasks[m.id].val = store.val /\ m.seen = tasks[m.id].val[m.field]
  BY DEF Calm, Awaited, Current, Matches

LEMMA ShownType ==
  ASSUME TypeOK, NEW s \in Shown
  PROVE  /\ s.id \in Task /\ s.version \in Nat /\ s.val \in [Field -> Value]
         /\ tasks[s.id].version \in Nat /\ tasks[s.id].val \in [Field -> Value]
  BY RowFields, TaskEditingAssumption DEF Shown

LEMMA CalmStep ==
  ASSUME TypeOK, TypeOK', Calm, [Next]_vars, ~hasty'
  PROVE  Calm'
<1>. USE TaskEditingAssumption
<1>1. ASSUME NEW t \in Task, OpenModal(t) PROVE Calm'
  <2>1. calls = {} /\ calls' = {[type |-> "get", id |-> t]}
    BY <1>1 DEF OpenModal, GoesOn
  <2>. QED BY <1>1, <2>1 DEF OpenModal, Calm, Awaited
<1>2. CASE CloseModal
  <2>1. calls' = {} /\ store' = Null /\ \A f \in Text : form'[f] = Null
    BY <1>2 DEF CloseModal, GoesOn, Closed
  <2>. QED BY <2>1 DEF Calm
<1>3. ASSUME NEW f \in Text, OpenForm(f) PROVE Calm'
  <2>1. UNCHANGED <<tasks, store, calls>>
    BY <1>3 DEF OpenForm
  <2>2. \A g \in Text : form'[g] # Null => form'[g].seen = store.val[g]
    BY <1>3 DEF OpenForm, Calm, TypeOK
  <2>. QED BY <2>1, <2>2 DEF Calm, Current, Awaited
<1>4. ASSUME NEW f \in Text, CloseForm(f) PROVE Calm'
  <2>1. UNCHANGED <<tasks, store, calls>>
    BY <1>4 DEF CloseForm
  <2>2. \A g \in Text : form'[g] # Null => form'[g].seen = store.val[g]
    BY <1>4 DEF CloseForm, Calm, TypeOK
  <2>. QED BY <2>1, <2>2 DEF Calm, Current, Awaited
<1>5. ASSUME NEW f \in Field, NEW v \in Value, store # Null,
             Save(f, v, store.val[f])
      PROVE  Calm'
  <2>. DEFINE m == [type |-> "patch", id |-> store.id, field |-> f, value |-> v,
                    seen |-> store.val[f], version |-> store.version, mounted |-> TRUE]
  <2>1. calls' = {m} /\ UNCHANGED <<tasks, store, form>>
    BY <1>5 DEF Save, GoesOn
  <2>2. Awaited(tasks, store, m)
    BY <1>5 DEF Awaited
  <2>. HIDE DEF m
  <2>3. Awaited(tasks', store', m)
    BY <2>1, <2>2 DEF Awaited, Current, m
  <2>. QED BY <2>1, <2>3 DEF Calm, Current
<1>6. ASSUME NEW f \in Text, NEW v \in Value, UpdateText(f, v) PROVE Calm'
  <2>1. f \in Field /\ form[f].seen = store.val[f] /\ store # Null
    BY <1>6 DEF UpdateText, Calm, Field
  <2>. QED BY <1>5, <1>6, <2>1 DEF UpdateText
<1>7. ASSUME NEW v \in Value, ChangeStatus(v) PROVE Calm'
  BY <1>5, <1>7 DEF ChangeStatus, Field
<1>8. ASSUME NEW m \in calls, SetTask(m) PROVE Calm'
  <2>1. store = Null /\ Current(tasks, m.task) /\ calls' = {}
        /\ store' = m.task /\ tasks' = tasks
    BY <1>8 DEF SetTask, Calm, Awaited
  <2>2. \A f \in Text : form'[f] = Null
    BY <1>8, <2>1 DEF SetTask, IsOpenFor, TypeOK
  <2>. QED BY <2>1, <2>2 DEF Calm, Current
<1>9. ASSUME NEW m \in calls, ReceiveSaved(m) PROVE Calm'
  <2>1. /\ store # Null /\ m.mounted /\ Current(tasks, Taken(store, m))
        /\ store' = Taken(store, m) /\ calls' = {} /\ tasks' = tasks
    BY <1>9 DEF ReceiveSaved, Calm, Awaited
  <2>2. m.field \in Field
    BY <1>9, CallKinds DEF ReceiveSaved, TypeOK
  <2>3. \A f \in Text : f # m.field => store'.val[f] = store.val[f]
    BY <2>1, <2>2 DEF Taken, TypeOK, Shown, Field
  <2>4. \A f \in Text : form'[f] # Null => f # m.field /\ form'[f] = form[f]
    BY <1>9, <2>1 DEF ReceiveSaved, TypeOK
  <2>. QED BY <2>1, <2>3, <2>4 DEF Calm, Current
<1>10. ASSUME NEW m \in calls, ReceiveError(m) PROVE Calm'
  <2>1. calls' = {} /\ UNCHANGED <<tasks, store, form>>
    BY <1>10 DEF ReceiveError, Calm
  <2>. QED BY <2>1 DEF Calm, Current
<1>11. ASSUME NEW m \in calls, ShowTask(m) PROVE Calm'
  <2>. DEFINE shown == [id |-> m.id, val |-> tasks[m.id].val,
                        version |-> tasks[m.id].version]
              answer == [type |-> "task", task |-> shown]
  <2>1. store = Null /\ calls' = {answer} /\ UNCHANGED <<tasks, store, form>>
    BY <1>11 DEF ShowTask, Calm, Awaited
  <2>2. m.id \in Task
    BY <1>11, CallKinds DEF ShowTask, TypeOK
  <2>3. Current(tasks', shown)
    BY <2>1, <2>2, RowFields DEF Current
  <2>4. Awaited(tasks', store', answer)
    BY <2>1, <2>3 DEF Awaited
  <2>. HIDE DEF answer
  <2>. QED BY <2>1, <2>4 DEF Calm, Current
<1>12. ASSUME NEW m \in calls, UpdateTask(m) PROVE Calm'
  <2>1. /\ m.id \in Task /\ m.field \in Field /\ m.value \in Value /\ m.type = "patch"
        /\ UNCHANGED <<store, form>>
    BY <1>12, CallKinds DEF UpdateTask, TypeOK
  <2>2. CASE ~Matches(tasks[m.id], m)
    <3>. DEFINE conflict == [type |-> "conflict"]
    <3>1. calls' = {conflict} /\ tasks' = tasks
      BY <1>12, <2>2 DEF UpdateTask, Calm
    <3>2. Awaited(tasks', store', conflict)
      BY DEF Awaited
    <3>. HIDE DEF conflict
    <3>. QED BY <2>1, <3>1, <3>2 DEF Calm, Current
  <2>3. CASE Matches(tasks[m.id], m)
    <3>. DEFINE row == Edited(tasks[m.id], m.field, m.value)
                saved == [type |-> "saved", field |-> m.field, value |-> m.value,
                          version |-> row.version, mounted |-> m.mounted]
    <3>1. /\ calls' = {saved} /\ tasks' = [tasks EXCEPT ![m.id] = row]
          /\ row.version <= MaxVersion
      BY <1>12, <2>3 DEF UpdateTask, Calm
    <3>2. /\ store # Null /\ m.id = store.id /\ m.mounted
          /\ tasks[m.id].val = store.val /\ store.version = tasks[m.id].version
      BY <2>1, <2>3, AcceptedIsShown DEF Calm, Awaited, Matches
    <3>3. /\ row.val = [store.val EXCEPT ![m.field] = m.value]
          /\ row.version = IF Bumps(tasks[m.id], m.field, m.value)
                           THEN store.version + 1 ELSE store.version
      BY <2>1, <3>1, <3>2, EditedType
    <3>4. /\ tasks'[store.id] = row /\ store \in Shown
          /\ store.val \in [Field -> Value] /\ store.version \in Nat
      BY <2>1, <3>1, <3>2, ShownType DEF TypeOK
    <3>. HIDE DEF row
    <3>5. Current(tasks', store)
      <4>1. CASE Bumps(tasks[m.id], m.field, m.value)
        BY <2>1, <3>3, <3>4, <4>1 DEF Current
      <4>2. CASE ~Bumps(tasks[m.id], m.field, m.value)
        <5>1. store.val[m.field] = m.value
          BY <3>2, <4>2 DEF Bumps
        <5>2. row.val = store.val
          BY <2>1, <3>3, <3>4, <5>1
        <5>. QED BY <2>1, <3>3, <3>4, <4>2, <5>2 DEF Current
      <4>. QED BY <4>1, <4>2
    <3>6. /\ Taken(store, saved).id = store.id
          /\ Taken(store, saved).version = row.version
          /\ Taken(store, saved).val = row.val
      BY <3>3, <3>4 DEF Taken, Shown
    <3>7. row.version \in Nat
      BY <3>3, <3>4
    <3>8. Current(tasks', Taken(store, saved))
      BY <2>1, <3>4, <3>6, <3>7 DEF Current
    <3>9. Awaited(tasks', store', saved)
      BY <2>1, <3>2, <3>8 DEF Awaited
    <3>. HIDE DEF saved
    <3>. QED BY <2>1, <3>1, <3>5, <3>9 DEF Calm
  <2>. QED BY <2>2, <2>3
<1>13. ASSUME NEW t \in Task, NEW f \in Field, NEW v \in Value, EditElsewhere(t, f, v)
       PROVE  Calm'
  <2>. DEFINE row == Edited(tasks[t], f, v)
  <2>1. /\ tasks' = [tasks EXCEPT ![t] = row]
        /\ row.version > tasks[t].version /\ row.version \in Nat
        /\ UNCHANGED <<store, form, calls>>
    BY <1>13, RowFields DEF EditElsewhere
  <2>2. ASSUME NEW s, s.id \in Task, s.version \in Nat, Current(tasks, s) PROVE Current(tasks', s)
    <3>1. CASE s.id = t
      BY <2>1, <2>2, <3>1, RowFields DEF Current, TypeOK
    <3>2. CASE s.id # t
      BY <2>1, <2>2, <3>2 DEF Current, TypeOK
    <3>. QED BY <3>1, <3>2
  <2>3. store # Null => Current(tasks', store)
    BY <2>2, ShownType DEF Calm, TypeOK
  <2>4. ASSUME NEW m \in calls PROVE Awaited(tasks', store', m)
    <3>1. m.type = "task" => Current(tasks', m.task)
      BY <2>2, ShownType, CallKinds DEF Calm, Awaited, TypeOK
    <3>2. ASSUME m.type = "saved" PROVE Current(tasks', Taken(store, m))
      <4>1. /\ store # Null /\ Current(tasks, Taken(store, m)) /\ store \in Shown
            /\ m.version \in Nat
        BY <3>2, CallKinds DEF Calm, Awaited, TypeOK
      <4>2. Taken(store, m).id \in Task /\ Taken(store, m).version \in Nat
        BY <4>1 DEF Taken, Shown
      <4>. QED BY <2>2, <4>1, <4>2
    <3>. QED BY <2>1, <3>1, <3>2 DEF Calm, Awaited
  <2>. QED BY <2>1, <2>3, <2>4 DEF Calm
<1>14. CASE UNCHANGED vars
  BY <1>14 DEF vars, Calm, Current, Awaited, Taken
<1>. QED
  BY <1>1, <1>2, <1>3, <1>4, <1>6, <1>7, <1>8, <1>9, <1>10, <1>11, <1>12, <1>13, <1>14
  DEF Next, UserStep

LEMMA Invariance == Spec => []Inv
<1>1. Init => Inv
  BY InitType DEF Init, Inv, Calm, Closed
<1>2. Inv /\ [Next]_vars => Inv'
  <2>. SUFFICES ASSUME Inv, [Next]_vars PROVE Inv'
    OBVIOUS
  <2>1. TypeOK'
    BY TypeStep DEF Inv
  <2>2. hasty => hasty'
    BY DEF Next, UserStep, vars, OpenModal, CloseModal, OpenForm, CloseForm, UpdateText,
       ChangeStatus, Save, GoesOn, SetTask, ReceiveSaved, ReceiveError, ShowTask,
       UpdateTask, EditElsewhere
  <2>. QED BY <2>1, <2>2, CalmStep DEF Inv
<1>. QED BY <1>1, <1>2, PTL DEF Spec

\* For all tasks, fields and values, what the modal shows such a user is what its
\* version stands for.
THEOREM VersionStandsForShown == Spec => []ShownIsCurrent
  BY Invariance, PTL DEF Inv, Calm, Current, ShownIsCurrent

\* For all tasks, fields, values and edits of others, a save of such a user that
\* the server accepts replaces what the user has seen.
THEOREM PatientUsersOverwriteNothing == Spec => PatientEditsAreSafe
<1>. DEFINE A == ~hasty => \A m \in calls : ~Overwrites(m)
<1>1. Inv => A
  <2>. SUFFICES ASSUME Inv, ~hasty, NEW m \in calls, Overwrites(m) PROVE FALSE
    OBVIOUS
  <2>1. m.type = "patch" /\ Matches(tasks[m.id], m)
    BY DEF Overwrites, UpdateTask
  <2>. QED BY <2>1, AcceptedIsShown DEF Inv, Overwrites
<1>. QED BY <1>1, Invariance, PTL DEF PatientEditsAreSafe
=============================================================================
