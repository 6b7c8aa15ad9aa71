--------------------------- MODULE MeetingContract ---------------------------
(***************************************************************************)
(* What changing a meeting promises, without locks, claims, retries or     *)
(* crashes.  At most one change is wanted at a time and it is recorded     *)
(* before Zoom can see it; Zoom is changed by the recorded change only; a  *)
(* change is confirmed locally only when Zoom shows it, and then locally   *)
(* too; a rolled back change never reached Zoom; a meeting is recorded as  *)
(* deleted only when Zoom no longer has it, and that is final.             *)
(***************************************************************************)
CONSTANTS
  Field,    \* the fields of a meeting
  Val,
  Payload,  \* the changes a user may ask for
  Absent,   \* Zoom does not have the meeting
  Null

VARIABLES
  stage,    \* settled, updating, deleting, review or deleted
  wanted,   \* the recorded change: a payload, Absent for a deletion, or Null
  reached,  \* the recorded change has reached Zoom
  local,    \* the fields of the local meeting
  zoom      \* the fields of Zoom's meeting, or Absent

vars == <<stage, wanted, reached, local, zoom>>

Fields == [Field -> Val]

Init ==
  /\ stage = "settled" /\ wanted = Null /\ reached = FALSE
  /\ local \in Fields /\ zoom = local

BeginUpdate(p) ==
  /\ stage \in {"settled", "review"}
  /\ stage' = "updating" /\ wanted' = p /\ reached' = FALSE
  /\ UNCHANGED <<local, zoom>>

BeginDelete ==
  /\ stage \in {"settled", "review"}
  /\ stage' = "deleting" /\ wanted' = Absent /\ reached' = FALSE
  /\ UNCHANGED <<local, zoom>>

Changed == 
  IF wanted = Absent THEN Absent
  ELSE [f \in Field |-> IF f \in DOMAIN wanted THEN wanted[f] ELSE zoom[f]]

Reach ==
  /\ wanted # Null
  /\ wanted # Absent => zoom # Absent
  /\ zoom' = Changed
  /\ reached' = TRUE
  /\ UNCHANGED <<stage, wanted, local>>

Shown(fields, f) == f \in DOMAIN wanted => fields[f] = wanted[f]

Confirm ==
  /\ stage = "updating" /\ zoom # Absent
  /\ local' \in Fields
  /\ \A f \in Field : /\ Shown(zoom, f) /\ Shown(local', f)
                      /\ local'[f] \in {local[f], zoom[f]}
  /\ stage' = "settled" /\ wanted' = Null
  /\ UNCHANGED <<reached, zoom>>

Gone ==
  /\ stage \in {"updating", "deleting"} /\ zoom = Absent
  /\ stage' = "deleted" /\ wanted' = Null
  /\ UNCHANGED <<reached, local, zoom>>

RollBack ==
  /\ stage \in {"updating", "deleting"} /\ ~reached
  /\ stage' = "settled" /\ wanted' = Null
  /\ UNCHANGED <<reached, local, zoom>>

HandOver ==
  /\ stage \in {"updating", "deleting"}
  /\ stage' = "review"
  /\ UNCHANGED <<wanted, reached, local, zoom>>

Next ==
  \/ \E p \in Payload : BeginUpdate(p)
  \/ BeginDelete
  \/ Reach
  \/ Confirm
  \/ Gone
  \/ RollBack
  \/ HandOver

Spec == Init /\ [][Next]_vars
=============================================================================
