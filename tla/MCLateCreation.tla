---------------------------- MODULE MCLateCreation ----------------------------
(***************************************************************************)
(* MeetingCreation and the user's next move: the webhook and the recovery  *)
(* may make the meeting active while the request that creates it is still  *)
(* waiting for Zoom's answer, and an active meeting can be updated.        *)
(***************************************************************************)
EXTENDS MeetingCreation

\* UpdateProjectMeeting::saveUpdateIntent, under a new operation id.  How the
\* update ends is the business of MeetingOperation.
SaveUpdateIntent(op) ==
  /\ row.status = "active" /\ op # row.opId
  /\ row' = [row EXCEPT !.status = "updating", !.opId = op, !.lease = "live",
                        !.attempts = 0, !.claim = Null, !.avail = Null]
  /\ UNCHANGED <<creator, zoom, webhooks, recoverer, operator, faults>>

NextWithUpdate == Next \/ \E op \in OpId : SaveUpdateIntent(op)

SpecWithUpdate == Init /\ [][NextWithUpdate]_vars

-----------------------------------------------------------------------------
\* "An old request must not update the meeting if a newer update operation has
\* replaced its operation ID" (zoom_outbox_plan.md, Phase 2).  The request that
\* created the meeting is such an old request: markMeetingAsSynced looks at the
\* status and the Zoom id, not at the operation id.
OldRequestLeavesNewerOperation ==
  [][row.status = "updating" /\ creator' # creator => UNCHANGED row]_vars
=============================================================================
