--------------------------- MODULE MeetingCreation ---------------------------
(***************************************************************************)
(* Creating a meeting at Zoom.  CreateProjectMeeting stores the row with   *)
(* its operation id, asks Zoom to create a meeting that carries the id in  *)
(* a tracking field, and records the answer.  When the answer is lost, the *)
(* webhook meeting.created (HandleMeetingCreatedWebhook), the scheduled    *)
(* RecoverAmbiguousZoomMeeting and, in the end, an operator                *)
(* (ResolveAmbiguousZoomMeetingManually) find out what became of it.       *)
(*                                                                         *)
(* One meeting is modelled.  Zoom may hold several meetings that carry its *)
(* operation id: the host can duplicate one.                               *)
(***************************************************************************)
EXTENDS MeetingRow

CONSTANTS
  ZoomId,      \* ids of the meetings Zoom creates
  Recoverer,   \* runs of meetings:recover-ambiguous (15 minutes may overlap)
  MaxFaults    \* bound on crashes, lost webhooks and claims outlived

ASSUME CreationAssumption ==
  /\ Null \notin ZoomId
  /\ MaxFaults \in Nat

VARIABLES
  row,        \* the local meeting
  creator,    \* the request that creates it
  zoom,       \* Zoom's meetings that carry its operation id
  webhooks,   \* meeting.created events not yet handled
  recoverer,  \* what every recovery run is doing
  operator,   \* the Zoom meeting an operator has verified, or Null
  faults      \* faults so far

vars == <<row, creator, zoom, webhooks, recoverer, operator, faults>>

Row == [status: {"none", "creating", "create_unknown", "active", "failed", "updating"},
        opId: OpId \cup {Null}, zoomId: ZoomId \cup {Null},
        claim: Token \cup {Null}, lease: {"live", "expired", Null},
        avail: {"later", "due", Null}, attempts: 0..MaxAttempts + 2]

Creator == [pc: {"idle", "calling", "answered", "done"},
            answer: {"ok", "unknown", "rejected", "broken", Null},
            zoomId: ZoomId \cup {Null}]

Run == [pc: {"idle", "selected", "claimed", "deciding"},
        token: Token \cup {Null}, seen: ZoomId \cup {Null},
        found: SUBSET ZoomId]

IdleRun == [pc |-> "idle", token |-> Null, seen |-> Null, found |-> {}]

TypeOK ==
  /\ row \in Row
  /\ creator \in Creator
  /\ zoom \subseteq ZoomId
  /\ webhooks \subseteq zoom
  /\ recoverer \in [Recoverer -> Run]
  /\ operator \in ZoomId \cup {Null}
  /\ faults \in 0..MaxFaults

Init ==
  /\ row = [status |-> "none", opId |-> Null, zoomId |-> Null, claim |-> Null,
            lease |-> Null, avail |-> Null, attempts |-> 0]
  /\ creator = [pc |-> "idle", answer |-> Null, zoomId |-> Null]
  /\ zoom = {} /\ webhooks = {}
  /\ recoverer = [r \in Recoverer |-> IdleRun]
  /\ operator = Null
  /\ faults = 0

Fault == faults < MaxFaults /\ faults' = faults + 1

-----------------------------------------------------------------------------
(* MeetingBuilder, Meeting and FinalizeZoomMeetingRecovery.                *)

ReadyForZoomRecovery ==
  \/ row.status = "creating"       /\ row.lease = "expired"
  \/ row.status = "create_unknown" /\ row.avail = "due"

AwaitsManualZoomRecovery ==
  /\ row.status = "create_unknown"
  /\ row.avail = Null /\ row.claim = Null /\ row.lease = Null

OwnsLiveClaim(token) ==
  row.status = "create_unknown" /\ IsClaimValid(row, token)

\* Variant of the next definition: the id already stored is not looked at.
NoConflict(zoomId) == FALSE

Conflicts(zoomId) == row.zoomId \notin {Null, zoomId}

\* validTransitions: the states that may become active, of those a meeting
\* whose creation is answered late can be in.
MayBecomeActive(status) ==
  status \in {"creating", "create_unknown", "failed", "updating", "update_failed"}

Activated(zoomId) == [HandedOver(row, "active") EXCEPT !.zoomId = zoomId]

Finalized(zoomId) ==
  IF Conflicts(zoomId) THEN HandedOver(row, row.status) ELSE Activated(zoomId)

-----------------------------------------------------------------------------
(* The request (CreateProjectMeeting).                                     *)

CreateMeetingWithOperation(op) ==
  /\ row.status = "none"
  /\ row' = [row EXCEPT !.status = "creating", !.opId = op, !.lease = "live"]
  /\ creator' = [creator EXCEPT !.pc = "calling"]
  /\ UNCHANGED <<zoom, webhooks, recoverer, operator, faults>>

ZoomCreates(m) == m \notin zoom /\ zoom' = zoom \cup {m} /\ webhooks' = webhooks \cup {m}

\* An answer in error does not prove that nothing was created: a lost one or a
\* 5xx is "unknown", another error of Zoom's "rejected", and "broken" is any
\* other exception.
CallZoom ==
  /\ creator.pc = "calling"
  /\ \/ \E m \in ZoomId, answer \in {"ok", "unknown", "rejected", "broken"} :
          /\ ZoomCreates(m)
          /\ creator' = [pc |-> "answered", answer |-> answer, zoomId |-> m]
     \/ \E answer \in {"unknown", "rejected", "broken"} :
          /\ creator' = [pc |-> "answered", answer |-> answer, zoomId |-> Null]
          /\ UNCHANGED <<zoom, webhooks>>
  /\ UNCHANGED <<row, recoverer, operator, faults>>

\* The host duplicates the meeting, tracking field included.
HostDuplicates(m) ==
  /\ zoom # {} /\ ZoomCreates(m)
  /\ UNCHANGED <<row, creator, recoverer, operator, faults>>

\* markMeetingAsSynced: a row that is active with this id or claimed by a
\* recovery is left alone, a forbidden transition rolls the transaction back.
Synced(zoomId) ==
  IF row.status = "active" /\ row.zoomId = zoomId THEN row
  ELSE IF Conflicts(zoomId)
       THEN HandedOver(row, IF row.status = "creating" THEN "create_unknown"
                            ELSE row.status)
  ELSE IF row.status = "create_unknown" /\ row.claim # Null THEN row
  ELSE IF MayBecomeActive(row.status) THEN Activated(zoomId)
  ELSE row

\* markMeetingAsCreateUnknown and markMeetingAsFailed: a late error never
\* overwrites what a webhook or a recovery established.
CreateUnknown ==
  IF row.status \in {"creating", "create_unknown"} /\ row.claim = Null
  THEN [Waiting(row) EXCEPT !.status = "create_unknown", !.attempts = @ + 1]
  ELSE row

\* Variant of the next definition: the late error overwrites.
FailedAnyway == [HandedOver(row, "failed") EXCEPT !.attempts = @ + 1]

CreateFailed ==
  IF row.status = "creating"
  THEN [HandedOver(row, "failed") EXCEPT !.attempts = @ + 1]
  ELSE row

FinishCreation ==
  /\ creator.pc = "answered"
  /\ row' = CASE creator.answer = "ok"       -> Synced(creator.zoomId)
              [] creator.answer = "unknown"  -> CreateUnknown
              [] creator.answer = "rejected" -> CreateFailed
              [] creator.answer = "broken"   -> row
  /\ creator' = [creator EXCEPT !.pc = "done"]
  /\ UNCHANGED <<zoom, webhooks, recoverer, operator, faults>>

CreatorCrashes ==
  /\ Fault
  /\ creator.pc \in {"calling", "answered"}
  /\ \/ UNCHANGED <<zoom, webhooks>>
     \/ creator.pc = "calling" /\ \E m \in ZoomId : ZoomCreates(m)
  /\ creator' = [creator EXCEPT !.pc = "done"]
  /\ UNCHANGED <<row, recoverer, operator>>

-----------------------------------------------------------------------------
(* The webhook meeting.created: the first id to arrive is attached and the *)
(* recovery may look at the meeting at once.  An event may come again.     *)

AttachRemoteMeetingId(m) ==
  /\ m \in webhooks
  /\ webhooks' \in {webhooks, webhooks \ {m}}
  /\ row' = IF row.status \in {"creating", "create_unknown"} /\ row.zoomId = Null
            THEN [row EXCEPT !.status = "create_unknown", !.zoomId = m,
                             !.avail = "due", !.claim = Null, !.lease = Null]
            ELSE row
  /\ UNCHANGED <<creator, zoom, recoverer, operator, faults>>

LoseWebhook ==
  /\ Fault
  /\ \E m \in webhooks : webhooks' = webhooks \ {m}
  /\ UNCHANGED <<row, creator, zoom, recoverer, operator>>

-----------------------------------------------------------------------------
(* The recovery command.  It loads the rows that are ready, then takes     *)
(* them one by one: what it loaded may be stale when it claims the row.    *)

Become(r, run) == recoverer' = [recoverer EXCEPT ![r] = run]

SelectMeeting(r) ==
  /\ recoverer[r].pc = "idle"
  /\ ReadyForZoomRecovery
  /\ Become(r, [IdleRun EXCEPT !.pc = "selected", !.seen = row.zoomId])
  /\ UNCHANGED <<row, creator, zoom, webhooks, operator, faults>>

FreshToken(t) == row.claim # t /\ \A r \in Recoverer : recoverer[r].token # t

\* Variant of the next definition: what the selection saw is taken as true.
ClaimableAsLoaded == row.claim = Null \/ row.lease = "expired"

Claimable == ReadyForZoomRecovery /\ (row.claim = Null \/ row.lease = "expired")

ClaimMeeting(r) ==
  /\ recoverer[r].pc = "selected"
  /\ \/ /\ ~Claimable
        /\ Become(r, IdleRun) /\ UNCHANGED row
     \/ /\ Claimable
        /\ \E t \in Token :
             /\ FreshToken(t)
             /\ row' = [row EXCEPT !.status = "create_unknown", !.claim = t,
                                   !.lease = "live", !.avail = "due"]
             /\ Become(r, [recoverer[r] EXCEPT !.pc = "claimed", !.token = t])
  /\ UNCHANGED <<creator, zoom, webhooks, operator, faults>>

\* findMatches, on the row as it was loaded.  Zoom's list may lag behind; a
\* read that fails finds nothing and the run retries likewise.
FindMatches(r) ==
  LET seen == recoverer[r].seen IN
  /\ recoverer[r].pc = "claimed"
  /\ \E found \in IF seen = Null THEN SUBSET zoom ELSE {{seen} \cap zoom, {}} :
       Become(r, [recoverer[r] EXCEPT !.pc = "deciding", !.found = found])
  /\ UNCHANGED <<row, creator, zoom, webhooks, operator, faults>>

\* Variant of the next definition: the retries never end.
RetryScheduledForEver == Waiting(row)

RetryScheduled ==
  LET next == [row EXCEPT !.attempts = @ + 1]
  IN IF ShouldRetry(next.attempts) THEN Waiting(next)
     ELSE HandedOver(next, "create_unknown")

DecideOutcome(r) ==
  LET found == recoverer[r].found IN
  /\ recoverer[r].pc = "deciding"
  /\ \/ /\ ~OwnsLiveClaim(recoverer[r].token)
        /\ UNCHANGED row
     \/ /\ OwnsLiveClaim(recoverer[r].token)
        /\ \/ found = {} /\ row' = RetryScheduled
           \/ \E m \in ZoomId : found = {m} /\ row' = Finalized(m)
           \/ /\ \E m, n \in found : m # n
              /\ row' = HandedOver(row, "create_unknown")
  /\ Become(r, IdleRun)
  /\ UNCHANGED <<creator, zoom, webhooks, operator, faults>>

RecovererCrashes(r) ==
  /\ Fault
  /\ recoverer[r].pc # "idle"
  /\ Become(r, IdleRun)
  /\ UNCHANGED <<row, creator, zoom, webhooks, operator>>

-----------------------------------------------------------------------------
(* The operator, once the automatic recovery has stopped.                  *)

\* withZoomMeetingId reads Zoom's meeting, checks its tracking field, and
\* checks the row again before it finalizes it.
OperatorVerifies(m) ==
  /\ operator = Null
  /\ AwaitsManualZoomRecovery
  /\ m \in zoom
  /\ operator' = m
  /\ UNCHANGED <<row, creator, zoom, webhooks, recoverer, faults>>

OperatorActivates ==
  /\ operator # Null
  /\ row' = IF AwaitsManualZoomRecovery THEN Finalized(operator) ELSE row
  /\ operator' = Null
  /\ UNCHANGED <<creator, zoom, webhooks, recoverer, faults>>

\* The operator has found no such meeting at Zoom.
MarkNotCreated ==
  /\ zoom = {} /\ AwaitsManualZoomRecovery
  /\ row' = HandedOver(row, "failed")
  /\ UNCHANGED <<creator, zoom, webhooks, recoverer, operator, faults>>

-----------------------------------------------------------------------------
(* Time.  The request is over, by the timeout of its call, before its      *)
(* lease is.  A recovery reads page after page of Zoom's meetings: its     *)
(* claim may lapse.                                                        *)

LeaseExpires ==
  /\ row.lease = "live"
  /\ row.status = "creating" => creator.pc = "done"
  /\ IF \E r \in Recoverer : recoverer[r].pc # "idle" /\ recoverer[r].token = row.claim
     THEN Fault ELSE UNCHANGED faults
  /\ row' = [row EXCEPT !.lease = "expired"]
  /\ UNCHANGED <<creator, zoom, webhooks, recoverer, operator>>

RetryBecomesDue ==
  /\ row.avail = "later"
  /\ row' = [row EXCEPT !.avail = "due"]
  /\ UNCHANGED <<creator, zoom, webhooks, recoverer, operator, faults>>

-----------------------------------------------------------------------------
CreatorStep ==
  \/ \E op \in OpId : CreateMeetingWithOperation(op)
  \/ CallZoom
  \/ FinishCreation
  \/ CreatorCrashes

RunStep(r) ==
  \/ ClaimMeeting(r)
  \/ FindMatches(r)
  \/ DecideOutcome(r)

Next ==
  \/ CreatorStep
  \/ \E m \in ZoomId : HostDuplicates(m)
  \/ \E m \in ZoomId : AttachRemoteMeetingId(m)
  \/ LoseWebhook
  \/ \E r \in Recoverer : SelectMeeting(r) \/ RunStep(r) \/ RecovererCrashes(r)
  \/ \E m \in ZoomId : OperatorVerifies(m)
  \/ OperatorActivates
  \/ MarkNotCreated
  \/ LeaseExpires
  \/ RetryBecomesDue

Spec == Init /\ [][Next]_vars

(* The request ends; Kernel::schedule starts a recovery run every minute   *)
(* and a run goes through the meetings it selected; time passes.  Nothing  *)
(* is assumed of webhooks and operators.                                   *)
Fairness ==
  /\ WF_vars(CallZoom) /\ WF_vars(FinishCreation)
  /\ \A r \in Recoverer : WF_vars(RunStep(r))
  /\ SF_vars(\E r \in Recoverer : SelectMeeting(r))
  /\ WF_vars(LeaseExpires) /\ WF_vars(RetryBecomesDue)

FairSpec == Spec /\ Fairness

-----------------------------------------------------------------------------
(* Properties.                                                             *)

\* A creation without an outcome is always somebody's: a lease or a retry time
\* will bring it to the recovery, or all three columns are NULL, which is what
\* the runbook and awaitsManualZoomRecovery ask for.
NeverInLimbo ==
  /\ row.status = "creating" => row.lease # Null
  /\ row.status = "create_unknown" => row.avail # Null \/ AwaitsManualZoomRecovery
  /\ row.claim # Null => row.lease # Null

\* The Zoom meeting a row is attached to never changes: not by a second
\* webhook, a recovery that found another meeting, a late answer or an operator.
AttachedForGood ==
  [][row.zoomId # Null => row'.zoomId = row.zoomId]_vars

\* A meeting established by a webhook or a recovery is not failed by a late
\* error: a row attached to a Zoom meeting is never failed ("Never let the late
\* API error overwrite it", markMeetingAsFailed).
EstablishedNeverFails == row.status = "failed" => row.zoomId = Null

\* Once a creation waits for the operator, no recovery run touches it, however
\* old the list of meetings is from which the run took it.
OperatorIsLeftAlone ==
  [][AwaitsManualZoomRecovery /\ recoverer' # recoverer => UNCHANGED row]_vars

\* A creation ends active, failed or in the operator's hands.
CreationIsSettled ==
  row.status \in {"creating", "create_unknown"} ~>
    row.status \in {"active", "failed"} \/ AwaitsManualZoomRecovery
=============================================================================
