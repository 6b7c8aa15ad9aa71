----------------------------- MODULE ZoomEvents -----------------------------
(***************************************************************************)
(* What Zoom's webhooks do to an established meeting.  The host edits,     *)
(* deletes, starts and ends the meeting at Zoom; a user updates it through *)
(* the application (UpdateProjectMeeting).  Every change at Zoom sends an  *)
(* event that carries the changed fields and Zoom's time.  The inbox hands *)
(* the events over in any order and more than once; an event that throws   *)
(* is handed over again.                                                   *)
(*                                                                         *)
(* meeting.updated reads the row and Zoom before it locks the row          *)
(* (HandleMeetingUpdatedWebhook::buildContext) and decides under the lock  *)
(* whether what it has read still counts                                   *)
(* (ZoomMeetingUpdatedWebhookProcessor).  What recovers an update that got *)
(* no answer is in MeetingOperation; here such an update waits for a       *)
(* webhook.                                                                *)
(***************************************************************************)
EXTENDS Naturals, FiniteSets

CONSTANTS
  Handler,     \* workers that handle events
  Field, Val,  \* the fields of a meeting and their values
  Password,    \* the field whose update is confirmed by a read only
  Stamp,       \* values of an operation id or a millisecond of the local clock
  Null,
  Absent,      \* Zoom does not have the meeting
  Payload,     \* the updates users ask for: values for some of the fields
  MaxTime,     \* bound on the clock
  MaxEvents,   \* bound on the changes at Zoom
  MaxRequests, \* bound on the user's updates
  MaxRepeats   \* bound on the events handed over again

VARIABLES
  zoom,     \* the fields of Zoom's meeting, or Absent
  row,      \* the local meeting
  state,    \* its column status: whether the meeting takes place
  request,  \* the user's update
  events,   \* events accepted and not settled
  handler,  \* what every worker has read
  clock,    \* the time, for Zoom and for the application
  sent,     \* events Zoom has sent
  asked,    \* updates the user has asked for
  repeats,  \* events handed over again
  reached,  \* history: Zoom got the values of the recorded update
  dropped   \* history: fields of the update events that were ignored

vars == <<zoom, row, state, request, events, handler, clock, sent, asked, repeats,
          reached, dropped>>

Fields == [Field -> Val]

Changes == UNION {[fs -> Val] : fs \in SUBSET Field}

\* A cutoff is a time to the millisecond: no two are equal.
Cutoff == [at: 0..MaxTime, ms: Stamp]

Row == [status: {"active", "updating", "update_failed", "deleted"},
        opId: Stamp \cup {Null}, payload: Changes \cup {Null},
        started: 0..MaxTime, cutoff: Cutoff \cup {Null},
        watermark: 0..MaxTime \cup {Null}, local: Fields]

Event == [type: {"updated", "deleted", "started", "ended"},
          n: 1..MaxEvents, at: 0..MaxTime, changes: Changes]

\* Null and Absent are no data, and there are stamps enough: an id or a
\* millisecond that neither the row nor a handler holds.  A row, a request and
\* the handlers never hold more.
ASSUME EventsAssumption ==
  /\ MaxTime \in Nat /\ MaxEvents \in Nat /\ MaxRequests \in Nat /\ MaxRepeats \in Nat
  /\ Payload \subseteq Changes
  /\ Absent \notin Fields
  /\ Null \notin {Absent} \cup Fields \cup Changes \cup Stamp \cup Cutoff \cup 0..MaxTime
                 \cup Event \cup {"ok", "unknown", "limited", "rejected"}
  /\ \A stamp \in Stamp \cup {Null}, used \in [Handler -> Stamp \cup {Null}] :
       \E fresh \in Stamp : fresh # stamp /\ \A h \in Handler : fresh # used[h]

Idle == [pc |-> "idle", event |-> Null, check |-> FALSE, snapshot |-> Null,
         opId |-> Null, cutoff |-> Null, watermark |-> Null]

TypeOK ==
  /\ zoom \in Fields \cup {Absent}
  /\ row \in Row
  /\ row.opId # Null <=> row.status \in {"updating", "update_failed"}
  /\ row.opId # Null <=> row.payload # Null
  /\ state \in {"scheduled", "started", "ended"}
  /\ request \in [pc: {"idle", "calling", "answered"}, opId: Stamp \cup {Null},
                  payload: Changes \cup {Null}, answer: {"ok", "unknown", "limited", "rejected", Null}]
  /\ events \subseteq Event
  /\ \A h \in Handler :
       /\ handler[h].pc \in {"idle", "asking", "ready"}
       /\ handler[h].event \in Event \cup {Null}
       /\ handler[h].snapshot \in Fields \cup {Absent, Null}
       /\ handler[h].check \in BOOLEAN
  /\ clock \in 0..MaxTime /\ sent \in 0..MaxEvents
  /\ asked \in 0..MaxRequests /\ repeats \in 0..MaxRepeats
  /\ reached \in BOOLEAN /\ dropped \subseteq Field

NoRequest == [pc |-> "idle", opId |-> Null, payload |-> Null, answer |-> Null]

Init ==
  /\ \E fields \in Fields :
       /\ zoom = fields
       /\ row = [status |-> "active", opId |-> Null, payload |-> Null,
                 started |-> 0, cutoff |-> Null, watermark |-> Null, local |-> fields]
  /\ state = "scheduled"
  /\ request = NoRequest
  /\ events = {}
  /\ handler = [h \in Handler |-> Idle]
  /\ clock = 0 /\ sent = 0 /\ asked = 0 /\ repeats = 0
  /\ reached = FALSE /\ dropped = {}

-----------------------------------------------------------------------------
(* Zoom.                                                                   *)

Updated(fields, changes) ==
  [f \in Field |-> IF f \in DOMAIN changes THEN changes[f] ELSE fields[f]]

Sends(type, changes) ==
  /\ sent < MaxEvents
  /\ sent' = sent + 1
  /\ events' = events \cup {[type |-> type, n |-> sent', at |-> clock, changes |-> changes]}

NoChanges == [f \in {} |-> Null]

\* The values the recorded update asks for have been set since it was recorded.
Reaches(fields) ==
  reached' =
    \/ reached
    \/ /\ row.opId # Null
       /\ \A f \in DOMAIN row.payload : fields[f] = row.payload[f]

HostEdits ==
  /\ zoom # Absent
  /\ \E f \in Field, v \in Val :
       /\ v # zoom[f]
       /\ zoom' = [zoom EXCEPT ![f] = v]
       /\ Sends("updated", [g \in {f} |-> v])
  /\ Reaches(zoom')
  /\ UNCHANGED <<row, state, request, handler, clock, dropped, asked, repeats>>

HostDeletes ==
  /\ zoom # Absent
  /\ zoom' = Absent
  /\ Sends("deleted", NoChanges)
  /\ UNCHANGED <<row, state, request, handler, clock, reached, dropped, asked, repeats>>

HostMeets ==
  /\ zoom # Absent
  /\ \E type \in {"started", "ended"} : Sends(type, NoChanges)
  /\ UNCHANGED <<zoom, row, state, request, handler, clock, reached, dropped, asked, repeats>>

Tick ==
  /\ clock < MaxTime
  /\ clock' = clock + 1
  /\ UNCHANGED <<zoom, row, state, request, events, handler, sent, reached, dropped, asked, repeats>>

-----------------------------------------------------------------------------
(* UpdateProjectMeeting, by the one request that holds the meeting's lock. *)

NewOp == CHOOSE s \in Stamp :
           s # row.opId /\ s # request.opId /\ \A h \in Handler : s # handler[h].opId

NewCutoff ==
  [at |-> clock,
   ms |-> CHOOSE s \in Stamp :
            \A c \in {row.cutoff} \cup {handler[h].cutoff : h \in Handler} :
              c # Null => s # c.ms]

SaveUpdateIntent ==
  /\ asked < MaxRequests /\ asked' = asked + 1
  /\ request.pc = "idle"
  /\ row.status \in {"active", "update_failed"}
  /\ \E payload \in Payload :
       /\ row' = [row EXCEPT !.status = "updating", !.opId = NewOp,
                             !.payload = payload, !.started = clock]
       /\ request' = [pc |-> "calling", opId |-> NewOp, payload |-> payload, answer |-> Null]
  /\ reached' = FALSE
  /\ UNCHANGED <<zoom, state, events, handler, clock, sent, dropped, repeats>>

\* Zoom applies the update; its answer may be lost.
ZoomApplies ==
  /\ request.pc = "calling" /\ zoom # Absent
  /\ zoom' = Updated(zoom, request.payload)
  /\ Sends("updated", request.payload)
  /\ \E answer \in {"ok", "unknown"} :
       request' = [request EXCEPT !.pc = "answered", !.answer = answer]
  /\ Reaches(zoom')
  /\ UNCHANGED <<row, state, handler, clock, dropped, asked, repeats>>

\* Zoom refuses the update, has no such meeting, or does not get the call.
ZoomDoesNotApply ==
  /\ request.pc = "calling"
  /\ \E answer \in {"limited", "rejected", "unknown"} :
       request' = [request EXCEPT !.pc = "answered", !.answer = answer]
  /\ UNCHANGED <<zoom, row, state, events, handler, clock, sent, reached, dropped, asked, repeats>>

Completed(r) == [r EXCEPT !.status = "active", !.opId = Null, !.payload = Null]

AfterAnswer ==
  CASE request.answer = "ok" /\ Password \in DOMAIN request.payload -> row
    [] request.answer = "ok" /\ Password \notin DOMAIN request.payload ->
         [Completed(row) EXCEPT !.local = Updated(row.local, request.payload),
                                !.cutoff = NewCutoff]
    [] request.answer = "limited"  -> Completed(row)
    [] request.answer = "unknown"  -> [row EXCEPT !.status = "updating"]
    [] request.answer = "rejected" -> [row EXCEPT !.status = "update_failed"]

RequestSettles ==
  /\ request.pc = "answered"
  /\ row' = IF row.opId = request.opId THEN AfterAnswer ELSE row
  /\ request' = NoRequest
  /\ UNCHANGED <<zoom, state, events, handler, clock, sent, reached, dropped, asked, repeats>>

-----------------------------------------------------------------------------
(* ZoomWebhookSupport.                                                     *)

IsStaleProviderEvent(r, at) == r.watermark # Null /\ at < r.watermark

RequiresZoomReconciliation(r, at) ==
  \/ r.watermark # Null /\ at = r.watermark
  \/ r.cutoff # Null /\ at <= r.cutoff.at

\* Variant of the next definition: nothing predates an operation.
NeverPredates(r, at) == FALSE

PredatesPendingOperation(r, at) == at <= r.started

HasPendingUpdate(r) == r.status \in {"updating", "update_failed"} /\ r.opId # Null

\* The event confirms every value of the update.
MatchesOperation(r, changes) ==
  \A f \in DOMAIN r.payload : f \in DOMAIN changes /\ changes[f] = r.payload[f]

ZoomHasRequestedFields(payload, fields) ==
  \A f \in DOMAIN payload : fields[f] = payload[f]

-----------------------------------------------------------------------------
(* The handlers.  An event is settled, or handed over again because the    *)
(* worker died before it could say so.                                     *)

HandedOverAgain == repeats < MaxRepeats /\ repeats' = repeats + 1

Settle(e) ==
  \/ events' = events \ {e} /\ UNCHANGED repeats
  \/ HandedOverAgain /\ UNCHANGED events

Ignore(e) == dropped' = dropped \cup DOMAIN e.changes

Free(h) == handler' = [handler EXCEPT ![h] = Idle]

IgnoresStaleUpdate(h) ==
  /\ handler[h].pc = "idle"
  /\ \E e \in events :
       /\ e.type = "updated" /\ IsStaleProviderEvent(row, e.at)
       /\ Settle(e) /\ Ignore(e)
  /\ UNCHANGED <<zoom, row, state, request, handler, clock, sent, reached, asked>>

BuildContext(h) ==
  /\ handler[h].pc = "idle"
  /\ \E e \in events :
       /\ e.type = "updated" /\ ~IsStaleProviderEvent(row, e.at)
       /\ LET check == \/ RequiresZoomReconciliation(row, e.at)
                       \/ HasPendingUpdate(row) /\ MatchesOperation(row, e.changes)
          IN handler' = [handler EXCEPT ![h] =
               [pc |-> IF check THEN "asking" ELSE "ready", event |-> e, check |-> check,
                snapshot |-> Null, opId |-> row.opId, cutoff |-> row.cutoff,
                watermark |-> row.watermark]]
  /\ UNCHANGED <<zoom, row, state, request, events, clock, sent, reached, dropped, asked, repeats>>

GetMeeting(h) ==
  /\ handler[h].pc = "asking"
  /\ handler' = [handler EXCEPT ![h].pc = "ready", ![h].snapshot = zoom]
  /\ UNCHANGED <<zoom, row, state, request, events, clock, sent, reached, dropped, asked, repeats>>

\* Variant of the next definition: only the operation is compared.
SameOperation(h) == row.opId = handler[h].opId

MeetingDidNotChange(h) ==
  /\ row.opId = handler[h].opId
  /\ row.cutoff = handler[h].cutoff
  /\ row.watermark = handler[h].watermark

\* Variant of the next definition: a handler that has asked nothing sees the
\* meeting missing as well.
HasNoSnapshot(h) == handler[h].snapshot \notin Fields

IsMissingAtZoom(h) == handler[h].check /\ handler[h].snapshot = Absent

\* Variant of the next definition: the operation stays recorded.
DeletedOnly(r) == [r EXCEPT !.status = "deleted"]

Deleted(r) == [r EXCEPT !.status = "deleted", !.opId = Null, !.payload = Null]

\* Zoom confirms the update: its fields are saved, and the operation is over
\* unless the event may belong to an earlier attempt.
AfterConfirmation(h, at) ==
  LET saved == [row EXCEPT !.local = handler[h].snapshot, !.cutoff = NewCutoff,
                           !.watermark = at]
  IN IF PredatesPendingOperation(row, at) THEN saved ELSE Completed(saved)

ProcessPendingUpdate(h, e) ==
  IF ~MatchesOperation(row, e.changes)
  THEN row' = row /\ Ignore(e)
  ELSE IF ~ZoomHasRequestedFields(row.payload, handler[h].snapshot)
  THEN row' = [row EXCEPT !.watermark = e.at] /\ Ignore(e)
  ELSE row' = AfterConfirmation(h, e.at) /\ UNCHANGED dropped

AfterUpdate(h, e) ==
  IF handler[h].check
  THEN [row EXCEPT !.local = handler[h].snapshot, !.cutoff = NewCutoff, !.watermark = e.at]
  ELSE [row EXCEPT !.local = Updated(row.local, e.changes), !.watermark = e.at]

\* The transaction of ZoomMeetingUpdatedWebhookProcessor::process.
ProcessUpdate(h) ==
  /\ handler[h].pc = "ready" /\ handler[h].event.type = "updated"
  /\ LET e == handler[h].event IN
       IF IsStaleProviderEvent(row, e.at)
       THEN Settle(e) /\ Ignore(e) /\ UNCHANGED row
       ELSE IF ~MeetingDidNotChange(h)
       THEN UNCHANGED <<row, events, dropped, repeats>>
       ELSE /\ Settle(e)
            /\ IF IsMissingAtZoom(h)
               THEN row' = [Deleted(row) EXCEPT !.watermark = e.at] /\ UNCHANGED dropped
               ELSE IF HasPendingUpdate(row)
               THEN ProcessPendingUpdate(h, e)
               ELSE /\ row' = IF row.status = "active" THEN AfterUpdate(h, e) ELSE row
                    /\ UNCHANGED dropped
  /\ Free(h)
  /\ UNCHANGED <<zoom, state, request, clock, sent, reached, asked>>

\* HandleMeetingDeletedWebhook: one transaction.  A meeting in any status but
\* deleted accepts it.
HandleMeetingDeleted(h) ==
  /\ handler[h].pc = "idle"
  /\ \E e \in events :
       /\ e.type = "deleted"
       /\ row' = IF row.status = "deleted" \/ IsStaleProviderEvent(row, e.at)
                 THEN row ELSE [Deleted(row) EXCEPT !.watermark = e.at]
       /\ Settle(e)
  /\ UNCHANGED <<zoom, state, request, handler, clock, sent, reached, dropped, asked>>

\* HandleMeetingStartedWebhook and HandleMeetingEndedWebhook look at the
\* status of the row first and change the state in a statement of its own.
CheckStatus(h) ==
  /\ handler[h].pc = "idle"
  /\ \E e \in events :
       /\ e.type \in {"started", "ended"}
       /\ IF row.status = "active"
          THEN /\ handler' = [handler EXCEPT ![h].pc = "ready", ![h].event = e]
               /\ UNCHANGED <<events, repeats>>
          ELSE Settle(e) /\ UNCHANGED handler
  /\ UNCHANGED <<zoom, row, state, request, clock, sent, reached, dropped, asked>>

\* Variant of the next definition: a late start wins over the end.
StartsAgain == {"scheduled", "ended"}

MayStart == {"scheduled"}

Transition(h) ==
  /\ handler[h].pc = "ready" /\ handler[h].event.type \in {"started", "ended"}
  /\ state' = CASE handler[h].event.type = "ended" -> "ended"
                [] state \in MayStart -> "started"
                [] OTHER -> state
  /\ Settle(handler[h].event)
  /\ Free(h)
  /\ UNCHANGED <<zoom, row, request, clock, sent, reached, dropped, asked>>

Die(h) ==
  /\ handler[h].pc # "idle" /\ HandedOverAgain
  /\ Free(h)
  /\ UNCHANGED <<zoom, row, state, request, events, clock, sent, reached, dropped, asked>>

Next ==
  \/ HostEdits \/ HostDeletes \/ HostMeets \/ Tick
  \/ SaveUpdateIntent \/ ZoomApplies \/ ZoomDoesNotApply \/ RequestSettles
  \/ \E h \in Handler :
       \/ IgnoresStaleUpdate(h) \/ BuildContext(h) \/ GetMeeting(h) \/ ProcessUpdate(h)
       \/ HandleMeetingDeleted(h) \/ CheckStatus(h) \/ Transition(h) \/ Die(h)

Spec == Init /\ [][Next]_vars

-----------------------------------------------------------------------------
(* Properties.                                                             *)

\* When nothing is under way, an active meeting shows what Zoom shows in
\* every field no update event was ignored for, and a meeting Zoom no longer
\* has is deleted: whatever was read before the lock, ties and overlapping
\* handlers lose nothing.
InSync ==
  /\ events = {} /\ request = NoRequest /\ (\A h \in Handler : handler[h] = Idle)
  => /\ zoom = Absent => row.status = "deleted"
     /\ row.status = "active" => \A f \in Field \ dropped : row.local[f] = zoom[f]

\* Only a meeting Zoom does not have is deleted.
DeletedIsTrue == row.status = "deleted" => zoom = Absent

\* A webhook or an answer completes an update only after Zoom was given its
\* values, by the call or by the host, since the update was recorded: an event
\* of an earlier attempt with the same values does not complete the next one.
\* Only a request Zoom has turned away takes its update back.
CompletedUpdateWasApplied ==
  [][row.opId # Null /\ row'.opId = Null /\ row'.status = "active"
       => reached \/ request.answer = "limited"]_vars

\* Whatever order events come in, the watermark never moves back, a meeting
\* that has ended does not start again, and a deleted one is left alone.
NeverBackwards ==
  [][/\ row.watermark # Null => row'.watermark # Null /\ row'.watermark >= row.watermark
     /\ state = "ended" => state' = "ended"
     /\ row.status = "deleted" => row'.status = "deleted" /\ row'.local = row.local]_vars
=============================================================================
