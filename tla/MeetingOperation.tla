-------------------------- MODULE MeetingOperation --------------------------
(***************************************************************************)
(* Updating and deleting a meeting that exists at Zoom.  A user's request  *)
(* records its intent, calls Zoom outside any transaction and records the  *)
(* answer under its operation id (UpdateProjectMeeting,                    *)
(* DeleteProjectMeeting).  What it leaves pending is claimed for a lease   *)
(* by a scheduled command (RecoverPendingZoomMeetingOperations), which     *)
(* dispatches a job (RecoverZoomMeetingOperationJob) that asks Zoom what   *)
(* happened and finishes, repeats or hands over the operation              *)
(* (PerformZoomMeetingRecovery).  A cache lock per meeting                 *)
(* (MeetingOperationLock) keeps requests and jobs from writing to Zoom     *)
(* together.                                                               *)
(*                                                                         *)
(* Every action is one database transaction or one call to Zoom.  One      *)
(* meeting is modelled: no row, lock or job is shared between meetings.    *)
(***************************************************************************)
EXTENDS MeetingRow, FiniteSets

CONSTANTS
  Request,      \* concurrent HTTP requests
  Worker,       \* queue worker processes
  Field, Val,   \* fields of a meeting and their values
  Password,     \* the field whose change Zoom answers without a body
  Payload,      \* the changes users ask for: values for some of the fields
  Absent,       \* Zoom does not have the meeting
  Orphan,       \* holder of a lock whose process died
  MaxJobs,      \* bound on the recovery jobs queued at once
  MaxFaults     \* bound on crashes, lost jobs and claims that outlive a job

ASSUME OperationAssumption ==
  /\ Password \in Field
  /\ \A p \in Payload : DOMAIN p \subseteq Field /\ \A f \in DOMAIN p : p[f] \in Val
  /\ Null \notin Payload \cup {Absent}
  /\ Null \notin {"patch", "delete", "snapshot", "apply", "gone",
                  "verify", "retry", "review"}
  /\ Absent \notin Payload \cup [Field -> Val]
  /\ Null \notin Request \cup Worker /\ Orphan \notin Request \cup Worker
  /\ Null # Orphan
  /\ Request \cap Worker = {}
  /\ MaxJobs \in Nat \ {0} /\ MaxFaults \in Nat

VARIABLES
  row,      \* the local meeting
  zoom,     \* the fields of Zoom's meeting, or Absent
  lock,     \* holder of the meeting's cache lock, or Null
  request,  \* what every HTTP request is doing
  worker,   \* what every queue worker is doing
  jobs,     \* queued recovery jobs
  reached,  \* history: the recorded operation has changed Zoom
  faults    \* faults so far

vars == <<row, zoom, lock, request, worker, jobs, reached, faults>>

Fields == [Field -> Val]

Row == [status: {"active", "updating", "update_failed",
                 "deleting", "delete_failed", "deleted"},
        opId: OpId \cup {Null}, opType: {"update", "delete", Null},
        payload: Payload \cup {Null},
        claim: Token \cup {Null}, lease: {"live", "expired", Null},
        avail: {"later", "due", Null}, attempts: 0..MaxAttempts, local: Fields]

Job == [op: OpId, token: Token]

HttpRequest == [pc: {"idle", "calling", "answered"}, op: OpId \cup {Null},
                type: {"update", "delete", Null}, payload: Payload \cup {Null},
                answer: {"ok", "unknown", "limited", "rejected", "broken", Null}]

Recovery == [pc: {"idle", "reading", "mismatched", "locking", "calling", "settling"},
             op: OpId \cup {Null}, token: Token \cup {Null},
             payload: Payload \cup {Null}, snapshot: Fields \cup {Null},
             goal: {"patch", "delete", "snapshot", "apply", "gone",
                    "verify", "retry", "review", Null}]

NoRequest ==
  [pc |-> "idle", op |-> Null, type |-> Null, payload |-> Null, answer |-> Null]

NoRecovery ==
  [pc |-> "idle", op |-> Null, token |-> Null, payload |-> Null,
   snapshot |-> Null, goal |-> Null]

TypeOK ==
  /\ row \in Row
  /\ zoom \in Fields \cup {Absent}
  /\ lock \in Request \cup Worker \cup {Orphan, Null}
  /\ request \in [Request -> HttpRequest]
  /\ worker \in [Worker -> Recovery]
  /\ jobs \subseteq Job
  /\ reached \in BOOLEAN
  /\ faults \in 0..MaxFaults

Init ==
  /\ \E fields \in Fields :
       /\ row = [status |-> "active", opId |-> Null, opType |-> Null,
                 payload |-> Null, claim |-> Null, lease |-> Null,
                 avail |-> Null, attempts |-> 0, local |-> fields]
       /\ zoom = fields
  /\ lock = Null
  /\ request = [r \in Request |-> NoRequest]
  /\ worker = [w \in Worker |-> NoRecovery]
  /\ jobs = {}
  /\ reached = FALSE
  /\ faults = 0

-----------------------------------------------------------------------------
FreshOp(op) ==
  /\ row.opId # op
  /\ \A r \in Request : request[r].op # op
  /\ \A w \in Worker : worker[w].op # op
  /\ \A j \in jobs : j.op # op

FreshToken(t) ==
  /\ row.claim # t
  /\ \A w \in Worker : worker[w].token # t
  /\ \A j \in jobs : j.token # t

Fault == faults < MaxFaults /\ faults' = faults + 1

Updated(fields, payload) ==
  [f \in Field |-> IF f \in DOMAIN payload THEN payload[f] ELSE fields[f]]

\* Variant of the next definition: one field that matches is enough.
HasSomeRequestedField(payload, fields) ==
  DOMAIN payload = {} \/ \E f \in DOMAIN payload : fields[f] = payload[f]

HasRequestedFields(payload, fields) ==
  \A f \in DOMAIN payload : fields[f] = payload[f]

IsPasswordOperation(payload) == Password \in DOMAIN payload

Unlocked(actor) == IF lock = actor THEN Null ELSE lock

\* What Zoom does with a write, and what the caller learns of it.  An absent
\* meeting counts as deleted; a lost or 5xx answer may hide a success; a 429 or
\* 4xx changes nothing; "broken" is any other exception, on either side of it.
ZoomReplies(type, payload) ==
  LET written == IF type = "delete" THEN Absent ELSE Updated(zoom, payload)
      able    == type = "delete" \/ zoom # Absent
  IN (IF able THEN [answer: {"ok", "unknown", "broken"},
                    zoom: {written}, reached: {TRUE}]
              ELSE {})
     \cup [answer: {"unknown", "limited", "rejected", "broken"},
           zoom: {zoom}, reached: {reached}]

-----------------------------------------------------------------------------
(* The user's request.  One that finds the lock taken or the status wrong  *)
(* is refused and changes nothing.                                         *)

Intent(type, op, payload, status) ==
  [row EXCEPT !.status = status, !.opId = op, !.opType = type,
              !.payload = payload, !.claim = Null, !.lease = "live",
              !.avail = Null, !.attempts = 0]

Begin(r, type, payload, status) ==
  /\ lock = Null /\ request[r].pc = "idle"
  /\ \E op \in OpId :
       /\ FreshOp(op)
       /\ row' = Intent(type, op, payload, status)
       /\ request' = [request EXCEPT ![r] =
            [NoRequest EXCEPT !.pc = "calling", !.op = op,
                              !.type = type, !.payload = payload]]
  /\ lock' = r
  /\ reached' = FALSE
  /\ UNCHANGED <<zoom, worker, jobs, faults>>

SaveUpdateIntent(r, payload) ==
  /\ row.status \in {"active", "update_failed"}
  /\ Begin(r, "update", payload, "updating")

SaveDeleteIntent(r) ==
  /\ row.status \in {"active", "update_failed", "delete_failed"}
  /\ Begin(r, "delete", Null, "deleting")

RequestCallsZoom(r) ==
  /\ request[r].pc = "calling"
  /\ \E reply \in ZoomReplies(request[r].type, request[r].payload) :
       /\ zoom' = reply.zoom
       /\ reached' = reply.reached
       /\ request' = [request EXCEPT ![r].pc = "answered", ![r].answer = reply.answer]
  /\ UNCHANGED <<row, lock, worker, jobs, faults>>

\* applyUpdateLocally, schedulePasswordVerification, markUpdateUnknown...,
\* rollbackToActive and markUpdateFailed of UpdateProjectMeeting.
UpdateOutcome(payload, answer) ==
  CASE answer = "ok" /\ IsPasswordOperation(payload) -> Waiting(row)
    [] answer = "ok" /\ ~IsPasswordOperation(payload) ->
         [Closed(row, "active") EXCEPT !.avail = row.avail,
                                       !.local = Updated(@, payload)]
    [] answer = "unknown"  -> [Waiting(row) EXCEPT !.attempts = @ + 1]
    [] answer = "limited"  -> Closed(row, "active")
    [] answer = "rejected" ->
         [HandedOver(row, "update_failed") EXCEPT !.attempts = @ + 1]
    [] answer = "broken"   -> row

\* markMeetingAsDeleted, markDeleteUnknown..., rollbackToActive and
\* markDeleteFailed of DeleteProjectMeeting.  They leave the payload alone.
DeleteOutcome(answer) ==
  CASE answer = "ok"       -> [Closed(row, "deleted") EXCEPT !.payload = row.payload]
    [] answer = "unknown"  -> [Waiting(row) EXCEPT !.attempts = @ + 1]
    [] answer = "limited"  -> [Closed(row, "active") EXCEPT !.payload = row.payload]
    [] answer = "rejected" ->
         [HandedOver(row, "delete_failed") EXCEPT !.attempts = @ + 1]
    [] answer = "broken"   -> row

(* executeWithOperationIdCheck, then the lock is released.                 *)
FinishRequest(r) ==
  LET q == request[r] IN
  /\ q.pc = "answered"
  /\ row' = IF ~IsOperationCurrent(row, q.op) THEN row
            ELSE IF q.type = "update" THEN UpdateOutcome(q.payload, q.answer)
            ELSE DeleteOutcome(q.answer)
  /\ request' = [request EXCEPT ![r] = NoRequest]
  /\ lock' = Unlocked(r)
  /\ UNCHANGED <<zoom, worker, jobs, reached, faults>>

\* The process serving the request dies; its call may have reached Zoom.
RequestCrashes(r) ==
  LET q == request[r] IN
  /\ Fault
  /\ q.pc # "idle"
  /\ \/ UNCHANGED <<zoom, reached>>
     \/ /\ q.pc = "calling"
        /\ \E reply \in ZoomReplies(q.type, q.payload) :
             zoom' = reply.zoom /\ reached' = reply.reached
  /\ request' = [request EXCEPT ![r] = NoRequest]
  /\ lock' = IF lock = r THEN Orphan ELSE lock
  /\ UNCHANGED <<row, worker, jobs>>

-----------------------------------------------------------------------------
(* The scheduled recovery: claim the row for a lease and dispatch a job.   *)
(* The command may die, or the queue be unreachable, between the two.      *)

ClaimNextDueOperation ==
  /\ Selected(row) /\ IsClaimable(row)
  /\ \E t \in Token :
       /\ FreshToken(t)
       /\ row' = [row EXCEPT !.claim = t, !.lease = "live"]
       /\ \/ /\ Cardinality(jobs) < MaxJobs
             /\ jobs' = jobs \cup {[op |-> row.opId, token |-> t]}
             /\ UNCHANGED faults
          \/ Fault /\ UNCHANGED jobs
  /\ UNCHANGED <<zoom, lock, request, worker, reached>>

-----------------------------------------------------------------------------
(* The recovery job.                                                       *)

Owns(w) ==
  /\ IsClaimValid(row, worker[w].token)
  /\ IsOperationCurrent(row, worker[w].op)

Moved(w, pc, goal) == [worker EXCEPT ![w].pc = pc, ![w].goal = goal]

Ended(w) == [worker EXCEPT ![w] = NoRecovery]

\* execute and decodeValidUpdatePayload: an update of nothing is not repeated.
StartRecovery(w, j) ==
  /\ worker[w].pc = "idle" /\ j \in jobs
  /\ jobs' = jobs \ {j}
  /\ LET begun(pc, goal) ==
           [pc |-> pc, op |-> j.op, token |-> j.token,
            payload |-> row.payload, snapshot |-> Null, goal |-> goal]
     IN worker' = IF ~(IsClaimValid(row, j.token) /\ IsOperationCurrent(row, j.op))
                  THEN worker
                  ELSE [worker EXCEPT ![w] =
                    IF row.opType = "delete" THEN begun("locking", "delete")
                    ELSE IF DOMAIN row.payload = {} THEN begun("settling", "review")
                    ELSE begun("reading", Null)]
  /\ UNCHANGED <<row, zoom, lock, request, reached, faults>>

\* fetchZoomMeeting and handleUpdateRecovery.  The read takes no lock.
ReadZoom(w) ==
  LET payload == worker[w].payload IN
  /\ worker[w].pc = "reading"
  /\ \/ worker' = Moved(w, "settling", "retry")     \* a transient error
     \/ worker' = Moved(w, "settling", "review")    \* a permanent error
     \/ /\ zoom = Absent
        /\ worker' = Moved(w, "locking", "gone")
     \/ /\ zoom # Absent /\ HasRequestedFields(payload, zoom)
        /\ worker' = [Moved(w, "locking", "snapshot") EXCEPT ![w].snapshot = zoom]
     \/ /\ zoom # Absent /\ ~HasRequestedFields(payload, zoom)
        /\ worker' = IF IsPasswordOperation(payload)
                     THEN Moved(w, "mismatched", "patch")
                     ELSE Moved(w, "locking", "patch")
  /\ UNCHANGED <<row, zoom, lock, request, jobs, reached, faults>>

\* A password operation pays an attempt for every mismatch, before its call.
ConsumeMismatchCycle(w) ==
  /\ worker[w].pc = "mismatched"
  /\ \/ /\ ~Owns(w)
        /\ worker' = Ended(w) /\ UNCHANGED row
     \/ /\ Owns(w) /\ ShouldRetry(row.attempts + 1)
        /\ row' = [row EXCEPT !.attempts = @ + 1]
        /\ worker' = Moved(w, "locking", "patch")
     \/ /\ Owns(w) /\ ~ShouldRetry(row.attempts + 1)
        /\ row' = [HandedOver(row, "update_failed") EXCEPT !.attempts = @ + 1]
        /\ worker' = Ended(w)
  /\ UNCHANGED <<zoom, lock, request, jobs, reached, faults>>

\* withValidatedOperationLock: the ownership is checked again under the lock.
TakeLock(w) ==
  LET goal == worker[w].goal IN
  /\ worker[w].pc = "locking" /\ lock = Null
  /\ IF Owns(w) /\ row.opType = (IF goal = "delete" THEN "delete" ELSE "update")
     THEN /\ lock' = w
          /\ worker' = Moved(w, IF goal \in {"patch", "delete"}
                                THEN "calling" ELSE "settling", goal)
     ELSE /\ worker' = Ended(w) /\ UNCHANGED lock
  /\ UNCHANGED <<row, zoom, request, jobs, reached, faults>>

LockTimesOut(w) ==
  /\ worker[w].pc = "locking" /\ lock # Null
  /\ worker' = Moved(w, "settling", "retry")
  /\ UNCHANGED <<row, zoom, lock, request, jobs, reached, faults>>

\* What the job does next.  A password operation is verified by a later read,
\* whether its call succeeded, was lost or was rate limited.
AfterCall(w, answer) ==
  LET verified == worker[w].goal = "patch" /\ IsPasswordOperation(worker[w].payload)
  IN CASE answer = "ok" /\ worker[w].goal = "delete" -> "gone"
       [] answer = "ok" /\ worker[w].goal = "patch" ->
            IF verified THEN "verify" ELSE "apply"
       [] answer \in {"unknown", "limited"} -> IF verified THEN "verify" ELSE "retry"
       [] answer = "rejected" -> "review"
       [] answer = "broken"   -> "retry"

\* An exception leaves the lock before its outcome is recorded.
WorkerCallsZoom(w) ==
  /\ worker[w].pc = "calling"
  /\ \E reply \in ZoomReplies(row.opType, worker[w].payload) :
       /\ zoom' = reply.zoom
       /\ reached' = reply.reached
       /\ worker' = Moved(w, "settling", AfterCall(w, reply.answer))
       /\ lock' = IF reply.answer = "ok" THEN lock ELSE Unlocked(w)
  /\ UNCHANGED <<row, request, jobs, faults>>

\* Variant of the next definition: the retry is not counted.
RetriedUncounted ==
  IF ShouldRetry(row.attempts + 1) THEN Waiting(row) ELSE Review(row)

Retried ==
  IF ShouldRetry(row.attempts + 1)
  THEN [Waiting(row) EXCEPT !.attempts = @ + 1]
  ELSE Review(row)

\* applyUpdateLocally, finalizeMeetingAsDeleted, scheduleVerification,
\* scheduleRetry and manualReview.
Settled(w) ==
  LET goal == worker[w].goal IN
  CASE goal = "snapshot" -> [Closed(row, "active") EXCEPT !.local = worker[w].snapshot]
    [] goal = "apply"    -> [Closed(row, "active") EXCEPT
                               !.local = Updated(@, worker[w].payload)]
    [] goal = "gone"     -> Closed(row, "deleted")
    [] goal = "verify"   -> Waiting(row)
    [] goal = "retry"    -> Retried
    [] goal = "review"   -> Review(row)

(* Every outcome is recorded under the row lock by the owner only.         *)
Settle(w) ==
  /\ worker[w].pc = "settling"
  /\ row' = IF Owns(w) THEN Settled(w) ELSE row
  /\ worker' = Ended(w)
  /\ lock' = Unlocked(w)
  /\ UNCHANGED <<zoom, request, jobs, reached, faults>>

\* The worker dies or is killed at the job's timeout.  The queue runs the job
\* again unless its tries are used up.
WorkerCrashes(w) ==
  /\ Fault
  /\ worker[w].pc # "idle"
  /\ \/ UNCHANGED <<zoom, reached>>
     \/ /\ worker[w].pc = "calling"
        /\ \E reply \in ZoomReplies(row.opType, worker[w].payload) :
             zoom' = reply.zoom /\ reached' = reply.reached
  /\ \/ UNCHANGED jobs
     \/ jobs' = jobs \cup {[op |-> worker[w].op, token |-> worker[w].token]}
  /\ worker' = Ended(w)
  /\ lock' = IF lock = w THEN Orphan ELSE lock
  /\ UNCHANGED <<row, request>>

-----------------------------------------------------------------------------
(* Time and the queue.                                                     *)

\* A request is over, by the timeout of its call, long before its lease is.  A
\* job's claim started when it was dispatched: it may lapse at any point.
LeaseExpires ==
  /\ row.lease = "live"
  /\ \A r \in Request : request[r].pc # "idle" => request[r].op # row.opId
  /\ IF \/ \E j \in jobs : j.token = row.claim
        \/ \E w \in Worker : worker[w].pc # "idle" /\ worker[w].token = row.claim
     THEN Fault ELSE UNCHANGED faults
  /\ row' = [row EXCEPT !.lease = "expired"]
  /\ UNCHANGED <<zoom, lock, request, worker, jobs, reached>>

RetryBecomesDue ==
  /\ row.avail = "later"
  /\ row' = [row EXCEPT !.avail = "due"]
  /\ UNCHANGED <<zoom, lock, request, worker, jobs, reached, faults>>

\* Variant of the next definition: the lock may expire under its holder.
HeldLockExpires ==
  /\ lock # Null
  /\ lock' = Null
  /\ UNCHANGED <<row, zoom, request, worker, jobs, reached, faults>>

OrphanedLockExpires ==
  /\ lock = Orphan
  /\ lock' = Null
  /\ UNCHANGED <<row, zoom, request, worker, jobs, reached, faults>>

LoseJob ==
  /\ Fault
  /\ \E j \in jobs : jobs' = jobs \ {j}
  /\ UNCHANGED <<row, zoom, lock, request, worker, reached>>

-----------------------------------------------------------------------------
RequestStep(r) ==
  \/ \E payload \in Payload : SaveUpdateIntent(r, payload)
  \/ SaveDeleteIntent(r)
  \/ RequestCallsZoom(r)
  \/ FinishRequest(r)
  \/ RequestCrashes(r)

Progress(w) ==
  \/ ReadZoom(w)
  \/ ConsumeMismatchCycle(w)
  \/ TakeLock(w)
  \/ LockTimesOut(w)
  \/ WorkerCallsZoom(w)
  \/ Settle(w)

WorkerStep(w) ==
  \/ \E j \in jobs : StartRecovery(w, j)
  \/ Progress(w)
  \/ WorkerCrashes(w)

Next ==
  \/ \E r \in Request : RequestStep(r)
  \/ \E w \in Worker : WorkerStep(w)
  \/ ClaimNextDueOperation
  \/ LeaseExpires
  \/ RetryBecomesDue
  \/ OrphanedLockExpires
  \/ LoseJob

Spec == Init /\ [][Next]_vars

(* Kernel::schedule runs meetings:recover-pending every minute; requests   *)
(* and jobs end by their timeouts; queued jobs are taken; time passes.     *)
Fairness ==
  /\ WF_vars(ClaimNextDueOperation)
  /\ \A r \in Request : WF_vars(RequestCallsZoom(r)) /\ WF_vars(FinishRequest(r))
  /\ \A w \in Worker : WF_vars(Progress(w))
  /\ WF_vars(\E w \in Worker, j \in jobs : StartRecovery(w, j))
  /\ WF_vars(LeaseExpires)
  /\ WF_vars(RetryBecomesDue)
  /\ WF_vars(OrphanedLockExpires)

FairSpec == Spec /\ Fairness

-----------------------------------------------------------------------------
(* Properties.                                                             *)

\* A claimed row has a lease.  A row with a claim and no lease would be
\* selected by every run of the recovery, refused by isClaimable and so end the
\* run before any other meeting is looked at.
ClaimHasLease == row.claim # Null => row.lease # Null

\* A pending operation is never stranded: it is recorded, and a lease or a
\* retry time will make the recovery select it, whatever crashed or was lost.
NeverStranded ==
  row.status \in Pending =>
    /\ row.opId # Null /\ row.opType # Null
    /\ row.lease # Null \/ row.avail # Null

\* Requests and jobs never write the meeting at Zoom at the same time, and
\* whoever writes still works for the operation the row records, so a write of
\* an abandoned operation cannot land on top of a newer one, even though a
\* job's claim may lapse during its call ("an expired recovery claim cannot
\* overlap a newer operation while the old worker still sends a remote
\* mutation", local-docs/.../zoom_outbox_plan.md).
Writing == {r \in Request : request[r].pc = "calling"}
             \cup {w \in Worker : worker[w].pc = "calling"}

OneCurrentWriter ==
  /\ \A a, b \in Writing : a = b
  /\ \A r \in Request : request[r].pc = "calling" => request[r].op = row.opId
  /\ \A w \in Worker : worker[w].pc = "calling" => worker[w].op = row.opId

\* The code keeps the promises of MeetingContract: see there.
StageOf(status) ==
  CASE status = "active"  -> "settled"
    [] status \in Rejected -> "review"
    [] OTHER -> status

Contract == INSTANCE MeetingContract WITH
  stage  <- StageOf(row.status),
  wanted <- IF row.opType = "delete" THEN Absent ELSE row.payload,
  local  <- row.local

ImplementsMeetingContract == Contract!Spec

\* Every update or deletion is settled in the end: confirmed, rolled back or
\* handed over for review, never pending for ever.
PendingIsSettled ==
  /\ row.status = "updating" ~> row.status # "updating"
  /\ row.status = "deleting" ~> row.status # "deleting"
=============================================================================
